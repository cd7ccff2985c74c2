------------------------------- MODULE MCHtml -------------------------------
EXTENDS Html

MCAlphabet == {"b", "k", "v", "t", "r", "/", "<", ">", "&", "\""}

(* A name that needs no escaping, and one that does. *)
MCNames == {<<"b">>, <<">">>}

MCAttributes == {<<<<"k">>, <<"\"">>>>, <<<<"k">>, <<>>>>, <<<<">">>, <<"v">>>>}
MCTexts == {<<"t">>, <<"<", "&">>}
MCRaws == {<<"<", "r", "/", ">">>}

=============================================================================
