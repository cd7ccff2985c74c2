-------------------------- MODULE MCHttpConnection --------------------------
EXTENDS HttpConnection, TLC

MCOthers == {"a", "b", "1", "2"}

(* Nothing, a letter, what a value may have in front, and the delimiters. *)
Parts == {<<>>, <<"a">>, <<SP, "a">>, <<"a", CO>>, <<CR, "a">>}

(* No arguments, one, and two with an empty and a spaced value. *)
Tables ==
  {NoArguments} \cup {k :> v : k \in Parts, v \in Parts}
    \cup {<<"a">> :> <<SP, SP>> @@ <<"b">> :> <<>>}

MCRequests ==
  [method : {<<"a">>, <<>>, <<"a", SP>>}, path : Parts \ {<<>>, <<"a", CO>>},
   http_version : {<<>>, <<SP, "a">>}, arguments : Tables]

MCNumerals == <<"1">> :> 1 @@ <<"2">> :> 2

MCResponses ==
  [http_version : Parts, status : {1, 2}, status_text : Parts, arguments : Tables]

-----------------------------------------------------------------------------
(* Texts of clients that do not use this library.                          *)

RequestLine == <<"a", SP, "b", SP, "a", CR, LF>>

(* A usual header, one without a space and a value, a repeated key, a line  *)
(* without its LF, one with spaces and a colon in its value, and one        *)
(* without a colon.                                                         *)
Headers ==
  { <<"a", CO, SP, "b", CR, LF>>,
    <<"b", CO, CR, LF>>,
    <<"a", CO, "a", CR, LF>>,
    <<"b", CO, "b", CR>>,
    <<"a", "b", CO, SP, SP, CO, CR, LF>>,
    <<"b", CR, LF>> }

(* The empty line, with and without its LF, and what may follow it. *)
Endings ==
  { <<CR, LF>>,
    <<CR>> \o RequestLine,
    <<CR, LF>> \o RequestLine \o <<CR, LF>> }

MCTexts ==
  {RequestLine \o e : e \in Endings}
    \cup {RequestLine \o h \o i \o e : h \in Headers, i \in Headers, e \in Endings}
    \cup { <<SP, SP, CR, LF, CO, CR, LF, CR, LF>>,
           <<"a", SP, CR, LF, SP, "b", CR, CR>>,
           <<"a", SP, "b", SP, "a", LF, CR, LF>> }

==============================================================================
