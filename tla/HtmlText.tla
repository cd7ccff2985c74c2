------------------------------ MODULE HtmlText ------------------------------
(***************************************************************************)
(* The text that the functions of html/generator.hpp append to a sink, and *)
(* a reader of such texts as the reference for what they mean.  A text is  *)
(* a sequence of characters; the name of an entity is shortened to one     *)
(* letter.  The apostrophe, which is a fifth special character, is left    *)
(* out: it is escaped like the others and ends nothing.                    *)
(***************************************************************************)
EXTENDS Integers, SequencesExt

Letters == [amp |-> "&", lt |-> "<", gt |-> ">", quot |-> "\""]
Special == {Letters[l] : l \in DOMAIN Letters}

WriteChar(c) ==
  IF c \in Special
    THEN <<"&", CHOOSE l \in DOMAIN Letters : Letters[l] = c, ";">> ELSE <<c>>

WriteString(text) == FlattenSeq([i \in DOMAIN text |-> WriteChar(text[i])])

OpenAttributedElement(name) == <<"<">> \o WriteString(name)
FinishAttributes == <<">">>
FinishAttributesOfUnpairedTag == <<"/", ">">>

(* The key is not escaped. *)
AddBareAttribute(key) == <<" ">> \o key
AddAttribute(key, value) ==
  AddBareAttribute(key) \o <<"=", "\"">> \o WriteString(value) \o <<"\"">>

OpenElement(name) == OpenAttributedElement(name) \o FinishAttributes

(* Neither is the name in these. *)
CloseElement(name) == <<"<", "/">> \o name \o <<">">>
UnpairedElement(name) == <<"<">> \o name \o FinishAttributesOfUnpairedTag

-----------------------------------------------------------------------------
(* The reader: one character after the other makes events.                 *)

Start ==
  [in |-> "text", ref |-> <<>>, name |-> <<>>, value |-> <<>>, open |-> <<>>,
   events |-> <<>>]

Emit(p, event) == [p EXCEPT !.events = Append(@, event)]

Chars(text) == [i \in DOMAIN text |-> <<"char", text[i]>>]

TakeChar(p, c) ==
  IF p.in = "text" THEN Emit(p, <<"char", c>>) ELSE [p EXCEPT !.value = Append(@, c)]

TakeName(p, c) == [p EXCEPT !.name = Append(@, c)]

Opened(p) ==
  IF p.name = <<>> THEN [p EXCEPT !.in = "bad"]
  ELSE [Emit(p, <<"open", p.name>>) EXCEPT !.open = Append(@, p.name), !.name = <<>>]

Closed(p) ==
  [Emit(p, <<"close", Last(p.open)>>) EXCEPT !.in = "text", !.open = Front(@)]

(* What comes behind the name of a tag or an attribute. *)
Behind(p, c) ==
  IF p.in = "bad" THEN p
  ELSE CASE c = " " -> [p EXCEPT !.in = "key", !.name = <<>>]
         [] c = ">" -> [p EXCEPT !.in = "text"]
         [] c = "/" -> [p EXCEPT !.in = "unpaired"]
         [] OTHER -> [p EXCEPT !.in = "bad"]

ReadChar(p, c) ==
  CASE p.ref # <<>> /\ c # ";" -> [p EXCEPT !.ref = Append(@, c)]
    [] p.ref # <<>> /\ c = ";" ->
         IF Len(p.ref) = 2 /\ p.ref[2] \in DOMAIN Letters
           THEN TakeChar([p EXCEPT !.ref = <<>>], Letters[p.ref[2]])
           ELSE [p EXCEPT !.in = "bad"]
    [] p.in = "text" ->
         IF c = "<" THEN [p EXCEPT !.in = "tag", !.name = <<>>]
         ELSE IF c = "&" THEN [p EXCEPT !.ref = <<c>>]
         ELSE TakeChar(p, c)
    [] p.in = "tag" ->
         IF c = "/" /\ p.name = <<>> THEN [p EXCEPT !.in = "closing"]
         ELSE IF c \in {" ", ">", "/"} THEN Behind(Opened(p), c)
         ELSE IF c = "<" THEN [p EXCEPT !.in = "bad"]
         ELSE TakeName(p, c)
    [] p.in = "closing" ->
         IF c # ">" THEN TakeName(p, c)
         ELSE IF p.open # <<>> /\ Last(p.open) = p.name THEN Closed(p)
         ELSE [p EXCEPT !.in = "bad"]
    [] p.in = "key" ->
         IF c = "=" THEN [p EXCEPT !.in = "equals"]
         ELSE IF c \in {" ", ">", "/"} THEN Behind(Emit(p, <<"attribute", p.name>>), c)
         ELSE TakeName(p, c)
    [] p.in = "equals" -> [p EXCEPT !.in = IF c = "\"" THEN "value" ELSE "bad",
                                    !.value = <<>>]
    [] p.in = "value" ->
         IF c = "\"" THEN [Emit(p, <<"attribute", p.name, p.value>>) EXCEPT !.in = "behind"]
         ELSE IF c = "&" THEN [p EXCEPT !.ref = <<c>>]
         ELSE TakeChar(p, c)
    [] p.in = "behind" -> Behind(p, c)
    [] p.in = "unpaired" -> IF c = ">" THEN Closed(p) ELSE [p EXCEPT !.in = "bad"]
    [] OTHER -> p

Read(text) == FoldLeft(ReadChar, Start, text)

(* The text is complete and means these events. *)
Means(text, events) ==
  LET r == Read(text)
  IN  r.in = "text" /\ r.ref = <<>> /\ r.open = <<>> /\ r.events = events

=============================================================================
