------------------------------ MODULE HttpText ------------------------------
(***************************************************************************)
(* The text the HTTP parsers read, cut down to what they tell apart: the   *)
(* four delimiters, and letters that stand for every other character.      *)
(* Also the batch parser Si::http::parse_request (http/parse_request.hpp)  *)
(* with the lines it reads from Si::detail::line_source, as functions of   *)
(* the text.  Nothing is the result "boost::none" stands for.              *)
(***************************************************************************)
EXTENDS Integers, Sequences

SP == "space"
CO == "colon"
CR == "cr"
LF == "lf"

Delimiters == {SP, CO, CR, LF}

Nothing == [found |-> FALSE]

(* std::find: the first index of c in s from index i on, or behind the end. *)
Find(s, c, i) ==
  IF \E j \in i..Len(s) : s[j] = c
    THEN CHOOSE j \in i..Len(s) : s[j] = c /\ \A h \in i .. j - 1 : s[h] # c
    ELSE Len(s) + 1

NoArguments == [k \in {} |-> <<>>]

(* std::map::insert: the table a with an entry for k, unless it has one. *)
Inserted(a, k, v) == [x \in DOMAIN a \cup {k} |-> IF x \in DOMAIN a THEN a[x] ELSE v]

-----------------------------------------------------------------------------

(***************************************************************************)
(* line_source::copy_next of one line, from index i on.  A line ends with  *)
(* CR LF or with LF.  A CR before anything else becomes part of the line,  *)
(* and the character after it is dropped.  A line the text ends in is not  *)
(* delivered.                                                              *)
(***************************************************************************)
Line(s, i) ==
  LET Ends(next) == [found |-> TRUE, text |-> <<>>, next |-> next]
      Begins(c, l) == IF l.found THEN [l EXCEPT !.text = <<c>> \o @] ELSE Nothing
      line[j \in 1 .. Len(s) + 2] ==
        IF j > Len(s) THEN Nothing
        ELSE IF s[j] = LF THEN Ends(j + 1)
        ELSE IF s[j] # CR THEN Begins(s[j], line[j + 1])
        ELSE IF j + 1 > Len(s) THEN Nothing
        ELSE IF s[j + 1] = LF THEN Ends(j + 2)
        ELSE Begins(CR, line[j + 2])
  IN  line[i]

(* split_value_line: everything before the first colon, and behind it      *)
(* without one leading space.  Only defined for a line with a colon.       *)
SplitValueLine(l) ==
  LET colon == Find(l, CO, 1)
      second == IF colon < Len(l) /\ l[colon + 1] = SP THEN colon + 2 ELSE colon + 1
  IN  [key |-> SubSeq(l, 1, colon - 1), value |-> SubSeq(l, second, Len(l))]

(* Seeded bug: the end of the text counts as the empty line. *)
HeaderLinesLenient(s, i) ==
  LET args[j \in 1 .. Len(s) + 1] ==
        LET l == Line(s, j)
        IN  IF ~l.found \/ l.text = <<>>
              THEN [found |-> TRUE, arguments |-> NoArguments]
              ELSE LET v == SplitValueLine(l.text)
                   IN  [args[l.next] EXCEPT !.arguments = Inserted(@, v.key, v.value)]
  IN  args[i]

(* The header lines from index i up to the empty one; operator[] assigns,  *)
(* so that the last value of a repeated key is kept.                       *)
HeaderLines(s, i) ==
  LET args[j \in 1 .. Len(s) + 1] ==
        LET l == Line(s, j)
        IN  IF ~l.found THEN Nothing
            ELSE IF l.text = <<>> THEN [found |-> TRUE, arguments |-> NoArguments]
            ELSE LET v == SplitValueLine(l.text)
                     later == args[l.next]
                 IN  IF later.found
                       THEN [later EXCEPT !.arguments = Inserted(@, v.key, v.value)]
                       ELSE Nothing
  IN  args[i]

(* The header lines themselves, from index i up to the empty one. *)
HeaderTexts(s, i) ==
  LET texts[j \in 1 .. Len(s) + 1] ==
        LET l == Line(s, j)
        IN  IF ~l.found \/ l.text = <<>> THEN {} ELSE {l.text} \cup texts[l.next]
  IN  texts[i]

(* split_value_line looks at the character behind the first colon: it has  *)
(* to be one of the line.                                                  *)
ReadsWithin(s) ==
  LET l == Line(s, 1)
  IN  l.found => \A t \in HeaderTexts(s, l.next) : Find(t, CO, 1) < Len(t)

ParseRequest(s) ==
  LET l == Line(s, 1)
  IN  IF ~l.found THEN Nothing
      ELSE LET t == l.text
               methodEnd == Find(t, SP, 1)
               pathEnd == Find(t, SP, methodEnd + 1)
               headers == HeaderLines(s, l.next)
           IN  IF methodEnd > Len(t) \/ pathEnd > Len(t) \/ ~headers.found
                 THEN Nothing
                 ELSE [found |-> TRUE,
                       method |-> SubSeq(t, 1, methodEnd - 1),
                       path |-> SubSeq(t, methodEnd + 1, pathEnd - 1),
                       http_version |-> SubSeq(t, pathEnd + 1, Len(t)),
                       arguments |-> headers.arguments]

==============================================================================
