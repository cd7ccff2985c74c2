-------------------------------- MODULE Html --------------------------------
(***************************************************************************)
(* Programs that make documents: with the functions of html/tree.hpp, out  *)
(* of elements they keep in variables, or with Si::html::generator         *)
(* (html/generator.hpp), with callbacks inside of callbacks.               *)
(*                                                                         *)
(* An element of a tree is a function that appends to a sink, and a length *)
(* that is computed from its parts by the compiler.  When it becomes a     *)
(* part of another one the function is moved, or copied, depending on the  *)
(* compiler (config.hpp):                                                  *)
(*   "closures"  moved (GCC, which config.hpp takes for one with C++14);   *)
(*   "copies"    copied (clang, which is not known to have the captures).  *)
(***************************************************************************)
EXTENDS HtmlText, FiniteSets

CONSTANTS
  Alphabet,     \* the characters of what a program appends
  Names,        \* names of elements
  Attributes,   \* pairs of a key and a value
  EscapedTexts, \* texts to be escaped
  Raws,         \* texts not to be escaped
  MaxElements,  \* bound: elements of a tree in variables
  MaxEvents,    \* bound: events in a document of the generator
  MaxDepth      \* bound: elements that are open at a time

ASSUME AlphabetAssumption ==
  /\ Names \subseteq Seq(Alphabet)
  /\ \A a \in Attributes : a[1] \in Seq(Alphabet) /\ a[2] \in Seq(Alphabet)
  /\ EscapedTexts \subseteq Seq(Alphabet)
  /\ Raws \subseteq Seq(Alphabet)

VARIABLES
  build,      \* what the compiler makes of a part
  elements,   \* the elements of a tree, in the order they were made
  moved,      \* those that were given away, or made out of such
  text,       \* what the generator has appended
  open,       \* the elements whose callbacks are running
  within,     \* "content" or "attributes": the innermost callback
  said,       \* what the program has told the generator
  abandoned   \* a callback has thrown

tree == <<elements, moved>>
generator == <<text, open, within, said, abandoned>>
htmlVars == <<build, tree, generator>>

(* What something should mean, and the names and keys in it. *)
Meaning(events, words) == [events |-> events, words |-> words]

Joined(a, b) == Meaning(a.events \o b.events, a.words \cup b.words)

Around(name, a, c) ==
  Meaning(<<<<"open", name>>>> \o a.events \o c.events \o <<<<"close", name>>>>,
          {name} \cup a.words \cup c.words)

NoMeaning == Meaning(<<>>, {})

OfAttribute(attribute) == Meaning(<<<<"attribute">> \o attribute>>, {attribute[1]})

HtmlInit ==
  /\ build \in {"closures", "copies"}
  /\ elements = <<>> /\ moved = {}
  /\ text = <<>> /\ open = <<>> /\ within = "content" /\ said = NoMeaning
  /\ abandoned = FALSE

-----------------------------------------------------------------------------
(* html/tree.hpp                                                           *)

(* A part of what an element appends.  A string that a lambda owns is      *)
(* empty when it was moved.                                                *)
Fixed(t) == [kind |-> "fixed", text |-> t]
Owned(t) == [kind |-> "owned", text |-> t]

Element(sort, exact, length, pieces, means) ==
  [sort |-> sort, exact |-> exact, length |-> length, pieces |-> pieces, means |-> means]

Text(t) ==
  Element("content", FALSE, Len(t), <<Fixed(WriteString(t))>>, Meaning(Chars(t), {}))

DynamicText(t) ==
  Element("content", FALSE, 0, <<Owned(WriteString(t))>>, Meaning(Chars(t), {}))

Raw(t) == Element("content", TRUE, Len(t), <<Fixed(t)>>, Meaning(Read(t).events, {}))

Attribute(key, value) ==
  Element("attributes", FALSE, 1 + Len(key) + 1 + 1 + Len(value) + 1,
          <<Fixed(AddAttribute(key, value))>>, OfAttribute(<<key, value>>))

(* attribute(key, std::string) *)
DynamicAttribute(key, value) ==
  Element("attributes", FALSE, 1 + Len(key) + 1 + 1 + 1,
          <<Fixed(AddBareAttribute(key) \o <<"=", "\"">>), Owned(WriteString(value)),
            Fixed(<<"\"">>)>>,
          OfAttribute(<<key, value>>))

BareAttribute(key) ==
  Element("attributes", FALSE, 1 + Len(key), <<Fixed(AddBareAttribute(key))>>,
          OfAttribute(<<key>>))

NoAttributes == Element("attributes", TRUE, 0, <<>>, NoMeaning)

(* Seeded bug: the name is only counted once. *)
PairedTagOnce(name, a, c) ==
  Element("content", a.exact /\ c.exact, c.length + a.length + (1 + Len(name) + 1 + 2 + 1),
          <<Fixed(OpenAttributedElement(name))>> \o a.pieces \o <<Fixed(FinishAttributes)>>
            \o c.pieces \o <<Fixed(CloseElement(name))>>,
          Around(name, a.means, c.means))

PairedTag(name, a, c) ==
  Element("content", a.exact /\ c.exact,
          c.length + a.length + (1 + Len(name) + 1 + 2 + Len(name) + 1),
          <<Fixed(OpenAttributedElement(name))>> \o a.pieces \o <<Fixed(FinishAttributes)>>
            \o c.pieces \o <<Fixed(CloseElement(name))>>,
          Around(name, a.means, c.means))

UnpairedTag(name, a) ==
  Element("content", FALSE, 1 + Len(name) + 2 + a.length,
          <<Fixed(OpenAttributedElement(name))>> \o a.pieces
            \o <<Fixed(FinishAttributesOfUnpairedTag)>>,
          Around(name, a.means, NoMeaning))

Sequence(h, t) ==
  Element(h.sort, h.exact /\ t.exact, h.length + t.length, h.pieces \o t.pieces,
          Joined(h.means, t.means))

(* What is left of an element that was captured by std::move. *)
MovedFrom(e) ==
  CASE build = "copies" -> e
    [] build = "closures" ->
         [e EXCEPT !.pieces = [i \in DOMAIN @ |->
                                 IF @[i].kind = "owned" THEN Owned(<<>>) ELSE @[i]]]

(* The program makes a new leaf. *)
Leaf(e) ==
  /\ elements' = Append(elements, e)
  /\ UNCHANGED <<build, moved, generator>>

MakeLeaf ==
  \/ \E t \in EscapedTexts : Leaf(Text(t)) \/ Leaf(DynamicText(t))
  \/ \E t \in Raws : Leaf(Raw(t))
  \/ \E a \in Attributes :
       Leaf(Attribute(a[1], a[2])) \/ Leaf(DynamicAttribute(a[1], a[2]))
                                   \/ Leaf(BareAttribute(a[1]))

Of(sort) == {i \in DOMAIN elements : elements[i].sort = sort}

(* A new element e of parts, of which those in `given` are moved; some are *)
(* `empty` already.                                                        *)
Composed(e, given, empty) ==
  /\ elements' = Append([i \in DOMAIN elements |->
                           IF i \in given THEN MovedFrom(elements[i]) ELSE elements[i]], e)
  /\ moved' = moved \cup given \cup (IF empty # {} THEN {Len(elements) + 1} ELSE {})
  /\ UNCHANGED <<build, generator>>

(* Seeded bug: the attributes are moved, too. *)
TagMovesAttributes ==
  \E name \in Names, c \in Of("content") :
    \/ Composed(PairedTag(name, NoAttributes, elements[c]), {c}, moved \cap {c})
    \/ \E a \in Of("attributes") :
         /\ elements' = Append([i \in DOMAIN elements |->
                                  IF i \in {a, c} THEN MovedFrom(elements[i]) ELSE elements[i]],
                               PairedTag(name, elements[a], elements[c]))
         /\ moved' = moved \cup {c}
         /\ UNCHANGED <<build, generator>>

(* tag(): the content is moved, and the attributes are forwarded: what is  *)
(* in a variable is copied.                                                *)
Tag ==
  \E name \in Names, c \in Of("content") :
    \/ Composed(PairedTag(name, NoAttributes, elements[c]), {c}, moved \cap {c})
    \/ \E a \in Of("attributes") :
         Composed(PairedTag(name, elements[a], elements[c]), {c}, moved \cap {a, c})

EmptyTag ==
  \E name \in Names :
    \/ Leaf(UnpairedTag(name, NoAttributes))
    \/ \E a \in Of("attributes") :
         Composed(UnpairedTag(name, elements[a]), {}, moved \cap {a})

(* sequence(head, tail), and operator+: the tail is moved first, even if   *)
(* it is the head.                                                         *)
MakeSequence ==
  \E h, t \in DOMAIN elements :
    LET head == IF h = t THEN MovedFrom(elements[h]) ELSE elements[h]
    IN  /\ elements[h].sort = elements[t].sort
        /\ Composed(Sequence(head, elements[t]), {h, t},
                    IF h = t THEN {h} ELSE moved \cap {h, t})

(* The program is one that makes a tree. *)
MakeElement ==
  /\ text = <<>>
  /\ Len(elements) < MaxElements
  /\ MakeLeaf \/ Tag \/ EmptyTag \/ MakeSequence

-----------------------------------------------------------------------------
(* html/generator.hpp                                                      *)

(* The program appends t, which means m, from the innermost callback. *)
Appends(t, m) ==
  /\ Len(said.events) < MaxEvents
  /\ text' = text \o t
  /\ said' = Joined(said, m)
  /\ UNCHANGED <<build, tree, abandoned>>

Write ==
  /\ within = "content"
  /\ \/ \E t \in EscapedTexts : Appends(WriteString(t), Meaning(Chars(t), {}))
     \/ \E t \in Raws : Appends(t, Meaning(Read(t).events, {}))
     \/ \E name \in Names : Appends(UnpairedElement(name), Around(name, NoMeaning, NoMeaning))
  /\ UNCHANGED <<open, within>>

(* element(): the callback for the content or for the attributes is called. *)
BeginElement ==
  /\ within = "content" /\ Len(open) < MaxDepth
  /\ \E name \in Names :
       /\ open' = Append(open, name)
       /\ \/ Appends(OpenElement(name), Meaning(<<<<"open", name>>>>, {name}))
             /\ UNCHANGED within
          \/ Appends(OpenAttributedElement(name), Meaning(<<<<"open", name>>>>, {name}))
             /\ within' = "attributes"

AddAttributes ==
  /\ within = "attributes"
  /\ \E a \in Attributes :
       \/ Appends(AddAttribute(a[1], a[2]), OfAttribute(a))
       \/ Appends(AddBareAttribute(a[1]), OfAttribute(<<a[1]>>))
  /\ UNCHANGED <<open, within>>

(* Seeded bug: the callback for the content is called inside of the tag. *)
EndAttributesEarly ==
  /\ within = "attributes"
  /\ within' = "content"
  /\ UNCHANGED <<build, tree, text, open, said, abandoned>>

(* The callback for the attributes returns. *)
EndAttributes ==
  /\ within = "attributes"
  /\ within' = "content"
  /\ \/ Appends(FinishAttributes, NoMeaning) /\ UNCHANGED open
     \/ Appends(FinishAttributesOfUnpairedTag, Meaning(<<<<"close", Last(open)>>>>, {}))
        /\ open' = Front(open)

(* The callback for the content returns. *)
EndContent ==
  /\ within = "content" /\ open # <<>>
  /\ Appends(CloseElement(Last(open)), Meaning(<<<<"close", Last(open)>>>>, {}))
  /\ open' = Front(open)
  /\ UNCHANGED within

(* The innermost callback throws, and a callback further out, or what is   *)
(* around them all, catches: nothing is closed on the way.                 *)
Throw ==
  /\ open # <<>>
  /\ \E n \in 0..(Len(open) - 1) : open' = SubSeq(open, 1, n)
  /\ within' = "content"
  /\ abandoned' = TRUE
  /\ UNCHANGED <<build, tree, text, said>>

(* The program is one that uses a generator. *)
Generate ==
  /\ elements = <<>>
  /\ Write \/ BeginElement \/ AddAttributes \/ EndAttributes \/ EndContent \/ Throw

HtmlNext == MakeElement \/ Generate

HtmlSpec == HtmlInit /\ [][HtmlNext]_htmlVars

-----------------------------------------------------------------------------

(* What an element appends. *)
Generated(e) == FlattenSeq([i \in DOMAIN e.pieces |-> e.pieces[i].text])

(* Names and keys without special characters. *)
Plain(words) == \A w \in words : \A i \in DOMAIN w : w[i] \notin Special

(***************************************************************************)
(* The length that the compiler has computed for an element is one that    *)
(* its text has at least, and exactly if it says so, however it was put    *)
(* together and even when its parts were moved away before; except for     *)
(* names with special characters, which become longer in the opening tag.  *)
(* That is so for elements of tree.hpp; a length that a program declares   *)
(* for a function of its own (fixed_length) is one nobody checks.          *)
(***************************************************************************)
LengthsHold ==
  \A i \in DOMAIN elements :
    LET e == elements[i]
        n == Len(Generated(e))
    IN  n >= e.length /\ (e.exact /\ Plain(e.means.words) => n = e.length)

(***************************************************************************)
(* An element in a variable can be used again and again as the attributes  *)
(* of a tag.  It can be used as the content of a tag or in a sequence, but *)
(* then what it appends may change without a word, unless the compiler     *)
(* makes copies; and so may what is made of it from then on,               *)
(* sequence(e, e) included.  And the document means what it was made       *)
(* from exactly if all names and keys are plain.                           *)
(***************************************************************************)
PartsStayUsable ==
  \A i \in DOMAIN elements :
    LET e == elements[i]
    IN  e.sort = "content" =>
          \/ Means(Generated(e), e.means.events) <=> Plain(e.means.words)
          \/ build = "closures" /\ i \in moved

(***************************************************************************)
(* What a program writes with a generator can be read back once the        *)
(* outermost callback has returned, whatever is in values and texts; and   *)
(* that is so exactly if no callback has thrown, and the names and keys    *)
(* have no special characters, which the closing tags and the keys do not  *)
(* escape as the opening tags do.                                          *)
(***************************************************************************)
GeneratedIsReadBack ==
  open = <<>> =>
    (Means(text, said.events) <=> Plain(said.words) /\ ~abandoned)

=============================================================================
