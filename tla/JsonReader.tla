----------------------------- MODULE JsonReader -----------------------------
(***************************************************************************)
(* load_json_file()'s reading of a file: the grammar of storage.hpp        *)
(* 254-466 run over the text, whose callbacks append the words of the      *)
(* command line that the file stands for.  The text is the sequence of its *)
(* symbols; whitespace and comments between them are skipped and left out. *)
(* The rules are LL(1), so one symbol decides each step, and what is yet   *)
(* to be closed is a stack.                                                *)
(***************************************************************************)
EXTENDS Naturals, Sequences

CONSTANT Word   \* what a string, number or literal is as an argument

Structure == [is : {"{", "}", "[", "]", ",", ":"}]
\* A number's word is std::to_string(double), a literal's "true", "false" or "null".
Scalar == [is : {"string", "number", "literal"}, word : Word]
\* Characters that begin no symbol, or end in the middle of one.
Junk == [is : {"junk"}]
Symbol == Structure \cup Scalar \cup Junk

VARIABLES
    text,       \* the symbols of the file
    at,         \* the next of them
    stack,      \* the arrays and objects that are open, innermost last
    expects,    \* what may come next; or the verdict, "accepted" or "malformed"
    words       \* args: what the callbacks have appended

vars == <<text, at, stack, expects, words>>

-----------------------------------------------------------------------------

Reading == expects \notin {"accepted", "malformed"}
AtTextEnd == at > Len(text)
Is(kinds) == Reading /\ ~AtTextEnd /\ text[at].is \in kinds
Innermost == stack[Len(stack)]
Within(kind) == stack # << >> /\ Innermost = kind

\* What follows a value.
AfterValue(s) == IF s = << >> THEN "end" ELSE "more"

Step(next) == at' = at + 1 /\ expects' = next /\ UNCHANGED text

\* value = number | bool | null | string | array | object
Values == {"value", "value or ]"}

ReadScalar ==
    /\ expects \in Values /\ Is({"string", "number", "literal"})
    /\ words' = Append(words, text[at].word)
    /\ Step(AfterValue(stack))
    /\ UNCHANGED stack

OpenArray ==
    /\ expects \in Values /\ Is({"["})
    /\ stack' = Append(stack, "array")
    /\ Step("value or ]")
    /\ UNCHANGED words

OpenObject ==
    /\ expects \in Values /\ Is({"{"})
    /\ stack' = Append(stack, "object")
    /\ Step("key or }")
    /\ UNCHANGED words

\* object_element = key > ':' > value; a key becomes a word as it is.
ReadKey ==
    /\ expects \in {"key", "key or }"} /\ Is({"string"})
    /\ words' = Append(words, text[at].word)
    /\ Step(":")
    /\ UNCHANGED stack

ReadColon == expects = ":" /\ Is({":"}) /\ Step("value") /\ UNCHANGED <<stack, words>>

\* Slip: what may follow '[' or '{' may follow ','.
ReadAnyComma ==
    /\ expects = "more" /\ Is({","})
    /\ Step(IF Innermost = "array" THEN "value or ]" ELSE "key or }")
    /\ UNCHANGED <<stack, words>>

\* value % ',' and object_element % ',': another has to follow.
ReadComma ==
    /\ expects = "more" /\ Is({","})
    /\ Step(IF Innermost = "array" THEN "value" ELSE "key")
    /\ UNCHANGED <<stack, words>>

Outer == SubSeq(stack, 1, Len(stack) - 1)
Close == stack' = Outer /\ Step(AfterValue(Outer)) /\ UNCHANGED words

CloseArray == expects \in {"value or ]", "more"} /\ Within("array") /\ Is({"]"}) /\ Close
CloseObject == expects \in {"key or }", "more"} /\ Within("object") /\ Is({"}"}) /\ Close

ReadSymbol == \/ ReadScalar \/ OpenArray \/ OpenObject \/ ReadKey \/ ReadColon
              \/ ReadComma \/ CloseArray \/ CloseObject

\* The symbols that some action of ReadSymbol reads here.
Expected ==
    CASE expects = "value"      -> {"string", "number", "literal", "[", "{"}
      [] expects = "value or ]" -> {"string", "number", "literal", "[", "{", "]"}
      [] expects = "key"        -> {"string"}
      [] expects = "key or }"   -> {"string", "}"}
      [] expects = ":"          -> {":"}
      [] expects = "more"       -> {",", IF Innermost = "array" THEN "]" ELSE "}"}
      [] expects = "end"        -> {}

\* A '>' that does not match, or no alternative that does, or a text that goes on
\* after the value: callback_parse() has to match all of it.
Mismatch ==
    /\ Reading
    /\ IF AtTextEnd THEN expects # "end" ELSE text[at].is \notin Expected
    /\ expects' = "malformed"
    /\ UNCHANGED <<text, at, stack, words>>

Accept ==
    /\ expects = "end" /\ AtTextEnd
    /\ expects' = "accepted"
    /\ UNCHANGED <<text, at, stack, words>>

-----------------------------------------------------------------------------

Start == at = 1 /\ stack = << >> /\ expects = "value" /\ words = << >>
Init == text \in Seq(Symbol) /\ Start
Next == ReadSymbol \/ Mismatch \/ Accept
Spec == Init /\ [][Next]_vars

TypeOK ==
    /\ text \in Seq(Symbol)
    /\ at \in 1..(Len(text) + 1)
    /\ stack \in Seq({"array", "object"})
    /\ expects \in {"value", "value or ]", "key", "key or }", ":", "more", "end",
                    "accepted", "malformed"}
    /\ words \in Seq(Word)

-----------------------------------------------------------------------------
(* What a document is, by the shape of a whole text. *)

\* Symbols i to j are what "part" names: a value, the elements between brackets,
\* or the members between braces.
IsPart[part \in {"value", "elements", "members"}, i \in 1..(Len(text) + 1),
       j \in 0..Len(text)] ==
    LET is(k) == text[k].is
        split(whole, first) ==
            \/ first[i, j]
            \/ \E k \in (i + 1)..(j - 1) :
                  is(k) = "," /\ first[i, k - 1] /\ IsPart[whole, k + 1, j]
        value == [a \in {i}, b \in i..j |-> IsPart["value", a, b]]
        member == [a \in {i}, b \in i..j |->
                      /\ b >= a + 2 /\ is(a) = "string" /\ is(a + 1) = ":"
                      /\ IsPart["value", a + 2, b]]
    IN /\ i <= j
       /\ CASE part = "value" ->
                  \/ i = j /\ is(i) \in {"string", "number", "literal"}
                  \/ /\ i < j /\ is(i) = "[" /\ is(j) = "]"
                     /\ j = i + 1 \/ IsPart["elements", i + 1, j - 1]
                  \/ /\ i < j /\ is(i) = "{" /\ is(j) = "}"
                     /\ j = i + 1 \/ IsPart["members", i + 1, j - 1]
            [] part = "elements" -> split("elements", value)
            [] part = "members" -> split("members", member)

IsDocument == IsPart["value", 1, Len(text)]

\* Every string, key, number and literal of the text, in order.
AllWords ==
    LET scalars == SelectSeq(text, LAMBDA s : s.is \in {"string", "number", "literal"})
    IN [k \in 1..Len(scalars) |-> scalars[k].word]

\* A file is loaded when its text is one JSON value and nothing else, and then
\* every word in it reaches the parser, in the order of the text (storage.hpp
\* 426-466, 645-664).  The callbacks append words while the text is read, so that
\* a text refused later has left some behind; nobody looks at these.
ReadsJustTheDocuments ==
    /\ expects = "accepted" => IsDocument /\ words = AllWords
    /\ expects = "malformed" => ~IsDocument

=============================================================================
