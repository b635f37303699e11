------------------------------ MODULE MCTokens ------------------------------
(* ResponseFileTokens on files of up to MaxWords words, quoted or plain, with *)
(* every kind of separator.                                                   *)
EXTENDS ResponseFileTokens, SequencesExt, FiniteSets

CONSTANTS MaxWords,     \* how many words a file has
          MaxLength     \* how long its words are

Chars == {"a", "sp", "lf", "cr", "quote", "bs", "hash"}
Spaces == {"sp", "lf", "cr"}
LineEnds == {"lf", "cr"}

\* std::quoted()
Escaped(w) == FlattenSeq([k \in 1..Len(w) |->
                  IF w[k] \in {"quote", "bs"} THEN <<"bs", w[k]>> ELSE <<w[k]>>])
Quoted(w) == <<"quote">> \o Escaped(w) \o <<"quote">>

\* A word as it may be written: quoted, or plain when that reads the same.
Plain == BoundedSeq({"a", "bs"}, MaxLength) \ {<< >>}
Special == {"sp", "quote", "bs", "hash"}
Written == {[word |-> w, as |-> Quoted(w)] : w \in BoundedSeq(Special, MaxLength)}
           \cup {[word |-> w, as |-> w] : w \in Plain}
           \cup {[word |-> <<"bs", "a">>, as |-> <<"quote", "bs", "a", "quote">>]}

Separators == {<<"sp">>, <<"sp", "hash", "a", "quote", "lf">>, <<"lf", "hash", "cr">>}
Trailers == {<< >>, <<"lf">>, <<"lf", "hash", "a">>}

FilesOf(ws, before, after) ==
    [text |-> FlattenSeq([k \in 1..Len(ws) |->
                 (IF k = 1 THEN << >> ELSE before) \o ws[k].as]) \o after,
     words |-> [k \in 1..Len(ws) |-> ws[k].word]]

SavedFiles == {FilesOf(ws, b, a) : ws \in BoundedSeq(Written, MaxWords),
                                   b \in Separators, a \in Trailers}

\* Longer files of short words, for the comparison of distant copies.
ShortWords == {[word |-> <<"a">>, as |-> <<"a">>],
               [word |-> << >>, as |-> <<"quote", "quote">>]}
LongFiles == {FilesOf(ws, b, a) : ws \in BoundedSeq(ShortWords, 4),
                                  b \in Separators, a \in Trailers}

\* A quote that is never closed.
Unclosed == [text |-> <<"quote", "sp", "bs">>, words |-> <<<<"quote", "sp", "bs">>>>]

\* '#' with nothing before it: it ends a plain word, and what follows is read; after
\* a closing quote it starts a comment.
AfterPlain == {FilesOf(<<[word |-> v, as |-> v], w>>, <<"hash">>, << >>) :
                  v \in Plain, w \in Written}
AfterQuote == {FilesOf(<<[word |-> <<v>>, as |-> Quoted(<<v>>)]>>, << >>,
                       <<"hash">> \o w.as) : v \in Special, w \in Written}

ManyFiles == SavedFiles \cup LongFiles \cup {Unclosed} \cup AfterPlain \cup AfterQuote

=============================================================================
