------------------------- MODULE ResponseFileTokens -------------------------
(***************************************************************************)
(* response_file_arg_iter of arg_view.hpp: the words of a response file,   *)
(* read one character at a time by ++ until the iterator equals the end    *)
(* iterator.  Words are separated by whitespace and comments; a word may   *)
(* be quoted, with \ before a quote or a backslash inside the quotes.      *)
(***************************************************************************)
EXTENDS Naturals, Sequences

CONSTANTS Char,         \* the characters a file can contain
          Space,        \* those that std::isspace() accepts
          LineEnd,      \* '\n', '\v', '\f' and '\r', where a comment ends
          LF, Quote, Backslash, Hash,
          Files         \* the files to read: [text, words], what was written
                        \* and the words it was written for

ASSUME CharType ==
    /\ LineEnd \subseteq Space /\ Space \subseteq Char
    /\ LF \in LineEnd
    /\ {Quote, Backslash, Hash} \subseteq Char \ Space
    /\ Files \subseteq [text : Seq(Char), words : Seq(Seq(Char))]

VARIABLES
    file,           \* the file
    it,             \* it_: the character to read next; past the text, it is eos
    current,        \* *current_
    inQuotes,       \* in_quotes
    justBeforeEnd,  \* just_before_end_
    at,             \* where operator++ is
    words,          \* history: every *it a reader saw before it reached the end
    copy,           \* initial_first, a copy of the iterator; End between passes
    refused         \* the iterator equalled its copy after a pass

vars == <<file, it, current, inQuotes, justBeforeEnd, at, words, copy,
          refused>>
reader == <<words, copy, refused>>

text == file.text
eos == it > Len(text)
c == text[it]
Index == Len(words)

-----------------------------------------------------------------------------
(* operator++.  "at" is "skip" in the first skip(), "word" in the loop over  *)
(* a word, "finish" in final_business(), and "ready" once it has returned.   *)

\* A line's end or the text's, from p on.
RestOfComment(p) ==
    CHOOSE q \in p..(Len(text) + 1) :
        /\ q <= Len(text) => text[q] \in LineEnd
        /\ \A r \in p..(q - 1) : text[r] \notin LineEnd

Skipping == at \in {"skip", "finish"}

SkipSpace ==
    /\ Skipping /\ ~eos /\ c \in Space
    /\ it' = it + 1
    /\ UNCHANGED <<file, current, inQuotes, justBeforeEnd, at, reader>>

\* Slip: a comment that the text ends in is never stepped over.
SkipCommentToLineEnd ==
    /\ Skipping /\ ~eos /\ c = Hash
    /\ LET q == RestOfComment(it)
       IN it' = IF q > Len(text) THEN it ELSE IF text[q] = LF THEN q + 1 ELSE q
    /\ UNCHANGED <<file, current, inQuotes, justBeforeEnd, at, reader>>

\* At eos, *it_ is the last character read, which ended no line.
SkipComment ==
    /\ Skipping /\ ~eos /\ c = Hash
    /\ LET q == RestOfComment(it)
       IN it' = IF q <= Len(text) /\ text[q] = LF THEN q + 1 ELSE q
    /\ UNCHANGED <<file, current, inQuotes, justBeforeEnd, at, reader>>

Skipped == ~eos => c \notin Space \cup {Hash}

BeginWord ==
    /\ at = "skip" /\ Skipped
    /\ IF eos THEN justBeforeEnd' = FALSE /\ at' = "ready"
              ELSE UNCHANGED justBeforeEnd /\ at' = "word"
    /\ inQuotes' = FALSE
    /\ UNCHANGED <<file, it, current, reader>>

\* A quote, kept in the word; a closing one ends it.
ReadQuote ==
    /\ at = "word" /\ ~eos /\ c = Quote
    /\ current' = Append(current, c)
    /\ inQuotes' = ~inQuotes
    /\ at' = IF inQuotes THEN "finish" ELSE "word"
    /\ it' = it + 1
    /\ UNCHANGED <<file, justBeforeEnd, reader>>

\* Slip: \ stays before the quote it escapes.
ReadEscapeKept ==
    /\ at = "word" /\ ~eos /\ c = Backslash /\ inQuotes
    /\ IF it = Len(text)
       THEN it' = it + 1 /\ current' = Append(current, c)
       ELSE it' = it + 2 /\ current' = current \o <<c, text[it + 1]>>
    /\ UNCHANGED <<file, inQuotes, justBeforeEnd, at, reader>>

\* Slip: it_ == last is not looked at after \.
ReadEscapePastEnd ==
    /\ at = "word" /\ ~eos /\ c = Backslash /\ inQuotes
    /\ it' = it + 2
    /\ current' = IF it < Len(text) THEN Append(current, text[it + 1])
                                    ELSE Append(current, c)
    /\ UNCHANGED <<file, inQuotes, justBeforeEnd, at, reader>>

\* \ inside quotes, with the character after it if there is one.
ReadEscape ==
    /\ at = "word" /\ ~eos /\ c = Backslash /\ inQuotes
    /\ IF it = Len(text)
       THEN it' = it + 1 /\ current' = Append(current, c)
       ELSE /\ it' = it + 2
            /\ current' = IF text[it + 1] \in {Backslash, Quote}
                          THEN Append(current, text[it + 1])
                          ELSE current \o <<c, text[it + 1]>>
    /\ UNCHANGED <<file, inQuotes, justBeforeEnd, at, reader>>

\* Whitespace and '#' outside quotes end the word, and are consumed.
ReadSeparator ==
    /\ at = "word" /\ ~eos /\ c \in Space \cup {Hash} /\ ~inQuotes
    /\ it' = it + 1
    /\ at' = "finish"
    /\ UNCHANGED <<file, current, inQuotes, justBeforeEnd, reader>>

ReadOther ==
    /\ at = "word" /\ ~eos
    /\ c # Quote
    /\ c = Backslash => ~inQuotes
    /\ c \in Space \cup {Hash} => inQuotes
    /\ current' = Append(current, c)
    /\ it' = it + 1
    /\ UNCHANGED <<file, inQuotes, justBeforeEnd, at, reader>>

WordAtEnd ==
    /\ at = "word" /\ eos
    /\ at' = "finish"
    /\ UNCHANGED <<file, it, current, inQuotes, justBeforeEnd, reader>>

IsQuoted == /\ Len(current) >= 2
            /\ current[1] = Quote /\ current[Len(current)] = Quote

\* Slip: what follows the word is left for the next ++.
FinishUnskipped ==
    /\ at = "finish"
    /\ current' = IF IsQuoted THEN SubSeq(current, 2, Len(current) - 1) ELSE current
    /\ justBeforeEnd' = IF eos THEN TRUE ELSE justBeforeEnd
    /\ at' = "ready"
    /\ UNCHANGED <<file, it, inQuotes, reader>>

\* The rest of final_business(): the quotes around a word are dropped.
FinishWord ==
    /\ at = "finish" /\ Skipped
    /\ current' = IF IsQuoted THEN SubSeq(current, 2, Len(current) - 1) ELSE current
    /\ justBeforeEnd' = IF eos THEN TRUE ELSE justBeforeEnd
    /\ at' = "ready"
    /\ UNCHANGED <<file, it, inQuotes, reader>>

-----------------------------------------------------------------------------
(* The reader, parse_options_into_impl(): passes over the options, in each of *)
(* which it reads some words, until the iterator equals end() or a pass ends  *)
(* where it began.                                                            *)

\* operator==: std::istream_iterators of one stream compare equal when neither
\* or both are at the end of the stream.
Equal(a, b) == a.justBeforeEnd = b.justBeforeEnd /\ a.eos = b.eos
Iterator == [eos |-> eos, justBeforeEnd |-> justBeforeEnd, index |-> Index]
End == [eos |-> TRUE, justBeforeEnd |-> FALSE, index |-> 0]

InPass == copy # End

BeginPass ==
    /\ at = "ready" /\ ~refused /\ ~InPass /\ ~Equal(Iterator, End)
    /\ copy' = Iterator
    /\ UNCHANGED <<file, it, current, inQuotes, justBeforeEnd, at, words, refused>>

ReadWord ==
    /\ at = "ready" /\ ~refused /\ InPass /\ ~Equal(Iterator, End)
    /\ words' = Append(words, current)
    /\ current' = << >>
    /\ at' = "skip"
    /\ UNCHANGED <<file, it, inQuotes, justBeforeEnd, copy, refused>>

EndPass ==
    /\ at = "ready" /\ ~refused /\ InPass
    /\ IF Equal(Iterator, copy) THEN refused' = TRUE /\ UNCHANGED copy
                                ELSE copy' = End /\ UNCHANGED refused
    /\ UNCHANGED <<file, it, current, inQuotes, justBeforeEnd, at, words>>

Done == at = "ready" /\ Equal(Iterator, End) /\ ~InPass

Init ==
    /\ file \in Files
    /\ it = 1 /\ current = << >> /\ inQuotes = FALSE
    /\ justBeforeEnd = FALSE /\ at = "skip" /\ words = << >> /\ copy = End
    /\ refused = FALSE

Increment == \/ SkipSpace \/ SkipComment \/ BeginWord \/ ReadQuote \/ ReadEscape
             \/ ReadSeparator \/ ReadOther \/ WordAtEnd \/ FinishWord

Next == \/ Increment \/ BeginPass \/ ReadWord \/ EndPass
        \/ (Done \/ refused) /\ UNCHANGED vars

Spec == Init /\ [][Next]_vars
FairSpec == Spec /\ WF_vars(Next)

-----------------------------------------------------------------------------

TypeOK ==
    /\ file \in [text : Seq(Char), words : Seq(Seq(Char))]
    /\ it \in 1..(Len(text) + 1)
    /\ current \in Seq(Char) /\ words \in Seq(Seq(Char))
    /\ inQuotes \in BOOLEAN /\ justBeforeEnd \in BOOLEAN
    /\ at \in {"skip", "word", "finish", "ready"}
    /\ copy \in [eos : BOOLEAN, justBeforeEnd : BOOLEAN, index : Nat]
    /\ refused \in BOOLEAN

\* What a file was written for is what is read from it, to the last word:
\* std::quoted() values (storage.hpp 195-199) and plain words, with whitespace
\* and comments between them, or with a bare '#', which the iterator takes for a
\* separator after a plain word and for a comment after a quoted one
\* (arg_view.hpp 265-268, 283).
WordsAreRead ==
    /\ \A k \in 1..Len(words) : k <= Len(file.words) /\ words[k] = file.words[k]
    /\ Done => Len(words) = Len(file.words)

Passes == INSTANCE WordPasses WITH
              n <- Len(file.words), pos <- Index + 1,
              initial <- IF InPass THEN copy.index + 1 ELSE 0

\* What a reader sees of the characters is what OptionParser takes for granted of
\* a stream: one word at a time, to the last, and first == initial_first
\* (parsing.hpp 967) just when both are at one word or each has another word
\* after it, wherever the whitespace, comments and quotes are.
ImplementsPasses == Passes!Spec

\* Every file is read to its end or refused.
ReaderEnds == <>(Done \/ refused)

=============================================================================
