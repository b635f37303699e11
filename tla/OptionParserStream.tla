------------------------- MODULE OptionParserStream -------------------------
(* OptionParser implements TokenStream: what its call stack still has to     *)
(* read, innermost call first, is the stream's unread part.                  *)
EXTENDS OptionParser, SequencesExt

\* What is left of a frame's list when the calls above it return: a group's
\* call reads its caller's list, and a file's call stands for the token that
\* names the file.
Rest(k) ==
    LET g == frames[k]
        above == IF k = Len(frames) THEN "none" ELSE frames[k + 1].kind
    IN CASE above = "none"  -> SubSeq(g.src, g.pos, Len(g.src))
         [] above = "group" -> << >>
         [] above = "file"  -> SubSeq(g.src, g.pos + 1, Len(g.src))

Pending == FlattenSeq([k \in 1..Len(frames) |-> Rest(Len(frames) + 1 - k)])

Verdict == CASE status = "ok" -> "accepted"
             [] status \in {"run", "return"} -> "open"
             [] OTHER -> "rejected"

FileContents(t) == TokensOf(FileOf(t))

Stream == INSTANCE TokenStream WITH pending <- Pending, verdict <- Verdict,
                                    lenient <- call.deserializing,
                                    Contents <- FileContents

\* Every token of the command line and of its response files reaches exactly
\* one option, in order, and success means that none is left (parse_options_into
\* and the iterators it shares, parsing.hpp 764-981); only loading drops tokens,
\* when the file they are in has an error.
ImplementsStream == Stream!Spec

=============================================================================
