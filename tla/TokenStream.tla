---------------------------- MODULE TokenStream ----------------------------
(***************************************************************************)
(* What parsing promises about the arguments themselves, whatever options  *)
(* are declared: the user's tokens are one stream.  Options take them from *)
(* the front, in order, none lost and none seen twice; a response file's   *)
(* contents take the place of the token that names it; and the command     *)
(* line is accepted only when nothing is left.                             *)
(***************************************************************************)
EXTENDS Sequences, Integers

CONSTANTS Token,
          Contents(_)   \* the tokens that the file named by a token holds

VARIABLES pending, delivered, verdict,
          lenient       \* a file is loaded: an error in a file that it names is
                        \* not an error, but what is left of that file is not read

vars == <<pending, delivered, verdict, lenient>>

Open == verdict = "open"

Init == pending \in Seq(Token) /\ delivered = << >> /\ verdict = "open"
        /\ lenient \in BOOLEAN

\* An option takes the next few tokens; it may refuse them.
Deliver ==
    /\ Open
    /\ \E n \in 1..Len(pending) :
          /\ delivered' = delivered \o SubSeq(pending, 1, n)
          /\ pending' = SubSeq(pending, n + 1, Len(pending))
    /\ verdict' \in {"open", "rejected"}
    /\ UNCHANGED lenient

\* A file is opened in place of its name.
Splice ==
    /\ Open
    /\ pending # << >>
    /\ pending' = Contents(Head(pending)) \o Tail(pending)
    /\ UNCHANGED <<delivered, verdict, lenient>>

\* What is left of a file with an error in it.
Drop ==
    /\ Open /\ lenient
    /\ \E n \in 1..Len(pending) : pending' = SubSeq(pending, n + 1, Len(pending))
    /\ UNCHANGED <<delivered, verdict, lenient>>

Accept == /\ Open /\ pending = << >> /\ verdict' = "accepted"
          /\ UNCHANGED <<pending, delivered, lenient>>
Reject == Open /\ verdict' = "rejected" /\ UNCHANGED <<pending, delivered, lenient>>

Next == Deliver \/ Splice \/ Drop \/ Accept \/ Reject

Spec == Init /\ [][Next]_vars

=============================================================================
