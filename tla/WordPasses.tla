----------------------------- MODULE WordPasses -----------------------------
(***************************************************************************)
(* How parse_options_into_impl() goes over the words of a response file,   *)
(* seen from the parser: the loop of parsing.hpp 845-977.  Each pass over  *)
(* the tuple starts with a copy of "first" and consumes words; at its end  *)
(* the copy is compared with "first".  This is all that OptionParser knows *)
(* of a stream (its BackAtInitial); ResponseFileTokens implements it one   *)
(* character at a time.                                                    *)
(***************************************************************************)
EXTENDS Integers

VARIABLES n,        \* how many words the file has
          pos,      \* the number of the word that "first" is at; n + 1 is the end
          initial,  \* that of initial_first, or 0 between two passes
          refused   \* first == initial_first after a pass: the file is refused

vars == <<n, pos, initial, refused>>

\* Two iterators on one stream are equal when they are at the same word, and
\* whenever both have another word after their own.
Same(p, q) == p = q \/ (p < n /\ q < n)

Init == n \in Nat /\ pos = 1 /\ initial = 0 /\ refused = FALSE

BeginPass == /\ ~refused /\ initial = 0 /\ pos <= n
             /\ initial' = pos
             /\ UNCHANGED <<n, pos, refused>>

Consume == /\ ~refused /\ initial # 0 /\ pos <= n
           /\ pos' = pos + 1
           /\ UNCHANGED <<n, initial, refused>>

EndPass == /\ ~refused /\ initial # 0
           /\ IF Same(pos, initial) THEN refused' = TRUE /\ UNCHANGED initial
                                    ELSE initial' = 0 /\ UNCHANGED refused
           /\ UNCHANGED <<n, pos>>

Next == BeginPass \/ Consume \/ EndPass

Spec == Init /\ [][Next]_vars

=============================================================================
