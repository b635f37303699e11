--------------------------- MODULE OptionPromises ---------------------------
(***************************************************************************)
(* What a user expects of a parse, most of it said by the comments of the  *)
(* headers, each as a property of OptionParser.  The README says which of  *)
(* them the code keeps, and for which programs.                            *)
(***************************************************************************)
EXTENDS OptionParser, SequencesExt

\* "Loads the options in file filename ... throws load_error on failure"
\* (storage.hpp 221-224): an error found while loading is the one reported.
LoadReportsErrors ==
    [][call.deserializing /\ ret # "none" => ret' = ret]_vars

-----------------------------------------------------------------------------
(* What the arguments say, whatever order they are parsed in. *)

\* The arguments that name o, and what follows the one at k for o to take.
NamedAt(o, src) == {k \in 1..Len(src) : Names(o, src[k]) \/ IsCounted(o, src[k])}
Following(o, src, k) ==
    {k + n : n \in {m \in 1..(Len(src) - k) : /\ WithinMaxReps(o, m)
                                              /\ \A j \in 1..m : IsValue(o, src[k + j])}}

\* The arguments at those indices, in order.
ArgumentsAt(ks, src) == LET order == SetToSortSeq(ks, <)
                        IN [n \in 1..Len(order) |-> src[order[n]]]

\* What naming o at all those places gives it: a container collects the values,
\* unless it may be named without any; all else keeps those of the last place.
Given(o, src) ==
    LET at == NamedAt(o, src)
        collects == Decl[o].insert /\ Decl[o].args # ZeroOrMore
        from == {k \in at : collects \/ \A m \in at : m <= k}
    IN [set |-> TRUE,
        val |-> ArgumentsAt(UNION {Following(o, src, k) : k \in from}, src),
        num |-> IF Decl[o].kind # "count" THEN 0
                ELSE IF IsCounted(o, src[Max(at)]) THEN Decl[o].counts[src[Max(at)]] ELSE 1]

\* After a success every option has what the arguments give it, or its default, or
\* nothing; and the positionals, in their order, have the arguments that are left
\* (parsing.hpp 584-736, 1061-1088).  It is said of the arguments as a whole, so
\* that neither the passes over the tuple, nor the calls for a group, nor the
\* defaults can make a difference; response files aside.
ResultIsWhatWasGiven ==
    LET src == frames[1].src
        options == {o \in OptionsIn(call.tuple) : ~IsPositional(o)}
        used(o) == NamedAt(o, src) \cup UNION {Following(o, src, k) : k \in NamedAt(o, src)}
        left == (1..Len(src)) \ UNION {used(o) : o \in options}
        readsFiles == \/ \E k \in 1..Len(src) : src[k] \in DOMAIN AtFile
                      \/ \E o \in options : Decl[o].kind = "response_file" /\ used(o) # {}
        positionals == SelectSeq([e \in 1..Len(call.tuple) |-> call.tuple[e].opts[1]],
                                 IsPositional)
    IN status = "ok" /\ ~readsFiles =>
        /\ \A o \in options :
              IF used(o) # {} THEN result[Decl[o].slot] = Given(o, src)
              ELSE \A t \in Decl[o].default : result[Decl[o].slot].val = <<t>>
        /\ \A o \in options : used(o) = {} /\ result[Decl[o].slot].set =>
              Decl[o].default # {} \/ \E p \in options : used(p) # {} /\ Decl[p].slot = Decl[o].slot
        /\ FlattenSeq([n \in 1..Len(positionals) |-> result[Decl[positionals[n]].slot].val])
           = ArgumentsAt(left, src)

-----------------------------------------------------------------------------
(* Where options may stand. *)

\* The positionals of the tuple, in the order of their declaration.
DeclaredPositionals ==
    SelectSeq([k \in 1..Len(call.tuple) |-> call.tuple[k].opts[1]], IsPositional)

\* The arguments can be divided into named options, each once, at most one of a
\* group, each followed by its argument if it has one, and the rest read in
\* order, as the positionals and the remainder.
WellFormed(src) ==
    \E S \in SUBSET (1..Len(src)) :
        LET Takes(o, k) == /\ Names(o, src[k])
                           /\ Decl[o].args = 1 => k < Len(src) /\ IsValue(o, src[k + 1])
            entryOf(k) == {e \in 1..Len(call.tuple) :
                              \E j \in 1..Len(call.tuple[e].opts) :
                                  /\ Decl[call.tuple[e].opts[j]].args \in {0, 1}
                                  /\ Takes(call.tuple[e].opts[j], k)}
            args == {k \in 2..Len(src) :
                        k - 1 \in S /\ \E o \in Option : Takes(o, k - 1) /\ Decl[o].args = 1}
            rest == SelectSeq([k \in 1..Len(src) |-> k], LAMBDA k : k \notin S \cup args)
            required == Cardinality(Positionals(call.tuple))
            order == DeclaredPositionals
        IN /\ S \cap args = {}
           /\ \A k \in S : entryOf(k) # {}
           /\ \A k, m \in S : entryOf(k) \cap entryOf(m) # {} => k = m
           /\ Len(rest) >= required
           /\ Len(rest) > required => Len(order) > required
           /\ \A k \in 1..Len(rest) :
                 IsValue(order[IF k <= required THEN k ELSE Len(order)], src[rest[k]])

\* "an optional option that may appear anywhere in the input" (options.hpp 133),
\* "a positional that will capture all tokens of input that remain after all
\* other options are parsed" (options.hpp 259): wherever the named options stand
\* among the positionals, the arguments are accepted.
OptionsMayAppearAnywhere ==
    status \in {"exit1", "error"} => ~WellFormed(frames[1].src)

=============================================================================
