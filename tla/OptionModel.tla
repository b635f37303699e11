---------------------------- MODULE OptionModel ----------------------------
(***************************************************************************)
(* What a program declares with the factories of options.hpp, and the      *)
(* questions the parser asks of one declaration and one argument.          *)
(*                                                                         *)
(* Arguments are opaque tokens.  What the parser can see in one (its       *)
(* leading dash, the '@' prefix, whether a type's grammar accepts it, the  *)
(* number of times a short flag's letter is repeated in it) is given by    *)
(* constants, so that a declaration is a record over sets of tokens.       *)
(***************************************************************************)
EXTENDS Integers, Sequences, FiniteSets

CONSTANTS
    Token,      \* the arguments a command line or a file can contain
    Option,     \* the options the program declares
    Slot,       \* where values are kept: tuple elements, or storage names
    Decl,       \* Decl[o] is the declaration of option o
    Dashed,     \* the tokens that start with an option prefix
    AtFile,     \* AtFile[t]: what follows the '@' of t; DOMAIN: tokens with one
    Content     \* Content[f]: the tokens of file f; DOMAIN: the readable files

\* The named values of "args" (fwd.hpp).
ZeroOrOne  == -1
ZeroOrMore == -2
OneOrMore  == -3

Kind == {"argument", "positional", "flag", "count", "help", "version",
         "response_file"}

\* One declared option.  "insert" says that the option's type is a container
\* that values are inserted into; otherwise a value replaces the previous one.
\* "parses" holds the tokens that the type's parser accepts to the last
\* character, "valid" those its validator accepts, and counts[t] is the number
\* of repetitions of the short flag's letter in t, or -1 when t has some other
\* letter or no dash.
Declaration ==
    [kind : Kind, names : SUBSET Token, args : Int, insert : BOOLEAN,
     required : BOOLEAN, choices : SUBSET Token, parses : SUBSET Token,
     valid : SUBSET Token, default : SUBSET Token, counts : [Token -> Int],
     slot : Slot]

ASSUME DeclType   == Decl \in [Option -> Declaration]
ASSUME DashedType == Dashed \subseteq Token
ASSUME FileType   == /\ DOMAIN AtFile \subseteq Token
                     /\ \A t \in DOMAIN AtFile : AtFile[t] \in Token
                     /\ DOMAIN Content \subseteq Token
                     /\ \A f \in DOMAIN Content : Content[f] \in Seq(Token)

IsPositional(o) == Decl[o].kind = "positional"

\* argument(): a number of arguments, or one of the named values.
MadeArgument(d) ==
    d.kind = "argument" => d.args # 0 /\ d.args >= OneOrMore /\ ~d.required

\* positional() must be given at least once; remainder() need not be.
MadePositional(d) ==
    d.kind = "positional" => /\ d.args \notin {0, ZeroOrOne} /\ d.args >= OneOrMore
                             /\ d.required <=> d.args # ZeroOrMore

\* flag(), inverted_flag(), counted_flag(), version(), help(), response_file()
MadeSpecial(d) ==
    /\ d.kind \in {"flag", "count", "help", "version"} => d.args = 0
    /\ d.kind = "response_file" => d.args = 1
    /\ d.kind \in Kind \ {"argument", "positional"} => (d.required <=> d.kind = "flag")

\* What the factories and option_checker let a program declare.
WellDeclared(o) ==
    LET d == Decl[o] IN
    /\ MadeArgument(d) /\ MadePositional(d) /\ MadeSpecial(d)
    /\ d.args \notin {0, 1, ZeroOrOne} => d.insert
    /\ d.names \subseteq Dashed
    /\ IsPositional(o) <=> d.names = {}
    /\ IsPositional(o) => d.default = {}

ASSUME Checked == \A o \in Option : WellDeclared(o)

-----------------------------------------------------------------------------
(* Questions about one option and one token. *)

\* known_dashed_argument(t, o): t is one of the names of o.
Names(o, t) == t \in Dashed /\ t \in Decl[o].names

\* known_dashed_argument(t, opts...): t is a name of any declared option.
KnownNames == {t \in Dashed : \E o \in Option : t \in Decl[o].names}
KnownDashed(t) == t \in KnownNames

\* The short form of a counted flag: a dash and nothing but the flag's letter.
IsCounted(o, t) == Decl[o].kind = "count" /\ Decl[o].counts[t] >= 0

MinReps(o) == LET a == Decl[o].args
              IN IF a >= 0 THEN a ELSE IF a = OneOrMore THEN 1 ELSE 0

\* INT_MAX is unbounded here: no argument list is that long.
WithinMaxReps(o, n) ==
    LET a == Decl[o].args
    IN a \in {ZeroOrMore, OneOrMore} \/ n <= (IF a = ZeroOrOne THEN 1 ELSE a)

\* The parser of the option's type consumes t and, when the option has choices,
\* t is one of them.
Parses(o, t) == /\ t \in Decl[o].parses
                /\ Decl[o].choices = {} \/ t \in Decl[o].choices

\* Only the branch without choices calls the validator.
PassesValidator(o, t) == Decl[o].choices # {} \/ t \in Decl[o].valid

\* Why the parser refuses t.
ParseError(o, t) == IF t \in Decl[o].parses /\ ~KnownDashed(t)
                    THEN "no_such_choice" ELSE "cannot_parse_arg"

\* One token as a value of o: neither a known option nor unparseable.
IsValue(o, t) == ~KnownDashed(t) /\ Parses(o, t)

-----------------------------------------------------------------------------
(* Results.  "set" is the engaged optional (or the non-empty any), val the   *)
(* tokens assigned or inserted, num the value of a counted flag.             *)

Value == [set : BOOLEAN, val : Seq(Token), num : Int]
Unset == [set |-> FALSE, val |-> << >>, num |-> 0]

\* assign_or_insert(), once for each of vals, in order.
AssignOrInsert(o, v, vals) ==
    IF vals = << >> THEN v
    ELSE [v EXCEPT !.set = TRUE,
                   !.val = IF Decl[o].insert THEN @ \o vals
                           ELSE <<vals[Len(vals)]>>]

\* What a matched name does to the slot before any argument is parsed: an
\* argument that may have no value gets its type's default-constructed value.
AtName(o, v) ==
    IF Decl[o].kind = "flag" THEN [v EXCEPT !.set = TRUE]
    ELSE IF Decl[o].args \in {ZeroOrOne, ZeroOrMore}
         THEN [v EXCEPT !.set = TRUE, !.val = << >>]
         ELSE v

-----------------------------------------------------------------------------
(* Response files. *)

\* process_response_file() drops the prefix of a name that has one.
FileOf(t) == IF t \in DOMAIN AtFile THEN AtFile[t] ELSE t

\* An unreadable file yields no tokens.
TokensOf(f) == IF f \in DOMAIN Content THEN Content[f] ELSE << >>

=============================================================================
