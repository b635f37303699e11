------------------------------ MODULE Storage ------------------------------
(***************************************************************************)
(* storage.hpp: a program parses its command line into a map, saves the    *)
(* map with save_response_file() or save_json_file(), and loads the file   *)
(* with the same options, into a new map or into the one that it has.      *)
(* Saving writes one option after the other, and may fail half-way, which  *)
(* leaves the file as it is then.  Loading a response file is              *)
(* parse_options_into() over its words; JSON is read by JsonReader first.  *)
(*                                                                         *)
(* "file" holds what a reader gets to see: the words that the response     *)
(* file iterator makes of what was written, or the symbols of JSON.        *)
(***************************************************************************)
EXTENDS OptionParser, SequencesExt

CONSTANTS
    Formats,    \* the formats to save in: "response_file", "json"
    LongName,   \* LongName[o]: first_long_name(), the only name of a positional
    Strings,    \* the options of type std::string, which is insertable
    Letters,    \* Letters[t]: the characters of t
    Unquoted,   \* Unquoted[t]: how the value t of a scalar option reads back
                \* from a response file, where it is not quoted
    JsonText,   \* JsonText[t]: the symbols that t is when it is put between
                \* quotes as it is; DOMAIN: where that is not the string t
    TrueText,   \* std::boolalpha's true
    NumberText, \* NumberText[n]: the count n
    Mistyped,   \* the options that may be saved as another type than they hold
    GivenFiles  \* JSON files that the program did not write

VARIABLES
    phase,      \* "parsing", "saving", "saved", "partial", "reading",
                \* "loading", or how it ended
    format,     \* the file's format
    upTo,       \* the options that were written
    file,       \* what is in the file
    given,      \* the file is one of GivenFiles
    saved,      \* history: the map that was saved
    before,     \* history: the map that the file was loaded into
    at, stack, expects, words       \* of JsonReader

reader == <<at, stack, expects, words>>
svars == <<phase, format, upTo, file, given, saved, before, reader>>
allvars == <<vars, svars>>

Json == INSTANCE JsonReader WITH Word <- Token, text <- file

ASSUME StorageType ==
    /\ Formats \subseteq {"response_file", "json"}
    /\ LongName \in [Option -> Token]
    /\ Strings \subseteq Option /\ Mistyped \subseteq Option
    /\ \A t \in DOMAIN Letters : Letters[t] \in Seq(Token)
    /\ \A t \in DOMAIN Unquoted : Unquoted[t] \in Seq(Token)
    /\ \A t \in DOMAIN JsonText : JsonText[t] \in Seq(Json!Symbol)
    /\ TrueText \in Token
    /\ \A n \in DOMAIN NumberText : NumberText[n] \in Token
    /\ GivenFiles \subseteq Seq(Json!Symbol)
    /\ Modes = {"command_line"}

\* The counts that o can have.
CountsOf(o) == {1} \cup {n \in {Decl[o].counts[t] : t \in Token} : n >= 0}

\* std::to_string() and operator<<(std::string) are defined for every value that
\* an option can have.  A std::string is assigned, though it is insertable.  That a
\* counted flag has a default is left out.
ASSUME SpellingType ==
    /\ \A o \in Option : Decl[o].kind = "count" =>
          CountsOf(o) \subseteq DOMAIN NumberText /\ Decl[o].default = {}
    /\ \A o \in Strings : /\ Decl[o].kind \in {"argument", "positional"}
                          /\ ~Decl[o].insert
                          /\ Decl[o].parses \cup Decl[o].default \subseteq DOMAIN Letters

\* Exclusive groups have no names of their own, and the type of an argument with
\* zero_or_one value, a std::optional, has no operator<<.
ASSUME SavedTuple == \A k \in 1..Len(OptTuple) :
                        ~OptTuple[k].exclusive /\ Decl[OptTuple[k].opts[1]].args # ZeroOrOne

NoValues == [s \in Slot |-> Unset]

-----------------------------------------------------------------------------
(* save_response_file(), save_json_file(). *)

\* Slip: the first value of a container only.
ElementsFirst(o, v) == IF v.val = << >> THEN << >> ELSE <<v.val[1]>>

\* What operator<< is called with for the value v of o: each element of anything
\* that is insertable, and else the value.
Elements(o, v) ==
    CASE Decl[o].kind = "flag"  -> <<TrueText>>
      [] Decl[o].kind = "count" -> <<NumberText[v.num]>>
      [] o \in Strings          -> Letters[v.val[1]]
      [] OTHER                  -> v.val

IsList(o) == Decl[o].insert \/ o \in Strings

\* In a response file a positional has no name, and only elements are quoted.
ResponseLine(o, v) ==
    LET ws == Elements(o, v)
        raw(t) == IF IsList(o) \/ t \notin DOMAIN Unquoted THEN <<t>> ELSE Unquoted[t]
    IN (IF IsPositional(o) THEN << >> ELSE <<LongName[o]>>)
       \o FlattenSeq([k \in 1..Len(ws) |-> raw(ws[k])])

Mark(k) == [is |-> k]
String(t) == [is |-> "string", word |-> t]

\* Nothing is escaped between the quotes.
InQuotes(t) == IF t \in DOMAIN JsonText THEN JsonText[t] ELSE <<String(t)>>

Comma(k) == IF k = 1 THEN << >> ELSE <<Mark(",")>>

\* In JSON every option has a key and every value is a string.
JsonMember(o, v) ==
    LET ws == Elements(o, v)
        list == FlattenSeq([k \in 1..Len(ws) |-> Comma(k) \o InQuotes(ws[k])])
    IN <<String(LongName[o]), Mark(":")>>
       \o (IF IsList(o) THEN <<Mark("[")>> \o list \o <<Mark("]")>> ELSE list)

OpenToSave ==
    /\ phase = "parsing" /\ status = "ok"
    /\ phase' = "saving" /\ saved' = result
    /\ file' = IF format = "json" THEN <<Mark("{")>> ELSE << >>
    /\ UNCHANGED <<vars, format, upTo, given, before, reader>>

CannotOpenToSave ==
    /\ phase = "parsing" /\ status = "ok"
    /\ phase' = "save_error"
    /\ UNCHANGED <<vars, format, upTo, file, given, saved, before, reader>>

Saving == phase = "saving" /\ upTo < Len(OptTuple)
toSave == OptTuple[upTo + 1].opts[1]
IsHeld == result[Decl[toSave].slot].set

\* Slip: the option after one without a value is skipped as well.
SkipTwoOptions ==
    /\ Saving /\ ~IsHeld
    /\ upTo' = upTo + 2
    /\ UNCHANGED <<vars, phase, format, file, given, saved, before, reader>>

\* Options without a value are not saved.
SkipOption ==
    /\ Saving /\ ~IsHeld
    /\ upTo' = upTo + 1
    /\ UNCHANGED <<vars, phase, format, file, given, saved, before, reader>>

SaveOption ==
    /\ Saving /\ IsHeld
    /\ upTo' = upTo + 1
    /\ LET v == result[Decl[toSave].slot]
       IN file' = file \o (IF format = "json"
                           THEN Comma(Len(file)) \o JsonMember(toSave, v)
                           ELSE ResponseLine(toSave, v))
    /\ UNCHANGED <<vars, phase, format, given, saved, before, reader>>

\* bad_any_cast, before anything of the option is written.  The stream is closed
\* on the way out, with what was written before.
SaveMistyped ==
    /\ Saving /\ IsHeld /\ toSave \in Mistyped
    /\ phase' = "partial"
    /\ UNCHANGED <<vars, format, upTo, file, given, saved, before, reader>>

EndSave ==
    /\ phase = "saving" /\ upTo = Len(OptTuple)
    /\ phase' = "saved"
    /\ file' = IF format = "json" THEN Append(file, Mark("}")) ELSE file
    /\ UNCHANGED <<vars, format, upTo, given, saved, before, reader>>

-----------------------------------------------------------------------------
(* load_response_file(), load_json_file(). *)

Loadable == phase \in {"saved", "partial"}

\* What load_json_file() throws is a save_error.
CannotOpenToLoad ==
    /\ Loadable
    /\ phase' = IF format = "json" THEN "save_error" ELSE "load_error"
    /\ UNCHANGED <<vars, format, upTo, file, given, saved, before, reader>>

ReadJson ==
    /\ Loadable /\ format = "json"
    /\ phase' = "reading"
    /\ at' = 1 /\ stack' = << >> /\ expects' = "value" /\ words' = << >>
    /\ UNCHANGED <<vars, format, upTo, file, given, saved, before>>

ReadOn == /\ phase = "reading" /\ Json!Next
          /\ UNCHANGED <<vars, phase, format, upTo, given, saved, before>>

MalformedJson ==
    /\ phase = "reading" /\ expects = "malformed"
    /\ phase' = "load_error"
    /\ UNCHANGED <<vars, format, upTo, file, given, saved, before, reader>>

\* parse_options_into_map() dereferences args.begin(), and there are no args.
LoadNothing ==
    /\ phase = "reading" /\ expects = "accepted" /\ words = << >>
    /\ phase' = "undefined"
    /\ UNCHANGED <<vars, format, upTo, file, given, saved, before, reader>>

\* Slip: the caller's map is emptied before it is loaded into.
ParseIntoEmptied(args, map) ==
    /\ phase' = "loading"
    /\ call' = [call EXCEPT !.deserializing = TRUE]
    /\ frames' = <<NewFrame("top", format = "response_file", args, 1, OptTuple, 0)>>
    /\ nextPositional' = 0 /\ seen' = {}
    /\ result' = NoValues /\ before' = map
    /\ status' = "run" /\ ret' = "none"
    /\ matched' = << >> /\ taken' = << >> /\ delivered' = << >>
    /\ UNCHANGED <<diag, format, upTo, file, given, saved, reader>>

\* parse_options_into_map() on a map with or without values.
ParseInto(args, map) ==
    /\ phase' = "loading"
    /\ call' = [call EXCEPT !.deserializing = TRUE]
    /\ frames' = <<NewFrame("top", format = "response_file", args, 1, OptTuple, 0)>>
    /\ nextPositional' = 0 /\ seen' = {}
    /\ result' = map /\ before' = map
    /\ status' = "run" /\ ret' = "none"
    /\ matched' = << >> /\ taken' = << >> /\ delivered' = << >>
    /\ UNCHANGED <<diag, format, upTo, file, given, saved, reader>>

Load ==
    /\ \/ Loadable /\ format = "response_file"
       \/ phase = "reading" /\ expects = "accepted" /\ words # << >>
    /\ \E map \in {NoValues, result} :
          ParseInto(IF format = "json" THEN words ELSE file, map)

Parse == /\ phase \in {"parsing", "loading"}
         /\ ParseOption \/ Impl \/ Finish
         /\ UNCHANGED svars

EndLoad ==
    /\ phase = "loading" /\ status \in {"ok", "error", "assert"}
    /\ phase' = CASE status = "ok" -> "loaded" [] status = "error" -> "load_error"
                  [] status = "assert" -> "undefined"
    /\ UNCHANGED <<vars, format, upTo, file, given, saved, before, reader>>

-----------------------------------------------------------------------------

\* A program that parses its command line, or one that starts with a file it did
\* not write.
SInit ==
    /\ Init
    /\ upTo = 0 /\ saved = NoValues /\ before = NoValues
    /\ at = 1 /\ stack = << >> /\ expects = "value" /\ words = << >>
    /\ \/ /\ phase = "parsing" /\ given = FALSE
          /\ format \in Formats /\ file = << >>
       \/ /\ phase = "saved" /\ given = TRUE
          /\ frames[1].src = << >>
          /\ format = "json" /\ file \in GivenFiles

SEnded == \/ phase \in {"save_error", "load_error", "loaded", "undefined"}
          \/ phase = "parsing" /\ status \in {"exit0", "exit1"}

SNext == \/ OpenToSave \/ CannotOpenToSave \/ SkipOption \/ SaveOption \/ SaveMistyped
         \/ EndSave \/ CannotOpenToLoad \/ ReadJson \/ ReadOn \/ MalformedJson
         \/ LoadNothing \/ Load \/ Parse \/ EndLoad
         \/ (SEnded /\ UNCHANGED allvars)

SSpec == SInit /\ [][SNext]_allvars

-----------------------------------------------------------------------------

\* The type invariant of storing.
STypeOK ==
    /\ phase \in {"parsing", "saving", "saved", "partial", "reading", "loading",
                  "loaded", "save_error", "load_error", "undefined"}
    /\ upTo \in 0..Len(OptTuple)
    /\ file \in IF format = "json" THEN Seq(Json!Symbol) ELSE Seq(Token)
    /\ saved \in [Slot -> Value] /\ before \in [Slot -> Value]
    /\ format = "json" => Json!TypeOK

\* A file was opened for loading, and not left to somebody else to write.
Attempted == ~given /\ (call.deserializing \/ ~Json!Reading)
AtEndOfLoad == phase \in {"loaded", "load_error", "undefined"}

\* "Loads the options in file filename" (storage.hpp 221, 614): what was saved is
\* what is loaded, value by value, into a map that holds nothing else.
RoundTrip ==
    Attempted /\ AtEndOfLoad /\ before = NoValues /\ upTo = Len(OptTuple) =>
        phase = "loaded" /\ result = saved

\* The entries that were written with a value.
Held == {k \in 1..upTo : saved[Decl[OptTuple[k].opts[1]].slot].set}

\* The entry's value is written in a form that its option reads.
Readable(k) ==
    LET o == OptTuple[k].opts[1]
        val == saved[Decl[o].slot].val
        ws == Elements(o, saved[Decl[o].slot])
    IN /\ Decl[o].kind \notin {"flag", "count"}
       /\ ws = val
       /\ format = "json" => /\ ~IsPositional(o)
                             /\ \A j \in 1..Len(ws) : ws[j] \notin DOMAIN JsonText
       /\ format = "response_file" /\ ~IsList(o) =>
             \A j \in 1..Len(ws) : ws[j] \notin DOMAIN Unquoted

\* What comes first in the file for entry n.
FirstWord(n) == LET o == OptTuple[n].opts[1]
                IN IF format = "json" THEN LongName[o]
                   ELSE ResponseLine(o, saved[Decl[o].slot])[1]

\* The entry's option takes no more values than it was saved with: it is full, or
\* it does not accept what follows in the file, or nothing does.
Delimited(k) ==
    LET o == OptTuple[k].opts[1] IN
    \/ ~WithinMaxReps(o, Len(saved[Decl[o].slot].val) + 1)
    \/ \A n \in Held : n > k /\ (\A m \in Held : m > k => n <= m)
                         => ~IsValue(o, FirstWord(n))

\* The map that the written entries make of the one they are loaded into: one
\* value replaces what was there, values are inserted after what was there, and
\* an argument that may have no value starts again at its name.
LoadedInto(map) ==
    [s \in Slot |->
        LET of == {k \in Held : Decl[OptTuple[k].opts[1]].slot = s}
            o == OptTuple[CHOOSE k \in of : TRUE].opts[1]
        IN IF of = {} THEN map[s]
           ELSE AssignOrInsert(o, IF IsPositional(o) THEN map[s] ELSE AtName(o, map[s]),
                               saved[s].val)]

\* A file loads, as the map that was saved as far as it was written, just when
\* every value in it is readable and every option knows where its values end, and
\* when JSON holds anything and was written to its end (storage.hpp 151-219,
\* 512-612, parsing.hpp 1228).
LoadsJustWhatIsPortable ==
    Attempted /\ AtEndOfLoad =>
        (phase = "loaded" /\ result = LoadedInto(before)
            <=> /\ \A k \in Held : Readable(k) /\ Delimited(k)
                /\ format = "json" => Held # {} /\ upTo = Len(OptTuple))

\* The slots that the parse has come to: those of the options whose names it
\* matched, of its positionals up to the one whose turn it is, and no others.
Reached(s) ==
    \E o \in Option :
        /\ Decl[o].slot = s
        /\ \/ \E k \in 1..Len(matched) : matched[k] = o
           \/ \E e \in 1..Len(OptTuple) :
                 /\ PositionalAt(OptTuple, e) /\ OptTuple[e].opts[1] = o
                 /\ Ordinal(OptTuple, e) <= nextPositional + 1

\* A load that fails has put what it read into the caller's map already
\* (storage.hpp 248, 664, parsing.hpp 1228).  It is no more than that: what
\* the map held for other options is there still, and no default was assigned.
FailedLoadLeavesTheRest ==
    call.deserializing /\ status # "ok" =>
        \A s \in Slot : result[s] # before[s] => Reached(s)

\* The documents that JsonReader takes, of those a program writes and others.
JsonIsReadInFull == phase = "reading" => Json!ReadsJustTheDocuments

=============================================================================
