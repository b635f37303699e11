SPECIFICATION CSpec
CONSTANTS
    MaxArgs = 3
    Token <- Tokens
    Option <- Options
    Slot <- Slots
    Decl <- Decls
    Dashed <- Dashes
    AtFile <- NoFiles
    Content <- NoFiles
    OptTuple <- NoTuple
    ArgLists <- NoLists
    Modes <- OnlyCommandLine
    ArgsOf <- PositionalArgs
    Command <- Commands
    CommandDecl <- TwoPositionals
    Programs <- OnlyWith
    DefaultHelp <- Help
    Argv0 = "prog"
INVARIANTS
    CommandHasItsPositionals
