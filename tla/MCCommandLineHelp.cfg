SPECIFICATION CSpec
CONSTANTS
    MaxArgs = 3
    Token <- Tokens
    Option <- Options
    Slot <- Slots
    Decl <- Decls
    Dashed <- Dashes
    AtFile <- NoFiles
    Content <- NoFiles
    OptTuple <- NoTuple
    ArgLists <- NoLists
    Modes <- OnlyCommandLine
    ArgsOf <- HelpedArgs
    Command <- Commands
    CommandDecl <- CommandDecls
    Programs <- OnlyHelped
    DefaultHelp <- Help
    Argv0 = "prog"
INVARIANTS
    HelpIsOnTheCommand
