SPECIFICATION FairCSpec
CONSTANTS
    MaxArgs = 5
    Token <- Tokens
    Option <- Options
    Slot <- Slots
    Decl <- Decls
    Dashed <- Dashes
    AtFile <- NoFiles
    Content <- NoFiles
    OptTuple <- NoTuple
    ArgLists <- NoLists
    Modes <- OnlyCommandLine
    ArgsOf <- Args
    Command <- Commands
    CommandDecl <- CommandDecls
    Programs <- AllPrograms
    DefaultHelp <- Help
    Argv0 = "prog"
INVARIANTS
    CTypeOK
    RunsOnlyWhenAllIsRead
    HelpIsNeverIgnored
    HelpIsOfTheLastCommand
    OtherCommandsUntouched
    PlainAcceptsAnyOrder
PROPERTIES
    FirstNeverMovesBack
    CTermination
