SPECIFICATION FairCSpec
CONSTANTS
    MaxArgs = 3
    Token <- Tokens
    Option <- Options
    Slot <- Slots
    Decl <- Decls
    Dashed <- Dashes
    AtFile <- AtF
    Content <- OneFile
    OptTuple <- NoTuple
    ArgLists <- NoLists
    Modes <- OnlyCommandLine
    ArgsOf <- FileArgs
    Command <- Commands
    CommandDecl <- CommandDecls
    Programs <- OnlyWith
    DefaultHelp <- Help
    Argv0 = "prog"
PROPERTIES
    FilesAreReadToTheEnd
