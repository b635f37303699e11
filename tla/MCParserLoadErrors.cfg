SPECIFICATION FairSpec
CONSTANTS
    MaxArgs = 0
    MaxFileArgs = 3
    Token <- Tokens
    Option <- Options
    Slot <- Slots
    Decl <- Decls
    Dashed <- Dashes
    AtFile <- AtFiles
    Content <- Files
    OptTuple <- FileTuple
    ArgLists <- FileLists
    Modes <- OnlyLoading
PROPERTIES
    LoadReportsErrors
