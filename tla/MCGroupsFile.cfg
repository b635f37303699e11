SPECIFICATION Spec
CONSTANTS
    MaxArgs = 4
    Token <- Tokens
    Option <- Options
    Slot <- Slots
    Decl <- Decls
    Dashed <- Dashes
    AtFile <- AtF
    Content <- OneFile
    OptTuple <- GroupLast
    ArgLists <- FileLists
    Modes <- OnlyCommandLine
INVARIANTS
    AtMostOneExclusive
