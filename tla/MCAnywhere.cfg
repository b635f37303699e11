SPECIFICATION Spec
CONSTANTS
    MaxArgs = 5
    Token <- Tokens
    Option <- Options
    Slot <- Slots
    Decl <- Decls
    Dashed <- Dashes
    AtFile <- NoFiles
    Content <- NoFiles
    OptTuple <- TwoPositionals
    ArgLists <- Lists
    Modes <- OnlyCommandLine
INVARIANTS
    OptionsMayAppearAnywhere
