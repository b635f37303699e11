SPECIFICATION SSpec
CONSTANTS
    MaxChunks = 1
    MaxSymbols = 1
    Token <- Tokens
    Option <- Options
    Slot <- Slots
    Decl <- Decls
    Dashed <- Dashes
    AtFile <- NoFiles
    Content <- NoFiles
    OptTuple <- Tuple
    ArgLists <- Lists
    Modes <- OnlyCommandLine
    Formats <- OnlyResponse
    LongName <- LongNames
    Strings <- StringOptions
    Letters <- LettersOf
    Unquoted <- Reads
    JsonText <- AsJson
    TrueText = "true"
    NumberText <- Numbers
    Mistyped <- OneMistyped
    GivenFiles <- NoGiven
INVARIANTS
    RoundTrip
