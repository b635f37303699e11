SPECIFICATION SSpec
CONSTANTS
    MaxChunks = 3
    MaxSymbols = 4
    Token <- Tokens
    Option <- Options
    Slot <- Slots
    Decl <- Decls
    Dashed <- Dashes
    AtFile <- NoFiles
    Content <- NoFiles
    OptTuple <- Tuple
    ArgLists <- Lists
    Modes <- OnlyCommandLine
    Formats <- BothFormats
    LongName <- LongNames
    Strings <- StringOptions
    Letters <- LettersOf
    Unquoted <- Reads
    JsonText <- AsJson
    TrueText = "true"
    NumberText <- Numbers
    Mistyped <- OneMistyped
    GivenFiles <- Given
INVARIANTS
    STypeOK
    LoadsJustWhatIsPortable
    FailedLoadLeavesTheRest
    JsonIsReadInFull
