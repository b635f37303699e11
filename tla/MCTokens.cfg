SPECIFICATION FairSpec
CONSTANTS
    Char <- Chars
    Space <- Spaces
    LineEnd <- LineEnds
    LF = "lf"
    Quote = "quote"
    Backslash = "bs"
    Hash = "hash"
    Files <- ManyFiles
    MaxWords = 2
    MaxLength = 2
INVARIANTS
    TypeOK
    WordsAreRead
PROPERTIES
    ImplementsPasses
    ReaderEnds
