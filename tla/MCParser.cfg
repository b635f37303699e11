SPECIFICATION ProgramsSpec
CONSTANTS
    MaxArgs = 5
    MaxFileArgs = 4
    Token <- Tokens
    Option <- Options
    Slot <- Slots
    Decl <- Decls
    Dashed <- Dashes
    AtFile <- AtFiles
    Content <- Files
    OptTuple <- FileTuple
    ArgLists <- FileLists
    Modes <- AllModes
INVARIANTS
    TypeOK
    PositionalsInOrder
    SuccessIsComplete
    AtMostOneExclusive
    ResultIsWhatWasGiven
    CursorsInRange
    LoadingNeverExits
PROPERTIES
    PositionalsKeepTheirValues
    ImplementsStream
    Termination
