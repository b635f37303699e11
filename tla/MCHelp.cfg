SPECIFICATION Spec
CONSTANTS
    Item <- Items
    Printable <- Printables
    Depth <- Depths
    Program <- Programs
    DefaultHelp = "default help"
    Placeholder = "COMMAND"
    Widths <- SomeWidths
    MaxCol = 80
    MaxOptionCol = 24
    UsageWidth = 7
INVARIANTS
    HTypeOK
    SynopsisNamesEveryOption
    LinesOverrunByOneItem
    DescribesWhatIsAccepted
    DescriptionsAlign
PROPERTIES
    RowsStayInTheirSection
