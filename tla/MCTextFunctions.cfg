CONSTANTS
    Widths = {0, 1, 2, 3, 4}
    Byte = 4
    StackSize = 4
    MaxLines = 6
    Width = 10
    Paragraphs <- MCParagraphs
    Buffers <- MCBuffers
    Codepoints <- MCCodepoints
    Rooms <- MCRooms
    Labels <- MCLabels
    Numbers <- MCNumbers
    Scalars <- MCScalars
    Integers64 <- MCIntegers64
    Strings <- MCStrings
    Sources <- MCSources
    CodeLines <- MCCodeLines
    Templates <- MCTemplates
    Texts <- MCTexts
    Bases <- MCBases
    Names <- MCNames
SPECIFICATION TextSpec
CHECK_DEADLOCK FALSE
INVARIANTS TypeOK TokensMatchStack NoBlockTooMany TextIsLaidOut TextIsEncoded NumbersAreKept SourcesAreRead
PROPERTY EveryTextEnds
