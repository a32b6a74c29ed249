CONSTANTS
    Readers = {r1}
    Cases <- MCCases
    StackLimit = 3
    RightMargin = 8
SPECIFICATION DocSpec
INVARIANTS TypeOK CopiesAgree VerdictIsRight ReaderIsSound RoundTrip
