SPECIFICATION FairSpec
CONSTANTS
    Bits = 5
    SignedChar = TRUE
    Beyond = "NUL"
    Lexemes <- MCLexemes
    TextOf <- MCTextOf
    KindOf <- MCKindOf
    ValOf <- MCValOf
    Size = 6
    EscapeCells = 2
    MaxLexemes = 5
    MaxBlanks = 1
    NULL = NULL
INVARIANTS ReadsDocument RefusalIsJust ChunkEndsReported NothingLeaks LocationExact
PROPERTIES ParseEnds
CHECK_DEADLOCK FALSE
