CONSTANTS
    Chars = {"c", "e", "x"}
    NL = "NL"
    NUL = "NUL"
    EndChat <- EndOfChat
    Texts <- TypedTexts
    MAX_RBUF = 4
    MaxSent = 4
SPECIFICATION FairSpec
INVARIANTS Safe HeardAll
PROPERTIES EndChatEndsBoth
CHECK_DEADLOCK FALSE
