\* User 1 types up to two lines and "end chat", user 2 at most "end chat".
CONSTANTS
    EndChat = EndChat
    NUL = NUL
    Typists = {1}
    MaxLines = 2
SPECIFICATION FairSpec
INVARIANTS Safe PiecesInOrder
PROPERTY EndStops
CHECK_DEADLOCK FALSE
