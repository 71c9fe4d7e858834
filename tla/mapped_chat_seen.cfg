CONSTANTS
    EndChat = EndChat
    NUL = NUL
    Typists = {1}
    MaxLines = 1
SPECIFICATION Spec
INVARIANT SeenIsWritten
CHECK_DEADLOCK FALSE
