\* Each user may start the program twice and type one line and "end chat" in
\* each session; two messages fill the queue.
CONSTANTS
    Lines = {a, b}
    EndChat = EndChat
    Capacity = 2
    MaxLines = 1
    MaxSessions = 2
SPECIFICATION FairSpec
INVARIANT Safe
PROPERTIES ImplementsConversation EndChatEndsBoth
CHECK_DEADLOCK FALSE
