CONSTANTS
    Lines = {a}
    EndChat = EndChat
    MaxLines <- LineBounds
    MailLines = {a, b}
    End = End
    MailMaxLines = 3
SPECIFICATION AllSpec
INVARIANTS Safe ChatInOrder MailSafe EveryLineAccounted
PROPERTIES EveryLineShown EndChatEndsBoth ImplementsChannel EndStopsConsumer
CHECK_DEADLOCK FALSE
