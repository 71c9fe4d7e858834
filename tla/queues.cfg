CONSTANTS
    s1 = s1
    s2 = s2
    s3 = s3
    u = u
    v = v
    w = w
    x = x
    Senders = {s1, s2, s3}
    Receivers = {r1, r2}
    Timed = {s3, r2}
    Priority <- Priorities
    MaxMsg = 2
    MqLines <- SenderLines
    NoMsg = NoMsg
    ChatKeys = {"1", "2"}
    Launches = {u, v, w, x}
    Out <- OutKeys
    In <- InKeys
    NoKey = NoKey
    ChatCapacity = 1
    ChatLines <- TalkLines
    PairCapacity = 2
    PairLines = 3
SPECIFICATION Spec
INVARIANTS Safe StopsOnlyAtEnd
PROPERTIES EndStopsReaders NobodyWaitsForEver
CHECK_DEADLOCK FALSE
