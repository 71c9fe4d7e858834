------------------------------ MODULE MCQueues ------------------------------
(* mq: senders of priority 1, 1 and 2 (the last of them sendto) of up to 2, 1 *)
(* and 2 lines with "end", a receiver and a receiveto.  chats: chat 1 2, chat *)
(* 2 1, a sender to the queue of key 1 and a receiver from it; only the first *)
(* types a line before "end".                                                 *)
EXTENDS Queues, TLC

CONSTANTS s1, s2, s3, u, v, w, x

Priorities == (s1 :> 1) @@ (s2 :> 1) @@ (s3 :> 2)
SenderLines == (s1 :> 1) @@ (s2 :> 0) @@ (s3 :> 1)
OutKeys == (u :> "1") @@ (v :> "2") @@ (w :> "1") @@ (x :> NoKey)
InKeys == (u :> "2") @@ (v :> "1") @@ (w :> NoKey) @@ (x :> "1")
TalkLines == [l \in Launches |-> IF l = u THEN 1 ELSE 0]
=============================================================================
