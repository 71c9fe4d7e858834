---------------------------- MODULE Conversation ----------------------------
(***************************************************************************)
(* What a chat of two users promises: while a conversation is on, a user   *)
(* hears what the other one has said, from the beginning and in order;     *)
(* nothing that was said or heard is taken back before a new conversation  *)
(* begins; and none is over before one of the users has heard a farewell.  *)
(***************************************************************************)
EXTENDS Integers, Sequences, SequencesExt

CONSTANT Goodbye
VARIABLES on,   \* whether there is a conversation
          said, \* said[u]: what user u has said in it
          heard \* heard[u]: what user u has heard in it

Users == {1, 2}
Other(u) == 3 - u
Nothing == [u \in Users |-> <<>>]

Init == on \in BOOLEAN /\ said = Nothing /\ heard = Nothing

Begin == ~on /\ on' /\ said' = Nothing /\ heard' = Nothing

\* A user says, or hears, any number of lines at once.
Say(u) ==
    /\ on /\ on'
    /\ IsPrefix(said[u], said'[u])
    /\ said' = [said EXCEPT ![u] = said'[u]]
    /\ UNCHANGED heard

Hear(u) ==
    /\ on /\ on'
    /\ IsPrefix(heard[u], heard'[u]) /\ IsPrefix(heard'[u], said[Other(u)])
    /\ heard' = [heard EXCEPT ![u] = heard'[u]]
    /\ UNCHANGED said

End ==
    /\ on /\ ~on'
    /\ \E u \in Users : heard[u] # <<>> /\ Last(heard[u]) = Goodbye
    /\ UNCHANGED <<said, heard>>

Next == Begin \/ End \/ \E u \in Users : Say(u) \/ Hear(u)

Spec == Init /\ [][Next]_<<on, said, heard>>
=============================================================================
