--------------------------- MODULE OnePlaceChannel ---------------------------
(***************************************************************************)
(* What a one-place channel promises: everything that is put in comes out  *)
(* once and in order, and nothing is put in before the last item is out.   *)
(***************************************************************************)
EXTENDS Naturals, Sequences

CONSTANT Items
VARIABLES in, \* all that was put in
          out \* all that came out

Init == in = <<>> /\ out = <<>>

Put(item) == in = out /\ in' = Append(in, item) /\ UNCHANGED out

Take == Len(out) < Len(in) /\ out' = Append(out, in[Len(out) + 1]) /\ UNCHANGED in

Next == Take \/ \E item \in Items : Put(item)

Spec == Init /\ [][Next]_<<in, out>>
==============================================================================
