----------------------------- MODULE LeasedRefs -----------------------------
(***************************************************************************)
(* What a segment store promises, without segments, indexes or manifests:  *)
(* a ref is held until its lease; a put raises the lease at once or not at *)
(* all; only a lease that has passed may be forgotten.  A ref names its    *)
(* content, so the lease is all there is to remember (0: nothing held).    *)
(***************************************************************************)
EXTENDS Naturals

CONSTANTS Refs, Leases, Horizon

VARIABLES lease, now

Init == lease = [r \in Refs |-> 0] /\ now = 0

Put(r, l) ==
  /\ lease' = [lease EXCEPT ![r] = IF l > @ THEN l ELSE @]
  /\ UNCHANGED now

Forget ==
  /\ \E left \in [Refs -> 0..Horizon] :
       /\ \A r \in Refs : left[r] # lease[r] => lease[r] <= now /\ left[r] < lease[r]
       /\ lease' = left
  /\ UNCHANGED now

Pass == now < Horizon /\ now' = now + 1 /\ UNCHANGED lease

Next == (\E r \in Refs, l \in Leases : Put(r, l)) \/ Forget \/ Pass

Spec == Init /\ [][Next]_<<lease, now>>
=============================================================================
