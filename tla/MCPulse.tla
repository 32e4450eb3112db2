------------------------------ MODULE MCPulse ------------------------------
(* Small instances of Pulse for TLC: one or two ledgers, each with its     *)
(* processes; e1 is the clamped form of e2.                                *)
EXTENDS Pulse, TLC

CONSTANTS l1, l2, x1, x2, e1, e2, e3

MCOneHome == [a \in Agent |-> l1]
MCTwoHomes == [a \in Agent |-> IF a = x1 THEN l1 ELSE l2]
MCClamp == [e \in Event |-> IF e = e2 THEN e1 ELSE e]
MCClampNone == [e \in Event |-> e]

(* The two roots exchange their names together with their processes. *)
MCSwapRoots == [v \in {l1, l2, x1, x2} |->
                  CASE v = l1 -> l2 [] v = l2 -> l1 [] v = x1 -> x2 [] v = x2 -> x1]
MCSymmetry == Permutations(Event) \cup {MCSwapRoots}
=============================================================================
