-------------------------- MODULE MCRecoveryStore --------------------------
(***************************************************************************)
(* Small instances of RecoveryStore for TLC.  The cfg's constants give one *)
(* instance, "store".  A run may explore a second one beside it: the       *)
(* behaviours of the two are disjoint, and `part' says which one a         *)
(* behaviour belongs to.                                                   *)
(***************************************************************************)
EXTENDS RecoveryStore, TLC

CONSTANTS p1, p2, r1, r2, a1,
          Parts   \* the instances explored: "store", "aliases"

VARIABLE part

MCKindBlobs == [r \in Ref |-> "blob"]
MCKindFiles == [r \in Ref |-> "file"]
MCMaxOne    == [k \in Kinds |-> 1]
MCMaxTwo    == [k \in Kinds |-> 2]
MCSize      == [r \in Ref |-> 1]
MCLegacyOne == [r \in Ref |-> a1]
MCLegacyNone == [r \in {} |-> a1]
MCProcSymmetry == Permutations(Proc)

(* Two blobs under one legacy alias, one of them stored, in a new cache    *)
(* without ordinals or faults.  Ref, Kind and MaxOf are the run's own; the *)
(* properties of a run with this part are about the files, and mention no  *)
(* constant that differs here.                                             *)
Aliases == INSTANCE RecoveryStore WITH
  Alias <- {a1}, Payloads <- {r1}, LegacyAlias <- MCLegacyOne,
  Counts <- {}, MaxGrants <- 0, LegacyNext <- 0, Removable <- {}, Faults <- {}

MCInit ==
  /\ part \in Parts
  /\ \/ part = "store" /\ Init
     \/ part = "aliases" /\ Aliases!Init

MCNext ==
  \/ part = "store" /\ Next /\ UNCHANGED part
  \/ part = "aliases" /\ Aliases!Next /\ UNCHANGED part

MCSpec == MCInit /\ [][MCNext]_<<vars, part>>
=============================================================================
