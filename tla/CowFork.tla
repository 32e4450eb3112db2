-------------------------------- MODULE CowFork --------------------------------
(***************************************************************************)
(* Copy-on-write session branches. A branch shares a sealed prefix and     *)
(* owns the novelty appended to it; every append, checkpoint, discard and  *)
(* restore writes a ledger entry, and what it hands out must be on disk    *)
(* before it returns. The store takes blobs into memory at once            *)
(* (store_blob_deferred) and to disk in persist_pending, which may fail.   *)
(* A blob is its text; a rendering is a sequence of texts.                 *)
(***************************************************************************)
EXTENDS Naturals, Sequences, SequencesExt, FiniteSets

CONSTANTS Branches,     \* branch ids, forked at most once each
          RootBranch,   \* the branch that starts at a breakpoint
          Notes,        \* texts appended
          MaxNovelty,   \* bound on a branch's rendering
          MaxPoints,    \* bound on restore points
          MaxCowCrashes \* bound on process restarts

VARIABLES cow,        \* branch -> [open, prefix, novelty, sealed]
          cowPoints,  \* restore points handed out: [branch, records]
          cowMemory,  \* blobs the store holds in memory
          cowDisk,    \* blobs on disk
          cowHanded,  \* blobs whose reference some call returned
          cowCrashes

cowVars == <<cow, cowPoints, cowMemory, cowDisk, cowHanded, cowCrashes>>

Closed == [open |-> FALSE, prefix |-> <<>>, novelty |-> <<>>, sealed |-> FALSE]

rendered(b) == cow[b].prefix \o cow[b].novelty

(* persist_pending after the given blobs entered memory: all or nothing    *)
(* reaches the disk.                                                       *)
persist_pending(blobs, ok) ==
    /\ cowMemory' = cowMemory \cup blobs
    /\ cowDisk' = IF ok THEN cowDisk \cup cowMemory \cup blobs ELSE cowDisk

Init ==
    /\ cow = [b \in Branches |-> IF b = RootBranch
                                 THEN [Closed EXCEPT !.open = TRUE, !.sealed = TRUE]
                                 ELSE Closed]
    /\ cowPoints = {}
    /\ cowMemory = {}
    /\ cowDisk = {}
    /\ cowHanded = {}
    /\ cowCrashes = 0

(* A child shares the sealed prefix; the ledger entry is left to the next  *)
(* persist.                                                                *)
fork(b, child) ==
    /\ cow[b].open /\ cow[b].sealed
    /\ ~cow[child].open
    /\ cow' = [cow EXCEPT ![child] = [Closed EXCEPT !.open = TRUE, !.sealed = TRUE,
                                                    !.prefix = cow[b].prefix]]
    /\ UNCHANGED <<cowPoints, cowMemory, cowDisk, cowHanded, cowCrashes>>

(* The append that leaves the blob in memory and hands out its reference. *)
AppendDeferred(b, text, ok) ==
    /\ cow[b].open /\ Len(rendered(b)) < MaxNovelty
    /\ cow' = [cow EXCEPT ![b].novelty = Append(@, text), ![b].sealed = FALSE]
    /\ cowMemory' = cowMemory \cup {text}
    /\ cowHanded' = IF ok THEN cowHanded \cup {text} ELSE cowHanded
    /\ UNCHANGED <<cowPoints, cowDisk, cowCrashes>>

(* The branch keeps the text even when the persist fails; the reference is *)
(* returned only when it succeeds.                                         *)
append(b, text, ok) ==
    /\ cow[b].open /\ Len(rendered(b)) < MaxNovelty
    /\ cow' = [cow EXCEPT ![b].novelty = Append(@, text), ![b].sealed = FALSE]
    /\ persist_pending({text}, ok)
    /\ cowHanded' = IF ok THEN cowHanded \cup {text} ELSE cowHanded
    /\ UNCHANGED <<cowPoints, cowCrashes>>

(* The novelty is sealed into the prefix; a failed persist leaves it so. *)
checkpoint(b, ok) ==
    /\ cow[b].open
    /\ cow' = [cow EXCEPT ![b].prefix = rendered(b), ![b].novelty = <<>>, ![b].sealed = TRUE]
    /\ persist_pending({}, ok)
    /\ UNCHANGED <<cowPoints, cowHanded, cowCrashes>>

(* Clears the novelty before the persist has succeeded. *)
DiscardFirst(b, ok) ==
    /\ cow[b].open
    /\ persist_pending({}, ok)
    /\ cow' = [cow EXCEPT ![b].novelty = <<>>, ![b].sealed = TRUE]
    /\ cowPoints' = IF ok THEN cowPoints \cup {[branch |-> b, records |-> cow[b].novelty]}
                    ELSE cowPoints
    /\ cowHanded' = IF ok THEN cowHanded \cup ToSet(cow[b].novelty) ELSE cowHanded
    /\ UNCHANGED cowCrashes

discard(b, ok) ==
    /\ cow[b].open
    /\ Cardinality(cowPoints) < MaxPoints
    /\ persist_pending({}, ok)
    /\ IF ok
       THEN /\ cow' = [cow EXCEPT ![b].novelty = <<>>, ![b].sealed = TRUE]
            /\ cowPoints' = cowPoints \cup {[branch |-> b, records |-> cow[b].novelty]}
            /\ cowHanded' = cowHanded \cup ToSet(cow[b].novelty)
       ELSE UNCHANGED <<cow, cowPoints, cowHanded>>
    /\ UNCHANGED cowCrashes

(* Only a point of the same branch; every record must expand. *)
restore(b, point, ok) ==
    /\ cow[b].open
    /\ point.branch = b
    /\ ToSet(point.records) \subseteq cowMemory \cup cowDisk
    /\ Len(cow[b].prefix \o point.records) <= MaxNovelty
    /\ cow' = [cow EXCEPT ![b].novelty = point.records, ![b].sealed = (point.records = <<>>)]
    /\ persist_pending({}, ok)
    /\ UNCHANGED <<cowPoints, cowHanded, cowCrashes>>

(* The process restarts: branches and restore points are gone, the store   *)
(* reloads from disk, and callers still have the references they were given. *)
Restart ==
    /\ cowCrashes < MaxCowCrashes
    /\ cowMemory' = {}
    /\ cowPoints' = {}
    /\ cow' = [b \in Branches |-> IF b = RootBranch
                                  THEN [Closed EXCEPT !.open = TRUE, !.sealed = TRUE]
                                  ELSE Closed]
    /\ cowCrashes' = cowCrashes + 1
    /\ UNCHANGED <<cowDisk, cowHanded>>

Next ==
    \/ \E b, child \in Branches : fork(b, child)
    \/ \E b \in Branches, ok \in BOOLEAN :
          \/ \E text \in Notes : append(b, text, ok)
          \/ checkpoint(b, ok)
          \/ discard(b, ok)
          \/ \E point \in cowPoints : restore(b, point, ok)
    \/ Restart

Spec == Init /\ [][Next]_cowVars

(* Every reference a call returned, of an append or in a restore point,    *)
(* expands in a later process, whichever persist failed before.            *)
HandedRefsDurable ==
    /\ cowHanded \subseteq cowDisk
    /\ \A point \in cowPoints : ToSet(point.records) \subseteq cowDisk

(* The text of a branch disappears from its rendering only into a restore  *)
(* point, or where a restore replaces it; a failed discard and a           *)
(* checkpoint, failed or not, keep it.                                     *)
NoveltyNeverDropped ==
    \A b \in Branches :
        (cow[b].open /\ cow'[b].open /\ cowCrashes' = cowCrashes) =>
           \/ IsPrefix(rendered(b), rendered(b)')
           \/ \E point \in cowPoints' : point.branch = b /\ point.records = cow[b].novelty
           \/ \E point \in cowPoints : point.branch = b /\ point.records = cow'[b].novelty
=============================================================================
