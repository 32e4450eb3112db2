---------------------------- MODULE StoresProofs ----------------------------
(***************************************************************************)
(* What the stores promise, for any number of processes, threads, short    *)
(* refs and hashes: maintenance keeps its distances and takes nothing that *)
(* is in use, the CAS tree keeps its objects' paths and its answers are    *)
(* true, a legacy blob stays readable through its migration, and the files *)
(* that processes share without one lock merge.  The inductive invariants  *)
(* are defined in the components' modules; the lemmas here are about the   *)
(* slots that the composition gives a component's variables, and those of  *)
(* the reference index are in its own module.                              *)
(***************************************************************************)
EXTENDS MCStores, TLAPS

-----------------------------------------------------------------------------
(* Maintenance.  The slots: v1 clock, v2 mlock, v3 plock, v4 marker,       *)
(* v5 gcMarker, v6 todo, v7 sweptAt, v8 tmp, v9 named, v10 files,          *)
(* v11 victims, v12 lastAuto, v13 lastGc.                                  *)

(* An idle cache that nobody maintained yet. *)
LEMMA MaintInitInv == Maint!MaintConstants /\ Maint!Init => Maint!MaintInv
BY DEF Maint!MaintConstants, Maint!Init, Maint!MaintInv, Maint!MaintShapes, Maint!LocksOwned,
   Maint!MarkersTrue, Maint!VictimsUnnamed, Maint!LiveTmpKept,
  Maint!NamedSidecarsExist, Maint!CollectionsSpaced, Maint!At, Maint!Idle, Maint!Never

(* Every step of a maintainer, of a persist and of the clock keeps the     *)
(* invariant.                                                              *)
LEMMA MaintStepInv == Maint!MaintConstants /\ Maint!MaintInv /\ [Maint!Next]_Maint!maintVars => Maint!MaintInv'
<1> SUFFICES ASSUME Maint!MaintConstants, Maint!MaintInv, [Maint!Next]_Maint!maintVars PROVE Maint!MaintInv'
  OBVIOUS
<1> USE DEF Maint!MaintConstants, Maint!MaintInv, Maint!MaintShapes, Maint!LocksOwned, Maint!MarkersTrue, Maint!VictimsUnnamed, Maint!LiveTmpKept,
  Maint!NamedSidecarsExist, Maint!CollectionsSpaced, Maint!At, Maint!Go, Maint!Rest, Maint!Idle, Maint!Never
<1>1. CASE Maint!Tock
  BY <1>1 DEF Maint!Tock
<1>2. ASSUME NEW p \in Maintainers, Maint!PersistStart(p) PROVE Maint!MaintInv'
  BY <1>2 DEF Maint!PersistStart, Maint!Tick
<1>3. ASSUME NEW p \in Maintainers, Maint!PersistRename(p) PROVE Maint!MaintInv'
  BY <1>3 DEF Maint!PersistRename
<1>4. ASSUME NEW p \in Maintainers, Maint!Coalesced(p) PROVE Maint!MaintInv'
  BY <1>4 DEF Maint!Coalesced
<1>5. ASSUME NEW p \in Maintainers, Maint!TryLock(p) PROVE Maint!MaintInv'
  BY <1>5 DEF Maint!TryLock
<1>6. ASSUME NEW p \in Maintainers, Maint!Recheck(p) PROVE Maint!MaintInv'
  BY <1>6 DEF Maint!Recheck
<1>7. ASSUME NEW p \in Maintainers, Maint!Explicit(p) PROVE Maint!MaintInv'
  BY <1>7 DEF Maint!Explicit
<1>8. ASSUME NEW p \in Maintainers, Maint!sweep_stale_tmp_files(p) PROVE Maint!MaintInv'
  BY <1>8 DEF Maint!sweep_stale_tmp_files
<1>9. ASSUME NEW p \in Maintainers, Maint!PrunePublish(p) PROVE Maint!MaintInv'
  BY <1>9 DEF Maint!PrunePublish
<1>10. ASSUME NEW p \in Maintainers, Maint!PruneUnlink(p) PROVE Maint!MaintInv'
  BY <1>10 DEF Maint!PruneUnlink
<1>11. ASSUME NEW p \in Maintainers, Maint!GcStart(p) PROVE Maint!MaintInv'
  BY <1>11 DEF Maint!GcStart, Maint!Fresh
<1>12. ASSUME NEW p \in Maintainers, Maint!GcEnd(p) PROVE Maint!MaintInv'
  BY <1>12 DEF Maint!GcEnd
<1>13. ASSUME NEW p \in Maintainers, Maint!Finish(p) PROVE Maint!MaintInv'
  BY <1>13 DEF Maint!Finish
<1>14. ASSUME NEW p \in Maintainers, Maint!MaintainerDies(p) PROVE Maint!MaintInv'
  BY <1>14 DEF Maint!MaintainerDies
<1>15. CASE UNCHANGED Maint!maintVars
  BY <1>15 DEF Maint!maintVars
<1> QED  BY <1>1, <1>2, <1>3, <1>4, <1>5, <1>6, <1>7, <1>8, <1>9, <1>10, <1>11, <1>12, <1>13,
            <1>14, <1>15 DEF Maint!Next

(* A coalesced run starts where the marker of the last one is old enough. *)
LEMMA MaintSpaced == Maint!MaintConstants /\ Maint!MaintInv /\ [Maint!Next]_Maint!maintVars => Maint!CoalescedRunsSpaced
<1> SUFFICES ASSUME Maint!MaintConstants, Maint!MaintInv, [Maint!Next]_Maint!maintVars, NEW p \in Maintainers,
                    Maint!At(p, "recheck"), v6'[p].at = "sweep"
             PROVE  v12 = Maint!Never \/ v1 - v12 >= MaintCoalesce
  BY DEF Maint!CoalescedRunsSpaced
<1>1. Maint!Recheck(p)
  <2>1. v6' # v6
    BY DEF Maint!At
  <2>2. PICK q \in Maintainers :
           \/ Maint!PersistStart(q) \/ Maint!PersistRename(q) \/ Maint!Coalesced(q) \/ Maint!TryLock(q) \/ Maint!Recheck(q) \/ Maint!Explicit(q)
           \/ Maint!sweep_stale_tmp_files(q) \/ Maint!PrunePublish(q) \/ Maint!PruneUnlink(q)
           \/ Maint!GcStart(q) \/ Maint!GcEnd(q) \/ Maint!Finish(q) \/ Maint!MaintainerDies(q)
    BY <2>1 DEF Maint!Next, Maint!Tock, Maint!maintVars
  <2>3. p = q
    BY <2>2 DEF Maint!At, Maint!Go, Maint!Rest, Maint!MaintInv, Maint!MaintShapes,
       Maint!PersistStart, Maint!PersistRename, Maint!Coalesced, Maint!TryLock, Maint!Recheck,
       Maint!Explicit,
       Maint!sweep_stale_tmp_files, Maint!PrunePublish, Maint!PruneUnlink, Maint!GcStart, Maint!GcEnd, Maint!Finish, Maint!MaintainerDies, Maint!Idle
  <2> QED  BY <2>2, <2>3 DEF Maint!At, Maint!Go, Maint!Rest, Maint!MaintInv, Maint!MaintShapes,
              Maint!PersistStart, Maint!PersistRename, Maint!Coalesced, Maint!TryLock,
       Maint!Explicit, Maint!sweep_stale_tmp_files, Maint!PrunePublish, Maint!PruneUnlink, Maint!GcStart, Maint!GcEnd, Maint!Finish, Maint!MaintainerDies, Maint!Idle
<1>2. ~Maint!Fresh(v4, MaintCoalesce)
  BY <1>1 DEF Maint!Recheck, Maint!Rest, Maint!At, Maint!Idle, Maint!MaintInv, Maint!MaintShapes
<1> QED  BY <1>2 DEF Maint!Fresh, Maint!MaintConstants, Maint!MaintInv, Maint!MaintShapes,
            Maint!MarkersTrue, Maint!Never
-----------------------------------------------------------------------------
(* The CAS tree.  The slots: v1 placed, v2 tree, v3 writable, v4 objects,  *)
(* v5 guard, v6 handle, v7 job, v8 disturbed, v9 changes, v10 calls.       *)

(* The invariant says what the store promises of its tree. *)
LEMMA TreeInvImplies == Tree!TreeInv => Tree!ObjectsKeepTheirPath /\ Tree!AnswersHonest
BY DEF Tree!TreeInv, Tree!Stands, Tree!Unblocked, Tree!AnswersHonest

(* The directories from the root down to a prefix. *)
LEMMA ChainIs ==
  ASSUME NEW p \in Tree!Prefix
  PROVE  /\ Tree!Chain(p)[1] = "root" /\ Tree!Chain(p)[2] = "blobs" /\ Tree!Chain(p)[3] = "sha256" /\ Tree!Chain(p)[4] = p
         /\ \A i \in 1..4 : Tree!Chain(p)[i] \in Tree!Path
BY DEF Tree!Chain, Tree!Path, Tree!Prefix

(* What lies under each directory. *)
LEMMA BelowIs == /\ Tree!Below("root") = {"blobs", "engine"} /\ Tree!Below("blobs") = {"sha256"}
                 /\ Tree!Below("sha256") = Tree!Prefix
BY DEF Tree!Below, Tree!Prefix

(* An empty tree, or one with directories, and no call under way. *)
LEMMA TreeInitInv == Tree!TreeConstants /\ Tree!Init => Tree!TreeInv
<1> SUFFICES ASSUME Tree!TreeConstants, Tree!Init PROVE Tree!TreeInv
  OBVIOUS
<1>1. v2 \in [Tree!Path -> Tree!Kind]
  BY DEF Tree!Init, Tree!Empty, Tree!Path, Tree!Kind
<1>2. \A t \in TreeThreads : v7[t] = Tree!Idle /\ v7[t].at = "idle"
  BY DEF Tree!Init, Tree!Idle
<1>3. Tree!TreeShapes
  BY <1>1, <1>2 DEF Tree!Init, Tree!TreeShapes, Tree!JobShape
<1> QED  BY <1>2, <1>3 DEF Tree!Init, Tree!TreeInv, Tree!GuardOwned, Tree!Stands,
            Tree!ObjectsKeepTheirPath

(* A change of the tree that keeps the objects' directories. *)
LEMMA TreeGrows ==
  ASSUME Tree!TreeInv, v2' \in [Tree!Path -> Tree!Kind], v4' = v4,
         \A x \in Tree!Path : v2[x] = "dir" => v2'[x] = "dir"
  PROVE Tree!ObjectsKeepTheirPath'
BY ChainIs DEF Tree!TreeInv, Tree!TreeShapes, Tree!ObjectsKeepTheirPath

(* Removing an empty directory. *)
LEMMA TreeShrinks ==
  ASSUME Tree!TreeInv, v4' = v4, NEW x \in Tree!Path, v2' = Tree!remove_dir(x) PROVE Tree!ObjectsKeepTheirPath'
<1> SUFFICES ASSUME NEW p \in v4, NEW i \in 1..4, Tree!EmptyDir(x) PROVE Tree!Chain(p)[i] # x
  BY ChainIs DEF Tree!TreeInv, Tree!TreeShapes, Tree!ObjectsKeepTheirPath, Tree!remove_dir
<1>1. p \in Tree!Prefix /\ \A k \in 1..4 : v2[Tree!Chain(p)[k]] = "dir"
  BY DEF Tree!TreeInv, Tree!TreeShapes, Tree!ObjectsKeepTheirPath
<1>2. v2["blobs"] = "dir" /\ v2["sha256"] = "dir" /\ v2[p] = "dir"
  BY <1>1, ChainIs
<1>3. x # "root" /\ x # "blobs" /\ x # "sha256"
  BY <1>1, <1>2, BelowIs DEF Tree!EmptyDir
<1>4. x # p
  BY DEF Tree!EmptyDir
<1> QED  BY <1>1, <1>3, <1>4, ChainIs

(* A step of one thread leaves what the others built or found out: it only *)
(* makes and removes directories, and removes none that a call still needs *)
(* unless that call learns of it.                                          *)
LEMMA OthersStand ==
  ASSUME Tree!TreeInv, NEW u \in TreeThreads, v7'[u] = v7[u], v3' = v3,
         v8[u] => v8'[u],
         \A x \in Tree!Path : v2'[x] = v2[x] \/ (v2[x] \in {"dir", "none"} /\ v2'[x] \in {"dir", "none"}),
         \/ \A x \in Tree!Path : v2[x] = "dir" => v2'[x] = "dir"
         \/ v7[u].at \in {"prepare", "write"} => v8'[u]
  PROVE  Tree!Stands(u)'
<1>1. CASE v8'[u]
  BY <1>1 DEF Tree!Stands
<1>2. CASE ~v8'[u]
  <2>1. ~v8[u] /\ Tree!Stands(u) /\ Tree!JobShape(v7[u])
    BY <1>2 DEF Tree!TreeInv, Tree!TreeShapes
  <2>2. v7[u].at \in {"prepare", "write", "undo", "done"} => v7[u].prefix \in Tree!Prefix
    BY <2>1 DEF Tree!JobShape, Tree!Idle
  <2>3. v7[u].at \in {"prepare", "write", "undo", "done"} =>
          \A i \in 1..4 : Tree!Chain(v7[u].prefix)[i] \in Tree!Path
    BY <2>2, ChainIs
  <2>4. v7[u].at \in {"undo", "done"} =>
          (Tree!Unblocked(v7[u].prefix) <=> Tree!Unblocked(v7[u].prefix)')
    BY <2>3 DEF Tree!Unblocked
  <2> QED  BY <1>2, <2>1, <2>3, <2>4 DEF Tree!Stands
<1> QED  BY <1>1, <1>2

(* The shape of the state after a step of thread t: only its own call moves. *)
LEMMA ShapesKept ==
  ASSUME Tree!TreeInv, NEW t \in TreeThreads, v1' = v1, v2' \in [Tree!Path -> Tree!Kind], v3' = v3,
         v4' \subseteq Tree!Prefix, DOMAIN v5' = DOMAIN v5, v8' \in [TreeThreads -> BOOLEAN],
         DOMAIN v7' = TreeThreads, \A u \in TreeThreads : u # t => v7'[u] = v7[u], Tree!JobShape(v7'[t])
  PROVE  Tree!TreeShapes'
BY DEF Tree!TreeInv, Tree!TreeShapes, Tree!Process, Tree!ProcessOf, Tree!JobShape, Tree!Idle

(* Taking and giving back the publication lock of one process. *)
LEMMA GuardTaken ==
  ASSUME Tree!TreeConstants, Tree!TreeInv, NEW t \in TreeThreads, v1' = v1, Tree!Guarded(t), Tree!Take(t),
         \A u \in TreeThreads : u # t => v7'[u] = v7[u]
  PROVE  Tree!GuardOwned' /\ DOMAIN v5' = DOMAIN v5
BY DEF Tree!TreeConstants, Tree!TreeInv, Tree!TreeShapes, Tree!GuardOwned, Tree!Guarded,
   Tree!Take, Tree!Process, Tree!ProcessOf

(* A call that lets go of the guard leaves it to nobody. *)
LEMMA GuardFreed ==
  ASSUME Tree!TreeInv, NEW t \in TreeThreads, v1' = v1, Tree!Free(t), v7'[t].at = "done",
         \A u \in TreeThreads : u # t => v7'[u] = v7[u]
  PROVE  Tree!GuardOwned' /\ DOMAIN v5' = DOMAIN v5
BY DEF Tree!TreeInv, Tree!TreeShapes, Tree!GuardOwned, Tree!Free, Tree!Process, Tree!ProcessOf

(* A step that takes no guard and leaves none keeps it where it is. *)
LEMMA GuardKept ==
  ASSUME Tree!TreeInv, NEW t \in TreeThreads, v1' = v1, v5' = v5,
         v7'[t].at \in {"prepare", "write", "undo"} => v7[t].at \in {"prepare", "write", "undo"},
         \A u \in TreeThreads : u # t => v7'[u] = v7[u]
  PROVE  Tree!GuardOwned' /\ DOMAIN v5' = DOMAIN v5
BY DEF Tree!TreeInv, Tree!TreeShapes, Tree!GuardOwned, Tree!Process, Tree!ProcessOf

(* A change of the tree that a running call did not make marks it          *)
(* disturbed.                                                              *)
LEMMA TouchTells ==
  ASSUME Tree!TreeInv, NEW t \in TreeThreads, Tree!Touch(t)
  PROVE  /\ v8' \in [TreeThreads -> BOOLEAN] /\ v8'[t] = v8[t]
         /\ \A u \in TreeThreads : v8[u] => v8'[u]
         /\ \A u \in TreeThreads : u # t /\ v7[u].at \in {"prepare", "write"}
               /\ v7[t].at \in {"prepare", "write", "undo"} => v8'[u]
BY DEF Tree!TreeInv, Tree!TreeShapes, Tree!GuardOwned, Tree!Touch, Tree!ProcessOf

(* A call that ends records its answer. *)
LEMMA EndIs ==
  ASSUME Tree!TreeInv, NEW t \in TreeThreads, NEW answer, Tree!End(t, answer), v7[t].at \in {"prepare", "write", "undo"}
  PROVE  /\ DOMAIN v7' = TreeThreads /\ Tree!JobShape(v7'[t]) /\ v7'[t].at = "done"
         /\ v7'[t].prefix = v7[t].prefix /\ v7'[t].answer = answer
         /\ \A u \in TreeThreads : u # t => v7'[u] = v7[u]
<1>1. Tree!JobShape(v7[t]) /\ v7[t].prefix \in Tree!Prefix
  BY DEF Tree!TreeInv, Tree!TreeShapes, Tree!JobShape, Tree!Idle
<1> QED  BY <1>1 DEF Tree!TreeInv, Tree!TreeShapes, Tree!End, Tree!JobShape

(* Opening a store handle. *)
LEMMA HandleOpenKeeps ==
  ASSUME Tree!TreeInv, NEW t \in TreeThreads, v1' = v1,
         Tree!open_with_env(t) \/ \E r \in BOOLEAN : Tree!with_shared_cas(t, r)
  PROVE  Tree!TreeInv'
<1>1. /\ v2' = Tree!LayoutMade \/ v2' = v2
      /\ Tree!Touch(t) /\ UNCHANGED <<v3, v4, v5, v7>>
  BY DEF Tree!open_with_env, Tree!with_shared_cas
<1>2. /\ v2' \in [Tree!Path -> Tree!Kind]
      /\ \A x \in Tree!Path : v2[x] = "dir" => v2'[x] = "dir"
      /\ \A x \in Tree!Path : v2'[x] = v2[x] \/ (v2[x] \in {"dir", "none"} /\ v2'[x] \in {"dir", "none"})
  BY <1>1 DEF Tree!TreeInv, Tree!TreeShapes, Tree!LayoutMade, Tree!reject_symlinks_below,
     Tree!Kind
<1>3. Tree!TreeShapes'
  BY <1>1, <1>2, TouchTells, ShapesKept DEF Tree!TreeInv, Tree!TreeShapes
<1>4. Tree!GuardOwned'
  BY <1>1, GuardKept
<1>5. Tree!ObjectsKeepTheirPath'
  BY <1>1, <1>2, TreeGrows
<1>6. \A u \in TreeThreads : Tree!Stands(u)'
  BY <1>1, <1>2, TouchTells, OthersStand
<1> QED  BY <1>3, <1>4, <1>5, <1>6 DEF Tree!TreeInv

(* A put or a probe begins under the guard. *)
LEMMA BeginKeeps ==
  ASSUME Tree!TreeConstants, Tree!TreeInv, NEW t \in TreeThreads, v1' = v1, NEW p \in Tree!Prefix,
         Tree!put(t, p) \/ Tree!probe_cas_writable(t, p)
  PROVE  Tree!TreeInv'
<1>1. PICK what : /\ Tree!Guarded(t) /\ Tree!Take(t) /\ Tree!Begin(t, what, p)
                  /\ UNCHANGED <<v2, v3, v4, v8>>
  BY DEF Tree!put, Tree!probe_cas_writable, Tree!cas_publication_guard
<1>2. /\ DOMAIN v7' = TreeThreads /\ Tree!JobShape(v7'[t]) /\ \A u \in TreeThreads : u # t => v7'[u] = v7[u]
      /\ v7'[t].at = "prepare" /\ v7'[t].level = 1
  BY <1>1 DEF Tree!TreeInv, Tree!TreeShapes, Tree!Begin, Tree!JobShape
<1>3. Tree!GuardOwned' /\ DOMAIN v5' = DOMAIN v5
  BY <1>1, <1>2, GuardTaken
<1>4. Tree!TreeShapes'
  BY <1>1, <1>2, <1>3, ShapesKept DEF Tree!TreeInv, Tree!TreeShapes
<1>5. Tree!ObjectsKeepTheirPath'
  BY <1>1 DEF Tree!TreeInv, Tree!ObjectsKeepTheirPath
<1>6. Tree!Stands(t)'
  BY <1>2 DEF Tree!Stands
<1>7. \A u \in TreeThreads : u # t => Tree!Stands(u)'
  BY <1>1, <1>2, OthersStand
<1> QED  BY <1>3, <1>4, <1>5, <1>6, <1>7 DEF Tree!TreeInv

(* One directory is made or found on the way down. *)
LEMMA PrepareKeeps ==
  ASSUME Tree!TreeInv, NEW t \in TreeThreads, v1' = v1, Tree!prepare_canonical_prefix(t)
  PROVE  Tree!TreeInv'
<1> DEFINE j == v7[t]
           x == Tree!Chain(j.prefix)[j.level]
           parent == IF j.level = 1 THEN "root" ELSE Tree!Chain(j.prefix)[j.level - 1]
<1>0. /\ j.at = "prepare" /\ j.prefix \in Tree!Prefix /\ j.level \in 1..4 /\ x \in Tree!Path /\ Tree!JobShape(j)
      /\ j = [at |-> j.at, what |-> j.what, prefix |-> j.prefix, level |-> j.level, existed |-> j.existed]
      /\ UNCHANGED <<v3, v4>>
  BY ChainIs DEF Tree!TreeInv, Tree!TreeShapes, Tree!JobShape, Tree!Idle,
     Tree!prepare_canonical_prefix
<1>1. CASE v2[x] \in {"file", "link"} \/ (v2[x] = "none" /\ ~v3)
           \/ (v2[x] = "none" /\ j.level > 1 /\ v2[parent] # "dir")
  <2>1. PICK answer \in {"containment", "permission", "io"} : Tree!End(t, answer) /\ UNCHANGED <<v2, v8>>
    BY <1>1 DEF Tree!prepare_canonical_prefix
  <2>2. Tree!GuardOwned' /\ DOMAIN v5' = DOMAIN v5
    BY <1>0, <2>1, EndIs, GuardFreed DEF Tree!End
  <2>3. Tree!TreeShapes'
    BY <1>0, <2>1, <2>2, EndIs, ShapesKept DEF Tree!TreeInv, Tree!TreeShapes
  <2>4. Tree!ObjectsKeepTheirPath'
    BY <1>0, <2>1 DEF Tree!TreeInv, Tree!ObjectsKeepTheirPath
  <2>5. ~v8[t] => ~(v3 /\ Tree!Unblocked(j.prefix))
    <3>1. ~v8[t] /\ j.level > 1 => v2[parent] = "dir"
      BY <1>0 DEF Tree!TreeInv, Tree!Stands
    <3> QED  BY <1>0, <1>1, <3>1 DEF Tree!Unblocked
  <2>6. Tree!Stands(t)'
    <3>1. v7'[t].at = "done" /\ v7'[t].answer # "ok" /\ v7'[t].prefix = j.prefix
      BY <1>0, <2>1, EndIs
    <3> QED  BY <1>0, <2>1, <2>5, <3>1 DEF Tree!Stands, Tree!Unblocked
  <2>7. \A u \in TreeThreads : u # t => Tree!Stands(u)'
    BY <1>0, <2>1, EndIs, OthersStand
  <2> QED  BY <2>2, <2>3, <2>4, <2>6, <2>7 DEF Tree!TreeInv
<1>2. CASE /\ v2[x] \notin {"file", "link"} /\ ~(v2[x] = "none" /\ ~v3)
           /\ ~(v2[x] = "none" /\ j.level > 1 /\ v2[parent] # "dir")
  <2>1. /\ v2' = [v2 EXCEPT ![x] = "dir"] /\ v5' = v5
        /\ Tree!Touch(t) \/ v8' = v8
        /\ j.level = 4 => v7' = [v7 EXCEPT ![t].at = "write"]
        /\ j.level # 4 => v7' = [v7 EXCEPT ![t].level = @ + 1]
    BY <1>2 DEF Tree!prepare_canonical_prefix
  <2>2. /\ v2' \in [Tree!Path -> Tree!Kind] /\ v2[x] \in {"dir", "none"} /\ v2'[x] = "dir"
        /\ \A y \in Tree!Path : y # x => v2'[y] = v2[y]
    BY <1>0, <1>2, <2>1 DEF Tree!TreeInv, Tree!TreeShapes, Tree!Kind
  <2>3. /\ DOMAIN v7' = TreeThreads /\ \A u \in TreeThreads : u # t => v7'[u] = v7[u]
        /\ v7'[t] = [at |-> IF j.level = 4 THEN "write" ELSE "prepare", what |-> j.what, prefix |-> j.prefix,
                      level |-> IF j.level = 4 THEN 4 ELSE j.level + 1, existed |-> j.existed]
    <3>1. CASE j.level = 4
      BY <1>0, <2>1, <3>1 DEF Tree!TreeInv, Tree!TreeShapes
    <3>2. CASE j.level # 4
      BY <1>0, <2>1, <3>2 DEF Tree!TreeInv, Tree!TreeShapes
    <3> QED  BY <3>1, <3>2
  <2>4. Tree!JobShape(v7'[t])
    BY <1>0, <2>3 DEF Tree!JobShape
  <2>5. /\ v8' \in [TreeThreads -> BOOLEAN] /\ v8'[t] = v8[t]
        /\ \A u \in TreeThreads : v8[u] => v8'[u]
    BY <2>1, TouchTells DEF Tree!TreeInv, Tree!TreeShapes
  <2>6. Tree!GuardOwned' /\ DOMAIN v5' = DOMAIN v5
    BY <1>0, <2>1, <2>3, GuardKept
  <2>7. Tree!TreeShapes'
    BY <1>0, <2>2, <2>3, <2>4, <2>5, <2>6, ShapesKept DEF Tree!TreeInv, Tree!TreeShapes
  <2>8. Tree!ObjectsKeepTheirPath'
    BY <1>0, <2>2, TreeGrows
  <2>9. Tree!Stands(t)'
    <3> SUFFICES ASSUME ~v8[t], NEW i \in 1..4, i < j.level + 1
                 PROVE  v2'[Tree!Chain(j.prefix)[i]] = "dir"
      BY <1>0, <2>3, <2>5 DEF Tree!Stands
    <3>1. CASE i = j.level
      BY <3>1, <2>2
    <3>2. CASE i < j.level
      <4>1. v2[Tree!Chain(j.prefix)[i]] = "dir"
        BY <1>0, <3>2 DEF Tree!TreeInv, Tree!Stands
      <4> QED  BY <4>1, <1>0, <2>2, ChainIs
    <3> QED  BY <1>0, <3>1, <3>2
  <2>10. \A u \in TreeThreads : u # t => Tree!Stands(u)'
    BY <1>0, <2>2, <2>3, <2>5, OthersStand
  <2> QED  BY <2>6, <2>7, <2>8, <2>9, <2>10 DEF Tree!TreeInv
<1> QED  BY <1>1, <1>2

(* The object is renamed into its directory. *)
LEMMA TreePublishKeeps ==
  ASSUME Tree!TreeInv, NEW t \in TreeThreads, v1' = v1, Tree!publish(t)
  PROVE  Tree!TreeInv'
<1> DEFINE p == v7[t].prefix
           chain == {Tree!Chain(p)[i] : i \in 1..4}
<1>0. v7[t].at = "write" /\ p \in Tree!Prefix /\ (\A i \in 1..4 : Tree!Chain(p)[i] \in Tree!Path) /\ UNCHANGED v3
  BY ChainIs DEF Tree!TreeInv, Tree!TreeShapes, Tree!JobShape, Tree!Idle, Tree!publish
<1>1. CASE v3 /\ Tree!Unblocked(p)
  <2>1. /\ v2' = [x \in Tree!Path |-> IF x \in chain THEN "dir" ELSE v2[x]]
        /\ v4' = v4 \cup {p} /\ Tree!End(t, "ok") /\ Tree!Touch(t)
    BY <1>1 DEF Tree!publish, Tree!Unblocked
  <2>2. /\ v2' \in [Tree!Path -> Tree!Kind] /\ \A i \in 1..4 : v2'[Tree!Chain(p)[i]] = "dir"
        /\ \A x \in Tree!Path : v2[x] = "dir" => v2'[x] = "dir"
        /\ \A x \in Tree!Path : v2'[x] = v2[x] \/ (v2[x] \in {"dir", "none"} /\ v2'[x] \in {"dir", "none"})
    BY <1>0, <1>1, <2>1 DEF Tree!TreeInv, Tree!TreeShapes, Tree!Kind, Tree!Unblocked
  <2>3. Tree!GuardOwned' /\ DOMAIN v5' = DOMAIN v5
    BY <1>0, <2>1, EndIs, GuardFreed DEF Tree!End
  <2>4. Tree!TreeShapes'
    BY <1>0, <2>1, <2>2, <2>3, EndIs, TouchTells, ShapesKept DEF Tree!TreeInv, Tree!TreeShapes
  <2>5. Tree!ObjectsKeepTheirPath'
    <3> SUFFICES ASSUME NEW q \in v4, NEW i \in 1..4 PROVE v2'[Tree!Chain(q)[i]] = "dir"
      BY <2>1, <2>2 DEF Tree!ObjectsKeepTheirPath
    <3>1. q \in Tree!Prefix /\ v2[Tree!Chain(q)[i]] = "dir"
      BY DEF Tree!TreeInv, Tree!TreeShapes, Tree!ObjectsKeepTheirPath
    <3> QED  BY <3>1, <2>2, ChainIs
  <2>6. Tree!Stands(t)'
    <3>1. v7'[t].at = "done" /\ v7'[t].answer = "ok" /\ v7'[t].prefix = p
      BY <1>0, <2>1, EndIs
    <3> QED  BY <1>0, <1>1, <2>2, <3>1 DEF Tree!Stands, Tree!Unblocked
  <2>7. \A u \in TreeThreads : u # t => Tree!Stands(u)'
    BY <1>0, <2>1, <2>2, EndIs, TouchTells, OthersStand
  <2> QED  BY <2>3, <2>4, <2>5, <2>6, <2>7 DEF Tree!TreeInv
<1>2. CASE ~(v3 /\ Tree!Unblocked(p))
  <2>1. Tree!End(t, "io") /\ UNCHANGED <<v2, v4, v8>>
    BY <1>2 DEF Tree!publish, Tree!Unblocked
  <2>2. Tree!GuardOwned' /\ DOMAIN v5' = DOMAIN v5
    BY <1>0, <2>1, EndIs, GuardFreed DEF Tree!End
  <2>3. Tree!TreeShapes'
    BY <1>0, <2>1, <2>2, EndIs, ShapesKept DEF Tree!TreeInv, Tree!TreeShapes
  <2>4. Tree!ObjectsKeepTheirPath'
    BY <2>1 DEF Tree!TreeInv, Tree!ObjectsKeepTheirPath
  <2>6. Tree!Stands(t)'
    <3>1. v7'[t].at = "done" /\ v7'[t].answer # "ok" /\ v7'[t].prefix = p
      BY <1>0, <2>1, EndIs
    <3> QED  BY <1>0, <1>2, <2>1, <3>1 DEF Tree!Stands, Tree!Unblocked
  <2>7. \A u \in TreeThreads : u # t => Tree!Stands(u)'
    BY <1>0, <2>1, EndIs, OthersStand
  <2> QED  BY <2>2, <2>3, <2>4, <2>6, <2>7 DEF Tree!TreeInv
<1> QED  BY <1>1, <1>2

(* The probe writes and removes its file. *)
LEMMA WriteProbeKeeps ==
  ASSUME Tree!TreeInv, NEW t \in TreeThreads, v1' = v1, Tree!WriteProbe(t)
  PROVE  Tree!TreeInv'
<1> DEFINE j == v7[t]
<1>0. /\ j.at = "write" /\ j.prefix \in Tree!Prefix
      /\ j = [at |-> j.at, what |-> j.what, prefix |-> j.prefix, level |-> j.level, existed |-> j.existed]
      /\ UNCHANGED <<v2, v3, v4, v5, v8>>
  BY DEF Tree!TreeInv, Tree!TreeShapes, Tree!JobShape, Tree!Idle, Tree!WriteProbe
<1>1. /\ DOMAIN v7' = TreeThreads /\ \A u \in TreeThreads : u # t => v7'[u] = v7[u]
      /\ v7'[t] = [at |-> "undo", what |-> "probe", prefix |-> j.prefix, level |-> 4, existed |-> j.existed,
                    answer |-> IF v3 /\ \A i \in 1..4 : v2[Tree!Chain(j.prefix)[i]] = "dir" THEN "ok" ELSE "io"]
  BY DEF Tree!TreeInv, Tree!TreeShapes, Tree!WriteProbe
<1>2. Tree!JobShape(v7'[t])
  BY <1>0, <1>1 DEF Tree!JobShape
<1>3. Tree!GuardOwned' /\ DOMAIN v5' = DOMAIN v5
  BY <1>0, <1>1, GuardKept
<1>4. Tree!TreeShapes'
  BY <1>0, <1>1, <1>2, <1>3, ShapesKept DEF Tree!TreeInv, Tree!TreeShapes
<1>5. Tree!ObjectsKeepTheirPath'
  BY <1>0 DEF Tree!TreeInv, Tree!ObjectsKeepTheirPath
<1>6. Tree!Stands(t)'
  <2>1. ~v8[t] => \A i \in 1..4 : v2[Tree!Chain(j.prefix)[i]] = "dir"
    BY <1>0 DEF Tree!TreeInv, Tree!Stands
  <2>2. /\ v7'[t].at = "undo" /\ v7'[t].prefix = j.prefix
        /\ ~v8[t] => (v7'[t].answer = "ok" <=> v3)
    BY <1>1, <2>1
  <2> QED  BY <1>0, <2>1, <2>2 DEF Tree!Stands, Tree!Unblocked
<1>7. \A u \in TreeThreads : u # t => Tree!Stands(u)'
  BY <1>0, <1>1, OthersStand
<1> QED  BY <1>3, <1>4, <1>5, <1>6, <1>7 DEF Tree!TreeInv

(* The probe removes the directories it made, from the bottom up. *)
LEMMA UndoProbeKeeps ==
  ASSUME Tree!TreeInv, NEW t \in TreeThreads, v1' = v1, Tree!UndoProbe(t)
  PROVE  Tree!TreeInv'
<1> DEFINE j == v7[t]
           x == Tree!Chain(j.prefix)[j.level]
<1>0. /\ j.at = "undo" /\ j.prefix \in Tree!Prefix /\ j.level \in 2..4 /\ x \in Tree!Path /\ Tree!JobShape(j)
      /\ j = [at |-> "undo", what |-> "probe", prefix |-> j.prefix, level |-> j.level, existed |-> j.existed, answer |-> j.answer]
      /\ UNCHANGED <<v3, v4>>
  BY ChainIs DEF Tree!TreeInv, Tree!TreeShapes, Tree!JobShape, Tree!Idle, Tree!UndoProbe
<1>1. /\ v2' = v2 \/ v2' = Tree!remove_dir(x)
      /\ (v2' = v2 /\ v8' = v8) \/ Tree!Touch(t)
  BY DEF Tree!UndoProbe
<1>2. /\ v2' \in [Tree!Path -> Tree!Kind]
      /\ \A y \in Tree!Path : v2'[y] = v2[y] \/ (v2[y] \in {"dir", "none"} /\ v2'[y] \in {"dir", "none"})
  BY <1>0, <1>1 DEF Tree!TreeInv, Tree!TreeShapes, Tree!Kind, Tree!remove_dir, Tree!EmptyDir
<1>3. Tree!ObjectsKeepTheirPath'
  <2>1. CASE v2' = v2
    BY <2>1, <1>0 DEF Tree!TreeInv, Tree!ObjectsKeepTheirPath
  <2>2. CASE v2' = Tree!remove_dir(x)
    BY <2>2, <1>0, TreeShrinks
  <2> QED  BY <1>1, <2>1, <2>2
<1>4. /\ v8' \in [TreeThreads -> BOOLEAN] /\ v8'[t] = v8[t]
      /\ \A u \in TreeThreads : v8[u] => v8'[u]
  BY <1>1, TouchTells DEF Tree!TreeInv, Tree!TreeShapes
<1>5. \A u \in TreeThreads : u # t =>
        \/ \A y \in Tree!Path : v2[y] = "dir" => v2'[y] = "dir"
        \/ v7[u].at \in {"prepare", "write"} => v8'[u]
  BY <1>0, <1>1, TouchTells
<1>6. /\ DOMAIN v7' = TreeThreads /\ Tree!JobShape(v7'[t]) /\ \A u \in TreeThreads : u # t => v7'[u] = v7[u]
      /\ v7'[t].prefix = j.prefix
      /\ \/ v7'[t].at = "undo" /\ v7'[t].answer = j.answer
         \/ v7'[t].at = "done" /\ v7'[t].answer = j.answer
      /\ Tree!GuardOwned' /\ DOMAIN v5' = DOMAIN v5
  <2>1. CASE j.level = 2
    <3>1. Tree!End(t, j.answer)
      BY <2>1 DEF Tree!UndoProbe
    <3> QED  BY <1>0, <3>1, EndIs, GuardFreed DEF Tree!End
  <2>2. CASE j.level # 2
    <3>1. v5' = v5 /\ v7' = [v7 EXCEPT ![t].level = @ - 1]
      BY <2>2 DEF Tree!UndoProbe
    <3>2. /\ DOMAIN v7' = TreeThreads /\ \A u \in TreeThreads : u # t => v7'[u] = v7[u]
          /\ v7'[t] = [at |-> "undo", what |-> "probe", prefix |-> j.prefix, level |-> j.level - 1,
                        existed |-> j.existed, answer |-> j.answer]
      BY <1>0, <3>1 DEF Tree!TreeInv, Tree!TreeShapes
    <3>3. Tree!JobShape(v7'[t])
      BY <1>0, <2>2, <3>2 DEF Tree!JobShape
    <3> QED  BY <1>0, <3>1, <3>2, <3>3, GuardKept
  <2> QED  BY <2>1, <2>2
<1>7. Tree!TreeShapes'
  BY <1>0, <1>2, <1>4, <1>6, ShapesKept DEF Tree!TreeInv, Tree!TreeShapes
<1>8. Tree!Stands(t)'
  <2>1. ~v8[t] => (j.answer = "ok" <=> v3) /\ Tree!Unblocked(j.prefix)
    BY <1>0 DEF Tree!TreeInv, Tree!Stands
  <2>2. Tree!Unblocked(j.prefix) => \A i \in 1..4 : v2'[Tree!Chain(j.prefix)[i]] \in {"dir", "none"}
    BY <1>0, <1>2, ChainIs DEF Tree!Unblocked
  <2>3. ~v8[t] => (v7'[t].answer = "ok" <=> v3')
          /\ \A i \in 1..4 : v2'[Tree!Chain(v7'[t].prefix)[i]] \in {"dir", "none"}
    BY <1>0, <1>6, <2>1, <2>2
  <2> QED  BY <1>4, <1>6, <2>3 DEF Tree!Stands, Tree!Unblocked
<1>9. \A u \in TreeThreads : u # t => Tree!Stands(u)'
  BY <1>0, <1>2, <1>4, <1>5, <1>6, OthersStand
<1> QED  BY <1>3, <1>6, <1>7, <1>8, <1>9 DEF Tree!TreeInv

(* A call returns its answer, or a handle is closed. *)
LEMMA ReturnKeeps ==
  ASSUME Tree!TreeInv, NEW t \in TreeThreads, v1' = v1, Tree!Close(t) \/ Tree!Return(t)
  PROVE  Tree!TreeInv'
<1>0. /\ UNCHANGED <<v2, v3, v4, v5>> /\ DOMAIN v7' = TreeThreads
      /\ \A u \in TreeThreads : u # t => v7'[u] = v7[u]
      /\ v7'[t] = Tree!Idle /\ Tree!JobShape(v7'[t]) /\ v7'[t].at = "idle"
      /\ v8' \in [TreeThreads -> BOOLEAN] /\ \A u \in TreeThreads : u # t => v8'[u] = v8[u]
  <2>1. CASE Tree!Close(t)
    BY <2>1 DEF Tree!TreeInv, Tree!TreeShapes, Tree!Close, Tree!JobShape, Tree!Idle
  <2>2. CASE Tree!Return(t)
    BY <2>2 DEF Tree!TreeInv, Tree!TreeShapes, Tree!Return, Tree!JobShape, Tree!Idle
  <2> QED  BY <2>1, <2>2
<1>1. Tree!GuardOwned' /\ DOMAIN v5' = DOMAIN v5
  BY <1>0, GuardKept
<1>2. Tree!TreeShapes'
  BY <1>0, <1>1, ShapesKept DEF Tree!TreeInv, Tree!TreeShapes
<1>3. Tree!ObjectsKeepTheirPath'
  BY <1>0 DEF Tree!TreeInv, Tree!ObjectsKeepTheirPath
<1>4. \A u \in TreeThreads : u # t => Tree!Stands(u)'
  BY <1>0, OthersStand
<1>5. Tree!Stands(t)'
  BY <1>0 DEF Tree!Stands
<1> QED  BY <1>1, <1>2, <1>3, <1>4, <1>5 DEF Tree!TreeInv

(* Somebody outside changes the tree or its permissions. *)
LEMMA OutsideKeeps ==
  ASSUME Tree!TreeInv, v1' = v1, Tree!Outside
  PROVE  Tree!TreeInv'
<1>1. /\ UNCHANGED <<v4, v5, v7>> /\ v3' \in BOOLEAN
      /\ v8' = [u \in TreeThreads |-> v8[u] \/ v7[u].at # "idle"]
      /\ v2' \in [Tree!Path -> Tree!Kind] /\ \A x \in Tree!Path : v2[x] = "dir" => v2'[x] = "dir"
  BY DEF Tree!TreeInv, Tree!TreeShapes, Tree!Outside, Tree!Kind
<1>2. Tree!TreeShapes'
  BY <1>1 DEF Tree!TreeInv, Tree!TreeShapes, Tree!Process, Tree!ProcessOf, Tree!JobShape,
     Tree!Idle
<1>3. Tree!GuardOwned'
  BY <1>1 DEF Tree!TreeInv, Tree!GuardOwned, Tree!ProcessOf
<1>4. Tree!ObjectsKeepTheirPath'
  BY <1>1, TreeGrows
<1>5. \A u \in TreeThreads : Tree!Stands(u)'
  BY <1>1 DEF Tree!Stands
<1> QED  BY <1>2, <1>3, <1>4, <1>5 DEF Tree!TreeInv

(* Every step of the tree keeps the invariant. *)
LEMMA TreeStepInv == Tree!TreeConstants /\ Tree!TreeInv /\ [Tree!Next]_Tree!treeVars => Tree!TreeInv'
<1> SUFFICES ASSUME Tree!TreeConstants, Tree!TreeInv, [Tree!Next]_Tree!treeVars PROVE Tree!TreeInv'
  OBVIOUS
<1>1. CASE Tree!Next
  <2>1. v1' = v1
    BY <1>1 DEF Tree!Next
  <2>2. ASSUME NEW t \in TreeThreads, Tree!Step(t) PROVE Tree!TreeInv'
    BY <2>1, <2>2, HandleOpenKeeps, BeginKeeps, PrepareKeeps, TreePublishKeeps, WriteProbeKeeps,
       UndoProbeKeeps,
       ReturnKeeps DEF Tree!Step
  <2> QED  BY <1>1, <2>1, <2>2, OutsideKeeps DEF Tree!Next
<1>2. CASE UNCHANGED Tree!treeVars
  BY <1>2 DEF Tree!treeVars, Tree!TreeInv, Tree!TreeShapes, Tree!GuardOwned, Tree!Stands,
     Tree!Unblocked, Tree!ObjectsKeepTheirPath,
     Tree!Process, Tree!ProcessOf, Tree!JobShape, Tree!Idle
<1> QED  BY <1>1, <1>2
-----------------------------------------------------------------------------
(* Legacy migration.  The slots: v1 sources, v2 objects, v3 aliases,       *)
(* v4 ambiguous, v5 manifest, v6 op, v7 maker, v8 original.                *)

(* The invariant says what a migration promises. *)
LEMMA MigInvImplies == Mig!MigConstants /\ Mig!MigInv => Mig!LegacyStaysReadable /\ Mig!CleanRunVerifies
<1> SUFFICES ASSUME Mig!MigConstants, Mig!MigInv PROVE Mig!LegacyStaysReadable /\ Mig!CleanRunVerifies
  OBVIOUS
<1>1. Mig!LegacyStaysReadable
  BY DEF Mig!MigInv, Mig!SourcesHandedOver, Mig!LegacyStaysReadable
<1>2. ASSUME v6.kind = "report", v6.of = "run", ~v6.failed,
             NEW s \in DOMAIN v5.entries, v1[s] # "missing", v7[s] \notin {"agent", "race"}
      PROVE  Mig!integrity([sources |-> v1, aliases |-> v3], s, v5.entries[s], FALSE)
  <2>1. s \in MigShort /\ s \in Mig!LegacyRefs
    BY <1>2 DEF Mig!MigInv, Mig!MigShapes, Mig!EntriesNamed, Mig!LegacyRefs
  <2>2. Mig!Backed(v5.entries, s) /\ s \in DOMAIN v3
    BY <1>2, <2>1 DEF Mig!MigInv, Mig!ReportTrue
  <2>3. v3[s] = v8[s] /\ v1[s] = v8[s]
    BY <1>2, <2>1, <2>2 DEF Mig!MigInv, Mig!AliasesTrue, Mig!SourcesHandedOver
  <2> QED  BY <1>2, <2>2, <2>3 DEF Mig!Backed, Mig!integrity, Mig!cas_ok
<1> QED  BY <1>1, <1>2 DEF Mig!CleanRunVerifies

(* A store with legacy blobs and no migration yet. *)
LEMMA MigInitInv == Mig!MigConstants /\ Mig!Init => Mig!MigInv
<1> SUFFICES ASSUME Mig!MigConstants, Mig!Init PROVE Mig!MigInv
  OBVIOUS
<1>1. v6.kind = "idle"
  BY DEF Mig!Init, Mig!Idle
<1>2. Mig!MigShapes
  BY DEF Mig!MigConstants, Mig!Init, Mig!MigShapes, Mig!EntriesNamed, Mig!NoFile, Mig!NoAlias
<1>3. Mig!SourcesHandedOver
  BY DEF Mig!MigConstants, Mig!Init, Mig!SourcesHandedOver
<1>4. Mig!AliasesTrue
  BY DEF Mig!Init, Mig!AliasesTrue, Mig!NoAlias
<1> QED  BY <1>1, <1>2, <1>3, <1>4 DEF Mig!MigInv, Mig!DropsSafe, Mig!RunFaithful, Mig!ReportTrue

(* Between commands and while an answer waits, only aliases, objects and   *)
(* the manifest move.                                                      *)
LEMMA CommandOpenKeeps ==
  ASSUME Mig!MigConstants, Mig!MigInv, v6 = Mig!Idle, UNCHANGED <<Mig!durable, v7, v8>>,
         Mig!StartRun \/ Mig!rollback \/ Mig!cleanup
  PROVE  Mig!MigInv'
<1>0. /\ UNCHANGED <<v1, v2, v3, v4, v5, v7, v8>>
      /\ Mig!SourcesHandedOver' /\ Mig!AliasesTrue'
  BY DEF Mig!MigInv, Mig!SourcesHandedOver, Mig!AliasesTrue, Mig!durable
<1>1. CASE Mig!StartRun
  <2>1. v6' = Mig!Opened("run", Mig!LegacyRefs)
    BY <1>1 DEF Mig!StartRun
  <2>2. Mig!MigShapes'
    BY <1>0, <2>1 DEF Mig!MigInv, Mig!MigShapes, Mig!Running, Mig!Opened, Mig!EntriesNamed
  <2>3. Mig!DropsSafe' /\ Mig!ReportTrue'
    BY <2>1 DEF Mig!DropsSafe, Mig!ReportTrue, Mig!Opened
  <2>4. Mig!RunFaithful'
    BY <1>0, <2>1 DEF Mig!MigInv, Mig!MigShapes, Mig!RunFaithful, Mig!Opened, Mig!LegacyRefs,
       Mig!EntriesNamed
  <2> QED  BY <1>0, <2>2, <2>3, <2>4 DEF Mig!MigInv
<1>2. CASE Mig!rollback
  <2>1. CASE v6' = [kind |-> "report", of |-> "rollback", failed |-> TRUE]
    BY <1>0, <2>1 DEF Mig!MigInv, Mig!MigShapes, Mig!EntriesNamed, Mig!DropsSafe,
       Mig!RunFaithful, Mig!ReportTrue
  <2>2. CASE v6' # [kind |-> "report", of |-> "rollback", failed |-> TRUE]
    <3>1. PICK mine \in SUBSET DOMAIN v5.entries :
             /\ v6' = [Mig!Opened("rollback", {}) EXCEPT !.dropAliases = mine]
             /\ \A s \in DOMAIN v5.entries : v1[s] = v5.entries[s].hash
      BY <1>2, <2>2 DEF Mig!rollback
    <3>2. v6' = [kind |-> "rollback", todo |-> {}, step |-> "entries", sources |-> v1, aliases |-> v3,
                 ambiguous |-> v4, dropAliases |-> mine, dropBlobs |-> {},
                 entries |-> v5.entries, changed |-> FALSE, failed |-> FALSE]
      BY <3>1 DEF Mig!Opened
    <3>3. \A s \in mine : v1[s] # "missing"
      BY <3>1 DEF Mig!MigConstants, Mig!MigInv, Mig!MigShapes, Mig!EntriesNamed
    <3>4. Mig!MigShapes'
      BY <1>0, <3>2 DEF Mig!MigInv, Mig!MigShapes, Mig!Running, Mig!EntriesNamed
    <3>5. Mig!DropsSafe' /\ Mig!RunFaithful' /\ Mig!ReportTrue'
      BY <1>0, <3>2, <3>3 DEF Mig!DropsSafe, Mig!RunFaithful, Mig!ReportTrue
    <3> QED  BY <1>0, <3>4, <3>5 DEF Mig!MigInv
  <2> QED  BY <2>1, <2>2
<1>3. CASE Mig!cleanup
  <2>1. CASE v6' = [kind |-> "report", of |-> "cleanup", failed |-> TRUE]
    BY <1>0, <2>1 DEF Mig!MigInv, Mig!MigShapes, Mig!EntriesNamed, Mig!DropsSafe,
       Mig!RunFaithful, Mig!ReportTrue
  <2>2. CASE v6' # [kind |-> "report", of |-> "cleanup", failed |-> TRUE]
    <3> DEFINE view == [sources |-> v1, aliases |-> v3]
               sure == {s \in DOMAIN v5.entries : Mig!integrity(view, s, v5.entries[s], TRUE)}
    <3>1. v6' = [Mig!Opened("cleanup", {}) EXCEPT !.dropBlobs = sure, !.failed = sure # DOMAIN v5.entries]
      BY <1>3, <2>2 DEF Mig!cleanup
    <3>2. \A s \in sure : /\ s \in MigShort /\ v1[s] \in MigHash /\ MigPrefix[v1[s]] = s
                          /\ v2[v1[s]] = "good" /\ s \in DOMAIN v3 /\ v3[s] = v1[s]
      BY DEF Mig!integrity, Mig!cas_ok, Mig!MigInv, Mig!MigShapes, Mig!EntriesNamed
    <3> HIDE DEF sure
    <3>3. v6' = [kind |-> "cleanup", todo |-> {}, step |-> "entries", sources |-> v1, aliases |-> v3,
                 ambiguous |-> v4, dropAliases |-> {}, dropBlobs |-> sure,
                 entries |-> v5.entries, changed |-> FALSE, failed |-> sure # DOMAIN v5.entries]
      BY <3>1 DEF Mig!Opened
    <3>4. Mig!MigShapes'
      BY <1>0, <3>3 DEF Mig!MigInv, Mig!MigShapes, Mig!Running, Mig!EntriesNamed
    <3>5. Mig!DropsSafe' /\ Mig!RunFaithful' /\ Mig!ReportTrue'
      BY <1>0, <3>2, <3>3 DEF Mig!DropsSafe, Mig!RunFaithful, Mig!ReportTrue
    <3> QED  BY <1>0, <3>4, <3>5 DEF Mig!MigInv
  <2> QED  BY <2>1, <2>2
<1> QED  BY <1>1, <1>2, <1>3

(* What publishing h can do: a good object stays good. *)
LEMMA MigPublishIs ==
  ASSUME Mig!MigInv, NEW h \in MigHash, NEW after \in Mig!Publish(h), v2' = [v2 EXCEPT ![h] = after]
  PROVE  /\ v2' \in [MigHash -> {"absent", "good", "bad"}] /\ v2'[h] = after
         /\ \A g \in MigHash : v2[g] = "good" => v2'[g] = "good"
<1>1. v2 \in [MigHash -> {"absent", "good", "bad"}]
  BY DEF Mig!MigInv, Mig!MigShapes
<1>2. after \in {"absent", "good", "bad"} /\ (v2[h] = "good" => after = "good")
  BY <1>1 DEF Mig!Publish
<1> QED  BY <1>1, <1>2

(* What is left of a run after entry s: it failed, or the entry and its    *)
(* alias are as they should be, or they have been put in place.            *)
Outcome(s, h, o) ==
  /\ o = [kind |-> v6.kind, todo |-> v6.todo \ {s}, step |-> v6.step, sources |-> v6.sources,
          aliases |-> o.aliases, ambiguous |-> v6.ambiguous, dropAliases |-> v6.dropAliases,
          dropBlobs |-> v6.dropBlobs, entries |-> o.entries, changed |-> o.changed, failed |-> o.failed]
  /\ \/ o.failed = TRUE /\ o.aliases = v6.aliases /\ o.entries = v6.entries /\ o.changed = v6.changed
     \/ /\ o.failed = v6.failed /\ h \in MigHash /\ MigPrefix[h] = s /\ v2'[h] = "good"
        /\ s \in DOMAIN v5.entries => v5.entries[s].hash = h
        /\ \/ /\ s \in DOMAIN v5.entries /\ o.aliases = v6.aliases /\ s \in DOMAIN v6.aliases
              /\ o.entries = v6.entries /\ o.changed = v6.changed
           \/ /\ o.changed = TRUE
              /\ DOMAIN o.entries = DOMAIN v6.entries \cup {s} /\ o.entries[s].hash = h
              /\ \A x \in DOMAIN v6.entries : x # s => o.entries[x] = v6.entries[x]
              /\ \/ o.aliases = v6.aliases /\ s \in DOMAIN v6.aliases
                 \/ o.aliases = Mig!Bind(v6.aliases, s, h) /\ (s \in DOMAIN v6.aliases => v6.aliases[s] = h)

(* What migrating one short ref does to the command, the objects and the   *)
(* aliases.                                                                *)
LEMMA EntryOutcome ==
  ASSUME Mig!MigConstants, Mig!MigInv, NEW s \in MigShort, Mig!migrate_one(s)
  PROVE  /\ Outcome(s, v6.sources[s], v6')
         /\ v2' \in [MigHash -> {"absent", "good", "bad"}]
         /\ \A g \in MigHash : v2[g] = "good" => v2'[g] = "good"
<1> DEFINE h == v6.sources[s]
<1>0. v6.kind = "run" /\ Mig!Running /\ v2 \in [MigHash -> {"absent", "good", "bad"}]
  BY DEF Mig!MigInv, Mig!MigShapes, Mig!migrate_one, Mig!Idle
<1>1. CASE ~Mig!Migratable(s, h)
  <2>1. v6' = Mig!Fail(s) /\ v2' = v2
    BY <1>1 DEF Mig!migrate_one
  <2> QED  BY <1>0, <2>1 DEF Outcome, Mig!Fail, Mig!Running
<1>2. CASE Mig!Migratable(s, h) /\ s \in DOMAIN v5.entries
  <2>0. Mig!ResumeEntry(s, h) /\ h \in MigHash /\ MigPrefix[h] = s
    BY <1>2 DEF Mig!migrate_one, Mig!Migratable
  <2>1. CASE v6' = Mig!Fail(s) /\ v2' = v2
    BY <1>0, <2>1 DEF Outcome, Mig!Fail, Mig!Running
  <2>2. CASE v6' = Mig!Skip(s) /\ v2' = v2 /\ v5.entries[s].hash = h /\ Mig!cas_ok(h) /\ s \in DOMAIN v6.aliases
    BY <1>0, <1>2, <2>0, <2>2 DEF Outcome, Mig!Skip, Mig!Running, Mig!cas_ok
  <2>3. CASE v6' = Mig!WithAlias(Mig!Recorded(s, h, TRUE), s, h) /\ v2' = v2 /\ v5.entries[s].hash = h
             /\ Mig!cas_ok(h) /\ s \notin DOMAIN v6.aliases
    BY <1>0, <1>2, <2>0, <2>3 DEF Outcome, Mig!Recorded, Mig!WithAlias, Mig!Running, Mig!Bind,
       Mig!cas_ok
  <2>4. CASE v5.entries[s].hash = h /\ ~Mig!cas_ok(h)
    <3>1. PICK after \in Mig!Publish(h) :
            /\ v2' = [v2 EXCEPT ![h] = after]
            /\ v6' = IF after = "good"
                     THEN IF s \notin DOMAIN v6.aliases THEN Mig!WithAlias(Mig!Recorded(s, h, TRUE), s, h)
                          ELSE Mig!Recorded(s, h, TRUE)
                     ELSE Mig!Fail(s)
      BY <2>0, <2>4 DEF Mig!ResumeEntry
    <3>2. /\ v2' \in [MigHash -> {"absent", "good", "bad"}] /\ v2'[h] = after
          /\ \A g \in MigHash : v2[g] = "good" => v2'[g] = "good"
      BY <2>0, <3>1, MigPublishIs
    <3>3. CASE after # "good"
      BY <1>0, <3>1, <3>2, <3>3 DEF Outcome, Mig!Fail, Mig!Running
    <3>4. CASE after = "good" /\ s \notin DOMAIN v6.aliases
      BY <1>0, <1>2, <2>0, <2>4, <3>1, <3>2, <3>4 DEF Outcome, Mig!Recorded, Mig!WithAlias,
         Mig!Running, Mig!Bind
    <3>5. CASE after = "good" /\ s \in DOMAIN v6.aliases
      BY <1>0, <1>2, <2>0, <2>4, <3>1, <3>2, <3>5 DEF Outcome, Mig!Recorded, Mig!Running, Mig!Bind
    <3> QED  BY <3>3, <3>4, <3>5
  <2> QED  BY <2>0, <2>1, <2>2, <2>3, <2>4 DEF Mig!ResumeEntry
<1>3. CASE Mig!Migratable(s, h) /\ s \notin DOMAIN v5.entries
  <2>0. Mig!FirstMigration(s, h) /\ h \in MigHash /\ MigPrefix[h] = s
    BY <1>3 DEF Mig!migrate_one, Mig!Migratable
  <2>1. CASE v6' = Mig!Fail(s) /\ v2' = v2
    BY <1>0, <2>1 DEF Outcome, Mig!Fail, Mig!Running
  <2>2. CASE ~(v6' = Mig!Fail(s) /\ v2' = v2)
    <3>1. PICK after \in Mig!Publish(h) :
            /\ v2' = [v2 EXCEPT ![h] = after]
            /\ v6' = IF after = "good" THEN Mig!WithAlias(Mig!Recorded(s, h, FALSE), s, h) ELSE Mig!Fail(s)
      BY <2>0, <2>2 DEF Mig!FirstMigration
    <3>2. /\ v2' \in [MigHash -> {"absent", "good", "bad"}] /\ v2'[h] = after
          /\ \A g \in MigHash : v2[g] = "good" => v2'[g] = "good"
      BY <2>0, <3>1, MigPublishIs
    <3>3. s \in DOMAIN v6.aliases => v6.aliases[s] = h
      BY <2>0, <2>2 DEF Mig!FirstMigration
    <3>4. CASE after # "good"
      BY <1>0, <3>1, <3>2, <3>4 DEF Outcome, Mig!Fail, Mig!Running
    <3>5. CASE after = "good"
      BY <1>0, <1>3, <2>0, <3>1, <3>2, <3>3, <3>5 DEF Outcome, Mig!Recorded, Mig!WithAlias,
         Mig!Running, Mig!Bind
    <3> QED  BY <3>4, <3>5
  <2> QED  BY <2>1, <2>2
<1> QED  BY <1>1, <1>2, <1>3

(* One short ref is migrated. *)
LEMMA MigrateKeeps ==
  ASSUME Mig!MigConstants, Mig!MigInv, NEW s \in MigShort, Mig!migrate_one(s)
  PROVE  Mig!MigInv'
<1> DEFINE h == v6.sources[s]
<1>0. /\ v6.kind = "run" /\ v6.step = "entries" /\ s \in v6.todo
      /\ UNCHANGED <<v1, v3, v4, v5, v7, v8>>
  BY DEF Mig!migrate_one
<1>1. /\ Outcome(s, h, v6') /\ v2' \in [MigHash -> {"absent", "good", "bad"}]
      /\ \A g \in MigHash : v2[g] = "good" => v2'[g] = "good"
  BY EntryOutcome
<1>2. Mig!Running /\ Mig!RunFaithful /\ h = v1[s] /\ s \in Mig!LegacyRefs
  BY <1>0 DEF Mig!MigInv, Mig!MigShapes, Mig!RunFaithful, Mig!Idle
<1>3. /\ v6'.kind = "run" /\ v6'.todo = v6.todo \ {s} /\ v6'.step = "entries"
      /\ v6'.sources = v6.sources /\ v6'.dropAliases = v6.dropAliases /\ v6'.dropBlobs = v6.dropBlobs
  BY <1>0, <1>1 DEF Outcome
<1>4. /\ DOMAIN v6'.aliases \subseteq MigShort /\ v6'.failed \in BOOLEAN /\ v6'.changed \in BOOLEAN
      /\ DOMAIN v6.aliases \subseteq DOMAIN v6'.aliases
      /\ \A x \in DOMAIN v6'.aliases :
           \/ x \in DOMAIN v6.aliases /\ v6'.aliases[x] = v6.aliases[x]
           \/ x = s /\ v6'.aliases[x] = h /\ h \in MigHash /\ v6'.changed
      /\ v6.changed => v6'.changed
      /\ ~v6'.failed => ~v6.failed /\ s \in DOMAIN v6'.aliases /\ h \in MigHash /\ v2'[h] = "good"
  <2>1. CASE v6'.failed = TRUE /\ v6'.aliases = v6.aliases /\ v6'.changed = v6.changed
    BY <1>2, <2>1 DEF Mig!Running
  <2>2. CASE /\ v6'.failed = v6.failed /\ h \in MigHash /\ v2'[h] = "good"
             /\ v6'.changed = v6.changed \/ v6'.changed = TRUE
             /\ v6'.aliases = v6.aliases /\ s \in DOMAIN v6.aliases
    BY <1>2, <2>2 DEF Mig!Running
  <2>3. CASE /\ v6'.failed = v6.failed /\ h \in MigHash /\ v2'[h] = "good" /\ v6'.changed = TRUE
             /\ v6'.aliases = Mig!Bind(v6.aliases, s, h)
    BY <1>2, <2>3 DEF Mig!Running, Mig!Bind
  <2> QED  BY <1>1, <2>1, <2>2, <2>3 DEF Outcome
<1>5. Mig!Running'
  BY <1>1, <1>3, <1>4 DEF Outcome, Mig!Running
<1>6. Mig!MigShapes'
  BY <1>0, <1>1, <1>3, <1>5 DEF Mig!MigInv, Mig!MigShapes, Mig!EntriesNamed
<1>7. Mig!SourcesHandedOver' /\ Mig!AliasesTrue'
  BY <1>0, <1>1 DEF Mig!MigInv, Mig!SourcesHandedOver, Mig!AliasesTrue
<1>8. Mig!DropsSafe' /\ Mig!ReportTrue'
  BY <1>0, <1>3 DEF Mig!MigInv, Mig!DropsSafe, Mig!ReportTrue
<1>9. Mig!RunFaithful'
  <2>0. Mig!LegacyRefs' = Mig!LegacyRefs /\ v6'.sources = v1' /\ v6'.todo \subseteq Mig!LegacyRefs
    BY <1>0, <1>2, <1>3 DEF Mig!LegacyRefs, Mig!RunFaithful
  <2>1. /\ DOMAIN v6.entries \subseteq DOMAIN v6'.entries
        /\ \A x \in DOMAIN v6'.entries :
             \/ x \in DOMAIN v6.entries /\ v6'.entries[x] = v6.entries[x]
             \/ x = s /\ v6'.entries[x].hash = h /\ h \in MigHash /\ MigPrefix[h] = s
    BY <1>1 DEF Outcome
  <2>2. Mig!EntriesNamed(v6'.entries)
    BY <1>0, <1>2, <2>1 DEF Mig!RunFaithful, Mig!EntriesNamed
  <2>3. \A x \in DOMAIN v6'.entries : v6'.entries[x].hash = v1[x]
         \/ (x \in DOMAIN v5.entries /\ v6'.entries[x].hash = v5.entries[x].hash)
    BY <1>0, <1>2, <2>1 DEF Mig!RunFaithful
  <2>4. h \in MigHash => h = v8[s]
    BY <1>2 DEF Mig!MigConstants, Mig!MigInv, Mig!SourcesHandedOver
  <2>5. \A x \in DOMAIN v6'.aliases \ DOMAIN v3 : v6'.aliases[x] = v8[x] /\ v6'.changed
    BY <1>0, <1>2, <1>4, <2>4 DEF Mig!RunFaithful
  <2>6. ASSUME ~v6'.failed, NEW x \in Mig!LegacyRefs \ v6'.todo
        PROVE  /\ x \in DOMAIN v5.entries => v5.entries[x].hash = v1[x]
               /\ x \in DOMAIN v6'.entries => v6'.entries[x].hash = v1[x]
               /\ v1[x] \in MigHash /\ v2'[v1[x]] = "good" /\ x \in DOMAIN v6'.aliases
    <3>1. CASE x = s
      <4>1. x \in DOMAIN v5.entries => v5.entries[x].hash = v1[x]
        BY <1>1, <1>2, <2>6, <3>1 DEF Outcome
      <4> QED  BY <1>2, <1>4, <2>3, <2>6, <3>1, <4>1
    <3>2. CASE x # s
      <4>1. x \in Mig!LegacyRefs \ v6.todo /\ ~v6.failed
        BY <1>3, <1>4, <2>6, <3>2
      <4>2. Mig!Backed(v5.entries, x) /\ Mig!Backed(v6.entries, x) /\ x \in DOMAIN v6.aliases
        BY <1>0, <1>2, <4>1 DEF Mig!RunFaithful
      <4> QED  BY <1>1, <1>4, <2>1, <3>2, <4>2 DEF Mig!Backed
    <3> QED  BY <3>1, <3>2
  <2>7. v6'.step # "save"
    BY <1>3
  <2> QED  BY <1>0, <2>0, <2>2, <2>3, <2>5, <2>6, <2>7 DEF Mig!RunFaithful, Mig!Backed,
              Mig!EntriesNamed
<1> QED  BY <1>6, <1>7, <1>8, <1>9 DEF Mig!MigInv

(* What a persist of the command in memory leaves of the store. *)
LEMMA MigPersistIs ==
  ASSUME Mig!MigInv, Mig!Running, Mig!PersistStore
  PROVE  /\ DOMAIN v3' = (DOMAIN v3 \cup DOMAIN v6.aliases) \ v6.dropAliases
         /\ \A s \in DOMAIN v3 \ v6.dropAliases : v3'[s] = v3[s] /\ v7'[s] = v7[s]
         /\ \A s \in DOMAIN v3' : s \notin DOMAIN v3 => v3'[s] = v6.aliases[s]
         /\ DOMAIN v7' = MigShort /\ \A s \in MigShort : s \notin DOMAIN v3' => v7'[s] = Mig!None
         /\ DOMAIN v3' \subseteq MigShort
         /\ v1' = [s \in MigShort |-> IF s \in v6.dropBlobs THEN "missing" ELSE v1[s]]
<1>1. DOMAIN v3 \subseteq MigShort /\ DOMAIN v6.aliases \subseteq MigShort
  BY DEF Mig!MigInv, Mig!MigShapes, Mig!Running
<1> QED  BY <1>1 DEF Mig!PersistStore, Mig!Restrict

(* The run has visited every short ref. *)
LEMMA FinishRunKeeps ==
  ASSUME Mig!MigConstants, Mig!MigInv, Mig!FinishRun
  PROVE  Mig!MigInv'
<1>0. /\ v6.kind = "run" /\ v6.step = "entries" /\ v6.todo = {} /\ Mig!Running /\ Mig!RunFaithful /\ Mig!DropsSafe
      /\ UNCHANGED <<v2, v5, v8>>
  BY DEF Mig!MigInv, Mig!MigShapes, Mig!FinishRun, Mig!Idle
<1>1. ASSUME ~v6.changed, Mig!Report(v6.failed), UNCHANGED <<v1, v3, v4, v7>> PROVE Mig!MigInv'
  <2>1. v6' = [kind |-> "report", of |-> "run", failed |-> v6.failed] /\ v6.failed \in BOOLEAN
    BY <1>0, <1>1 DEF Mig!Report, Mig!Running
  <2>2. Mig!MigShapes'
    BY <1>0, <1>1, <2>1 DEF Mig!MigInv, Mig!MigShapes, Mig!EntriesNamed
  <2>3. Mig!SourcesHandedOver' /\ Mig!AliasesTrue' /\ Mig!DropsSafe' /\ Mig!RunFaithful'
    BY <1>0, <1>1, <2>1 DEF Mig!MigInv, Mig!SourcesHandedOver, Mig!AliasesTrue, Mig!DropsSafe,
       Mig!RunFaithful
  <2>4. Mig!ReportTrue'
    <3> SUFFICES ASSUME ~v6.failed, NEW s \in Mig!LegacyRefs
                 PROVE  Mig!Backed(v5.entries, s) /\ s \in DOMAIN v3
      BY <1>0, <1>1, <2>1 DEF Mig!ReportTrue, Mig!LegacyRefs, Mig!Backed
    <3> QED  BY <1>0, <1>1 DEF Mig!RunFaithful
  <2> QED  BY <2>2, <2>3, <2>4 DEF Mig!MigInv
<1>2. ASSUME v6.changed, Mig!PersistStore, v6' = [v6 EXCEPT !.step = "save"] PROVE Mig!MigInv'
  <2>1. /\ v6' = [kind |-> "run", todo |-> {}, step |-> "save", sources |-> v6.sources,
           aliases |-> v6.aliases, ambiguous |-> v6.ambiguous, dropAliases |-> {}, dropBlobs |-> {},
           entries |-> v6.entries, changed |-> v6.changed, failed |-> v6.failed]
        /\ v6.failed \in BOOLEAN /\ v6.changed \in BOOLEAN /\ DOMAIN v6.aliases \subseteq MigShort
    BY <1>0, <1>2 DEF Mig!Running, Mig!DropsSafe
  <2>2. /\ DOMAIN v3' = DOMAIN v3 \cup DOMAIN v6.aliases
        /\ \A s \in DOMAIN v3 : v3'[s] = v3[s] /\ v7'[s] = v7[s]
        /\ \A s \in DOMAIN v3' : s \notin DOMAIN v3 => v3'[s] = v6.aliases[s]
        /\ DOMAIN v7' = MigShort /\ \A s \in MigShort : s \notin DOMAIN v3' => v7'[s] = Mig!None
        /\ DOMAIN v3' \subseteq MigShort /\ v1' = v1
    <3>1. v6.dropAliases = {} /\ v6.dropBlobs = {} /\ v1 = [s \in MigShort |-> v1[s]]
      BY <1>0 DEF Mig!MigInv, Mig!MigShapes, Mig!DropsSafe
    <3> QED  BY <1>0, <1>2, <3>1, MigPersistIs
  <2>3. Mig!MigShapes'
    BY <1>0, <2>1, <2>2 DEF Mig!MigInv, Mig!MigShapes, Mig!EntriesNamed, Mig!Running
  <2>4. Mig!SourcesHandedOver'
    BY <1>0, <2>2 DEF Mig!MigInv, Mig!SourcesHandedOver
  <2>5. Mig!AliasesTrue'
    BY <1>0, <2>2 DEF Mig!MigInv, Mig!AliasesTrue, Mig!RunFaithful
  <2>6. Mig!DropsSafe' /\ Mig!ReportTrue'
    BY <2>1 DEF Mig!DropsSafe, Mig!ReportTrue
  <2>7. Mig!RunFaithful'
    BY <1>0, <2>1, <2>2 DEF Mig!RunFaithful, Mig!LegacyRefs, Mig!Backed, Mig!EntriesNamed
  <2> QED  BY <2>3, <2>4, <2>5, <2>6, <2>7 DEF Mig!MigInv
<1>3. ASSUME v6' = [v6 EXCEPT !.step = "save", !.failed = TRUE], UNCHANGED <<v1, v3, v4, v7>>
      PROVE  Mig!MigInv'
  <2>1. /\ v6' = [kind |-> "run", todo |-> {}, step |-> "save", sources |-> v6.sources,
           aliases |-> v6.aliases, ambiguous |-> v6.ambiguous, dropAliases |-> {}, dropBlobs |-> {},
           entries |-> v6.entries, changed |-> v6.changed, failed |-> TRUE]
        /\ v6.changed \in BOOLEAN /\ DOMAIN v6.aliases \subseteq MigShort
    BY <1>0, <1>3 DEF Mig!Running, Mig!DropsSafe
  <2>2. Mig!MigShapes'
    BY <1>0, <1>3, <2>1 DEF Mig!MigInv, Mig!MigShapes, Mig!EntriesNamed, Mig!Running
  <2>3. Mig!SourcesHandedOver' /\ Mig!AliasesTrue' /\ Mig!DropsSafe' /\ Mig!ReportTrue'
    BY <1>0, <1>3, <2>1 DEF Mig!MigInv, Mig!SourcesHandedOver, Mig!AliasesTrue, Mig!DropsSafe,
       Mig!ReportTrue
  <2>4. Mig!RunFaithful'
    BY <1>0, <1>3, <2>1 DEF Mig!RunFaithful, Mig!LegacyRefs, Mig!EntriesNamed
  <2> QED  BY <2>2, <2>3, <2>4 DEF Mig!MigInv
<1> QED  BY <1>1, <1>2, <1>3 DEF Mig!FinishRun

(* The manifest is saved, or the save fails. *)
LEMMA SaveKeeps ==
  ASSUME Mig!MigConstants, Mig!MigInv, Mig!SaveManifest
  PROVE  Mig!MigInv'
<1>0. /\ v6.kind = "run" /\ v6.step = "save" /\ Mig!Running /\ Mig!RunFaithful
      /\ UNCHANGED <<v1, v2, v3, v4, v7, v8>>
      /\ v5'.entries = v6.entries \/ v5' = v5
  BY DEF Mig!MigInv, Mig!MigShapes, Mig!SaveManifest, Mig!Idle
<1>1. v6' = [kind |-> "report", of |-> "run", failed |-> v6.failed] /\ v6.failed \in BOOLEAN
  BY <1>0 DEF Mig!SaveManifest, Mig!Report, Mig!Running
<1>2. Mig!MigShapes'
  BY <1>0, <1>1 DEF Mig!MigInv, Mig!MigShapes, Mig!EntriesNamed, Mig!RunFaithful
<1>3. Mig!SourcesHandedOver' /\ Mig!AliasesTrue' /\ Mig!DropsSafe' /\ Mig!RunFaithful'
  BY <1>0, <1>1 DEF Mig!MigInv, Mig!SourcesHandedOver, Mig!AliasesTrue, Mig!DropsSafe,
     Mig!RunFaithful
<1>4. Mig!ReportTrue'
  <2> SUFFICES ASSUME ~v6.failed, NEW s \in Mig!LegacyRefs
               PROVE  Mig!Backed(v5'.entries, s) /\ s \in DOMAIN v3
    BY <1>0, <1>1 DEF Mig!ReportTrue, Mig!LegacyRefs, Mig!Backed
  <2>1. Mig!Backed(v5.entries, s) /\ Mig!Backed(v6.entries, s) /\ s \in DOMAIN v3
    BY <1>0 DEF Mig!RunFaithful, Mig!LegacyRefs
  <2> QED  BY <1>0, <2>1
<1> QED  BY <1>2, <1>3, <1>4 DEF Mig!MigInv

(* A rollback drops the aliases the manifest made. *)
LEMMA RollbackKeeps ==
  ASSUME Mig!MigConstants, Mig!MigInv, Mig!RollbackPersist \/ Mig!RollbackUnlink
  PROVE  Mig!MigInv'
<1>0. /\ v6.kind = "rollback" /\ Mig!Running /\ Mig!DropsSafe /\ UNCHANGED <<v2, v8>>
  <2>1. v6.kind = "rollback" /\ UNCHANGED <<v2, v8>>
    BY DEF Mig!RollbackPersist, Mig!RollbackUnlink
  <2> QED  BY <2>1 DEF Mig!MigInv, Mig!MigShapes, Mig!Idle
<1>1. ASSUME NEW failed \in BOOLEAN, Mig!Report(failed), UNCHANGED <<v1, v3, v7>>,
             v5' = v5 \/ v5' = Mig!NoFile
      PROVE  Mig!MigInv'
  <2>1. v6' = [kind |-> "report", of |-> "rollback", failed |-> failed]
    BY <1>0, <1>1 DEF Mig!Report
  <2>2. Mig!MigShapes'
    BY <1>0, <1>1, <2>1 DEF Mig!MigInv, Mig!MigShapes, Mig!EntriesNamed, Mig!NoFile, Mig!NoAlias
  <2>3. Mig!SourcesHandedOver' /\ Mig!AliasesTrue' /\ Mig!DropsSafe' /\ Mig!RunFaithful' /\ Mig!ReportTrue'
    BY <1>0, <1>1, <2>1 DEF Mig!MigInv, Mig!SourcesHandedOver, Mig!AliasesTrue, Mig!DropsSafe,
       Mig!RunFaithful, Mig!ReportTrue
  <2> QED  BY <2>2, <2>3 DEF Mig!MigInv
<1>2. ASSUME v6.step = "entries", Mig!PersistStore, v6' = [v6 EXCEPT !.step = "unlink"], v5' = v5
      PROVE  Mig!MigInv'
  <2>1. /\ v6' = [kind |-> "rollback", todo |-> v6.todo, step |-> "unlink", sources |-> v6.sources,
           aliases |-> v6.aliases, ambiguous |-> v6.ambiguous, dropAliases |-> v6.dropAliases,
           dropBlobs |-> {}, entries |-> v6.entries, changed |-> v6.changed, failed |-> v6.failed]
        /\ v6.failed \in BOOLEAN /\ v6.changed \in BOOLEAN /\ DOMAIN v6.aliases \subseteq MigShort
    BY <1>0, <1>2 DEF Mig!Running, Mig!DropsSafe
  <2>2. /\ DOMAIN v3' = DOMAIN v3 \ v6.dropAliases
        /\ \A s \in DOMAIN v3' : v3'[s] = v3[s] /\ v7'[s] = v7[s]
        /\ DOMAIN v7' = MigShort /\ \A s \in MigShort : s \notin DOMAIN v3' => v7'[s] = Mig!None
        /\ DOMAIN v3' \subseteq MigShort /\ v1' = v1
    <3>1. v6.dropBlobs = {} /\ v1 = [s \in MigShort |-> v1[s]] /\ DOMAIN v6.aliases \subseteq DOMAIN v3
      BY <1>0, <1>2 DEF Mig!MigInv, Mig!MigShapes, Mig!DropsSafe
    <3> QED  BY <1>0, <1>2, <3>1, MigPersistIs
  <2>3. Mig!MigShapes'
    BY <1>0, <1>2, <2>1, <2>2 DEF Mig!MigInv, Mig!MigShapes, Mig!EntriesNamed, Mig!Running
  <2>4. Mig!SourcesHandedOver'
    BY <1>0, <2>2 DEF Mig!MigInv, Mig!SourcesHandedOver, Mig!DropsSafe
  <2>5. Mig!AliasesTrue'
    BY <1>0, <2>2 DEF Mig!MigInv, Mig!AliasesTrue
  <2>6. Mig!DropsSafe' /\ Mig!RunFaithful' /\ Mig!ReportTrue'
    BY <1>0, <2>1, <2>2 DEF Mig!DropsSafe, Mig!RunFaithful, Mig!ReportTrue
  <2> QED  BY <2>3, <2>4, <2>5, <2>6 DEF Mig!MigInv
<1> QED  BY <1>1, <1>2 DEF Mig!RollbackPersist, Mig!RollbackUnlink

(* A cleanup unlinks the blobs whose objects it verified. *)
LEMMA CleanupKeeps ==
  ASSUME Mig!MigConstants, Mig!MigInv, Mig!CleanupPersist
  PROVE  Mig!MigInv'
<1>0. /\ v6.kind = "cleanup" /\ Mig!Running /\ Mig!DropsSafe /\ UNCHANGED <<v2, v5, v8>>
  BY DEF Mig!MigInv, Mig!MigShapes, Mig!CleanupPersist, Mig!Idle
<1>1. PICK failed \in BOOLEAN : Mig!Report(failed)
  BY <1>0 DEF Mig!CleanupPersist, Mig!Running
<1>2. v6' = [kind |-> "report", of |-> "cleanup", failed |-> failed]
  BY <1>0, <1>1 DEF Mig!Report
<1>3. Mig!DropsSafe' /\ Mig!RunFaithful' /\ Mig!ReportTrue'
  BY <1>2 DEF Mig!DropsSafe, Mig!RunFaithful, Mig!ReportTrue
<1>4. CASE UNCHANGED <<v1, v3, v7>>
  <2>1. Mig!MigShapes'
    BY <1>0, <1>2, <1>4 DEF Mig!MigInv, Mig!MigShapes, Mig!EntriesNamed
  <2>2. Mig!SourcesHandedOver' /\ Mig!AliasesTrue'
    BY <1>0, <1>4 DEF Mig!MigInv, Mig!SourcesHandedOver, Mig!AliasesTrue
  <2> QED  BY <1>3, <2>1, <2>2 DEF Mig!MigInv
<1>5. CASE Mig!PersistStore
  <2>1. /\ DOMAIN v3' = DOMAIN v3
        /\ \A s \in DOMAIN v3 : v3'[s] = v3[s] /\ v7'[s] = v7[s]
        /\ DOMAIN v7' = MigShort /\ \A s \in MigShort : s \notin DOMAIN v3' => v7'[s] = Mig!None
        /\ DOMAIN v3' \subseteq MigShort
        /\ v1' = [s \in MigShort |-> IF s \in v6.dropBlobs THEN "missing" ELSE v1[s]]
    <3>1. v6.dropAliases = {} /\ DOMAIN v6.aliases \subseteq DOMAIN v3
      BY <1>0 DEF Mig!DropsSafe
    <3> QED  BY <1>0, <1>5, <3>1, MigPersistIs
  <2>2. Mig!MigShapes'
    BY <1>0, <1>2, <2>1 DEF Mig!MigInv, Mig!MigShapes, Mig!EntriesNamed, Mig!Content
  <2>3. Mig!SourcesHandedOver'
    <3> SUFFICES ASSUME NEW s \in MigShort
                 PROVE  /\ v1'[s] = v8[s] \/ v1'[s] = "missing"
                        /\ v8[s] \in MigHash /\ v1'[s] = "missing" =>
                             /\ MigPrefix[v8[s]] = s /\ v2[v8[s]] = "good"
                             /\ s \in DOMAIN v3 /\ v3[s] = v8[s]
      BY <1>0, <2>1 DEF Mig!SourcesHandedOver
    <3>1. CASE s \in v6.dropBlobs
      <4>1. /\ v1[s] \in MigHash /\ MigPrefix[v1[s]] = s /\ v2[v1[s]] = "good"
            /\ s \in DOMAIN v3 /\ v3[s] = v1[s]
        BY <1>0, <3>1 DEF Mig!DropsSafe
      <4>2. v1[s] = v8[s]
        BY <4>1 DEF Mig!MigConstants, Mig!MigInv, Mig!SourcesHandedOver
      <4> QED  BY <2>1, <3>1, <4>1, <4>2
    <3>2. CASE s \notin v6.dropBlobs
      BY <2>1, <3>2 DEF Mig!MigInv, Mig!SourcesHandedOver
    <3> QED  BY <3>1, <3>2
  <2>4. Mig!AliasesTrue'
    BY <1>0, <2>1 DEF Mig!MigInv, Mig!AliasesTrue
  <2> QED  BY <1>3, <2>2, <2>3, <2>4 DEF Mig!MigInv
<1> QED  BY <1>4, <1>5 DEF Mig!CleanupPersist

(* A command returns or dies. *)
LEMMA CommandEndKeeps ==
  ASSUME Mig!MigConstants, Mig!MigInv, Mig!Acknowledge \/ Mig!Crash
  PROVE  Mig!MigInv'
<1>1. v6' = Mig!Idle /\ v6'.kind = "idle" /\ UNCHANGED <<v1, v2, v3, v5, v7, v8>>
  BY DEF Mig!Acknowledge, Mig!Crash, Mig!durable, Mig!Idle
<1> QED  BY <1>1 DEF Mig!MigInv, Mig!MigShapes, Mig!EntriesNamed, Mig!SourcesHandedOver,
            Mig!AliasesTrue, Mig!DropsSafe, Mig!RunFaithful,
            Mig!ReportTrue

(* Somebody else binds a short ref. *)
LEMMA RegisterKeeps ==
  ASSUME Mig!MigConstants, Mig!MigInv, NEW h \in MigHash, Mig!RegisterBlob(h)
  PROVE  Mig!MigInv'
<1>0. MigPrefix[h] \in MigShort /\ UNCHANGED <<v1, v2, v5, v6, v8>>
  BY DEF Mig!MigConstants, Mig!RegisterBlob
<1>1. /\ DOMAIN v3 \subseteq DOMAIN v3' /\ DOMAIN v3' \subseteq MigShort /\ DOMAIN v7' = MigShort
      /\ \A s \in DOMAIN v3 : v3'[s] = v3[s] /\ v7'[s] = v7[s]
      /\ \A s \in DOMAIN v3' : s \notin DOMAIN v3 => v7'[s] \in {"agent", "race"}
      /\ \A s \in MigShort : s \notin DOMAIN v3' => v7'[s] = v7[s]
  BY <1>0 DEF Mig!MigInv, Mig!MigShapes, Mig!RegisterBlob, Mig!Bind
<1>2. Mig!MigShapes'
  BY <1>0, <1>1 DEF Mig!MigInv, Mig!MigShapes, Mig!EntriesNamed, Mig!Running
<1>3. Mig!SourcesHandedOver'
  BY <1>0, <1>1 DEF Mig!MigInv, Mig!SourcesHandedOver
<1>4. Mig!AliasesTrue'
  BY <1>0, <1>1 DEF Mig!MigInv, Mig!MigShapes, Mig!AliasesTrue
<1>5. Mig!DropsSafe'
  BY <1>0, <1>1 DEF Mig!MigInv, Mig!DropsSafe
<1>6. Mig!RunFaithful'
  BY <1>0, <1>1 DEF Mig!MigInv, Mig!RunFaithful, Mig!LegacyRefs, Mig!EntriesNamed, Mig!Backed
<1>7. Mig!ReportTrue'
  BY <1>0, <1>1 DEF Mig!MigInv, Mig!ReportTrue, Mig!LegacyRefs, Mig!Backed
<1> QED  BY <1>2, <1>3, <1>4, <1>5, <1>6, <1>7 DEF Mig!MigInv

(* The manifest is lost, or an object rots, between commands. *)
LEMMA DamageKeeps ==
  ASSUME Mig!MigConstants, Mig!MigInv, Mig!LoseManifest \/ \E h \in MigHash : Mig!Rot(h)
  PROVE  Mig!MigInv'
<1>0. v6 = Mig!Idle /\ v6.kind = "idle" /\ UNCHANGED <<v1, v3, v6, v7, v8>>
  BY DEF Mig!LoseManifest, Mig!Rot, Mig!Idle
<1>1. Mig!EntriesNamed(v5'.entries)
  BY DEF Mig!MigInv, Mig!MigShapes, Mig!LoseManifest, Mig!Rot, Mig!EntriesNamed, Mig!NoFile,
     Mig!NoAlias
<1>2. /\ v2' \in [MigHash -> {"absent", "good", "bad"}]
      /\ \A g \in MigHash : v2'[g] = v2[g] \/ v1[MigPrefix[g]] = g
  BY DEF Mig!MigInv, Mig!MigShapes, Mig!LoseManifest, Mig!Rot
<1>3. Mig!MigShapes'
  BY <1>0, <1>1, <1>2 DEF Mig!MigInv, Mig!MigShapes, Mig!EntriesNamed
<1>4. Mig!SourcesHandedOver'
  BY <1>0, <1>2 DEF Mig!MigConstants, Mig!MigInv, Mig!SourcesHandedOver
<1>5. Mig!AliasesTrue' /\ Mig!DropsSafe' /\ Mig!RunFaithful' /\ Mig!ReportTrue'
  BY <1>0 DEF Mig!MigInv, Mig!AliasesTrue, Mig!DropsSafe, Mig!RunFaithful, Mig!ReportTrue
<1> QED  BY <1>3, <1>4, <1>5 DEF Mig!MigInv

(* Every step of the migration keeps the invariant. *)
LEMMA MigStepInv == Mig!MigConstants /\ Mig!MigInv /\ [Mig!Next]_Mig!vars => Mig!MigInv'
<1> SUFFICES ASSUME Mig!MigConstants, Mig!MigInv, [Mig!Next]_Mig!vars PROVE Mig!MigInv'
  OBVIOUS
<1>1. CASE Mig!StartRun \/ Mig!rollback \/ Mig!cleanup
  <2>1. v6 = Mig!Idle /\ UNCHANGED <<Mig!durable, v7, v8>>
    BY <1>1 DEF Mig!StartRun, Mig!rollback, Mig!cleanup
  <2> QED  BY <1>1, <2>1, CommandOpenKeeps
<1>2. CASE UNCHANGED Mig!vars
  BY <1>2 DEF Mig!vars, Mig!durable, Mig!MigInv, Mig!MigShapes, Mig!EntriesNamed, Mig!Running,
     Mig!SourcesHandedOver, Mig!AliasesTrue, Mig!DropsSafe,
     Mig!RunFaithful, Mig!ReportTrue, Mig!LegacyRefs, Mig!Backed
<1> QED  BY <1>1, <1>2, MigrateKeeps, FinishRunKeeps, SaveKeeps, RollbackKeeps, CleanupKeeps,
            CommandEndKeeps,
            RegisterKeeps, DamageKeeps DEF Mig!Next
-----------------------------------------------------------------------------
(* The action cache.  The slots: v1 acSeg, v2 acSide, v3 acPut, v4 acPin,  *)
(* v5 acServe, v6 acPlan, v7 acBlobs, v8 acSeconds, v9 acCrashes.          *)

(* No entry is a whole one. *)
LEMMA NoEntryWhole == Ac!WholeEntry(Ac!NoEntry)
BY DEF Ac!NoEntry, Ac!WholeEntry

(* What load_raw reads is whole, and so is what it leaves in the files. *)
LEMMA LoadedWhole ==
    ASSUME Ac!SegmentInv, NEW k \in AcKeys, NEW e, Ac!load_raw(k, e)
    PROVE  Ac!WholeEntry(e) /\ Ac!FilesWhole'
<1>1. CASE Ac!MayRecover(k)
  <2>1. v2' = [v2 EXCEPT ![k] = {}]
    BY <1>1 DEF Ac!load_raw
  <2>2. CASE Ac!Promotable(k) = {}
    <3>1. e = Ac!NoEntry /\ v1' = v1
      BY <1>1, <2>2 DEF Ac!load_raw
    <3> QED  BY <2>1, <3>1, NoEntryWhole DEF Ac!SegmentInv, Ac!FilesWhole
  <2>3. CASE Ac!Promotable(k) # {}
    <3>1. e \in {p.entry : p \in Ac!Promotable(k)} /\ v1' = [v1 EXCEPT ![k] = e]
      BY <1>1, <2>3 DEF Ac!load_raw
    <3>2. Ac!WholeEntry(e)
      BY <3>1 DEF Ac!Promotable, Ac!pair_matches_digest, Ac!SegmentInv, Ac!FilesWhole
    <3> QED  BY <2>1, <3>1, <3>2 DEF Ac!SegmentInv, Ac!FilesWhole
  <2> QED  BY <2>2, <2>3
<1>2. CASE ~Ac!MayRecover(k)
  <2>1. e = v1[k] /\ v1' = v1 /\ v2' = v2
    BY <1>2 DEF Ac!load_raw
  <2> QED  BY <2>1 DEF Ac!SegmentInv, Ac!FilesWhole
<1> QED  BY <1>1, <1>2

(* A put begins with a whole entry. *)
LEMMA BeginsWhole ==
    ASSUME Ac!SegmentInv, NEW w \in Ac!Writers, NEW k \in AcKeys, NEW e, Ac!WholeEntry(e), Ac!Begins(w, k, e)
    PROVE  Ac!PutsWhole'
BY DEF Ac!SegmentInv, Ac!PutsWhole, Ac!Begins

(* No put under way. *)
LEMMA IdlePutWhole == /\ Ac!IdlePut = [pc |-> "idle", key |-> Ac!IdlePut.key, entry |-> Ac!IdlePut.entry]
                      /\ Ac!WholeEntry(Ac!IdlePut.entry)
BY NoEntryWhole DEF Ac!IdlePut

(* An empty cache. *)
LEMMA SegmentInitInv == Ac!Init => Ac!SegmentInv
<1> SUFFICES ASSUME Ac!Init PROVE Ac!SegmentInv
  OBVIOUS
<1>1. Ac!PutsWhole
  <2>1. v3 = [w \in Ac!Writers |-> Ac!IdlePut]
    BY DEF Ac!Init
  <2>2. Ac!IdlePut.pc = "idle"
    BY DEF Ac!IdlePut
  <2>3. ASSUME NEW w \in Ac!Writers PROVE v3[w] = Ac!IdlePut
    BY <2>1
  <2>4. ASSUME NEW w \in Ac!Writers
        PROVE  /\ v3[w] = [pc |-> v3[w].pc, key |-> v3[w].key, entry |-> v3[w].entry]
               /\ Ac!WholeEntry(v3[w].entry) /\ v3[w].pc = "idle"
    BY <2>2, <2>3, IdlePutWhole DEF Ac!IdlePut
  <2> QED  BY <2>1, <2>4 DEF Ac!PutsWhole
<1>2. Ac!FilesWhole
  BY NoEntryWhole DEF Ac!Init, Ac!FilesWhole
<1>3. Ac!ServesKeyed
  BY DEF Ac!Init, Ac!ServesKeyed, Ac!IdleServe
<1> QED  BY <1>1, <1>2, <1>3 DEF Ac!SegmentInv

(* Every step of writers, servers and the evictor keeps the invariant. *)
LEMMA SegmentStepInv == Ac!SegmentInv /\ [Ac!Next]_Ac!acVars => Ac!SegmentInv'
<1> SUFFICES ASSUME Ac!SegmentInv, [Ac!Next]_Ac!acVars PROVE Ac!SegmentInv'
  OBVIOUS
<1>0. ASSUME UNCHANGED <<v1, v2>> PROVE Ac!FilesWhole'
  BY <1>0 DEF Ac!SegmentInv, Ac!FilesWhole
<1>00. ASSUME UNCHANGED v3 PROVE Ac!PutsWhole'
  BY <1>00 DEF Ac!SegmentInv, Ac!PutsWhole
<1>01. ASSUME UNCHANGED v5 PROVE Ac!ServesKeyed'
  BY <1>01 DEF Ac!SegmentInv, Ac!ServesKeyed
<1>02. ASSUME NEW s \in AcServers, v5' = [v5 EXCEPT ![s] = Ac!IdleServe] PROVE Ac!ServesKeyed'
  BY <1>02 DEF Ac!SegmentInv, Ac!ServesKeyed, Ac!IdleServe
<1>a. ASSUME NEW w \in Ac!Writers, v3' = [v3 EXCEPT ![w] = Ac!IdlePut] PROVE Ac!PutsWhole'
  BY <1>a, IdlePutWhole DEF Ac!SegmentInv, Ac!PutsWhole
<1>b. ASSUME NEW w \in Ac!Writers, NEW at, v3[w].pc # "idle", v3' = [v3 EXCEPT ![w].pc = at] PROVE Ac!PutsWhole'
  BY <1>b DEF Ac!SegmentInv, Ac!PutsWhole
<1>1. ASSUME NEW s \in AcSessions, NEW k \in AcKeys, NEW art, Ac!Observe(s, k, art) PROVE Ac!SegmentInv'
  <2>1. Ac!Begins(s, k, Ac!Entry(art, s)) /\ UNCHANGED <<v1, v2, v5>> /\ s \in Ac!Writers
    BY <1>1 DEF Ac!Observe, Ac!Writers
  <2>2. Ac!WholeEntry(Ac!Entry(art, s))
    BY DEF Ac!Entry, Ac!NoEntry, Ac!WholeEntry
  <2> QED  BY <1>0, <1>01, <2>1, <2>2, BeginsWhole DEF Ac!SegmentInv
<1>2. ASSUME NEW s \in AcSessions, NEW k \in AcKeys, Ac!Change(s, k) PROVE Ac!SegmentInv'
  <2>1. PICK e \in Ac!Readable(k) :
          /\ Ac!load_raw(k, e)
          /\ \/ Ac!Begins(s, k, [e EXCEPT !.dead = TRUE, !.since = v8])
             \/ Ac!Begins(s, k, [e EXCEPT !.cold = FALSE, !.since = 0])
          /\ UNCHANGED v5
    BY <1>2 DEF Ac!Change
  <2>2. Ac!WholeEntry(e) /\ Ac!FilesWhole'
    BY <2>1, LoadedWhole
  <2>3. Ac!WholeEntry([e EXCEPT !.dead = TRUE, !.since = v8]) /\ Ac!WholeEntry([e EXCEPT !.cold = FALSE, !.since = 0])
    BY <2>2 DEF Ac!WholeEntry
  <2> QED  BY <1>01, <2>1, <2>2, <2>3, BeginsWhole DEF Ac!SegmentInv, Ac!Writers
<1>3. ASSUME NEW w \in Ac!Writers, Ac!PutChecked(w) PROVE Ac!SegmentInv'
  <2>1. PICK e : /\ Ac!load_raw(v3[w].key, e) /\ v3[w].pc = "asked"
                 /\ \/ v3' = [v3 EXCEPT ![w] = Ac!IdlePut]
                    \/ v3' = [v3 EXCEPT ![w].pc = "checked"]
                 /\ UNCHANGED v5
    BY <1>3 DEF Ac!PutChecked
  <2>2. v3[w].key \in AcKeys
    BY <2>1 DEF Ac!SegmentInv, Ac!PutsWhole
  <2> QED  BY <1>01, <1>a, <1>b, <2>1, <2>2, LoadedWhole DEF Ac!SegmentInv
<1>4. ASSUME NEW w \in Ac!Writers, Ac!WriteTmp(w) \/ Ac!WriteCommit(w) PROVE Ac!SegmentInv'
  <2>1. UNCHANGED <<v1, v2, v5>> /\ v3[w].pc # "idle" /\ \E at : v3' = [v3 EXCEPT ![w].pc = at]
    BY <1>4 DEF Ac!WriteTmp, Ac!WriteCommit
  <2> QED  BY <1>0, <1>01, <1>b, <2>1 DEF Ac!SegmentInv
<1>5. ASSUME NEW w \in Ac!Writers, Ac!Rename(w) PROVE Ac!SegmentInv'
  <2>1. /\ v3[w].pc = "committed" /\ v3' = [v3 EXCEPT ![w] = Ac!IdlePut]
        /\ v1' = [v1 EXCEPT ![v3[w].key] = v3[w].entry] /\ v2' = v2
        /\ v5' = v5
    BY <1>5 DEF Ac!Rename
  <2>2. Ac!FilesWhole'
    BY <2>1 DEF Ac!SegmentInv, Ac!PutsWhole, Ac!FilesWhole
  <2> QED  BY <1>01, <1>a, <2>1, <2>2 DEF Ac!SegmentInv
<1>6. ASSUME NEW w \in Ac!Writers, Ac!WriteFails(w) PROVE Ac!SegmentInv'
  BY <1>0, <1>01, <1>a, <1>6 DEF Ac!WriteFails, Ac!SegmentInv
<1>7. ASSUME NEW w \in Ac!Writers, Ac!WriterCrash(w) PROVE Ac!SegmentInv'
  <2> DEFINE done == v3[w].pc = "committed"
             left == [entry |-> [v3[w].entry EXCEPT !.whole = done], committed |-> done]
  <2>1. /\ v3[w].pc # "idle" /\ v3' = [v3 EXCEPT ![w] = Ac!IdlePut] /\ v1' = v1
        /\ v5' = v5
        /\ v2' = [v2 EXCEPT ![v3[w].key] = @ \cup {left}]
    BY <1>7 DEF Ac!WriterCrash
  <2>2. left.committed => Ac!WholeEntry(left.entry)
    <3>1. Ac!WholeEntry(v3[w].entry)
      BY DEF Ac!SegmentInv, Ac!PutsWhole
    <3>2. CASE done
      BY <3>1, <3>2 DEF Ac!WholeEntry
    <3>3. CASE ~done
      BY <3>3
    <3> QED  BY <3>2, <3>3
  <2> HIDE DEF left
  <2>3. Ac!FilesWhole'
    BY <2>1, <2>2 DEF Ac!SegmentInv, Ac!PutsWhole, Ac!FilesWhole
  <2> QED  BY <1>01, <1>a, <2>1, <2>3 DEF Ac!SegmentInv
<1>8. ASSUME NEW s \in AcServers, NEW k \in AcKeys, Ac!ServeGet(s, k) PROVE Ac!SegmentInv'
  <2>1. PICK e : Ac!load_raw(k, e)
    BY <1>8 DEF Ac!ServeGet
  <2>2. Ac!ServesKeyed'
    BY <1>8 DEF Ac!ServeGet, Ac!SegmentInv, Ac!ServesKeyed
  <2> QED  BY <1>00, <1>8, <2>1, <2>2, LoadedWhole DEF Ac!SegmentInv, Ac!ServeGet
<1>9. ASSUME NEW s \in AcServers, Ac!ServeRecheck(s) PROVE Ac!SegmentInv'
  <2>1. PICK e : Ac!load_raw(v5[s].key, e) /\ v5[s].pc = "pinned" /\ UNCHANGED v3
    BY <1>9 DEF Ac!ServeRecheck
  <2>2. v5[s].key \in AcKeys
    BY <2>1 DEF Ac!SegmentInv, Ac!ServesKeyed
  <2>3. Ac!FilesWhole'
    BY <2>1, <2>2, LoadedWhole
  <2>4. PICK a : \/ v5' = [v5 EXCEPT ![s].pc = "held", ![s].art = a]
                 \/ v5' = [v5 EXCEPT ![s] = Ac!IdleServe]
    BY <1>9 DEF Ac!ServeRecheck
  <2>5. Ac!ServesKeyed'
    <3>1. CASE v5' = [v5 EXCEPT ![s].pc = "held", ![s].art = a]
      BY <3>1, <2>2 DEF Ac!SegmentInv, Ac!ServesKeyed
    <3> QED  BY <2>4, <3>1, <1>02
  <2> QED  BY <1>00, <2>1, <2>3, <2>5 DEF Ac!SegmentInv
<1>10. ASSUME NEW k \in AcKeys, Ac!MarkCold(k) PROVE Ac!SegmentInv'
  <2>1. PICK e \in Ac!Readable(k) :
          /\ Ac!load_raw(k, e)
          /\ \/ Ac!Begins(Ac!Evictor, k, [e EXCEPT !.cold = TRUE, !.since = v6.now])
             \/ UNCHANGED v3
          /\ UNCHANGED v5
    BY <1>10 DEF Ac!MarkCold
  <2>2. Ac!WholeEntry(e) /\ Ac!FilesWhole'
    BY <2>1, LoadedWhole
  <2>3. Ac!WholeEntry([e EXCEPT !.cold = TRUE, !.since = v6.now])
    BY <2>2 DEF Ac!WholeEntry
  <2> QED  BY <1>00, <1>01, <2>1, <2>2, <2>3, BeginsWhole DEF Ac!SegmentInv, Ac!Writers
<1>11. ASSUME UNCHANGED <<v1, v2, v3, v5>> PROVE Ac!SegmentInv'
  BY <1>0, <1>00, <1>01, <1>11 DEF Ac!SegmentInv
<1>12. ASSUME NEW s \in AcServers, Ac!ServePin(s) PROVE Ac!SegmentInv'
  <2>1. Ac!ServesKeyed'
    BY <1>12 DEF Ac!ServePin, Ac!SegmentInv, Ac!ServesKeyed
  <2> QED  BY <1>0, <1>00, <1>12, <2>1 DEF Ac!SegmentInv, Ac!ServePin
<1>13. ASSUME NEW s \in AcServers, Ac!ServeDrop(s) \/ Ac!ServerCrash(s) PROVE Ac!SegmentInv'
  BY <1>0, <1>00, <1>02, <1>13 DEF Ac!SegmentInv, Ac!ServeDrop, Ac!ServerCrash
<1> QED
  BY <1>1, <1>2, <1>3, <1>4, <1>5, <1>6, <1>7, <1>8, <1>9, <1>10, <1>11,
     <1>12, <1>13 DEF Ac!Next, Ac!EvictBegin, Ac!CheckPins, Ac!DeleteBlob, Ac!Tick, Ac!acVars

(* So a segment is never one cut short. *)
LEMMA SegmentInvImplies == Ac!SegmentInv => Ac!SegmentsWhole
BY DEF Ac!SegmentInv, Ac!FilesWhole, Ac!WholeEntry, Ac!SegmentsWhole

-----------------------------------------------------------------------------
(* Entity novelty.  The slots: v1 novelty, v2 merge, v3 since, v4 damages. *)

(* No file and no merge under way. *)
LEMMA NoveltyInitInv == Nov!EntityNoveltyInit => Nov!NoveltyInv
BY DEF Nov!EntityNoveltyInit, Nov!NoveltyInv, Nov!HeldAcceptable, Nov!MergesLoseOnlyRaces

(* Every step of a merge, and damage, keeps the invariant. *)
LEMMA NoveltyStepInv == Nov!NoveltyInv /\ [Nov!EntityNoveltyNext]_Nov!envars => Nov!NoveltyInv'
<1> SUFFICES ASSUME Nov!NoveltyInv, [Nov!EntityNoveltyNext]_Nov!envars PROVE Nov!NoveltyInv'
  OBVIOUS
<1> USE DEF Nov!NoveltyInv, Nov!HeldAcceptable, Nov!MergesLoseOnlyRaces
<1>1. ASSUME NEW c \in NovMerges, NEW scope, NEW ids, NEW producer, NEW digest,
             Nov!Read(c, scope, ids, producer, digest)
      PROVE  Nov!NoveltyInv'
  <2> DEFINE record == Nov!read_entity_novelty(scope)
             held == Nov!merge_ids(record, ids, producer, digest)
  <2>1. /\ record # bad /\ producer \in NovProducers /\ ids \subseteq NovIds
        /\ v2' = [v2 EXCEPT ![c] = [scope |-> scope, record |-> held]]
        /\ v3' = [v3 EXCEPT ![c] = {}] /\ v1' = v1
    <3>1. /\ record # bad /\ producer \in NovProducers
          /\ \A id \in ids : Nov!validate_entity_id(id)
      BY <1>1 DEF Nov!Read, Nov!validate_engine
    <3>2. ids \subseteq NovIds
      BY <3>1 DEF Nov!validate_entity_id
    <3>3. /\ v2' = [v2 EXCEPT ![c] = [scope |-> scope, record |-> held]]
          /\ v3' = [v3 EXCEPT ![c] = {}] /\ v1' = v1
      BY <1>1 DEF Nov!Read
    <3> QED  BY <3>1, <3>2, <3>3
  <2>2. scope \in NovScopes
    BY <2>1 DEF Nov!read_entity_novelty, Nov!validate_scope_key
  <2>3. held.ids = record.ids \cup ids /\ held.producer = producer
    BY DEF Nov!merge_ids, Nov!Record
  <2>4. v1[scope] # absent => record = v1[scope]
    BY <2>2 DEF Nov!read_entity_novelty, Nov!validate_scope_key
  <2>5. v1[scope] = absent => record.ids = {}
    BY <2>2 DEF Nov!read_entity_novelty, Nov!validate_scope_key, Nov!empty, Nov!Record
  <2> HIDE DEF held, record
  <2>6. record.ids \subseteq NovIds
    BY <2>1, <2>2, <2>4, <2>5
  <2> QED  BY <2>1, <2>2, <2>3, <2>4, <2>6
<1>2. ASSUME NEW c \in NovMerges, Nov!write_entity_novelty(c) PROVE Nov!NoveltyInv'
  BY <1>2 DEF Nov!write_entity_novelty
<1>3. ASSUME NEW c \in NovMerges, Nov!Abandon(c) PROVE Nov!NoveltyInv'
  BY <1>3 DEF Nov!Abandon
<1>4. ASSUME NEW scope \in NovScopes, Nov!Damage(scope) PROVE Nov!NoveltyInv'
  BY <1>4 DEF Nov!Damage
<1>5. CASE UNCHANGED Nov!envars
  BY <1>5 DEF Nov!envars
<1> QED  BY <1>1, <1>2, <1>3, <1>4, <1>5 DEF Nov!EntityNoveltyNext

-----------------------------------------------------------------------------
(* The composition: a behaviour is one component's, so its steps are those *)
(* of that component and what the component keeps is kept.                 *)

LEMMA PartSteps ==
    ASSUME [MCNext]_<<part, slots>>
    PROVE  /\ part' = part
           /\ part = "maintenance" => [Maint!Next]_Maint!maintVars
           /\ part = "castree" => [Tree!Next]_Tree!treeVars
           /\ part = "migration" => [Mig!Next]_Mig!vars
           /\ part = "refindex" => [Idx!Next]_Idx!indexVars
           /\ part = "actioncache" => [Ac!Next]_Ac!acVars
           /\ part = "entitynovelty" => [Nov!EntityNoveltyNext]_Nov!envars
<1>1. CASE UNCHANGED <<part, slots>>
  BY <1>1 DEF slots, Maint!maintVars, Tree!treeVars, Mig!vars, Mig!durable, Idx!indexVars,
     Ac!acVars,
     Nov!envars
<1>2. CASE MCNext
  <2>1. part' = part
    BY <1>2 DEF MCNext, Rest14, Rest13, Rest12, Rest11, Rest10, Rest9, Rest8, Rest7, Rest6, Rest5,
       Rest4, Rest3
  <2>2. CASE part = "maintenance"
    BY <1>2, <2>1, <2>2 DEF MCNext
  <2>3. CASE part = "castree"
    BY <1>2, <2>1, <2>3 DEF MCNext
  <2>4. CASE part = "migration"
    BY <1>2, <2>1, <2>4 DEF MCNext
  <2>5. CASE part = "refindex"
    BY <1>2, <2>1, <2>5 DEF MCNext
  <2>6. CASE part = "actioncache"
    BY <1>2, <2>1, <2>6 DEF MCNext
  <2>7. CASE part = "entitynovelty"
    BY <1>2, <2>1, <2>7 DEF MCNext
  <2> QED  BY <2>1, <2>2, <2>3, <2>4, <2>5, <2>6, <2>7
<1> QED  BY <1>1, <1>2

(* Whatever processes persist, maintain and die in whatever order:         *)
(* collections are GC_INTERVAL apart and never overlap, a sweep takes no   *)
(* live temporary file, and the snapshot names no unlinked sidecar         *)
(* (cache_maintenance.rs, store_hygiene.rs).                               *)
THEOREM MaintenanceStaysSafe == MCSpec => []MaintenanceSafe
<1> DEFINE Inv == part = "maintenance" => Maint!MaintInv
<1>1. MCInit => Inv
  BY StoresConstants, MaintInitInv DEF MCInit
<1>2. Inv /\ [MCNext]_<<part, slots>> => Inv'
  BY StoresConstants, PartSteps, MaintStepInv
<1>3. Inv => MaintenanceSafe
  BY DEF Maint!MaintInv, MaintenanceSafe
<1> QED  BY <1>1, <1>2, <1>3, PTL DEF MCSpec

(* Coalesced maintenance starts at least AUTO_MAINTENANCE_COALESCE after   *)
(* the end of the one before it, whichever process ran that                *)
(* (cache_maintenance_coalesced).                                          *)
THEOREM CoalescedRunsStaySpaced ==
    MCSpec => [][part = "maintenance" => Maint!CoalescedRunsSpaced]_<<part, slots>>
<1> DEFINE Inv == part = "maintenance" => Maint!MaintInv
<1>1. MCInit => Inv
  BY StoresConstants, MaintInitInv DEF MCInit
<1>2. Inv /\ [MCNext]_<<part, slots>> => Inv'
  BY StoresConstants, PartSteps, MaintStepInv
<1>3. Inv /\ [MCNext]_<<part, slots>> => [part = "maintenance" => Maint!CoalescedRunsSpaced]_<<part, slots>>
  BY StoresConstants, PartSteps, MaintSpaced
<1> QED  BY <1>1, <1>2, <1>3, PTL DEF MCSpec

(* For any threads in any processes: a published object keeps every        *)
(* directory above it, and a put or a probe that nothing disturbed answers *)
(* what is so (embedded_store.rs, probe_cas_writable, cas_publication_guard). *)
THEOREM CasTreeStaysHonest == MCSpec => []CasTreeHonest
<1> DEFINE Inv == part = "castree" => Tree!TreeInv
<1>1. MCInit => Inv
  BY StoresConstants, TreeInitInv DEF MCInit
<1>2. Inv /\ [MCNext]_<<part, slots>> => Inv'
  BY StoresConstants, PartSteps, TreeStepInv
<1>3. Inv => CasTreeHonest
  BY TreeInvImplies DEF CasTreeHonest
<1> QED  BY <1>1, <1>2, <1>3, PTL DEF MCSpec

(* For any short refs, hashes and contents of the store, and any faults    *)
(* between the writes of a command: a legacy blob leaves the store only    *)
(* into the shared CAS, and a run that reports no failure verifies         *)
(* (migration.rs).                                                         *)
THEOREM LegacyStaysMigratable == MCSpec => []LegacyMigrates
<1> DEFINE Inv == part = "migration" => Mig!MigInv
<1>1. MCInit => Inv
  BY StoresConstants, MigInitInv DEF MCInit
<1>2. Inv /\ [MCNext]_<<part, slots>> => Inv'
  BY StoresConstants, PartSteps, MigStepInv
<1>3. Inv => LegacyMigrates
  BY StoresConstants, MigInvImplies DEF LegacyMigrates
<1> QED  BY <1>1, <1>2, <1>3, PTL DEF MCSpec

(* For any processes, keys, scopes and references (of which the shard must *)
(* be able to hold one line each below its read ceiling): the count a      *)
(* reader of the index sees is behind by no more than the appends a crash  *)
(* cut, an action-cache segment holds an entry that was written to its     *)
(* end, and a merge of entity ids loses only the ids merged while it ran   *)
(* (ref_index.rs, action_cache.rs, entity_novelty.rs).                     *)
THEOREM SharedRecordsStayMerged == MCSpec => []SharedRecordsMerge
<1> DEFINE Inv == /\ part = "refindex" => Idx!IndexInv
                  /\ part = "actioncache" => Ac!SegmentInv
                  /\ part = "entitynovelty" => Nov!NoveltyInv
<1>1. MCInit => Inv
  BY StoresConstants, Idx!IndexInitInv, SegmentInitInv, NoveltyInitInv DEF MCInit
<1>2. Inv /\ [MCNext]_<<part, slots>> => Inv'
  BY StoresConstants, PartSteps, Idx!IndexStepInv, SegmentStepInv, NoveltyStepInv
<1>3. Inv => SharedRecordsMerge
  BY StoresConstants, Idx!IndexInvImplies, SegmentInvImplies DEF SharedRecordsMerge,
     Nov!NoveltyInv
<1> QED  BY <1>1, <1>2, <1>3, PTL DEF MCSpec
=============================================================================
