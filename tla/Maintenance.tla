---------------------------- MODULE Maintenance ----------------------------
(***************************************************************************)
(* Cache maintenance (engine/src/cache_maintenance.rs) and the hygiene of  *)
(* the recovery files it calls (recovery/src/store_hygiene.rs), run by     *)
(* several processes of one store: every engine constructor asks for a     *)
(* coalesced maintenance, the command line for an unconditional one, and   *)
(* persists of the store go on beside them.  maintenance.lock serializes   *)
(* maintenance across processes; the persist lock guards the temporary     *)
(* files of a persist, the snapshot and the blob sidecars.  The collection *)
(* of the shared CAS and of segments is one external step here.            *)
(***************************************************************************)
EXTENDS Naturals, FiniteSets

CONSTANTS Maintainer,      \* processes
          Sidecar,         \* legacy blob sidecar files
          Budget,          \* sidecars the byte budget admits
          Coalesce,        \* AUTO_MAINTENANCE_COALESCE, in ticks
          GcInterval,      \* GC_INTERVAL, in ticks
          TmpMaxAge,       \* STALE_TMP_MAX_AGE, in ticks
          LastTick         \* bound on the clock

VARIABLES clock,
          mlock, plock,    \* holders of maintenance.lock and of the persist lock
          marker, gcMarker,  \* modification times of maintenance.last and gc.last
          todo,            \* what each process does next
          sweptAt,         \* in-process coalescing state per process
          tmp,             \* temporary file of each process, with its birth tick
          named, files,    \* sidecars the snapshot names, and those on disk
          victims,         \* sidecars a running prune still has to unlink
          lastAuto, lastGc \* history: when a coalesced run / a collection ended

maintVars == <<clock, mlock, plock, marker, gcMarker, todo, sweptAt, tmp, named,
               files, victims, lastAuto, lastGc>>

NoOne == "nobody"
Never == LastTick + 1   \* no time
Tick == 0..LastTick
Idle == [at |-> "idle", auto |-> FALSE]

TypeOK ==
  /\ clock \in Tick
  /\ mlock \in Maintainer \cup {NoOne} /\ plock \in Maintainer \cup {NoOne}
  /\ {marker, gcMarker, lastAuto, lastGc} \subseteq Tick \cup {Never}
  /\ \A p \in Maintainer : sweptAt[p] \in Tick \cup {Never} /\ tmp[p] \in Tick \cup {Never}
  /\ victims \subseteq Sidecar /\ files \subseteq Sidecar /\ named \subseteq Sidecar

Init ==
  /\ clock = 0
  /\ mlock = NoOne /\ plock = NoOne
  /\ marker = Never /\ gcMarker = Never
  /\ todo = [p \in Maintainer |-> Idle]
  /\ sweptAt = [p \in Maintainer |-> Never]
  /\ tmp = [p \in Maintainer |-> Never]
  /\ files = Sidecar /\ named = Sidecar
  /\ victims = {}
  /\ lastAuto = Never /\ lastGc = Never

(* marker_fresh *)
Fresh(mtime, interval) == mtime # Never /\ clock - mtime < interval

At(p, where) == todo[p].at = where
Go(p, where) == todo' = [todo EXCEPT ![p].at = where]
Rest(p) == todo' = [todo EXCEPT ![p] = Idle]

-----------------------------------------------------------------------------
(* A persist of the store: temporary file, rename, all under the lock.     *)

PersistStart(p) ==
  /\ At(p, "idle") /\ plock = NoOne
  /\ plock' = p
  /\ tmp' = [tmp EXCEPT ![p] = clock]
  /\ Go(p, "persisting")
  /\ UNCHANGED <<clock, mlock, marker, gcMarker, sweptAt, named, files, victims, lastAuto, lastGc>>

PersistRename(p) ==
  /\ At(p, "persisting")
  /\ plock' = NoOne
  /\ tmp' = [tmp EXCEPT ![p] = Never]
  /\ Rest(p)
  /\ UNCHANGED <<clock, mlock, marker, gcMarker, sweptAt, named, files, victims, lastAuto, lastGc>>

-----------------------------------------------------------------------------
(* Entering maintenance.                                                   *)

(* cache_maintenance_coalesced before the lock: recent work of this        *)
(* process or of another one, or a held lock, end it.                      *)
Coalesced(p) ==
  /\ At(p, "idle")
  /\ ~Fresh(sweptAt[p], Coalesce) /\ ~Fresh(marker, Coalesce)
  /\ Go(p, "tryLock")
  /\ UNCHANGED <<clock, mlock, plock, marker, gcMarker, sweptAt, tmp, named, files, victims,
                 lastAuto, lastGc>>

TryLock(p) ==
  /\ At(p, "tryLock")
  /\ IF mlock = NoOne THEN mlock' = p /\ Go(p, "recheck") ELSE Rest(p) /\ UNCHANGED mlock
  /\ UNCHANGED <<clock, plock, marker, gcMarker, sweptAt, tmp, named, files, victims,
                 lastAuto, lastGc>>

(* Mutant: the marker is not read again under the lock. *)
RecheckNothing(p) ==
  /\ At(p, "recheck")
  /\ todo' = [todo EXCEPT ![p] = [at |-> "sweep", auto |-> TRUE]]
  /\ UNCHANGED <<clock, mlock, plock, marker, gcMarker, sweptAt, tmp, named, files, victims,
                 lastAuto, lastGc>>

Recheck(p) ==
  /\ At(p, "recheck")
  /\ IF Fresh(marker, Coalesce)
     THEN mlock' = NoOne /\ Rest(p)
     ELSE /\ todo' = [todo EXCEPT ![p] = [at |-> "sweep", auto |-> TRUE]]
          /\ UNCHANGED mlock
  /\ UNCHANGED <<clock, plock, marker, gcMarker, sweptAt, tmp, named, files, victims,
                 lastAuto, lastGc>>

(* Mutant: the explicit command starts without the lock. *)
ExplicitUnlocked(p) ==
  /\ At(p, "idle")
  /\ todo' = [todo EXCEPT ![p] = [at |-> "sweep", auto |-> FALSE]]
  /\ UNCHANGED <<clock, mlock, plock, marker, gcMarker, sweptAt, tmp, named, files, victims,
                 lastAuto, lastGc>>

(* cache_maintenance: blocks on the lock, no coalescing. *)
Explicit(p) ==
  /\ At(p, "idle") /\ mlock = NoOne
  /\ mlock' = p
  /\ todo' = [todo EXCEPT ![p] = [at |-> "sweep", auto |-> FALSE]]
  /\ UNCHANGED <<clock, plock, marker, gcMarker, sweptAt, tmp, named, files, victims,
                 lastAuto, lastGc>>

-----------------------------------------------------------------------------
(* run_cache_maintenance                                                   *)

(* Temporary files old enough to be taken for abandoned. *)
Stale == {q \in Maintainer : tmp[q] # Never /\ clock - tmp[q] > TmpMaxAge}

(* Mutant: the sweep does not take the persist lock. *)
SweepUnlocked(p) ==
  /\ At(p, "sweep")
  /\ tmp' = [q \in Maintainer |-> IF q \in Stale THEN Never ELSE tmp[q]]
  /\ Go(p, "prune")
  /\ UNCHANGED <<clock, mlock, plock, marker, gcMarker, sweptAt, named, files, victims,
                 lastAuto, lastGc>>

(* sweep_stale_tmp_files: under the persist lock; when it cannot be had in *)
(* time the sweep is skipped.                                              *)
sweep_stale_tmp_files(p) ==
  /\ At(p, "sweep")
  /\ tmp' = IF plock = NoOne THEN [q \in Maintainer |-> IF q \in Stale THEN Never ELSE tmp[q]]
                             ELSE tmp
  /\ Go(p, "prune")
  /\ UNCHANGED <<clock, mlock, plock, marker, gcMarker, sweptAt, named, files, victims,
                 lastAuto, lastGc>>

(* The files a prune selects: all that expired, and of the others as many  *)
(* as the budget cannot hold, least recently expanded first.               *)
VictimSets == {v \in SUBSET files :
                 \E expired \in SUBSET files :
                   /\ expired \subseteq v
                   /\ v # expired => Cardinality(files \ v) = Budget
                   /\ v = expired => Cardinality(files \ v) <= Budget}

(* Mutant: the files go before the snapshot is published. *)
PruneUnlinksFirst(p) ==
  /\ At(p, "prune")
  /\ \/ /\ plock = NoOne
        /\ \E v \in VictimSets :
             /\ victims' = v
             /\ files' = files \ v
             /\ plock' = p
             /\ Go(p, "unlink")
     \/ /\ Go(p, "gc")
        /\ UNCHANGED <<plock, victims, files>>
  /\ UNCHANGED <<clock, mlock, marker, gcMarker, sweptAt, tmp, named, lastAuto, lastGc>>

(* prune_recovery_blobs up to the publication of a snapshot that no longer *)
(* names the victims; no lock or a failed publication ends it.             *)
PrunePublish(p) ==
  /\ At(p, "prune")
  /\ \/ /\ plock = NoOne
        /\ \E v \in VictimSets :
             /\ victims' = v
             /\ named' = named \ v
             /\ plock' = p
             /\ Go(p, "unlink")
     \/ /\ Go(p, "gc")
        /\ UNCHANGED <<plock, victims, named>>
  /\ UNCHANGED <<clock, mlock, marker, gcMarker, sweptAt, tmp, files, lastAuto, lastGc>>

(* The victims are unlinked one after the other; a failing one ends it. *)
PruneUnlink(p) ==
  /\ At(p, "unlink")
  /\ \/ \E s \in victims :
          /\ files' = files \ {s}
          /\ victims' = victims \ {s}
          /\ UNCHANGED <<plock, todo>>
     \/ /\ victims' = {}
        /\ plock' = NoOne
        /\ Go(p, "gc")
        /\ UNCHANGED files
  /\ UNCHANGED <<clock, mlock, marker, gcMarker, sweptAt, tmp, named, lastAuto, lastGc>>

(* gc_maintenance: skipped while gc.last is fresh, else a collection. *)
GcStart(p) ==
  /\ At(p, "gc")
  /\ Go(p, IF Fresh(gcMarker, GcInterval) THEN "finish" ELSE "collect")
  /\ UNCHANGED <<clock, mlock, plock, marker, gcMarker, sweptAt, tmp, named, files, victims,
                 lastAuto, lastGc>>

GcEnd(p) ==
  /\ At(p, "collect")
  /\ gcMarker' = clock
  /\ lastGc' = clock
  /\ Go(p, "finish")
  /\ UNCHANGED <<clock, mlock, plock, marker, sweptAt, tmp, named, files, victims, lastAuto>>

(* The coalesced run touches its marker and remembers the time. *)
Finish(p) ==
  /\ At(p, "finish")
  /\ IF todo[p].auto
     THEN /\ marker' = clock
          /\ sweptAt' = [sweptAt EXCEPT ![p] = clock]
          /\ lastAuto' = clock
     ELSE UNCHANGED <<marker, sweptAt, lastAuto>>
  /\ mlock' = NoOne
  /\ Rest(p)
  /\ UNCHANGED <<clock, plock, gcMarker, tmp, named, files, victims, lastGc>>

-----------------------------------------------------------------------------
Tock ==
  /\ clock < LastTick
  /\ clock' = clock + 1
  /\ UNCHANGED <<mlock, plock, marker, gcMarker, todo, sweptAt, tmp, named, files, victims,
                 lastAuto, lastGc>>

(* A process dies and is started again; the kernel drops its locks. *)
MaintainerDies(p) ==
  /\ ~At(p, "idle")
  /\ Rest(p)
  /\ sweptAt' = [sweptAt EXCEPT ![p] = Never]
  /\ mlock' = IF mlock = p THEN NoOne ELSE mlock
  /\ plock' = IF plock = p THEN NoOne ELSE plock
  /\ victims' = IF plock = p THEN {} ELSE victims
  /\ UNCHANGED <<clock, marker, gcMarker, tmp, named, files, lastAuto, lastGc>>

Next ==
  \/ Tock
  \/ \E p \in Maintainer :
       \/ PersistStart(p) \/ PersistRename(p)
       \/ Coalesced(p) \/ TryLock(p) \/ Recheck(p) \/ Explicit(p)
       \/ sweep_stale_tmp_files(p) \/ PrunePublish(p) \/ PruneUnlink(p)
       \/ GcStart(p) \/ GcEnd(p) \/ Finish(p)
       \/ MaintainerDies(p)

Spec == Init /\ [][Next]_maintVars

-----------------------------------------------------------------------------
(* Properties.                                                             *)

(* A persist in progress never loses its temporary file to a sweep, not    *)
(* even when it has been stalled for longer than STALE_TMP_MAX_AGE.        *)
LiveTmpKept == \A p \in Maintainer : At(p, "persisting") => tmp[p] # Never

(* The snapshot on disk never names a sidecar that has been unlinked, at   *)
(* whatever step a prune dies or is refused.                               *)
NamedSidecarsExist == named \subseteq files

(* Coalescing across processes: when a coalesced maintenance starts, the   *)
(* one before it ended at least AUTO_MAINTENANCE_COALESCE ago, although    *)
(* the marker is first read without the lock.                              *)
CoalescedRunsSpaced ==
  \A p \in Maintainer :
    At(p, "recheck") /\ todo'[p].at = "sweep" =>
      lastAuto = Never \/ clock - lastAuto >= Coalesce

(* Collections are at least GC_INTERVAL apart and never overlap, explicit  *)
(* and coalesced maintenance together.                                     *)
CollectionsSpaced ==
  \A p \in Maintainer : At(p, "collect") =>
    /\ lastGc = Never \/ clock - lastGc >= GcInterval
    /\ \A q \in Maintainer \ {p} : ~At(q, "collect")

-----------------------------------------------------------------------------
(* Why maintenance is safe: a process works only under the locks its step  *)
(* needs, the marker files tell when the last coalesced run and the last   *)
(* collection ended, and a prune unlinks only what the published snapshot  *)
(* no longer names.                                                        *)

MaintConstants == NoOne \notin Maintainer /\ LastTick \in Nat /\ GcInterval \in Nat /\ Coalesce \in Nat
MaintShapes ==
  /\ clock \in Nat /\ clock <= LastTick /\ lastGc \in Nat /\ lastAuto \in Nat
  /\ DOMAIN todo = Maintainer /\ DOMAIN tmp = Maintainer
  /\ \A p \in Maintainer : todo[p] = [at |-> todo[p].at, auto |-> todo[p].auto]
LocksOwned ==
  \A p \in Maintainer :
    /\ todo[p].at \in {"recheck", "sweep", "prune", "unlink", "gc", "collect", "finish"} => mlock = p
    /\ todo[p].at \in {"persisting", "unlink"} => plock = p
MarkersTrue == marker = lastAuto /\ gcMarker = lastGc
VictimsUnnamed == victims \cap named = {}
MaintInv ==
  /\ MaintShapes /\ LocksOwned /\ MarkersTrue /\ VictimsUnnamed
  /\ LiveTmpKept /\ NamedSidecarsExist /\ CollectionsSpaced
=============================================================================
