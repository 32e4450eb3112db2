---------------------------- MODULE SegmentStore ----------------------------
(***************************************************************************)
(* The manifest-driven append-only segment store                           *)
(* (recovery/src/segment_store.rs).  Every operation takes the store lock  *)
(* and reloads what is on disk, so handles keep nothing between operations *)
(* and one operation runs at a time; it writes several files one after the *)
(* other and may stop (crash or I/O error) between any two of them.        *)
(*                                                                         *)
(* A segment is its records; a record is a ref with the lease it was put   *)
(* with.  Refs are content addresses.  An index maps refs to leases; its   *)
(* hash in the manifest is the index itself.                               *)
(***************************************************************************)
EXTENDS Naturals, Sequences, SequencesExt, Functions, FiniteSets

CONSTANTS Refs, Leases, Horizon,   \* refs, lease deadlines, last tick of the clock
          SegmentCap,              \* records that fit a segment (segment_bytes)
          Segments,                \* segment generations 1..n (bound)
          MaxRecords,              \* records on disk (bound)
          MaxStops,                \* operations that stop half way (bound)
          StopWithExtension        \* whether they also stop once a lease was raised in place

VARIABLES data, index,      \* the files, by generation
          manifest, backup, \* recovery.manifest.json; segments its .bak names
          task,             \* the running operation
          now,
          acked,            \* history: highest lease acknowledged per ref
          extended,         \* history: a lease was raised without a record
          stops             \* number of operations stopped so far

segVars == <<data, index, manifest, backup, task, now, acked, extended, stops>>
files == <<data, index, manifest, backup>>

NoTask == [at |-> "idle"]
Torn == [ref |-> "torn", lease |-> 0]   \* what an interrupted append leaves
EmptyIndex == [r \in {} |-> 0]
MaxOf2(a, b) == IF a > b THEN a ELSE b

With(f, x, v) == [y \in DOMAIN f \cup {x} |-> IF y = x THEN v ELSE f[y]]

(* create_shadow, and desc(1) with init_hot. *)
Init ==
  /\ data = [g \in {1} |-> <<>>]
  /\ index = [g \in {1} |-> EmptyIndex]
  /\ manifest = [hot |-> 1, written |-> 0, cold |-> <<>>, hash |-> [g \in {1} |-> EmptyIndex]]
  /\ backup = {}
  /\ task = NoTask
  /\ now = 0
  /\ acked = [r \in Refs |-> 0]
  /\ extended = FALSE
  /\ stops = 0

Records == FoldFunction(LAMBDA s, n : Len(s) + n, 0, data)

Named(m) == {m.hot} \cup ToSet(m.cold)

-----------------------------------------------------------------------------
(* Reading what is on disk.                                                *)

(* recover: the records up to written_bytes, but none after one that does  *)
(* not parse; each with the lease it was written with, a later record of a *)
(* ref replacing an earlier one.                                           *)
Vouched(m) ==
  LET records == SubSeq(data[m.hot], 1, m.written)
      whole == {k \in 0..Len(records) : \A j \in 1..k : records[j] # Torn}
  IN SubSeq(records, 1, CHOOSE k \in whole : \A j \in whole : j <= k)

Recovered(records) ==
  FoldLeft(LAMBDA i, rec : With(i, rec.ref, rec.lease), EmptyIndex, records)

(* load_index: the file must be the one the manifest has hashed. *)
Loads(m, g) == g \in DOMAIN data /\ g \in DOMAIN index /\ index[g] = m.hash[g]

(* load_or_recover_hot *)
HotIndex(m) == IF Loads(m, m.hot) THEN index[m.hot] ELSE Recovered(Vouched(m))

(* reload: recovery truncates the segment and rewrites its index; the      *)
(* manifest keeps the hash it had.                                         *)
ReloadFiles(d, i) ==
  /\ data' = IF Loads(manifest, manifest.hot) THEN d
             ELSE [d EXCEPT ![manifest.hot] = Vouched(manifest)]
  /\ index' = With(i, manifest.hot, HotIndex(manifest))

(* The cold segments an operation walks through, newest first, down to and *)
(* including the first of the positions it looks for; one that does not    *)
(* load ends it with an error.                                             *)
ColdLoads(hits) ==
  \A k \in DOMAIN manifest.cold :
    (\A j \in hits : j <= k) => Loads(manifest, manifest.cold[k])

NewestCold(hits) == IF hits = {} THEN 0 ELSE CHOOSE k \in hits : \A j \in hits : j <= k

(* expand: the ref's lease in the segment that answers, or 0 when the walk *)
(* finds nothing or ends in an error.                                      *)
HeldIn(g, r) == g \in DOMAIN index /\ r \in DOMAIN index[g]

ColdHits(r) == {k \in DOMAIN manifest.cold : HeldIn(manifest.cold[k], r)}

Expandable(r) ==
  \/ r \in DOMAIN HotIndex(manifest)
  \/ ColdLoads(ColdHits(r)) /\ NewestCold(ColdHits(r)) # 0

(* The longest lease any readable copy of a ref has. *)
Held(r) ==
  LET hot == IF r \in DOMAIN HotIndex(manifest) THEN {HotIndex(manifest)[r]} ELSE {}
      cold == {index[g][r] : g \in {h \in ToSet(manifest.cold) :
                                      Loads(manifest, h) /\ HeldIn(h, r)}}
      all == hot \cup cold
  IN IF Expandable(r) /\ all # {} THEN CHOOSE l \in all : \A k \in all : k <= l ELSE 0

-----------------------------------------------------------------------------
(* put                                                                     *)

Work(at, kind, r, l, m) == [at |-> at, kind |-> kind, ref |-> r, lease |-> l, man |-> m]

(* The manifest with one index rehashed. *)
Rehash(m, g, i) == [m EXCEPT !.hash = With(@, g, i)]

(* A live copy takes a longer lease in place; otherwise a new record goes  *)
(* to the hot segment, after sealing it when it is full.                   *)
PutBegin(r, l) ==
  LET hot == HotIndex(manifest)
      live == {k \in ColdHits(r) : index[manifest.cold[k]][r] > now}
      c == NewestCold(live)
  IN
  /\ task = NoTask
  /\ Records < MaxRecords
  /\ ReloadFiles(data, index)
  /\ \/ /\ r \in DOMAIN hot /\ hot[r] > now
        /\ task' = IF l > hot[r]
                   THEN Work("index", "extend", r, l, Rehash(manifest, manifest.hot, With(hot, r, l)))
                   ELSE NoTask
     \/ /\ r \in DOMAIN hot => hot[r] <= now
        /\ ColdLoads(live) /\ c # 0
        /\ LET g == manifest.cold[c] IN
           task' = IF l > index[g][r]
                   THEN Work("index", "extend", r, l, Rehash(manifest, g, With(index[g], r, l)))
                   ELSE NoTask
     \/ /\ r \in DOMAIN hot => hot[r] <= now
        /\ ColdLoads(live) /\ c = 0
        /\ task' = Work(IF manifest.written >= SegmentCap /\ hot # EmptyIndex
                        THEN "seal" ELSE "append", "put", r, l, manifest)
     \/ /\ r \in DOMAIN hot => hot[r] <= now
        /\ ~ColdLoads(live)
        /\ task' = NoTask
  /\ UNCHANGED <<manifest, backup, now, acked, extended, stops>>

(* seal_inner: a hot segment with entries becomes cold, with the hash the  *)
(* manifest has for it, and the next generation is created; create_new     *)
(* fails on a file that is there.                                          *)
SealFile ==
  LET g == task.man.hot + 1 IN
  /\ task.at = "seal" /\ g \in Segments
  /\ IF g \in DOMAIN data
     THEN task' = NoTask /\ UNCHANGED data
     ELSE /\ data' = With(data, g, <<>>)
          /\ task' = [task EXCEPT !.at = "sealIndex",
                        !.man = [hot |-> g, written |-> 0, cold |-> Append(task.man.cold, g - 1),
                                 hash |-> With(task.man.hash, g, EmptyIndex)]]
  /\ UNCHANGED <<index, manifest, backup, now, acked, extended, stops>>

SealIndex ==
  /\ task.at = "sealIndex"
  /\ index' = With(index, task.man.hot, EmptyIndex)
  /\ task' = [task EXCEPT !.at = IF task.kind = "put" THEN "append" ELSE "backup"]
  /\ UNCHANGED <<data, manifest, backup, now, acked, extended, stops>>

(* The record is appended and synced. *)
AppendRecord ==
  LET g == task.man.hot
      i == IF g = manifest.hot THEN HotIndex(manifest) ELSE EmptyIndex
  IN
  /\ task.at = "append"
  /\ data' = [data EXCEPT ![g] = Append(@, [ref |-> task.ref, lease |-> task.lease])]
  /\ task' = [task EXCEPT !.at = "index",
                !.man = Rehash([task.man EXCEPT !.written = Len(data[g]) + 1],
                               g, With(i, task.ref, task.lease))]
  /\ UNCHANGED <<index, manifest, backup, now, acked, extended, stops>>

(* write_index of the segment whose hash changes: temporary file, rename. *)
WriteIndex ==
  /\ task.at = "index"
  /\ LET changed == {g \in DOMAIN task.man.hash :
                        g = task.man.hot \/ task.man.hash[g] # manifest.hash[g]}
     IN index' = [g \in DOMAIN index |-> IF g \in changed THEN task.man.hash[g] ELSE index[g]]
  /\ task' = [task EXCEPT !.at = "backup"]
  /\ UNCHANGED <<data, manifest, backup, now, acked, extended, stops>>

(* publish: the old manifest is copied to the backup, then replaced. *)
CopyBackup ==
  /\ task.at = "backup"
  /\ backup' = Named(manifest)
  /\ task' = [task EXCEPT !.at = "rename"]
  /\ UNCHANGED <<data, index, manifest, now, acked, extended, stops>>

RenameManifest ==
  /\ task.at = "rename"
  /\ manifest' = task.man
  /\ task' = IF task.kind = "evict" THEN [task EXCEPT !.at = "refresh"] ELSE NoTask
  /\ acked' = IF task.kind \in {"put", "extend"}
              THEN [acked EXCEPT ![task.ref] = MaxOf2(@, task.lease)] ELSE acked
  /\ extended' = (extended \/ task.kind = "extend")
  /\ UNCHANGED <<data, index, backup, now, stops>>

-----------------------------------------------------------------------------
(* seal, activate/rollback/retire, evict_expired, open                     *)

SealBegin ==
  /\ task = NoTask
  /\ ReloadFiles(data, index)
  /\ task' = Work(IF HotIndex(manifest) = EmptyIndex THEN "backup" ELSE "seal",
                  "seal", CHOOSE r \in Refs : TRUE, 0, manifest)
  /\ UNCHANGED <<manifest, backup, now, acked, extended, stops>>

(* Mutant: one expired lease condemns the segment. *)
AnyExpired(g) == \E r \in DOMAIN index[g] : index[g][r] <= now

Expired(g) == \A r \in DOMAIN index[g] : index[g][r] <= now

(* Mutant: the files of expired segments go before the manifest does. *)
EvictUnlinksFirst ==
  /\ task = NoTask
  /\ \E gone \in SUBSET {g \in ToSet(manifest.cold) : g \in DOMAIN index /\ Expired(g)} :
       /\ ReloadFiles(Restrict(data, DOMAIN data \ gone), Restrict(index, DOMAIN index \ gone))
       /\ task' = IF gone = {} THEN NoTask
                  ELSE LET cold == SelectSeq(manifest.cold, LAMBDA g : g \notin gone) IN
                       Work("backup", "evict", CHOOSE r \in Refs : TRUE, 0,
                            [manifest EXCEPT !.cold = cold,
                               !.hash = [g \in DOMAIN manifest.hash \ gone |-> manifest.hash[g]]])
  /\ UNCHANGED <<manifest, backup, now, acked, extended, stops>>

(* Cold segments with no lease left go, except those a pin of the shared   *)
(* CAS holds (any subset); nothing to remove ends it.                      *)
EvictBegin ==
  /\ task = NoTask
  /\ ReloadFiles(data, index)
  /\ IF \E g \in ToSet(manifest.cold) : ~Loads(manifest, g)
     THEN task' = NoTask
     ELSE \E gone \in SUBSET {g \in ToSet(manifest.cold) : Expired(g)} :
            task' = IF gone = {} THEN NoTask
                    ELSE LET cold == SelectSeq(manifest.cold, LAMBDA g : g \notin gone) IN
                         Work("backup", "evict", CHOOSE r \in Refs : TRUE, 0,
                              [manifest EXCEPT !.cold = cold,
                                 !.hash = [g \in DOMAIN manifest.hash \ gone |-> manifest.hash[g]]])
  /\ UNCHANGED <<manifest, backup, now, acked, extended, stops>>

(* refresh_manifest_backup *)
RefreshBackup ==
  /\ task.at = "refresh"
  /\ backup' = Named(manifest)
  /\ task' = [task EXCEPT !.at = "unlink"]
  /\ UNCHANGED <<data, index, manifest, now, acked, extended, stops>>

Unlink ==
  /\ task.at = "unlink"
  /\ LET gone == DOMAIN data \ Named(manifest) IN
     IF gone = {} THEN task' = NoTask /\ UNCHANGED <<data, index>>
     ELSE \E g \in gone :
            /\ data' = Restrict(data, DOMAIN data \ {g})
            /\ index' = Restrict(index, DOMAIN index \ {g})
            /\ UNCHANGED task
  /\ UNCHANGED <<manifest, backup, now, acked, extended, stops>>

(* open: files the manifest does not name are removed, the hot segment is  *)
(* recovered if its index does not match.                                  *)
Open ==
  /\ task = NoTask
  /\ ReloadFiles(Restrict(data, DOMAIN data \cap Named(manifest)),
                 Restrict(index, DOMAIN index \cap Named(manifest)))
  /\ UNCHANGED <<manifest, backup, task, now, acked, extended, stops>>

-----------------------------------------------------------------------------
Pass == now < Horizon /\ now' = now + 1
        /\ UNCHANGED <<files, task, acked, extended, stops>>

(* The operation ends where it is: its process dies or a write fails. *)
Stop ==
  /\ task # NoTask
  /\ stops < MaxStops
  /\ extended \/ task.kind = "extend" => StopWithExtension
  /\ stops' = stops + 1
  /\ task' = NoTask
  /\ \/ UNCHANGED data
     \/ task.at = "append" /\ data' = [data EXCEPT ![task.man.hot] = Append(@, Torn)]
  /\ UNCHANGED <<index, manifest, backup, now, acked, extended>>

Next ==
  \/ \E r \in Refs, l \in Leases : PutBegin(r, l)
  \/ SealBegin \/ EvictBegin \/ Open
  \/ SealFile \/ SealIndex \/ AppendRecord \/ WriteIndex
  \/ CopyBackup \/ RenameManifest \/ RefreshBackup \/ Unlink
  \/ Pass \/ Stop

Spec == Init /\ [][Next]_segVars

-----------------------------------------------------------------------------
(* Properties.                                                             *)

TypeOK ==
  /\ DOMAIN data \subseteq Segments /\ DOMAIN index \subseteq Segments
  /\ Named(manifest) \subseteq Segments
  /\ now \in 0..Horizon
  /\ acked \in [Refs -> 0..Horizon]

(* What the manifest vouches for; nobody reads while the lock is held. *)
Committed(r) ==
  LET all == {manifest.hash[g][r] : g \in {h \in Named(manifest) : r \in DOMAIN manifest.hash[h]}}
  IN IF all = {} THEN 0 ELSE CHOOSE l \in all : \A k \in all : k <= l

(* The leases LeasedRefs speaks of: what an expand can read once it has    *)
(* the lock, while a task holds it what the manifest vouches for.  Seen    *)
(* this way every operation takes effect at once, when the manifest is     *)
(* renamed, and stopping it anywhere is invisible.                         *)
LeaseSeen == [r \in Refs |-> IF task = NoTask THEN Held(r) ELSE Committed(r)]

(* A ref whose acknowledged lease has not passed can be expanded: eviction,*)
(* recovery and orphan cleanup do not delete live data.                    *)
LiveDataKept == task = NoTask => \A r \in Refs : acked[r] > now => Expandable(r)
=============================================================================
