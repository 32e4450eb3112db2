------------------------------ MODULE CasLease -----------------------------
(***************************************************************************)
(* Leased publication into a CAS shared by several stores                  *)
(* (recovery/src/shared_cas.rs, and publish_pending_cas of                 *)
(* recovery/src/lib.rs): bodies leave a store's snapshot only after the    *)
(* object and a lease on it are in the CAS, and the lease goes only after  *)
(* the snapshot naming the object is on disk.  Maintenance prunes old      *)
(* lease records and asks the hub to collect.  Times are half days from an *)
(* origin; records carry them as UTC stamps, compared as text.             *)
(***************************************************************************)
EXTENDS Integers, Sequences, FiniteSets

CONSTANTS Store, Hash,
          Bodies,       \* which store stages which bodies
          Large,        \* hashes at least BLOB_EXTERNALIZE_MIN_BYTES long
          Origins,      \* days since 1970 at which a behaviour may start
          LeaseLife,    \* half days a lease runs
          GraceAsked,   \* grace the environment asks for
          MinGrace, MaxGrace,
          MinAge,       \* age below which the hub collects nothing
          LastTick      \* bound on the clock

VARIABLES origin, now,
          objects,      \* birth of each object of the CAS
          leases,       \* stamp of the lease record of each hash
          pins,         \* pin record of each hash
          memory, root, \* entry of each hash in a store's memory and snapshot
          pending,      \* pending_cas_hashes of each store
          job,          \* the publication a store is in the middle of
          guaranteed,   \* history: until when a store's own lease covers a hash
          uncovered     \* history: hashes whose lease ended before the snapshot named them

leaseVars == <<origin, now, objects, leases, pins, memory, root, pending, job, guaranteed, uncovered>>

Never == -1
NoRecord == <<>>
Garbled == <<0>>
Clamp(n, lo, hi) == IF n < lo THEN lo ELSE IF n > hi THEN hi ELSE n
clamp_lease_seconds(n) == Clamp(n, MinGrace, LastTick)
clamp_grace_seconds(n) == Clamp(n, MinGrace, MaxGrace)

(* Mutant: the year is not carried over into January and February. *)
YearNotCarried(days) ==
  LET z == days + 719468
      era == z \div 146097
      doe == z - era * 146097
      yoe == (doe - doe \div 1460 + doe \div 36524 - doe \div 146096) \div 365
      doy == doe - (365 * yoe + yoe \div 4 - yoe \div 100)
      mp == (5 * doy + 2) \div 153
  IN <<yoe + era * 400, IF mp < 10 THEN mp + 3 ELSE mp - 9, doy - (153 * mp + 2) \div 5 + 1>>

(* The civil date of a day number, as format_system_time computes it: days  *)
(* counted in years that begin in March.                                    *)
CivilDate(days) ==
  LET z == days + 719468
      era == z \div 146097
      doe == z - era * 146097
      yoe == (doe - doe \div 1460 + doe \div 36524 - doe \div 146096) \div 365
      doy == doe - (365 * yoe + yoe \div 4 - yoe \div 100)
      mp == (5 * doy + 2) \div 153
      month == IF mp < 10 THEN mp + 3 ELSE mp - 9
  IN <<yoe + era * 400 + (IF month <= 2 THEN 1 ELSE 0), month, doy - (153 * mp + 2) \div 5 + 1>>

format_system_time(t) == CivilDate(origin + t \div 2) \o <<12 * (t % 2), 0, 0>>

(* canonical_utc_fields: six fields naming a day the calendar has.          *)
DaysIn(year, month) ==
  CASE month \in {4, 6, 9, 11} -> 30
    [] month = 2 -> IF year % 4 = 0 /\ (year % 100 # 0 \/ year % 400 = 0) THEN 29 ELSE 28
    [] OTHER -> 31
canonical_utc_fields(stamp) ==
  /\ Len(stamp) = 6
  /\ stamp[2] \in 1..12 /\ stamp[3] \in 1..DaysIn(stamp[1], stamp[2]) /\ stamp[4] < 24

AtOrBefore(a, b) == a = b \/ \E i \in 1..6 : a[i] < b[i] /\ \A j \in 1..(i - 1) : a[j] = b[j]

(* Anything but two canonical stamps counts as live. *)
canonical_utc_expired(expires, at) ==
  canonical_utc_fields(expires) /\ canonical_utc_fields(at) /\ AtOrBefore(expires, at)

Absent == [h \in Hash |-> "none"]

TypeOK ==
  /\ now \in 0..LastTick
  /\ objects \in [Hash -> 0..LastTick \cup {Never}]
  /\ memory \in [Store -> [Hash -> {"none", "inline", "marker"}]]
  /\ root \in [Store -> [Hash -> {"none", "inline", "marker"}]]
  /\ pending \in [Store -> SUBSET Hash]

Init ==
  /\ origin \in Origins /\ now = 0
  /\ objects = [h \in Hash |-> Never]
  /\ leases = [h \in Hash |-> NoRecord]
  /\ pins \in {[h \in Hash |-> NoRecord], [h \in Hash |-> format_system_time(1)]}
  /\ memory = [s \in Store |-> Absent] /\ root = [s \in Store |-> Absent]
  /\ pending = [s \in Store |-> {}]
  /\ job = [s \in Store |-> [at |-> "idle"]]
  /\ guaranteed = [s \in Store |-> [h \in Hash |-> Never]]
  /\ uncovered = [s \in Store |-> {}]

-----------------------------------------------------------------------------
(* Staging a body queues its hash and journals the body inline: the store's *)
(* durable record holds it before any object exists.                        *)
Stage(s, h) ==
  /\ job[s].at = "idle" /\ <<s, h>> \in Bodies /\ memory[s][h] = "none"
  /\ memory' = [memory EXCEPT ![s][h] = "inline"]
  /\ root' = [root EXCEPT ![s][h] = "inline"]
  /\ pending' = [pending EXCEPT ![s] = @ \cup {h}]
  /\ UNCHANGED <<origin, now, objects, leases, pins, job, guaranteed, uncovered>>

(* A store forgets a hash and says so in its snapshot.                      *)
Forget(s, h) ==
  /\ job[s].at = "idle" /\ memory[s][h] # "none"
  /\ memory' = [memory EXCEPT ![s][h] = "none"]
  /\ root' = [root EXCEPT ![s][h] = "none"]
  /\ pending' = [pending EXCEPT ![s] = @ \ {h}]
  /\ guaranteed' = [guaranteed EXCEPT ![s][h] = Never]
  /\ UNCHANGED <<origin, now, objects, leases, pins, job, uncovered>>

(* publish_pending_cas_locked takes the whole queue.  The persist path asks *)
(* for the large bodies only (externalize_large_pending_cas_locked) and     *)
(* leaves the others queued.                                                *)
Begin(s, todo) ==
  /\ job[s].at = "idle" /\ todo # {}
  /\ job' = [job EXCEPT ![s] = [at |-> "publish", todo |-> todo, leased |-> {}, shrunk |-> FALSE]]
  /\ pending' = [pending EXCEPT ![s] = @ \ todo]
  /\ UNCHANGED <<origin, now, objects, leases, pins, memory, root, guaranteed, uncovered>>

publish_pending_cas(s) == Begin(s, pending[s])
externalize_large_pending_cas_locked(s) == Begin(s, pending[s] \cap Large)

(* publish_leased: the hub writes object and lease in one transaction.  The *)
(* record is named by the CAS root and the hash, so a second store          *)
(* publishing the same bytes renews the same record.                        *)
publish_leased(s, h) ==
  /\ objects' = [objects EXCEPT ![h] = IF @ = Never THEN now ELSE @]
  /\ leases' = [leases EXCEPT ![h] = format_system_time(now + clamp_lease_seconds(LeaseLife))]
  /\ guaranteed' = [guaranteed EXCEPT ![s][h] = now + clamp_lease_seconds(LeaseLife)]
  /\ uncovered' = [uncovered EXCEPT ![s] = @ \ {h}]

(* One hash of the queue: published and, when large, replaced by a marker;  *)
(* a failed publication goes back to the queue; a hash that is no longer    *)
(* inline is passed over.                                                   *)
PublishOne(s, h) ==
  /\ job[s].at = "publish" /\ h \in job[s].todo
  /\ \/ /\ memory[s][h] = "inline"
        /\ publish_leased(s, h)
        /\ memory' = [memory EXCEPT ![s][h] = IF h \in Large THEN "marker" ELSE @]
        /\ job' = [job EXCEPT ![s] = [@ EXCEPT !.todo = @ \ {h}, !.leased = @ \cup {h},
                                               !.shrunk = @ \/ h \in Large]]
        /\ UNCHANGED pending
     \/ /\ job' = [job EXCEPT ![s].todo = @ \ {h}]
        /\ pending' = IF memory[s][h] = "inline" THEN [pending EXCEPT ![s] = @ \cup {h}] ELSE pending
        /\ UNCHANGED <<objects, leases, guaranteed, uncovered, memory>>
  /\ UNCHANGED <<origin, now, pins, root>>

(* Mutant: the leases go first. *)
LeasesFirst(s) ==
  /\ job[s].at = "publish" /\ job[s].todo = {}
  /\ leases' = [h \in Hash |-> IF h \in job[s].leased THEN NoRecord ELSE leases[h]]
  /\ job' = [job EXCEPT ![s].at = "idle"]
  /\ UNCHANGED <<origin, now, objects, pins, memory, root, pending, guaranteed, uncovered>>

(* publish_snapshot rewrites the root when a body became a marker; if it    *)
(* fails the leases stay.                                                   *)
Commit(s) ==
  /\ job[s].at = "publish" /\ job[s].todo = {}
  /\ \/ /\ root' = IF job[s].shrunk THEN [root EXCEPT ![s] = memory[s]] ELSE root
        /\ job' = [job EXCEPT ![s].at = "release"]
     \/ /\ job[s].shrunk
        /\ job' = [job EXCEPT ![s] = [at |-> "idle"]]
        /\ UNCHANGED root
  /\ UNCHANGED <<origin, now, objects, leases, pins, memory, pending, guaranteed, uncovered>>

(* release_lease unlinks the record by name, whoever wrote it last.         *)
release_lease(s, h) ==
  /\ job[s].at = "release" /\ h \in job[s].leased
  /\ leases' = [leases EXCEPT ![h] = NoRecord]
  /\ uncovered' = [u \in Store |-> IF u # s /\ guaranteed[u][h] # Never /\ root[u][h] # "marker"
                               THEN uncovered[u] \cup {h} ELSE uncovered[u]]
  /\ job' = [job EXCEPT ![s].leased = @ \ {h}]
  /\ UNCHANGED <<origin, now, objects, pins, memory, root, pending, guaranteed>>

Finish(s) ==
  /\ job[s].at = "release" /\ job[s].leased = {}
  /\ job' = [job EXCEPT ![s] = [at |-> "idle"]]
  /\ UNCHANGED <<origin, now, objects, leases, pins, memory, root, pending, guaranteed, uncovered>>

(* publish_pending_cas_background empties the queue and publishes copies of *)
(* the bodies on a thread, without a lease and without touching an entry.   *)
publish_pending_cas_background(s) ==
  /\ job[s].at = "idle" /\ pending[s] # {}
  /\ pending' = [pending EXCEPT ![s] = {}]
  /\ objects' = [h \in Hash |-> IF h \in pending[s] /\ memory[s][h] = "inline" /\ objects[h] = Never
                                THEN now ELSE objects[h]]
  /\ UNCHANGED <<origin, now, leases, pins, memory, root, job, guaranteed, uncovered>>

-----------------------------------------------------------------------------
(* is_pinned: an unreadable record, or one for the hash that has not        *)
(* expired; a pin set that cannot be read pins everything.                  *)
is_pinned(h) ==
  \/ \E g \in Hash : pins[g] = Garbled
  \/ pins[h] # NoRecord /\ ~canonical_utc_expired(pins[h], format_system_time(now))

Grace == clamp_grace_seconds(GraceAsked)

(* Mutant: records within the grace go too, and unreadable ones. *)
PruneAll(kept) == [h \in Hash |-> NoRecord]

(* prune_stale_lease_records: records whose expiry plus grace has passed;   *)
(* records that cannot be read stay.                                        *)
prune_stale_lease_records(kept) ==
  [h \in Hash |-> IF now >= Grace /\ canonical_utc_expired(kept[h], format_system_time(now - Grace))
                  THEN NoRecord ELSE kept[h]]
(* run_gc, external: an old enough object goes when no lease record (within *)
(* its grace), pin or snapshot protects it.                                 *)
Protected(h, kept) ==
  \/ kept[h] # NoRecord
       /\ ~(now >= Grace /\ canonical_utc_expired(kept[h], format_system_time(now - Grace)))
  \/ is_pinned(h)
  \/ \E s \in Store : root[s][h] = "marker"

gc_maintenance ==
  LET kept == prune_stale_lease_records(leases)
  IN /\ leases' = kept
     /\ objects' = [h \in Hash |-> IF objects[h] # Never /\ now - objects[h] >= MinAge
                                       /\ ~Protected(h, kept) THEN Never ELSE objects[h]]
     /\ UNCHANGED <<origin, now, pins, memory, root, pending, job, guaranteed, uncovered>>

(* A record is damaged on disk. *)
Damage(h) ==
  /\ \/ leases[h] # NoRecord /\ leases' = [leases EXCEPT ![h] = Garbled] /\ UNCHANGED pins
     \/ pins[h] # NoRecord /\ pins' = [pins EXCEPT ![h] = Garbled] /\ UNCHANGED leases
  /\ UNCHANGED <<origin, now, objects, memory, root, pending, job, guaranteed, uncovered>>

(* Time passes; a lease and its grace may run out before the snapshot that  *)
(* names the object is written, in a stalled or failed publication.         *)
Tick ==
  /\ now < LastTick /\ now' = now + 1
  /\ uncovered' = [s \in Store |-> uncovered[s] \cup
        {h \in Hash : guaranteed[s][h] # Never /\ root[s][h] # "marker"
                        /\ now' >= guaranteed[s][h] + Grace}]
  /\ UNCHANGED <<origin, objects, leases, pins, memory, root, pending, job, guaranteed>>

Next ==
  \/ \E s \in Store :
       \/ \E h \in Hash : Stage(s, h) \/ Forget(s, h) \/ PublishOne(s, h) \/ release_lease(s, h)
       \/ publish_pending_cas(s) \/ externalize_large_pending_cas_locked(s)
       \/ publish_pending_cas_background(s) \/ Commit(s) \/ Finish(s)
  \/ \E h \in Hash : Damage(h)
  \/ gc_maintenance \/ Tick

Spec == Init /\ [][Next]_leaseVars

-----------------------------------------------------------------------------
(* A body that a store has replaced by a marker is in the CAS, before and   *)
(* after the snapshot naming it is written, unless the lease ended in       *)
(* between: it ran out, or another store of the same CAS removed the record *)
(* both share.                                                              *)
MarkedObjectsKept == \A s \in Store, h \in Hash :
  memory[s][h] = "marker" /\ h \notin uncovered[s] => objects[h] # Never

(* Stamps order as the times they stand for, and every one is canonical.    *)
StampsOrdered ==
  /\ canonical_utc_fields(format_system_time(now))
  /\ \A t \in 0..LastTick : (t <= now) <=> AtOrBefore(format_system_time(t), format_system_time(now))
=============================================================================
