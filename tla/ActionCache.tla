------------------------------ MODULE ActionCache ------------------------------
(***************************************************************************)
(* The ActionCache index: one segment file per key, naming the artifact    *)
(* that key produced. Sessions write through after every operation, a      *)
(* server pins the artifact it hands out, and an eviction first marks the  *)
(* entries of an artifact cold and deletes the blob after a grace period.  *)
(* Reads take no lock; a write holds the key's flock from the temporary    *)
(* file to the rename, and a crash leaves its sidecar pair behind.         *)
(***************************************************************************)
EXTENDS Naturals, FiniteSets

CONSTANTS Keys, Artifacts,
          Sessions,    \* writing processes; a session id is a world
          Servers,     \* processes that serve from the cache
          Results,     \* Results[k]: artifacts the operation of key k produces
          GraceSecs,   \* grace_secs
          MaxSeconds,  \* bound on the clock
          MaxAcCrashes \* bound on crashes

VARIABLES acSeg,     \* key -> the segment file, or NoEntry
          acSide,    \* key -> sidecar pairs crashed writers left
          acPut,     \* writer -> the put in flight
          acPin,     \* key -> the serve file exists
          acServe,   \* server -> its serve call
          acPlan,    \* the prepare_blob_eviction call
          acBlobs,   \* artifacts whose bytes are in the store
          acSeconds, \* unix seconds
          acCrashes

acVars == <<acSeg, acSide, acPut, acPin, acServe, acPlan, acBlobs, acSeconds, acCrashes>>

Evictor == "evictor"
Writers == Sessions \cup {Evictor}

-----------------------------------------------------------------------------
(* Entries *)

NoEntry == [there |-> FALSE, whole |-> TRUE, art |-> {}, world |-> {},
            dead |-> FALSE, cold |-> FALSE, since |-> 0]

Entry(art, world) ==
    [NoEntry EXCEPT !.there = TRUE, !.art = {art}, !.world = {world}]

live(e) == e.there /\ ~e.dead

(* A pair counts only when the commit file holds the digest of the temp. *)
AnyPair(p) == TRUE
pair_matches_digest(p) == p.committed

(* Some writer holds the key's flock. *)
Locked(k) == \E w \in Writers : acPut[w].pc \in {"tmp", "committed"} /\ acPut[w].key = k

(* The segment a read of key k finds: a committed pair is promoted when    *)
(* there is no segment and no writer at work.                              *)
Promotable(k) == {p \in acSide[k] : pair_matches_digest(p)}

MayRecover(k) == ~acSeg[k].there /\ ~Locked(k)

(* load_raw: the entry e read, and what recovery did to the files. *)
load_raw(k, e) ==
    IF MayRecover(k)
    THEN /\ acSide' = [acSide EXCEPT ![k] = {}]
         /\ IF Promotable(k) = {}
            THEN e = NoEntry /\ UNCHANGED acSeg
            ELSE /\ e \in {p.entry : p \in Promotable(k)}
                 /\ acSeg' = [acSeg EXCEPT ![k] = e]
    ELSE e = acSeg[k] /\ UNCHANGED <<acSeg, acSide>>

Readable(k) == {acSeg[k]} \cup {p.entry : p \in acSide[k]} \cup {NoEntry}

IdlePut == [pc |-> "idle", key |-> CHOOSE k \in Keys : TRUE, entry |-> NoEntry]
IdleServe == [pc |-> "idle", key |-> CHOOSE k \in Keys : TRUE, art |-> {}]
IdlePlan == [pc |-> "idle", art |-> {}, todo |-> {}, ok |-> TRUE, now |-> 0]

Init ==
    /\ acSeg = [k \in Keys |-> NoEntry]
    /\ acSide = [k \in Keys |-> {}]
    /\ acPut = [w \in Writers |-> IdlePut]
    /\ acPin = [k \in Keys |-> FALSE]
    /\ acServe = [s \in Servers |-> IdleServe]
    /\ acPlan = IdlePlan
    /\ acBlobs = {}
    /\ acSeconds = 0
    /\ acCrashes = 0

-----------------------------------------------------------------------------
(* put *)

Begins(w, k, e) == acPut' = [acPut EXCEPT ![w] = [pc |-> "asked", key |-> k, entry |-> e]]

(* observe_with_mode: the operation ran and stored its result; now its     *)
(* write-through. Classification only reads.                               *)
Observe(s, k, art) ==
    /\ acPut[s].pc = "idle"
    /\ art \in Results[k]
    /\ acBlobs' = acBlobs \cup {art}
    /\ Begins(s, k, Entry(art, s))
    /\ UNCHANGED <<acSeg, acSide, acPin, acServe, acPlan, acSeconds, acCrashes>>

(* tombstone_at; complete_refetch, once the bytes are back: read, change,  *)
(* write, with no lock held across.                                        *)
Change(s, k) ==
    /\ acPut[s].pc = "idle"
    /\ \E e \in Readable(k) :
          /\ load_raw(k, e)
          /\ live(e)
          /\ \/ /\ Begins(s, k, [e EXCEPT !.dead = TRUE, !.since = acSeconds])
                /\ UNCHANGED acBlobs
             \/ /\ e.cold
                /\ acBlobs' = acBlobs \cup e.art
                /\ Begins(s, k, [e EXCEPT !.cold = FALSE, !.since = 0])
    /\ UNCHANGED <<acPin, acServe, acPlan, acSeconds, acCrashes>>

(* The tenancy check: another world's live entry stays. *)
PutChecked(w) ==
    /\ acPut[w].pc = "asked"
    /\ LET k == acPut[w].key
       IN  \E e \in Readable(k) :
              /\ load_raw(k, e)
              /\ acPut' = IF live(e) /\ e.world # acPut[w].entry.world
                          THEN [acPut EXCEPT ![w] = IdlePut]
                          ELSE [acPut EXCEPT ![w].pc = "checked"]
    /\ UNCHANGED <<acPin, acServe, acPlan, acBlobs, acSeconds, acCrashes>>

(* write_actioncache_segment: flock, temp file, ... *)
WriteTmp(w) ==
    /\ acPut[w].pc = "checked"
    /\ ~Locked(acPut[w].key)
    /\ acPut' = [acPut EXCEPT ![w].pc = "tmp"]
    /\ UNCHANGED <<acSeg, acSide, acPin, acServe, acPlan, acBlobs, acSeconds, acCrashes>>

(* ... commit marker, ... *)
WriteCommit(w) ==
    /\ acPut[w].pc = "tmp"
    /\ acPut' = [acPut EXCEPT ![w].pc = "committed"]
    /\ UNCHANGED <<acSeg, acSide, acPin, acServe, acPlan, acBlobs, acSeconds, acCrashes>>

(* ... rename, marker removed, flock released. *)
Rename(w) ==
    /\ acPut[w].pc = "committed"
    /\ acSeg' = [acSeg EXCEPT ![acPut[w].key] = acPut[w].entry]
    /\ acPut' = [acPut EXCEPT ![w] = IdlePut]
    /\ UNCHANGED <<acSide, acPin, acServe, acPlan, acBlobs, acSeconds, acCrashes>>

(* A step of the write fails: the pair is removed. *)
WriteFails(w) ==
    /\ acPut[w].pc \in {"checked", "tmp", "committed"}
    /\ acPut' = [acPut EXCEPT ![w] = IdlePut]
    /\ acPlan' = IF w = Evictor THEN IdlePlan ELSE acPlan
    /\ UNCHANGED <<acSeg, acSide, acPin, acServe, acBlobs, acSeconds, acCrashes>>

(* The writer dies; a temp file without its marker may be cut short. *)
WriterCrash(w) ==
    /\ acCrashes < MaxAcCrashes
    /\ acPut[w].pc \in {"tmp", "committed"}
    /\ LET done == acPut[w].pc = "committed"
       IN  acSide' = [acSide EXCEPT ![acPut[w].key] =
              @ \cup {[entry |-> [acPut[w].entry EXCEPT !.whole = done], committed |-> done]}]
    /\ acPut' = [acPut EXCEPT ![w] = IdlePut]
    /\ acPlan' = IF w = Evictor THEN IdlePlan ELSE acPlan
    /\ acCrashes' = acCrashes + 1
    /\ UNCHANGED <<acSeg, acPin, acServe, acBlobs, acSeconds>>

-----------------------------------------------------------------------------
(* serve *)

ServeGet(s, k) ==
    /\ acServe[s].pc = "idle"
    /\ \E e \in Readable(k) :
          /\ load_raw(k, e)
          /\ live(e) /\ ~e.cold
    /\ acServe' = [acServe EXCEPT ![s] = [pc |-> "got", key |-> k, art |-> {}]]
    /\ UNCHANGED <<acPut, acPin, acPlan, acBlobs, acSeconds, acCrashes>>

ServePin(s) ==
    /\ acServe[s].pc = "got"
    /\ acPin' = [acPin EXCEPT ![acServe[s].key] = TRUE]
    /\ acServe' = [acServe EXCEPT ![s].pc = "pinned"]
    /\ UNCHANGED <<acSeg, acSide, acPut, acPlan, acBlobs, acSeconds, acCrashes>>

(* The entry is handed out without the second look. *)
ServeUnchecked(s) ==
    /\ acServe[s].pc = "pinned"
    /\ acServe' = [acServe EXCEPT ![s].pc = "held", ![s].art = acSeg[acServe[s].key].art]
    /\ UNCHANGED <<acSeg, acSide, acPut, acPin, acPlan, acBlobs, acSeconds, acCrashes>>

(* Recheck under the pin: cold or gone by now drops the pin again. *)
ServeRecheck(s) ==
    /\ acServe[s].pc = "pinned"
    /\ LET k == acServe[s].key
       IN  \E e \in Readable(k) :
              /\ load_raw(k, e)
              /\ IF live(e) /\ ~e.cold
                 THEN /\ acServe' = [acServe EXCEPT ![s].pc = "held", ![s].art = e.art]
                      /\ UNCHANGED acPin
                 ELSE /\ acServe' = [acServe EXCEPT ![s] = IdleServe]
                      /\ acPin' = [acPin EXCEPT ![k] = FALSE]
    /\ UNCHANGED <<acPut, acPlan, acBlobs, acSeconds, acCrashes>>

(* Drop of the guard unlinks the serve file. *)
ServeDrop(s) ==
    /\ acServe[s].pc = "held"
    /\ acPin' = [acPin EXCEPT ![acServe[s].key] = FALSE]
    /\ acServe' = [acServe EXCEPT ![s] = IdleServe]
    /\ UNCHANGED <<acSeg, acSide, acPut, acPlan, acBlobs, acSeconds, acCrashes>>

(* A server that dies leaves its serve file. *)
ServerCrash(s) ==
    /\ acCrashes < MaxAcCrashes
    /\ acServe[s].pc \in {"pinned", "held"}
    /\ acServe' = [acServe EXCEPT ![s] = IdleServe]
    /\ acCrashes' = acCrashes + 1
    /\ UNCHANGED <<acSeg, acSide, acPut, acPin, acPlan, acBlobs, acSeconds>>

-----------------------------------------------------------------------------
(* prepare_blob_eviction *)

retained_floor(demanded) == (demanded * 99) \div 100

guard_eviction(resident, demanded, weight) ==
    demanded # 0 /\ (IF weight > resident THEN 0 ELSE resident - weight) >= retained_floor(demanded)

keys_for_artifact(art, tombstones) ==
    {k \in Keys : acSeg[k].there /\ acSeg[k].art = art /\ (tombstones \/ ~acSeg[k].dead)}

EvictBegin(art, resident) ==
    /\ acPlan.pc = "idle"
    /\ guard_eviction(resident, 100, 1)
    /\ acPlan' = [pc |-> "mark", art |-> {art}, todo |-> keys_for_artifact({art}, FALSE),
                  ok |-> TRUE, now |-> acSeconds]
    /\ UNCHANGED <<acSeg, acSide, acPut, acPin, acServe, acBlobs, acSeconds, acCrashes>>

(* mark_l3_loss of one key: its cold time is kept when it already is cold. *)
MarkCold(k) ==
    /\ acPlan.pc = "mark" /\ k \in acPlan.todo /\ acPut[Evictor].pc = "idle"
    /\ \E e \in Readable(k) :
          /\ load_raw(k, e)
          /\ IF live(e) /\ ~e.cold
             THEN Begins(Evictor, k, [e EXCEPT !.cold = TRUE, !.since = acPlan.now])
             ELSE UNCHANGED acPut
    /\ acPlan' = [acPlan EXCEPT !.todo = @ \ {k}]
    /\ UNCHANGED <<acPin, acServe, acBlobs, acSeconds, acCrashes>>

CheckPins ==
    /\ acPlan.pc = "mark" /\ acPlan.todo = {} /\ acPut[Evictor].pc = "idle"
    /\ acPlan' = [acPlan EXCEPT !.pc = "grace",
                     !.ok = \A k \in keys_for_artifact(acPlan.art, TRUE) : ~acPin[k]]
    /\ UNCHANGED <<acSeg, acSide, acPut, acPin, acServe, acBlobs, acSeconds, acCrashes>>

Released(e) == (e.dead \/ e.cold) /\ acPlan.now - e.since >= GraceSecs

(* The last look at the entries, and the caller's delete. *)
DeleteBlob ==
    /\ acPlan.pc = "grace"
    /\ acBlobs' = IF acPlan.ok
                     /\ \A k \in keys_for_artifact(acPlan.art, TRUE) : Released(acSeg[k])
                  THEN acBlobs \ acPlan.art ELSE acBlobs
    /\ acPlan' = IdlePlan
    /\ UNCHANGED <<acSeg, acSide, acPut, acPin, acServe, acSeconds, acCrashes>>

Tick ==
    /\ acSeconds < MaxSeconds
    /\ acSeconds' = acSeconds + 1
    /\ UNCHANGED <<acSeg, acSide, acPut, acPin, acServe, acPlan, acBlobs, acCrashes>>

Next ==
    \/ \E s \in Sessions, k \in Keys :
          Change(s, k) \/ \E art \in Artifacts : Observe(s, k, art)
    \/ \E w \in Writers : \/ PutChecked(w) \/ WriteTmp(w) \/ WriteCommit(w) \/ Rename(w)
                          \/ WriteFails(w) \/ WriterCrash(w)
    \/ \E s \in Servers : \/ \E k \in Keys : ServeGet(s, k)
                          \/ ServePin(s) \/ ServeRecheck(s) \/ ServeDrop(s) \/ ServerCrash(s)
    \/ \E art \in Artifacts, resident \in {99, 100} : EvictBegin(art, resident)
    \/ \E k \in Keys : MarkCold(k)
    \/ CheckPins \/ DeleteBlob \/ Tick

Spec == Init /\ [][Next]_acVars

Entries == [there : BOOLEAN, whole : BOOLEAN, art : SUBSET Artifacts,
            world : SUBSET Sessions, dead : BOOLEAN, cold : BOOLEAN, since : 0..MaxSeconds]

TypeOK ==
    /\ acSeg \in [Keys -> Entries]
    /\ \A k \in Keys : acSide[k] \subseteq [entry : Entries, committed : BOOLEAN]
    /\ acPut \in [Writers -> [pc : {"idle", "asked", "checked", "tmp", "committed"},
                              key : Keys, entry : Entries]]
    /\ acPin \in [Keys -> BOOLEAN]
    /\ acServe \in [Servers -> [pc : {"idle", "got", "pinned", "held"}, key : Keys,
                                art : SUBSET Artifacts]]
    /\ acPlan \in [pc : {"idle", "mark", "grace"}, art : SUBSET Artifacts,
                   todo : SUBSET Keys, ok : BOOLEAN, now : 0..MaxSeconds]
    /\ acBlobs \subseteq Artifacts

-----------------------------------------------------------------------------
(* Whatever a crashed writer left, a segment that is read back holds an    *)
(* entry some put wrote to its end, never a cut-short temporary file.      *)
SegmentsWhole == \A k \in Keys : acSeg[k].whole

(* With one session writing and one serve of a key at a time, an eviction  *)
(* never deletes an artifact a serve has handed out, however the pin, the  *)
(* recheck, the cold marks and the two passes of the plan interleave.      *)
EvictionSparesServed ==
    \A s \in Servers :
        (acServe[s].pc = "held" /\ acServe[s].art \subseteq acBlobs)
            => acServe[s].art \subseteq acBlobs'

-----------------------------------------------------------------------------
(* Why segments are whole: so is what a writer holds, and a pair that a    *)
(* crash left is cut short only when its commit file is missing.           *)
WholeEntry(e) == "whole" \in DOMAIN e /\ e.whole = TRUE

PutsWhole ==
    /\ DOMAIN acPut = Writers
    /\ \A w \in Writers :
          /\ acPut[w] = [pc |-> acPut[w].pc, key |-> acPut[w].key, entry |-> acPut[w].entry]
          /\ WholeEntry(acPut[w].entry)
          /\ acPut[w].pc # "idle" => acPut[w].key \in Keys

FilesWhole ==
    /\ DOMAIN acSeg = Keys /\ DOMAIN acSide = Keys
    /\ \A k \in Keys : /\ WholeEntry(acSeg[k])
                       /\ \A p \in acSide[k] : p.committed => WholeEntry(p.entry)

(* A serve under way looks at one key. *)
ServesKeyed ==
    /\ DOMAIN acServe = Servers
    /\ \A s \in Servers :
          /\ {"pc", "key"} \subseteq DOMAIN acServe[s]
          /\ acServe[s].pc # "idle" => acServe[s].key \in Keys

SegmentInv == PutsWhole /\ FilesWhole /\ ServesKeyed
=============================================================================
