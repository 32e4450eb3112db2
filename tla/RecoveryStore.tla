---------------------------- MODULE RecoveryStore ----------------------------
(***************************************************************************)
(* The recovery cache of crates/tokenzero-recovery/src/lib.rs: several     *)
(* processes, each with a RecoveryStore, share one snapshot file, one      *)
(* session journal (WAL) and one ordinal-generation sidecar.  Writers      *)
(* serialise on the advisory PersistLock; constructing a store takes no    *)
(* lock.  A store trusts its memory and skips the reload when the file     *)
(* identities it remembers still match the disk.                           *)
(*                                                                         *)
(* Steps are the points another process or a crash can observe: reading    *)
(* the snapshot, reading the journal, capturing identities, the locked     *)
(* merge, the journal append, the snapshot rename, the journal retirement. *)
(*                                                                         *)
(* The value a cache holds (RecoveryState) comes first, with the pure      *)
(* functions the store applies to it.  The four maps of the code (blobs,   *)
(* files, units, search_hits) are keyed by content-derived refs, so a map  *)
(* entry is the presence of its ref and Kind says which map it lives in.   *)
(* An alias stands for any key of the alias table (legacy prefix, session- *)
(* visible form, ordinal).  The insertion log "order" decides only WHICH   *)
(* refs an eviction drops; here an eviction may drop any victims that      *)
(* bring the state under its limits.                                       *)
(***************************************************************************)
EXTENDS Naturals, FiniteSets, FiniteSetsExt, Sequences

CONSTANTS
  Ref,        \* content-addressed refs
  Alias,      \* keys of the alias table
  Kind,       \* Ref -> the map a ref lives in ("blob", "file", ...)
  MaxOf,      \* kind -> entries allowed (max_blobs, max_files, ...)
  Size,       \* Ref -> bytes accounted to a ref
  MaxBytes    \* max_bytes of the configuration

CONSTANTS
  Proc,
  Payloads,     \* refs whose payloads callers store (aliases may name others)
  LegacyAlias,  \* the truncated-hash alias register_blob mints for a blob;
                \* a ref that is its own legacy form is not in the domain
  Large,        \* refs of at least BLOB_EXTERNALIZE_MIN_BYTES
  Counts,       \* sizes of ordinal ranges callers ask for
  MaxOrdinal,   \* largest value of the ordinal counter (u64::MAX in the code)
  MaxGen,       \* largest ordinal generation (u64::MAX in the code)
  MaxGrants,    \* bound: ordinal ranges granted in one behaviour
  LegacyNext,   \* next ordinal of a snapshot written before the sidecar existed,
                \* 0 when the cache is new
  QuietOpen,    \* no write lands between a store's load and its identity capture
  Removable,    \* blobs that prune and migration may delete
  Faults,       \* what may go wrong: "crash" of a process, "io" errors while
                \* publishing, and to the files: "lose" all of the cache, "orphan"
                \* the journal (snapshot lost alone), "corrupt" the snapshot
  MemoHits,     \* repeated payloads may be admitted from the payload memo
  CasRetries    \* publish_pending_cas may be called outside a persist

ASSUME StoreConstants ==
  /\ LegacyAlias \in UNION {[D -> Alias] : D \in SUBSET Ref}
  /\ Payloads \subseteq Ref /\ Large \subseteq Payloads
  /\ Counts \subseteq Nat \ {0}
  /\ MaxOrdinal \in Nat /\ MaxGen \in Nat /\ MaxGrants \in Nat
  /\ LegacyNext \in Nat
  /\ Removable \subseteq Ref
  /\ Faults \subseteq {"crash", "io", "lose", "orphan", "corrupt"}
  /\ QuietOpen \in BOOLEAN /\ MemoHits \in BOOLEAN /\ CasRetries \in BOOLEAN

-----------------------------------------------------------------------------
(* The value of a cache. *)

Kinds == {Kind[r] : r \in Ref}

ASSUME StateConstants ==
  /\ IsFiniteSet(Ref)
  /\ MaxOf \in [Kinds -> Nat]
  /\ Size \in [Ref -> Nat]
  /\ MaxBytes \in Nat

NoAliases == [a \in {} |-> a]

AliasMap == UNION {[D -> Ref] : D \in SUBSET Alias}

State == [refs: SUBSET Ref, aliases: AliasMap, ambig: SUBSET Alias,
          gen: Nat \ {0}, next: Nat \ {0}]

(* RecoveryState::empty: ordinal generation and next ordinal start at 1.   *)
Empty == [refs |-> {}, aliases |-> NoAliases, ambig |-> {}, gen |-> 1, next |-> 1]

-----------------------------------------------------------------------------
(* Merging: the on-disk state absorbs a store's in-memory state.           *)

(* Mutant: everything the store remembers enters the merged map. *)
MergeEverything(existing, current, session) == existing \cup current

(* merge_map_entries: an entry of the store enters the merged map when the *)
(* store wrote it this session or the disk already has it.                 *)
MergeEntries(existing, current, session) ==
  existing \cup {r \in current : r \in session \/ r \in existing}

(* Aliases have no session identity and merge wholesale.  The first        *)
(* mapping stays; a conflicting target is recorded in ambig instead.       *)
MergeAliases(existing, current) ==
  [a \in DOMAIN existing \cup DOMAIN current |->
     IF a \in DOMAIN existing THEN existing[a] ELSE current[a]]

Conflicts(existing, current) ==
  {a \in DOMAIN existing \cap DOMAIN current : existing[a] # current[a]}

(* The higher generation wins with its own counter; within one generation  *)
(* the counter never goes back.                                            *)
MergedGen(existing, current) ==
  IF current.gen > existing.gen THEN current.gen ELSE existing.gen

MergedNext(existing, current) ==
  IF current.gen > existing.gen \/ (current.gen = existing.gen /\ current.next > existing.next)
  THEN current.next ELSE existing.next

merge_states(existing, current, session) ==
  [refs    |-> MergeEntries(existing.refs, current.refs, session),
   aliases |-> MergeAliases(existing.aliases, current.aliases),
   ambig   |-> existing.ambig \cup current.ambig
                 \cup Conflicts(existing.aliases, current.aliases),
   gen     |-> MergedGen(existing, current),
   next    |-> MergedNext(existing, current)]

-----------------------------------------------------------------------------
(* The session journal.                                                    *)

(* session_delta: the record carries the session's entries and the whole   *)
(* alias table.  It starts from RecoveryState::empty, so its ordinal       *)
(* fields are the initial ones, whatever the store's are.                  *)
session_delta(state, session) ==
  [refs |-> state.refs \cap session, aliases |-> state.aliases, ambig |-> state.ambig,
   gen |-> Empty.gen, next |-> Empty.next]

(* One step of apply_session_wal.  The record's refs are its session; the  *)
(* deletion lists of a record are empty, because a store with pending      *)
(* deletions never appends.                                                *)
ReplayRecord(state, record) == merge_states(state, record, record.refs)

(* A journal is kept as the one record its records compose to: replaying   *)
(* the composition is replaying the records in order (theorem              *)
(* JournalComposition of RecoveryStoreProofs).                             *)
ComposeRecords(first, second) == ReplayRecord(first, second)

-----------------------------------------------------------------------------
(* Deletion and eviction.                                                  *)

apply_deletions(state, blobs, aliases) ==
  [refs    |-> state.refs \ blobs,
   aliases |-> [a \in DOMAIN state.aliases \ aliases |-> state.aliases[a]],
   ambig   |-> state.ambig \ aliases,
   gen     |-> state.gen,
   next    |-> state.next]

(* The same state with other refs, or with another ordinal counter. *)
WithRefs(state, refs) ==
  [refs |-> refs, aliases |-> state.aliases, ambig |-> state.ambig,
   gen |-> state.gen, next |-> state.next]

WithOrdinals(state, gen, next) ==
  [refs |-> state.refs, aliases |-> state.aliases, ambig |-> state.ambig,
   gen |-> gen, next |-> next]

(* RecoveryStore::approx_bytes *)
approx_bytes(refs) == MapThenSumSet(LAMBDA r : Size[r], refs)

OfKind(refs, k) == {r \in refs : Kind[r] = k}

(* evict_prefix: a map above its limit loses exactly its excess. *)
WithinLimit(refs, kept) ==
  \A k \in Kinds :
    LET have == OfKind(refs, k) IN
    Cardinality(OfKind(kept, k)) = IF Cardinality(have) > MaxOf[k] THEN MaxOf[k]
                                   ELSE Cardinality(have)

(* RecoveryStore::evict: entry limits first, then one victim at a time     *)
(* while the byte budget is exceeded.  The possible results.               *)
EvictOutcomes(refs) ==
  {kept \in SUBSET refs :
     \E capped \in SUBSET refs :
       /\ kept \subseteq capped
       /\ WithinLimit(refs, capped)
       /\ approx_bytes(kept) <= MaxBytes
       /\ kept = capped \/ \E last \in capped \ kept :
                              approx_bytes(kept \cup {last}) > MaxBytes}

-----------------------------------------------------------------------------
NoSnap     == [file |-> "absent"]
Unreadable == [file |-> "unreadable"]
NoWal      == [file |-> "absent"]
NoRef      == [ref |-> "none"]
NoRange    == [gen |-> 0, start |-> 0, end |-> 0]

VARIABLES
  snap,     \* the snapshot file: NoSnap, Unreadable or a State
  wal,      \* the session journal: NoWal or the State its records compose to
  side,     \* the ordinal-generation sidecar, 0 when absent
  pc,       \* Proc -> where the store is
  op,       \* Proc -> what the locked publication is for
  mem,      \* Proc -> RecoveryStore::state
  session,  \* Proc -> session_refs, as a set
  pending,  \* Proc -> pending_blob_deletions and pending_alias_deletions
  cas,      \* Proc -> pending_cas_hashes of large blobs
  memo,     \* Proc -> payload_memo
  skip,     \* Proc -> skip_empty_persist
  diskId,   \* Proc -> disk_identity: "None", "Current" or "Stale"
  walId,    \* Proc -> journal_identity
  fast,     \* Proc -> unchanged_since_last_write and no pending deletions
  range,    \* Proc -> the ordinal range being reserved
  acked,    \* ghost: refs some successful persist vouched for
  ackedAliases, \* ghost: alias bindings some successful persist vouched for
  removed,  \* ghost: refs whose deletion some successful persist vouched for
  grants    \* ghost: the ordinal ranges published for callers, in order

disk  == <<snap, wal, side>>
store == <<mem, session, pending, cas, memo, skip>>
ids   == <<diskId, walId>>
ghost == <<acked, ackedAliases, removed, grants>>
vars  == <<disk, pc, op, store, ids, fast, range, ghost>>

NoPending == [blobs |-> {}, aliases |-> {}]

-----------------------------------------------------------------------------
(* The disk as a reader sees it.                                           *)

IsState(s) == s \notin {NoSnap, Unreadable}

(* load_state: the journal replays onto the snapshot, or onto the empty    *)
(* state when the snapshot is gone and the journal is not.                 *)
load_state(s, w) ==
  LET base == IF s = NoSnap THEN Empty ELSE s
  IN  IF w = NoWal THEN base ELSE ReplayRecord(base, w)

OnDisk == load_state(snap, wal)

StoreAbsent == snap = NoSnap /\ wal = NoWal

(* The identities a process remembers.  "Current" is an identity equal to  *)
(* the file's; any write by anyone else turns it into "Stale".             *)
Outdated(id) == [q \in Proc |-> IF id[q] = "Current" THEN "Stale" ELSE id[q]]

SnapUnchanged(p) == diskId[p] = IF snap = NoSnap THEN "None" ELSE "Current"
WalUnchanged(p)  == walId[p] = IF wal = NoWal THEN "None" ELSE "Current"

(* Mutants: a foreign append to the journal goes unnoticed; a remembered   *)
(* identity is trusted without comparing it with the file.                 *)
IgnoresForeignAppends(p) == diskId[p] # "None" /\ SnapUnchanged(p)
TrustsRememberedIdentity(p) == diskId[p] # "None"

(* disk_identity.is_some() && !wal.foreign_write_since(..) *)
unchanged_since_last_write(p) ==
  diskId[p] # "None" /\ SnapUnchanged(p) /\ WalUnchanged(p)

Locked(p) == pc[p] \in {"publishing", "renamed", "committed"}
LockFree  == \A q \in Proc : ~Locked(q)
Opening(p) == pc[p] \in {"loading", "loadingFresh", "opening"}

(* The environment assumption QuietOpen, attached to every write. *)
MayWrite == QuietOpen => \A q \in Proc : ~Opening(q)

-----------------------------------------------------------------------------
(* RecoveryStore::with_config: load without the lock, then capture the     *)
(* identities without the lock.                                            *)

Reset(p) ==
  /\ mem' = [mem EXCEPT ![p] = Empty]
  /\ session' = [session EXCEPT ![p] = {}]
  /\ pending' = [pending EXCEPT ![p] = NoPending]
  /\ cas' = [cas EXCEPT ![p] = {}]
  /\ memo' = [memo EXCEPT ![p] = NoRef]
  /\ skip' = [skip EXCEPT ![p] = FALSE]
  /\ diskId' = [diskId EXCEPT ![p] = "None"]
  /\ walId' = [walId EXCEPT ![p] = "None"]
  /\ op' = [op EXCEPT ![p] = "none"]
  /\ fast' = [fast EXCEPT ![p] = FALSE]
  /\ range' = [range EXCEPT ![p] = NoRange]

OpenSnapshot(p) ==
  /\ pc[p] = "down"
  /\ pc' = [pc EXCEPT ![p] = CASE snap = NoSnap -> "loadingFresh"
                               [] snap = Unreadable -> "idle"
                               [] OTHER -> "loading"]
  /\ mem' = [mem EXCEPT ![p] = IF IsState(snap) THEN snap ELSE Empty]
  /\ UNCHANGED <<disk, op, session, pending, cas, memo, skip, ids, fast, range, ghost>>

OpenJournal(p) ==
  /\ pc[p] \in {"loading", "loadingFresh"}
  /\ mem' = [mem EXCEPT ![p] = load_state(@, wal)]
  /\ pc' = [pc EXCEPT ![p] = IF @ = "loadingFresh" /\ wal = NoWal THEN "idle" ELSE "opening"]
  /\ UNCHANGED <<disk, op, session, pending, cas, memo, skip, ids, fast, range, ghost>>

(* cache_identities *)
OpenIdentify(p) ==
  /\ pc[p] = "opening"
  /\ pc' = [pc EXCEPT ![p] = "idle"]
  /\ diskId' = [diskId EXCEPT ![p] = IF snap = NoSnap THEN "None" ELSE "Current"]
  /\ walId' = [walId EXCEPT ![p] = IF wal = NoWal THEN "None" ELSE "Current"]
  /\ UNCHANGED <<disk, op, store, fast, range, ghost>>

-----------------------------------------------------------------------------
(* Deferred mutations: memory only.                                        *)

(* Refs a store gives up by its own policy stop being vouched for when its *)
(* memory stands for the disk.                                             *)
GiveUp(p, dropped) ==
  acked' = IF unchanged_since_last_write(p) THEN acked \ dropped ELSE acked

WithConflict(s, a) == [s EXCEPT !.ambig = @ \cup {a}]

(* Mutant: a conflicting target replaces the mapping. *)
LastMappingWins(s, a, target) ==
  [s EXCEPT !.aliases = MergeAliases([x \in {a} |-> target], @)]

(* store_alias_deferred: the first mapping stays, a conflict is marked. *)
WithAlias(s, a, target) ==
  IF a \notin DOMAIN s.aliases
  THEN [refs |-> s.refs, aliases |-> MergeAliases(s.aliases, [x \in {a} |-> target]),
        ambig |-> s.ambig, gen |-> s.gen, next |-> s.next]
  ELSE IF s.aliases[a] = target THEN s ELSE WithConflict(s, a)

store_alias_deferred(p, a, target) ==
  /\ pc[p] = "idle"
  /\ mem' = [mem EXCEPT ![p] = WithAlias(@, a, target)]
  /\ skip' = [skip EXCEPT ![p] = FALSE]
  /\ UNCHANGED <<disk, pc, op, session, pending, cas, memo, ids, fast, range, ghost>>

(* put_blob, put_file, put_unit with register_blob and remember_ref, and   *)
(* the eviction of store_payload_deferred (the batch variant has none).    *)
store_payload_deferred(p, r) ==
  LET put == IF r \in DOMAIN LegacyAlias THEN WithAlias(mem[p], LegacyAlias[r], r) ELSE mem[p]
      all == put.refs \cup {r}
  IN
  /\ pc[p] = "idle"
  /\ \E kept \in {all} \cup EvictOutcomes(all) :
       /\ mem' = [mem EXCEPT ![p] = WithRefs(put, kept)]
       /\ GiveUp(p, all \ kept)
  /\ session' = [session EXCEPT ![p] = @ \cup {r}]
  /\ cas' = [cas EXCEPT ![p] = IF r \in Large THEN @ \cup {r} ELSE @]
  /\ memo' = [memo EXCEPT ![p] = IF MemoHits THEN r ELSE @]
  /\ skip' = [skip EXCEPT ![p] = FALSE]
  /\ UNCHANGED <<disk, pc, op, pending, ids, fast, range, ackedAliases, removed, grants>>

(* admit_memoized_payload: the last payload again, its refs still live in  *)
(* memory.  Nothing is remembered; the next persist may be skipped.        *)
admit_memoized_payload(p) ==
  /\ MemoHits
  /\ pc[p] = "idle"
  /\ memo[p] \in mem[p].refs
  /\ skip' = [skip EXCEPT ![p] = TRUE]
  /\ UNCHANGED <<disk, pc, op, mem, session, pending, cas, memo, ids, fast, range, ghost>>

(* Callers (prune, migration, the working set) remove what they found in   *)
(* the store.                                                              *)
remove_blob(p, r) ==
  /\ pc[p] = "idle"
  /\ r \in mem[p].refs
  /\ mem' = [mem EXCEPT ![p] = apply_deletions(@, {r}, {})]
  /\ pending' = [pending EXCEPT ![p] = [blobs |-> @.blobs \cup {r}, aliases |-> @.aliases]]
  /\ skip' = [skip EXCEPT ![p] = FALSE]
  /\ GiveUp(p, {r})
  /\ UNCHANGED <<disk, pc, op, session, cas, memo, ids, fast, range,
                 ackedAliases, removed, grants>>

remove_alias(p, a) ==
  /\ pc[p] = "idle"
  /\ a \in DOMAIN mem[p].aliases
  /\ mem' = [mem EXCEPT ![p] = apply_deletions(@, {}, {a})]
  /\ pending' = [pending EXCEPT ![p] = [blobs |-> @.blobs, aliases |-> @.aliases \cup {a}]]
  /\ skip' = [skip EXCEPT ![p] = FALSE]
  /\ ackedAliases' = IF unchanged_since_last_write(p)
                     THEN {b \in ackedAliases : b[1] # a} ELSE ackedAliases
  /\ UNCHANGED <<disk, pc, op, session, cas, memo, ids, fast, range,
                 acked, removed, grants>>

mark_ambiguous(p, a) ==
  /\ pc[p] = "idle"
  /\ mem' = [mem EXCEPT ![p] = WithConflict(@, a)]
  /\ skip' = [skip EXCEPT ![p] = FALSE]
  /\ UNCHANGED <<disk, pc, op, session, pending, cas, memo, ids, fast, range, ghost>>

-----------------------------------------------------------------------------
(* Ordinal generations.                                                    *)

(* Mutants: generation one is allocated again; the sidecar's value is used *)
(* without advancing it.                                                   *)
LegacyGenerationAgain(current) == current + 1
SameGeneration(current) == current

(* next_ordinal_generation: generation one predates the sidecar.           *)
NextGeneration(current) == IF current = 0 THEN 2 ELSE current + 1

(* Mutant: the new generation is used before it is recorded in the sidecar. *)
GenerationNotRecorded(m) ==
  IF StoreAbsent
  THEN LET g == NextGeneration(side)
       IN [base |-> WithOrdinals(Empty, g, 1), mine |-> WithOrdinals(m, g, 1), side |-> side]
  ELSE [base |-> OnDisk, mine |-> m, side |-> side]

(* What the reload finds, with the sidecar it leaves behind and the        *)
(* store's own ordinal fields: an absent store starts a new generation, a  *)
(* present one raises the sidecar to its generation.                       *)
Reloaded(m) ==
  IF StoreAbsent
  THEN LET g == NextGeneration(side)
       IN [base |-> WithOrdinals(Empty, g, 1), mine |-> WithOrdinals(m, g, 1), side |-> g]
  ELSE [base |-> OnDisk, mine |-> m,
        side |-> IF side < OnDisk.gen THEN OnDisk.gen ELSE side]

CanReload == snap # Unreadable /\ (StoreAbsent => NextGeneration(side) <= MaxGen)

-----------------------------------------------------------------------------
(* persist_inner and its callers.                                          *)

(* The early return: a memo hit, nothing remembered since, disk unchanged. *)
SkipEmpty(p) ==
  /\ skip[p] /\ session[p] = {} /\ pending[p] = NoPending
  /\ SnapUnchanged(p) /\ WalUnchanged(p)

Bindings(s) == {<<a, s.aliases[a]>> : a \in DOMAIN s.aliases}

(* A persist vouches for everything the store now remembers, from the      *)
(* write that makes it readable to others.                                 *)
Vouch(p) ==
  /\ acked' = acked \cup mem[p].refs
  /\ ackedAliases' = ackedAliases \cup Bindings(mem[p])

persist_skip_empty(p) ==
  /\ pc[p] = "idle"
  /\ SkipEmpty(p)
  /\ skip' = [skip EXCEPT ![p] = FALSE]
  /\ Vouch(p)
  /\ UNCHANGED <<disk, pc, op, mem, session, pending, cas, memo, ids, fast, range,
                 removed, grants>>

(* Under the lock: reload and merge unless the disk is unchanged, evict,   *)
(* apply the pending deletions.  The caller has dropped some refs first.   *)
PersistLocked(p, dropped, kind) ==
  LET clean  == unchanged_since_last_write(p)
      mine   == WithRefs(mem[p], mem[p].refs \ dropped)
      found  == Reloaded(mine)
      merged == IF clean THEN mine ELSE merge_states(found.base, found.mine, session[p])
  IN
  /\ pc[p] = "idle" /\ LockFree
  /\ clean \/ CanReload
  /\ side' = IF clean THEN side ELSE found.side
  /\ \E kept \in EvictOutcomes(merged.refs) :
       /\ mem' = [mem EXCEPT ![p] =
                    apply_deletions(WithRefs(merged, kept),
                                    pending[p].blobs, pending[p].aliases)]
       /\ acked' = ((IF clean THEN acked \ dropped ELSE acked)
                      \ (merged.refs \ kept)) \ pending[p].blobs
  /\ ackedAliases' = {b \in ackedAliases : b[1] \notin pending[p].aliases}
  /\ fast' = [fast EXCEPT ![p] = clean /\ pending[p] = NoPending]
  /\ pc' = [pc EXCEPT ![p] = "publishing"]
  /\ op' = [op EXCEPT ![p] = kind]
  /\ skip' = [skip EXCEPT ![p] = FALSE]
  /\ UNCHANGED <<snap, wal, session, pending, cas, memo, ids, range, removed, grants>>

persist_pending(p) == ~SkipEmpty(p) /\ PersistLocked(p, {}, "persist")

(* The durable persist whose persist returned early: only its rewrite is   *)
(* left to do.                                                             *)
RewriteOnly(p) ==
  /\ pc[p] = "idle" /\ LockFree
  /\ SkipEmpty(p)
  /\ skip' = [skip EXCEPT ![p] = FALSE]
  /\ fast' = [fast EXCEPT ![p] = FALSE]
  /\ pc' = [pc EXCEPT ![p] = "publishing"]
  /\ op' = [op EXCEPT ![p] = "republish"]
  /\ UNCHANGED <<disk, mem, session, pending, cas, memo, ids, range, ghost>>

(* One lock over the persist and the durable rewrite that follows it. *)
persist_pending_durable(p) ==
  RewriteOnly(p) \/ (~SkipEmpty(p) /\ PersistLocked(p, {}, "durable"))

(* Source-backed files whose source changed are dropped, then persisted.   *)
(* drop_ref records no deletion.                                           *)
prune_stale(p) ==
  \E stale \in SUBSET OfKind(mem[p].refs, "file") :
    stale # {} /\ PersistLocked(p, stale, "persist")

(* reserve_ordinal_range always reloads and merges; it neither evicts nor  *)
(* applies pending deletions, and publishes the advanced counter.          *)
reserve_ordinal_range(p, count) ==
  LET found  == Reloaded(mem[p])
      merged == merge_states(found.base, found.mine, session[p])
      end    == merged.next + count
  IN
  /\ pc[p] = "idle" /\ LockFree
  /\ CanReload
  /\ Len(grants) < MaxGrants
  /\ end <= MaxOrdinal
  /\ side' = found.side
  /\ mem' = [mem EXCEPT ![p] = WithOrdinals(merged, merged.gen, end)]
  /\ range' = [range EXCEPT ![p] = [gen |-> merged.gen, start |-> merged.next, end |-> end]]
  /\ fast' = [fast EXCEPT ![p] = FALSE]
  /\ pc' = [pc EXCEPT ![p] = "publishing"]
  /\ op' = [op EXCEPT ![p] = "reserve"]
  /\ UNCHANGED <<snap, wal, session, pending, cas, memo, skip, ids, ghost>>

(* publish_pending_cas_locked: the CAS takes some of the large blobs, the  *)
(* others stay queued; hashes without a blob are forgotten.                *)
PublishObjects(p) ==
  LET queued == cas[p] \cap mem[p].refs IN
  \E taken \in SUBSET queued : taken # {} /\ cas' = [cas EXCEPT ![p] = queued \ taken]

(* publish_pending_cas: after a failed externalization, or before any      *)
(* persist, the caller publishes the large blobs itself.  The snapshot is  *)
(* rewritten from memory; nothing is reloaded.                             *)
publish_pending_cas(p) ==
  /\ CasRetries
  /\ pc[p] = "idle" /\ LockFree
  /\ PublishObjects(p)
  /\ fast' = [fast EXCEPT ![p] = FALSE]
  /\ pc' = [pc EXCEPT ![p] = "publishing"]
  /\ op' = [op EXCEPT ![p] = "cas"]
  /\ UNCHANGED <<disk, mem, session, pending, memo, skip, ids, range, ghost>>

(* PersistLock::acquire gave up, or the disk cannot be read: the persist   *)
(* fails before it changes more than the skip flag.  What prune_stale      *)
(* dropped from memory stays dropped.                                      *)
PersistRefused(p) ==
  \E stale \in SUBSET OfKind(mem[p].refs, "file") :
    /\ pc[p] = "idle"
    /\ stale # {} \/ ~SkipEmpty(p)
    /\ ~LockFree \/ ~(unchanged_since_last_write(p) \/ CanReload)
    /\ mem' = [mem EXCEPT ![p] = WithRefs(@, @.refs \ stale)]
    /\ GiveUp(p, stale)
    /\ skip' = [skip EXCEPT ![p] = FALSE]
    /\ UNCHANGED <<disk, pc, op, session, pending, cas, memo, ids, fast, range,
                   ackedAliases, removed, grants>>

-----------------------------------------------------------------------------
(* Publication, under the lock.                                            *)

(* try_append_session_journal succeeding. *)
try_append_session_journal(p) ==
  LET record == session_delta(mem[p], session[p]) IN
  /\ pc[p] = "publishing" /\ fast[p] /\ MayWrite
  /\ wal' = IF wal = NoWal THEN record ELSE ComposeRecords(wal, record)
  /\ walId' = [Outdated(walId) EXCEPT ![p] = "Current"]
  /\ Vouch(p)
  /\ removed' = removed \ session[p]
  /\ session' = [session EXCEPT ![p] = {}]
  /\ pending' = [pending EXCEPT ![p] = NoPending]
  /\ pc' = [pc EXCEPT ![p] = "committed"]
  /\ UNCHANGED <<snap, side, op, mem, cas, memo, skip, diskId, fast, range, grants>>

(* SessionWal::publish_snapshot, first half: the snapshot is renamed into  *)
(* place.  Reached on the merge path, with pending deletions, and when the *)
(* append reports NeedsCompaction or fails.  The durable rewrite does not  *)
(* forget the identity first.                                              *)
PublishRename(p) ==
  /\ pc[p] = "publishing" /\ MayWrite
  /\ snap' = mem[p]
  /\ diskId' = [Outdated(diskId) EXCEPT ![p] = IF op[p] = "republish" THEN @ ELSE "None"]
  /\ removed' = removed \ session[p]
  /\ IF op[p] \in {"persist", "durable", "republish"} THEN Vouch(p) ELSE UNCHANGED <<acked, ackedAliases>>
  /\ grants' = IF op[p] = "reserve" THEN Append(grants, range[p]) ELSE grants
  /\ pc' = [pc EXCEPT ![p] = "renamed"]
  /\ UNCHANGED <<wal, side, op, store, walId, fast, range>>

(* Second half: the journal is retired, the identities are captured, the   *)
(* session is published.                                                   *)
PublishRetire(p) ==
  /\ pc[p] = "renamed" /\ MayWrite
  /\ wal' = NoWal
  /\ diskId' = [diskId EXCEPT ![p] = "Current"]
  /\ walId' = [Outdated(walId) EXCEPT ![p] = "None"]
  /\ session' = [session EXCEPT ![p] = {}]
  /\ pending' = [pending EXCEPT ![p] = NoPending]
  /\ removed' = IF op[p] \in {"persist", "durable"} THEN removed \cup pending[p].blobs ELSE removed
  /\ range' = [range EXCEPT ![p] = NoRange]
  /\ pc' = [pc EXCEPT ![p] = CASE op[p] \in {"persist", "durable"} -> "committed"
                               [] op[p] = "durableCas" -> "publishing"
                               [] OTHER -> "idle"]
  /\ op' = [op EXCEPT ![p] = CASE op[p] \in {"persist", "durable"} -> @
                               [] op[p] = "durableCas" -> "republish"
                               [] OTHER -> "none"]
  /\ UNCHANGED <<snap, side, mem, cas, memo, skip, fast, acked, ackedAliases, grants>>

(* externalize_large_pending_cas_locked: large blobs go to the CAS, their  *)
(* bodies become markers and the snapshot is rewritten under the same lock.*)
externalize_large_pending_cas_locked(p) ==
  /\ pc[p] = "committed"
  /\ PublishObjects(p)
  /\ pc' = [pc EXCEPT ![p] = "publishing"]
  /\ op' = [op EXCEPT ![p] = IF @ = "durable" THEN "durableCas" ELSE "externalize"]
  /\ fast' = [fast EXCEPT ![p] = FALSE]
  /\ UNCHANGED <<disk, mem, session, pending, memo, skip, ids, range, ghost>>

(* Mutant: the durable rewrite is taken for the persist it follows. *)
RewritesForever(p) ==
  /\ pc[p] = "committed"
  /\ cas' = [cas EXCEPT ![p] = @ \cap mem[p].refs]
  /\ pc' = [pc EXCEPT ![p] = IF op[p] = "durable" THEN "publishing" ELSE "idle"]
  /\ op' = [op EXCEPT ![p] = IF @ = "durable" THEN "durable" ELSE "none"]
  /\ fast' = [fast EXCEPT ![p] = FALSE]
  /\ UNCHANGED <<disk, mem, session, pending, memo, skip, ids, range, ghost>>

(* No large blob is pending, or the CAS refused it: persist still succeeds *)
(* and the blob stays queued.  A durable persist goes on to its rewrite.   *)
PersistReturn(p) ==
  /\ pc[p] = "committed"
  /\ cas' = [cas EXCEPT ![p] = @ \cap mem[p].refs]
  /\ pc' = [pc EXCEPT ![p] = IF op[p] = "durable" THEN "publishing" ELSE "idle"]
  /\ op' = [op EXCEPT ![p] = IF @ = "durable" THEN "republish" ELSE "none"]
  /\ fast' = [fast EXCEPT ![p] = FALSE]
  /\ UNCHANGED <<disk, mem, session, pending, memo, skip, ids, range, ghost>>

(* The snapshot could not be written, or the journal not retired.  The     *)
(* session stays pending; except in the durable rewrite, which leaves the  *)
(* identities alone, the store forgets what it knew of the disk.           *)
PublishFails(p) ==
  /\ "io" \in Faults
  /\ pc[p] \in {"publishing", "renamed"}
  /\ diskId' = [diskId EXCEPT ![p] = IF op[p] = "republish" THEN @ ELSE "None"]
  /\ pc' = [pc EXCEPT ![p] = IF op[p] = "durableCas" THEN "publishing" ELSE "idle"]
  /\ op' = [op EXCEPT ![p] = IF @ = "durableCas" THEN "republish" ELSE "none"]
  /\ fast' = [fast EXCEPT ![p] = FALSE]
  /\ range' = [range EXCEPT ![p] = NoRange]
  /\ UNCHANGED <<disk, store, walId, ghost>>

-----------------------------------------------------------------------------
(* The environment.                                                        *)

(* A process dies anywhere; the operating system drops its lock. *)
Crash(p) ==
  /\ "crash" \in Faults
  /\ pc[p] # "down"
  /\ pc' = [pc EXCEPT ![p] = "down"]
  /\ Reset(p)
  /\ UNCHANGED <<disk, ghost>>

(* The cache files are removed by hand; the sidecar is a separate file. *)
LoseStore ==
  /\ "lose" \in Faults
  /\ ~StoreAbsent /\ LockFree /\ MayWrite
  /\ snap' = NoSnap /\ wal' = NoWal
  /\ diskId' = Outdated(diskId) /\ walId' = Outdated(walId)
  /\ acked' = {} /\ ackedAliases' = {}
  /\ UNCHANGED <<side, pc, op, store, fast, range, removed, grants>>

(* Only the snapshot is lost; load_state replays the surviving journal. *)
LoseSnapshot ==
  /\ "orphan" \in Faults
  /\ IsState(snap) /\ wal # NoWal /\ LockFree /\ MayWrite
  /\ snap' = NoSnap
  /\ diskId' = Outdated(diskId)
  /\ acked' = acked \cap wal.refs
  /\ ackedAliases' = ackedAliases \cap Bindings(wal)
  /\ UNCHANGED <<wal, side, pc, op, store, walId, fast, range, removed, grants>>

(* The snapshot becomes unreadable, unparseable or oversized. *)
CorruptSnapshot ==
  /\ "corrupt" \in Faults
  /\ IsState(snap) /\ LockFree /\ MayWrite
  /\ snap' = Unreadable
  /\ diskId' = Outdated(diskId)
  /\ UNCHANGED <<wal, side, pc, op, store, walId, fast, range, ghost>>

-----------------------------------------------------------------------------
LegacySnapshot == WithOrdinals(Empty, 1, LegacyNext)

(* A new cache, or one written before the sidecar existed, whose ordinals  *)
(* of generation one are already in use.                                   *)
Init ==
  /\ \/ snap = NoSnap /\ grants = <<>>
     \/ /\ LegacyNext > 0
        /\ snap = LegacySnapshot
        /\ grants = <<[gen |-> 1, start |-> 1, end |-> LegacyNext]>>
  /\ wal = NoWal
  /\ side = 0
  /\ pc = [p \in Proc |-> "down"]
  /\ op = [p \in Proc |-> "none"]
  /\ mem = [p \in Proc |-> Empty]
  /\ session = [p \in Proc |-> {}]
  /\ pending = [p \in Proc |-> NoPending]
  /\ cas = [p \in Proc |-> {}]
  /\ memo = [p \in Proc |-> NoRef]
  /\ skip = [p \in Proc |-> FALSE]
  /\ diskId = [p \in Proc |-> "None"]
  /\ walId = [p \in Proc |-> "None"]
  /\ fast = [p \in Proc |-> FALSE]
  /\ range = [p \in Proc |-> NoRange]
  /\ acked = {} /\ ackedAliases = {} /\ removed = {}

Open(p) == OpenSnapshot(p) \/ OpenJournal(p) \/ OpenIdentify(p)

Mutate(p) ==
  \/ \E a \in Alias, r \in Ref : store_alias_deferred(p, a, r)
  \/ \E r \in Payloads : store_payload_deferred(p, r)
  \/ admit_memoized_payload(p)
  \/ \E r \in Removable : remove_blob(p, r)
  \/ \E a \in Alias : remove_alias(p, a)
  \/ \E a \in Alias : mark_ambiguous(p, a)

Acquire(p) ==
  \/ persist_skip_empty(p)
  \/ persist_pending(p)
  \/ persist_pending_durable(p)
  \/ prune_stale(p)
  \/ \E count \in Counts : reserve_ordinal_range(p, count)
  \/ publish_pending_cas(p)
  \/ PersistRefused(p)

Publish(p) ==
  \/ try_append_session_journal(p)
  \/ PublishRename(p)
  \/ PublishRetire(p)
  \/ externalize_large_pending_cas_locked(p)
  \/ PersistReturn(p)
  \/ PublishFails(p)

Environment == LoseStore \/ LoseSnapshot \/ CorruptSnapshot

Next ==
  \/ \E p \in Proc : Open(p) \/ Mutate(p) \/ Acquire(p) \/ Publish(p) \/ Crash(p)
  \/ Environment

Spec == Init /\ [][Next]_vars

(* A process that holds the lock, or is opening a store, keeps running.    *)
FairSpec == Spec /\ \A p \in Proc : WF_vars(Open(p)) /\ WF_vars(Publish(p))

-----------------------------------------------------------------------------
TypeOK ==
  /\ snap \in State \cup {NoSnap, Unreadable}
  /\ wal \in State \cup {NoWal}
  /\ side \in Nat
  /\ pc \in [Proc -> {"down", "loading", "loadingFresh", "opening", "idle",
                      "publishing", "renamed", "committed"}]
  /\ op \in [Proc -> {"none", "persist", "durable", "durableCas", "externalize",
                      "republish", "reserve", "cas"}]
  /\ mem \in [Proc -> State]
  /\ session \in [Proc -> SUBSET Ref]
  /\ pending \in [Proc -> [blobs: SUBSET Ref, aliases: SUBSET Alias]]
  /\ cas \in [Proc -> SUBSET Ref]
  /\ memo \in [Proc -> Ref \cup {NoRef}]
  /\ skip \in [Proc -> BOOLEAN]
  /\ diskId \in [Proc -> {"None", "Current", "Stale"}]
  /\ walId \in [Proc -> {"None", "Current", "Stale"}]
  /\ fast \in [Proc -> BOOLEAN]
  /\ range \in [Proc -> [gen: Nat, start: Nat, end: Nat]]
  /\ acked \subseteq Ref
  /\ ackedAliases \subseteq Alias \X Ref
  /\ removed \subseteq Ref
  /\ grants \in Seq([gen: Nat, start: Nat, end: Nat])

(* A persist that returned Ok is durable: every ref the store then held is *)
(* recovered by a process that loads the cache, until an eviction, a       *)
(* deletion or the loss of the files takes it.  The journal fast path,     *)
(* which skips the reload, must not lose another process's refs.           *)
AckedRefsDurable == snap # Unreadable => acked \subseteq OnDisk.refs

(* "A conflicting target never replaces the first mapping": an alias some  *)
(* persist vouched for still names its target, or is marked ambiguous so   *)
(* that expansion refuses it.                                              *)
AckedAliasesSafe ==
  snap # Unreadable =>
    \A b \in ackedAliases :
      /\ b[1] \in DOMAIN OnDisk.aliases
      /\ OnDisk.aliases[b[1]] = b[2] \/ b[1] \in OnDisk.ambig

(* A blob whose deletion was persisted does not come back from the memory  *)
(* of a process that loaded it before; only storing it again brings it     *)
(* back.  prune_recovery_blobs unlinks the sidecar on this promise.        *)
DeletedStaysDeleted == snap # Unreadable => removed \cap OnDisk.refs = {}

(* No ordinal of one generation is published for two callers, across       *)
(* processes, crashes, failed publications and the loss of the cache files.*)
OrdinalsNeverReissued ==
  \A i, j \in DOMAIN grants :
    i < j /\ grants[i].gen = grants[j].gen => grants[i].end <= grants[j].start

(* The generation the sidecar stands for: its absence is generation one. *)
Floor == IF side = 0 THEN 1 ELSE side

(* Every generation in use, in a snapshot or in a store's memory, is one   *)
(* the sidecar has reached, so that the next generation is a fresh one     *)
(* even when all that is left of the cache is the sidecar.                 *)
SidecarCoversGenerations ==
  /\ \A p \in Proc : mem[p].gen <= Floor
  /\ IsState(snap) => snap.gen <= Floor

(* A snapshot that cannot be read is never replaced by a store's state. *)
UnreadableNeverOverwritten == [][snap = Unreadable => snap' \in {Unreadable, NoSnap}]_snap

(* Every publication ends and gives the lock back. *)
LockReleased == \A p \in Proc : Locked(p) ~> ~Locked(p)
=============================================================================
