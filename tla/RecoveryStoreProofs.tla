------------------------ MODULE RecoveryStoreProofs ------------------------
(* Proofs about RecoveryStore for every number of processes, refs, aliases *)
(* and every ordinal bound: types, ordinals, and the durability of what a  *)
(* persist acknowledged.                                                   *)
EXTENDS RecoveryStore, TLAPS

(* The pure functions on the state of a cache. *)

LEMMA AliasMapType ==
  ASSUME NEW f
  PROVE  f \in AliasMap <=> /\ f = [a \in DOMAIN f |-> f[a]]
                            /\ DOMAIN f \subseteq Alias
                            /\ \A a \in DOMAIN f : f[a] \in Ref
BY DEF AliasMap

LEMMA EmptyType == Empty \in State
<1>1. NoAliases \in AliasMap
  BY AliasMapType DEF NoAliases
<1> QED BY <1>1 DEF Empty, State

LEMMA MergeAliasesType ==
  ASSUME NEW e \in AliasMap, NEW c \in AliasMap
  PROVE  MergeAliases(e, c) \in AliasMap
BY AliasMapType DEF MergeAliases

LEMMA MergeType ==
  ASSUME NEW e \in State, NEW c \in State, NEW S
  PROVE  merge_states(e, c, S) \in State
<1>1. MergeAliases(e.aliases, c.aliases) \in AliasMap
  BY MergeAliasesType DEF State
<1>2. DOMAIN e.aliases \subseteq Alias
  BY AliasMapType DEF State
<1>3. Conflicts(e.aliases, c.aliases) \subseteq Alias
  BY <1>2 DEF Conflicts
<1>4. MergeEntries(e.refs, c.refs, S) \subseteq Ref
  BY DEF MergeEntries, State
<1>5. MergedGen(e, c) \in Nat \ {0} /\ MergedNext(e, c) \in Nat \ {0}
  BY DEF MergedGen, MergedNext, State
<1> QED BY <1>1, <1>3, <1>4, <1>5 DEF merge_states, State

LEMMA DeltaType ==
  ASSUME NEW s \in State, NEW S
  PROVE  session_delta(s, S) \in State
BY DEF session_delta, Empty, State

LEMMA DeletionType ==
  ASSUME NEW s \in State, NEW B, NEW A
  PROVE  apply_deletions(s, B, A) \in State
<1>1. [a \in DOMAIN s.aliases \ A |-> s.aliases[a]] \in AliasMap
  BY AliasMapType DEF State
<1> QED BY <1>1 DEF apply_deletions, State

-----------------------------------------------------------------------------
(* Replaying two journal records one after the other gives the state that  *)
(* replaying their composition gives: the model may keep one record for a  *)
(* whole journal, as apply_session_wal's loop is a fold of merge_states.   *)
THEOREM JournalComposition ==
  ASSUME NEW b \in State, NEW d1 \in State, NEW d2 \in State
  PROVE  ReplayRecord(ReplayRecord(b, d1), d2) = ReplayRecord(b, ComposeRecords(d1, d2))
<1> DEFINE l == ReplayRecord(ReplayRecord(b, d1), d2)
           r == ReplayRecord(b, ComposeRecords(d1, d2))
<1>1. l.refs = r.refs
  BY DEF ReplayRecord, ComposeRecords, merge_states, MergeEntries
<1>2. l.aliases = r.aliases
  BY DEF ReplayRecord, ComposeRecords, merge_states, MergeAliases
<1>3. l.ambig = r.ambig
  BY DEF ReplayRecord, ComposeRecords, merge_states, MergeAliases, Conflicts
<1>4. l.gen = r.gen
  BY DEF ReplayRecord, ComposeRecords, merge_states, MergedGen, State
<1>5. l.next = r.next
  BY DEF ReplayRecord, ComposeRecords, merge_states, MergedGen, MergedNext, State
<1> QED BY <1>1, <1>2, <1>3, <1>4, <1>5 DEF ReplayRecord, merge_states

-----------------------------------------------------------------------------
(* The steps of RecoveryStore. *)

LEMMA NotStates == NoSnap \notin State /\ Unreadable \notin State /\ NoWal \notin State
BY DEF NoSnap, Unreadable, NoWal, State

LEMMA WithRefsType ==
  ASSUME NEW s \in State, NEW R \in SUBSET Ref
  PROVE  WithRefs(s, R) \in State
BY DEF WithRefs, State

LEMMA WithOrdinalsType ==
  ASSUME NEW s \in State, NEW g \in Nat \ {0}, NEW n \in Nat \ {0}
  PROVE  WithOrdinals(s, g, n) \in State
BY DEF WithOrdinals, State

LEMMA WithConflictType ==
  ASSUME NEW s \in State, NEW a \in Alias
  PROVE  WithConflict(s, a) \in State
BY DEF WithConflict, State

LEMMA WithAliasType ==
  ASSUME NEW s \in State, NEW a \in Alias, NEW t \in Ref
  PROVE  WithAlias(s, a, t) \in State
<1>1. [x \in {a} |-> t] \in AliasMap
  BY AliasMapType
<1>2. MergeAliases(s.aliases, [x \in {a} |-> t]) \in AliasMap
  BY <1>1, MergeAliasesType DEF State
<1>3. WithConflict(s, a) \in State
  BY WithConflictType
<1> QED BY <1>2, <1>3 DEF WithAlias, State

LEMMA LoadType ==
  ASSUME NEW s \in State \cup {NoSnap}, NEW w \in State \cup {NoWal}
  PROVE  load_state(s, w) \in State
BY MergeType, EmptyType DEF load_state, ReplayRecord

LEMMA EvictSubset ==
  ASSUME NEW R, NEW K \in EvictOutcomes(R)
  PROVE  K \subseteq R
BY DEF EvictOutcomes

LEMMA BindingsType ==
  ASSUME NEW s \in State
  PROVE  Bindings(s) \subseteq Alias \X Ref
<1>1. s.aliases \in AliasMap
  BY DEF State
<1> QED BY <1>1, AliasMapType DEF Bindings

LEMMA ReloadedType ==
  ASSUME TypeOK, snap # Unreadable, NEW m \in State
  PROVE  /\ Reloaded(m).base \in State /\ Reloaded(m).mine \in State
         /\ Reloaded(m).side \in Nat
<1>1. OnDisk \in State
  BY LoadType DEF TypeOK, OnDisk
<1>2. NextGeneration(side) \in Nat \ {0}
  BY DEF TypeOK, NextGeneration
<1>3. OnDisk.gen \in Nat
  BY <1>1 DEF State
<1>4. CASE StoreAbsent
  BY <1>2, <1>4, WithOrdinalsType, EmptyType DEF Reloaded
<1>5. CASE ~StoreAbsent
  BY <1>1, <1>3, <1>5 DEF Reloaded, TypeOK
<1> QED BY <1>4, <1>5

USE StateConstants, StoreConstants

LEMMA TypeInit == Init => TypeOK
<1> SUFFICES ASSUME Init PROVE TypeOK
  OBVIOUS
<1>1. LegacyNext > 0 => LegacySnapshot \in State
  BY StoreConstants, EmptyType, WithOrdinalsType DEF LegacySnapshot
<1>2. grants \in Seq([gen: Nat, start: Nat, end: Nat])
  <2>1. CASE grants = <<>>
    BY <2>1
  <2>2. CASE grants = <<[gen |-> 1, start |-> 1, end |-> LegacyNext]>>
    <3>1. [gen |-> 1, start |-> 1, end |-> LegacyNext] \in [gen: Nat, start: Nat, end: Nat]
      OBVIOUS
    <3> QED BY <2>2, <3>1
  <2> QED BY <2>1, <2>2 DEF Init
<1>3. range \in [Proc -> [gen: Nat, start: Nat, end: Nat]]
  BY DEF Init, NoRange
<1>4. pending \in [Proc -> [blobs: SUBSET Ref, aliases: SUBSET Alias]]
  BY DEF Init, NoPending
<1>5. snap \in State \cup {NoSnap, Unreadable} /\ mem \in [Proc -> State]
  BY <1>1, EmptyType DEF Init
<1> QED BY <1>2, <1>3, <1>4, <1>5 DEF Init, TypeOK

LEMMA TypeStep == TypeOK /\ [Next]_vars => TypeOK'
<1> SUFFICES ASSUME TypeOK, [Next]_vars PROVE TypeOK'
  OBVIOUS
<1> USE DEF disk, store, ids, ghost
<1> USE EmptyType
<1>1. ASSUME NEW p \in Proc, OpenSnapshot(p) PROVE TypeOK'
  BY <1>1 DEF OpenSnapshot, TypeOK, IsState
<1>2. ASSUME NEW p \in Proc, OpenJournal(p) PROVE TypeOK'
  <2>1. load_state(mem[p], wal) \in State
    BY LoadType DEF TypeOK
  <2> QED BY <1>2, <2>1 DEF OpenJournal, TypeOK
<1>3. ASSUME NEW p \in Proc, OpenIdentify(p) PROVE TypeOK'
  BY <1>3 DEF OpenIdentify, TypeOK
<1>4. ASSUME NEW p \in Proc, NEW a \in Alias, NEW r \in Ref, store_alias_deferred(p, a, r)
      PROVE TypeOK'
  <2>1. WithAlias(mem[p], a, r) \in State
    BY WithAliasType DEF TypeOK
  <2> QED BY <1>4, <2>1 DEF store_alias_deferred, TypeOK
<1>5. ASSUME NEW p \in Proc, NEW r \in Payloads, store_payload_deferred(p, r) PROVE TypeOK'
  <2> DEFINE put == IF r \in DOMAIN LegacyAlias THEN WithAlias(mem[p], LegacyAlias[r], r)
                    ELSE mem[p]
             all == put.refs \cup {r}
  <2>1. r \in Ref /\ (r \in DOMAIN LegacyAlias => LegacyAlias[r] \in Alias)
    BY DEF StoreConstants
  <2>2. put \in State
    BY <2>1, WithAliasType DEF TypeOK
  <2>3. all \subseteq Ref
    BY <2>1, <2>2 DEF State
  <2> HIDE DEF put
  <2>4. PICK kept \in {all} \cup EvictOutcomes(all) :
          /\ mem' = [mem EXCEPT ![p] = WithRefs(put, kept)]
          /\ GiveUp(p, all \ kept)
    BY <1>5 DEF store_payload_deferred, put
  <2>5. kept \subseteq Ref
    BY <2>3, EvictSubset
  <2>6. WithRefs(put, kept) \in State
    BY <2>2, <2>5, WithRefsType
  <2>7. mem' \in [Proc -> State] /\ acked' \subseteq Ref
    BY <2>4, <2>6 DEF TypeOK, GiveUp
  <2> QED BY <1>5, <2>1, <2>7 DEF store_payload_deferred, TypeOK
<1>6. ASSUME NEW p \in Proc, admit_memoized_payload(p) PROVE TypeOK'
  BY <1>6 DEF admit_memoized_payload, TypeOK
<1>7. ASSUME NEW p \in Proc, NEW r \in Removable, remove_blob(p, r) PROVE TypeOK'
  <2>1. apply_deletions(mem[p], {r}, {}) \in State
    BY DeletionType DEF TypeOK
  <2>2. pending' \in [Proc -> [blobs: SUBSET Ref, aliases: SUBSET Alias]]
    BY <1>7 DEF remove_blob, TypeOK
  <2> QED BY <1>7, <2>1, <2>2 DEF remove_blob, TypeOK, GiveUp
<1>8. ASSUME NEW p \in Proc, NEW a \in Alias, remove_alias(p, a) PROVE TypeOK'
  <2>1. apply_deletions(mem[p], {}, {a}) \in State
    BY DeletionType DEF TypeOK
  <2>2. pending' \in [Proc -> [blobs: SUBSET Ref, aliases: SUBSET Alias]]
    BY <1>8 DEF remove_alias, TypeOK
  <2> QED BY <1>8, <2>1, <2>2 DEF remove_alias, TypeOK
<1>9. ASSUME NEW p \in Proc, NEW a \in Alias, mark_ambiguous(p, a) PROVE TypeOK'
  <2>1. WithConflict(mem[p], a) \in State
    BY WithConflictType DEF TypeOK
  <2> QED BY <1>9, <2>1 DEF mark_ambiguous, TypeOK
<1>10. ASSUME NEW p \in Proc, persist_skip_empty(p) PROVE TypeOK'
  <2>1. Bindings(mem[p]) \subseteq Alias \X Ref /\ mem[p].refs \subseteq Ref
    BY BindingsType DEF TypeOK, State
  <2> QED BY <1>10, <2>1 DEF persist_skip_empty, Vouch, TypeOK
<1>11. ASSUME NEW p \in Proc, NEW D, NEW k \in {"persist", "durable"}, PersistLocked(p, D, k)
       PROVE TypeOK'
  <2> DEFINE clean  == unchanged_since_last_write(p)
             mine   == WithRefs(mem[p], mem[p].refs \ D)
             found  == Reloaded(mine)
             merged == IF clean THEN mine ELSE merge_states(found.base, found.mine, session[p])
  <2>1. mine \in State
    BY WithRefsType DEF TypeOK, State
  <2>2. ~clean => snap # Unreadable
    BY <1>11 DEF PersistLocked, CanReload
  <2> HIDE DEF mine
  <2>3. ~clean => found.base \in State /\ found.mine \in State /\ found.side \in Nat
    BY <2>1, <2>2, ReloadedType
  <2> HIDE DEF found
  <2>4. merged \in State
    BY <2>1, <2>3, MergeType
  <2>5. merged.refs \subseteq Ref
    BY <2>4 DEF State
  <2>6. side' \in Nat
    BY <1>11, <2>3 DEF PersistLocked, found, mine, TypeOK
  <2> HIDE DEF merged
  <2>7. PICK kept \in EvictOutcomes(merged.refs) :
          mem' = [mem EXCEPT ![p] = apply_deletions(WithRefs(merged, kept),
                                      pending[p].blobs, pending[p].aliases)]
    BY <1>11 DEF PersistLocked, merged, found, mine
  <2>8. apply_deletions(WithRefs(merged, kept), pending[p].blobs, pending[p].aliases) \in State
    BY <2>4, <2>5, EvictSubset, WithRefsType, DeletionType
  <2>9. mem' \in [Proc -> State]
    BY <2>7, <2>8 DEF TypeOK
  <2>10. acked' \subseteq Ref
    BY <1>11 DEF PersistLocked, TypeOK
  <2>11. ackedAliases' \subseteq Alias \X Ref
    BY <1>11 DEF PersistLocked, TypeOK
  <2>12. fast' \in [Proc -> BOOLEAN]
    BY <1>11 DEF PersistLocked, TypeOK, unchanged_since_last_write
  <2> QED BY <1>11, <2>6, <2>9, <2>10, <2>11, <2>12 DEF PersistLocked, TypeOK
<1>12. ASSUME NEW p \in Proc, NEW count \in Counts, reserve_ordinal_range(p, count) PROVE TypeOK'
  <2> DEFINE found  == Reloaded(mem[p])
             merged == merge_states(found.base, found.mine, session[p])
  <2>1. found.base \in State /\ found.mine \in State /\ found.side \in Nat
    BY <1>12, ReloadedType DEF reserve_ordinal_range, CanReload, TypeOK
  <2> HIDE DEF found
  <2>2. merged \in State
    BY <2>1, MergeType
  <2> HIDE DEF merged
  <2>3. merged.gen \in Nat \ {0} /\ merged.next \in Nat \ {0} /\ merged.next + count \in Nat \ {0}
    BY <2>2 DEF State, StoreConstants
  <2>4. WithOrdinals(merged, merged.gen, merged.next + count) \in State
    BY <2>2, <2>3, WithOrdinalsType
  <2>5. mem' \in [Proc -> State] /\ side' \in Nat
    BY <1>12, <2>1, <2>4 DEF reserve_ordinal_range, found, merged, TypeOK
  <2>6. range' \in [Proc -> [gen: Nat, start: Nat, end: Nat]]
    BY <1>12, <2>3 DEF reserve_ordinal_range, found, merged, TypeOK
  <2> QED BY <1>12, <2>5, <2>6 DEF reserve_ordinal_range, TypeOK
<1>13. ASSUME NEW p \in Proc, publish_pending_cas(p) PROVE TypeOK'
  BY <1>13 DEF publish_pending_cas, PublishObjects, TypeOK
<1>14. ASSUME NEW p \in Proc, PersistRefused(p) PROVE TypeOK'
  <2>1. PICK stale \in SUBSET OfKind(mem[p].refs, "file") :
          mem' = [mem EXCEPT ![p] = WithRefs(mem[p], mem[p].refs \ stale)] /\ GiveUp(p, stale)
    BY <1>14 DEF PersistRefused
  <2>2. WithRefs(mem[p], mem[p].refs \ stale) \in State
    BY WithRefsType DEF TypeOK, State
  <2>3. mem' \in [Proc -> State] /\ acked' \subseteq Ref
    BY <2>1, <2>2 DEF TypeOK, GiveUp
  <2> QED BY <1>14, <2>3, SMTT(30) DEF PersistRefused, TypeOK
<1>15. ASSUME NEW p \in Proc, try_append_session_journal(p) PROVE TypeOK'
  <2>1. session_delta(mem[p], session[p]) \in State
    BY DeltaType DEF TypeOK
  <2>2. wal' \in State \cup {NoWal}
    BY <1>15, <2>1, MergeType DEF try_append_session_journal, ComposeRecords, ReplayRecord, TypeOK
  <2>3. Bindings(mem[p]) \subseteq Alias \X Ref /\ mem[p].refs \subseteq Ref
    BY BindingsType DEF TypeOK, State
  <2>4. acked' \subseteq Ref /\ ackedAliases' \subseteq Alias \X Ref /\ removed' \subseteq Ref
    BY <1>15, <2>3 DEF try_append_session_journal, Vouch, TypeOK
  <2>5. pending' \in [Proc -> [blobs: SUBSET Ref, aliases: SUBSET Alias]]
    BY <1>15 DEF try_append_session_journal, TypeOK, NoPending
  <2>6. walId' \in [Proc -> {"None", "Current", "Stale"}]
    BY <1>15 DEF try_append_session_journal, TypeOK, Outdated
  <2> QED BY <1>15, <2>2, <2>4, <2>5, <2>6 DEF try_append_session_journal, TypeOK
<1>16. ASSUME NEW p \in Proc, PublishRename(p) PROVE TypeOK'
  <2>1. Bindings(mem[p]) \subseteq Alias \X Ref /\ mem[p].refs \subseteq Ref
    BY BindingsType DEF TypeOK, State
  <2>2. acked' \subseteq Ref /\ ackedAliases' \subseteq Alias \X Ref /\ removed' \subseteq Ref
    BY <1>16, <2>1 DEF PublishRename, Vouch, TypeOK
  <2>3. diskId' \in [Proc -> {"None", "Current", "Stale"}]
    BY <1>16 DEF PublishRename, TypeOK, Outdated
  <2>4. grants' \in Seq([gen: Nat, start: Nat, end: Nat])
    <3>1. range[p] \in [gen: Nat, start: Nat, end: Nat]
      BY DEF TypeOK
    <3>2. Append(grants, range[p]) \in Seq([gen: Nat, start: Nat, end: Nat])
      BY <3>1 DEF TypeOK
    <3> QED BY <1>16, <3>2 DEF PublishRename, TypeOK
  <2> QED BY <1>16, <2>2, <2>3, <2>4 DEF PublishRename, TypeOK
<1>17. ASSUME NEW p \in Proc, PublishRetire(p) PROVE TypeOK'
  <2>1. pending' \in [Proc -> [blobs: SUBSET Ref, aliases: SUBSET Alias]]
    BY <1>17 DEF PublishRetire, TypeOK, NoPending
  <2>2. walId' \in [Proc -> {"None", "Current", "Stale"}]
    BY <1>17 DEF PublishRetire, TypeOK, Outdated
  <2>3. range' \in [Proc -> [gen: Nat, start: Nat, end: Nat]]
    BY <1>17 DEF PublishRetire, TypeOK, NoRange
  <2>4. removed' \subseteq Ref
    BY <1>17 DEF PublishRetire, TypeOK
  <2>5. /\ pc' \in [Proc -> {"down", "loading", "loadingFresh", "opening", "idle",
                             "publishing", "renamed", "committed"}]
        /\ op' \in [Proc -> {"none", "persist", "durable", "durableCas", "externalize",
                             "republish", "reserve", "cas"}]
    BY <1>17 DEF PublishRetire, TypeOK
  <2> QED BY <1>17, <2>1, <2>2, <2>3, <2>4, <2>5 DEF PublishRetire, TypeOK
<1>18. ASSUME NEW p \in Proc, externalize_large_pending_cas_locked(p) PROVE TypeOK'
  BY <1>18 DEF externalize_large_pending_cas_locked, PublishObjects, TypeOK
<1>19. ASSUME NEW p \in Proc, PersistReturn(p) PROVE TypeOK'
  BY <1>19 DEF PersistReturn, TypeOK
<1>20. ASSUME NEW p \in Proc, PublishFails(p) PROVE TypeOK'
  BY <1>20 DEF PublishFails, TypeOK, NoRange
<1>21. ASSUME NEW p \in Proc, Crash(p) PROVE TypeOK'
  BY <1>21 DEF Crash, Reset, TypeOK, NoRange, NoPending
<1>22. ASSUME Environment PROVE TypeOK'
  BY <1>22 DEF Environment, LoseStore, LoseSnapshot, CorruptSnapshot, TypeOK, Outdated
<1>23. ASSUME NEW p \in Proc, RewriteOnly(p) PROVE TypeOK'
  BY <1>23 DEF RewriteOnly, TypeOK
<1>24. CASE UNCHANGED vars
  BY <1>24 DEF vars, TypeOK
<1> QED
  BY <1>1, <1>2, <1>3, <1>4, <1>5, <1>6, <1>7, <1>8, <1>9, <1>10, <1>11, <1>12, <1>13,
     <1>14, <1>15, <1>16, <1>17, <1>18, <1>19, <1>20, <1>21, <1>22, <1>23, <1>24
     DEF Next, Open, Mutate, Acquire, Publish, persist_pending, persist_pending_durable,
         prune_stale

(* Every variable of the store keeps its type, whatever the faults. *)
THEOREM TypeCorrect == Spec => []TypeOK
BY TypeInit, TypeStep, PTL DEF Spec

-----------------------------------------------------------------------------
(* No ordinal is granted twice, and no unreadable snapshot is overwritten, *)
(* for every number of processes and every ordinal bound.                  *)

(* A state covers a grant when an allocation that starts from the state    *)
(* cannot hand out an ordinal of the grant again.                          *)
Covers(s, g) == g.gen < s.gen \/ (g.gen = s.gen /\ g.end <= s.next)
CoversAll(s) == \A i \in DOMAIN grants : Covers(s, grants[i])

GrantsBelowFloor == \A i \in DOMAIN grants : grants[i].gen <= Floor

SnapshotOrdinals == IsState(snap) => snap.gen <= Floor /\ CoversAll(snap)

JournalOrdinals == wal # NoWal => snap # NoSnap /\ wal.gen = 1 /\ wal.next = 1

MemoryBelowFloor == \A p \in Proc : mem[p].gen <= Floor

(* A store whose state is about to be published, or that would skip the    *)
(* reload, covers every grant.                                             *)
TrustedCovers ==
  \A p \in Proc : Locked(p) \/ unchanged_since_last_write(p) => CoversAll(mem[p])

OpeningCovers ==
  \A p \in Proc :
    /\ pc[p] = "loadingFresh" => snap = NoSnap
    /\ pc[p] = "loading" => IsState(snap) /\ mem[p] = snap
    /\ pc[p] = "opening" => IsState(snap) /\ CoversAll(mem[p])

ReservationFresh ==
  \A p \in Proc : pc[p] = "publishing" /\ op[p] = "reserve" =>
    /\ range[p].gen = mem[p].gen /\ range[p].end = mem[p].next
    /\ range[p].start <= range[p].end
    /\ \A i \in DOMAIN grants : grants[i].gen = range[p].gen => grants[i].end <= range[p].start

OneWriter == \A p, q \in Proc : Locked(p) /\ Locked(q) => p = q

WriterReadable ==
  \A p \in Proc : /\ Locked(p) => snap # Unreadable
                  /\ Locked(p) /\ fast[p] => snap # NoSnap

IdentityReadable == \A p \in Proc : diskId[p] = "Current" => IsState(snap)

(* Between the rename and the retirement of the journal, whoever knows the *)
(* new snapshot also knows the journal, so the retirement outdates it.     *)
RetireSafe ==
  (\E p \in Proc : pc[p] = "renamed") /\ wal # NoWal =>
    \A q \in Proc : diskId[q] = "Current" => walId[q] # "None"

RenamedPresent == \A p \in Proc : pc[p] = "renamed" => snap # NoSnap

OrdinalInv ==
  /\ TypeOK
  /\ OrdinalsNeverReissued
  /\ GrantsBelowFloor
  /\ SnapshotOrdinals
  /\ JournalOrdinals
  /\ MemoryBelowFloor
  /\ TrustedCovers
  /\ OpeningCovers
  /\ ReservationFresh
  /\ OneWriter
  /\ WriterReadable
  /\ IdentityReadable
  /\ RetireSafe
  /\ RenamedPresent

-----------------------------------------------------------------------------
LEMMA MergeOrdinals ==
  ASSUME NEW e \in State, NEW c \in State, NEW S,
         NEW g \in [gen: Nat, start: Nat, end: Nat]
  PROVE  LET m == merge_states(e, c, S) IN
         /\ Covers(e, g) => Covers(m, g)
         /\ m.gen = e.gen \/ m.gen = c.gen
<1>1. e.gen \in Nat /\ e.next \in Nat /\ c.gen \in Nat /\ c.next \in Nat
  BY DEF State
<1>2. g.gen \in Nat /\ g.end \in Nat
  OBVIOUS
<1> QED BY <1>1, <1>2 DEF merge_states, MergedGen, MergedNext, Covers

(* The counters of what a reload finds are those of the snapshot. *)
LEMMA OnDiskOrdinals ==
  ASSUME OrdinalInv, IsState(snap)
  PROVE  OnDisk \in State /\ OnDisk.gen = snap.gen /\ OnDisk.next = snap.next
<1>1. snap \in State /\ snap # NoSnap
  BY DEF IsState, OrdinalInv, TypeOK
<1>2. OnDisk \in State
  BY <1>1, LoadType DEF OnDisk, OrdinalInv, TypeOK
<1>3. snap.gen \in Nat \ {0} /\ snap.next \in Nat \ {0}
  BY <1>1 DEF State
<1>4. wal # NoWal => wal.gen = 1 /\ wal.next = 1
  BY DEF OrdinalInv, JournalOrdinals
<1> QED
  BY <1>1, <1>2, <1>3, <1>4 DEF OnDisk, load_state, ReplayRecord, merge_states, MergedGen, MergedNext

LEMMA FloorType ==
  ASSUME TypeOK PROVE Floor \in Nat /\ Floor >= 1 /\ side <= Floor
BY DEF TypeOK, Floor

LEMMA GrantType ==
  ASSUME TypeOK, NEW i \in DOMAIN grants
  PROVE  grants[i] \in [gen: Nat, start: Nat, end: Nat]
<1> DEFINE G == [gen: Nat, start: Nat, end: Nat]
<1>1. grants \in Seq(G)
  BY DEF TypeOK
<1> HIDE DEF G
<1>2. grants[i] \in G
  BY <1>1
<1> QED BY <1>2 DEF G

(* What a reload and merge leave behind covers every grant, and the        *)
(* sidecar it raised is its new floor.                                     *)
LEMMA ReloadOrdinals ==
  ASSUME OrdinalInv, CanReload, NEW m \in State, m.gen <= Floor, NEW S
  PROVE  LET found  == Reloaded(m)
             merged == merge_states(found.base, found.mine, S)
         IN /\ merged \in State /\ CoversAll(merged)
            /\ found.side \in Nat /\ found.side >= Floor /\ merged.gen <= found.side
<1> DEFINE found  == Reloaded(m)
           merged == merge_states(found.base, found.mine, S)
<1>1. TypeOK
  BY DEF OrdinalInv
<1>2. found.base \in State /\ found.mine \in State /\ found.side \in Nat
  BY <1>1, ReloadedType DEF CanReload
<1>3. merged \in State
  BY <1>2, MergeType
<1>4. m.gen \in Nat /\ Floor \in Nat /\ side \in Nat /\ side <= Floor
  BY <1>1, FloorType DEF State, TypeOK
<1>5. /\ \A i \in DOMAIN grants : Covers(found.base, grants[i])
      /\ found.base.gen <= found.side /\ found.mine.gen <= found.side /\ found.side >= Floor
  <2>1. CASE StoreAbsent
    <3> DEFINE g == NextGeneration(side)
    <3>1. g \in Nat /\ g > Floor
      BY <1>4 DEF NextGeneration, Floor
    <3>2. found = [base |-> WithOrdinals(Empty, g, 1), mine |-> WithOrdinals(m, g, 1), side |-> g]
      BY <2>1 DEF Reloaded
    <3> HIDE DEF g, found
    <3>3. found.base.gen = g /\ found.mine.gen = g /\ found.side = g
      BY <3>2 DEF WithOrdinals
    <3>4. ASSUME NEW i \in DOMAIN grants PROVE Covers(found.base, grants[i])
      <4>1. grants[i].gen \in Nat /\ grants[i].gen <= Floor
        BY <1>1, GrantType DEF OrdinalInv, GrantsBelowFloor
      <4> QED BY <1>4, <3>1, <3>3, <4>1 DEF Covers
    <3> QED BY <1>4, <3>1, <3>3, <3>4
  <2>2. CASE ~StoreAbsent
    <3>1. IsState(snap)
      BY <2>2 DEF StoreAbsent, IsState, CanReload, OrdinalInv, JournalOrdinals
    <3>2. OnDisk \in State /\ OnDisk.gen = snap.gen /\ OnDisk.next = snap.next
      BY <3>1, OnDiskOrdinals
    <3>3. found = [base |-> OnDisk, mine |-> m, side |-> IF side < OnDisk.gen THEN OnDisk.gen ELSE side]
      BY <2>2 DEF Reloaded
    <3> HIDE DEF found
    <3>4. OnDisk.gen \in Nat \ {0} /\ OnDisk.gen <= Floor
      BY <3>1, <3>2 DEF State, OrdinalInv, SnapshotOrdinals
    <3>5. found.side >= Floor /\ found.side >= OnDisk.gen
      BY <1>4, <3>3, <3>4 DEF Floor
    <3>6. \A i \in DOMAIN grants : Covers(snap, grants[i])
      BY <3>1 DEF OrdinalInv, SnapshotOrdinals, CoversAll
    <3>7. \A i \in DOMAIN grants : Covers(OnDisk, grants[i])
      BY <3>2, <3>6 DEF Covers
    <3>8. found.base = OnDisk /\ found.mine = m
      BY <3>3
    <3> QED BY <1>2, <1>4, <3>4, <3>5, <3>7, <3>8
  <2> QED BY <2>1, <2>2
<1> HIDE DEF found
<1>6. CoversAll(merged)
  BY <1>1, <1>2, <1>5, GrantType, MergeOrdinals DEF CoversAll
<1>7. merged.gen = found.base.gen \/ merged.gen = found.mine.gen
  BY <1>2 DEF merge_states, MergedGen
<1> QED BY <1>2, <1>3, <1>5, <1>6, <1>7 DEF found

-----------------------------------------------------------------------------
LEMMA OrdinalInit == Init => OrdinalInv
<1> SUFFICES ASSUME Init PROVE OrdinalInv
  OBVIOUS
<1>1. TypeOK
  BY TypeInit
<1>2. LegacySnapshot.gen = 1 /\ LegacySnapshot.next = LegacyNext /\ Empty.gen = 1
  BY DEF LegacySnapshot, WithOrdinals, Empty
<1>3. \A i \in DOMAIN grants : /\ i = 1 /\ snap = LegacySnapshot
                              /\ grants[i] = [gen |-> 1, start |-> 1, end |-> LegacyNext]
  BY DEF Init
<1>4. Floor = 1
  BY DEF Init, Floor
<1>5. OrdinalsNeverReissued /\ GrantsBelowFloor
  BY <1>3, <1>4 DEF OrdinalsNeverReissued, GrantsBelowFloor
<1>6. SnapshotOrdinals
  <2>1. IsState(snap) => snap = LegacySnapshot
    BY DEF Init, IsState
  <2>2. ASSUME NEW i \in DOMAIN grants PROVE grants[i].gen = 1 /\ grants[i].end = LegacyNext
    <3>1. grants[i] = [gen |-> 1, start |-> 1, end |-> LegacyNext]
      BY <1>3
    <3> QED BY <3>1
  <2>3. LegacyNext <= LegacyNext
    BY StoreConstants
  <2> QED BY <1>2, <1>4, <2>1, <2>2, <2>3 DEF SnapshotOrdinals, CoversAll, Covers
<1>7. TrustedCovers /\ OneWriter /\ WriterReadable /\ RetireSafe /\ ReservationFresh
      /\ RenamedPresent
  BY DEF Init, RenamedPresent, TrustedCovers, OneWriter, WriterReadable, RetireSafe, ReservationFresh, Locked,
         unchanged_since_last_write
<1>8. JournalOrdinals /\ MemoryBelowFloor
  BY <1>2, <1>4 DEF Init, JournalOrdinals, MemoryBelowFloor
<1>9. OpeningCovers /\ IdentityReadable
  BY DEF Init, OpeningCovers, IdentityReadable
<1> QED BY <1>1, <1>5, <1>6, <1>7, <1>8, <1>9 DEF OrdinalInv

(* A step that moves nothing but the memory of idle stores, and leaves     *)
(* their ordinal counters alone.                                           *)
LEMMA OrdinalQuiet ==
  ASSUME OrdinalInv, TypeOK', UNCHANGED <<disk, pc, op, ids, fast, range, grants>>,
         \A q \in Proc : /\ mem'[q].gen = mem[q].gen /\ mem'[q].next = mem[q].next
                         /\ pc[q] # "idle" => mem'[q] = mem[q]
  PROVE  OrdinalInv'
<1> USE DEF disk, ids
<1>1. OrdinalsNeverReissued' /\ GrantsBelowFloor' /\ JournalOrdinals' /\ MemoryBelowFloor'
  BY DEF OrdinalInv, OrdinalsNeverReissued, GrantsBelowFloor, JournalOrdinals, MemoryBelowFloor, Floor
<1>2. SnapshotOrdinals' /\ OneWriter' /\ WriterReadable' /\ IdentityReadable' /\ RetireSafe'
      /\ RenamedPresent'
  BY DEF OrdinalInv, RenamedPresent, SnapshotOrdinals, OneWriter, WriterReadable, IdentityReadable, RetireSafe,
         Locked, IsState, CoversAll, Floor
<1>3. TrustedCovers'
  BY DEF OrdinalInv, TrustedCovers, Locked, unchanged_since_last_write, SnapUnchanged,
         WalUnchanged, CoversAll, Covers
<1>4. OpeningCovers' /\ ReservationFresh'
  BY DEF OrdinalInv, OpeningCovers, ReservationFresh, IsState, CoversAll, Covers
<1> QED BY <1>1, <1>2, <1>3, <1>4 DEF OrdinalInv

(* A store takes the lock with a state that covers every grant and lies    *)
(* below the floor the sidecar now has.                                    *)
LEMMA OrdinalAcquire ==
  ASSUME OrdinalInv, TypeOK', NEW p \in Proc, LockFree, snap # Unreadable,
         UNCHANGED <<snap, wal, ids, grants>>,
         Floor' >= Floor, CoversAll(mem'[p]), mem'[p].gen <= Floor',
         \A q \in Proc \ {p} : /\ mem'[q] = mem[q] /\ pc'[q] = pc[q] /\ op'[q] = op[q]
                               /\ range'[q] = range[q] /\ fast'[q] = fast[q],
         pc'[p] = "publishing",
         fast'[p] => snap # NoSnap,
         op'[p] = "reserve" =>
           /\ range'[p].gen = mem'[p].gen /\ range'[p].end = mem'[p].next
           /\ range'[p].start <= range'[p].end
           /\ \A i \in DOMAIN grants : grants[i].gen = range'[p].gen => grants[i].end <= range'[p].start
  PROVE  OrdinalInv'
<1> USE DEF ids
<1>1. Floor \in Nat /\ Floor' \in Nat
  <2>1. TypeOK
    BY DEF OrdinalInv
  <2> QED BY <2>1 DEF TypeOK, Floor
<1>2. OrdinalsNeverReissued' /\ JournalOrdinals'
  BY DEF OrdinalInv, OrdinalsNeverReissued, JournalOrdinals
<1>3. GrantsBelowFloor'
  <2>1. \A i \in DOMAIN grants : grants[i].gen \in Nat /\ grants[i].gen <= Floor
    BY GrantType DEF OrdinalInv, GrantsBelowFloor
  <2> QED BY <1>1, <2>1 DEF GrantsBelowFloor
<1>4. SnapshotOrdinals'
  <2>1. IsState(snap) => snap.gen \in Nat /\ snap.gen <= Floor /\ CoversAll(snap)
    BY DEF OrdinalInv, SnapshotOrdinals, TypeOK, IsState, State
  <2> QED BY <1>1, <2>1 DEF SnapshotOrdinals, CoversAll, IsState
<1>5. MemoryBelowFloor'
  <2>1. \A q \in Proc : mem[q].gen \in Nat /\ mem[q].gen <= Floor
    BY DEF OrdinalInv, MemoryBelowFloor, TypeOK, State
  <2> QED BY <1>1, <2>1 DEF MemoryBelowFloor
<1>6. \A q \in Proc \ {p} : ~Locked(q)'
  BY DEF LockFree, Locked
<1>7. TrustedCovers'
  BY <1>6 DEF OrdinalInv, TrustedCovers, unchanged_since_last_write, SnapUnchanged, WalUnchanged,
              CoversAll
<1>8. OpeningCovers' /\ ReservationFresh'
  BY <1>6 DEF OrdinalInv, OpeningCovers, ReservationFresh, IsState, CoversAll, Locked
<1>9. OneWriter' /\ WriterReadable' /\ IdentityReadable' /\ RetireSafe' /\ RenamedPresent'
  BY <1>6 DEF OrdinalInv, RenamedPresent, OneWriter, WriterReadable, IdentityReadable, RetireSafe, IsState, Locked
<1> QED BY <1>2, <1>3, <1>4, <1>5, <1>7, <1>8, <1>9 DEF OrdinalInv

-----------------------------------------------------------------------------
(* No write lands while a store opens, and the journal never outlives its  *)
(* snapshot: the runs open_race and orphan_journal show both to be needed. *)
(* Nor is the snapshot rewritten from a memory nobody compared with the    *)
(* disk: by publish_pending_cas outside a persist, or by a durable persist *)
(* after a memo hit.                                                       *)
Undisturbed == QuietOpen /\ "orphan" \notin Faults /\ ~CasRetries /\ ~MemoHits

(* Without memo hits no persist takes the early return. *)
NeverSkips == \A p \in Proc : ~skip[p]

LEMMA NeverSkipsInit == Init => NeverSkips
BY DEF Init, NeverSkips

LEMMA NeverSkipsStep ==
  ASSUME Undisturbed PROVE TypeOK /\ NeverSkips /\ [Next]_vars => NeverSkips'
<1> SUFFICES ASSUME TypeOK, NeverSkips, [Next]_vars PROVE NeverSkips'
  OBVIOUS
<1> USE DEF disk, store, ids, ghost
<1>1. skip' = skip \/ \E p \in Proc : skip' = [skip EXCEPT ![p] = FALSE]
  <2>1. ASSUME NEW p \in Proc, Open(p) \/ Publish(p) \/ publish_pending_cas(p)
        PROVE  skip' = skip
    BY <2>1 DEF Open, OpenSnapshot, OpenJournal, OpenIdentify, Publish, try_append_session_journal,
         PublishRename, PublishRetire, externalize_large_pending_cas_locked, PersistReturn,
         PublishFails, publish_pending_cas
  <2>2. ASSUME NEW p \in Proc, NEW count, reserve_ordinal_range(p, count) PROVE skip' = skip
    BY <2>2 DEF reserve_ordinal_range
  <2>3. ASSUME NEW p \in Proc, Mutate(p) PROVE skip' = [skip EXCEPT ![p] = FALSE]
    BY <2>3 DEF Mutate, store_alias_deferred, store_payload_deferred, admit_memoized_payload,
         remove_blob, remove_alias, mark_ambiguous, Undisturbed
  <2>4. ASSUME NEW p \in Proc, NEW D, NEW k, PersistLocked(p, D, k)
        PROVE  skip' = [skip EXCEPT ![p] = FALSE]
    BY <2>4 DEF PersistLocked
  <2>5. ASSUME NEW p \in Proc,
               persist_skip_empty(p) \/ RewriteOnly(p) \/ PersistRefused(p) \/ Crash(p)
        PROVE  skip' = [skip EXCEPT ![p] = FALSE]
    BY <2>5 DEF persist_skip_empty, RewriteOnly, PersistRefused, Crash, Reset
  <2>6. ASSUME Environment \/ UNCHANGED vars PROVE skip' = skip
    BY <2>6 DEF Environment, LoseStore, LoseSnapshot, CorruptSnapshot, vars
  <2> QED
    BY <2>1, <2>2, <2>3, <2>4, <2>5, <2>6
       DEF Next, Acquire, persist_pending, persist_pending_durable, prune_stale
<1> QED BY <1>1 DEF TypeOK, NeverSkips

LEMMA OrdinalOpen ==
  ASSUME OrdinalInv, TypeOK', NEW p \in Proc, Open(p)
  PROVE  OrdinalInv'
<1> USE DEF disk, store, ids, ghost
<1>1. UNCHANGED <<snap, wal, side, op, fast, range, grants>>
  BY DEF Open, OpenSnapshot, OpenJournal, OpenIdentify
<1>2. \A q \in Proc \ {p} : /\ mem'[q] = mem[q] /\ pc'[q] = pc[q]
                            /\ diskId'[q] = diskId[q] /\ walId'[q] = walId[q]
  <2>1. CASE OpenSnapshot(p)
    BY <2>1 DEF OpenSnapshot, OrdinalInv, TypeOK
  <2>2. CASE OpenJournal(p)
    BY <2>2 DEF OpenJournal, OrdinalInv, TypeOK
  <2>3. CASE OpenIdentify(p)
    BY <2>3 DEF OpenIdentify, OrdinalInv, TypeOK
  <2> QED BY <2>1, <2>2, <2>3 DEF Open
<1>3. pc[p] \in {"down", "loading", "loadingFresh", "opening"}
      /\ pc'[p] \in {"loading", "loadingFresh", "opening", "idle"}
  BY DEF Open, OpenSnapshot, OpenJournal, OpenIdentify, OrdinalInv, TypeOK
<1>4. \A q \in Proc : Locked(q)' <=> Locked(q)
  BY <1>2, <1>3 DEF Locked
<1>5. OrdinalsNeverReissued' /\ JournalOrdinals' /\ GrantsBelowFloor' /\ SnapshotOrdinals'
  BY <1>1 DEF OrdinalInv, OrdinalsNeverReissued, JournalOrdinals, GrantsBelowFloor,
              SnapshotOrdinals, IsState, Floor, CoversAll
<1>6. OneWriter' /\ WriterReadable' /\ ReservationFresh' /\ RenamedPresent'
  BY <1>1, <1>2, <1>3, <1>4 DEF OrdinalInv, RenamedPresent, OneWriter, WriterReadable, ReservationFresh
<1>7. MemoryBelowFloor' /\ OpeningCovers' /\ TrustedCovers' /\ IdentityReadable' /\ RetireSafe'
  <2>1. CASE OpenSnapshot(p)
    <3>1. mem'[p] = IF IsState(snap) THEN snap ELSE Empty
      BY <2>1 DEF OpenSnapshot, OrdinalInv, TypeOK
    <3>2. MemoryBelowFloor'
      <4>1. Empty.gen = 1 /\ 1 <= Floor
        BY FloorType DEF Empty, OrdinalInv
      <4> QED BY <1>1, <1>2, <3>1, <4>1 DEF MemoryBelowFloor, OrdinalInv, SnapshotOrdinals, Floor
    <3>3. UNCHANGED ids /\ (pc'[p] = "loading" => IsState(snap)) /\ pc'[p] # "opening"
          /\ (pc'[p] = "loadingFresh" => snap = NoSnap)
      BY <2>1 DEF OpenSnapshot, OrdinalInv, TypeOK, IsState
    <3>4. OpeningCovers'
      BY <1>1, <1>2, <3>1, <3>3 DEF OrdinalInv, OpeningCovers, IsState, CoversAll
    <3>5. TrustedCovers'
      <4>1. unchanged_since_last_write(p) => IsState(snap)
        BY DEF unchanged_since_last_write, SnapUnchanged, OrdinalInv, IdentityReadable, IsState
      <4>2. unchanged_since_last_write(p)' => CoversAll(mem'[p])
        BY <1>1, <3>1, <3>3, <4>1 DEF unchanged_since_last_write, SnapUnchanged, WalUnchanged,
             OrdinalInv, SnapshotOrdinals
      <4> QED BY <1>1, <1>2, <1>3, <1>4, <3>3, <4>2 DEF OrdinalInv, TrustedCovers, Locked,
            unchanged_since_last_write, SnapUnchanged, WalUnchanged, CoversAll
    <3>6. IdentityReadable' /\ RetireSafe'
      BY <1>1, <1>2, <1>3, <3>3 DEF OrdinalInv, IdentityReadable, RetireSafe, IsState
    <3> QED BY <3>2, <3>4, <3>5, <3>6
  <2>2. CASE OpenJournal(p)
    <3>1. UNCHANGED ids /\ mem'[p] = load_state(mem[p], wal)
      BY <2>2 DEF OpenJournal, OrdinalInv, TypeOK
    <3>2. CASE pc[p] = "loading"
      <4>1. mem[p] = snap /\ IsState(snap)
        BY <3>2 DEF OrdinalInv, OpeningCovers
      <4>2. mem'[p] = OnDisk
        BY <3>1, <4>1 DEF OnDisk
      <4>3. mem'[p].gen = snap.gen /\ mem'[p].next = snap.next
        BY <4>1, <4>2, OnDiskOrdinals
      <4>4. CoversAll(mem'[p]) /\ mem'[p].gen <= Floor
        BY <4>1, <4>3 DEF OrdinalInv, SnapshotOrdinals, CoversAll, Covers
      <4>5. MemoryBelowFloor'
        BY <1>1, <1>2, <4>4 DEF OrdinalInv, MemoryBelowFloor, Floor
      <4>6. pc'[p] = "opening"
        BY <2>2, <3>2 DEF OpenJournal, OrdinalInv, TypeOK
      <4>7. OpeningCovers'
        BY <1>1, <1>2, <4>1, <4>4, <4>6 DEF OrdinalInv, OpeningCovers, IsState, CoversAll
      <4>8. TrustedCovers'
        BY <1>1, <1>2, <1>4, <3>1, <4>4 DEF OrdinalInv, TrustedCovers,
             unchanged_since_last_write, SnapUnchanged, WalUnchanged, CoversAll
      <4>9. IdentityReadable' /\ RetireSafe'
        BY <1>1, <1>2, <1>3, <3>1 DEF OrdinalInv, IdentityReadable, RetireSafe, IsState
      <4> QED BY <4>5, <4>7, <4>8, <4>9
    <3>3. CASE pc[p] = "loadingFresh"
      <4>1. snap = NoSnap /\ wal = NoWal
        BY <3>3 DEF OrdinalInv, OpeningCovers, JournalOrdinals
      <4>2. mem'[p] = mem[p] \/ mem'[p] = Empty
        BY <3>1, <4>1 DEF load_state
      <4>3. pc'[p] = "idle"
        BY <2>2, <3>3, <4>1 DEF OpenJournal, OrdinalInv, TypeOK
      <4>4. MemoryBelowFloor'
        <5>1. Empty.gen = 1 /\ 1 <= Floor
          BY FloorType DEF Empty, OrdinalInv
        <5> QED BY <1>1, <1>2, <4>2, <5>1 DEF OrdinalInv, MemoryBelowFloor, Floor
      <4>5. OpeningCovers'
        BY <1>1, <1>2, <4>3 DEF OrdinalInv, OpeningCovers, IsState, CoversAll
      <4>6. ~unchanged_since_last_write(p)'
        BY <1>1, <4>1 DEF unchanged_since_last_write, SnapUnchanged
      <4>7. TrustedCovers'
        BY <1>1, <1>2, <1>3, <1>4, <4>6 DEF OrdinalInv, TrustedCovers, Locked,
             unchanged_since_last_write, SnapUnchanged, WalUnchanged, CoversAll
      <4>8. IdentityReadable' /\ RetireSafe'
        BY <1>1, <1>2, <1>3, <3>1 DEF OrdinalInv, IdentityReadable, RetireSafe, IsState
      <4> QED BY <4>4, <4>5, <4>7, <4>8
    <3> QED BY <2>2, <3>2, <3>3 DEF OpenJournal
  <2>3. CASE OpenIdentify(p)
    <3>1. mem' = mem /\ pc[p] = "opening" /\ pc'[p] = "idle"
      BY <2>3 DEF OpenIdentify, OrdinalInv, TypeOK
    <3>2. IsState(snap) /\ CoversAll(mem[p])
      BY <3>1 DEF OrdinalInv, OpeningCovers
    <3>3. MemoryBelowFloor' /\ OpeningCovers'
      BY <1>1, <1>2, <3>1 DEF OrdinalInv, MemoryBelowFloor, OpeningCovers, IsState, CoversAll, Floor
    <3>4. TrustedCovers'
      BY <1>1, <1>2, <1>4, <3>1, <3>2 DEF OrdinalInv, TrustedCovers,
           unchanged_since_last_write, SnapUnchanged, WalUnchanged, CoversAll
    <3>5. IdentityReadable'
      BY <1>1, <1>2, <3>2 DEF OrdinalInv, IdentityReadable, IsState
    <3>6. wal # NoWal => walId'[p] # "None"
      BY <2>3 DEF OpenIdentify, OrdinalInv, TypeOK
    <3>7. RetireSafe'
      BY <1>1, <1>2, <3>1, <3>6 DEF OrdinalInv, RetireSafe
    <3> QED BY <3>3, <3>4, <3>5, <3>7
  <2> QED BY <2>1, <2>2, <2>3 DEF Open
<1> QED BY <1>5, <1>6, <1>7 DEF OrdinalInv

LEMMA OrdinalMutate ==
  ASSUME OrdinalInv, TypeOK', NEW p \in Proc,
         Mutate(p) \/ persist_skip_empty(p) \/ PersistRefused(p)
  PROVE  OrdinalInv'
<1> USE DEF disk, store, ids, ghost
<1>1. UNCHANGED <<disk, pc, op, ids, fast, range, grants>>
  BY DEF Mutate, store_alias_deferred, store_payload_deferred, admit_memoized_payload, remove_blob,
         remove_alias, mark_ambiguous, persist_skip_empty, PersistRefused
<1>2. mem' = mem \/ \E m : /\ pc[p] = "idle" /\ mem' = [mem EXCEPT ![p] = m]
                           /\ m.gen = mem[p].gen /\ m.next = mem[p].next
  <2>1. ASSUME NEW a, NEW t
        PROVE  /\ WithAlias(mem[p], a, t).gen = mem[p].gen
               /\ WithAlias(mem[p], a, t).next = mem[p].next
               /\ WithConflict(mem[p], a).gen = mem[p].gen
               /\ WithConflict(mem[p], a).next = mem[p].next
    <3>1. mem[p] \in State
      BY DEF OrdinalInv, TypeOK
    <3>2. WithConflict(mem[p], a).gen = mem[p].gen /\ WithConflict(mem[p], a).next = mem[p].next
      BY <3>1 DEF WithConflict, State
    <3> QED BY <3>2 DEF WithAlias
  <2>2. ASSUME NEW a, NEW t, store_alias_deferred(p, a, t) PROVE <1>2!2
    <3> WITNESS WithAlias(mem[p], a, t)
    <3> QED BY <2>1, <2>2 DEF store_alias_deferred
  <2>3. ASSUME NEW r, store_payload_deferred(p, r) PROVE <1>2!2
    <3> DEFINE put == IF r \in DOMAIN LegacyAlias THEN WithAlias(mem[p], LegacyAlias[r], r)
                      ELSE mem[p]
    <3>1. put.gen = mem[p].gen /\ put.next = mem[p].next
      BY <2>1
    <3>2. PICK kept : mem' = [mem EXCEPT ![p] = WithRefs(put, kept)]
      BY <2>3 DEF store_payload_deferred
    <3>3. WithRefs(put, kept).gen = put.gen /\ WithRefs(put, kept).next = put.next
      BY DEF WithRefs
    <3> HIDE DEF put
    <3> WITNESS WithRefs(put, kept)
    <3> QED BY <2>3, <3>1, <3>2, <3>3 DEF store_payload_deferred
  <2>4. ASSUME NEW r, remove_blob(p, r) PROVE <1>2!2
    <3> WITNESS apply_deletions(mem[p], {r}, {})
    <3> QED BY <2>4 DEF remove_blob, apply_deletions
  <2>5. ASSUME NEW a, remove_alias(p, a) PROVE <1>2!2
    <3> WITNESS apply_deletions(mem[p], {}, {a})
    <3> QED BY <2>5 DEF remove_alias, apply_deletions
  <2>6. ASSUME NEW a, mark_ambiguous(p, a) PROVE <1>2!2
    <3> WITNESS WithConflict(mem[p], a)
    <3> QED BY <2>1, <2>6 DEF mark_ambiguous
  <2>7. ASSUME PersistRefused(p) PROVE <1>2!2
    <3>1. PICK stale : mem' = [mem EXCEPT ![p] = WithRefs(mem[p], mem[p].refs \ stale)]
      BY <2>7 DEF PersistRefused
    <3>2. /\ WithRefs(mem[p], mem[p].refs \ stale).gen = mem[p].gen
          /\ WithRefs(mem[p], mem[p].refs \ stale).next = mem[p].next
      BY DEF WithRefs
    <3> WITNESS WithRefs(mem[p], mem[p].refs \ stale)
    <3> QED BY <2>7, <3>1, <3>2 DEF PersistRefused
  <2>8. ASSUME admit_memoized_payload(p) \/ persist_skip_empty(p) PROVE mem' = mem
    BY <2>8 DEF admit_memoized_payload, persist_skip_empty
  <2> QED BY <2>2, <2>3, <2>4, <2>5, <2>6, <2>7, <2>8 DEF Mutate
<1>3. \A q \in Proc : /\ mem'[q].gen = mem[q].gen /\ mem'[q].next = mem[q].next
                      /\ pc[q] # "idle" => mem'[q] = mem[q]
  <2>1. DOMAIN mem = Proc
    BY DEF OrdinalInv, TypeOK
  <2>2. CASE mem' = mem
    BY <2>2
  <2>3. CASE mem' # mem
    <3>1. PICK m : /\ pc[p] = "idle" /\ mem' = [mem EXCEPT ![p] = m]
                   /\ m.gen = mem[p].gen /\ m.next = mem[p].next
      BY <1>2, <2>3
    <3> QED BY <2>1, <3>1
  <2> QED BY <2>2, <2>3
<1> QED BY <1>1, <1>3, OrdinalQuiet

LEMMA OrdinalPersist ==
  ASSUME OrdinalInv, TypeOK', NEW p \in Proc, NEW D, NEW k \in {"persist", "durable"},
         PersistLocked(p, D, k)
  PROVE  OrdinalInv'
<1> USE DEF disk, store, ids, ghost
<1> DEFINE clean  == unchanged_since_last_write(p)
           mine   == WithRefs(mem[p], mem[p].refs \ D)
           found  == Reloaded(mine)
           merged == IF clean THEN mine ELSE merge_states(found.base, found.mine, session[p])
<1>1. TypeOK /\ LockFree /\ pc[p] = "idle" /\ (clean \/ CanReload)
  BY DEF OrdinalInv, PersistLocked
<1>2. clean => IsState(snap)
  BY <1>1 DEF unchanged_since_last_write, SnapUnchanged, OrdinalInv, IdentityReadable, IsState
<1>3. snap # Unreadable
  BY <1>1, <1>2 DEF IsState, CanReload
<1>4. mine \in State /\ mine.gen = mem[p].gen /\ mine.next = mem[p].next
  BY <1>1, WithRefsType, SMTT(30) DEF WithRefs, TypeOK, State
<1>5. mine.gen <= Floor
  BY <1>4 DEF OrdinalInv, MemoryBelowFloor
<1> HIDE DEF mine
<1>6. Floor' >= Floor /\ CoversAll(merged) /\ merged.gen <= Floor'
  <2>1. CASE clean
    <3>1. side' = side /\ merged = mine
      BY <2>1 DEF PersistLocked
    <3>2. CoversAll(mem[p])
      BY <2>1 DEF OrdinalInv, TrustedCovers
    <3>3. Floor \in Nat
      BY <1>1, FloorType
    <3> HIDE DEF merged
    <3> QED BY <1>4, <1>5, <3>1, <3>2, <3>3 DEF Floor, CoversAll, Covers
  <2>2. CASE ~clean
    <3>1. /\ merged \in State /\ CoversAll(merged)
          /\ found.side \in Nat /\ found.side >= Floor /\ merged.gen <= found.side
      BY <1>1, <1>4, <1>5, <2>2, ReloadOrdinals
    <3>2. side' = found.side
      BY <2>2 DEF PersistLocked, mine
    <3>3. Floor \in Nat /\ Floor >= 1
      BY <1>1, FloorType
    <3>4. Floor' = found.side
      BY <3>1, <3>2, <3>3 DEF Floor
    <3> QED BY <3>1, <3>4
  <2> QED BY <2>1, <2>2
<1> HIDE DEF merged
<1>7. PICK kept : mem' = [mem EXCEPT ![p] = apply_deletions(WithRefs(merged, kept),
                                      pending[p].blobs, pending[p].aliases)]
  BY DEF PersistLocked, merged, mine
<1>8. mem'[p].gen = merged.gen /\ mem'[p].next = merged.next
  BY <1>1, <1>7 DEF TypeOK, apply_deletions, WithRefs
<1>9. CoversAll(mem'[p]) /\ mem'[p].gen <= Floor'
  BY <1>6, <1>8 DEF CoversAll, Covers
<1>10. UNCHANGED <<snap, wal, ids, grants, range>>
  BY DEF PersistLocked
<1>11. /\ pc'[p] = "publishing" /\ op'[p] # "reserve" /\ (fast'[p] => snap # NoSnap)
       /\ \A q \in Proc \ {p} : /\ mem'[q] = mem[q] /\ pc'[q] = pc[q] /\ op'[q] = op[q]
                                /\ range'[q] = range[q] /\ fast'[q] = fast[q]
  <2>1. /\ pc' = [pc EXCEPT ![p] = "publishing"] /\ op' = [op EXCEPT ![p] = k]
        /\ fast' = [fast EXCEPT ![p] = clean /\ pending[p] = NoPending]
    BY DEF PersistLocked
  <2>2. clean => snap # NoSnap
    BY <1>2 DEF IsState
  <2>3. clean \in BOOLEAN
    BY DEF unchanged_since_last_write
  <2> HIDE DEF clean
  <2>4. fast'[p] => clean
    <3>1. DOMAIN fast = Proc
      BY <1>1 DEF TypeOK
    <3> QED BY <2>1, <3>1, Zenon
  <2> QED BY <1>1, <1>7, <1>10, <2>1, <2>2, <2>3, <2>4 DEF TypeOK
<1> QED BY <1>1, <1>3, <1>6, <1>9, <1>10, <1>11, OrdinalAcquire

LEMMA OrdinalReserve ==
  ASSUME OrdinalInv, TypeOK', NEW p \in Proc, NEW count \in Counts,
         reserve_ordinal_range(p, count)
  PROVE  OrdinalInv'
<1> USE DEF disk, store, ids, ghost
<1> DEFINE found  == Reloaded(mem[p])
           merged == merge_states(found.base, found.mine, session[p])
<1>1. TypeOK /\ LockFree /\ pc[p] = "idle" /\ CanReload
  BY DEF OrdinalInv, reserve_ordinal_range
<1>2. mem[p] \in State /\ mem[p].gen <= Floor
  BY <1>1 DEF TypeOK, OrdinalInv, MemoryBelowFloor
<1>3. /\ merged \in State /\ CoversAll(merged)
      /\ found.side \in Nat /\ found.side >= Floor /\ merged.gen <= found.side
  BY <1>1, <1>2, ReloadOrdinals
<1>4. count \in Nat \ {0}
  BY StoreConstants
<1>5. /\ side' = found.side
      /\ mem' = [mem EXCEPT ![p] = WithOrdinals(merged, merged.gen, merged.next + count)]
      /\ range' = [range EXCEPT ![p] = [gen |-> merged.gen, start |-> merged.next,
                                       end |-> merged.next + count]]
  BY DEF reserve_ordinal_range
<1> HIDE DEF found, merged
<1>6. Floor' = found.side
  <2>1. Floor \in Nat /\ Floor >= 1
    BY <1>1, FloorType
  <2> QED BY <1>3, <1>5, <2>1 DEF Floor
<1>7. mem'[p].gen = merged.gen /\ mem'[p].next = merged.next + count
  BY <1>1, <1>5 DEF TypeOK, WithOrdinals
<1>8. merged.gen \in Nat /\ merged.next \in Nat
  BY <1>3 DEF State
<1>9. \A i \in DOMAIN grants : grants[i].gen \in Nat /\ grants[i].end \in Nat
                               /\ Covers(merged, grants[i])
  BY <1>1, <1>3, GrantType DEF CoversAll
<1>10. CoversAll(mem'[p])
  BY <1>4, <1>7, <1>8, <1>9 DEF CoversAll, Covers
<1>11. range'[p].gen = merged.gen /\ range'[p].start = merged.next
       /\ range'[p].end = merged.next + count
  BY <1>1, <1>5 DEF TypeOK
<1>12. \A i \in DOMAIN grants : grants[i].gen = range'[p].gen => grants[i].end <= range'[p].start
  BY <1>8, <1>9, <1>11 DEF Covers
<1>13. range'[p].start <= range'[p].end
  BY <1>4, <1>8, <1>11
<1>14. UNCHANGED <<snap, wal, ids, grants>> /\ snap # Unreadable
  BY <1>1 DEF reserve_ordinal_range, CanReload
<1>15. /\ pc'[p] = "publishing" /\ ~fast'[p]
       /\ \A q \in Proc \ {p} : /\ mem'[q] = mem[q] /\ pc'[q] = pc[q] /\ op'[q] = op[q]
                                /\ range'[q] = range[q] /\ fast'[q] = fast[q]
  BY <1>1, <1>5 DEF reserve_ordinal_range, TypeOK
<1> QED
  BY <1>1, <1>3, <1>6, <1>7, <1>10, <1>11, <1>12, <1>13, <1>14, <1>15, OrdinalAcquire

LEMMA OrdinalAppend ==
  ASSUME Undisturbed, OrdinalInv, TypeOK', NEW p \in Proc, try_append_session_journal(p)
  PROVE  OrdinalInv'
<1> USE DEF disk, store, ids, ghost
<1>1. TypeOK /\ pc[p] = "publishing" /\ fast[p] /\ MayWrite
  BY DEF OrdinalInv, try_append_session_journal
<1>2. UNCHANGED <<snap, side, op, mem, diskId, fast, range, grants>>
  BY DEF try_append_session_journal
<1>3. pc' = [pc EXCEPT ![p] = "committed"] /\ walId' = [Outdated(walId) EXCEPT ![p] = "Current"]
  BY DEF try_append_session_journal
<1>4. Locked(p) /\ IsState(snap) /\ \A q \in Proc \ {p} : ~Locked(q)
  BY <1>1 DEF Locked, OrdinalInv, OneWriter, WriterReadable, IsState
<1>5. wal' # NoWal /\ wal'.gen = 1 /\ wal'.next = 1
  <2> DEFINE record == session_delta(mem[p], session[p])
  <2>1. record \in State /\ record.gen = 1 /\ record.next = 1
    BY <1>1, DeltaType DEF TypeOK, session_delta, Empty
  <2>2. wal' = IF wal = NoWal THEN record ELSE merge_states(wal, record, record.refs)
    BY DEF try_append_session_journal, ComposeRecords, ReplayRecord
  <2> HIDE DEF record
  <2>3. CASE wal = NoWal
    BY <2>1, <2>2, <2>3, NotStates
  <2>4. CASE wal # NoWal
    <3>1. wal \in State /\ wal.gen = 1 /\ wal.next = 1
      BY <1>1, <2>4 DEF TypeOK, OrdinalInv, JournalOrdinals
    <3>2. merge_states(wal, record, record.refs) \in State
      BY <2>1, <3>1, MergeType
    <3>3. wal'.gen = 1 /\ wal'.next = 1
      BY <2>1, <2>2, <2>4, <3>1 DEF merge_states, MergedGen, MergedNext
    <3> QED BY <2>2, <2>4, <3>2, <3>3, NotStates
  <2> QED BY <2>3, <2>4
<1>6. OrdinalsNeverReissued' /\ GrantsBelowFloor' /\ SnapshotOrdinals' /\ JournalOrdinals'
      /\ MemoryBelowFloor'
  BY <1>2, <1>4, <1>5 DEF OrdinalInv, OrdinalsNeverReissued, GrantsBelowFloor, SnapshotOrdinals,
       JournalOrdinals, MemoryBelowFloor, Floor, IsState, CoversAll
<1>7. \A q \in Proc \ {p} : walId'[q] # "Current" /\ pc'[q] = pc[q] /\ ~Locked(q)'
  BY <1>1, <1>3, <1>4 DEF TypeOK, Outdated, Locked
<1>8. TrustedCovers'
  BY <1>2, <1>4, <1>5, <1>7 DEF OrdinalInv, TrustedCovers, unchanged_since_last_write,
       WalUnchanged, CoversAll
<1>9. pc'[p] = "committed"
  BY <1>1, <1>3 DEF TypeOK
<1>10. OpeningCovers' /\ ReservationFresh' /\ OneWriter' /\ WriterReadable' /\ IdentityReadable'
       /\ RetireSafe' /\ RenamedPresent'
  BY <1>2, <1>4, <1>7, <1>9 DEF OrdinalInv, RenamedPresent, OpeningCovers, ReservationFresh, OneWriter,
       WriterReadable, IdentityReadable, RetireSafe, IsState, CoversAll, Locked
<1> QED BY <1>6, <1>8, <1>10 DEF OrdinalInv

LEMMA OrdinalRename ==
  ASSUME Undisturbed, OrdinalInv, TypeOK', NEW p \in Proc, PublishRename(p)
  PROVE  OrdinalInv'
<1> USE DEF disk, store, ids, ghost
<1>1. TypeOK /\ pc[p] = "publishing" /\ \A q \in Proc : ~Opening(q)
  BY DEF OrdinalInv, PublishRename, MayWrite, Undisturbed
<1>2. UNCHANGED <<wal, side, op, mem, walId, fast, range>> /\ snap' = mem[p]
  BY DEF PublishRename
<1>3. pc' = [pc EXCEPT ![p] = "renamed"]
      /\ diskId' \in {Outdated(diskId), [Outdated(diskId) EXCEPT ![p] = "None"]}
  BY DEF PublishRename, Outdated
<1>4. Locked(p) /\ \A q \in Proc \ {p} : ~Locked(q)
  BY <1>1 DEF Locked, OrdinalInv, OneWriter
<1>5. snap' \in State /\ snap' # NoSnap /\ snap' # Unreadable
  BY <1>1, <1>2, NotStates DEF TypeOK
<1>6. pc'[p] = "renamed" /\ \A q \in Proc \ {p} : pc'[q] = pc[q] /\ ~Locked(q)'
  BY <1>1, <1>3, <1>4 DEF TypeOK, Locked
<1>7. \A q \in Proc : diskId'[q] # "Current"
  <2>1. \A q \in Proc : Outdated(diskId)[q] # "Current"
    BY <1>1 DEF TypeOK, Outdated
  <2> QED BY <1>3, <2>1 DEF Outdated
<1>8. /\ OrdinalsNeverReissued' /\ GrantsBelowFloor'
      /\ \A i \in DOMAIN grants' : Covers(mem[p], grants'[i])
  <2>1. CoversAll(mem[p]) /\ mem[p].gen <= Floor
    BY <1>4 DEF OrdinalInv, TrustedCovers, MemoryBelowFloor
  <2>2. CASE op[p] # "reserve"
    <3>1. grants' = grants
      BY <2>2 DEF PublishRename
    <3> QED BY <1>2, <2>1, <3>1 DEF OrdinalInv, OrdinalsNeverReissued, GrantsBelowFloor, Floor, CoversAll
  <2>3. CASE op[p] = "reserve"
    <3> DEFINE n == Len(grants)
    <3>1. grants' = Append(grants, range[p])
      BY <2>3 DEF PublishRename
    <3>2. /\ range[p].gen = mem[p].gen /\ range[p].end = mem[p].next
          /\ \A i \in DOMAIN grants : grants[i].gen = range[p].gen => grants[i].end <= range[p].start
      BY <1>1, <2>3 DEF OrdinalInv, ReservationFresh
    <3>3. /\ n \in Nat /\ DOMAIN grants = 1..n /\ DOMAIN grants' = 1..(n + 1)
          /\ \A i \in 1..n : grants'[i] = grants[i]
          /\ grants'[n + 1] = range[p]
      <4> DEFINE G == [gen: Nat, start: Nat, end: Nat]
      <4>1. grants \in Seq(G) /\ range[p] \in G
        BY <1>1 DEF TypeOK
      <4> HIDE DEF G
      <4> QED BY <3>1, <4>1
    <3>4. mem[p].gen \in Nat /\ mem[p].next \in Nat
      BY <1>1 DEF TypeOK, State
    <3> HIDE DEF n
    <3>5. OrdinalsNeverReissued'
      <4> SUFFICES ASSUME NEW i \in 1..(n + 1), NEW j \in 1..(n + 1), i < j,
                          grants'[i].gen = grants'[j].gen
                   PROVE  grants'[i].end <= grants'[j].start
        BY <3>3 DEF OrdinalsNeverReissued
      <4>1. i \in 1..n
        BY <3>3
      <4>2. CASE j \in 1..n
        BY <3>3, <4>1, <4>2 DEF OrdinalInv, OrdinalsNeverReissued
      <4>3. CASE j = n + 1
        BY <3>2, <3>3, <4>1, <4>3
      <4> QED BY <3>3, <4>2, <4>3
    <3>6. ASSUME NEW i \in DOMAIN grants' PROVE grants'[i].gen <= Floor /\ Covers(mem[p], grants'[i])
      <4>1. CASE i \in 1..n
        BY <2>1, <3>3, <4>1 DEF OrdinalInv, GrantsBelowFloor, CoversAll
      <4>2. CASE i = n + 1
        BY <2>1, <3>2, <3>3, <3>4, <4>2 DEF Covers
      <4> QED BY <3>3, <4>1, <4>2
    <3> QED BY <1>2, <3>5, <3>6 DEF GrantsBelowFloor, Floor
  <2> QED BY <2>2, <2>3
<1>9. SnapshotOrdinals' /\ JournalOrdinals' /\ MemoryBelowFloor'
  BY <1>2, <1>5, <1>8 DEF OrdinalInv, SnapshotOrdinals, JournalOrdinals, MemoryBelowFloor, Floor,
       CoversAll
<1>10. TrustedCovers'
  BY <1>2, <1>5, <1>6, <1>7, <1>8 DEF TrustedCovers, unchanged_since_last_write, SnapUnchanged,
       CoversAll
<1>11. OpeningCovers' /\ ReservationFresh'
  BY <1>1, <1>6 DEF OpeningCovers, ReservationFresh, Opening, Locked
<1>12. OneWriter' /\ WriterReadable' /\ IdentityReadable' /\ RetireSafe' /\ RenamedPresent'
  BY <1>5, <1>6, <1>7 DEF RenamedPresent, OneWriter, WriterReadable, IdentityReadable, RetireSafe, Locked
<1> QED BY <1>8, <1>9, <1>10, <1>11, <1>12 DEF OrdinalInv

(* Retiring the journal makes no other store trust its memory. *)
LEMMA RetireForeign ==
  ASSUME OrdinalInv, NEW p \in Proc, PublishRetire(p),
         NEW q \in Proc \ {p}, unchanged_since_last_write(q)'
  PROVE  unchanged_since_last_write(q) /\ wal = NoWal
<1>1. TypeOK /\ pc[p] = "renamed" /\ snap' = snap /\ wal' = NoWal
  BY DEF OrdinalInv, PublishRetire
<1>2. diskId' = [diskId EXCEPT ![p] = "Current"] /\ walId' = [Outdated(walId) EXCEPT ![p] = "None"]
  BY DEF PublishRetire
<1>3. diskId[q] = diskId'[q] /\ walId'[q] = "None" /\ walId[q] = "None"
  BY <1>1, <1>2 DEF unchanged_since_last_write, WalUnchanged, TypeOK, Outdated
<1>4. diskId[q] # "None" /\ SnapUnchanged(q)
  BY <1>1, <1>3 DEF unchanged_since_last_write, SnapUnchanged
<1>5. diskId[q] = "Current"
  BY <1>4 DEF SnapUnchanged
<1>6. wal = NoWal
  BY <1>1, <1>3, <1>5 DEF OrdinalInv, RetireSafe
<1> QED BY <1>3, <1>4, <1>6 DEF unchanged_since_last_write, WalUnchanged

LEMMA OrdinalRetire ==
  ASSUME Undisturbed, OrdinalInv, TypeOK', NEW p \in Proc, PublishRetire(p)
  PROVE  OrdinalInv'
<1> USE DEF disk, store, ids, ghost
<1>1. TypeOK /\ pc[p] = "renamed" /\ \A q \in Proc : ~Opening(q)
  BY DEF OrdinalInv, PublishRetire, MayWrite, Undisturbed
<1>2. UNCHANGED <<snap, side, mem, fast, grants>> /\ wal' = NoWal
  BY DEF PublishRetire
<1>3. diskId' = [diskId EXCEPT ![p] = "Current"] /\ walId' = [Outdated(walId) EXCEPT ![p] = "None"]
  BY DEF PublishRetire
<1>4. Locked(p) /\ \A q \in Proc \ {p} : ~Locked(q)
  BY <1>1 DEF Locked, OrdinalInv, OneWriter
<1>5. /\ pc'[p] \in {"committed", "publishing", "idle"} /\ op'[p] # "reserve"
      /\ \A q \in Proc \ {p} : pc'[q] = pc[q] /\ op'[q] = op[q] /\ range'[q] = range[q] /\ ~Locked(q)'
  BY <1>1, <1>4 DEF PublishRetire, TypeOK, Locked
<1>6. OrdinalsNeverReissued' /\ GrantsBelowFloor' /\ SnapshotOrdinals' /\ JournalOrdinals'
      /\ MemoryBelowFloor'
  BY <1>2 DEF OrdinalInv, OrdinalsNeverReissued, GrantsBelowFloor, SnapshotOrdinals,
       JournalOrdinals, MemoryBelowFloor, Floor, IsState, CoversAll
<1>7. TrustedCovers'
  <2>1. \A q \in Proc \ {p} : unchanged_since_last_write(q)' => unchanged_since_last_write(q)
    BY RetireForeign
  <2> QED BY <1>2, <1>4, <1>5, <2>1 DEF OrdinalInv, TrustedCovers, CoversAll
<1>8. OpeningCovers' /\ ReservationFresh'
  BY <1>1, <1>4, <1>5 DEF OpeningCovers, ReservationFresh, Opening, Locked
<1>9. OneWriter' /\ RetireSafe' /\ RenamedPresent'
  BY <1>2, <1>4, <1>5 DEF OneWriter, RetireSafe, RenamedPresent, Locked
<1>10. IsState(snap)
  <2>1. snap # Unreadable
    BY <1>4 DEF OrdinalInv, WriterReadable
  <2>2. snap # NoSnap
    BY <1>1 DEF OrdinalInv, RenamedPresent
  <2> QED BY <2>1, <2>2 DEF IsState
<1>11. WriterReadable' /\ IdentityReadable'
  BY <1>2, <1>10 DEF WriterReadable, IdentityReadable, IsState
<1> QED BY <1>6, <1>7, <1>8, <1>9, <1>11 DEF OrdinalInv

LEMMA OrdinalContinue ==
  ASSUME OrdinalInv, TypeOK', NEW p \in Proc,
         externalize_large_pending_cas_locked(p) \/ PersistReturn(p) \/ PublishFails(p)
  PROVE  OrdinalInv'
<1> USE DEF disk, store, ids, ghost
<1>1. TypeOK /\ Locked(p) /\ UNCHANGED <<snap, wal, side, mem, walId, grants>>
  BY DEF OrdinalInv, externalize_large_pending_cas_locked, PersistReturn, PublishFails, Locked
<1>2. \A q \in Proc \ {p} : ~Locked(q)
  BY <1>1 DEF OrdinalInv, OneWriter
<1>3. /\ pc'[p] \in {"publishing", "idle"} /\ op'[p] # "reserve" /\ fast'[p] = FALSE
      /\ diskId'[p] \in {diskId[p], "None"}
  <2>1. CASE externalize_large_pending_cas_locked(p)
    BY <1>1, <2>1 DEF externalize_large_pending_cas_locked, TypeOK
  <2>2. CASE PersistReturn(p)
    BY <1>1, <2>2 DEF PersistReturn, TypeOK
  <2>3. CASE PublishFails(p)
    BY <1>1, <2>3 DEF PublishFails, TypeOK
  <2> QED BY <2>1, <2>2, <2>3
<1>4. \A q \in Proc \ {p} : /\ pc'[q] = pc[q] /\ op'[q] = op[q] /\ range'[q] = range[q]
                            /\ fast'[q] = fast[q] /\ diskId'[q] = diskId[q]
  <2>1. CASE externalize_large_pending_cas_locked(p)
    BY <1>1, <2>1 DEF externalize_large_pending_cas_locked, TypeOK
  <2>2. CASE PersistReturn(p)
    BY <1>1, <2>2 DEF PersistReturn, TypeOK
  <2>3. CASE PublishFails(p)
    BY <1>1, <2>3 DEF PublishFails, TypeOK
  <2> QED BY <2>1, <2>2, <2>3
<1>5. OrdinalsNeverReissued' /\ GrantsBelowFloor' /\ SnapshotOrdinals' /\ JournalOrdinals'
      /\ MemoryBelowFloor'
  BY <1>1 DEF OrdinalInv, OrdinalsNeverReissued, GrantsBelowFloor, SnapshotOrdinals,
       JournalOrdinals, MemoryBelowFloor, Floor, IsState, CoversAll
<1>6. \A q \in Proc : unchanged_since_last_write(q)' => unchanged_since_last_write(q)
  BY <1>1, <1>3, <1>4 DEF unchanged_since_last_write, SnapUnchanged, WalUnchanged
<1>7. \A q \in Proc : Locked(q)' => Locked(q)
  BY <1>1, <1>2, <1>4 DEF Locked
<1>8. TrustedCovers'
  BY <1>1, <1>6, <1>7 DEF OrdinalInv, TrustedCovers, CoversAll
<1>9. OpeningCovers' /\ ReservationFresh'
  BY <1>1, <1>3, <1>4 DEF OrdinalInv, OpeningCovers, ReservationFresh, IsState, CoversAll
<1>10. OneWriter' /\ WriterReadable' /\ IdentityReadable' /\ RetireSafe' /\ RenamedPresent'
  BY <1>1, <1>3, <1>4, <1>7 DEF OrdinalInv, OneWriter, WriterReadable, IdentityReadable, RetireSafe,
       RenamedPresent, IsState
<1> QED BY <1>5, <1>8, <1>9, <1>10 DEF OrdinalInv

LEMMA OrdinalCrash ==
  ASSUME OrdinalInv, TypeOK', NEW p \in Proc, Crash(p)
  PROVE  OrdinalInv'
<1> USE DEF disk, store, ids, ghost
<1>1. TypeOK /\ UNCHANGED <<snap, wal, side, grants>>
  BY DEF OrdinalInv, Crash
<1>2. /\ pc'[p] = "down" /\ diskId'[p] = "None" /\ mem'[p] = Empty
      /\ \A q \in Proc \ {p} : /\ pc'[q] = pc[q] /\ op'[q] = op[q] /\ range'[q] = range[q]
                               /\ fast'[q] = fast[q] /\ diskId'[q] = diskId[q]
                               /\ walId'[q] = walId[q] /\ mem'[q] = mem[q]
  BY <1>1 DEF Crash, Reset, TypeOK
<1>3. OrdinalsNeverReissued' /\ GrantsBelowFloor' /\ SnapshotOrdinals' /\ JournalOrdinals'
  BY <1>1 DEF OrdinalInv, OrdinalsNeverReissued, GrantsBelowFloor, SnapshotOrdinals,
       JournalOrdinals, Floor, IsState, CoversAll
<1>4. MemoryBelowFloor'
  <2>1. Empty.gen = 1 /\ 1 <= Floor
    BY <1>1, FloorType DEF Empty
  <2> QED BY <1>1, <1>2, <2>1 DEF OrdinalInv, MemoryBelowFloor, Floor
<1>5. TrustedCovers'
  BY <1>1, <1>2 DEF OrdinalInv, TrustedCovers, Locked, unchanged_since_last_write, SnapUnchanged,
       WalUnchanged, CoversAll
<1>6. OpeningCovers' /\ ReservationFresh'
  BY <1>1, <1>2 DEF OrdinalInv, OpeningCovers, ReservationFresh, IsState, CoversAll
<1>7. OneWriter' /\ WriterReadable' /\ IdentityReadable' /\ RetireSafe' /\ RenamedPresent'
  BY <1>1, <1>2 DEF OrdinalInv, OneWriter, WriterReadable, IdentityReadable, RetireSafe,
       RenamedPresent, IsState, Locked
<1> QED BY <1>3, <1>4, <1>5, <1>6, <1>7 DEF OrdinalInv

LEMMA OrdinalEnvironment ==
  ASSUME Undisturbed, OrdinalInv, TypeOK', Environment
  PROVE  OrdinalInv'
<1> USE DEF disk, store, ids, ghost
<1>1. TypeOK /\ UNCHANGED <<side, pc, op, mem, fast, range, grants>> /\ LockFree
      /\ (\A q \in Proc : ~Opening(q)) /\ diskId' = Outdated(diskId)
  BY DEF OrdinalInv, Environment, LoseStore, LoseSnapshot, CorruptSnapshot, Undisturbed, MayWrite
<1>2. (snap' = NoSnap /\ wal' = NoWal) \/ (snap' = Unreadable /\ wal' = wal)
  BY DEF Environment, LoseStore, LoseSnapshot, CorruptSnapshot, Undisturbed
<1>3. \A q \in Proc : diskId'[q] # "Current" /\ ~Locked(q)' /\ ~Opening(q)'
  BY <1>1 DEF TypeOK, Outdated, LockFree, Locked, Opening
<1>4. OrdinalsNeverReissued' /\ GrantsBelowFloor' /\ MemoryBelowFloor'
  BY <1>1 DEF OrdinalInv, OrdinalsNeverReissued, GrantsBelowFloor, MemoryBelowFloor, Floor
<1>5. SnapshotOrdinals' /\ JournalOrdinals'
  <2>1. NoSnap # Unreadable
    BY DEF NoSnap, Unreadable
  <2>2. ~IsState(snap)'
    BY <1>2 DEF IsState
  <2>3. JournalOrdinals'
    BY <1>2, <2>1 DEF OrdinalInv, JournalOrdinals
  <2> QED BY <2>2, <2>3 DEF SnapshotOrdinals
<1>6. TrustedCovers'
  BY <1>2, <1>3 DEF TrustedCovers, unchanged_since_last_write, SnapUnchanged
<1>7. OpeningCovers' /\ ReservationFresh'
  BY <1>3 DEF OpeningCovers, ReservationFresh, Opening, Locked
<1>8. OneWriter' /\ WriterReadable' /\ IdentityReadable' /\ RetireSafe' /\ RenamedPresent'
  BY <1>3 DEF OneWriter, WriterReadable, IdentityReadable, RetireSafe, RenamedPresent, Locked
<1> QED BY <1>4, <1>5, <1>6, <1>7, <1>8 DEF OrdinalInv

-----------------------------------------------------------------------------
LEMMA OrdinalStep ==
  ASSUME Undisturbed PROVE OrdinalInv /\ NeverSkips /\ [Next]_vars => OrdinalInv'
<1> SUFFICES ASSUME OrdinalInv, NeverSkips, [Next]_vars PROVE OrdinalInv'
  OBVIOUS
<1>1. TypeOK'
  BY TypeStep DEF OrdinalInv
<1>2. ASSUME NEW p \in Proc, Open(p) PROVE OrdinalInv'
  BY <1>1, <1>2, OrdinalOpen
<1>3. ASSUME NEW p \in Proc, Mutate(p) \/ persist_skip_empty(p) \/ PersistRefused(p)
      PROVE OrdinalInv'
  BY <1>1, <1>3, OrdinalMutate
<1>4. ASSUME NEW p \in Proc, NEW D, NEW k \in {"persist", "durable"}, PersistLocked(p, D, k)
      PROVE OrdinalInv'
  BY <1>1, <1>4, OrdinalPersist
<1>5. ASSUME NEW p \in Proc, NEW count \in Counts, reserve_ordinal_range(p, count)
      PROVE OrdinalInv'
  BY <1>1, <1>5, OrdinalReserve
<1>6. ASSUME NEW p \in Proc, Publish(p) PROVE OrdinalInv'
  BY <1>1, <1>6, OrdinalAppend, OrdinalRename, OrdinalRetire, OrdinalContinue DEF Publish
<1>7. ASSUME NEW p \in Proc, Crash(p) PROVE OrdinalInv'
  BY <1>1, <1>7, OrdinalCrash
<1>8. ASSUME Environment PROVE OrdinalInv'
  BY <1>1, <1>8, OrdinalEnvironment
<1>9. ASSUME NEW p \in Proc, publish_pending_cas(p) PROVE OrdinalInv'
  BY <1>9 DEF publish_pending_cas, Undisturbed
<1>10. ASSUME NEW p \in Proc, RewriteOnly(p) PROVE OrdinalInv'
  BY <1>10 DEF RewriteOnly, SkipEmpty, NeverSkips
<1>11. ASSUME UNCHANGED vars PROVE OrdinalInv'
  BY <1>1, <1>11, OrdinalQuiet DEF vars, store, ghost
<1> QED
  BY <1>2, <1>3, <1>4, <1>5, <1>6, <1>7, <1>8, <1>9, <1>10, <1>11
     DEF Next, Acquire, persist_pending, persist_pending_durable, prune_stale

LEMMA OrdinalInvariant ==
  ASSUME Undisturbed PROVE Spec => [](OrdinalInv /\ NeverSkips)
<1>1. OrdinalInv /\ NeverSkips /\ [Next]_vars => NeverSkips'
  BY NeverSkipsStep DEF OrdinalInv
<1> QED BY <1>1, OrdinalInit, NeverSkipsInit, OrdinalStep, PTL DEF Spec

(* Two callers never receive the same ordinal of one generation, however   *)
(* many processes reserve ranges, crash, fail to publish or find the cache *)
(* deleted or unreadable: reserve_ordinal_range never reissues an ordinal. *)
THEOREM OrdinalsSafe ==
  ASSUME Undisturbed PROVE Spec => []OrdinalsNeverReissued
<1>1. OrdinalInv => OrdinalsNeverReissued
  BY DEF OrdinalInv
<1> QED BY <1>1, OrdinalInvariant, PTL

(* No store and no snapshot is of a generation the sidecar has not reached,*)
(* which is what makes the generation next_ordinal_generation takes fresh. *)
THEOREM SidecarCovers ==
  ASSUME Undisturbed PROVE Spec => []SidecarCoversGenerations
<1>1. OrdinalInv => SidecarCoversGenerations
  BY DEF OrdinalInv, MemoryBelowFloor, SnapshotOrdinals, SidecarCoversGenerations
<1> QED BY <1>1, OrdinalInvariant, PTL

(* persist never replaces a snapshot it could not read: the file stays as  *)
(* it is until somebody removes it.                                        *)
THEOREM UnreadablePreserved ==
  ASSUME Undisturbed PROVE Spec => UnreadableNeverOverwritten
<1>1. OrdinalInv /\ [Next]_vars => [snap = Unreadable => snap' \in {Unreadable, NoSnap}]_snap
  <2> SUFFICES ASSUME OrdinalInv, [Next]_vars, snap' # snap, snap = Unreadable
               PROVE  snap' \in {Unreadable, NoSnap}
    OBVIOUS
  <2> USE DEF disk, store, ids, ghost
  <2>1. ASSUME NEW p \in Proc, Open(p) \/ Mutate(p) \/ Acquire(p) \/ Crash(p) PROVE snap' = snap
    BY <2>1 DEF Open, OpenSnapshot, OpenJournal, OpenIdentify, Mutate, store_alias_deferred,
         store_payload_deferred, admit_memoized_payload, remove_blob, remove_alias, mark_ambiguous,
         Acquire, persist_skip_empty, persist_pending, persist_pending_durable, prune_stale,
         PersistLocked, RewriteOnly, reserve_ordinal_range, publish_pending_cas, PersistRefused,
         Crash
  <2>2. ASSUME NEW p \in Proc, Publish(p) PROVE snap' = snap
    BY <2>2 DEF Publish, try_append_session_journal, PublishRename, PublishRetire,
         externalize_large_pending_cas_locked, PersistReturn, PublishFails, OrdinalInv,
         WriterReadable, Locked
  <2>3. ASSUME Environment PROVE snap' = NoSnap
    BY <2>3 DEF Environment, LoseStore, LoseSnapshot, CorruptSnapshot, IsState
  <2> QED BY <2>1, <2>2, <2>3 DEF Next, vars
<1> QED BY <1>1, OrdinalInvariant, PTL DEF Spec, UnreadableNeverOverwritten

-----------------------------------------------------------------------------
(* A persist that returned Ok is durable, for every number of processes,   *)
(* refs and aliases, every eviction policy and every crash and I/O error.  *)

(* The memory a store is about to publish, or trusts without a reload,     *)
(* holds everything any persist vouched for ...                            *)
TrustedRefs ==
  \A p \in Proc : Locked(p) \/ unchanged_since_last_write(p) => acked \subseteq mem[p].refs

(* ... and a store that trusts its memory has nothing there that is        *)
(* neither on disk nor in its session, so that the journal record it       *)
(* appends completes the disk.                                             *)
NothingUnwritten ==
  \A p \in Proc : unchanged_since_last_write(p) =>
    mem[p].refs \subseteq OnDisk.refs \cup session[p]

FastUnchanged ==
  \A p \in Proc : pc[p] = "publishing" /\ fast[p] => unchanged_since_last_write(p)

RenamedIsMemory == \A p \in Proc : pc[p] = "renamed" => snap = mem[p]

OpeningRefs ==
  \A p \in Proc : /\ pc[p] = "down" \/ Opening(p) => diskId[p] = "None"
                  /\ pc[p] = "opening" => mem[p].refs = OnDisk.refs

(* Only the first publication of a persist may be a journal append. *)
RewriteIsFull ==
  \A p \in Proc : pc[p] \in {"publishing", "renamed"} /\ op[p] = "durableCas" => ~fast[p]

DurableInv ==
  /\ OrdinalInv
  /\ AckedRefsDurable
  /\ TrustedRefs
  /\ NothingUnwritten
  /\ FastUnchanged
  /\ RenamedIsMemory
  /\ OpeningRefs
  /\ NeverSkips
  /\ RewriteIsFull

-----------------------------------------------------------------------------
LEMMA LoadRefs ==
  ASSUME NEW s, NEW w
  PROVE  load_state(s, w).refs = (IF s = NoSnap THEN {} ELSE s.refs)
                                   \cup (IF w = NoWal THEN {} ELSE w.refs)
<1>1. Empty.refs = {}
  BY DEF Empty
<1> QED BY <1>1 DEF load_state, ReplayRecord, merge_states, MergeEntries

LEMMA OnDiskRefs ==
  OnDisk.refs = (IF snap = NoSnap THEN {} ELSE snap.refs)
                  \cup (IF wal = NoWal THEN {} ELSE wal.refs)
BY LoadRefs DEF OnDisk

(* A reload and merge keeps what is on disk and adds only the session. *)
LEMMA ReloadRefs ==
  ASSUME NEW m, NEW S
  PROVE  LET found  == Reloaded(m)
             merged == merge_states(found.base, found.mine, S)
         IN  /\ OnDisk.refs \subseteq merged.refs
             /\ merged.refs \subseteq OnDisk.refs \cup S
<1> DEFINE found  == Reloaded(m)
           merged == merge_states(found.base, found.mine, S)
<1>1. merged.refs = MergeEntries(found.base.refs, found.mine.refs, S)
  BY DEF merge_states
<1>2. found.base.refs = OnDisk.refs
  <2>1. CASE StoreAbsent
    <3>1. OnDisk.refs = {}
      BY <2>1, OnDiskRefs DEF StoreAbsent
    <3>2. found.base.refs = {}
      BY <2>1 DEF Reloaded, WithOrdinals, Empty
    <3> QED BY <3>1, <3>2
  <2>2. CASE ~StoreAbsent
    BY <2>2 DEF Reloaded
  <2> QED BY <2>1, <2>2
<1> HIDE DEF found
<1> QED BY <1>1, <1>2 DEF MergeEntries, found

LEMMA DurableInit == Init => DurableInv
<1> SUFFICES ASSUME Init PROVE DurableInv
  OBVIOUS
<1>1. OrdinalInv
  BY OrdinalInit
<1>2. AckedRefsDurable
  BY DEF Init, AckedRefsDurable
<1>3. TrustedRefs /\ NothingUnwritten /\ FastUnchanged /\ RenamedIsMemory /\ OpeningRefs
  BY DEF Init, TrustedRefs, NothingUnwritten, FastUnchanged, RenamedIsMemory, OpeningRefs, Opening,
         Locked, unchanged_since_last_write
<1>4. NeverSkips /\ RewriteIsFull
  BY NeverSkipsInit DEF Init, RewriteIsFull
<1> QED BY <1>1, <1>2, <1>3, <1>4 DEF DurableInv

(* A step that writes nothing and leaves pc and the identities alone: the  *)
(* memory of an idle store may change, within what it gives up.            *)
LEMMA DurableQuiet ==
  ASSUME DurableInv, OrdinalInv', NeverSkips', NEW p \in Proc,
         UNCHANGED <<snap, wal, pc, op, ids, fast>>,
         acked' \subseteq acked,
         mem' = mem \/ (pc[p] = "idle" /\ \A q \in Proc \ {p} : mem'[q] = mem[q]),
         \A q \in Proc : session[q] \subseteq session'[q],
         unchanged_since_last_write(p) =>
           /\ acked' \subseteq mem'[p].refs
           /\ mem'[p].refs \subseteq mem[p].refs \cup session'[p]
  PROVE  DurableInv'
<1> USE DEF ids
<1>1. /\ (OnDisk)' = OnDisk
      /\ \A q \in Proc : /\ unchanged_since_last_write(q)' = unchanged_since_last_write(q)
                          /\ Locked(q)' = Locked(q)
                          /\ Opening(q)' = Opening(q)
  BY DEF OnDisk, unchanged_since_last_write, SnapUnchanged, WalUnchanged, Locked, Opening
<1>2. AckedRefsDurable'
  BY <1>1 DEF DurableInv, AckedRefsDurable
<1>3. TrustedRefs'
  BY <1>1 DEF DurableInv, TrustedRefs, Locked
<1>4. NothingUnwritten'
  BY <1>1 DEF DurableInv, NothingUnwritten
<1>5. FastUnchanged' /\ RenamedIsMemory' /\ OpeningRefs' /\ RewriteIsFull'
  BY <1>1 DEF DurableInv, FastUnchanged, RenamedIsMemory, OpeningRefs, RewriteIsFull
<1> QED BY <1>2, <1>3, <1>4, <1>5 DEF DurableInv

LEMMA DurableMutate ==
  ASSUME DurableInv, OrdinalInv', NeverSkips', Undisturbed, NEW p \in Proc,
         Mutate(p) \/ PersistRefused(p)
  PROVE  DurableInv'
<1> USE DEF disk, store, ids, ghost
<1>1. TypeOK /\ acked \subseteq Ref
  BY DEF DurableInv, OrdinalInv, TypeOK
<1>2. UNCHANGED <<snap, wal, pc, op, ids, fast>>
  BY DEF Mutate, store_alias_deferred, store_payload_deferred, admit_memoized_payload, remove_blob,
         remove_alias, mark_ambiguous, PersistRefused
<1>4. unchanged_since_last_write(p) => acked \subseteq mem[p].refs
  BY DEF DurableInv, TrustedRefs
<1>5. ASSUME NEW m, m.refs = mem[p].refs, pc[p] = "idle", mem' = [mem EXCEPT ![p] = m],
             UNCHANGED <<acked, session>>
      PROVE  DurableInv'
  <2>1. mem'[p] = m /\ \A q \in Proc \ {p} : mem'[q] = mem[q]
    BY <1>1, <1>5 DEF TypeOK
  <2> QED BY <1>2, <1>4, <1>5, <2>1, DurableQuiet
<1>6. ASSUME NEW a PROVE WithConflict(mem[p], a).refs = mem[p].refs
  <2>1. mem[p] \in State
    BY <1>1 DEF TypeOK
  <2> QED BY <2>1 DEF WithConflict, State
<1>7. ASSUME NEW a, NEW t PROVE WithAlias(mem[p], a, t).refs = mem[p].refs
  BY <1>6 DEF WithAlias
<1>8. ASSUME NEW a, NEW t, store_alias_deferred(p, a, t) PROVE DurableInv'
  <2>1. pc[p] = "idle" /\ mem' = [mem EXCEPT ![p] = WithAlias(mem[p], a, t)]
        /\ UNCHANGED <<acked, session>>
    BY <1>8 DEF store_alias_deferred
  <2> QED BY <1>5, <1>7, <2>1
<1>9. ASSUME NEW r \in Payloads, store_payload_deferred(p, r) PROVE DurableInv'
  <2> DEFINE put == IF r \in DOMAIN LegacyAlias THEN WithAlias(mem[p], LegacyAlias[r], r)
                    ELSE mem[p]
             all == put.refs \cup {r}
  <2>1. put.refs = mem[p].refs
    BY <1>7
  <2> HIDE DEF put
  <2>2. PICK kept \in {all} \cup EvictOutcomes(all) :
          /\ mem' = [mem EXCEPT ![p] = WithRefs(put, kept)]
          /\ GiveUp(p, all \ kept)
    BY <1>9 DEF store_payload_deferred, put
  <2>3. kept \subseteq all
    BY EvictSubset
  <2>4. pc[p] = "idle" /\ session' = [session EXCEPT ![p] = @ \cup {r}]
    BY <1>9 DEF store_payload_deferred
  <2>5. mem'[p].refs = kept /\ \A q \in Proc \ {p} : mem'[q] = mem[q]
    BY <1>1, <2>2 DEF TypeOK, WithRefs
  <2>6. session'[p] = session[p] \cup {r} /\ \A q \in Proc : session[q] \subseteq session'[q]
    BY <1>1, <2>4 DEF TypeOK
  <2>7. /\ acked' \subseteq acked
        /\ unchanged_since_last_write(p) => acked' = acked \ (all \ kept)
    BY <2>2 DEF GiveUp
  <2>8. unchanged_since_last_write(p) =>
           /\ acked' \subseteq mem'[p].refs
           /\ mem'[p].refs \subseteq mem[p].refs \cup session'[p]
    BY <1>4, <2>1, <2>3, <2>5, <2>6, <2>7
  <2> QED BY <1>2, <2>4, <2>5, <2>6, <2>7, <2>8, DurableQuiet
<1>10. ASSUME NEW r, remove_blob(p, r) PROVE DurableInv'
  <2>1. /\ pc[p] = "idle" /\ session' = session /\ GiveUp(p, {r})
        /\ mem' = [mem EXCEPT ![p] = apply_deletions(mem[p], {r}, {})]
    BY <1>10 DEF remove_blob
  <2>2. mem'[p].refs = mem[p].refs \ {r} /\ \A q \in Proc \ {p} : mem'[q] = mem[q]
    BY <1>1, <2>1 DEF TypeOK, apply_deletions
  <2>3. /\ acked' \subseteq acked
        /\ unchanged_since_last_write(p) => acked' = acked \ {r}
    BY <2>1 DEF GiveUp
  <2> QED BY <1>2, <1>4, <2>1, <2>2, <2>3, DurableQuiet
<1>11. ASSUME NEW a, remove_alias(p, a) PROVE DurableInv'
  <2>1. /\ pc[p] = "idle" /\ UNCHANGED <<acked, session>>
        /\ mem' = [mem EXCEPT ![p] = apply_deletions(mem[p], {}, {a})]
    BY <1>11 DEF remove_alias
  <2>2. apply_deletions(mem[p], {}, {a}).refs = mem[p].refs
    BY DEF apply_deletions
  <2> QED BY <1>5, <2>1, <2>2
<1>12. ASSUME NEW a, mark_ambiguous(p, a) PROVE DurableInv'
  <2>1. pc[p] = "idle" /\ mem' = [mem EXCEPT ![p] = WithConflict(mem[p], a)]
        /\ UNCHANGED <<acked, session>>
    BY <1>12 DEF mark_ambiguous
  <2> QED BY <1>5, <1>6, <2>1
<1>13. ASSUME PersistRefused(p) PROVE DurableInv'
  <2>1. PICK stale : /\ mem' = [mem EXCEPT ![p] = WithRefs(mem[p], mem[p].refs \ stale)]
                     /\ GiveUp(p, stale)
    BY <1>13 DEF PersistRefused
  <2>2. pc[p] = "idle" /\ session' = session
    BY <1>13 DEF PersistRefused
  <2>3. mem'[p].refs = mem[p].refs \ stale /\ \A q \in Proc \ {p} : mem'[q] = mem[q]
    BY <1>1, <2>1 DEF TypeOK, WithRefs
  <2>4. /\ acked' \subseteq acked
        /\ unchanged_since_last_write(p) => acked' = acked \ stale
    BY <2>1 DEF GiveUp
  <2> QED BY <1>2, <1>4, <2>2, <2>3, <2>4, DurableQuiet
<1> QED
  BY <1>8, <1>9, <1>10, <1>11, <1>12, <1>13 DEF Mutate, admit_memoized_payload, Undisturbed

(* A store takes the lock with a memory that holds what is vouched for. *)
LEMMA DurableAcquire ==
  ASSUME DurableInv, OrdinalInv', NEW p \in Proc, LockFree,
         UNCHANGED <<snap, wal, ids, session>>,
         acked' \subseteq acked, acked' \subseteq mem'[p].refs,
         unchanged_since_last_write(p) => mem'[p].refs \subseteq OnDisk.refs \cup session[p],
         fast'[p] => unchanged_since_last_write(p),
         pc'[p] = "publishing", op'[p] # "durableCas", NeverSkips',
         \A q \in Proc \ {p} : /\ mem'[q] = mem[q] /\ pc'[q] = pc[q] /\ fast'[q] = fast[q]
                               /\ op'[q] = op[q]
  PROVE  DurableInv'
<1> USE DEF ids
<1>1. /\ (OnDisk)' = OnDisk
      /\ \A q \in Proc : unchanged_since_last_write(q)' = unchanged_since_last_write(q)
  BY DEF OnDisk, unchanged_since_last_write, SnapUnchanged, WalUnchanged
<1>2. \A q \in Proc \ {p} : Locked(q)' = FALSE /\ Opening(q)' = Opening(q)
  BY DEF LockFree, Locked, Opening
<1>3. AckedRefsDurable'
  BY <1>1 DEF DurableInv, AckedRefsDurable
<1>4. TrustedRefs'
  BY <1>1, <1>2 DEF DurableInv, TrustedRefs
<1>5. NothingUnwritten' /\ FastUnchanged'
  BY <1>1 DEF DurableInv, NothingUnwritten, FastUnchanged
<1>6. RenamedIsMemory' /\ RewriteIsFull'
  BY <1>2 DEF RenamedIsMemory, RewriteIsFull, Locked
<1>7. ~Opening(p)'
  BY DEF Opening
<1>8. OpeningRefs'
  BY <1>1, <1>2, <1>7 DEF DurableInv, OpeningRefs
<1> QED BY <1>3, <1>4, <1>5, <1>6, <1>8 DEF DurableInv

LEMMA DurablePersist ==
  ASSUME DurableInv, OrdinalInv', NEW p \in Proc, NEW D, NEW k \in {"persist", "durable"},
         PersistLocked(p, D, k)
  PROVE  DurableInv'
<1> USE DEF disk, store, ids, ghost
<1> DEFINE clean  == unchanged_since_last_write(p)
           mine   == WithRefs(mem[p], mem[p].refs \ D)
           found  == Reloaded(mine)
           merged == IF clean THEN mine ELSE merge_states(found.base, found.mine, session[p])
<1>1. TypeOK /\ LockFree /\ pc[p] = "idle" /\ (clean \/ CanReload)
  BY DEF DurableInv, OrdinalInv, PersistLocked
<1>2. UNCHANGED <<snap, wal, ids, session>>
  BY DEF PersistLocked
<1>3. clean => merged.refs = mem[p].refs \ D
  BY DEF WithRefs
<1>4. ~clean => OnDisk.refs \subseteq merged.refs
  BY ReloadRefs
<1>5. PICK kept \in EvictOutcomes(merged.refs) :
        /\ mem' = [mem EXCEPT ![p] = apply_deletions(WithRefs(merged, kept),
                                                    pending[p].blobs, pending[p].aliases)]
        /\ acked' = ((IF clean THEN acked \ D ELSE acked) \ (merged.refs \ kept))
                      \ pending[p].blobs
  BY DEF PersistLocked
<1> HIDE DEF merged
<1>6. kept \subseteq merged.refs
  BY EvictSubset
<1>7. mem'[p].refs = kept \ pending[p].blobs
  BY <1>1, <1>5 DEF TypeOK, apply_deletions, WithRefs
<1>8. /\ clean => acked \subseteq mem[p].refs /\ mem[p].refs \subseteq OnDisk.refs \cup session[p]
      /\ ~clean => acked \subseteq OnDisk.refs
  BY <1>1 DEF DurableInv, TrustedRefs, NothingUnwritten, AckedRefsDurable, CanReload
<1>9. acked' \subseteq acked /\ acked' \subseteq mem'[p].refs
  <2>1. CASE clean
    BY <1>3, <1>5, <1>6, <1>7, <1>8, <2>1
  <2>2. CASE ~clean
    BY <1>4, <1>5, <1>6, <1>7, <1>8, <2>2
  <2> QED BY <2>1, <2>2
<1>10. clean => mem'[p].refs \subseteq OnDisk.refs \cup session[p]
  BY <1>3, <1>6, <1>7, <1>8
<1>11. /\ pc' = [pc EXCEPT ![p] = "publishing"] /\ skip' = [skip EXCEPT ![p] = FALSE]
       /\ fast' = [fast EXCEPT ![p] = clean /\ pending[p] = NoPending]
       /\ op' = [op EXCEPT ![p] = k]
  BY DEF PersistLocked
<1> HIDE DEF clean
<1>12. fast'[p] => clean
  <2>1. DOMAIN fast = Proc
    BY <1>1 DEF TypeOK
  <2> QED BY <1>11, <2>1, Zenon
<1>13. /\ pc'[p] = "publishing" /\ op'[p] # "durableCas"
       /\ \A q \in Proc \ {p} : /\ mem'[q] = mem[q] /\ pc'[q] = pc[q] /\ fast'[q] = fast[q]
                                /\ op'[q] = op[q]
  BY <1>1, <1>5, <1>11 DEF TypeOK
<1>14. NeverSkips'
  BY <1>1, <1>11 DEF DurableInv, NeverSkips, TypeOK
<1> QED
  BY <1>1, <1>2, <1>9, <1>10, <1>12, <1>13, <1>14, DurableAcquire DEF clean

LEMMA DurableReserve ==
  ASSUME DurableInv, OrdinalInv', NEW p \in Proc, NEW count, reserve_ordinal_range(p, count)
  PROVE  DurableInv'
<1> USE DEF disk, store, ids, ghost
<1> DEFINE found  == Reloaded(mem[p])
           merged == merge_states(found.base, found.mine, session[p])
<1>1. TypeOK /\ LockFree /\ pc[p] = "idle" /\ CanReload
  BY DEF DurableInv, OrdinalInv, reserve_ordinal_range
<1>2. OnDisk.refs \subseteq merged.refs /\ merged.refs \subseteq OnDisk.refs \cup session[p]
  BY ReloadRefs
<1>3. mem' = [mem EXCEPT ![p] = WithOrdinals(merged, merged.gen, merged.next + count)]
  BY DEF reserve_ordinal_range
<1> HIDE DEF merged
<1>4. mem'[p].refs = merged.refs /\ \A q \in Proc \ {p} : mem'[q] = mem[q]
  BY <1>1, <1>3 DEF TypeOK, WithOrdinals
<1>5. acked \subseteq OnDisk.refs
  BY <1>1 DEF DurableInv, AckedRefsDurable, CanReload
<1>6. /\ pc'[p] = "publishing" /\ ~fast'[p] /\ op'[p] # "durableCas"
      /\ \A q \in Proc \ {p} : pc'[q] = pc[q] /\ fast'[q] = fast[q] /\ op'[q] = op[q]
  BY <1>1 DEF reserve_ordinal_range, TypeOK
<1>7. UNCHANGED <<snap, wal, ids, session, acked, skip>>
  BY DEF reserve_ordinal_range
<1>8. NeverSkips'
  BY <1>7 DEF DurableInv, NeverSkips
<1> QED BY <1>1, <1>2, <1>4, <1>5, <1>6, <1>7, <1>8, DurableAcquire

LEMMA DurableAppend ==
  ASSUME DurableInv, OrdinalInv', Undisturbed, NEW p \in Proc, try_append_session_journal(p)
  PROVE  DurableInv'
<1> USE DEF disk, store, ids, ghost
<1> DEFINE record == session_delta(mem[p], session[p])
<1>1. TypeOK /\ pc[p] = "publishing" /\ fast[p] /\ \A q \in Proc : ~Opening(q)
  BY DEF DurableInv, OrdinalInv, try_append_session_journal, MayWrite, Undisturbed
<1>2. /\ UNCHANGED <<snap, op, mem, diskId, fast, skip>> /\ acked' = acked \cup mem[p].refs
      /\ pc' = [pc EXCEPT ![p] = "committed"] /\ walId' = [Outdated(walId) EXCEPT ![p] = "Current"]
      /\ wal' = IF wal = NoWal THEN record ELSE merge_states(wal, record, record.refs)
  BY DEF try_append_session_journal, Vouch, ComposeRecords, ReplayRecord
<1>3. record.refs = mem[p].refs \cap session[p]
  BY DEF session_delta
<1>4. record \in State
  BY <1>1, DeltaType DEF TypeOK
<1> HIDE DEF record
<1>5. wal' # NoWal /\ wal'.refs = record.refs \cup (IF wal = NoWal THEN {} ELSE wal.refs)
  <2>1. CASE wal = NoWal
    BY <1>2, <1>4, <2>1, NotStates
  <2>2. CASE wal # NoWal
    <3>1. wal' \in State
      BY <1>1, <1>2, <1>4, <2>2, MergeType DEF TypeOK
    <3> QED BY <1>2, <2>2, <3>1, NotStates DEF merge_states, MergeEntries
  <2> QED BY <2>1, <2>2
<1>6. (OnDisk)'.refs = (IF snap' = NoSnap THEN {} ELSE snap'.refs)
                          \cup (IF wal' = NoWal THEN {} ELSE wal'.refs)
  BY LoadRefs DEF OnDisk
<1>7. (OnDisk)'.refs = OnDisk.refs \cup record.refs
  BY <1>2, <1>5, <1>6, OnDiskRefs
<1>8. /\ unchanged_since_last_write(p) /\ Locked(p) /\ acked \subseteq mem[p].refs
      /\ mem[p].refs \subseteq OnDisk.refs \cup session[p]
      /\ \A q \in Proc \ {p} : ~Locked(q)
  BY <1>1 DEF DurableInv, OrdinalInv, OneWriter, FastUnchanged, TrustedRefs, NothingUnwritten, Locked
<1>9. acked' = mem[p].refs /\ mem[p].refs \subseteq (OnDisk)'.refs
  BY <1>2, <1>3, <1>7, <1>8
<1>10. pc'[p] = "committed" /\ \A q \in Proc \ {p} :
          pc'[q] = pc[q] /\ ~Locked(q)' /\ walId'[q] # "Current"
  BY <1>1, <1>2, <1>8 DEF TypeOK, Locked, Outdated
<1>11. \A q \in Proc \ {p} : ~unchanged_since_last_write(q)'
  BY <1>5, <1>10 DEF unchanged_since_last_write, WalUnchanged
<1>12. AckedRefsDurable' /\ TrustedRefs' /\ NothingUnwritten'
  BY <1>2, <1>9, <1>10, <1>11 DEF AckedRefsDurable, TrustedRefs, NothingUnwritten
<1>13. FastUnchanged' /\ RenamedIsMemory' /\ NeverSkips' /\ RewriteIsFull'
  BY <1>2, <1>8, <1>10 DEF DurableInv, FastUnchanged, RenamedIsMemory, NeverSkips, RewriteIsFull, Locked
<1>14. OpeningRefs'
  BY <1>1, <1>2, <1>10 DEF DurableInv, OpeningRefs, Opening
<1> QED BY <1>12, <1>13, <1>14 DEF DurableInv

LEMMA DurableRename ==
  ASSUME DurableInv, OrdinalInv', Undisturbed, NEW p \in Proc, PublishRename(p)
  PROVE  DurableInv'
<1> USE DEF disk, store, ids, ghost
<1>1. TypeOK /\ pc[p] = "publishing" /\ \A q \in Proc : ~Opening(q)
  BY DEF DurableInv, OrdinalInv, PublishRename, MayWrite, Undisturbed
<1>2. /\ UNCHANGED <<wal, op, mem, walId, fast, skip>> /\ snap' = mem[p]
      /\ acked' \in {acked, acked \cup mem[p].refs}
      /\ pc' = [pc EXCEPT ![p] = "renamed"]
      /\ diskId' \in {Outdated(diskId), [Outdated(diskId) EXCEPT ![p] = "None"]}
  BY DEF PublishRename, Vouch, Outdated
<1>3. Locked(p) /\ acked \subseteq mem[p].refs /\ \A q \in Proc \ {p} : ~Locked(q)
  BY <1>1 DEF DurableInv, OrdinalInv, OneWriter, TrustedRefs, Locked
<1>4. snap' # NoSnap
  BY <1>1, <1>2, NotStates DEF TypeOK
<1>5. (OnDisk)'.refs = (IF snap' = NoSnap THEN {} ELSE snap'.refs)
                          \cup (IF wal' = NoWal THEN {} ELSE wal'.refs)
  BY LoadRefs DEF OnDisk
<1>6. acked' \subseteq mem[p].refs /\ mem[p].refs \subseteq (OnDisk)'.refs
  BY <1>2, <1>3, <1>4, <1>5
<1>7. pc'[p] = "renamed" /\ \A q \in Proc \ {p} : pc'[q] = pc[q] /\ ~Locked(q)'
  BY <1>1, <1>2, <1>3 DEF TypeOK, Locked
<1>8. \A q \in Proc : diskId'[q] # "Current" /\ ~unchanged_since_last_write(q)'
  <2>1. \A q \in Proc : diskId'[q] # "Current"
    <3>1. \A q \in Proc : Outdated(diskId)[q] # "Current"
      BY <1>1 DEF TypeOK, Outdated
    <3> QED BY <1>2, <3>1 DEF Outdated
  <2> QED BY <1>4, <2>1 DEF unchanged_since_last_write, SnapUnchanged
<1>9. AckedRefsDurable' /\ TrustedRefs' /\ NothingUnwritten'
  BY <1>2, <1>6, <1>7, <1>8 DEF AckedRefsDurable, TrustedRefs, NothingUnwritten
<1>10. FastUnchanged' /\ RenamedIsMemory' /\ NeverSkips' /\ RewriteIsFull'
  BY <1>1, <1>2, <1>3, <1>7 DEF DurableInv, FastUnchanged, RenamedIsMemory, NeverSkips, RewriteIsFull,
       Locked
<1>11. \A q \in Proc : pc'[q] = "down" \/ Opening(q)' => diskId'[q] = "None"
  <2>1. \A q \in Proc : pc[q] = "down" => diskId[q] = "None"
    BY DEF DurableInv, OpeningRefs
  <2>2. \A q \in Proc : pc[q] = "down" => Outdated(diskId)[q] = "None"
    BY <2>1 DEF Outdated
  <2>3. \A q \in Proc : pc[q] = "down" => diskId'[q] = "None"
    BY <1>2, <2>2 DEF Outdated
  <2> QED BY <1>1, <1>7, <2>3 DEF Opening
<1>12. OpeningRefs'
  BY <1>1, <1>7, <1>11 DEF OpeningRefs, Opening
<1> QED BY <1>9, <1>10, <1>12 DEF DurableInv

LEMMA DurableRetire ==
  ASSUME DurableInv, OrdinalInv', Undisturbed, NEW p \in Proc, PublishRetire(p)
  PROVE  DurableInv'
<1> USE DEF disk, store, ids, ghost
<1>1. OrdinalInv /\ TypeOK /\ pc[p] = "renamed" /\ \A q \in Proc : ~Opening(q)
  BY DEF DurableInv, OrdinalInv, PublishRetire, MayWrite, Undisturbed
<1>2. /\ UNCHANGED <<snap, mem, fast, skip, acked>> /\ wal' = NoWal
      /\ diskId' = [diskId EXCEPT ![p] = "Current"] /\ session' = [session EXCEPT ![p] = {}]
  BY DEF PublishRetire
<1>3. /\ Locked(p) /\ acked \subseteq mem[p].refs /\ snap = mem[p] /\ snap # NoSnap
      /\ \A q \in Proc \ {p} : ~Locked(q)
  BY <1>1, NotStates DEF DurableInv, OrdinalInv, OneWriter, TrustedRefs, RenamedIsMemory, Locked, TypeOK
<1>4. (OnDisk)'.refs = (IF snap' = NoSnap THEN {} ELSE snap'.refs)
                          \cup (IF wal' = NoWal THEN {} ELSE wal'.refs)
  BY LoadRefs DEF OnDisk
<1>5. (OnDisk)'.refs = mem[p].refs
  BY <1>2, <1>3, <1>4
<1>6. /\ pc'[p] \in {"committed", "publishing", "idle"}
      /\ \A q \in Proc \ {p} : pc'[q] = pc[q] /\ ~Locked(q)' /\ session'[q] = session[q]
  BY <1>1, <1>2, <1>3 DEF PublishRetire, TypeOK, Locked
<1>7. \A q \in Proc \ {p} : unchanged_since_last_write(q)' =>
                              unchanged_since_last_write(q) /\ wal = NoWal
  BY <1>1, RetireForeign
<1>8. AckedRefsDurable'
  BY <1>2, <1>3, <1>5 DEF AckedRefsDurable
<1>9. TrustedRefs'
  BY <1>2, <1>3, <1>6, <1>7 DEF DurableInv, TrustedRefs
<1>10. NothingUnwritten'
  <2>1. wal = NoWal => (OnDisk)'.refs = OnDisk.refs
    BY <1>2, <1>3, <1>4, OnDiskRefs
  <2> QED BY <1>2, <1>5, <1>6, <1>7, <2>1 DEF DurableInv, NothingUnwritten
<1>11. pc'[p] = "publishing" => ~fast[p]
  <2>1. pc'[p] = "publishing" => op[p] = "durableCas"
    BY <1>1 DEF PublishRetire, TypeOK
  <2> QED BY <1>1, <2>1 DEF DurableInv, RewriteIsFull
<1>12. FastUnchanged' /\ RenamedIsMemory' /\ NeverSkips'
  BY <1>2, <1>3, <1>6, <1>11 DEF DurableInv, FastUnchanged, RenamedIsMemory, NeverSkips, Locked
<1>13. OpeningRefs'
  BY <1>1, <1>2, <1>6 DEF DurableInv, OpeningRefs, Opening, TypeOK
<1>14. RewriteIsFull'
  BY <1>1, <1>2, <1>6, <1>11 DEF DurableInv, RewriteIsFull, PublishRetire, TypeOK
<1> QED BY <1>8, <1>9, <1>10, <1>12, <1>13, <1>14 DEF DurableInv

LEMMA DurableContinue ==
  ASSUME DurableInv, OrdinalInv', NEW p \in Proc,
         externalize_large_pending_cas_locked(p) \/ PersistReturn(p) \/ PublishFails(p)
  PROVE  DurableInv'
<1> USE DEF disk, store, ids, ghost
<1>1. TypeOK /\ Locked(p) /\ UNCHANGED <<snap, wal, mem, session, skip, walId, acked>>
  BY DEF DurableInv, OrdinalInv, externalize_large_pending_cas_locked, PersistReturn, PublishFails,
         Locked
<1>2. \A q \in Proc \ {p} : ~Locked(q)
  BY <1>1 DEF DurableInv, OrdinalInv, OneWriter
<1>3. /\ pc'[p] \in {"publishing", "idle"} /\ fast'[p] = FALSE /\ diskId'[p] \in {diskId[p], "None"}
      /\ \A q \in Proc \ {p} : /\ pc'[q] = pc[q] /\ op'[q] = op[q] /\ fast'[q] = fast[q]
                               /\ diskId'[q] = diskId[q]
  <2>1. CASE externalize_large_pending_cas_locked(p)
    BY <1>1, <2>1 DEF externalize_large_pending_cas_locked, TypeOK
  <2>2. CASE PersistReturn(p)
    BY <1>1, <2>2 DEF PersistReturn, TypeOK
  <2>3. CASE PublishFails(p)
    BY <1>1, <2>3 DEF PublishFails, TypeOK
  <2> QED BY <2>1, <2>2, <2>3
<1>4. (OnDisk)' = OnDisk
  BY <1>1 DEF OnDisk
<1>5. \A q \in Proc : unchanged_since_last_write(q)' => unchanged_since_last_write(q)
  BY <1>1, <1>3 DEF unchanged_since_last_write, SnapUnchanged, WalUnchanged
<1>6. \A q \in Proc : Locked(q)' => Locked(q)
  BY <1>1, <1>2, <1>3 DEF Locked
<1>7. AckedRefsDurable' /\ TrustedRefs' /\ NothingUnwritten'
  BY <1>1, <1>4, <1>5, <1>6 DEF DurableInv, AckedRefsDurable, TrustedRefs, NothingUnwritten
<1>8. FastUnchanged' /\ RenamedIsMemory' /\ NeverSkips' /\ RewriteIsFull'
  BY <1>1, <1>2, <1>3 DEF DurableInv, FastUnchanged, RenamedIsMemory, NeverSkips, RewriteIsFull,
       Locked
<1>9. OpeningRefs'
  BY <1>1, <1>3, <1>4 DEF DurableInv, OpeningRefs, Opening
<1> QED BY <1>7, <1>8, <1>9 DEF DurableInv

LEMMA DurableCrash ==
  ASSUME DurableInv, OrdinalInv', NEW p \in Proc, Crash(p)
  PROVE  DurableInv'
<1> USE DEF disk, store, ids, ghost
<1>1. TypeOK /\ UNCHANGED <<snap, wal, acked>>
  BY DEF DurableInv, OrdinalInv, Crash
<1>2. /\ pc'[p] = "down" /\ diskId'[p] = "None" /\ skip'[p] = FALSE /\ fast'[p] = FALSE
      /\ \A q \in Proc \ {p} : /\ pc'[q] = pc[q] /\ op'[q] = op[q] /\ fast'[q] = fast[q]
                               /\ diskId'[q] = diskId[q] /\ walId'[q] = walId[q]
                               /\ mem'[q] = mem[q] /\ session'[q] = session[q]
                               /\ skip'[q] = skip[q]
  BY <1>1 DEF Crash, Reset, TypeOK
<1>3. (OnDisk)' = OnDisk
  BY <1>1 DEF OnDisk
<1>4. \A q \in Proc : unchanged_since_last_write(q)' => q # p /\ unchanged_since_last_write(q)
  BY <1>1, <1>2 DEF unchanged_since_last_write, SnapUnchanged, WalUnchanged
<1>5. \A q \in Proc : Locked(q)' => q # p /\ Locked(q)
  BY <1>2 DEF Locked
<1>6. AckedRefsDurable' /\ TrustedRefs' /\ NothingUnwritten'
  BY <1>1, <1>2, <1>3, <1>4, <1>5 DEF DurableInv, AckedRefsDurable, TrustedRefs, NothingUnwritten
<1>7. \A q \in Proc \ {p} : unchanged_since_last_write(q)' = unchanged_since_last_write(q)
  BY <1>1, <1>2 DEF unchanged_since_last_write, SnapUnchanged, WalUnchanged
<1>8. FastUnchanged' /\ RenamedIsMemory' /\ NeverSkips' /\ RewriteIsFull'
  BY <1>1, <1>2, <1>7 DEF DurableInv, FastUnchanged, RenamedIsMemory, NeverSkips, RewriteIsFull
<1>9. OpeningRefs'
  BY <1>1, <1>2, <1>3 DEF DurableInv, OpeningRefs, Opening
<1> QED BY <1>6, <1>8, <1>9 DEF DurableInv

LEMMA DurableEnvironment ==
  ASSUME DurableInv, OrdinalInv', Undisturbed, Environment
  PROVE  DurableInv'
<1> USE DEF disk, store, ids, ghost
<1>1. TypeOK /\ UNCHANGED <<pc, op, mem, session, skip, fast>> /\ LockFree
      /\ (\A q \in Proc : ~Opening(q)) /\ diskId' = Outdated(diskId)
  BY DEF DurableInv, OrdinalInv, Environment, LoseStore, LoseSnapshot, CorruptSnapshot, Undisturbed,
         MayWrite
<1>2. (snap' = NoSnap /\ acked' = {}) \/ snap' = Unreadable
  BY DEF Environment, LoseStore, LoseSnapshot, CorruptSnapshot, Undisturbed
<1>3. \A q \in Proc : /\ diskId'[q] # "Current" /\ ~Locked(q)' /\ ~Opening(q)'
                      /\ pc'[q] = "down" => diskId'[q] = "None"
  BY <1>1 DEF TypeOK, Outdated, LockFree, Locked, Opening, DurableInv, OpeningRefs
<1>4. \A q \in Proc : ~unchanged_since_last_write(q)'
  BY <1>3 DEF unchanged_since_last_write, SnapUnchanged
<1>5. AckedRefsDurable' /\ TrustedRefs' /\ NothingUnwritten'
  BY <1>2, <1>3, <1>4 DEF AckedRefsDurable, TrustedRefs, NothingUnwritten
<1>6. FastUnchanged' /\ RenamedIsMemory' /\ NeverSkips' /\ RewriteIsFull' /\ OpeningRefs'
  BY <1>1, <1>3 DEF DurableInv, FastUnchanged, RenamedIsMemory, NeverSkips, RewriteIsFull, OpeningRefs,
       Locked, Opening
<1> QED BY <1>5, <1>6 DEF DurableInv

LEMMA DurableOpen ==
  ASSUME DurableInv, OrdinalInv', NEW p \in Proc, Open(p)
  PROVE  DurableInv'
<1> USE DEF disk, store, ids, ghost
<1>1. OrdinalInv /\ TypeOK /\ UNCHANGED <<snap, wal, op, session, skip, fast, acked>>
  BY DEF DurableInv, OrdinalInv, Open, OpenSnapshot, OpenJournal, OpenIdentify
<1>2. \A q \in Proc \ {p} : /\ mem'[q] = mem[q] /\ pc'[q] = pc[q]
                            /\ diskId'[q] = diskId[q] /\ walId'[q] = walId[q]
  <2>1. CASE OpenSnapshot(p)
    BY <1>1, <2>1 DEF OpenSnapshot, TypeOK
  <2>2. CASE OpenJournal(p)
    BY <1>1, <2>2 DEF OpenJournal, TypeOK
  <2>3. CASE OpenIdentify(p)
    BY <1>1, <2>3 DEF OpenIdentify, TypeOK
  <2> QED BY <2>1, <2>2, <2>3 DEF Open
<1>3. pc[p] \in {"down", "loading", "loadingFresh", "opening"} /\ diskId[p] = "None"
      /\ pc'[p] \in {"loading", "loadingFresh", "opening", "idle"}
  BY <1>1 DEF Open, OpenSnapshot, OpenJournal, OpenIdentify, TypeOK, DurableInv, OpeningRefs, Opening
<1>4. (OnDisk)' = OnDisk
  BY <1>1 DEF OnDisk
<1>5. \A q \in Proc \ {p} : /\ unchanged_since_last_write(q)' = unchanged_since_last_write(q)
                            /\ Locked(q)' = Locked(q) /\ Opening(q)' = Opening(q)
  BY <1>1, <1>2 DEF unchanged_since_last_write, SnapUnchanged, WalUnchanged, Locked, Opening
<1>6. ~Locked(p)'
  BY <1>3 DEF Locked
<1>7. AckedRefsDurable' /\ NeverSkips' /\ RenamedIsMemory' /\ FastUnchanged' /\ RewriteIsFull'
  BY <1>1, <1>2, <1>3, <1>4, <1>5 DEF DurableInv, AckedRefsDurable, NeverSkips, RenamedIsMemory,
       FastUnchanged, RewriteIsFull
<1>8. /\ unchanged_since_last_write(p)' => acked \subseteq mem'[p].refs /\ mem'[p].refs \subseteq OnDisk.refs
      /\ Opening(p)' => diskId'[p] = "None"
      /\ pc'[p] = "opening" => mem'[p].refs = OnDisk.refs
  <2>1. CASE OpenSnapshot(p)
    <3>1. diskId'[p] = "None" /\ pc'[p] # "opening"
      BY <1>1, <1>3, <2>1 DEF OpenSnapshot, TypeOK
    <3> QED BY <3>1 DEF unchanged_since_last_write
  <2>2. CASE OpenJournal(p)
    <3>1. diskId'[p] = "None" /\ mem'[p] = load_state(mem[p], wal)
      BY <1>1, <1>3, <2>2 DEF OpenJournal, TypeOK
    <3>2. CASE pc[p] = "loading"
      <4>1. mem'[p] = OnDisk
        BY <1>1, <3>1, <3>2 DEF OrdinalInv, OpeningCovers, OnDisk
      <4> QED BY <3>1, <4>1 DEF unchanged_since_last_write
    <3>3. CASE pc[p] = "loadingFresh"
      <4>1. pc'[p] = "idle"
        BY <1>1, <2>2, <3>3 DEF OpenJournal, OrdinalInv, OpeningCovers, JournalOrdinals, TypeOK
      <4> QED BY <3>1, <4>1 DEF unchanged_since_last_write
    <3> QED BY <2>2, <3>2, <3>3 DEF OpenJournal
  <2>3. CASE OpenIdentify(p)
    <3>1. pc[p] = "opening" /\ pc'[p] = "idle" /\ mem' = mem
      BY <1>1, <2>3 DEF OpenIdentify, TypeOK
    <3>2. mem[p].refs = OnDisk.refs /\ acked \subseteq OnDisk.refs
      BY <3>1 DEF DurableInv, OpeningRefs, AckedRefsDurable, OrdinalInv, OpeningCovers, IsState
    <3> QED BY <3>1, <3>2 DEF Opening
  <2> QED BY <2>1, <2>2, <2>3 DEF Open
<1>9. TrustedRefs' /\ NothingUnwritten'
  BY <1>1, <1>2, <1>4, <1>5, <1>6, <1>8 DEF DurableInv, TrustedRefs, NothingUnwritten
<1>10. OpeningRefs'
  BY <1>1, <1>2, <1>3, <1>4, <1>5, <1>8 DEF DurableInv, OpeningRefs
<1> QED BY <1>7, <1>9, <1>10 DEF DurableInv

LEMMA DurableStep ==
  ASSUME Undisturbed PROVE DurableInv /\ [Next]_vars => DurableInv'
<1> SUFFICES ASSUME DurableInv, [Next]_vars PROVE DurableInv'
  OBVIOUS
<1>1. OrdinalInv' /\ NeverSkips'
  BY OrdinalStep, NeverSkipsStep DEF DurableInv, OrdinalInv
<1>2. ASSUME NEW p \in Proc, Open(p) PROVE DurableInv'
  BY <1>1, <1>2, DurableOpen
<1>3. ASSUME NEW p \in Proc, Mutate(p) \/ PersistRefused(p) PROVE DurableInv'
  BY <1>1, <1>3, DurableMutate
<1>4. ASSUME NEW p \in Proc, NEW D, NEW k \in {"persist", "durable"}, PersistLocked(p, D, k)
      PROVE DurableInv'
  BY <1>1, <1>4, DurablePersist
<1>5. ASSUME NEW p \in Proc, NEW count \in Counts, reserve_ordinal_range(p, count)
      PROVE DurableInv'
  BY <1>1, <1>5, DurableReserve
<1>6. ASSUME NEW p \in Proc, Publish(p) PROVE DurableInv'
  BY <1>1, <1>6, DurableAppend, DurableRename, DurableRetire, DurableContinue DEF Publish
<1>7. ASSUME NEW p \in Proc, Crash(p) PROVE DurableInv'
  BY <1>1, <1>7, DurableCrash
<1>8. ASSUME Environment PROVE DurableInv'
  BY <1>1, <1>8, DurableEnvironment
<1>9. ASSUME NEW p \in Proc, publish_pending_cas(p) PROVE DurableInv'
  BY <1>9 DEF publish_pending_cas, Undisturbed
<1>10. ASSUME NEW p \in Proc, persist_skip_empty(p) \/ RewriteOnly(p) PROVE DurableInv'
  BY <1>10 DEF persist_skip_empty, RewriteOnly, SkipEmpty, DurableInv, NeverSkips
<1>11. ASSUME UNCHANGED vars PROVE DurableInv'
  <2>1. UNCHANGED <<snap, wal, pc, op, diskId, walId, fast, acked, mem, session, skip>>
    BY <1>11 DEF vars, disk, store, ids, ghost
  <2> QED
    BY <1>1, <2>1 DEF DurableInv, AckedRefsDurable, TrustedRefs, NothingUnwritten, FastUnchanged,
       RenamedIsMemory, OpeningRefs, NeverSkips, RewriteIsFull, Locked, Opening, OnDisk,
       unchanged_since_last_write, SnapUnchanged, WalUnchanged
<1> QED
  BY <1>2, <1>3, <1>4, <1>5, <1>6, <1>7, <1>8, <1>9, <1>10, <1>11
     DEF Next, Acquire, persist_pending, persist_pending_durable, prune_stale

(* Every ref a successful persist vouched for is recovered by whoever      *)
(* loads the cache, until an eviction, a deletion or the loss of the files *)
(* takes it: neither the journal fast path, nor a crash between the rename *)
(* and the retirement of the journal, nor a failed publication loses one.  *)
THEOREM PersistIsDurable ==
  ASSUME Undisturbed PROVE Spec => []AckedRefsDurable
<1>1. DurableInv => AckedRefsDurable
  BY DEF DurableInv
<1> QED BY <1>1, DurableInit, DurableStep, PTL DEF Spec

-----------------------------------------------------------------------------
(* Deletions.                                                              *)

(* Whoever holds the lock would bring back nothing but its own session. *)
WriterAddsSession ==
  \A p \in Proc : Locked(p) => mem[p].refs \subseteq OnDisk.refs \cup session[p]

(* A persist publishes a memory its own deletions are applied to. *)
DeletionsApplied ==
  \A p \in Proc : pc[p] \in {"publishing", "renamed"} /\ op[p] \in {"persist", "durable"} =>
    mem[p].refs \cap pending[p].blobs = {}

DeletionInv == DurableInv /\ DeletedStaysDeleted /\ WriterAddsSession /\ DeletionsApplied

(* A step that writes nothing and takes no lock. *)
LEMMA DeletionQuiet ==
  ASSUME DeletionInv, DurableInv', UNCHANGED <<snap, wal, removed>>,
         \A q \in Proc : Locked(q)' =>
           /\ Locked(q) /\ mem'[q] = mem[q] /\ session'[q] = session[q]
           /\ pc'[q] \in {"publishing", "renamed"} /\ op'[q] \in {"persist", "durable"} =>
                pc'[q] = pc[q] /\ op'[q] = op[q] /\ pending'[q] = pending[q]
  PROVE  DeletionInv'
<1>1. (OnDisk)' = OnDisk
  BY DEF OnDisk
<1>2. DeletedStaysDeleted' /\ WriterAddsSession'
  BY <1>1 DEF DeletionInv, DeletedStaysDeleted, WriterAddsSession
<1>3. DeletionsApplied'
  BY DEF DeletionInv, DeletionsApplied, Locked
<1> QED BY <1>2, <1>3 DEF DeletionInv

LEMMA DeletionPersist ==
  ASSUME DeletionInv, DurableInv', NEW p \in Proc, NEW D, NEW k \in {"persist", "durable"},
         PersistLocked(p, D, k)
  PROVE  DeletionInv'
<1> USE DEF disk, store, ids, ghost
<1> DEFINE clean  == unchanged_since_last_write(p)
           mine   == WithRefs(mem[p], mem[p].refs \ D)
           found  == Reloaded(mine)
           merged == IF clean THEN mine ELSE merge_states(found.base, found.mine, session[p])
<1>1. TypeOK /\ LockFree /\ UNCHANGED <<snap, wal, session, pending, removed>>
  BY DEF DeletionInv, DurableInv, OrdinalInv, PersistLocked
<1>2. merged.refs \subseteq OnDisk.refs \cup session[p]
  <2>1. CASE clean
    <3>1. mem[p].refs \subseteq OnDisk.refs \cup session[p]
      BY <2>1 DEF DeletionInv, DurableInv, NothingUnwritten
    <3> QED BY <2>1, <3>1 DEF WithRefs
  <2>2. CASE ~clean
    BY <2>2, ReloadRefs
  <2> QED BY <2>1, <2>2
<1>3. PICK kept \in EvictOutcomes(merged.refs) :
        mem' = [mem EXCEPT ![p] = apply_deletions(WithRefs(merged, kept),
                                                  pending[p].blobs, pending[p].aliases)]
  BY DEF PersistLocked
<1> HIDE DEF merged
<1>4. kept \subseteq merged.refs
  BY EvictSubset
<1>5. mem'[p].refs = kept \ pending[p].blobs
  BY <1>1, <1>3 DEF TypeOK, apply_deletions, WithRefs
<1>6. pc' = [pc EXCEPT ![p] = "publishing"]
  BY DEF PersistLocked
<1>7. \A q \in Proc \ {p} : ~Locked(q)'
  BY <1>1, <1>6 DEF LockFree, Locked, TypeOK
<1>8. (OnDisk)' = OnDisk
  BY <1>1 DEF OnDisk
<1>9. DeletedStaysDeleted'
  BY <1>1, <1>8 DEF DeletionInv, DeletedStaysDeleted
<1>10. WriterAddsSession' /\ DeletionsApplied'
  BY <1>1, <1>2, <1>4, <1>5, <1>7, <1>8 DEF WriterAddsSession, DeletionsApplied, Locked
<1> QED BY <1>9, <1>10 DEF DeletionInv

LEMMA DeletionReserve ==
  ASSUME DeletionInv, DurableInv', NEW p \in Proc, NEW count, reserve_ordinal_range(p, count)
  PROVE  DeletionInv'
<1> USE DEF disk, store, ids, ghost
<1> DEFINE found  == Reloaded(mem[p])
           merged == merge_states(found.base, found.mine, session[p])
<1>1. TypeOK /\ LockFree /\ UNCHANGED <<snap, wal, session, removed>>
  BY DEF DeletionInv, DurableInv, OrdinalInv, reserve_ordinal_range
<1>2. merged.refs \subseteq OnDisk.refs \cup session[p]
  BY ReloadRefs
<1>3. /\ mem' = [mem EXCEPT ![p] = WithOrdinals(merged, merged.gen, merged.next + count)]
      /\ pc' = [pc EXCEPT ![p] = "publishing"] /\ op' = [op EXCEPT ![p] = "reserve"]
  BY DEF reserve_ordinal_range
<1> HIDE DEF merged
<1>4. mem'[p].refs = merged.refs /\ op'[p] = "reserve" /\ \A q \in Proc \ {p} : ~Locked(q)'
  BY <1>1, <1>3 DEF TypeOK, WithOrdinals, LockFree, Locked
<1>5. (OnDisk)' = OnDisk
  BY <1>1 DEF OnDisk
<1>6. DeletedStaysDeleted'
  BY <1>1, <1>5 DEF DeletionInv, DeletedStaysDeleted
<1>7. WriterAddsSession' /\ DeletionsApplied'
  BY <1>1, <1>2, <1>4, <1>5 DEF WriterAddsSession, DeletionsApplied, Locked
<1> QED BY <1>6, <1>7 DEF DeletionInv

(* Publishing brings back the session's refs, which the deletion then no   *)
(* longer vouches for, and nothing else.                                   *)
LEMMA DeletionAppend ==
  ASSUME DeletionInv, DurableInv', NEW p \in Proc, try_append_session_journal(p)
  PROVE  DeletionInv'
<1> USE DEF disk, store, ids, ghost
<1> DEFINE record == session_delta(mem[p], session[p])
<1>1. TypeOK /\ pc[p] = "publishing" /\ snap # Unreadable /\ \A q \in Proc \ {p} : ~Locked(q)
  BY DEF DeletionInv, DurableInv, OrdinalInv, OneWriter, WriterReadable, Locked,
         try_append_session_journal
<1>2. /\ UNCHANGED <<snap, mem, op>> /\ removed' = removed \ session[p]
      /\ pc' = [pc EXCEPT ![p] = "committed"]
      /\ wal' = IF wal = NoWal THEN record ELSE merge_states(wal, record, record.refs)
  BY DEF try_append_session_journal, ComposeRecords, ReplayRecord
<1>3. record.refs = mem[p].refs \cap session[p] /\ record \in State
  BY <1>1, DeltaType DEF session_delta, TypeOK
<1> HIDE DEF record
<1>4. wal' # NoWal /\ wal'.refs = record.refs \cup (IF wal = NoWal THEN {} ELSE wal.refs)
  <2>1. CASE wal = NoWal
    BY <1>2, <1>3, <2>1, NotStates
  <2>2. CASE wal # NoWal
    <3>1. wal' \in State
      BY <1>1, <1>2, <1>3, <2>2, MergeType DEF TypeOK
    <3> QED BY <1>2, <2>2, <3>1, NotStates DEF merge_states, MergeEntries
  <2> QED BY <2>1, <2>2
<1>5. (OnDisk)'.refs = (IF snap' = NoSnap THEN {} ELSE snap'.refs)
                          \cup (IF wal' = NoWal THEN {} ELSE wal'.refs)
  BY LoadRefs DEF OnDisk
<1>6. (OnDisk)'.refs = OnDisk.refs \cup record.refs
  BY <1>2, <1>4, <1>5, OnDiskRefs
<1>7. DeletedStaysDeleted'
  BY <1>1, <1>2, <1>3, <1>6 DEF DeletionInv, DeletedStaysDeleted
<1>8. pc'[p] = "committed" /\ \A q \in Proc \ {p} : ~Locked(q)'
  BY <1>1, <1>2 DEF TypeOK, Locked
<1>9. mem[p].refs \subseteq OnDisk.refs \cup session[p]
  BY <1>1 DEF DeletionInv, WriterAddsSession, Locked
<1>10. WriterAddsSession' /\ DeletionsApplied'
  BY <1>2, <1>3, <1>6, <1>8, <1>9 DEF WriterAddsSession, DeletionsApplied, Locked
<1> QED BY <1>7, <1>10 DEF DeletionInv

LEMMA DeletionRename ==
  ASSUME DeletionInv, DurableInv', NEW p \in Proc, PublishRename(p)
  PROVE  DeletionInv'
<1> USE DEF disk, store, ids, ghost
<1>1. TypeOK /\ pc[p] = "publishing" /\ snap # Unreadable /\ \A q \in Proc \ {p} : ~Locked(q)
  BY DEF DeletionInv, DurableInv, OrdinalInv, OneWriter, WriterReadable, Locked, PublishRename
<1>2. /\ UNCHANGED <<wal, op, mem, session, pending>> /\ snap' = mem[p] /\ removed' = removed \ session[p]
      /\ pc' = [pc EXCEPT ![p] = "renamed"]
  BY DEF PublishRename
<1>3. snap' # NoSnap
  BY <1>1, <1>2, NotStates DEF TypeOK
<1>4. (OnDisk)'.refs = (IF snap' = NoSnap THEN {} ELSE snap'.refs)
                          \cup (IF wal' = NoWal THEN {} ELSE wal'.refs)
  BY LoadRefs DEF OnDisk
<1>5. (OnDisk)'.refs \subseteq OnDisk.refs \cup session[p] /\ mem[p].refs \subseteq (OnDisk)'.refs
  <2>1. mem[p].refs \subseteq OnDisk.refs \cup session[p]
    BY <1>1 DEF DeletionInv, WriterAddsSession, Locked
  <2> QED BY <1>2, <1>3, <1>4, <2>1, OnDiskRefs
<1>6. DeletedStaysDeleted'
  BY <1>1, <1>2, <1>5 DEF DeletionInv, DeletedStaysDeleted
<1>7. pc'[p] = "renamed" /\ \A q \in Proc \ {p} : ~Locked(q)'
  BY <1>1, <1>2 DEF TypeOK, Locked
<1>8. WriterAddsSession'
  BY <1>2, <1>5, <1>7 DEF WriterAddsSession
<1>9. DeletionsApplied'
  BY <1>1, <1>2, <1>7 DEF DeletionInv, DeletionsApplied, Locked
<1> QED BY <1>6, <1>8, <1>9 DEF DeletionInv

LEMMA DeletionRetire ==
  ASSUME DeletionInv, DurableInv', NEW p \in Proc, PublishRetire(p)
  PROVE  DeletionInv'
<1> USE DEF disk, store, ids, ghost
<1>1. TypeOK /\ pc[p] = "renamed" /\ snap # Unreadable /\ snap = mem[p] /\ \A q \in Proc \ {p} : ~Locked(q)
  BY DEF DeletionInv, DurableInv, OrdinalInv, OneWriter, WriterReadable, RenamedIsMemory, Locked,
         PublishRetire
<1>2. /\ UNCHANGED <<snap, mem>> /\ wal' = NoWal
      /\ removed' = IF op[p] \in {"persist", "durable"} THEN removed \cup pending[p].blobs ELSE removed
      /\ pending' = [pending EXCEPT ![p] = NoPending]
  BY DEF PublishRetire
<1>3. (OnDisk)'.refs = (IF snap' = NoSnap THEN {} ELSE snap'.refs)
                          \cup (IF wal' = NoWal THEN {} ELSE wal'.refs)
  BY LoadRefs DEF OnDisk
<1>4. (OnDisk)'.refs = mem[p].refs /\ mem[p].refs \subseteq OnDisk.refs
  BY <1>1, <1>2, <1>3, OnDiskRefs, NotStates DEF TypeOK
<1>5. op[p] \in {"persist", "durable"} => mem[p].refs \cap pending[p].blobs = {}
  BY <1>1 DEF DeletionInv, DeletionsApplied
<1>6. DeletedStaysDeleted'
  BY <1>1, <1>2, <1>4, <1>5 DEF DeletionInv, DeletedStaysDeleted
<1>7. pc'[p] \in {"committed", "publishing", "idle"} /\ (\A q \in Proc \ {p} : ~Locked(q)')
      /\ pending'[p].blobs = {}
  BY <1>1, <1>2 DEF PublishRetire, TypeOK, Locked, NoPending
<1>8. WriterAddsSession' /\ DeletionsApplied'
  BY <1>2, <1>4, <1>7 DEF WriterAddsSession, DeletionsApplied, Locked
<1> QED BY <1>6, <1>8 DEF DeletionInv

LEMMA DeletionEnvironment ==
  ASSUME DeletionInv, DurableInv', Undisturbed, Environment
  PROVE  DeletionInv'
<1> USE DEF disk, store, ids, ghost
<1>1. LockFree /\ UNCHANGED <<pc, removed>>
  BY DEF Environment, LoseStore, LoseSnapshot, CorruptSnapshot
<1>2. WriterAddsSession' /\ DeletionsApplied'
  BY <1>1 DEF WriterAddsSession, DeletionsApplied, LockFree, Locked
<1>3. DeletedStaysDeleted'
  <2>1. CASE LoseStore
    <3>1. (OnDisk)'.refs = (IF snap' = NoSnap THEN {} ELSE snap'.refs)
                              \cup (IF wal' = NoWal THEN {} ELSE wal'.refs)
      BY LoadRefs DEF OnDisk
    <3>2. (OnDisk)'.refs = {}
      BY <2>1, <3>1 DEF LoseStore
    <3> QED BY <3>2 DEF DeletedStaysDeleted
  <2>2. CASE CorruptSnapshot
    BY <2>2 DEF CorruptSnapshot, DeletedStaysDeleted
  <2> QED BY <2>1, <2>2 DEF Environment, LoseSnapshot, Undisturbed
<1> QED BY <1>2, <1>3 DEF DeletionInv

LEMMA DeletionStep ==
  ASSUME Undisturbed PROVE DeletionInv /\ [Next]_vars => DeletionInv'
<1> SUFFICES ASSUME DeletionInv, [Next]_vars PROVE DeletionInv'
  OBVIOUS
<1> USE DEF disk, store, ids, ghost
<1>1. DurableInv' /\ TypeOK
  BY DurableStep DEF DeletionInv, DurableInv, OrdinalInv
<1>2. ASSUME NEW p \in Proc, Open(p) PROVE DeletionInv'
  <2>1. UNCHANGED <<snap, wal, removed, op, session, pending>> /\ pc'[p] \notin {"publishing", "renamed", "committed"}
        /\ \A q \in Proc \ {p} : pc'[q] = pc[q] /\ mem'[q] = mem[q]
    BY <1>1, <1>2 DEF Open, OpenSnapshot, OpenJournal, OpenIdentify, TypeOK
  <2> QED BY <1>1, <2>1, DeletionQuiet DEF Locked
<1>3. ASSUME NEW p \in Proc, Mutate(p) \/ PersistRefused(p) PROVE DeletionInv'
  <2>1. UNCHANGED <<snap, wal, removed, op, pc>> /\ pc[p] = "idle"
    BY <1>3 DEF Mutate, store_alias_deferred, store_payload_deferred, admit_memoized_payload, remove_blob,
       remove_alias, mark_ambiguous, PersistRefused
  <2>2. \A q \in Proc \ {p} : mem'[q] = mem[q]
    <3>1. mem' = mem \/ \E m : mem' = [mem EXCEPT ![p] = m]
      <4>1. ASSUME NEW r \in Payloads, store_payload_deferred(p, r) PROVE \E m : mem' = [mem EXCEPT ![p] = m]
        BY <4>1, Zenon DEF store_payload_deferred
      <4>2. ASSUME PersistRefused(p) PROVE \E m : mem' = [mem EXCEPT ![p] = m]
        BY <4>2, Zenon DEF PersistRefused
      <4> QED BY <1>3, <4>1, <4>2 DEF Mutate, store_alias_deferred, admit_memoized_payload, remove_blob,
            remove_alias, mark_ambiguous
    <3> QED BY <1>1, <3>1 DEF TypeOK
  <2>3. \A q \in Proc \ {p} : session'[q] = session[q] /\ pending'[q] = pending[q]
    BY <1>1, <1>3, ZenonT(60) DEF Mutate, store_alias_deferred, store_payload_deferred, admit_memoized_payload, remove_blob,
       remove_alias, mark_ambiguous, PersistRefused, TypeOK
  <2> QED BY <1>1, <2>1, <2>2, <2>3, DeletionQuiet DEF Locked
<1>4. ASSUME NEW p \in Proc, NEW D, NEW k \in {"persist", "durable"}, PersistLocked(p, D, k)
      PROVE DeletionInv'
  BY <1>1, <1>4, DeletionPersist
<1>5. ASSUME NEW p \in Proc, NEW count \in Counts, reserve_ordinal_range(p, count)
      PROVE DeletionInv'
  BY <1>1, <1>5, DeletionReserve
<1>6. ASSUME NEW p \in Proc, externalize_large_pending_cas_locked(p) \/ PersistReturn(p) \/ PublishFails(p)
      PROVE DeletionInv'
  <2>1. UNCHANGED <<snap, wal, removed, mem, session, pending>> /\ Locked(p)
    BY <1>6 DEF externalize_large_pending_cas_locked, PersistReturn, PublishFails, Locked
  <2>2. op'[p] \notin {"persist", "durable"} /\ \A q \in Proc \ {p} : pc'[q] = pc[q] /\ op'[q] = op[q]
    <3>1. CASE externalize_large_pending_cas_locked(p)
      BY <1>1, <3>1 DEF externalize_large_pending_cas_locked, TypeOK
    <3>2. CASE PersistReturn(p)
      BY <1>1, <3>2 DEF PersistReturn, TypeOK
    <3>3. CASE PublishFails(p)
      BY <1>1, <3>3 DEF PublishFails, TypeOK
    <3> QED BY <1>6, <3>1, <3>2, <3>3
  <2> QED BY <1>1, <2>1, <2>2, DeletionQuiet DEF Locked
<1>7. ASSUME NEW p \in Proc, Publish(p) PROVE DeletionInv'
  BY <1>1, <1>6, <1>7, DeletionAppend, DeletionRename, DeletionRetire DEF Publish
<1>8. ASSUME NEW p \in Proc, Crash(p) PROVE DeletionInv'
  <2>1. UNCHANGED <<snap, wal, removed>> /\ pc'[p] = "down"
        /\ \A q \in Proc \ {p} : /\ pc'[q] = pc[q] /\ op'[q] = op[q] /\ mem'[q] = mem[q]
                                 /\ session'[q] = session[q] /\ pending'[q] = pending[q]
    BY <1>1, <1>8 DEF Crash, Reset, TypeOK
  <2> QED BY <1>1, <2>1, DeletionQuiet DEF Locked
<1>9. ASSUME Environment PROVE DeletionInv'
  BY <1>1, <1>9, DeletionEnvironment
<1>10. ASSUME NEW p \in Proc, publish_pending_cas(p) \/ persist_skip_empty(p) \/ RewriteOnly(p)
       PROVE DeletionInv'
  BY <1>10 DEF publish_pending_cas, Undisturbed, persist_skip_empty, RewriteOnly, SkipEmpty, DeletionInv,
     DurableInv, NeverSkips
<1>11. ASSUME UNCHANGED vars PROVE DeletionInv'
  BY <1>1, <1>11, DeletionQuiet DEF vars, Locked
<1> QED
  BY <1>2, <1>3, <1>4, <1>5, <1>7, <1>8, <1>9, <1>10, <1>11
     DEF Next, Acquire, persist_pending, persist_pending_durable, prune_stale

(* A blob whose deletion a persist published stays deleted: a process that *)
(* loaded it before, and merges its memory over the disk later, does not   *)
(* bring it back; only storing it again does.                              *)
THEOREM DeletionIsDurable ==
  ASSUME Undisturbed PROVE Spec => []DeletedStaysDeleted
<1>1. Init => DeletionInv
  BY DurableInit DEF Init, DeletionInv, DeletedStaysDeleted, WriterAddsSession, DeletionsApplied, Locked
<1>2. DeletionInv => DeletedStaysDeleted
  BY DEF DeletionInv
<1> QED BY <1>1, <1>2, DeletionStep, PTL DEF Spec

-----------------------------------------------------------------------------
(* Aliases.                                                                *)

(* The state still maps each binding, or refuses its alias as ambiguous. *)
KeptBy(bindings, s) ==
  \A b \in bindings : /\ b[1] \in DOMAIN s.aliases
                      /\ s.aliases[b[1]] = b[2] \/ b[1] \in s.ambig

TrustedAliases ==
  \A p \in Proc : Locked(p) \/ unchanged_since_last_write(p) => KeptBy(ackedAliases, mem[p])

OpeningIsDisk == \A p \in Proc : pc[p] = "opening" => mem[p] = OnDisk

AliasInv == DurableInv /\ AckedAliasesSafe /\ TrustedAliases /\ OpeningIsDisk

(* A merge keeps the bindings of the disk and vouches for the store's: a   *)
(* target that lost to an earlier one is marked.                           *)
LEMMA MergeKeeps ==
  ASSUME NEW e, NEW c, NEW S, NEW B, KeptBy(B, e)
  PROVE  KeptBy(B, merge_states(e, c, S))
BY DEF KeptBy, merge_states, MergeAliases

LEMMA MergeVouches ==
  ASSUME NEW e, NEW c, NEW S
  PROVE  KeptBy(Bindings(c), merge_states(e, c, S))
<1> DEFINE m == merge_states(e, c, S)
<1> SUFFICES ASSUME NEW a \in DOMAIN c.aliases
             PROVE  /\ a \in DOMAIN m.aliases
                    /\ m.aliases[a] = c.aliases[a] \/ a \in m.ambig
  BY DEF KeptBy, Bindings
<1>1. CASE a \in DOMAIN e.aliases
  BY <1>1 DEF merge_states, MergeAliases, Conflicts
<1>2. CASE a \notin DOMAIN e.aliases
  BY <1>2 DEF merge_states, MergeAliases
<1> QED BY <1>1, <1>2

LEMMA OwnBindings == ASSUME NEW s PROVE KeptBy(Bindings(s), s)
BY DEF KeptBy, Bindings

(* Replaying the journal keeps the bindings of the snapshot. *)
LEMMA LoadKeeps ==
  ASSUME NEW s, s # NoSnap, NEW w, NEW B, KeptBy(B, s)
  PROVE  KeptBy(B, load_state(s, w))
BY MergeKeeps DEF load_state, ReplayRecord

LEMMA DiskKeeps == AckedAliasesSafe <=> (snap # Unreadable => KeptBy(ackedAliases, OnDisk))
BY DEF AckedAliasesSafe, KeptBy

LEMMA DiskKeepsNext ==
  AckedAliasesSafe' <=> (snap' # Unreadable => KeptBy(ackedAliases', load_state(snap', wal')))
BY DEF AckedAliasesSafe, KeptBy, OnDisk

(* A step that writes nothing to the files. *)
LEMMA AliasQuiet ==
  ASSUME AliasInv, DurableInv', UNCHANGED <<snap, wal>>, ackedAliases' \subseteq ackedAliases,
         \A q \in Proc : /\ Locked(q)' \/ unchanged_since_last_write(q)' => KeptBy(ackedAliases', mem'[q])
                         /\ pc'[q] = "opening" => mem'[q] = OnDisk
  PROVE  AliasInv'
<1>1. (OnDisk)' = OnDisk
  BY DEF OnDisk
<1>2. AckedAliasesSafe'
  BY <1>1 DEF AliasInv, AckedAliasesSafe
<1>3. TrustedAliases' /\ OpeningIsDisk'
  BY <1>1 DEF TrustedAliases, OpeningIsDisk, KeptBy
<1> QED BY <1>2, <1>3 DEF AliasInv

(* The memory of an idle store changes, and keeps what it is trusted for. *)
LEMMA AliasOwn ==
  ASSUME AliasInv, DurableInv', NEW p \in Proc, UNCHANGED <<snap, wal, pc, ids>>, pc[p] = "idle",
         ackedAliases' \subseteq ackedAliases, \A q \in Proc \ {p} : mem'[q] = mem[q],
         unchanged_since_last_write(p) => KeptBy(ackedAliases', mem'[p])
  PROVE  AliasInv'
<1> USE DEF ids
<1>1. \A q \in Proc : /\ unchanged_since_last_write(q)' = unchanged_since_last_write(q)
                      /\ Locked(q)' = Locked(q)
  BY DEF unchanged_since_last_write, SnapUnchanged, WalUnchanged, Locked
<1>2. ~Locked(p) /\ pc'[p] = "idle"
  BY DEF Locked
<1>3. ASSUME NEW q \in Proc \ {p}
      PROVE  /\ Locked(q)' \/ unchanged_since_last_write(q)' => KeptBy(ackedAliases', mem'[q])
             /\ pc'[q] = "opening" => mem'[q] = OnDisk
  BY <1>1 DEF AliasInv, TrustedAliases, OpeningIsDisk, KeptBy
<1> QED BY <1>1, <1>2, <1>3, AliasQuiet

LEMMA AliasMutate ==
  ASSUME AliasInv, DurableInv', NEW p \in Proc, Mutate(p) \/ PersistRefused(p)
  PROVE  AliasInv'
<1> USE DEF disk, store, ids, ghost
<1>1. TypeOK /\ mem[p] \in State
  BY DEF AliasInv, DurableInv, OrdinalInv, TypeOK
<1>2. UNCHANGED <<snap, wal, pc, ids>> /\ pc[p] = "idle"
  BY DEF Mutate, store_alias_deferred, store_payload_deferred, admit_memoized_payload, remove_blob,
         remove_alias, mark_ambiguous, PersistRefused
<1>3. unchanged_since_last_write(p) => KeptBy(ackedAliases, mem[p])
  BY DEF AliasInv, TrustedAliases
<1>4. ASSUME NEW m, mem' = [mem EXCEPT ![p] = m], ackedAliases' = ackedAliases,
             KeptBy(ackedAliases, mem[p]) => KeptBy(ackedAliases, m)
      PROVE  AliasInv'
  <2>1. mem'[p] = m /\ \A q \in Proc \ {p} : mem'[q] = mem[q]
    BY <1>1, <1>4 DEF TypeOK
  <2> QED BY <1>2, <1>3, <1>4, <2>1, AliasOwn
<1>5. ASSUME NEW s \in State, NEW a, KeptBy(ackedAliases, s) PROVE KeptBy(ackedAliases, WithConflict(s, a))
  <2>1. WithConflict(s, a).aliases = s.aliases /\ s.ambig \subseteq WithConflict(s, a).ambig
    BY DEF WithConflict, State
  <2> QED BY <1>5, <2>1 DEF KeptBy
<1>6. ASSUME NEW a, NEW t, KeptBy(ackedAliases, mem[p])
      PROVE  KeptBy(ackedAliases, WithAlias(mem[p], a, t))
  <2>1. CASE a \notin DOMAIN mem[p].aliases
    BY <1>6, <2>1 DEF WithAlias, KeptBy, MergeAliases
  <2>2. CASE a \in DOMAIN mem[p].aliases
    BY <1>1, <1>5, <1>6, <2>2 DEF WithAlias
  <2> QED BY <2>1, <2>2
<1>7. ASSUME NEW s, NEW R, KeptBy(ackedAliases, s) PROVE KeptBy(ackedAliases, WithRefs(s, R))
  BY <1>7 DEF KeptBy, WithRefs
<1>8. ASSUME NEW a, NEW t, store_alias_deferred(p, a, t) PROVE AliasInv'
  BY <1>4, <1>6, <1>8 DEF store_alias_deferred
<1>9. ASSUME NEW r \in Payloads, store_payload_deferred(p, r) PROVE AliasInv'
  <2> DEFINE put == IF r \in DOMAIN LegacyAlias THEN WithAlias(mem[p], LegacyAlias[r], r)
                    ELSE mem[p]
  <2>1. KeptBy(ackedAliases, mem[p]) => KeptBy(ackedAliases, put)
    BY <1>6
  <2> HIDE DEF put
  <2>2. PICK kept : mem' = [mem EXCEPT ![p] = WithRefs(put, kept)]
    BY <1>9 DEF store_payload_deferred, put
  <2> QED BY <1>4, <1>7, <1>9, <2>1, <2>2 DEF store_payload_deferred
<1>10. ASSUME NEW r, remove_blob(p, r) PROVE AliasInv'
  <2>1. KeptBy(ackedAliases, mem[p]) => KeptBy(ackedAliases, apply_deletions(mem[p], {r}, {}))
    BY DEF KeptBy, apply_deletions
  <2> QED BY <1>4, <1>10, <2>1 DEF remove_blob
<1>11. ASSUME NEW a, remove_alias(p, a) PROVE AliasInv'
  <2> DEFINE m == apply_deletions(mem[p], {}, {a})
  <2>1. /\ mem' = [mem EXCEPT ![p] = m]
        /\ ackedAliases' = IF unchanged_since_last_write(p)
                           THEN {b \in ackedAliases : b[1] # a} ELSE ackedAliases
    BY <1>11 DEF remove_alias
  <2>2. mem'[p] = m /\ \A q \in Proc \ {p} : mem'[q] = mem[q]
    BY <1>1, <2>1 DEF TypeOK
  <2>3. unchanged_since_last_write(p) => KeptBy(ackedAliases', m)
    BY <1>3, <2>1 DEF KeptBy, apply_deletions
  <2> QED BY <1>2, <2>1, <2>2, <2>3, AliasOwn
<1>12. ASSUME NEW a, mark_ambiguous(p, a) PROVE AliasInv'
  BY <1>1, <1>4, <1>5, <1>12 DEF mark_ambiguous
<1>13. ASSUME PersistRefused(p) PROVE AliasInv'
  <2>1. PICK R : mem' = [mem EXCEPT ![p] = WithRefs(mem[p], R)]
    BY <1>13 DEF PersistRefused
  <2> QED BY <1>4, <1>7, <1>13, <2>1 DEF PersistRefused
<1>14. ASSUME admit_memoized_payload(p) PROVE AliasInv'
  BY <1>2, <1>3, <1>14, AliasOwn DEF admit_memoized_payload
<1> QED
  BY <1>8, <1>9, <1>10, <1>11, <1>12, <1>13, <1>14 DEF Mutate

(* A reload and merge keeps every binding a persist vouched for. *)
LEMMA ReloadKeeps ==
  ASSUME AliasInv, CanReload, NEW m, NEW S
  PROVE  KeptBy(ackedAliases, merge_states(Reloaded(m).base, Reloaded(m).mine, S))
<1>1. KeptBy(ackedAliases, OnDisk)
  BY DiskKeeps DEF AliasInv, CanReload
<1>2. KeptBy(ackedAliases, Reloaded(m).base)
  <2>1. CASE StoreAbsent
    <3>1. OnDisk = Empty
      BY <2>1 DEF StoreAbsent, OnDisk, load_state
    <3>2. Reloaded(m).base.aliases = Empty.aliases /\ Reloaded(m).base.ambig = Empty.ambig
      BY <2>1 DEF Reloaded, WithOrdinals
    <3> QED BY <1>1, <3>1, <3>2 DEF KeptBy
  <2>2. CASE ~StoreAbsent
    BY <1>1, <2>2 DEF Reloaded
  <2> QED BY <2>1, <2>2
<1> QED BY <1>2, MergeKeeps

LEMMA AliasAcquire ==
  ASSUME AliasInv, DurableInv', NEW p \in Proc, LockFree, UNCHANGED <<snap, wal, ids>>,
         ackedAliases' \subseteq ackedAliases, KeptBy(ackedAliases', mem'[p]),
         pc'[p] = "publishing",
         \A q \in Proc \ {p} : mem'[q] = mem[q] /\ pc'[q] = pc[q]
  PROVE  AliasInv'
<1> USE DEF ids
<1>1. \A q \in Proc : unchanged_since_last_write(q)' = unchanged_since_last_write(q)
  BY DEF unchanged_since_last_write, SnapUnchanged, WalUnchanged
<1>2. \A q \in Proc \ {p} : ~Locked(q)'
  BY DEF LockFree, Locked
<1>3. ASSUME NEW q \in Proc \ {p}
      PROVE  /\ Locked(q)' \/ unchanged_since_last_write(q)' => KeptBy(ackedAliases', mem'[q])
             /\ pc'[q] = "opening" => mem'[q] = OnDisk
  BY <1>1, <1>2 DEF AliasInv, TrustedAliases, OpeningIsDisk, KeptBy
<1> QED BY <1>3, AliasQuiet

LEMMA AliasPersist ==
  ASSUME AliasInv, DurableInv', NEW p \in Proc, NEW D, NEW k, PersistLocked(p, D, k)
  PROVE  AliasInv'
<1> USE DEF disk, store, ids, ghost
<1> DEFINE clean  == unchanged_since_last_write(p)
           mine   == WithRefs(mem[p], mem[p].refs \ D)
           found  == Reloaded(mine)
           merged == IF clean THEN mine ELSE merge_states(found.base, found.mine, session[p])
<1>1. TypeOK /\ LockFree /\ UNCHANGED <<snap, wal, ids>> /\ (clean \/ CanReload)
  BY DEF AliasInv, DurableInv, OrdinalInv, PersistLocked
<1>2. KeptBy(ackedAliases, merged)
  <2>1. CASE clean
    <3>1. KeptBy(ackedAliases, mem[p])
      BY <2>1 DEF AliasInv, TrustedAliases
    <3> QED BY <2>1, <3>1 DEF WithRefs, KeptBy
  <2>2. CASE ~clean
    BY <1>1, <2>2, ReloadKeeps
  <2> QED BY <2>1, <2>2
<1>3. PICK kept : mem' = [mem EXCEPT ![p] = apply_deletions(WithRefs(merged, kept),
                                                  pending[p].blobs, pending[p].aliases)]
  BY DEF PersistLocked
<1>4. ackedAliases' = {b \in ackedAliases : b[1] \notin pending[p].aliases}
      /\ pc' = [pc EXCEPT ![p] = "publishing"]
  BY DEF PersistLocked
<1> HIDE DEF merged
<1>5. /\ mem'[p] = apply_deletions(WithRefs(merged, kept), pending[p].blobs, pending[p].aliases)
      /\ pc'[p] = "publishing" /\ \A q \in Proc \ {p} : mem'[q] = mem[q] /\ pc'[q] = pc[q]
  BY <1>1, <1>3, <1>4 DEF TypeOK
<1>6. KeptBy(ackedAliases', mem'[p])
  BY <1>2, <1>4, <1>5 DEF KeptBy, apply_deletions, WithRefs
<1> QED BY <1>1, <1>4, <1>5, <1>6, AliasAcquire

LEMMA AliasReserve ==
  ASSUME AliasInv, DurableInv', NEW p \in Proc, NEW count, reserve_ordinal_range(p, count)
  PROVE  AliasInv'
<1> USE DEF disk, store, ids, ghost
<1> DEFINE found  == Reloaded(mem[p])
           merged == merge_states(found.base, found.mine, session[p])
<1>1. TypeOK /\ LockFree /\ UNCHANGED <<snap, wal, ids, ackedAliases>> /\ CanReload
  BY DEF AliasInv, DurableInv, OrdinalInv, reserve_ordinal_range
<1>2. KeptBy(ackedAliases, merged)
  BY <1>1, ReloadKeeps
<1>3. /\ mem' = [mem EXCEPT ![p] = WithOrdinals(merged, merged.gen, merged.next + count)]
      /\ pc' = [pc EXCEPT ![p] = "publishing"]
  BY DEF reserve_ordinal_range
<1> HIDE DEF merged
<1>4. /\ mem'[p] = WithOrdinals(merged, merged.gen, merged.next + count)
      /\ pc'[p] = "publishing" /\ \A q \in Proc \ {p} : mem'[q] = mem[q] /\ pc'[q] = pc[q]
  BY <1>1, <1>3 DEF TypeOK
<1>5. KeptBy(ackedAliases', mem'[p])
  BY <1>1, <1>2, <1>4 DEF KeptBy, WithOrdinals
<1> QED BY <1>1, <1>4, <1>5, AliasAcquire

(* The record carries the whole alias table: replaying it over the disk    *)
(* keeps the disk's bindings and marks the store's that lost.              *)
LEMMA AliasAppend ==
  ASSUME AliasInv, DurableInv', Undisturbed, NEW p \in Proc, try_append_session_journal(p)
  PROVE  AliasInv'
<1> USE DEF disk, store, ids, ghost
<1> DEFINE record == session_delta(mem[p], session[p])
<1>1. /\ TypeOK /\ pc[p] = "publishing" /\ snap # Unreadable /\ (\A q \in Proc : ~Opening(q))
      /\ Locked(p) /\ \A q \in Proc \ {p} : ~Locked(q)
  BY DEF AliasInv, DurableInv, OrdinalInv, OneWriter, WriterReadable, Locked, MayWrite, Undisturbed,
         try_append_session_journal
<1>2. /\ UNCHANGED <<snap, mem>> /\ pc' = [pc EXCEPT ![p] = "committed"]
      /\ wal' = IF wal = NoWal THEN record ELSE ComposeRecords(wal, record)
      /\ walId' = [Outdated(walId) EXCEPT ![p] = "Current"]
      /\ ackedAliases' = ackedAliases \cup Bindings(mem[p])
  BY DEF try_append_session_journal, Vouch
<1>3. record \in State /\ Bindings(record) = Bindings(mem[p])
  <2>1. mem[p] \in State /\ session[p] \in SUBSET Ref
    BY <1>1 DEF TypeOK
  <2>2. record \in State
    BY <2>1, DeltaType
  <2> QED BY <2>2 DEF session_delta, Bindings
<1> HIDE DEF record
<1> DEFINE base == IF snap = NoSnap THEN Empty ELSE snap
<1>4. base \in State
  BY <1>1, EmptyType DEF TypeOK
<1>5. wal' # NoWal
  <2>1. wal # NoWal => ComposeRecords(wal, record) \in State
    BY <1>1, <1>3, MergeType DEF ComposeRecords, ReplayRecord, TypeOK
  <2> QED BY <1>2, <1>3, <2>1, NotStates
<1>6. load_state(snap', wal') = ReplayRecord(OnDisk, record)
  <2>1. CASE wal = NoWal
    BY <1>2, <1>5, <2>1 DEF load_state, OnDisk
  <2>2. CASE wal # NoWal
    <3>1. wal \in State
      BY <1>1, <2>2 DEF TypeOK
    <3>2. ReplayRecord(ReplayRecord(base, wal), record) = ReplayRecord(base, ComposeRecords(wal, record))
      BY <1>3, <1>4, <3>1, JournalComposition
    <3> QED BY <1>2, <1>5, <2>2, <3>2 DEF load_state, OnDisk
  <2> QED BY <2>1, <2>2
<1>7. KeptBy(ackedAliases, OnDisk)
  BY <1>1, DiskKeeps DEF AliasInv
<1>8. KeptBy(ackedAliases, load_state(snap', wal')) /\ KeptBy(Bindings(mem[p]), load_state(snap', wal'))
  BY <1>3, <1>6, <1>7, MergeKeeps, MergeVouches DEF ReplayRecord
<1>9. AckedAliasesSafe'
  BY <1>2, <1>8, DiskKeepsNext DEF KeptBy
<1>10. \A q \in Proc \ {p} : pc'[q] = pc[q] /\ ~Locked(q)' /\ walId'[q] # "Current"
  BY <1>1, <1>2 DEF TypeOK, Locked, Outdated
<1>11. \A q \in Proc \ {p} : ~unchanged_since_last_write(q)'
  BY <1>5, <1>10 DEF unchanged_since_last_write, WalUnchanged
<1>12. KeptBy(ackedAliases', mem'[p])
  <2>1. KeptBy(ackedAliases, mem[p])
    BY <1>1 DEF AliasInv, TrustedAliases
  <2> QED BY <1>2, <2>1, OwnBindings DEF KeptBy
<1>13. TrustedAliases'
  BY <1>10, <1>11, <1>12 DEF TrustedAliases, KeptBy
<1>14. OpeningIsDisk'
  BY <1>1, <1>2, <1>10 DEF OpeningIsDisk, Opening, TypeOK
<1> QED BY <1>9, <1>13, <1>14 DEF AliasInv

LEMMA AliasRename ==
  ASSUME AliasInv, DurableInv', Undisturbed, NEW p \in Proc, PublishRename(p)
  PROVE  AliasInv'
<1> USE DEF disk, store, ids, ghost
<1>1. /\ TypeOK /\ pc[p] = "publishing" /\ (\A q \in Proc : ~Opening(q))
      /\ Locked(p) /\ \A q \in Proc \ {p} : ~Locked(q)
  BY DEF AliasInv, DurableInv, OrdinalInv, OneWriter, Locked, MayWrite, Undisturbed, PublishRename
<1>2. /\ UNCHANGED <<wal, mem>> /\ snap' = mem[p] /\ pc' = [pc EXCEPT ![p] = "renamed"]
      /\ ackedAliases' \in {ackedAliases, ackedAliases \cup Bindings(mem[p])}
      /\ diskId' \in {Outdated(diskId), [Outdated(diskId) EXCEPT ![p] = "None"]}
  BY DEF PublishRename, Vouch, Outdated
<1>3. KeptBy(ackedAliases', mem[p])
  <2>1. KeptBy(ackedAliases, mem[p])
    BY <1>1 DEF AliasInv, TrustedAliases
  <2> QED BY <1>2, <2>1, OwnBindings DEF KeptBy
<1>4. snap' # NoSnap
  BY <1>1, <1>2, NotStates DEF TypeOK
<1>5. AckedAliasesSafe'
  BY <1>2, <1>3, <1>4, LoadKeeps, DiskKeepsNext
<1>6. \A q \in Proc \ {p} : pc'[q] = pc[q] /\ ~Locked(q)'
  BY <1>1, <1>2 DEF TypeOK, Locked
<1>7. \A q \in Proc : ~unchanged_since_last_write(q)'
  <2>1. \A q \in Proc : Outdated(diskId)[q] # "Current"
    BY <1>1 DEF TypeOK, Outdated
  <2>2. \A q \in Proc : diskId'[q] # "Current"
    BY <1>2, <2>1 DEF Outdated
  <2> QED BY <1>4, <2>2 DEF unchanged_since_last_write, SnapUnchanged
<1>8. TrustedAliases'
  BY <1>2, <1>3, <1>6, <1>7 DEF TrustedAliases, KeptBy
<1>9. OpeningIsDisk'
  BY <1>1, <1>2, <1>6 DEF OpeningIsDisk, Opening, TypeOK
<1> QED BY <1>5, <1>8, <1>9 DEF AliasInv

LEMMA AliasRetire ==
  ASSUME AliasInv, DurableInv', Undisturbed, NEW p \in Proc, PublishRetire(p)
  PROVE  AliasInv'
<1> USE DEF disk, store, ids, ghost
<1>1. /\ OrdinalInv /\ TypeOK /\ pc[p] = "renamed" /\ snap = mem[p] /\ (\A q \in Proc : ~Opening(q))
      /\ Locked(p) /\ \A q \in Proc \ {p} : ~Locked(q)
  BY DEF AliasInv, DurableInv, OrdinalInv, OneWriter, RenamedIsMemory, Locked, MayWrite, Undisturbed,
         PublishRetire
<1>2. UNCHANGED <<snap, mem, ackedAliases>> /\ wal' = NoWal
  BY DEF PublishRetire
<1>3. KeptBy(ackedAliases, mem[p]) /\ snap # NoSnap
  BY <1>1, NotStates DEF AliasInv, TrustedAliases, TypeOK
<1>4. AckedAliasesSafe'
  BY <1>1, <1>2, <1>3, LoadKeeps, DiskKeepsNext
<1>5. /\ pc'[p] \in {"committed", "publishing", "idle"}
      /\ \A q \in Proc \ {p} : pc'[q] = pc[q] /\ ~Locked(q)'
  BY <1>1 DEF PublishRetire, TypeOK, Locked
<1>6. \A q \in Proc \ {p} : unchanged_since_last_write(q)' => unchanged_since_last_write(q)
  BY <1>1, RetireForeign
<1>7. TrustedAliases'
  BY <1>2, <1>3, <1>5, <1>6 DEF AliasInv, TrustedAliases, KeptBy
<1>8. OpeningIsDisk'
  BY <1>1, <1>5 DEF OpeningIsDisk, Opening
<1> QED BY <1>4, <1>7, <1>8 DEF AliasInv

(* Steps that write nothing, keep every memory and at most lose trust. *)
LEMMA AliasContinue ==
  ASSUME AliasInv, DurableInv', NEW p \in Proc,
         externalize_large_pending_cas_locked(p) \/ PersistReturn(p) \/ PublishFails(p) \/ Crash(p)
  PROVE  AliasInv'
<1> USE DEF disk, store, ids, ghost
<1>1. TypeOK /\ UNCHANGED <<snap, wal, ackedAliases>>
  BY DEF AliasInv, DurableInv, OrdinalInv, externalize_large_pending_cas_locked, PersistReturn,
         PublishFails, Crash
<1>2. /\ pc'[p] \in {"publishing", "idle", "down"}
      /\ pc'[p] = "down" => diskId'[p] = "None"
      /\ pc'[p] # "down" => Locked(p) /\ mem'[p] = mem[p]
      /\ \A q \in Proc \ {p} : /\ pc'[q] = pc[q] /\ mem'[q] = mem[q] /\ diskId'[q] = diskId[q]
                               /\ walId'[q] = walId[q]
  <2>1. CASE externalize_large_pending_cas_locked(p)
    BY <1>1, <2>1 DEF externalize_large_pending_cas_locked, TypeOK, Locked
  <2>2. CASE PersistReturn(p)
    BY <1>1, <2>2 DEF PersistReturn, TypeOK, Locked
  <2>3. CASE PublishFails(p)
    BY <1>1, <2>3 DEF PublishFails, TypeOK, Locked
  <2>4. CASE Crash(p)
    BY <1>1, <2>4 DEF Crash, Reset, TypeOK
  <2> QED BY <2>1, <2>2, <2>3, <2>4
<1>3. \A q \in Proc \ {p} : /\ unchanged_since_last_write(q)' = unchanged_since_last_write(q)
                            /\ Locked(q)' = Locked(q)
  BY <1>1, <1>2 DEF unchanged_since_last_write, SnapUnchanged, WalUnchanged, Locked
<1>4. Locked(p)' \/ unchanged_since_last_write(p)' => KeptBy(ackedAliases', mem'[p])
  <2>1. CASE pc'[p] = "down"
    BY <1>2, <2>1 DEF Locked, unchanged_since_last_write
  <2>2. CASE pc'[p] # "down"
    BY <1>1, <1>2, <2>2 DEF AliasInv, TrustedAliases, KeptBy
  <2> QED BY <2>1, <2>2
<1>5. ASSUME NEW q \in Proc \ {p}
      PROVE  /\ Locked(q)' \/ unchanged_since_last_write(q)' => KeptBy(ackedAliases', mem'[q])
             /\ pc'[q] = "opening" => mem'[q] = OnDisk
  BY <1>1, <1>2, <1>3 DEF AliasInv, TrustedAliases, OpeningIsDisk, KeptBy
<1> QED BY <1>1, <1>2, <1>4, <1>5, AliasQuiet

LEMMA AliasOpen ==
  ASSUME AliasInv, DurableInv', NEW p \in Proc, Open(p)
  PROVE  AliasInv'
<1> USE DEF disk, store, ids, ghost
<1>1. OrdinalInv /\ TypeOK /\ UNCHANGED <<snap, wal, ackedAliases>> /\ OpeningRefs
  BY DEF AliasInv, DurableInv, OrdinalInv, Open, OpenSnapshot, OpenJournal, OpenIdentify
<1>2. \A q \in Proc \ {p} : /\ mem'[q] = mem[q] /\ pc'[q] = pc[q]
                            /\ diskId'[q] = diskId[q] /\ walId'[q] = walId[q]
  <2>1. CASE OpenSnapshot(p)
    BY <1>1, <2>1 DEF OpenSnapshot, TypeOK
  <2>2. CASE OpenJournal(p)
    BY <1>1, <2>2 DEF OpenJournal, TypeOK
  <2>3. CASE OpenIdentify(p)
    BY <1>1, <2>3 DEF OpenIdentify, TypeOK
  <2> QED BY <2>1, <2>2, <2>3 DEF Open
<1>3. ASSUME NEW q \in Proc \ {p}
      PROVE  /\ Locked(q)' \/ unchanged_since_last_write(q)' => KeptBy(ackedAliases', mem'[q])
             /\ pc'[q] = "opening" => mem'[q] = OnDisk
  <2>1. Locked(q)' = Locked(q) /\ unchanged_since_last_write(q)' = unchanged_since_last_write(q)
    BY <1>1, <1>2 DEF unchanged_since_last_write, SnapUnchanged, WalUnchanged, Locked
  <2> QED BY <1>1, <1>2, <2>1 DEF AliasInv, TrustedAliases, OpeningIsDisk, KeptBy
<1>4. /\ Locked(p)' \/ unchanged_since_last_write(p)' => KeptBy(ackedAliases', mem'[p])
      /\ pc'[p] = "opening" => mem'[p] = OnDisk
  <2>1. CASE OpenSnapshot(p)
    <3>1. pc'[p] \in {"loading", "loadingFresh", "idle"} /\ diskId'[p] = "None"
      BY <1>1, <2>1 DEF OpenSnapshot, TypeOK, OpeningRefs
    <3> QED BY <3>1 DEF Locked, unchanged_since_last_write
  <2>2. CASE OpenJournal(p)
    <3>1. /\ pc'[p] \in {"opening", "idle"} /\ diskId'[p] = "None" /\ mem'[p] = load_state(mem[p], wal)
          /\ pc'[p] = "opening" => ~(pc[p] = "loadingFresh" /\ wal = NoWal)
      BY <1>1, <2>2 DEF OpenJournal, TypeOK, OpeningRefs, Opening
    <3>2. CASE pc[p] = "loading"
      BY <1>1, <3>1, <3>2 DEF OrdinalInv, OpeningCovers, OnDisk, Locked, unchanged_since_last_write
    <3>3. CASE pc[p] = "loadingFresh"
      BY <1>1, <3>1, <3>3 DEF OrdinalInv, OpeningCovers, JournalOrdinals, Locked, unchanged_since_last_write
    <3> QED BY <2>2, <3>2, <3>3 DEF OpenJournal
  <2>3. CASE OpenIdentify(p)
    <3>1. pc[p] = "opening" /\ pc'[p] = "idle" /\ mem' = mem
      BY <1>1, <2>3 DEF OpenIdentify, TypeOK
    <3>2. mem[p] = OnDisk /\ snap # Unreadable
      BY <1>1, <3>1 DEF AliasInv, OpeningIsDisk, OrdinalInv, OpeningCovers, IsState
    <3> QED BY <1>1, <3>1, <3>2, DiskKeeps DEF AliasInv, KeptBy
  <2> QED BY <2>1, <2>2, <2>3 DEF Open
<1> QED BY <1>1, <1>3, <1>4, AliasQuiet

LEMMA AliasEnvironment ==
  ASSUME AliasInv, DurableInv', Undisturbed, Environment
  PROVE  AliasInv'
<1> USE DEF disk, store, ids, ghost
<1>1. TypeOK /\ UNCHANGED <<pc, mem>> /\ LockFree
      /\ (\A q \in Proc : ~Opening(q)) /\ diskId' = Outdated(diskId)
  BY DEF AliasInv, DurableInv, OrdinalInv, Environment, LoseStore, LoseSnapshot, CorruptSnapshot,
         Undisturbed, MayWrite
<1>2. ackedAliases' = {} \/ snap' = Unreadable
  BY DEF Environment, LoseStore, LoseSnapshot, CorruptSnapshot, Undisturbed
<1>3. \A q \in Proc : diskId'[q] # "Current"
  BY <1>1 DEF TypeOK, Outdated
<1>4. snap' = NoSnap \/ snap' = Unreadable
  BY DEF Environment, LoseStore, LoseSnapshot, CorruptSnapshot
<1>5. \A q \in Proc : ~unchanged_since_last_write(q)' /\ ~Locked(q)' /\ pc'[q] # "opening"
  BY <1>1, <1>3, <1>4 DEF unchanged_since_last_write, SnapUnchanged, LockFree, Locked, Opening
<1>6. AckedAliasesSafe'
  BY <1>2 DEF AckedAliasesSafe
<1>7. TrustedAliases' /\ OpeningIsDisk'
  BY <1>5 DEF TrustedAliases, OpeningIsDisk
<1> QED BY <1>6, <1>7 DEF AliasInv

LEMMA AliasStep ==
  ASSUME Undisturbed PROVE AliasInv /\ [Next]_vars => AliasInv'
<1> SUFFICES ASSUME AliasInv, [Next]_vars PROVE AliasInv'
  OBVIOUS
<1>1. DurableInv'
  BY DurableStep DEF AliasInv
<1>2. ASSUME NEW p \in Proc, Open(p) PROVE AliasInv'
  BY <1>1, <1>2, AliasOpen
<1>3. ASSUME NEW p \in Proc, Mutate(p) \/ PersistRefused(p) PROVE AliasInv'
  BY <1>1, <1>3, AliasMutate
<1>4. ASSUME NEW p \in Proc, NEW D, NEW k \in {"persist", "durable"}, PersistLocked(p, D, k)
      PROVE AliasInv'
  BY <1>1, <1>4, AliasPersist
<1>5. ASSUME NEW p \in Proc, NEW count \in Counts, reserve_ordinal_range(p, count)
      PROVE AliasInv'
  BY <1>1, <1>5, AliasReserve
<1>6. ASSUME NEW p \in Proc, Publish(p) \/ Crash(p) PROVE AliasInv'
  BY <1>1, <1>6, AliasAppend, AliasRename, AliasRetire, AliasContinue DEF Publish
<1>7. ASSUME Environment PROVE AliasInv'
  BY <1>1, <1>7, AliasEnvironment
<1>8. ASSUME NEW p \in Proc, publish_pending_cas(p) \/ persist_skip_empty(p) \/ RewriteOnly(p)
      PROVE AliasInv'
  BY <1>8 DEF publish_pending_cas, Undisturbed, persist_skip_empty, RewriteOnly, SkipEmpty, AliasInv,
     DurableInv, NeverSkips
<1>9. ASSUME UNCHANGED vars PROVE AliasInv'
  <2>1. UNCHANGED <<snap, wal, pc, diskId, walId, mem, ackedAliases>>
    BY <1>9 DEF vars, disk, store, ids, ghost
  <2> QED BY <1>1, <2>1 DEF AliasInv, AckedAliasesSafe, TrustedAliases, OpeningIsDisk, KeptBy, OnDisk,
        Locked, unchanged_since_last_write, SnapUnchanged, WalUnchanged
<1> QED
  BY <1>2, <1>3, <1>4, <1>5, <1>6, <1>7, <1>8, <1>9
     DEF Next, Acquire, persist_pending, persist_pending_durable, prune_stale

(* An alias some persist vouched for still names its target on disk, or is *)
(* marked ambiguous: no interleaving of stores that map it to different    *)
(* refs lets a later mapping silently replace the first.                   *)
THEOREM AliasesAreSafe ==
  ASSUME Undisturbed PROVE Spec => []AckedAliasesSafe
<1>1. Init => AliasInv
  BY DurableInit DEF Init, AliasInv, AckedAliasesSafe, TrustedAliases, OpeningIsDisk, KeptBy
<1>2. AliasInv => AckedAliasesSafe
  BY DEF AliasInv
<1> QED BY <1>1, <1>2, AliasStep, PTL DEF Spec
=============================================================================
