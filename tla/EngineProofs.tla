---------------------------- MODULE EngineProofs ----------------------------
(***************************************************************************)
(* Proofs about the engine's components, as MCEngine puts them side by     *)
(* side.  The components the proofs are about take their parameters from   *)
(* constants, so a theorem holds for every number of calls, every request  *)
(* and every bound; the values the other components run with are never     *)
(* looked at.                                                              *)
(*                                                                         *)
(* The slots stand for a component's variables.  Of an edit: v1 file, v2   *)
(* temps, v3 images, v4 at, v5 req, v6 old, v7 new, v8 ack, v9 seenText,   *)
(* v10 editCrashed.  Of a fetch: v1 now, v2 index, v3 indexLock, v4        *)
(* bodies, v5 stage, v6 url, v7 hop, v8 entry, v9 pinned, v10 got, v11     *)
(* loadedIx, v12 contacts, v13 recorded.                                   *)
(***************************************************************************)
EXTENDS MCEngine, SequenceTheorems, FiniteSetTheorems, TLAPS

-----------------------------------------------------------------------------
(* Nothing a pipe reader saw is lost, for every configuration of the       *)
(* limits and every way the stream is cut into chunks.                     *)

(* Adjacent pieces of a stream join into one. *)
LEMMA BytesConcat ==
  ASSUME NEW a \in Nat, NEW b \in Nat, NEW c \in Nat, a <= b, b <= c
  PROVE  BytesFrom(a, b) \o BytesFrom(b, c) = BytesFrom(a, c)
<1> DEFINE x == BytesFrom(a, b)
           y == BytesFrom(b, c)
           z == BytesFrom(a, c)
<1>1. /\ x \in Seq(Nat) /\ Len(x) = b - a /\ \A i \in 1..(b - a) : x[i] = a + i
      /\ y \in Seq(Nat) /\ Len(y) = c - b /\ \A i \in 1..(c - b) : y[i] = b + i
      /\ z \in Seq(Nat) /\ Len(z) = c - a /\ \A i \in 1..(c - a) : z[i] = a + i
  BY DEF BytesFrom
<1> HIDE DEF x, y, z
<1>2. /\ x \o y \in Seq(Nat) /\ Len(x \o y) = c - a
      /\ \A i \in 1..(c - a) : (x \o y)[i] = a + i
  <2>1. /\ x \o y \in Seq(Nat) /\ Len(x \o y) = Len(x) + Len(y)
        /\ \A i \in 1..(Len(x) + Len(y)) :
             (x \o y)[i] = IF i <= Len(x) THEN x[i] ELSE y[i - Len(x)]
    BY <1>1, ConcatProperties
  <2>2. Len(x) + Len(y) = c - a
    BY <1>1
  <2>3. ASSUME NEW i \in 1..(c - a) PROVE (x \o y)[i] = a + i
    <3>1. CASE i <= b - a
      BY <1>1, <2>1, <2>2, <3>1
    <3>2. CASE ~(i <= b - a)
      <4> DEFINE j == i - (b - a)
      <4>1. j \in 1..(c - b) /\ b + j = a + i
        BY <3>2
      <4>2. i \in 1..(Len(x) + Len(y)) /\ ~(i <= Len(x)) /\ i - Len(x) = j
        BY <1>1, <2>2, <3>2
      <4> HIDE DEF j
      <4>3. (x \o y)[i] = y[j]
        BY <2>1, <4>2
      <4>4. y[j] = b + j
        BY <1>1, <4>1
      <4> QED BY <4>1, <4>3, <4>4
    <3> QED BY <3>1, <3>2
  <2> QED BY <2>1, <2>2, <2>3
<1>3. x \o y = z
  <2> DEFINE w == x \o y
  <2>1. w \in Seq(Nat) /\ Len(w) = Len(z) /\ \A i \in 1..Len(w) : w[i] = z[i]
    BY <1>1, <1>2
  <2> HIDE DEF w
  <2>2. w = z
    BY <1>1, <2>1, SeqEqual, Zenon
  <2> QED BY <2>2 DEF w
<1> QED BY <1>3 DEF x, y, z

(* What the first bytes of a stream are. *)
LEMMA PrefixType ==
  ASSUME NEW m \in Nat
  PROVE  BytesFrom(0, m) \in Seq(Nat) /\ Len(BytesFrom(0, m)) = m
BY DEF BytesFrom

(* No bytes of an empty stretch. *)
LEMMA NoBytes == BytesFrom(0, 0) = <<>>
BY DEF BytesFrom

(* The normalised limits are positive and ordered. *)
LEMMA Limits ==
  /\ capture_limit \in Nat \ {0} /\ spill_threshold \in Nat \ {0}
  /\ spill_threshold <= capture_limit
BY CaptureConstants DEF capture_limit, spill_threshold, Min2

-----------------------------------------------------------------------------
(* The invariant gives both properties of the runs. *)
LEMMA InvImplies == CaptureInv => NothingLost /\ SpillFilesWhole
<1> SUFFICES ASSUME CaptureInv, NEW s \in Stream
             PROVE  /\ captured[s] = BytesFrom(0, Len(captured[s]))
                    /\ truncated(s) => spill[s] = BytesFrom(0, seen[s])
                    /\ linked[s] => pc[s] # "failed" /\ spill[s] = BytesFrom(0, seen[s])
  BY DEF NothingLost, SpillFilesWhole
<1>1. seen[s] \in Nat /\ StreamInv(s)
  BY DEF CaptureInv, TypeOK
<1>2. Len(captured[s]) = Min2(seen[s], capture_limit)
  <2> DEFINE had == Min2(seen[s], capture_limit)
  <2>1. had \in Nat /\ captured[s] = BytesFrom(0, had)
    BY <1>1, Limits DEF StreamInv, Min2
  <2> HIDE DEF had
  <2>2. Len(captured[s]) = had
    BY <2>1, PrefixType, Zenon
  <2> QED BY <2>2 DEF had
<1>3. truncated(s) => seen[s] > spill_threshold
  BY <1>1, <1>2, Limits DEF truncated, Min2
<1> QED BY <1>1, <1>2, <1>3 DEF StreamInv

(* A stream nothing was read of. *)
LEMMA InitInv == Init => CaptureInv
BY Limits, NoBytes DEF Init, CaptureInv, StreamInv, TypeOK, Min2

(* A chunk extends the preview to the limit and no further. *)
LEMMA PreviewGrows ==
  ASSUME CaptureInv, NEW s \in Stream, NEW n \in Nat \ {0}
  PROVE  Preview(s, n) = BytesFrom(0, Min2(seen[s] + n, capture_limit))
<1> DEFINE had == Min2(seen[s], capture_limit)
           room == IF had < capture_limit THEN capture_limit - had ELSE 0
<1>1. seen[s] \in Nat /\ captured[s] = BytesFrom(0, had)
  BY DEF CaptureInv, TypeOK, StreamInv
<1>2. had \in Nat /\ BytesFrom(0, had) \in Seq(Nat) /\ Len(captured[s]) = had
  <2>1. had \in Nat
    BY <1>1, Limits DEF Min2
  <2> HIDE DEF had
  <2> QED BY <1>1, <2>1, PrefixType, Zenon
<1>3. Preview(s, n) = BytesFrom(0, had) \o BytesFrom(seen[s], seen[s] + Min2(n, room))
  BY <1>1, <1>2 DEF Preview
<1>4. CASE seen[s] < capture_limit
  <2>1. had = seen[s] /\ Min2(n, room) \in Nat
        /\ seen[s] + Min2(n, room) = Min2(seen[s] + n, capture_limit)
    BY <1>1, <1>4, Limits DEF Min2
  <2> DEFINE got == seen[s] + Min2(n, room)
  <2>2. 0 \in Nat /\ got \in Nat /\ 0 <= seen[s] /\ seen[s] <= got
    BY <1>1, <2>1
  <2>3. got = Min2(seen[s] + n, capture_limit)
    BY <2>1
  <2>4. Preview(s, n) = BytesFrom(0, seen[s]) \o BytesFrom(seen[s], got)
    BY <1>3, <2>1
  <2> HIDE DEF got
  <2>5. BytesFrom(0, seen[s]) \o BytesFrom(seen[s], got) = BytesFrom(0, got)
    BY <1>1, <2>2, BytesConcat, Zenon
  <2> QED BY <2>3, <2>4, <2>5
<1>5. CASE seen[s] >= capture_limit
  <2>1. had = capture_limit /\ Min2(n, room) = 0 /\ Min2(seen[s] + n, capture_limit) = had
    BY <1>1, <1>5, Limits DEF Min2
  <2>2. BytesFrom(seen[s], seen[s] + 0) = <<>>
    BY <1>1 DEF BytesFrom
  <2> QED BY <1>2, <1>3, <2>1, <2>2
<1> QED BY <1>1, <1>4, <1>5, Limits

(* The first write to a spill file brings the preview along, which is the  *)
(* whole stream so far because the threshold is within the limit.          *)
LEMMA SpillGrows ==
  ASSUME CaptureInv, NEW s \in Stream, NEW n \in Nat \ {0}
  PROVE  Spilled(s, n) = BytesFrom(0, seen[s] + n)
<1>1. seen[s] \in Nat /\ StreamInv(s)
  BY DEF CaptureInv, TypeOK
<1>2. (IF spill[s] = <<>> THEN captured[s] ELSE spill[s]) = BytesFrom(0, seen[s])
  <2>1. CASE seen[s] > spill_threshold
    <3>0. Len(BytesFrom(0, seen[s])) = seen[s]
      BY <1>1, PrefixType, Zenon
    <3>1. Len(BytesFrom(0, seen[s])) = seen[s] /\ seen[s] # 0
      BY <1>1, <2>1, <3>0, Limits
    <3> QED BY <1>1, <2>1, <3>1 DEF StreamInv
  <2>2. CASE ~(seen[s] > spill_threshold)
    <3>1. Min2(seen[s], capture_limit) = seen[s]
      BY <1>1, <2>2, Limits DEF Min2
    <3> QED BY <1>1, <2>2, <3>1 DEF StreamInv
  <2> QED BY <2>1, <2>2
<1>3. 0 \in Nat /\ seen[s] + n \in Nat /\ 0 <= seen[s] /\ seen[s] <= seen[s] + n
  BY <1>1
<1>4. BytesFrom(0, seen[s]) \o BytesFrom(seen[s], seen[s] + n) = BytesFrom(0, seen[s] + n)
  BY <1>1, <1>3, BytesConcat, Zenon
<1> QED BY <1>2, <1>4 DEF Spilled

(* Every step of a capture keeps the invariant. *)
LEMMA StepInv == CaptureInv /\ [Next]_vars => CaptureInv'
<1> SUFFICES ASSUME CaptureInv, [Next]_vars PROVE CaptureInv'
  OBVIOUS
<1> USE DEF CaptureInv
<1>1. ASSUME NEW s \in Stream, NEW n \in ChunkSizes, Read(s, n) PROVE CaptureInv'
  <2>1. n \in Nat \ {0}
    BY CaptureConstants
  <2>2. seen[s] \in Nat /\ seen'[s] = seen[s] + n /\ seen' \in [Stream -> Nat]
        /\ \A t \in Stream \ {s} : seen'[t] = seen[t]
    BY <1>1, <2>1 DEF Read, TypeOK
  <2>3. captured'[s] = BytesFrom(0, Min2(seen'[s], capture_limit))
        /\ \A t \in Stream \ {s} : captured'[t] = captured[t]
    BY <1>1, <2>1, <2>2, PreviewGrows DEF Read, TypeOK
  <2>4. captured' \in [Stream -> Seq(Nat)]
    <3>1. Min2(seen'[s], capture_limit) \in Nat
      BY <2>1, <2>2, Limits DEF Min2
    <3>2. Preview(s, n) \in Seq(Nat)
      <4>1. Preview(s, n) = BytesFrom(0, Min2(seen'[s], capture_limit))
        BY <2>1, <2>2, PreviewGrows
      <4> QED BY <3>1, <4>1, PrefixType, Zenon
    <3> QED BY <1>1, <3>2 DEF Read, TypeOK
  <2>5. CASE seen[s] + n > spill_threshold
    <3>1. spill'[s] = BytesFrom(0, seen'[s]) /\ \A t \in Stream \ {s} : spill'[t] = spill[t]
      BY <1>1, <2>1, <2>2, <2>5, SpillGrows DEF Read, TypeOK
    <3>2. spill' \in [Stream -> Seq(Nat)]
      <4>1. Spilled(s, n) \in Seq(Nat)
        <5>1. Spilled(s, n) = BytesFrom(0, seen[s] + n) /\ seen[s] + n \in Nat
          BY <2>1, <2>2, SpillGrows
        <5> QED BY <5>1, PrefixType, Zenon
      <4> QED BY <1>1, <2>5, <4>1 DEF Read, TypeOK
    <3>3. linked' \in [Stream -> BOOLEAN] /\ mtime' \in [Stream -> Nat] /\ now' \in Nat
      <4> DEFINE found == IF spill[s] = <<>> THEN TRUE ELSE linked[s]
      <4>1. linked[s] \in BOOLEAN
        BY DEF TypeOK
      <4>2. found \in BOOLEAN
        BY <4>1, Zenon
      <4>3. linked' = [linked EXCEPT ![s] = found] /\ linked \in [Stream -> BOOLEAN]
        BY <1>1, <2>5 DEF Read, TypeOK
      <4> HIDE DEF found
      <4>4. linked' \in [Stream -> BOOLEAN]
        BY <4>2, <4>3, Zenon
      <4>5. mtime' = [mtime EXCEPT ![s] = now + 1] /\ now' = now + 1
        BY <1>1, <2>5 DEF Read
      <4>6. mtime' \in [Stream -> Nat] /\ now' \in Nat
        BY <4>5 DEF TypeOK
      <4> QED BY <4>4, <4>6
    <3>4. TypeOK'
      BY <1>1, <2>2, <2>4, <3>2, <3>3 DEF Read, TypeOK
    <3>5. \A t \in Stream : StreamInv(t)'
      <4>1. StreamInv(s)'
        BY <1>1, <2>2, <2>3, <2>5, <3>1 DEF Read, StreamInv
      <4>2. ASSUME NEW t \in Stream, t # s PROVE StreamInv(t)'
        BY <1>1, <2>2, <2>3, <2>5, <3>1, <4>2 DEF Read, StreamInv, TypeOK
      <4> QED BY <4>1, <4>2
    <3> QED BY <3>4, <3>5
  <2>6. CASE ~(seen[s] + n > spill_threshold)
    <3>1. TypeOK'
      BY <1>1, <2>2, <2>4, <2>6 DEF Read, TypeOK
    <3>2. \A t \in Stream : StreamInv(t)'
      <4>1. StreamInv(s)'
        BY <1>1, <2>1, <2>2, <2>3, <2>6, Limits DEF Read, StreamInv
      <4>2. ASSUME NEW t \in Stream, t # s PROVE StreamInv(t)'
        BY <1>1, <2>2, <2>3, <2>6, <4>2 DEF Read, StreamInv, TypeOK
      <4> QED BY <4>1, <4>2
    <3> QED BY <3>1, <3>2
  <2> QED BY <2>5, <2>6
<1>2. ASSUME NEW s \in Stream, ReadFails(s) PROVE CaptureInv'
  BY <1>2 DEF ReadFails, TypeOK, StreamInv
<1>3. ASSUME NEW s \in Stream, Finish(s) PROVE CaptureInv'
  BY <1>3 DEF Finish, TypeOK, StreamInv
<1>4. ASSUME NEW visited \in SUBSET Stream, NEW cutoff \in 0..MaxTicks,
             prune_spill_dir(visited, cutoff)
      PROVE CaptureInv'
  <2>1. /\ \A t \in Stream : linked'[t] => linked[t]
        /\ linked' \in [Stream -> BOOLEAN] /\ now' \in Nat
        /\ UNCHANGED <<pc, seen, captured, spill, mtime>>
    BY <1>4 DEF prune_spill_dir, TypeOK
  <2> QED BY <2>1 DEF TypeOK, StreamInv
<1>5. CASE UNCHANGED vars
  BY <1>5 DEF vars, TypeOK, StreamInv
<1> QED BY <1>1, <1>2, <1>3, <1>4, <1>5 DEF Next

(* Every byte a reader saw is in its preview or in its spill file, and a   *)
(* spill file that can be found is whole: for all limits, chunk sizes and  *)
(* interleavings of readers and prunes (capture_reader_with_observer and   *)
(* SpillWriter::write).                                                    *)
THEOREM CaptureLosesNothing == Spec => []NothingLost /\ []SpillFilesWhole
<1>1. CaptureInv /\ [Next]_vars => CaptureInv'
  BY StepInv
<1> QED BY <1>1, InitInv, InvImplies, PTL DEF Spec

-----------------------------------------------------------------------------
(* Edits of one file.                                                      *)

(* The invariant says what an edit promises. *)
LEMMA EditInvImplies == Edit!EditInv => Edit!FileAlwaysWhole /\ Edit!UndoRecoverable
BY DEF Edit!EditInv, Edit!FileSettled, Edit!ImagesFirst, Edit!FileAlwaysWhole,
       Edit!UndoRecoverable

(* No edit under way. *)
LEMMA EditInitInv == Edit!Init => Edit!EditInv
BY DEF Edit!Init, Edit!EditInv, Edit!EditShapes, Edit!TempsComplete, Edit!FileSettled,
       Edit!ImagesFirst, Edit!AnsweredDone

(* What one edit does to its own control point and answer. *)
LEMMA EditStepInv == Edit!EditInv /\ [Edit!Next]_Edit!vars => Edit!EditInv'
<1> SUFFICES ASSUME Edit!EditInv, [Edit!Next]_Edit!vars PROVE Edit!EditInv'
  OBVIOUS
<1> USE DEF Edit!EditInv, Edit!EditShapes, Edit!TempsComplete, Edit!FileSettled,
            Edit!ImagesFirst, Edit!AnsweredDone, Edit!unique_edit_tmp, Edit!Goto, Edit!Finish
<1>1. ASSUME NEW e \in EditCalls, Edit!Begin(e) PROVE Edit!EditInv'
  BY <1>1 DEF Edit!Begin
<1>2. ASSUME NEW e \in EditCalls, Edit!ReadFile(e) PROVE Edit!EditInv'
  BY <1>2 DEF Edit!ReadFile
<1>3. ASSUME NEW e \in EditCalls, Edit!Apply(e) PROVE Edit!EditInv'
  BY <1>3 DEF Edit!Apply
<1>4. ASSUME NEW e \in EditCalls, Edit!PersistImages(e) PROVE Edit!EditInv'
  BY <1>4 DEF Edit!PersistImages
<1>5. ASSUME NEW e \in EditCalls, Edit!OpenTemp(e) PROVE Edit!EditInv'
  BY <1>5 DEF Edit!OpenTemp, Edit!SetTemp
<1>6. ASSUME NEW e \in EditCalls, Edit!FillTemp(e) PROVE Edit!EditInv'
  BY <1>6 DEF Edit!FillTemp, Edit!SetTemp
<1>7. ASSUME NEW e \in EditCalls, Edit!Rename(e) PROVE Edit!EditInv'
  BY <1>7 DEF Edit!Rename
<1>8. ASSUME NEW e \in EditCalls, Edit!SeedSession(e) PROVE Edit!EditInv'
  BY <1>8 DEF Edit!SeedSession
<1>9. ASSUME Edit!CrashEdits PROVE Edit!EditInv'
  BY <1>9 DEF Edit!CrashEdits
<1>10. CASE UNCHANGED Edit!vars
  BY <1>10 DEF Edit!vars
<1> QED  BY <1>1, <1>2, <1>3, <1>4, <1>5, <1>6, <1>7, <1>8, <1>9, <1>10 DEF Edit!Next

-----------------------------------------------------------------------------
(* Fetches.                                                                *)

(* The component's finite sets are those of this module. *)
LEMMA FetchFinite == \A S : Fetch!IsFiniteSet(S) <=> IsFiniteSet(S)
BY DEF Fetch!IsFiniteSet, IsFiniteSet

(* Likewise the number of elements. *)
LEMMA FetchCardinality == \A S : Fetch!Cardinality(S) = Cardinality(S)
BY DEF Fetch!Cardinality, Cardinality

(* The instance meets the assumptions of the fetch component. *)
LEMMA FetchConstantsHold == Fetch!FetchConstants
BY EngineConstants DEF Fetch!FetchConstants

(* A host that was not refused is not on the deny list; the guard accepts  *)
(* only the public address of a host the configuration does not trust.     *)
LEMMA GuardAccepts ==
    ASSUME NEW h, NEW ip \in Fetch!validate_fetch_target(h)
    PROVE  h \notin FetchDeny /\ (h \notin FetchAllow => ip = "public")
<1>1. h \notin FetchDeny
  BY DEF Fetch!validate_fetch_target
<1>2. ASSUME h \notin FetchAllow PROVE ip = "public"
  <2>1. PICK r \in Fetch!Resolutions : ip \in r /\ ~(\E q \in r : Fetch!blocked_ip_reason(q))
    BY <1>1, <1>2 DEF Fetch!validate_fetch_target
  <2> QED  BY <2>1 DEF Fetch!Resolutions, Fetch!blocked_ip_reason
<1> QED  BY <1>1, <1>2

(* Trimming drops entries, and none while the index is within its bound. *)
LEMMA TrimShrinks ==
    ASSUME NEW grown, NEW kept \in Fetch!Trim(grown)
    PROVE  /\ DOMAIN kept \subseteq DOMAIN grown
           /\ Cardinality(DOMAIN grown) <= FetchCap => kept = grown
<1>1. CASE kept = grown
  BY <1>1
<1>2. CASE kept # grown
  <2>1. ~(Cardinality(DOMAIN grown) <= FetchCap)
    BY <1>2, FetchCardinality DEF Fetch!Trim
  <2>2. PICK d \in DOMAIN grown : kept = [w \in DOMAIN grown \ {d} |-> grown[w]]
    BY <1>2 DEF Fetch!Trim
  <2> QED  BY <2>1, <2>2
<1> QED  BY <1>1, <1>2

(* One more recorded url makes the set of them no smaller. *)
LEMMA RecordedGrows ==
    ASSUME NEW known, NEW u, IsFiniteSet(known), Cardinality(known \cup {u}) <= FetchCap
    PROVE  Cardinality(known) <= FetchCap
<1>1. IsFiniteSet(known \cup {u})
  BY FS_AddElement
<1>2. Cardinality(known) \in Nat /\ Cardinality(known \cup {u}) \in Nat
  BY <1>1, FS_CardinalityType
<1>3. Cardinality(known) <= Cardinality(known \cup {u})
  BY <1>1, FS_Subset
<1> QED  BY <1>2, <1>3, EngineConstants

(* The invariant says what a fetch promises. *)
LEMMA FetchInvImplies == Fetch!FetchInv => Fetch!ContactsChecked /\ Fetch!IndexKeepsRecords
BY DEF Fetch!FetchInv, Fetch!IndexRecorded

(* Nothing fetched yet. *)
LEMMA FetchInitInv == Fetch!Init => Fetch!FetchInv
<1> SUFFICES ASSUME Fetch!Init PROVE Fetch!FetchInv
  OBVIOUS
<1>1. IsFiniteSet(DOMAIN v2)
  BY FS_EmptySet, FS_Singleton DEF Fetch!Init, Fetch!NoIndex
<1> QED
  BY <1>1, FetchFinite DEF Fetch!Init, Fetch!FetchInv, Fetch!FetchShapes, Fetch!PinFresh, Fetch!IndexOwned,
     Fetch!IndexRecorded, Fetch!IndexKeepsRecords, Fetch!ContactsChecked

(* Every step of a fetch keeps the invariant. *)
LEMMA FetchStepInv == Fetch!FetchInv /\ [Fetch!Next]_Fetch!vars => Fetch!FetchInv'
<1> SUFFICES ASSUME Fetch!FetchInv, [Fetch!Next]_Fetch!vars PROVE Fetch!FetchInv'
  OBVIOUS
<1> USE DEF Fetch!FetchInv, Fetch!FetchShapes, Fetch!PinFresh, Fetch!IndexOwned,
            Fetch!IndexRecorded, Fetch!IndexKeepsRecords, Fetch!ContactsChecked, Fetch!Goto
<1>1. CASE Fetch!Tick
  BY <1>1 DEF Fetch!Tick
<1>2. ASSUME NEW f \in FetchCalls, Fetch!Begin(f) PROVE Fetch!FetchInv'
  BY <1>2 DEF Fetch!Begin
<1>3. ASSUME NEW f \in FetchCalls, Fetch!CacheLookup(f) PROVE Fetch!FetchInv'
  BY <1>3 DEF Fetch!CacheLookup
<1>4. ASSUME NEW f \in FetchCalls, Fetch!CheckHop(f) PROVE Fetch!FetchInv'
  BY <1>4 DEF Fetch!CheckHop
<1>5. ASSUME NEW f \in FetchCalls, Fetch!Connect(f) PROVE Fetch!FetchInv'
  <2>1. PICK ip \in Fetch!ConnectTo(f) : v12' = v12 \cup {<<FetchHosts[v6[f]], ip>>}
    BY <1>5 DEF Fetch!Connect
  <2>2. FetchHosts[v6[f]] \notin FetchDeny
        /\ (ip = "private" => FetchHosts[v6[f]] \in FetchAllow)
    <3>1. v9[f] \in Fetch!validate_fetch_target(FetchHosts[v6[f]])
      BY <1>5 DEF Fetch!Connect
    <3> QED  BY <2>1, <3>1, GuardAccepts DEF Fetch!ConnectTo
  <2>3. Fetch!ContactsChecked'
    BY <2>1, <2>2 DEF Fetch!blocked_ip_reason
  <2>4. /\ DOMAIN v5' = FetchCalls /\ DOMAIN v6' = FetchCalls
        /\ \A g \in FetchCalls : g # f => v5'[g] = v5[g] /\ v6'[g] = v6[g]
        /\ v5'[f] \in {"failed", "store", "check"}
    BY <1>5 DEF Fetch!Connect
  <2>5. UNCHANGED <<v2, v3, v9, v11, v13>>
    BY <1>5 DEF Fetch!Connect
  <2> QED  BY <2>3, <2>4, <2>5
<1>6. ASSUME NEW f \in FetchCalls, Fetch!StoreBody(f) PROVE Fetch!FetchInv'
  BY <1>6 DEF Fetch!StoreBody
<1>7. ASSUME NEW f \in FetchCalls, Fetch!AcquireIndex(f) PROVE Fetch!FetchInv'
  BY <1>7, EngineConstants DEF Fetch!AcquireIndex
<1>8. ASSUME NEW f \in FetchCalls, Fetch!LoadIndex(f) PROVE Fetch!FetchInv'
  BY <1>8 DEF Fetch!LoadIndex
<1>9. ASSUME NEW f \in FetchCalls, Fetch!record_fetch(f) PROVE Fetch!FetchInv'
  <2>1. v5[f] = "save" /\ v11[f] = v2 /\ v3 = f
    BY <1>9 DEF Fetch!record_fetch
  <2>2. Fetch!IndexRecorded'
    <3>1. CASE UNCHANGED <<v2, v13>>
      BY <3>1
    <3>2. CASE ~UNCHANGED <<v2, v13>>
      <4>1. v2' \in Fetch!Trim([u \in DOMAIN v2 \cup {v8[f]} |->
                               IF u = v8[f] THEN [body |-> v10[f], time |-> v1] ELSE v2[u]])
            /\ v13' = v13 \cup {v8[f]}
        BY <1>9, <2>1, <3>2 DEF Fetch!record_fetch
      <4>2. /\ IsFiniteSet(v13 \cup {v8[f]}) /\ DOMAIN (v2') \subseteq v13 \cup {v8[f]}
            /\ Cardinality(v13 \cup {v8[f]}) <= FetchCap => v13 \cup {v8[f]} \subseteq DOMAIN (v2')
        <5>1. IsFiniteSet(v13) /\ (Cardinality(v13) <= FetchCap => v13 \subseteq DOMAIN v2)
          BY FetchFinite, FetchCardinality
        <5>2. DOMAIN v2 \subseteq v13
          OBVIOUS
        <5> DEFINE grown == [u \in DOMAIN v2 \cup {v8[f]} |->
                               IF u = v8[f] THEN [body |-> v10[f], time |-> v1] ELSE v2[u]]
        <5>3. v2' \in Fetch!Trim(grown) /\ DOMAIN grown = DOMAIN v2 \cup {v8[f]}
          BY ONLY <4>1
        <5> HIDE DEF grown
        <5>4. DOMAIN (v2') \subseteq DOMAIN grown
              /\ (Cardinality(DOMAIN grown) <= FetchCap => v2' = grown)
          BY <5>3, TrimShrinks
        <5>5. IsFiniteSet(v13 \cup {v8[f]})
          BY <5>1, FS_AddElement
        <5>6. ASSUME Cardinality(v13 \cup {v8[f]}) <= FetchCap
              PROVE  v13 \cup {v8[f]} \subseteq DOMAIN (v2')
          <6>1. v13 \subseteq DOMAIN v2
            BY <5>1, <5>6, RecordedGrows
          <6>2. DOMAIN grown = v13 \cup {v8[f]}
            BY <5>2, <5>3, <6>1
          <6> QED  BY <5>4, <5>6, <6>2
        <5> QED  BY <5>2, <5>3, <5>4, <5>5, <5>6
      <4> QED  BY <4>1, <4>2, FetchFinite, FetchCardinality
    <3> QED  BY <3>1, <3>2
  <2>3. Fetch!IndexOwned'
    BY <1>9, <2>1 DEF Fetch!record_fetch
  <2> QED  BY <1>9, <2>2, <2>3 DEF Fetch!record_fetch
<1>10. CASE UNCHANGED Fetch!vars
  BY <1>10 DEF Fetch!vars
<1> QED  BY <1>1, <1>2, <1>3, <1>4, <1>5, <1>6, <1>7, <1>8, <1>9, <1>10 DEF Fetch!Next

-----------------------------------------------------------------------------
(* The composition: a behaviour is one component's, so its steps are those *)
(* of that component and what the component keeps is kept.                 *)

(* No step turns to another component, and the steps are the component's. *)
LEMMA PartSteps ==
    ASSUME [MCNext]_<<part, slots, vars>>
    PROVE  /\ part' = part
           /\ part = "edit" => [Edit!Next]_Edit!vars
           /\ part = "fetch" => [Fetch!Next]_Fetch!vars
           /\ part = "worker" => [Worker!Next]_Worker!vars
           /\ part = "jobs" => [Jobs!Next]_Jobs!vars
           /\ part = "capture" => [Next]_vars
<1>1. CASE UNCHANGED <<part, slots, vars>>
  BY <1>1 DEF slots, vars, Edit!vars, Fetch!vars, Worker!vars, Jobs!vars
<1>2. CASE MCNext
  <2>1. part' = part
    BY <1>2 DEF MCNext, Rest20, Rest19, Rest18, Rest17, Rest16, Rest15, Rest14, Rest13, Rest12,
       Rest11, Rest10, Rest9, Rest8, Rest7, Rest6, Rest5, Rest4, Rest3
  <2>2. CASE part = "edit"
    BY <1>2, <2>1, <2>2 DEF MCNext
  <2>3. CASE part = "fetch"
    BY <1>2, <2>1, <2>3 DEF MCNext
  <2>4. CASE part = "worker"
    BY <1>2, <2>1, <2>4 DEF MCNext
  <2>5. CASE part = "jobs"
    BY <1>2, <2>1, <2>5 DEF MCNext
  <2>6. CASE part = "capture"
    BY <1>2, <2>1, <2>6 DEF MCNext
  <2> QED  BY <2>1, <2>2, <2>3, <2>4, <2>5, <2>6
<1> QED  BY <1>1, <1>2

(* For any set of edits, of requests and of first texts, and any stream    *)
(* limits: a file is whole at every moment, an acknowledged edit can be    *)
(* undone, and a spill file that is found holds its stream from the first  *)
(* byte (replace_file_atomically, persist_edit_images, prune_spill_dir).   *)
THEOREM FilesStayWhole == MCSpec => []FilesWhole
<1> DEFINE Inv == (part = "edit" => Edit!EditInv) /\ (part = "capture" => CaptureInv)
<1>1. MCInit => Inv
  BY EditInitInv, InitInv DEF MCInit
<1>2. Inv /\ [MCNext]_<<part, slots, vars>> => Inv'
  BY PartSteps, EditStepInv, StepInv
<1>3. Inv => FilesWhole
  BY EditInvImplies, InvImplies DEF FilesWhole
<1> QED  BY <1>1, <1>2, <1>3, PTL DEF MCSpec

(* For any web of hosts and redirects, any lists and any number of         *)
(* fetches: no connection leaves the addresses the guard accepted, however *)
(* the names resolve from one look to the next, and until the index is     *)
(* full no fetch loses another's record (validate_fetch_target,            *)
(* follow_validated_redirects, record_fetch).                              *)
THEOREM FetchesStayGuarded == MCSpec => []FetchesGuarded
<1> DEFINE Inv == part = "fetch" => Fetch!FetchInv
<1>1. MCInit => Inv
  BY FetchInitInv DEF MCInit
<1>2. Inv /\ [MCNext]_<<part, slots, vars>> => Inv'
  BY PartSteps, FetchStepInv
<1>3. Inv => FetchesGuarded
  BY FetchInvImplies DEF FetchesGuarded
<1> QED  BY <1>1, <1>2, <1>3, PTL DEF MCSpec

(* Whatever frames, jobs, polls and teardowns do: a child process that     *)
(* runs can be reached, and a client that waits is woken and sees all of   *)
(* its job's output (raw_worker_impl.rs, engine_shell.rs).                 *)
THEOREM ChildrenStayReached == MCSpec => []ChildrenReached
<1> DEFINE Inv == (part = "worker" => Worker!WorkerInv) /\ (part = "jobs" => Jobs!JobsInv)
<1>1. Worker!WorkerConstants
  BY EngineConstants DEF Worker!WorkerConstants, WorkerOps
<1>2. Jobs!JobsConstants
  BY DEF Jobs!JobsConstants
<1>3. MCInit => Inv
  BY <1>1, <1>2, Worker!WorkerInitInv, Jobs!InitInv DEF MCInit
<1>4. Inv /\ [MCNext]_<<part, slots, vars>> => Inv'
  BY <1>1, <1>2, PartSteps, Worker!WorkerStepInv, Jobs!JobsStepInv
<1>5. Inv => ChildrenReached
  BY Worker!WorkerInvImplies, Jobs!JobsInvImplies DEF ChildrenReached
<1> QED  BY <1>3, <1>4, <1>5, PTL DEF MCSpec
=============================================================================
