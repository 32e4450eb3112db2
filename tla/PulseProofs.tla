---------------------------- MODULE PulseProofs ----------------------------
(***************************************************************************)
(* The promises of the Pulse ledger for any number of ledgers, processes   *)
(* and events, and any bound on the clock; those of the tool metrics and   *)
(* of the process runtime, which share no state with it, for any number of *)
(* calls and of commands.                                                  *)
(***************************************************************************)
EXTENDS Pulse, ToolMetrics, ProcessRuntime, WellFoundedInduction, SequenceTheorems,
        FiniteSetTheorems, TLAPS

-----------------------------------------------------------------------------
(* What a rebuild inserts.                                                 *)

LEMMA LeastNumber ==
  ASSUME NEW T \in SUBSET Nat, T # {}
  PROVE  \E x \in T : \A y \in T : x <= y
<1> DEFINE Less == {ss \in Nat \X Nat : ss[1] < ss[2]}
<1>1. IsWellFoundedOn(Less, Nat)
  BY NatLessThanWellFounded, Zenon DEF OpToRel
<1> HIDE DEF Less
<1>2. PICK x \in T : \A y \in T : ~ (<<y, x>> \in Less)
  BY <1>1, WFMin, Zenon
<1>3. ASSUME NEW y \in T PROVE x <= y
  <2>1. x \in Nat /\ y \in Nat /\ <<y, x>> \in Nat \X Nat
    OBVIOUS
  <2>2. <<y, x>>[1] = y /\ <<y, x>>[2] = x
    OBVIOUS
  <2>3. ~ (y < x)
    BY <1>2, <2>1, <2>2, Zenon DEF Less
  <2> QED BY <2>1, <2>3
<1> QED BY <1>3

TextOf(E) == Seq([event: E, whole: BOOLEAN, newline: BOOLEAN])

(* Rebuilding from a text gives a row of every line that parses: rows of   *)
(* the events the text is made of, as SQLite gives them back.              *)
LEMMA RowsOfText ==
  ASSUME NEW E, \A e \in E : Clamp[e] \in E, NEW text \in TextOf(E)
  PROVE  Rows(text) \in Seq(E)
<1> DEFINE N == Len(text)
           Row(f, n) == IF n = 0 THEN <<>>
                        ELSE IF n \in Parsed(text) THEN Append(f[n - 1], Clamp[text[n].event])
                        ELSE f[n - 1]
           Table(f, k) == f = [n \in 0..k |-> Row(f, n)]
<1>0. N \in Nat /\ \A n \in Parsed(text) : n \in 1..N /\ Clamp[text[n].event] \in E
  <2>1. text \in Seq([event: E, whole: BOOLEAN, newline: BOOLEAN])
    BY DEF TextOf
  <2>2. ASSUME NEW n \in Parsed(text) PROVE n \in 1..N /\ text[n] \in [event: E, whole: BOOLEAN, newline: BOOLEAN]
    <3>1. n \in DOMAIN text
      BY Zenon DEF Parsed
    <3>2. DOMAIN text = 1..N
      BY <2>1, LenProperties
    <3> QED BY <2>1, <3>1, <3>2, ElementOfSeq
  <2>3. ASSUME NEW n \in Parsed(text) PROVE text[n].event \in E
    BY <2>2
  <2> QED BY <2>1, <2>2, <2>3
<1>1. \A k \in 0..N : \E f : Table(f, k)
  <2> DEFINE Bad == {k \in 0..N : ~ \E f : Table(f, k)}
  <2> SUFFICES ASSUME Bad # {} PROVE FALSE
    OBVIOUS
  <2>1. PICK k \in Bad : \A y \in Bad : k <= y
    <3>1. Bad \in SUBSET Nat
      BY <1>0
    <3> HIDE DEF Bad
    <3> QED BY <3>1, LeastNumber
  <2>2. k # 0
    <3> DEFINE h == [n \in 0..0 |-> <<>>]
    <3>1. \A n \in 0..0 : n = 0 /\ Row(h, n) = <<>>
      OBVIOUS
    <3>2. Table(h, 0)
      BY <3>1
    <3> HIDE DEF h, Table
    <3> QED BY <3>2
  <2>3. k - 1 \in 0..N /\ k - 1 \notin Bad /\ k \in Nat
    <3>1. Bad \subseteq 0..N
      OBVIOUS
    <3> HIDE DEF Bad
    <3> QED BY <2>1, <2>2, <1>0, <3>1
  <2>4. PICK f : Table(f, k - 1)
    <3> HIDE DEF Table
    <3> QED BY <2>3
  <2> DEFINE g == [n \in 0..k |-> IF n = k THEN Row(f, k) ELSE f[n]]
  <2>5. ASSUME NEW n \in 0..k PROVE g[n] = Row(g, n)
    <3>1. n # 0 => n - 1 \in 0..k /\ n - 1 # k /\ g[n - 1] = f[n - 1]
      BY <2>3
    <3>2. Row(g, n) = Row(f, n)
      BY <3>1
    <3>3. n # k => g[n] = f[n] /\ n \in 0..(k - 1)
      BY <2>3
    <3>4. \A i \in 0..(k - 1) : f[i] = Row(f, i)
      <4> HIDE DEF Row
      <4> QED BY <2>4
    <3> HIDE DEF Row
    <3>5. g[k] = Row(f, k)
      BY <2>3
    <3> QED BY <3>2, <3>3, <3>4, <3>5
  <2>6. Table(g, k)
    <3> HIDE DEF Row
    <3> QED BY <2>5
  <2> QED BY <2>6
<1>2. \E f : Table(f, N)
  <2>1. N \in 0..N
    BY <1>0
  <2> HIDE DEF Table, N
  <2> QED BY <1>1, <2>1
<1> DEFINE upTo == CHOOSE h : Table(h, N)
<1>3. Table(upTo, N)
  <2> HIDE DEF Table
  <2> QED BY <1>2, Zenon
<1>4. \A n \in 0..N : upTo[n] \in Seq(E)
  <2>0. \A n \in 0..N : upTo[n] = Row(upTo, n)
    <3> HIDE DEF Row, upTo
    <3> QED BY <1>3
  <2> HIDE DEF upTo
  <2> DEFINE Bad == {n \in 0..N : upTo[n] \notin Seq(E)}
  <2> SUFFICES ASSUME Bad # {} PROVE FALSE
    OBVIOUS
  <2>1. PICK k \in Bad : \A y \in Bad : k <= y
    <3>1. Bad \in SUBSET Nat
      BY <1>0
    <3> HIDE DEF Bad
    <3> QED BY <3>1, LeastNumber
  <2>2. k # 0
    <3>1. 0 \in 0..N /\ <<>> \in Seq(E)
      BY <1>0
    <3>2. upTo[0] = <<>>
      BY <2>0, <3>1
    <3> QED BY <3>1, <3>2
  <2>3. k - 1 \in 0..N /\ k - 1 \notin Bad /\ k \in Nat
    BY <2>1, <2>2, <1>0
  <2>4. upTo[k - 1] \in Seq(E)
    BY <2>3
  <2>5. Row(upTo, k) \in Seq(E)
    BY <2>2, <2>4, <1>0
  <2> QED BY <2>0, <2>5
<1>5. Rows(text) = upTo[N]
  BY DEF Rows
<1> QED BY <1>0, <1>4, <1>5, SMTT(30)

-----------------------------------------------------------------------------
(* Texts: made of whole lines, or cut inside the last one.                 *)

Whole(text) == \A i \in 1..Len(text) : text[i].whole = TRUE /\ text[i].newline = TRUE

Tidy(text) == \A i \in 1..Len(text) :
                \/ text[i].whole = TRUE /\ text[i].newline = TRUE
                \/ i = Len(text) /\ text[i].whole = FALSE

LEMMA TextLines ==
  ASSUME NEW E, NEW text \in TextOf(E)
  PROVE  /\ Len(text) \in Nat /\ DOMAIN text = 1..Len(text)
         /\ \A i \in 1..Len(text) : text[i] \in [event: E, whole: BOOLEAN, newline: BOOLEAN]
  BY LenProperties, ElementOfSeq DEF TextOf

LEMMA TextGrows ==
  ASSUME NEW E, NEW F, E \subseteq F
  PROVE  TextOf(E) \subseteq TextOf(F)
<1> DEFINE C == [event: E, whole: BOOLEAN, newline: BOOLEAN]
           D == [event: F, whole: BOOLEAN, newline: BOOLEAN]
<1>1. C \subseteq D
  OBVIOUS
<1>2. Seq(C) \subseteq Seq(D)
  <2> HIDE DEF C, D
  <2> QED BY <1>1, SeqMonotonic
<1> QED BY <1>2 DEF TextOf

(* Every line of a whole text is read. *)
LEMMA WholeIsRead ==
  ASSUME NEW E, NEW text \in TextOf(E), Whole(text)
  PROVE  /\ ~Skipped(text)
         /\ Parsed(text) = 1..Len(text)
<1>1. \A i \in 1..Len(text) : i # 1 => i - 1 \in 1..Len(text)
  BY TextLines
<1>2. \A i \in 1..Len(text) : parse_event_line(text, i)
  BY <1>1 DEF parse_event_line, StartsLine, EndsLine, Whole
<1>3. Parsed(text) = 1..Len(text)
  BY <1>2, TextLines, Zenon DEF Parsed
<1>4. ~Skipped(text)
  BY <1>3, TextLines, Zenon DEF Skipped
<1> QED BY <1>3, <1>4

(* A text that is cut at most inside its last line, and reads without a    *)
(* skipped line, is whole.                                                 *)
LEMMA UncutIsWhole ==
  ASSUME NEW E, NEW text \in TextOf(E), Tidy(text), ~Skipped(text)
  PROVE  Whole(text)
<1> SUFFICES ASSUME NEW i \in 1..Len(text), i = Len(text), text[i].whole = FALSE
             PROVE  FALSE
  BY DEF Tidy, Whole
<1>1. EndsLine(text, i) /\ i \in DOMAIN text
  BY TextLines DEF EndsLine
<1>2. i \notin Parsed(text)
  BY DEF Parsed, parse_event_line
<1> QED BY <1>1, <1>2, Zenon DEF Skipped

LEMMA AppendLine ==
  ASSUME NEW E, NEW text \in TextOf(E), NEW c \in [event: E, whole: BOOLEAN, newline: BOOLEAN]
  PROVE  /\ Append(text, c) \in TextOf(E)
         /\ Len(Append(text, c)) = Len(text) + 1
         /\ \A i \in 1..Len(text) : Append(text, c)[i] = text[i]
         /\ Append(text, c)[Len(text) + 1] = c
  BY AppendProperties DEF TextOf

-----------------------------------------------------------------------------
(* The inductive invariant.                                                *)

MetaOf(E) == [hash: TextOf(E), updated: Nat]

(* Every text, row and marker is made of the events E. *)
Known(E) ==
  /\ ledger \in [Ledger -> TextOf(E)]
  /\ cache \in [Ledger -> {NoCache} \cup [rows: Seq(E), hash: TextOf(E)]]
  /\ side \in [Ledger -> {NoMeta} \cup MetaOf(E)]
  /\ out \in {NoFile} \cup [text: TextOf(E)]
  /\ outMeta \in {NoMeta} \cup MetaOf(E)
  /\ held \in [Agent -> {NoHeld} \cup MetaOf(E)]
  /\ exported \subseteq MetaOf(E)

KnownInv ==
  /\ recorded \subseteq Event
  /\ \A e \in recorded : Clamp[e] \in recorded
  /\ Known(recorded)
  /\ clock \in Nat
  /\ pc \in [Agent -> {"idle", "cached", "synced", "written", "scanned",
                       "verifying", "accepted", "copied"}]
  /\ op \in [Agent -> {"none", "sync", "export", "import"}]
  /\ fresh \in [Ledger -> SUBSET Event]

(* The advisory lock: one command at a time on a ledger. *)
LockInv == \A a, b \in Agent : Home[a] = Home[b] /\ Locked(a) /\ Locked(b) => a = b

(* The transaction keeps the rows and the hash of a cache together. *)
CacheInv == \A l \in Ledger : cache[l] # NoCache => cache[l].rows = Rows(cache[l].hash)

(* A snapshot text was marked at a time, or later. *)
MarkedSince(text, time) == \E m \in exported : m.hash = text /\ m.updated >= time

(* What a command relies on between its steps. *)
StageInv(a) ==
  LET l == Home[a] IN
  /\ pc[a] = "written" => out # NoFile
  /\ pc[a] = "scanned" => held[a] # NoHeld
  /\ pc[a] \in {"verifying", "accepted"} => out # NoFile /\ held[a] # NoHeld
  /\ pc[a] \in {"cached", "synced"} =>
       cache[l] # NoCache /\ cache[l].rows = Rows(ledger[l]) /\ cache[l].hash = ledger[l]
  /\ pc[a] = "synced" => meta_matches_scan(side[l], ledger[l])
  /\ pc[a] = "accepted" =>
       \/ held[a].hash = ledger[l]
       \/ side[l] = NoMeta /\ ledger[l] = <<>>
       \/ side[l] # NoMeta /\ MarkedSince(held[a].hash, side[l].updated + 1)

PulseInv ==
  /\ KnownInv /\ LockInv /\ CacheInv
  /\ outMeta # NoMeta => MarkedSince(outMeta.hash, outMeta.updated)
  /\ \A a \in Agent : StageInv(a)

(* A marker and a missing file are different records. *)
LEMMA Present ==
  ASSUME NEW E
  PROVE  /\ \A m \in MetaOf(E) : m # NoMeta /\ m # NoHeld
         /\ \A c \in [rows: Seq(E), hash: TextOf(E)] : c # NoCache
         /\ \A o \in [text: TextOf(E)] : o # NoFile
<1>1. ASSUME NEW m \in MetaOf(E) PROVE m # NoMeta /\ m # NoHeld
  <2>1. DOMAIN m = {"hash", "updated"}
    BY DEF MetaOf
  <2>2. DOMAIN NoMeta = {"file"} /\ NoMeta = NoHeld
    BY DEF NoMeta, NoHeld
  <2> QED BY <2>1, <2>2
<1>2. ASSUME NEW c \in [rows: Seq(E), hash: TextOf(E)] PROVE c # NoCache
  <2>1. DOMAIN c = {"rows", "hash"}
    OBVIOUS
  <2>2. DOMAIN NoCache = {"file"}
    BY DEF NoCache
  <2> QED BY <2>1, <2>2
<1>3. ASSUME NEW o \in [text: TextOf(E)] PROVE o # NoFile
  <2>1. DOMAIN o = {"text"}
    OBVIOUS
  <2>2. DOMAIN NoFile = {"file"}
    BY DEF NoFile
  <2> QED BY <2>1, <2>2
<1> QED BY <1>1, <1>2, <1>3

LEMMA KnownGrows ==
  ASSUME NEW E, NEW F, E \subseteq F, Known(E)
  PROVE  Known(F)
<1>1. TextOf(E) \subseteq TextOf(F) /\ Seq(E) \subseteq Seq(F)
  BY TextGrows, SeqMonotonic
<1>2. MetaOf(E) \subseteq MetaOf(F)
  BY <1>1 DEF MetaOf
<1>3. [rows: Seq(E), hash: TextOf(E)] \subseteq [rows: Seq(F), hash: TextOf(F)]
  BY <1>1
<1>4. [text: TextOf(E)] \subseteq [text: TextOf(F)]
  BY <1>1
<1> QED BY <1>1, <1>2, <1>3, <1>4 DEF Known

LEMMA KnownIsTyped == KnownInv => TypeOK
<1> SUFFICES ASSUME KnownInv PROVE TypeOK
  OBVIOUS
<1>1. Known(Event)
  BY KnownGrows DEF KnownInv
<1>2. TextOf(Event) = Text /\ MetaOf(Event) = Meta
  BY DEF TextOf, Text, Chunk, MetaOf, Meta
<1> QED BY <1>1, <1>2 DEF KnownInv, Known, TypeOK

LEMMA InitHolds == Init => PulseInv
<1> SUFFICES ASSUME Init PROVE PulseInv
  OBVIOUS
<1>1. <<>> \in TextOf({})
  BY DEF TextOf
<1>2. KnownInv
  BY <1>1 DEF Init, KnownInv, Known
<1>3. LockInv /\ CacheInv
  BY PulseConstants DEF Init, LockInv, Locked, CacheInv
<1>4. ASSUME NEW a \in Agent PROVE StageInv(a)
  BY DEF Init, StageInv
<1> QED BY <1>2, <1>3, <1>4 DEF Init, PulseInv

-----------------------------------------------------------------------------
(* Steps keep the types and what is known.                                 *)

LEMMA KnownRecord ==
  ASSUME KnownInv, NEW a \in Agent, NEW e \in Event, record_event(a, e) \/ RecordFails(a, e)
  PROVE  KnownInv'
<1> DEFINE l == Home[a]
           R == recorded \cup {e, Clamp[e]}
<1>1. l \in Ledger /\ recorded' = R /\ R \subseteq Event /\ e \in R
  BY PulseConstants DEF record_event, RecordFails, KnownInv
<1>2. \A x \in R : Clamp[x] \in R
  BY PulseConstants DEF KnownInv
<1>3. Known(R)
  BY KnownGrows DEF KnownInv
<1>4. PICK c \in Torn(e) : ledger' = [ledger EXCEPT ![l] = Append(@, c)]
  BY DEF record_event, RecordFails, Torn
<1> HIDE DEF R
<1>5. c \in [event: R, whole: BOOLEAN, newline: BOOLEAN]
  <2> DEFINE C == [event: R, whole: BOOLEAN, newline: BOOLEAN]
  <2>1. [event |-> e, whole |-> FALSE, newline |-> FALSE] \in C
    BY <1>1
  <2>2. [event |-> e, whole |-> TRUE, newline |-> FALSE] \in C
    BY <1>1
  <2>3. [event |-> e, whole |-> TRUE, newline |-> TRUE] \in C
    BY <1>1
  <2> HIDE DEF C
  <2>4. c \in C
    BY <2>1, <2>2, <2>3, Zenon DEF Torn, Cut, Appended
  <2> QED BY <2>4 DEF C
<1>6. Append(ledger[l], c) \in TextOf(R)
  BY <1>1, <1>3, <1>5, AppendLine DEF Known
<1>7. ledger' \in [Ledger -> TextOf(R)]
  BY <1>1, <1>3, <1>4, <1>6 DEF Known
<1>8. UNCHANGED <<cache, side, out, outMeta, clock, pc, op, held, exported>>
  BY DEF record_event, RecordFails
<1>9. Known(recorded)'
  BY <1>1, <1>3, <1>7, <1>8 DEF Known
<1>10. fresh' \in [Ledger -> SUBSET Event]
  BY <1>1 DEF record_event, RecordFails, KnownInv
<1> QED BY <1>1, <1>2, <1>8, <1>9, <1>10 DEF KnownInv, R

LEMMA AsTextIsWhole ==
  ASSUME NEW E, NEW rows \in Seq(E)
  PROVE  AsText(rows) \in TextOf(E) /\ Whole(AsText(rows))
<1> DEFINE C == [event: E, whole: BOOLEAN, newline: BOOLEAN]
<1>1. Len(rows) \in Nat /\ DOMAIN rows = 1..Len(rows) /\ \A i \in 1..Len(rows) : rows[i] \in E
  BY LenProperties, ElementOfSeq
<1>2. \A i \in 1..Len(rows) : Appended(rows[i]) \in C
  BY <1>1 DEF Appended
<1>3. AsText(rows) \in [1..Len(rows) -> C]
  <2> HIDE DEF C
  <2> QED BY <1>1, <1>2 DEF AsText
<1>4. AsText(rows) \in Seq(C)
  <2> HIDE DEF C
  <2> QED BY <1>1, <1>3, SeqDef
<1>5. Len(AsText(rows)) = Len(rows)
  <2> HIDE DEF C
  <2> QED BY <1>1, <1>3, <1>4, LenProperties
<1>6. Whole(AsText(rows))
  BY <1>1, <1>5 DEF Whole, AsText, Appended
<1> QED BY <1>4, <1>6 DEF TextOf

(* Truncating inside the last line keeps the other lines. *)
LEMMA CutLast ==
  ASSUME NEW E, NEW text \in TextOf(E), text # <<>>
  PROVE  LET cut == Append(Front(text), Cut(Last(text).event)) IN
         /\ cut \in TextOf(E) /\ cut # <<>>
         /\ Tidy(text) => Tidy(cut)
<1> DEFINE C == [event: E, whole: BOOLEAN, newline: BOOLEAN]
           n == Len(text)
           c == Cut(Last(text).event)
<1>1. n \in Nat /\ n # 0 /\ text \in Seq(C) /\ \A i \in 1..n : text[i] \in C
  BY TextLines, EmptySeq DEF TextOf
<1>2. Front(text) \in Seq(C) /\ Len(Front(text)) = n - 1
      /\ \A i \in 1..(n - 1) : Front(text)[i] = text[i]
  <2> DEFINE q == SubSeq(text, 1, n - 1)
  <2> HIDE DEF C, n
  <2>1. n - 1 \in Int /\ 1 \in Int /\ \A i \in 1..(n - 1) : text[i] \in C
    BY <1>1
  <2>2. /\ q \in Seq(C)
        /\ Len(q) = IF 1 <= n - 1 THEN (n - 1) - 1 + 1 ELSE 0
        /\ \A i \in 1..((n - 1) - 1 + 1) : q[i] = text[1 + i - 1]
    BY <2>1, SubSeqProperties
  <2> HIDE DEF q
  <2>3. Len(q) = n - 1 /\ \A i \in 1..(n - 1) : q[i] = text[i]
    BY <1>1, <2>2
  <2>4. Front(text) = q
    BY DEF Front, q, n
  <2> QED BY <2>2, <2>3, <2>4
<1>3. Last(text) \in C
  BY <1>1 DEF Last
<1>4. c \in C
  BY <1>3 DEF Cut
<1>5. /\ Append(Front(text), c) \in Seq(C) /\ Append(Front(text), c) # <<>>
      /\ Len(Append(Front(text), c)) = n
      /\ \A i \in 1..(n - 1) : Append(Front(text), c)[i] = text[i]
      /\ Append(Front(text), c)[n] = c
  <2> HIDE DEF C, c
  <2> QED BY <1>1, <1>2, <1>4, AppendProperties
<1>6. c.whole = FALSE
  BY DEF Cut
<1>7. ASSUME Tidy(text) PROVE Tidy(Append(Front(text), c))
  <2> HIDE DEF C, c
  <2> QED BY <1>1, <1>5, <1>6, <1>7 DEF Tidy
<1> QED BY <1>5, <1>7 DEF TextOf

LEMMA KnownSteps ==
  ASSUME PulseInv, NEW a \in Agent,
         \/ \E kind \in {"sync", "export", "import"} : SyncCache(a, kind)
         \/ SyncSidecar(a) \/ SyncReturn(a)
         \/ atomic_export_sqlite_jsonl(a) \/ ExportScan(a) \/ ExportMarker(a)
         \/ ImportScan(a) \/ ImportVerify(a) \/ atomic_import_valid_jsonl(a)
         \/ CommandFails(a) \/ Crash(a)
  PROVE  KnownInv'
<1> DEFINE l == Home[a]
<1>0. /\ l \in Ledger /\ KnownInv /\ Known(recorded) /\ StageInv(a) /\ ledger[l] \in TextOf(recorded)
      /\ recorded' = recorded
  BY PulseConstants DEF PulseInv, KnownInv, Known, SyncCache, SyncSidecar, SyncReturn,
     atomic_export_sqlite_jsonl, ExportScan, ExportMarker, ImportScan, ImportVerify,
     atomic_import_valid_jsonl, CommandFails, Crash
<1> USE <1>0
<1>a. ASSUME NEW text \in TextOf(recorded), NEW t \in Nat
      PROVE  [hash |-> text, updated |-> t] \in MetaOf(recorded)
  BY DEF MetaOf
<1>b. ASSUME Return(a), UNCHANGED <<ledger, cache, side, out, outMeta, clock, recorded, fresh, exported>>
      PROVE  KnownInv'
  BY <1>b DEF Return, KnownInv, Known
<1>1. ASSUME NEW kind \in {"sync", "export", "import"}, SyncCache(a, kind) PROVE KnownInv'
  <2>1. [rows |-> Rows(ledger[l]), hash |-> ledger[l]] \in [rows: Seq(recorded), hash: TextOf(recorded)]
    BY RowsOfText DEF KnownInv
  <2>2. cache' \in [Ledger -> {NoCache} \cup [rows: Seq(recorded), hash: TextOf(recorded)]]
    <3> HIDE <1>0
    <3>1. cache \in [Ledger -> {NoCache} \cup [rows: Seq(recorded), hash: TextOf(recorded)]]
      BY <1>0 DEF Known
    <3> QED BY <1>0, <1>1, <2>1, <3>1 DEF SyncCache, write_sqlite_events_from_jsonl
  <2> QED BY <1>1, <2>2 DEF SyncCache, KnownInv, Known
<1>2. CASE SyncSidecar(a)
  BY <1>2, <1>a DEF SyncSidecar, meta_from_scan, KnownInv, Known
<1>3. CASE SyncReturn(a) \/ CommandFails(a) \/ Crash(a)
  BY <1>3, <1>b DEF SyncReturn, CommandFails, Crash
<1>4. CASE atomic_export_sqlite_jsonl(a)
  <2>1. cache[l].rows \in Seq(recorded)
    BY <1>4 DEF atomic_export_sqlite_jsonl, StageInv, Known
  <2>2. out' \in [text: TextOf(recorded)]
    BY <1>4, <2>1, AsTextIsWhole DEF atomic_export_sqlite_jsonl
  <2> QED BY <1>4, <2>2 DEF atomic_export_sqlite_jsonl, KnownInv, Known
<1>5. CASE ExportScan(a)
  <2>1. out.text \in TextOf(recorded)
    BY <1>5 DEF ExportScan, StageInv, Known
  <2> QED BY <1>5, <1>a, <2>1 DEF ExportScan, meta_from_scan, KnownInv, Known
<1>6. CASE ExportMarker(a)
  <2>1. held[a] \in MetaOf(recorded)
    BY <1>6 DEF ExportMarker, StageInv, Known
  <2>2. exported' \subseteq MetaOf(recorded)
    BY <1>6, <2>1 DEF ExportMarker, Known
  <2> QED BY <1>6, <2>1, <2>2 DEF ExportMarker, Return, KnownInv, Known
<1>7. CASE ImportScan(a)
  <2>1. out.text \in TextOf(recorded)
    BY <1>7 DEF ImportScan, Known
  <2> QED BY <1>7, <1>a, <2>1 DEF ImportScan, KnownInv, Known
<1>8. CASE ImportVerify(a)
  <2>1. CASE Return(a)
    BY <1>8, <1>b, <2>1 DEF ImportVerify
  <2>2. CASE pc' = [pc EXCEPT ![a] = "accepted"] /\ UNCHANGED <<op, held>>
    BY <1>8, <2>2 DEF ImportVerify, KnownInv, Known
  <2> QED BY <1>8, <2>1, <2>2 DEF ImportVerify
<1>9. CASE atomic_import_valid_jsonl(a)
  <2>1. CASE Return(a) /\ UNCHANGED ledger
    BY <1>9, <1>b, <2>1 DEF atomic_import_valid_jsonl
  <2>2. CASE /\ ledger' = [ledger EXCEPT ![l] = out.text]
             /\ pc' = [pc EXCEPT ![a] = "copied"] /\ UNCHANGED <<op, held>>
    <3>1. out.text \in TextOf(recorded)
      BY <1>9 DEF atomic_import_valid_jsonl, StageInv, Known
    <3> QED BY <1>9, <2>2, <3>1 DEF atomic_import_valid_jsonl, KnownInv, Known
  <2> QED BY <1>9, <2>1, <2>2 DEF atomic_import_valid_jsonl
<1> QED BY <1>1, <1>2, <1>3, <1>4, <1>5, <1>6, <1>7, <1>8, <1>9

LEMMA KnownEnvironment ==
  ASSUME PulseInv, (\E l \in Ledger : LoseCache(l)) \/ DamageSnapshot \/ Tick \/ UNCHANGED vars
  PROVE  KnownInv'
<1>0. KnownInv /\ Known(recorded)
  BY DEF PulseInv, KnownInv
<1>1. ASSUME NEW l \in Ledger, LoseCache(l) PROVE KnownInv'
  BY <1>0, <1>1 DEF LoseCache, KnownInv, Known
<1>2. CASE DamageSnapshot
  <2>1. out.text \in TextOf(recorded) /\ out.text # <<>>
    BY <1>0, <1>2 DEF DamageSnapshot, Known
  <2>2. out' \in [text: TextOf(recorded)]
    BY <1>2, <2>1, CutLast DEF DamageSnapshot
  <2> QED BY <1>0, <1>2, <2>2 DEF DamageSnapshot, KnownInv, Known
<1>3. CASE Tick
  BY <1>0, <1>3, PulseConstants DEF Tick, KnownInv, Known
<1>4. CASE UNCHANGED vars
  BY <1>0, <1>4 DEF vars, KnownInv, Known
<1> QED BY <1>1, <1>2, <1>3, <1>4

-----------------------------------------------------------------------------
(* What a step of one process leaves alone.                                *)

LEMMA OtherAgents ==
  ASSUME PulseInv, NEW a \in Agent, Command(a), NEW b \in Agent, b # a
  PROVE  /\ pc'[b] = pc[b] /\ held'[b] = held[b]
         /\ Home[b] = Home[a] => ~Locked(b)
<1>0. KnownInv /\ LockInv /\ pc \in [Agent -> {"idle", "cached", "synced", "written", "scanned",
                       "verifying", "accepted", "copied"}]
      /\ held \in [Agent -> {NoHeld} \cup MetaOf(recorded)]
  BY DEF PulseInv, KnownInv, Known
<1>1. \/ LockFree(Home[a]) \/ Locked(a)
  BY DEF Command, record_event, RecordFails, SyncCache, SyncSidecar, SyncReturn,
     atomic_export_sqlite_jsonl, ExportScan, ExportMarker, ImportScan, ImportVerify,
     atomic_import_valid_jsonl, CommandFails, Crash, Locked
<1>2. Home[b] = Home[a] => ~Locked(b)
  BY <1>0, <1>1 DEF LockFree, LockInv
<1>3. pc'[b] = pc[b]
  BY <1>0 DEF Command, record_event, RecordFails, SyncCache, SyncSidecar, SyncReturn, Return,
     atomic_export_sqlite_jsonl, ExportScan, ExportMarker, ImportScan, ImportVerify,
     atomic_import_valid_jsonl, CommandFails, Crash
<1>4. held'[b] = held[b]
  BY <1>0 DEF Command, record_event, RecordFails, SyncCache, SyncSidecar, SyncReturn, Return,
     atomic_export_sqlite_jsonl, ExportScan, ExportMarker, ImportScan, ImportVerify,
     atomic_import_valid_jsonl, CommandFails, Crash
<1> QED BY <1>2, <1>3, <1>4

LEMMA OtherLedgers ==
  ASSUME PulseInv, NEW a \in Agent, Command(a), NEW l \in Ledger, l # Home[a]
  PROVE  ledger'[l] = ledger[l] /\ cache'[l] = cache[l] /\ side'[l] = side[l] /\ fresh'[l] = fresh[l]
<1>0. /\ ledger \in [Ledger -> TextOf(recorded)]
      /\ cache \in [Ledger -> {NoCache} \cup [rows: Seq(recorded), hash: TextOf(recorded)]]
      /\ side \in [Ledger -> {NoMeta} \cup MetaOf(recorded)]
      /\ fresh \in [Ledger -> SUBSET Event]
  BY DEF PulseInv, KnownInv, Known
<1>1. ledger'[l] = ledger[l]
  BY <1>0 DEF Command, record_event, RecordFails, SyncCache, SyncSidecar, SyncReturn,
     atomic_export_sqlite_jsonl, ExportScan, ExportMarker, ImportScan, ImportVerify,
     atomic_import_valid_jsonl, CommandFails, Crash
<1>2. cache'[l] = cache[l]
  BY <1>0 DEF Command, record_event, RecordFails, SyncCache, SyncSidecar, SyncReturn,
     atomic_export_sqlite_jsonl, ExportScan, ExportMarker, ImportScan, ImportVerify,
     atomic_import_valid_jsonl, CommandFails, Crash, write_sqlite_events_from_jsonl
<1>3. side'[l] = side[l]
  BY <1>0 DEF Command, record_event, RecordFails, SyncCache, SyncSidecar, SyncReturn,
     atomic_export_sqlite_jsonl, ExportScan, ExportMarker, ImportScan, ImportVerify,
     atomic_import_valid_jsonl, CommandFails, Crash
<1>4. fresh'[l] = fresh[l]
  BY <1>0 DEF Command, record_event, RecordFails, SyncCache, SyncSidecar, SyncReturn,
     atomic_export_sqlite_jsonl, ExportScan, ExportMarker, ImportScan, ImportVerify,
     atomic_import_valid_jsonl, CommandFails, Crash
<1> QED BY <1>1, <1>2, <1>3, <1>4

(* A marker never makes a snapshot look less recent than it was. *)
LEMMA MarksStay ==
  ASSUME PulseInv, NEW a \in Agent, Command(a),
         NEW text, NEW time \in Nat, MarkedSince(text, time)
  PROVE  MarkedSince(text, time)'
<1>0. exported \subseteq MetaOf(recorded) /\ held \in [Agent -> {NoHeld} \cup MetaOf(recorded)]
  BY DEF PulseInv, KnownInv, Known
<1>1. CASE UNCHANGED exported
  BY <1>1 DEF MarkedSince
<1>2. CASE ExportMarker(a)
  <2>1. PICK m \in exported : m.hash = text /\ m.updated >= time
    BY DEF MarkedSince
  <2> DEFINE h == held[a]
             older == {x \in exported : x.hash = h.hash /\ x.updated <= h.updated}
             newer == {x \in exported : x.hash = h.hash} \ older
  <2>2. exported' = (exported \ older) \cup (IF newer = {} THEN {h} ELSE {})
    BY <1>2 DEF ExportMarker
  <2>3. h \in MetaOf(recorded)
    BY <1>0, <1>2 DEF ExportMarker, PulseInv, StageInv
  <2>4. h.updated \in Nat /\ \A x \in exported : x.updated \in Nat
    BY <1>0, <2>3 DEF MetaOf
  <2>5. CASE m \notin older
    BY <2>1, <2>2, <2>5 DEF MarkedSince
  <2>6. CASE m \in older /\ newer = {}
    <3>1. h \in exported' /\ h.hash = text /\ h.updated >= time
      BY <2>1, <2>2, <2>4, <2>6
    <3> QED BY <3>1 DEF MarkedSince
  <2>7. CASE m \in older /\ newer # {}
    <3>1. PICK x \in newer : TRUE
      BY <2>7
    <3>2. x \in exported' /\ x.hash = text /\ x.updated >= time
      BY <2>1, <2>2, <2>4, <2>7, <3>1
    <3> QED BY <3>2 DEF MarkedSince
  <2> QED BY <2>5, <2>6, <2>7
<1> QED BY <1>1, <1>2 DEF Command, record_event, RecordFails, SyncCache, SyncSidecar, SyncReturn,
     atomic_export_sqlite_jsonl, ExportScan, ImportScan, ImportVerify,
     atomic_import_valid_jsonl, CommandFails, Crash

LEMMA SnapshotStays ==
  ASSUME PulseInv, NEW a \in Agent, Command(a), out # NoFile
  PROVE  out' # NoFile
<1>1. CASE atomic_export_sqlite_jsonl(a)
  <2>1. cache[Home[a]].rows \in Seq(recorded)
    BY <1>1, PulseConstants DEF atomic_export_sqlite_jsonl, PulseInv, StageInv, KnownInv, Known
  <2>2. out' \in [text: TextOf(recorded)]
    BY <1>1, <2>1, AsTextIsWhole DEF atomic_export_sqlite_jsonl
  <2> QED BY <2>2, Present
<1> QED BY <1>1 DEF Command, record_event, RecordFails, SyncCache, SyncSidecar, SyncReturn,
     ExportScan, ExportMarker, ImportScan, ImportVerify,
     atomic_import_valid_jsonl, CommandFails, Crash

LEMMA LockKept ==
  ASSUME PulseInv, Next \/ UNCHANGED vars
  PROVE  LockInv'
<1>0. LockInv
  BY DEF PulseInv
<1>1. ASSUME NEW a \in Agent, Command(a) PROVE LockInv'
  <2> SUFFICES ASSUME NEW x \in Agent, NEW y \in Agent, Home[x] = Home[y], Locked(x)', Locked(y)', x # y
               PROVE  FALSE
    BY DEF LockInv
  <2>1. \A b \in Agent : b # a => (Locked(b)' <=> Locked(b)) /\ (Home[b] = Home[a] => ~Locked(b))
    BY <1>1, OtherAgents DEF Locked
  <2> QED BY <1>0, <2>1 DEF LockInv
<1>2. ASSUME UNCHANGED pc PROVE LockInv'
  BY <1>0, <1>2 DEF LockInv, Locked
<1> QED BY <1>1, <1>2 DEF Next, LoseCache, DamageSnapshot, Tick, vars

LEMMA OtherStages ==
  ASSUME PulseInv, NEW a \in Agent, Command(a), NEW b \in Agent, b # a
  PROVE  StageInv(b)'
<1>0. StageInv(b) /\ pc'[b] = pc[b] /\ held'[b] = held[b] /\ (Home[b] = Home[a] => ~Locked(b)) /\ Home[b] \in Ledger
  BY OtherAgents, PulseConstants DEF PulseInv
<1>1. CASE Home[b] = Home[a]
  BY <1>0, <1>1 DEF StageInv, Locked
<1>2. CASE Home[b] # Home[a]
  <2> DEFINE l == Home[b]
  <2>1. ledger'[l] = ledger[l] /\ cache'[l] = cache[l] /\ side'[l] = side[l]
    BY <1>0, <1>2, OtherLedgers
  <2>2. side[l] # NoMeta => side[l].updated + 1 \in Nat
    BY <1>0 DEF PulseInv, KnownInv, Known, MetaOf
  <2>3. side[l] # NoMeta /\ MarkedSince(held[b].hash, side[l].updated + 1)
          => MarkedSince(held[b].hash, side[l].updated + 1)'
    <3>1. \A h : side[l] # NoMeta /\ MarkedSince(h, side[l].updated + 1)
            => \E m \in exported' : m.hash = h /\ m.updated >= side[l].updated + 1
      BY <2>2, MarksStay DEF MarkedSince
    <3> QED BY <1>0, <2>1, <3>1 DEF MarkedSince
  <2>4. out # NoFile => out' # NoFile
    BY SnapshotStays
  <2> QED BY <1>0, <2>1, <2>3, <2>4 DEF StageInv, meta_matches_scan
<1> QED BY <1>1, <1>2

LEMMA OwnStage ==
  ASSUME PulseInv, NEW a \in Agent, Command(a)
  PROVE  StageInv(a)'
<1> DEFINE l == Home[a]
<1>0. /\ l \in Ledger /\ KnownInv /\ Known(recorded) /\ StageInv(a) /\ ledger[l] \in TextOf(recorded)
      /\ pc \in [Agent -> {"idle", "cached", "synced", "written", "scanned",
                       "verifying", "accepted", "copied"}]
      /\ cache \in [Ledger -> {NoCache} \cup [rows: Seq(recorded), hash: TextOf(recorded)]]
      /\ side \in [Ledger -> {NoMeta} \cup MetaOf(recorded)]
      /\ held \in [Agent -> {NoHeld} \cup MetaOf(recorded)]
  BY PulseConstants DEF PulseInv, KnownInv, Known
<1>a. ASSUME NEW text \in TextOf(recorded), NEW t \in Nat
      PROVE  /\ [hash |-> text, updated |-> t] # NoMeta /\ [hash |-> text, updated |-> t] # NoHeld
             /\ [hash |-> text, updated |-> t].hash = text
  <2>1. [hash |-> text, updated |-> t] \in MetaOf(recorded)
    BY DEF MetaOf
  <2> QED BY <2>1, Present
<1>b. ASSUME pc'[a] \in {"idle", "copied"} PROVE StageInv(a)'
  BY <1>b DEF StageInv
<1>1. ASSUME NEW e \in Event, record_event(a, e) \/ RecordFails(a, e) PROVE StageInv(a)'
  BY <1>1, <1>b DEF record_event, RecordFails
<1>2. ASSUME NEW kind \in {"sync", "export", "import"}, SyncCache(a, kind) PROVE StageInv(a)'
  <2>1. pc'[a] = "cached" /\ ledger' = ledger
    BY <1>0, <1>2 DEF SyncCache
  <2>2. cache'[l] # NoCache /\ cache'[l].rows = Rows(ledger[l]) /\ cache'[l].hash = ledger[l]
    <3>1. CASE CacheIsCurrent(l)
      BY <1>0, <1>2, <3>1 DEF SyncCache, CacheIsCurrent, PulseInv, CacheInv
    <3>2. CASE ~CacheIsCurrent(l)
      <4> DEFINE c == [rows |-> Rows(ledger[l]), hash |-> ledger[l]]
      <4>1. cache'[l] = c
        BY <1>0, <1>2, <3>2 DEF SyncCache, write_sqlite_events_from_jsonl
      <4>2. c \in [rows: Seq(recorded), hash: TextOf(recorded)]
        BY <1>0, RowsOfText DEF KnownInv
      <4>3. c # NoCache
        BY <4>2, Present
      <4> QED BY <4>1, <4>3
    <3> QED BY <3>1, <3>2
  <2> QED BY <2>1, <2>2 DEF StageInv
<1>3. CASE SyncSidecar(a)
  <2>1. pc'[a] = "synced" /\ ledger' = ledger /\ cache' = cache /\ pc[a] = "cached"
        /\ side'[l] = [hash |-> ledger[l], updated |-> clock]
    BY <1>0, <1>3 DEF SyncSidecar, meta_from_scan
  <2>2. meta_matches_scan(side'[l], ledger[l])
    BY <1>0, <1>a, <2>1 DEF meta_matches_scan, KnownInv
  <2> QED BY <1>0, <2>1, <2>2 DEF StageInv, meta_matches_scan
<1>4. CASE SyncReturn(a) \/ CommandFails(a) \/ Crash(a) \/ ExportMarker(a)
  BY <1>0, <1>4, <1>b DEF SyncReturn, CommandFails, Crash, ExportMarker, Return
<1>5. CASE atomic_export_sqlite_jsonl(a)
  <2>1. cache[l].rows \in Seq(recorded)
    BY <1>0, <1>5 DEF atomic_export_sqlite_jsonl, StageInv
  <2>2. out' \in [text: TextOf(recorded)]
    BY <1>5, <2>1, AsTextIsWhole DEF atomic_export_sqlite_jsonl
  <2>3. pc'[a] = "written" /\ out' # NoFile
    BY <1>0, <1>5, <2>2, Present DEF atomic_export_sqlite_jsonl
  <2> QED BY <2>3 DEF StageInv
<1>6. CASE ExportScan(a)
  <2>1. out.text \in TextOf(recorded) /\ clock \in Nat
    BY <1>0, <1>6 DEF ExportScan, StageInv, KnownInv, Known
  <2>2. pc'[a] = "scanned" /\ held'[a] # NoHeld
    BY <1>0, <1>6, <1>a, <2>1 DEF ExportScan, meta_from_scan
  <2> QED BY <2>2 DEF StageInv
<1>7. CASE ImportScan(a)
  <2>1. out.text \in TextOf(recorded)
    BY <1>0, <1>7 DEF ImportScan, Known
  <2>2. pc'[a] = "verifying" /\ held'[a] # NoHeld /\ out' # NoFile
    BY <1>0, <1>7, <1>a, <2>1 DEF ImportScan
  <2> QED BY <2>2 DEF StageInv
<1>8. CASE ImportVerify(a)
  <2>1. CASE Return(a)
    BY <1>0, <1>b, <2>1 DEF Return
  <2>2. CASE ~Return(a)
    <3>1. /\ pc'[a] = "accepted" /\ pc[a] = "verifying"
          /\ UNCHANGED <<ledger, cache, side, out, held, exported>>
          /\ outMeta = NoMeta \/ meta_matches_scan(outMeta, held[a].hash)
          /\ ensure_import_not_older(held[a].hash, outMeta, l)
      BY <1>0, <1>8, <2>2 DEF ImportVerify
    <3>2. CASE held[a].hash = ledger[l] \/ (side[l] = NoMeta /\ ledger[l] = <<>>)
      BY <1>0, <3>1, <3>2 DEF StageInv
    <3>3. CASE side[l] # NoMeta /\ outMeta # NoMeta /\ outMeta.updated > side[l].updated
      <4>1. side[l].updated \in Nat /\ outMeta.updated \in Nat
        BY <1>0, <3>3 DEF Known, MetaOf
      <4>2. PICK m \in exported : m.hash = outMeta.hash /\ m.updated >= outMeta.updated
        BY <3>3 DEF PulseInv, MarkedSince
      <4>3. m.updated \in Nat
        BY <1>0 DEF Known, MetaOf
      <4>4. m.hash = held[a].hash /\ m.updated >= side[l].updated + 1
        BY <3>1, <3>3, <4>1, <4>2, <4>3 DEF meta_matches_scan
      <4>5. MarkedSince(held[a].hash, side[l].updated + 1)'
        BY <3>1, <4>4 DEF MarkedSince
      <4> QED BY <1>0, <3>1, <3>3, <4>5 DEF StageInv
    <3> QED BY <3>1, <3>2, <3>3 DEF ensure_import_not_older
  <2> QED BY <2>1, <2>2
<1>9. CASE atomic_import_valid_jsonl(a)
  BY <1>0, <1>9, <1>b DEF atomic_import_valid_jsonl, Return
<1> QED BY <1>1, <1>2, <1>3, <1>4, <1>5, <1>6, <1>7, <1>8, <1>9 DEF Command

LEMMA CacheKept ==
  ASSUME PulseInv, NEW a \in Agent, Command(a)
  PROVE  CacheInv'
<1> DEFINE l == Home[a]
<1>0. /\ l \in Ledger /\ CacheInv
      /\ cache \in [Ledger -> {NoCache} \cup [rows: Seq(recorded), hash: TextOf(recorded)]]
  BY PulseConstants DEF PulseInv, KnownInv, Known
<1>1. CASE UNCHANGED cache
  BY <1>0, <1>1 DEF CacheInv
<1>2. CASE write_sqlite_events_from_jsonl(l)
  BY <1>0, <1>2 DEF CacheInv, write_sqlite_events_from_jsonl
<1> QED BY <1>1, <1>2 DEF Command, record_event, RecordFails, SyncCache, SyncSidecar, SyncReturn,
     atomic_export_sqlite_jsonl, ExportScan, ExportMarker, ImportScan, ImportVerify,
     atomic_import_valid_jsonl, CommandFails, Crash

LEMMA MarkerKept ==
  ASSUME PulseInv, NEW a \in Agent, Command(a), outMeta' # NoMeta
  PROVE  MarkedSince(outMeta.hash, outMeta.updated)'
<1>1. CASE UNCHANGED outMeta
  <2>1. outMeta # NoMeta /\ MarkedSince(outMeta.hash, outMeta.updated) /\ outMeta.updated \in Nat
    BY <1>1 DEF PulseInv, KnownInv, Known, MetaOf
  <2>2. \A h, t : t \in Nat /\ MarkedSince(h, t) => \E m \in exported' : m.hash = h /\ m.updated >= t
    BY MarksStay DEF MarkedSince
  <2>3. \E m \in exported' : m.hash = outMeta.hash /\ m.updated >= outMeta.updated
    BY <2>1, <2>2
  <2> QED BY <1>1, <2>3 DEF MarkedSince
<1>2. CASE ExportMarker(a)
  <2> DEFINE h == held[a]
             older == {m \in exported : m.hash = h.hash /\ m.updated <= h.updated}
             newer == {m \in exported : m.hash = h.hash} \ older
  <2>1. h \in MetaOf(recorded) /\ exported \subseteq MetaOf(recorded)
    BY <1>2 DEF ExportMarker, PulseInv, StageInv, KnownInv, Known
  <2>2. h.updated \in Nat /\ \A x \in exported : x.updated \in Nat
    BY <2>1 DEF MetaOf
  <2>3. exported' = (exported \ older) \cup (IF newer = {} THEN {h} ELSE {}) /\ outMeta' = h
    BY <1>2 DEF ExportMarker
  <2>4. \E m \in exported' : m.hash = h.hash /\ m.updated >= h.updated
    <3>1. CASE newer = {}
      BY <2>2, <2>3, <3>1
    <3>2. CASE newer # {}
      BY <2>2, <2>3, <3>2
    <3> QED BY <3>1, <3>2
  <2> QED BY <2>3, <2>4 DEF MarkedSince
<1> QED BY <1>1, <1>2 DEF Command, record_event, RecordFails, SyncCache, SyncSidecar, SyncReturn,
     atomic_export_sqlite_jsonl, ExportScan, ImportScan, ImportVerify,
     atomic_import_valid_jsonl, CommandFails, Crash

LEMMA PulseStep == PulseInv /\ [Next]_vars => PulseInv'
<1> SUFFICES ASSUME PulseInv, [Next]_vars PROVE PulseInv'
  OBVIOUS
<1>0. LockInv'
  BY LockKept
<1>1. ASSUME NEW a \in Agent, Command(a) PROVE PulseInv'
  <2>1. KnownInv'
    BY <1>1, KnownRecord, KnownSteps DEF Command, PulseInv
  <2>2. CacheInv' /\ (outMeta' # NoMeta => MarkedSince(outMeta.hash, outMeta.updated)')
    BY <1>1, CacheKept, MarkerKept
  <2>3. \A b \in Agent : StageInv(b)'
    BY <1>1, OwnStage, OtherStages
  <2> QED BY <1>0, <2>1, <2>2, <2>3 DEF PulseInv
<1>2. CASE (\E l \in Ledger : LoseCache(l)) \/ DamageSnapshot \/ Tick \/ UNCHANGED vars
  <2>1. KnownInv'
    BY <1>2, KnownEnvironment
  <2>2. UNCHANGED <<ledger, side, outMeta, pc, held, exported>>
    BY <1>2 DEF LoseCache, DamageSnapshot, Tick, vars
  <2>3. out # NoFile => out' # NoFile
    <3>1. CASE DamageSnapshot
      <4>1. out' = [text |-> Append(Front(out.text), Cut(Last(out.text).event))]
        BY <3>1 DEF DamageSnapshot
      <4>2. DOMAIN out' = {"text"} /\ DOMAIN NoFile = {"file"}
        BY <4>1 DEF NoFile
      <4> QED BY <4>2
    <3> QED BY <1>2, <3>1 DEF LoseCache, Tick, vars
  <2>4. \A l \in Ledger : cache'[l] = cache[l] \/ (cache'[l] = NoCache /\ LockFree(l))
    BY <1>2 DEF LoseCache, DamageSnapshot, Tick, vars, PulseInv, KnownInv, Known
  <2>5. CacheInv'
    BY <2>4 DEF PulseInv, CacheInv
  <2>6. outMeta' # NoMeta => MarkedSince(outMeta.hash, outMeta.updated)'
    BY <2>2 DEF PulseInv, MarkedSince
  <2>7. ASSUME NEW a \in Agent PROVE StageInv(a)'
    <3>1. Home[a] \in Ledger /\ StageInv(a)
      BY PulseConstants DEF PulseInv
    <3>2. CASE cache'[Home[a]] = cache[Home[a]]
      BY <2>2, <2>3, <3>1, <3>2 DEF StageInv, meta_matches_scan, MarkedSince
    <3>3. CASE LockFree(Home[a])
      <4>1. pc'[a] = "idle"
        BY <2>2, <3>3 DEF LockFree, Locked
      <4> QED BY <4>1 DEF StageInv
    <3> QED BY <2>4, <3>1, <3>2, <3>3
  <2> QED BY <1>0, <2>1, <2>5, <2>6, <2>7 DEF PulseInv
<1> QED BY <1>1, <1>2 DEF Next

LEMMA Invariance == Spec => []PulseInv
  BY InitHolds, PulseStep, PTL DEF Spec

(* Types hold in every behaviour, under every fault. *)
THEOREM PulseTypeCorrect == Spec => []TypeOK
<1>1. PulseInv => TypeOK
  BY KnownIsTyped DEF PulseInv
<1> QED BY <1>1, Invariance, PTL

(* A sync_jsonl_to_sqlite that is about to return left the cache with      *)
(* exactly the readable events of the ledger, under both markers, whatever *)
(* crashed, tore or lost before.                                           *)
THEOREM SyncIsCurrent == Spec => []SyncedCacheCurrent
<1>1. PulseInv => SyncedCacheCurrent
  BY DEF PulseInv, StageInv, SyncedCacheCurrent
<1> QED BY <1>1, Invariance, PTL

(* The step of a ledger: an append, or its replacement by a snapshot some  *)
(* export marked later than the ledger's own marker.                       *)
LEMMA ReplaceStep ==
  ASSUME PulseInv, NEW a \in Agent, Command(a), NEW l \in Ledger
  PROVE  \/ IsPrefix(ledger[l], ledger'[l])
         \/ \E m \in exported : /\ m.hash = ledger'[l]
                                /\ side[l] # NoMeta /\ m.updated > side[l].updated
<1>0. ledger \in [Ledger -> TextOf(recorded)] /\ Home[a] \in Ledger /\ StageInv(a) /\ Known(recorded)
  BY PulseConstants DEF PulseInv, KnownInv, Known
<1>1. ASSUME NEW E, NEW text \in TextOf(E) PROVE IsPrefix(text, text) /\ IsPrefix(<<>>, text)
  BY TextLines DEF IsPrefix
<1>2. CASE ledger'[l] = ledger[l]
  BY <1>0, <1>1, <1>2
<1>3. ASSUME NEW e \in Event, record_event(a, e) \/ RecordFails(a, e), l = Home[a]
      PROVE  IsPrefix(ledger[l], ledger'[l])
  <2>1. PICK c \in Torn(e) : ledger' = [ledger EXCEPT ![l] = Append(@, c)]
    BY <1>3 DEF record_event, RecordFails, Torn
  <2>2. ledger'[l] = Append(ledger[l], c)
    BY <1>0, <2>1
  <2> DEFINE s == ledger[l]
             t == Append(s, c)
  <2>3. s \in Seq([event: recorded, whole: BOOLEAN, newline: BOOLEAN]) /\ Len(s) \in Nat
    BY <1>0, TextLines DEF TextOf
  <2>4. Len(t) = Len(s) + 1 /\ \A i \in 1..Len(s) : t[i] = s[i]
    BY <2>3
  <2>5. SubSeq(s, 1, Len(s)) = SubSeq(t, 1, Len(s))
    <3> HIDE DEF s, t
    <3> QED BY <2>3, <2>4
  <2> QED BY <2>2, <2>3, <2>4, <2>5 DEF IsPrefix
<1>4. CASE atomic_import_valid_jsonl(a) /\ l = Home[a] /\ ledger'[l] # ledger[l]
  <2>1. ledger'[l] = out.text /\ out.text = held[a].hash /\ pc[a] = "accepted"
    BY <1>0, <1>4 DEF atomic_import_valid_jsonl, UnchangedSource
  <2>2. out.text \in TextOf(recorded)
    BY <1>0, <2>1 DEF StageInv, Known
  <2>3. CASE side[l] = NoMeta /\ ledger[l] = <<>>
    BY <1>1, <2>1, <2>2, <2>3
  <2>4. CASE side[l] # NoMeta /\ MarkedSince(held[a].hash, side[l].updated + 1)
    <3>1. PICK m \in exported : m.hash = held[a].hash /\ m.updated >= side[l].updated + 1
      BY <2>4 DEF MarkedSince
    <3>2. m.updated \in Nat /\ side[l].updated \in Nat
      BY <1>0, <2>4 DEF Known, MetaOf
    <3> QED BY <2>1, <2>4, <3>1, <3>2
  <2> QED BY <1>0, <1>4, <2>1, <2>3, <2>4 DEF StageInv
<1> QED BY <1>2, <1>3, <1>4, OtherLedgers DEF Command, SyncCache, SyncSidecar, SyncReturn,
     atomic_export_sqlite_jsonl, ExportScan, ExportMarker, ImportScan, ImportVerify,
     CommandFails, Crash

(* No import takes a ledger back: ensure_import_not_older, over the whole  *)
(* verify-then-copy, for every interleaving with exports of other roots.   *)
THEOREM OnlyNewerReplaces == Spec => ReplacedOnlyByNewer
<1> DEFINE A == \A l \in Ledger :
       \/ IsPrefix(ledger[l], ledger'[l])
       \/ \E m \in exported : /\ m.hash = ledger'[l]
                              /\ side[l] # NoMeta /\ m.updated > side[l].updated
<1>1. PulseInv /\ [Next]_vars => [A]_ledger
  BY ReplaceStep DEF Next, LoseCache, DamageSnapshot, Tick, vars
<1> QED BY <1>1, Invariance, PTL DEF Spec, ReplacedOnlyByNewer

-----------------------------------------------------------------------------
(* Ledgers that no append tears.                                           *)

(* Acknowledged events are in the ledger, and only a ledger that grew past *)
(* its marker has some; what an import accepted is whole, and discards no  *)
(* event that is not under a marker.                                       *)
LedgerClean(l) ==
  /\ Whole(ledger[l])
  /\ fresh[l] \subseteq Events(ledger[l])
  /\ side[l] # NoMeta /\ side[l].hash = ledger[l] => fresh[l] = {}

ImportClean(a) ==
  /\ pc[a] \in {"verifying", "accepted"} => Whole(held[a].hash)
  /\ pc[a] = "accepted" => held[a].hash = ledger[Home[a]] \/ fresh[Home[a]] = {}

CleanInv ==
  /\ \A l \in Ledger : LedgerClean(l)
  /\ out # NoFile => Tidy(out.text)
  /\ \A a \in Agent : ImportClean(a)

LEMMA WholeEvents ==
  ASSUME NEW E, NEW text \in TextOf(E), Whole(text)
  PROVE  Events(text) = {text[i].event : i \in 1..Len(text)}
  BY WholeIsRead, Zenon DEF Events

LEMMA WholeIsTidy == \A text : Whole(text) => Tidy(text)
  BY DEF Whole, Tidy

LEMMA CleanInit == Init => CleanInv
<1> SUFFICES ASSUME Init PROVE CleanInv
  OBVIOUS
<1>1. Whole(<<>>)
  BY DEF Whole
<1>2. \A l \in Ledger : LedgerClean(l)
  BY <1>1 DEF Init, LedgerClean
<1> QED BY <1>2 DEF Init, CleanInv, ImportClean

(* record_event appends a whole line that no marker covers. *)
LEMMA CleanRecord ==
  ASSUME PulseInv, CleanInv, NEW a \in Agent, NEW e \in Event, record_event(a, e)
  PROVE  LedgerClean(Home[a])'
<1> DEFINE l == Home[a]
           s == ledger[l]
           t == Append(s, Appended(e))
           R == recorded \cup {e}
<1>0. /\ l \in Ledger /\ LedgerClean(l) /\ e \notin recorded
      /\ s \in TextOf(recorded) /\ ledger'[l] = t /\ fresh'[l] = fresh[l] \cup {e} /\ side' = side
  BY PulseConstants DEF PulseInv, CleanInv, KnownInv, Known, record_event
<1>1. s \in TextOf(R)
  BY <1>0, TextGrows
<1>2. Appended(e) \in [event: R, whole: BOOLEAN, newline: BOOLEAN]
  BY DEF Appended
<1>3. /\ t \in TextOf(R) /\ Len(t) = Len(s) + 1 /\ Len(s) \in Nat
      /\ \A i \in 1..Len(s) : t[i] = s[i]
      /\ t[Len(s) + 1] = Appended(e)
  <2> HIDE DEF R
  <2> QED BY <1>1, <1>2, AppendLine, TextLines
<1> HIDE DEF s, t, R
<1>4. Appended(e).whole = TRUE /\ Appended(e).newline = TRUE /\ Appended(e).event = e
  BY DEF Appended
<1>5. Whole(t)
  BY <1>0, <1>3, <1>4 DEF LedgerClean, Whole, s
<1>6. Events(t) = {t[i].event : i \in 1..Len(t)}
  BY <1>3, <1>5, WholeEvents
<1>7. Events(s) = {s[i].event : i \in 1..Len(s)}
  BY <1>0, WholeEvents DEF LedgerClean, s
<1>8. fresh'[l] \subseteq Events(t)
  <2>1. ASSUME NEW x \in fresh[l] PROVE x \in Events(t)
    <3>1. PICK i \in 1..Len(s) : x = s[i].event
      BY <1>0, <1>7, <2>1 DEF LedgerClean, s
    <3>2. i \in 1..Len(t) /\ t[i] = s[i]
      BY <1>3
    <3> QED BY <1>6, <3>1, <3>2
  <2>2. e \in Events(t)
    <3>1. Len(s) + 1 \in 1..Len(t) /\ t[Len(s) + 1].event = e
      BY <1>3, <1>4
    <3> QED BY <1>6, <3>1
  <2> QED BY <1>0, <2>1, <2>2
<1>9. ~(side[l] # NoMeta /\ side[l].hash = t)
  <2> SUFFICES ASSUME side[l] # NoMeta, side[l].hash = t PROVE FALSE
    OBVIOUS
  <2>1. t \in TextOf(recorded)
    BY <1>0 DEF PulseInv, KnownInv, Known, MetaOf
  <2>2. t[Len(s) + 1].event \in recorded
    BY <1>3, <2>1, TextLines
  <2> QED BY <1>0, <1>3, <1>4, <2>2
<1> QED BY <1>0, <1>5, <1>8, <1>9 DEF LedgerClean

LEMMA CleanOther ==
  ASSUME PulseInv, CleanInv, NEW a \in Agent, Command(a)
  PROVE  /\ \A l \in Ledger : l # Home[a] => LedgerClean(l)'
         /\ \A b \in Agent : b # a => ImportClean(b)'
<1>1. ASSUME NEW l \in Ledger, l # Home[a] PROVE LedgerClean(l)'
  BY <1>1, OtherLedgers DEF CleanInv, LedgerClean
<1>2. ASSUME NEW b \in Agent, b # a PROVE ImportClean(b)'
  <2>0. pc'[b] = pc[b] /\ held'[b] = held[b] /\ (Home[b] = Home[a] => ~Locked(b)) /\ Home[b] \in Ledger
        /\ ImportClean(b)
    BY <1>2, OtherAgents, PulseConstants DEF CleanInv
  <2>1. CASE Home[b] = Home[a]
    BY <2>0, <2>1 DEF ImportClean, Locked
  <2>2. CASE Home[b] # Home[a]
    BY <2>0, <2>2, OtherLedgers DEF ImportClean
  <2> QED BY <2>1, <2>2
<1> QED BY <1>1, <1>2

LEMMA CleanOwn ==
  ASSUME PulseInv, CleanInv, "torn" \notin Faults, NEW a \in Agent, Command(a)
  PROVE  LedgerClean(Home[a])' /\ ImportClean(a)' /\ (out' # NoFile => Tidy(out.text)')
<1> DEFINE l == Home[a]
<1>0. /\ l \in Ledger /\ Known(recorded) /\ StageInv(a) /\ LedgerClean(l) /\ ImportClean(a)
      /\ out # NoFile => Tidy(out.text)
      /\ ledger \in [Ledger -> TextOf(recorded)]
      /\ pc \in [Agent -> {"idle", "cached", "synced", "written", "scanned",
                       "verifying", "accepted", "copied"}]
      /\ held \in [Agent -> {NoHeld} \cup MetaOf(recorded)]
      /\ side \in [Ledger -> {NoMeta} \cup MetaOf(recorded)]
      /\ fresh \in [Ledger -> SUBSET Event]
  BY PulseConstants DEF PulseInv, KnownInv, Known, CleanInv
<1>a. ASSUME UNCHANGED <<ledger, side, fresh>> PROVE LedgerClean(l)'
  BY <1>0, <1>a DEF LedgerClean
<1>b. ASSUME pc'[a] \notin {"verifying", "accepted"} PROVE ImportClean(a)'
  BY <1>b DEF ImportClean
<1>c. ASSUME UNCHANGED out PROVE out' # NoFile => Tidy(out.text)'
  BY <1>0, <1>c
<1>1. ASSUME NEW e \in Event, record_event(a, e)
      PROVE  LedgerClean(l)' /\ ImportClean(a)' /\ UNCHANGED out
  BY <1>1, <1>b, CleanRecord DEF record_event
<1>2. ASSUME NEW kind \in {"sync", "export", "import"}, SyncCache(a, kind)
      PROVE  LedgerClean(l)' /\ ImportClean(a)' /\ UNCHANGED out
  BY <1>0, <1>2, <1>a, <1>b DEF SyncCache
<1>3. CASE SyncSidecar(a)
  <2>1. ledger' = ledger /\ fresh'[l] = {} /\ pc'[a] = "synced" /\ out' = out
    BY <1>0, <1>3 DEF SyncSidecar
  <2>2. LedgerClean(l)'
    BY <1>0, <2>1 DEF LedgerClean
  <2> QED BY <1>b, <1>c, <2>1, <2>2
<1>4. CASE SyncReturn(a) \/ CommandFails(a) \/ Crash(a) \/ ExportMarker(a)
  BY <1>0, <1>4, <1>a, <1>b, <1>c DEF SyncReturn, CommandFails, Crash, ExportMarker, Return
<1>5. CASE atomic_export_sqlite_jsonl(a)
  <2>1. cache[l].rows \in Seq(recorded)
    BY <1>0, <1>5 DEF atomic_export_sqlite_jsonl, StageInv, Known
  <2>2. Tidy(out.text)'
    BY <1>5, <2>1, AsTextIsWhole, WholeIsTidy DEF atomic_export_sqlite_jsonl
  <2>3. UNCHANGED <<ledger, side, fresh>> /\ pc'[a] = "written"
    BY <1>0, <1>5 DEF atomic_export_sqlite_jsonl
  <2> QED BY <1>a, <1>b, <2>2, <2>3
<1>6. CASE ExportScan(a)
  BY <1>0, <1>6, <1>a, <1>b, <1>c DEF ExportScan
<1>7. CASE ImportScan(a)
  <2>1. out.text \in TextOf(recorded) /\ ~Skipped(out.text) /\ Tidy(out.text)
    BY <1>0, <1>7 DEF ImportScan, Known
  <2>2. Whole(out.text)
    BY <2>1, UncutIsWhole
  <2>3. pc'[a] = "verifying" /\ held'[a].hash = out.text
    BY <1>0, <1>7 DEF ImportScan
  <2>4. ImportClean(a)'
    BY <2>2, <2>3 DEF ImportClean
  <2>5. UNCHANGED <<ledger, side, fresh>> /\ UNCHANGED out
    BY <1>7 DEF ImportScan
  <2> QED BY <1>a, <1>c, <2>4, <2>5
<1>8. CASE ImportVerify(a)
  <2>1. UNCHANGED <<ledger, side, fresh>> /\ UNCHANGED out
    BY <1>8 DEF ImportVerify
  <2>2. ImportClean(a)'
    <3>1. CASE Return(a)
      BY <1>0, <1>b, <3>1 DEF Return
    <3>2. CASE ~Return(a)
      <4>1. /\ pc'[a] = "accepted" /\ pc[a] = "verifying" /\ held' = held
            /\ ensure_import_not_older(held[a].hash, outMeta, l)
        BY <1>0, <1>8, <3>2 DEF ImportVerify
      <4>2. ~Skipped(ledger[l])
        BY <1>0, WholeIsRead DEF LedgerClean
      <4>3. held[a].hash = ledger[l] \/ ledger[l] = <<>> \/ meta_matches_scan(side[l], ledger[l])
        BY <4>1, <4>2 DEF ensure_import_not_older
      <4>4. ASSUME ledger[l] = <<>> PROVE fresh[l] = {}
        <5>1. Events(<<>>) = {}
          BY DEF Events, Parsed
        <5> QED BY <1>0, <4>4, <5>1 DEF LedgerClean
      <4>5. ASSUME meta_matches_scan(side[l], ledger[l]) PROVE fresh[l] = {}
        BY <1>0, <4>5 DEF LedgerClean, meta_matches_scan
      <4> QED BY <1>0, <2>1, <4>1, <4>3, <4>4, <4>5 DEF ImportClean
    <3> QED BY <3>1, <3>2
  <2> QED BY <1>a, <1>c, <2>1, <2>2
<1>9. CASE atomic_import_valid_jsonl(a)
  <2>1. UNCHANGED <<side, fresh, out>> /\ pc'[a] \in {"idle", "copied"} /\ pc[a] = "accepted"
    BY <1>0, <1>9 DEF atomic_import_valid_jsonl, Return
  <2>2. CASE ledger' = ledger
    BY <1>a, <1>b, <1>c, <2>1, <2>2
  <2>3. CASE ledger' # ledger
    <3>1. ledger'[l] = held[a].hash
      BY <1>0, <1>9, <2>3 DEF atomic_import_valid_jsonl, UnchangedSource
    <3>2. CASE held[a].hash = ledger[l]
      BY <1>0, <1>b, <1>c, <2>1, <3>1, <3>2 DEF LedgerClean
    <3>3. CASE fresh[l] = {}
      <4>1. Whole(ledger'[l])
        BY <1>0, <2>1, <3>1 DEF ImportClean
      <4>2. LedgerClean(l)'
        BY <2>1, <3>3, <4>1 DEF LedgerClean
      <4> QED BY <1>b, <1>c, <2>1, <4>2
    <3> QED BY <1>0, <2>1, <3>2, <3>3 DEF ImportClean
  <2> QED BY <2>2, <2>3
<1>10. ASSUME NEW e \in Event PROVE ~RecordFails(a, e)
  BY DEF RecordFails
<1> QED BY <1>1, <1>2, <1>3, <1>4, <1>5, <1>6, <1>7, <1>8, <1>9, <1>10, <1>c DEF Command

LEMMA CleanStep ==
  ASSUME PulseInv, CleanInv, "torn" \notin Faults, [Next]_vars
  PROVE  CleanInv'
<1>1. ASSUME NEW a \in Agent, Command(a) PROVE CleanInv'
  BY <1>1, CleanOther, CleanOwn DEF CleanInv
<1>2. ASSUME UNCHANGED <<ledger, side, fresh, pc, held>>
      PROVE  (\A l \in Ledger : LedgerClean(l)') /\ (\A a \in Agent : ImportClean(a)')
  BY <1>2 DEF CleanInv, LedgerClean, ImportClean
<1>3. CASE DamageSnapshot
  <2>1. out.text \in TextOf(recorded) /\ out.text # <<>> /\ Tidy(out.text)
    BY <1>3 DEF DamageSnapshot, PulseInv, KnownInv, Known, CleanInv
  <2>2. Tidy(out.text)'
    BY <1>3, <2>1, CutLast DEF DamageSnapshot
  <2> QED BY <1>2, <1>3, <2>2 DEF DamageSnapshot, CleanInv
<1>4. CASE (\E l \in Ledger : LoseCache(l)) \/ Tick \/ UNCHANGED vars
  <2>1. UNCHANGED <<ledger, side, fresh, pc, held>> /\ UNCHANGED out
    BY <1>4 DEF LoseCache, Tick, vars
  <2> QED BY <1>2, <2>1 DEF CleanInv
<1> QED BY <1>1, <1>3, <1>4 DEF Next

LEMMA CleanInvariance ==
  ASSUME "torn" \notin Faults
  PROVE  Spec => [](PulseInv /\ CleanInv)
  BY InitHolds, CleanInit, PulseStep, CleanStep, PTL DEF Spec

(* Unless an append is torn (the case the torn run refutes), every event   *)
(* record_event acknowledged is read from the ledger until a sync puts it  *)
(* under a marker, whatever is imported meanwhile.                         *)
THEOREM EventsReadable ==
  ASSUME "torn" \notin Faults
  PROVE  Spec => []RecordedEventsReadable
<1>1. PulseInv /\ CleanInv => RecordedEventsReadable
  BY DEF CleanInv, LedgerClean, RecordedEventsReadable
<1> QED BY <1>1, CleanInvariance, PTL

(* No corrupt line reaches a ledger through an import, however often the   *)
(* snapshot is cut between import_jsonl's verification and its copy.       *)
THEOREM ImportsStayReadable == Spec => []ImportsReadable
<1>1. CASE "torn" \in Faults
  <2>1. ImportsReadable
    BY <1>1 DEF ImportsReadable
  <2> QED BY <2>1, PTL
<1>2. CASE "torn" \notin Faults
  <2>1. PulseInv /\ CleanInv => ImportsReadable
    <3> SUFFICES ASSUME PulseInv, CleanInv, NEW l \in Ledger PROVE ~Skipped(ledger[l])
      BY DEF ImportsReadable
    <3>1. ledger[l] \in TextOf(recorded) /\ Whole(ledger[l])
      BY DEF PulseInv, KnownInv, Known, CleanInv, LedgerClean
    <3> QED BY <3>1, WholeIsRead
  <2> QED BY <1>2, <2>1, CleanInvariance, PTL
<1> QED BY <1>1, <1>2

-----------------------------------------------------------------------------
(* Why every call is counted once, of ToolMetrics: one lemma per action of *)
(* its threads, processes and sidecar.                                     *)

(* The sums of bags are bags.                                               *)
LEMMA BagOps ==
  ASSUME NEW a \in Bag, NEW b \in Bag, NEW call
  PROVE  None \in Bag /\ Plus(a, b) \in Bag /\ One(call) \in Bag
BY DEF Bag, None, Plus, One

(* One lemma per action: the invariant is kept.  Recording counts a call once, ... *)
LEMMA RecordSessionKeeps ==
  ASSUME MetricsConstants, MetricsInv, NEW t \in Thread, RecordSession(t)
  PROVE  MetricsInv'
<1> USE DEF MetricsInv, MetricsConstants, Thread
<1>1. MapsAreBags'
  BY BagOps DEF RecordSession, files, history, MapsAreBags, Bag, Steps, Goto, Flushed
<1>2. HolderMerges'
  BY <1>1 DEF RecordSession, files, history, MapsAreBags, Bag, Steps, HolderMerges, Goto, Flushed
<1>3. DeltasAreOwn'
  BY <1>1 DEF RecordSession, files, history, MapsAreBags, Bag, DeltasAreOwn
<1>4. CountedAtMostOnce'
  BY <1>1 DEF RecordSession, files, history, MapsAreBags, Bag, Steps, HolderMerges, DeltasAreOwn,
         CountedAtMostOnce, Counted, Hand, Begun, load_persisted, Goto, Flushed
<1>5. MergedIsSum'
  BY <1>1 DEF RecordSession, files, history, MapsAreBags, Bag, Steps, HolderMerges, DeltasAreOwn,
         CountedAtMostOnce, MergedIsSum, Counted, Hand, Begun, load_persisted, Goto, Flushed
<1>6. MirroredOnce'
  BY <1>1 DEF RecordSession, files, history, MapsAreBags, Bag, Steps, HolderMerges,
         CountedAtMostOnce, MergedIsSum, MirroredOnce, Counted, Hand, Begun, load_persisted, Goto,
         Flushed
<1> QED  BY <1>1, <1>2, <1>3, <1>4, <1>5, <1>6

LEMMA RecordMirrorKeeps ==
  ASSUME MetricsConstants, MetricsInv, NEW t \in Thread, RecordMirror(t)
  PROVE  MetricsInv'
<1> USE DEF MetricsInv, MetricsConstants, Thread
<1>1. MapsAreBags'
  BY BagOps DEF RecordMirror, files, history, Plus, One, MapsAreBags, Bag, Steps, Goto, Flushed
<1>2. HolderMerges'
  BY <1>1 DEF RecordMirror, files, history, Plus, One, MapsAreBags, Bag, Steps, HolderMerges,
         Goto, Flushed
<1>3. DeltasAreOwn'
  BY <1>1 DEF RecordMirror, files, history, Plus, One, MapsAreBags, Bag, DeltasAreOwn
<1>4. CountedAtMostOnce'
  BY <1>1 DEF RecordMirror, files, history, Plus, One, MapsAreBags, Bag, Steps, HolderMerges,
         DeltasAreOwn, CountedAtMostOnce, Counted, Hand, Begun, load_persisted, Goto, Flushed
<1>5. MergedIsSum'
  BY <1>1 DEF RecordMirror, files, history, Plus, One, MapsAreBags, Bag, Steps, HolderMerges,
         DeltasAreOwn, CountedAtMostOnce, MergedIsSum, Counted, Hand, Begun, load_persisted, Goto,
         Flushed
<1>6. MirroredOnce'
  BY <1>1 DEF RecordMirror, files, history, Plus, One, MapsAreBags, Bag, Steps, HolderMerges,
         CountedAtMostOnce, MergedIsSum, MirroredOnce, Counted, Hand, Begun, load_persisted, Goto,
         Flushed
<1> QED  BY <1>1, <1>2, <1>3, <1>4, <1>5, <1>6

LEMMA RecordDirtyKeeps ==
  ASSUME MetricsConstants, MetricsInv, NEW t \in Thread, RecordDirty(t)
  PROVE  MetricsInv'
<1> USE DEF MetricsInv, MetricsConstants, Thread
<1>1. MapsAreBags'
  BY BagOps DEF RecordDirty, files, history, Plus, One, MapsAreBags, Bag, Steps, Goto
<1>2. HolderMerges'
  BY <1>1 DEF RecordDirty, files, history, MapsAreBags, Bag, Steps, HolderMerges, Goto
<1>3. DeltasAreOwn'
  BY <1>1 DEF RecordDirty, files, history, Plus, One, MapsAreBags, Bag, DeltasAreOwn
<1>4. ASSUME NEW c \in Call
      PROVE  /\ Hand(c)' = Hand(c) /\ load_persisted'[c] = load_persisted[c]
             /\ Hand(c) \in Nat /\ load_persisted[c] \in Nat
             /\ dirty'[Of[c]][c] = dirty[Of[c]][c] + (IF c = t THEN 1 ELSE 0)
             /\ dirty[Of[c]][c] \in Nat /\ (c # t => at'[c] = at[c])
             /\ (c = t => ~Begun(c) /\ Begun(c)') /\ lost' = lost
  BY <1>4 DEF RecordDirty, files, history, Plus, One, MapsAreBags, Bag, Steps, Hand,
         load_persisted, None, Begun, Goto
<1>5. CountedAtMostOnce'
  BY <1>4 DEF CountedAtMostOnce, Counted, Begun
<1>6. MergedIsSum'
  BY <1>1 DEF RecordDirty, files, history, Plus, One, MapsAreBags, Bag, Steps, HolderMerges,
         DeltasAreOwn,
              CountedAtMostOnce, MergedIsSum, Counted, Hand, Begun, load_persisted, Goto
<1>7. MirroredOnce'
  BY <1>1 DEF RecordDirty, files, history, MapsAreBags, Bag, Steps, MirroredOnce, Goto
<1> QED  BY <1>1, <1>2, <1>3, <1>5, <1>6, <1>7

(* ... asking for a snapshot counts nothing, ...                            *)
LEMMA ViewKeeps ==
  ASSUME MetricsConstants, MetricsInv, NEW t \in Thread, View(t)
  PROVE  MetricsInv'
<1> USE DEF MetricsInv, MetricsConstants, Thread
<1>1. MapsAreBags'
  BY BagOps DEF View, files, maps, MapsAreBags, Bag, Steps, Goto, Flushed
<1>2. HolderMerges'
  BY <1>1 DEF View, files, maps, MapsAreBags, Bag, Steps, HolderMerges, Goto, Flushed
<1>3. DeltasAreOwn'
  BY <1>1 DEF View, files, maps, MapsAreBags, Bag, DeltasAreOwn
<1>4. CountedAtMostOnce'
  BY <1>1 DEF View, files, maps, MapsAreBags, Bag, Steps, HolderMerges, DeltasAreOwn,
         CountedAtMostOnce, Counted, Hand, Begun, load_persisted, Goto, Flushed
<1>5. MergedIsSum'
  BY <1>1 DEF View, files, maps, MapsAreBags, Bag, Steps, HolderMerges, DeltasAreOwn,
         CountedAtMostOnce, MergedIsSum, Counted, Hand, Begun, load_persisted, Goto, Flushed
<1>6. MirroredOnce'
  BY <1>1 DEF View, files, maps, MapsAreBags, Bag, Steps, HolderMerges, CountedAtMostOnce,
         MergedIsSum, MirroredOnce, Counted, Hand, Begun, load_persisted, Goto, Flushed
<1> QED  BY <1>1, <1>2, <1>3, <1>4, <1>5, <1>6

(* ... the flock changes hands with empty hands, ...                        *)
LEMMA AcquireKeeps ==
  ASSUME MetricsConstants, MetricsInv, NEW t \in Thread, acquire(t)
  PROVE  MetricsInv'
<1> USE DEF MetricsInv, MetricsConstants, Thread
<1>a. /\ at[t] = "flush" /\ flock # t /\ taken[t] = None
      /\ UNCHANGED <<sidecar, readable, session, mirror, dirty, taken, merged, lost>>
  BY DEF acquire, maps, HolderMerges
<1>b. \/ flock = NoOne /\ flock' = t /\ at' = [at EXCEPT ![t] = "take"]
      \/ flock' = flock /\ \E s \in {"read", "exit", "done"} : at' = [at EXCEPT ![t] = s]
  BY DEF acquire, Goto, Flushed
<1>1. MapsAreBags'
  BY <1>a, <1>b DEF MapsAreBags, Steps
<1>2. HolderMerges'
  BY <1>a, <1>b DEF MapsAreBags, HolderMerges
<1>3. DeltasAreOwn'
  BY <1>a DEF DeltasAreOwn
<1>4. ASSUME NEW c \in Call
      PROVE  /\ Hand(c)' = Hand(c) /\ load_persisted' = load_persisted
             /\ dirty'[Of[c]][c] = dirty[Of[c]][c] /\ (Begun(c)' <=> Begun(c))
  BY <1>a, <1>b, <1>4 DEF MapsAreBags, Hand, None, load_persisted, Begun
<1>5. CountedAtMostOnce'
  BY <1>a, <1>4 DEF CountedAtMostOnce, Counted
<1>6. ASSUME NEW u \in Thread, NEW c \in Call, at'[u] \in {"publish", "write"}
      PROVE  at[u] \in {"publish", "write"}
  BY <1>b, <1>6 DEF MapsAreBags
<1>7. MergedIsSum'
  BY <1>a, <1>4, <1>6 DEF MergedIsSum
<1>8. MirroredOnce'
  BY <1>a, <1>b DEF MapsAreBags, MirroredOnce
<1> QED  BY <1>1, <1>2, <1>3, <1>5, <1>7, <1>8

(* ... a flush moves the deltas into the hands of the holder, ...           *)
LEMMA TakeDirtyKeeps ==
  ASSUME MetricsConstants, MetricsInv, NEW t \in Thread, TakeDirty(t)
  PROVE  MetricsInv'
<1> USE DEF MetricsInv, MetricsConstants, Thread
<1>a. /\ at[t] = "take" /\ flock = t /\ flock # NoOne /\ taken[t] = None
      /\ UNCHANGED <<sidecar, readable, mirror, merged, lost>>
  BY DEF TakeDirty, history, HolderMerges
<1>b. CASE dirty[Of[t]] = None
  <2>1. /\ flock' = NoOne /\ UNCHANGED <<dirty, taken>>
        /\ \E s \in {"read", "exit", "done"} : at' = [at EXCEPT ![t] = s]
    BY <1>b DEF TakeDirty, Goto, Flushed
  <2>2. MapsAreBags'
    BY <1>a, <2>1 DEF MapsAreBags, Steps
  <2>3. HolderMerges' /\ DeltasAreOwn'
    BY <1>a, <2>1 DEF MapsAreBags, HolderMerges, DeltasAreOwn
  <2>4. ASSUME NEW c \in Call
        PROVE  /\ Hand(c)' = Hand(c) /\ load_persisted' = load_persisted /\ (Begun(c)' <=> Begun(c))
    BY <1>a, <2>1, <2>4 DEF MapsAreBags, Hand, None, load_persisted, Begun
  <2>5. CountedAtMostOnce'
    BY <1>a, <2>1, <2>4 DEF CountedAtMostOnce, Counted
  <2>6. MergedIsSum' /\ MirroredOnce'
    BY <1>a, <2>1, <2>4 DEF MapsAreBags, MergedIsSum, MirroredOnce
  <2> QED  BY <2>2, <2>3, <2>5, <2>6
<1>c. CASE dirty[Of[t]] # None
  <2>1. /\ taken' = [taken EXCEPT ![t] = dirty[Of[t]]] /\ dirty' = [dirty EXCEPT ![Of[t]] = None]
        /\ at' = [at EXCEPT ![t] = "load"] /\ flock' = flock
    BY <1>c DEF TakeDirty, Goto
  <2>2. MapsAreBags'
    BY <1>a, <2>1 DEF MapsAreBags, Steps, Bag, None
  <2>3. HolderMerges'
    BY <1>a, <2>1 DEF MapsAreBags, HolderMerges
  <2>4. DeltasAreOwn'
    BY <1>a, <2>1 DEF MapsAreBags, Bag, None, DeltasAreOwn
  <2>5. ASSUME NEW c \in Call
        PROVE  /\ Hand(c) = 0 /\ Hand(c)' = dirty[Of[t]][c] /\ (Begun(c)' <=> Begun(c))
               /\ dirty'[Of[c]][c] = IF Of[c] = Of[t] THEN 0 ELSE dirty[Of[c]][c]
               /\ Of[c] # Of[t] => dirty[Of[t]][c] = 0
               /\ dirty[Of[c]][c] \in Nat /\ load_persisted[c] \in Nat
    BY <1>a, <2>1, <2>5 DEF MapsAreBags, Bag, Hand, None, load_persisted, Begun, DeltasAreOwn
  <2>6. load_persisted' = load_persisted
    BY <1>a DEF load_persisted
  <2>7. CountedAtMostOnce'
    BY <1>a, <2>5, <2>6 DEF CountedAtMostOnce, Counted
  <2>8. \A u \in Thread : at'[u] \notin {"publish", "write"}
    BY <1>a, <2>1 DEF MapsAreBags, HolderMerges
  <2>9. MergedIsSum' /\ MirroredOnce'
    BY <1>a, <2>1, <2>8 DEF MapsAreBags, MergedIsSum, MirroredOnce
  <2> QED  BY <2>2, <2>3, <2>4, <2>7, <2>9
<1> QED  BY <1>b, <1>c

(* ... merges them with what the sidecar counts, ...                        *)
LEMMA LoadMergeKeeps ==
  ASSUME MetricsConstants, MetricsInv, NEW t \in Thread, LoadMerge(t)
  PROVE  MetricsInv'
<1> USE DEF MetricsInv, MetricsConstants, Thread
<1>0. load_persisted \in Bag /\ Plus(load_persisted, taken[t]) \in Bag
  BY BagOps DEF MapsAreBags, load_persisted, Thread
<1>1. MapsAreBags'
  BY <1>0 DEF LoadMerge, Base, files, maps, history, Plus, None, MapsAreBags, Bag, Steps, Goto,
         Flushed
<1>2. HolderMerges'
  BY <1>1 DEF LoadMerge, Base, files, maps, history, Plus, None, MapsAreBags, Bag, Steps,
         HolderMerges, Goto, Flushed
<1>3. DeltasAreOwn'
  BY <1>1 DEF LoadMerge, Base, files, maps, history, Plus, None, MapsAreBags, Bag, DeltasAreOwn
<1>4. CountedAtMostOnce'
  BY <1>1 DEF LoadMerge, Base, files, maps, history, Plus, None, MapsAreBags, Bag, Steps,
         HolderMerges, DeltasAreOwn, CountedAtMostOnce, Counted, Hand, Begun, load_persisted,
         Goto, Flushed
<1>5. MergedIsSum'
  BY <1>1 DEF LoadMerge, Base, files, maps, history, Plus, None, MapsAreBags, Bag, Steps,
         HolderMerges, DeltasAreOwn, CountedAtMostOnce, MergedIsSum, Counted, Hand, Begun,
         load_persisted, Goto, Flushed
<1>6. MirroredOnce'
  BY <1>1 DEF LoadMerge, Base, files, maps, history, Plus, None, MapsAreBags, Bag, Steps,
         HolderMerges, CountedAtMostOnce, MergedIsSum, MirroredOnce, Counted, Hand, Begun,
         load_persisted, Goto, Flushed
<1> QED  BY <1>1, <1>2, <1>3, <1>4, <1>5, <1>6

LEMMA PublishMirrorKeeps ==
  ASSUME MetricsConstants, MetricsInv, NEW t \in Thread, PublishMirror(t)
  PROVE  MetricsInv'
<1> USE DEF MetricsInv, MetricsConstants, Thread
<1>1. MapsAreBags'
  BY BagOps DEF PublishMirror, files, history, MapsAreBags, Bag, Steps, Goto, Flushed
<1>2. HolderMerges'
  BY <1>1 DEF PublishMirror, files, history, MapsAreBags, Bag, Steps, HolderMerges, Goto, Flushed
<1>3. DeltasAreOwn'
  BY <1>1 DEF PublishMirror, files, history, MapsAreBags, Bag, DeltasAreOwn
<1>4. CountedAtMostOnce'
  BY <1>1 DEF PublishMirror, files, history, MapsAreBags, Bag, Steps, HolderMerges, DeltasAreOwn,
         CountedAtMostOnce, Counted, Hand, Begun, load_persisted, Goto, Flushed
<1>5. MergedIsSum'
  BY <1>1 DEF PublishMirror, files, history, MapsAreBags, Bag, Steps, HolderMerges, DeltasAreOwn,
         CountedAtMostOnce, MergedIsSum, Counted, Hand, Begun, load_persisted, Goto, Flushed
<1>6. MirroredOnce'
  BY <1>1 DEF PublishMirror, files, history, MapsAreBags, Bag, Steps, HolderMerges,
         CountedAtMostOnce, MergedIsSum, MirroredOnce, Counted, Hand, Begun, load_persisted, Goto,
         Flushed
<1> QED  BY <1>1, <1>2, <1>3, <1>4, <1>5, <1>6

(* ... and publishes the sum, or loses what it had taken, ...               *)
LEMMA WritePersistedKeeps ==
  ASSUME MetricsConstants, MetricsInv, NEW t \in Thread, write_persisted(t)
  PROVE  MetricsInv'
<1> USE DEF MetricsInv, MetricsConstants, Thread
<1>a. /\ at[t] = "write" /\ flock = t /\ flock # NoOne /\ flock' = NoOne
      /\ taken' = [taken EXCEPT ![t] = None] /\ UNCHANGED <<mirror, dirty, merged>>
      /\ \E s \in {"read", "exit", "done"} : at' = [at EXCEPT ![t] = s]
  BY DEF write_persisted, maps, HolderMerges, Goto, Flushed
<1>b. \/ sidecar' = merged[t] /\ readable' = TRUE /\ lost' = lost
      \/ lost' = lost \cup In(taken[t]) /\ UNCHANGED <<sidecar, readable>>
  BY DEF write_persisted
<1>0. None \in Bag
  BY BagOps DEF MapsAreBags
<1>1. MapsAreBags'
  BY <1>0, <1>a, <1>b, merged[t] \in Bag DEF MapsAreBags, Steps
<1>2. HolderMerges' /\ DeltasAreOwn'
  BY <1>a DEF MapsAreBags, HolderMerges, DeltasAreOwn
<1>3. ASSUME NEW c \in Call
      PROVE  /\ Hand(c)' = 0 /\ Hand(c) = taken[t][c] /\ (Begun(c)' <=> Begun(c))
             /\ taken[t][c] \in Nat /\ merged[t][c] \in Nat /\ load_persisted[c] \in Nat
             /\ dirty[Of[c]][c] \in Nat /\ dirty'[Of[c]][c] = dirty[Of[c]][c]
             /\ \/ load_persisted'[c] = merged[t][c] /\ lost' = lost
                \/ load_persisted'[c] = load_persisted[c] /\ (c \notin lost' => c \notin lost /\ taken[t][c] = 0)
  BY <1>a, <1>b, <1>3 DEF MapsAreBags, Bag, Hand, None, In, load_persisted, Begun
<1>4. ASSUME NEW c \in Call
      PROVE  /\ merged[t][c] + dirty[Of[c]][c] <= 1
             /\ ~Begun(c) => merged[t][c] = 0
             /\ c \notin lost => merged[t][c] = load_persisted[c] + taken[t][c]
  BY <1>a, <1>4 DEF MergedIsSum
<1>5. CountedAtMostOnce'
  <2> SUFFICES ASSUME NEW c \in Call
               PROVE  /\ Counted(c)' <= 1 /\ (~Begun(c)' => Counted(c)' = 0)
                      /\ Begun(c)' /\ c \notin lost' => Counted(c)' = 1
    BY DEF CountedAtMostOnce
  <2>1. /\ Counted(c) <= 1 /\ (~Begun(c) => Counted(c) = 0)
        /\ Begun(c) /\ c \notin lost => Counted(c) = 1
    BY DEF CountedAtMostOnce
  <2>2. CASE load_persisted'[c] = merged[t][c] /\ lost' = lost
    <3>1. Counted(c)' = merged[t][c] + dirty[Of[c]][c]
      BY <1>3, <2>2 DEF Counted
    <3>2. Begun(c) /\ c \notin lost => Counted(c)' = Counted(c)
      BY <1>3, <1>4, <3>1 DEF Counted
    <3>3. Counted(c)' <= 1
      BY <1>4, <3>1
    <3>4. ~Begun(c) => Counted(c)' = 0
      BY <1>3, <1>4, <2>1, <3>1 DEF Counted
    <3> QED  BY <1>3, <2>1, <2>2, <3>2, <3>3, <3>4
  <2>3. CASE load_persisted'[c] = load_persisted[c] /\ (c \notin lost' => c \notin lost /\ taken[t][c] = 0)
    BY <1>3, <2>1, <2>3 DEF Counted
  <2> QED  BY <1>3, <2>2, <2>3
<1>6. \A u \in Thread : at'[u] \notin {"publish", "write"}
  BY <1>a DEF MapsAreBags, HolderMerges
<1>7. MergedIsSum' /\ MirroredOnce'
  BY <1>a, <1>6 DEF MapsAreBags, MergedIsSum, MirroredOnce
<1> QED  BY <1>1, <1>2, <1>5, <1>7

(* ... a snapshot and an exit leave the sidecar alone, ...                  *)
LEMMA SnapshotKeeps ==
  ASSUME MetricsConstants, MetricsInv, NEW t \in Thread, Snapshot(t)
  PROVE  MetricsInv'
<1> USE DEF MetricsInv, MetricsConstants, Thread
<1>1. MapsAreBags'
  BY BagOps DEF Snapshot, files, maps, MapsAreBags, Bag, Steps, Goto, Flushed
<1>2. HolderMerges'
  BY <1>1 DEF Snapshot, files, maps, MapsAreBags, Bag, Steps, HolderMerges, Goto, Flushed
<1>3. DeltasAreOwn'
  BY <1>1 DEF Snapshot, files, maps, MapsAreBags, Bag, DeltasAreOwn
<1>4. CountedAtMostOnce'
  BY <1>1 DEF Snapshot, files, maps, MapsAreBags, Bag, Steps, HolderMerges, DeltasAreOwn,
         CountedAtMostOnce, Counted, Hand, Begun, load_persisted, Goto, Flushed
<1>5. MergedIsSum'
  BY <1>1 DEF Snapshot, files, maps, MapsAreBags, Bag, Steps, HolderMerges, DeltasAreOwn,
         CountedAtMostOnce, MergedIsSum, Counted, Hand, Begun, load_persisted, Goto, Flushed
<1>6. MirroredOnce'
  BY <1>1 DEF Snapshot, files, maps, MapsAreBags, Bag, Steps, HolderMerges, CountedAtMostOnce,
         MergedIsSum, MirroredOnce, Counted, Hand, Begun, load_persisted, Goto, Flushed
<1> QED  BY <1>1, <1>2, <1>3, <1>4, <1>5, <1>6

LEMMA ExitKeeps ==
  ASSUME MetricsConstants, MetricsInv, NEW t \in Thread, Exit(t)
  PROVE  MetricsInv'
<1> USE DEF MetricsInv, MetricsConstants, Thread
<1>0. load_persisted \in Bag /\ None \in Bag
  BY BagOps DEF MapsAreBags, load_persisted
<1>1. MapsAreBags'
  BY <1>0 DEF Exit, Restarted, files, In, None, MapsAreBags, Bag, Steps, Goto, Flushed
<1>2. HolderMerges'
  BY <1>1 DEF Exit, Restarted, files, In, None, MapsAreBags, Bag, Steps, HolderMerges, Goto,
     Flushed
<1>3. DeltasAreOwn'
  BY <1>1 DEF Exit, Restarted, files, In, None, MapsAreBags, Bag, DeltasAreOwn
<1>4. CountedAtMostOnce'
  BY <1>1 DEF Exit, Restarted, files, In, None, MapsAreBags, Bag, Steps, HolderMerges,
         DeltasAreOwn, CountedAtMostOnce, Counted, Hand, Begun, load_persisted, Goto, Flushed
<1>5. MergedIsSum'
  BY <1>1 DEF Exit, Restarted, files, In, None, MapsAreBags, Bag, Steps, HolderMerges,
         DeltasAreOwn, CountedAtMostOnce, MergedIsSum, Counted, Hand, Begun, load_persisted, Goto,
         Flushed
<1>6. MirroredOnce'
  BY <1>1 DEF Exit, Restarted, files, In, None, MapsAreBags, Bag, Steps, HolderMerges,
         CountedAtMostOnce, MergedIsSum, MirroredOnce, Counted, Hand, Begun, load_persisted, Goto,
         Flushed
<1> QED  BY <1>1, <1>2, <1>3, <1>4, <1>5, <1>6

(* ... a crash loses what its process had not merged, ...                   *)
LEMMA CrashKeeps ==
  ASSUME MetricsConstants, MetricsInv, NEW p \in Proc, ProcessDies(p)
  PROVE  MetricsInv'
<1> USE DEF MetricsInv, MetricsConstants, Thread
<1>a. /\ mirror' = [mirror EXCEPT ![p] = load_persisted] /\ dirty' = [dirty EXCEPT ![p] = None]
      /\ lost' = lost \cup In(dirty[p]) \cup Unmerged(p)
      /\ at' = [t \in Thread |-> IF Of[t] = p /\ Busy(t) THEN "done" ELSE at[t]]
      /\ taken' = [t \in Thread |-> IF Of[t] = p THEN None ELSE taken[t]]
      /\ flock' = IF flock \in Thread /\ Of[flock] = p THEN NoOne ELSE flock
      /\ UNCHANGED <<sidecar, readable, merged>>
  BY DEF ProcessDies, Restarted
<1>0. load_persisted \in Bag /\ None \in Bag
  BY BagOps DEF MapsAreBags, load_persisted
<1>1. MapsAreBags'
  BY <1>0, <1>a DEF MapsAreBags, Bag, Steps, Thread
<1>2. HolderMerges'
  BY <1>a DEF MapsAreBags, HolderMerges, Busy, Thread
<1>3. DeltasAreOwn'
  BY <1>a DEF MapsAreBags, Bag, None, DeltasAreOwn
<1>4. ASSUME NEW c \in Call, c \notin lost'
      PROVE  /\ c \notin lost /\ dirty[p][c] = 0
             /\ Of[c] = p => at[c] \notin {"mirror", "dirty"}
             /\ \A t \in Thread : Of[t] = p => taken[t][c] = 0
  BY <1>a, <1>4 DEF MapsAreBags, Bag, In, Unmerged
<1>5. ASSUME NEW c \in Call
      PROVE  /\ load_persisted' = load_persisted /\ load_persisted[c] \in Nat
             /\ dirty[Of[c]][c] \in Nat /\ Hand(c) \in Nat
             /\ dirty'[Of[c]][c] \in {0, dirty[Of[c]][c]} /\ Hand(c)' \in {0, Hand(c)}
             /\ c \notin lost' => dirty'[Of[c]][c] = dirty[Of[c]][c] /\ Hand(c)' = Hand(c)
  BY <1>0, <1>a, <1>4, <1>5 DEF MapsAreBags, Bag, Hand, None, load_persisted
<1>6. ASSUME NEW c \in Call
      PROVE  /\ Begun(c) => Begun(c)'
             /\ ~Begun(c) => ~Begun(c)' \/ c \in lost'
             /\ at'[c] \in {"idle", "mirror"} => at[c] = at'[c]
  BY <1>a, <1>4, <1>6 DEF MapsAreBags, Steps, Begun, Busy
<1>7. CountedAtMostOnce'
  <2> SUFFICES ASSUME NEW c \in Call
               PROVE  /\ Counted(c)' <= 1 /\ (~Begun(c)' => Counted(c)' = 0)
                      /\ Begun(c)' /\ c \notin lost' => Counted(c)' = 1
    BY DEF CountedAtMostOnce
  <2>1. /\ Counted(c) <= 1 /\ (~Begun(c) => Counted(c) = 0)
        /\ Begun(c) /\ c \notin lost => Counted(c) = 1
    BY DEF CountedAtMostOnce
  <2> QED  BY <1>4, <1>5, <1>6, <2>1, SMTT(30) DEF Counted
<1>8. MergedIsSum'
  <2> SUFFICES ASSUME NEW t \in Thread, NEW c \in Call, at'[t] \in {"publish", "write"}
               PROVE  /\ merged'[t][c] + dirty'[Of[c]][c] <= 1
                      /\ ~Begun(c)' => merged'[t][c] = 0
                      /\ c \notin lost' => merged'[t][c] = load_persisted'[c] + taken'[t][c]
    BY DEF MergedIsSum
  <2>1. /\ at[t] \in {"publish", "write"} /\ taken'[t] = taken[t] /\ merged'[t] = merged[t]
        /\ merged[t][c] \in Nat
    BY <1>a DEF MapsAreBags, Bag, Busy
  <2> QED  BY <1>4, <1>5, <1>6, <2>1 DEF MergedIsSum
<1>9. MirroredOnce'
  <2> SUFFICES ASSUME NEW c \in Call
               PROVE  /\ mirror'[Of[c]][c] <= 1
                      /\ at'[c] \in {"idle", "mirror"} => mirror'[Of[c]][c] = 0
    BY DEF MirroredOnce
  <2>1. mirror'[Of[c]] = IF Of[c] = p THEN load_persisted ELSE mirror[Of[c]]
    BY <1>a DEF MapsAreBags
  <2>2. load_persisted[c] <= 1 /\ (~Begun(c) => load_persisted[c] = 0)
    <3>1. Counted(c) <= 1 /\ (~Begun(c) => Counted(c) = 0)
      BY DEF CountedAtMostOnce
    <3>2. load_persisted[c] \in Nat /\ dirty[Of[c]][c] \in Nat /\ Hand(c) \in Nat
      BY <1>5
    <3> QED  BY <3>1, <3>2 DEF Counted
  <2> QED  BY <1>6, <2>1, <2>2 DEF MirroredOnce, Begun
<1> QED  BY <1>1, <1>2, <1>3, <1>7, <1>8, <1>9

(* ... and damage what the sidecar counted.                                 *)
LEMMA DamageKeeps ==
  ASSUME MetricsConstants, MetricsInv, Damage
  PROVE  MetricsInv'
<1> USE DEF MetricsInv, MetricsConstants, Thread
<1>a. /\ readable /\ readable' = FALSE /\ lost' = lost \cup In(sidecar)
      /\ UNCHANGED <<sidecar, flock, session, mirror, dirty, at, taken, merged>>
  BY DEF Damage, maps
<1>1. MapsAreBags' /\ HolderMerges' /\ DeltasAreOwn' /\ MirroredOnce'
  BY <1>a DEF MapsAreBags, HolderMerges, DeltasAreOwn, MirroredOnce
<1>2. ASSUME NEW c \in Call
      PROVE  /\ load_persisted[c] = sidecar[c] /\ load_persisted'[c] = 0 /\ sidecar[c] \in Nat
             /\ c \notin lost' => c \notin lost /\ sidecar[c] = 0
             /\ Hand(c)' = Hand(c) /\ Hand(c) \in Nat /\ (Begun(c)' <=> Begun(c))
             /\ dirty'[Of[c]][c] = dirty[Of[c]][c] /\ dirty[Of[c]][c] \in Nat
  BY <1>a, <1>2 DEF MapsAreBags, Bag, load_persisted, None, In, Hand, Begun
<1>3. CountedAtMostOnce'
  <2> SUFFICES ASSUME NEW c \in Call
               PROVE  /\ Counted(c)' <= 1 /\ (~Begun(c)' => Counted(c)' = 0)
                      /\ Begun(c)' /\ c \notin lost' => Counted(c)' = 1
    BY DEF CountedAtMostOnce
  <2>1. /\ Counted(c) <= 1 /\ (~Begun(c) => Counted(c) = 0)
        /\ Begun(c) /\ c \notin lost => Counted(c) = 1
    BY DEF CountedAtMostOnce
  <2> QED  BY <1>2, <2>1 DEF Counted
<1>4. MergedIsSum'
  BY <1>a, <1>2 DEF MergedIsSum
<1> QED  BY <1>1, <1>3, <1>4

(* The invariant is inductive, and holds at the start.                      *)
LEMMA MetricsInductive ==
  ASSUME MetricsConstants, MetricsInv, [MetricsNext]_metricsVars
  PROVE  MetricsInv'
<1>1. CASE \E t \in Thread : Step(t)
  BY <1>1, RecordSessionKeeps, RecordMirrorKeeps, RecordDirtyKeeps, ViewKeeps, AcquireKeeps,
         TakeDirtyKeeps,
     LoadMergeKeeps, PublishMirrorKeeps, WritePersistedKeeps, SnapshotKeeps, ExitKeeps DEF Step
<1>2. CASE \E p \in Proc : ProcessDies(p)
  BY <1>2, CrashKeeps
<1>3. CASE Damage
  BY <1>3, DamageKeeps
<1>4. CASE UNCHANGED metricsVars
  BY <1>4 DEF metricsVars, files, maps, history, MetricsInv, MapsAreBags, HolderMerges,
     DeltasAreOwn,
         CountedAtMostOnce,
              Counted, Hand, Begun, load_persisted, MergedIsSum, MirroredOnce
<1> QED  BY <1>1, <1>2, <1>3, <1>4 DEF MetricsNext

LEMMA MetricsStart ==
  ASSUME MetricsConstants, MetricsInit
  PROVE  MetricsInv
<1>1. MapsAreBags
  BY BagOps DEF MetricsInit, MapsAreBags, Bag, None, Steps, MetricsConstants
<1>2. HolderMerges /\ DeltasAreOwn
  BY DEF MetricsInit, HolderMerges, DeltasAreOwn, None, Thread, MetricsConstants
<1>3. CountedAtMostOnce /\ MergedIsSum /\ MirroredOnce
  BY DEF MetricsInit, CountedAtMostOnce, Counted, Hand, Begun, load_persisted, None, MergedIsSum,
         MirroredOnce,
         Thread, MetricsConstants
<1> QED  BY <1>1, <1>2, <1>3 DEF MetricsInv

(* What the invariant says of the threads that hold deltas. *)
LEMMA OneHand ==
  ASSUME MetricsConstants, MetricsInv, NEW c \in Call
  PROVE  Cardinality(InHand(c)) = Hand(c)
<1>0. load_persisted[c] \in Nat /\ dirty[Of[c]][c] \in Nat /\ Hand(c) \in Nat
  BY DEF MetricsInv, MapsAreBags, Bag, Hand, load_persisted, None, MetricsConstants, Thread
<1>1. Hand(c) \in {0, 1}
  <2>1. Counted(c) <= 1
    BY DEF MetricsInv, CountedAtMostOnce
  <2> QED  BY <1>0, <2>1 DEF Counted
<1>2. InHand(c) = IF Hand(c) = 0 THEN {} ELSE {flock}
  BY <1>1 DEF InHand, Hand, MetricsInv, MapsAreBags, Bag, HolderMerges, MetricsConstants, None
<1> QED  BY <1>1, <1>2, FS_EmptySet, FS_Singleton

(* Every call whose recording has ended is counted exactly once, in the    *)
(* sidecar or on the way there, whatever the processes and threads,        *)
(* crashes, failed writes and damage (metrics.rs, flush_persisted).        *)
THEOREM CallsAreCountedOnce == ASSUME MetricsConstants PROVE MetricsSpec => []CallsCountedOnce
<1>1. MetricsInit => MetricsInv
  BY MetricsStart
<1>2. MetricsInv /\ [MetricsNext]_metricsVars => MetricsInv'
  BY MetricsInductive
<1>3. MetricsInv => CallsCountedOnce
  BY OneHand DEF MetricsInv, CallsCountedOnce, CountedAtMostOnce, Counted, MirroredOnce, Begun
<1> QED  BY <1>1, <1>2, <1>3, PTL DEF MetricsSpec

-----------------------------------------------------------------------------
(* The process runtime: what run_command returns.                          *)

LEMMA RuntimeInvImplies == RuntimeInv => CompleteResultIsWhole /\ NoTreeLeft
<1> SUFFICES ASSUME RuntimeInv PROVE CompleteResultIsWhole /\ NoTreeLeft
  OBVIOUS
<1>1. ASSUME NEW c \in Commands PROVE result[c].timed_out \in BOOLEAN /\ result[c].io_grace_expired \in BOOLEAN
             /\ settled[c] \in BOOLEAN
  BY DEF RuntimeInv, RuntimeTypeOK
<1>2. CompleteResultIsWhole
  BY <1>1 DEF RuntimeInv, FateInv, CompleteResultIsWhole, Used, Pipe
<1>3. NoTreeLeft
  BY <1>1 DEF RuntimeInv, FateInv, NoTreeLeft
<1> QED BY <1>2, <1>3

LEMMA RuntimeInitInv == RuntimeInit => RuntimeInv
<1> SUFFICES ASSUME RuntimeInit PROVE RuntimeInv
  OBVIOUS
<1>1. RuntimeTypeOK
  BY DEF RuntimeInit, RuntimeTypeOK, NoResult
<1>2. QueueInv
  BY DEF RuntimeInit, QueueInv
<1>3. ASSUME NEW c \in Commands PROVE StagesInv(c) /\ FateInv(c)
  BY DEF RuntimeInit, StagesInv, FateInv, NoResult, Pipe
<1> QED BY <1>1, <1>2, <1>3 DEF RuntimeInv

(* A step of one command that leaves its jobs and the queue alone keeps    *)
(* the invariant once it keeps it for that command.                        *)
LEMMA OneCommand ==
  ASSUME RuntimeInv, NEW c \in Commands, RuntimeTypeOK', UNCHANGED <<queue, job>>,
         StagesInv(c)', FateInv(c)',
         \A d \in Commands \ {c} :
           /\ stage'[d] = stage[d] /\ child'[d] = child[d] /\ open'[d] = open[d]
           /\ forced'[d] = forced[d] /\ settled'[d] = settled[d] /\ result'[d] = result[d]
  PROVE  RuntimeInv'
<1>1. QueueInv'
  BY DEF RuntimeInv, QueueInv
<1>2. ASSUME NEW d \in Commands \ {c} PROVE StagesInv(d)' /\ FateInv(d)'
  BY DEF RuntimeInv, StagesInv, FateInv, Used
<1> QED BY <1>1, <1>2 DEF RuntimeInv

(* spawn_io_worker and the pool move jobs; every other step keeps what is  *)
(* queued queued.                                                          *)
LEMMA SubmitStep ==
  ASSUME RuntimeInv, NEW c \in Commands, spawn_io_worker(c)
  PROVE  RuntimeInv'
<1> DEFINE k == stage[c]
<1>1. /\ k \in Pipe /\ job[c][k] = "none"
      /\ queue' = Append(queue, <<c, k>>) /\ job' = [job EXCEPT ![c][k] = "queued"]
      /\ UNCHANGED <<child, open, need, forced, settled, late, result>>
  BY DEF spawn_io_worker, Submitted, RuntimeInv, StagesInv, Pipe
<1>2. /\ queue \in Seq(Commands \X Pipe) /\ Len(queue') = Len(queue) + 1
      /\ queue'[Len(queue) + 1] = <<c, k>>
      /\ \A i \in 1..Len(queue) : queue'[i] = queue[i] /\ queue[i] \in Commands \X Pipe
  BY <1>1 DEF RuntimeInv, RuntimeTypeOK
<1>3. stage' = [stage EXCEPT ![c] = NextStage(c)[k]]
      /\ NextStage(c)[k] \in {"stderr", "stdin", "waiting"}
      /\ (k = "stdout" => NextStage(c)[k] = "stderr")
      /\ (k = "stderr" => NextStage(c)[k] \in {"stdin", "waiting"})
      /\ (k = "stdin" => NextStage(c)[k] = "waiting")
  BY <1>1 DEF spawn_io_worker, NextStage, Pipe
<1>4. RuntimeTypeOK'
  BY <1>1, <1>3 DEF RuntimeInv, RuntimeTypeOK, Pipe
<1>5. QueueInv'
  <2>1. ASSUME NEW i \in 1..Len(queue)
        PROVE  /\ queue[i] # <<c, k>>
               /\ job'[queue[i][1]][queue[i][2]] = "queued"
    <3>1. job[queue[i][1]][queue[i][2]] = "queued"
      BY DEF RuntimeInv, QueueInv
    <3>2. queue[i] # <<c, k>>
      BY <1>1, <3>1
    <3> QED BY <1>1, <1>2, <3>1, <3>2 DEF RuntimeInv, RuntimeTypeOK
  <2>2. job'[c][k] = "queued"
    BY <1>1 DEF RuntimeInv, RuntimeTypeOK
  <2>3. \A i \in 1..Len(queue') : job'[queue'[i][1]][queue'[i][2]] = "queued"
    BY <1>2, <2>1, <2>2
  <2>4. \A i, j \in 1..Len(queue') : i # j => queue'[i] # queue'[j]
    BY <1>2, <2>1 DEF RuntimeInv, QueueInv
  <2> QED BY <2>3, <2>4 DEF QueueInv
<1>6. ASSUME NEW d \in Commands PROVE StagesInv(d)' /\ FateInv(d)'
  <2>1. StagesInv(d)'
    BY <1>1, <1>3 DEF RuntimeInv, StagesInv, RuntimeTypeOK, Pipe
  <2>2. FateInv(d)'
    <3>1. result[c].kind = "none"
      BY <1>1 DEF RuntimeInv, StagesInv, Pipe
    <3> QED BY <1>1, <3>1 DEF RuntimeInv, FateInv, RuntimeTypeOK, Pipe, Used
  <2> QED BY <2>1, <2>2
<1> QED BY <1>4, <1>5, <1>6 DEF RuntimeInv

LEMMA PoolStep ==
  ASSUME RuntimeInv, io_pool_worker
  PROVE  RuntimeInv'
<1> DEFINE x == Head(queue)
           n == Len(queue)
<1>1. /\ queue \in Seq(Commands \X Pipe) /\ n \in Nat \ {0} /\ x = queue[1]
      /\ queue' = Tail(queue) /\ job' = [job EXCEPT ![x[1]][x[2]] = "running"]
      /\ UNCHANGED <<stage, child, open, need, forced, settled, late, result>>
  BY DEF io_pool_worker, RuntimeInv, RuntimeTypeOK
<1>2. /\ Len(queue') = n - 1 /\ \A i \in 1..(n - 1) : queue'[i] = queue[i + 1]
      /\ \A i \in 1..n : queue[i] \in Commands \X Pipe
  BY <1>1
<1>3. x \in Commands \X Pipe /\ job[x[1]][x[2]] = "queued"
  BY <1>1, <1>2 DEF RuntimeInv, QueueInv
<1>4. PICK c \in Commands, k \in Pipe : x = <<c, k>>
  BY <1>3
<1> HIDE DEF x
<1>5. job[c][k] = "queued" /\ job' = [job EXCEPT ![c][k] = "running"]
  BY <1>1, <1>3, <1>4
<1>6. RuntimeTypeOK'
  BY <1>1, <1>5 DEF RuntimeInv, RuntimeTypeOK
<1>7. QueueInv'
  <2>1. ASSUME NEW i \in 1..(n - 1)
        PROVE  job'[queue'[i][1]][queue'[i][2]] = "queued"
    <3>1. i + 1 \in 1..n /\ 1 \in 1..n /\ i + 1 # 1 /\ queue'[i] = queue[i + 1]
      BY <1>1, <1>2
    <3>2. queue[i + 1] # <<c, k>> /\ job[queue[i + 1][1]][queue[i + 1][2]] = "queued"
      BY <1>1, <1>4, <3>1 DEF RuntimeInv, QueueInv
    <3> QED BY <1>2, <1>5, <3>1, <3>2 DEF RuntimeInv, RuntimeTypeOK
  <2>2. ASSUME NEW i \in 1..(n - 1), NEW j \in 1..(n - 1), i # j
        PROVE  queue'[i] # queue'[j]
    <3>1. i + 1 \in 1..n /\ j + 1 \in 1..n /\ i + 1 # j + 1
      BY <1>1, <2>2
    <3> QED BY <1>2, <3>1 DEF RuntimeInv, QueueInv
  <2> QED BY <1>2, <2>1, <2>2 DEF QueueInv
<1>8. ASSUME NEW d \in Commands PROVE StagesInv(d)' /\ FateInv(d)'
  BY <1>1, <1>5 DEF RuntimeInv, StagesInv, FateInv, RuntimeTypeOK, Pipe, Used
<1> QED BY <1>6, <1>7, <1>8 DEF RuntimeInv

(* A running job ends. *)
LEMMA JobStep ==
  ASSUME RuntimeInv, NEW c \in Commands, Job(c)
  PROVE  RuntimeInv'
<1>1. PICK k \in Pipe, outcome \in {"done", "broken"} :
        /\ job[c][k] = "running" /\ job' = [job EXCEPT ![c][k] = outcome]
        /\ k # "stdin" => outcome = "done" /\ child[c] # "running" /\ open[c] = "none"
        /\ UNCHANGED <<queue, stage, child, open, need, forced, settled, late, result>>
  BY DEF Job, WriterFinishes, ReaderFinishes, Pipe
<1>2. RuntimeTypeOK'
  BY <1>1 DEF RuntimeInv, RuntimeTypeOK
<1>3. QueueInv'
  <2>1. ASSUME NEW i \in 1..Len(queue) PROVE job'[queue[i][1]][queue[i][2]] = "queued"
    <3>1. queue[i] \in Commands \X Pipe
      BY DEF RuntimeInv, RuntimeTypeOK
    <3>2. job[queue[i][1]][queue[i][2]] = "queued"
      BY DEF RuntimeInv, QueueInv
    <3> QED BY <1>1, <3>1, <3>2 DEF RuntimeInv, RuntimeTypeOK
  <2> QED BY <1>1, <2>1 DEF RuntimeInv, QueueInv
<1>4. ASSUME NEW d \in Commands PROVE StagesInv(d)' /\ FateInv(d)'
  <2>1. StagesInv(d)'
    BY <1>1 DEF RuntimeInv, StagesInv, RuntimeTypeOK, Pipe
  <2>2. FateInv(d)'
    BY <1>1 DEF RuntimeInv, FateInv, RuntimeTypeOK, Pipe, Used
  <2> QED BY <2>1, <2>2
<1> QED BY <1>2, <1>3, <1>4 DEF RuntimeInv

(* The child ends by itself: nothing was settled and no reader was done    *)
(* while it ran.                                                           *)
LEMMA ExitStep ==
  ASSUME RuntimeInv, NEW c \in Commands, ChildExits(c)
  PROVE  RuntimeInv'
<1>1. PICK o \in {"none", "tree", "escaped"} : open' = [open EXCEPT ![c] = o]
  BY DEF ChildExits
<1>2. /\ child[c] = "running" /\ child' = [child EXCEPT ![c] = "exited"]
      /\ UNCHANGED <<queue, job, stage, need, forced, settled, late, result>>
  BY DEF ChildExits
<1>3. RuntimeTypeOK'
  BY <1>1, <1>2 DEF RuntimeInv, RuntimeTypeOK
<1>4. StagesInv(c)'
  BY <1>1, <1>2 DEF RuntimeInv, StagesInv, RuntimeTypeOK
<1>5. FateInv(c)'
  BY <1>1, <1>2 DEF RuntimeInv, FateInv, RuntimeTypeOK, Used
<1> QED BY <1>1, <1>2, <1>3, <1>4, <1>5, OneCommand DEF RuntimeInv, RuntimeTypeOK

(* What a signal does to a tree: a running root is dead after it, the      *)
(* group is gone, and a finished reader's stream stays at its end.         *)
LEMMA TreeGoneFacts ==
  ASSUME RuntimeInv, NEW c \in Commands, TreeGone(c)
  PROVE  /\ child' \in [Commands -> {"none", "running", "exited", "killed"}]
         /\ open' \in [Commands -> {"none", "tree", "escaped"}]
         /\ child'[c] = IF child[c] = "running" THEN "killed" ELSE child[c]
         /\ open'[c] = IF open[c] = "tree" THEN "none" ELSE open[c]
         /\ \A d \in Commands \ {c} : child'[d] = child[d] /\ open'[d] = open[d]
BY DEF RuntimeInv, RuntimeTypeOK, TreeGone

(* The wait ends: by the exit of the child, a timeout or a cancellation. *)
LEMMA WaitStep ==
  ASSUME RuntimeInv, NEW c \in Commands, NEW why \in {"none", "timeout", "cancel"},
         stage[c] = "waiting", why = "none" => child[c] = "exited",
         \/ TreeGone(c) /\ settled' = [settled EXCEPT ![c] = TRUE]
         \/ IdentityLost /\ UNCHANGED settled,
         forced' = [forced EXCEPT ![c] = why],
         stage' = [stage EXCEPT ![c] = "collecting"],
         UNCHANGED <<queue, job, need, late, result>>
  PROVE  RuntimeInv'
<1>1. stage \in [Commands -> Pipe \cup {"idle", "waiting", "collecting", "cleanup", "joining", "returned"}]
      /\ forced \in [Commands -> {"none", "timeout", "cancel"}]
      /\ settled \in [Commands -> BOOLEAN] /\ settled[c] = FALSE /\ result[c].kind = "none"
  BY DEF RuntimeInv, RuntimeTypeOK, StagesInv
<1>2. /\ stage' \in [Commands -> Pipe \cup {"idle", "waiting", "collecting", "cleanup", "joining", "returned"}]
      /\ forced' \in [Commands -> {"none", "timeout", "cancel"}]
      /\ stage'[c] = "collecting" /\ forced'[c] = why
      /\ \A d \in Commands \ {c} : stage'[d] = stage[d] /\ forced'[d] = forced[d]
  BY <1>1
<1>3. CASE TreeGone(c) /\ settled' = [settled EXCEPT ![c] = TRUE]
  <2>0. /\ child' \in [Commands -> {"none", "running", "exited", "killed"}]
        /\ open' \in [Commands -> {"none", "tree", "escaped"}]
        /\ child'[c] = IF child[c] = "running" THEN "killed" ELSE child[c]
        /\ open'[c] = IF open[c] = "tree" THEN "none" ELSE open[c]
        /\ \A d \in Commands \ {c} : child'[d] = child[d] /\ open'[d] = open[d]
    BY <1>3, TreeGoneFacts
  <2>1. settled' \in [Commands -> BOOLEAN] /\ settled'[c] = TRUE
        /\ \A d \in Commands \ {c} : settled'[d] = settled[d]
    BY <1>1, <1>3, Zenon
  <2>2. RuntimeTypeOK'
    BY <1>2, <2>0, <2>1 DEF RuntimeInv, RuntimeTypeOK
  <2>3. StagesInv(c)'
    BY <1>1, <1>2 DEF StagesInv, Pipe
  <2>4. FateInv(c)'
    BY <1>1, <1>2, <2>0, <2>1 DEF RuntimeInv, RuntimeTypeOK, FateInv
  <2> QED BY <1>2, <2>0, <2>1, <2>2, <2>3, <2>4, OneCommand
<1>4. CASE IdentityLost /\ UNCHANGED settled
  <2>1. RuntimeTypeOK'
    BY <1>2, <1>4 DEF RuntimeInv, RuntimeTypeOK, IdentityLost
  <2>2. StagesInv(c)'
    BY <1>1, <1>2 DEF StagesInv, Pipe
  <2>3. FateInv(c)'
    BY <1>1, <1>2, <1>4 DEF RuntimeInv, FateInv, IdentityLost
  <2> QED BY <1>2, <1>4, <2>1, <2>2, <2>3, OneCommand DEF IdentityLost
<1> QED BY <1>3, <1>4

(* run_command starts, or fails to. *)
LEMMA SpawnStep ==
  ASSUME RuntimeInv, NEW c \in Commands, Spawn(c) \/ SpawnFails(c)
  PROVE  RuntimeInv'
<1>1. /\ stage[c] = "idle" /\ \A k \in Pipe : job[c][k] = "none"
      /\ forced[c] = "none" /\ settled[c] = FALSE /\ result[c].kind = "none"
  BY DEF Spawn, SpawnFails, RuntimeInv, StagesInv, Pipe
<1>2. CASE Spawn(c)
  <2>1. RuntimeTypeOK'
    BY <1>2, RuntimeConstants DEF RuntimeInv, RuntimeTypeOK, Spawn, Pipe
  <2>2. StagesInv(c)'
    BY <1>1, <1>2 DEF RuntimeInv, RuntimeTypeOK, StagesInv, Spawn, Pipe
  <2>3. FateInv(c)'
    BY <1>1, <1>2 DEF RuntimeInv, RuntimeTypeOK, FateInv, Spawn, Pipe
  <2> QED BY <1>2, <2>1, <2>2, <2>3, OneCommand DEF RuntimeInv, RuntimeTypeOK, Spawn
<1>3. CASE SpawnFails(c)
  <2>1. RuntimeTypeOK'
    BY <1>3 DEF RuntimeInv, RuntimeTypeOK, SpawnFails, NoResult
  <2>2. result'[c].kind = "error"
    BY <1>3 DEF RuntimeInv, RuntimeTypeOK, SpawnFails, NoResult
  <2>3. StagesInv(c)'
    BY <1>1, <1>3 DEF RuntimeInv, RuntimeTypeOK, StagesInv, SpawnFails, Pipe
  <2>4. FateInv(c)'
    BY <1>1, <1>3, <2>2 DEF RuntimeInv, RuntimeTypeOK, FateInv, SpawnFails, Pipe
  <2> QED BY <1>3, <2>1, <2>3, <2>4, OneCommand DEF RuntimeInv, RuntimeTypeOK, SpawnFails
<1> QED BY <1>2, <1>3

(* Outcome says "ok" without a flag only of finished jobs, an input that   *)
(* was written and a child that was settled without force.                 *)
LEMMA OutcomeFacts ==
  ASSUME RuntimeInv, NEW c \in Commands
  PROVE  /\ Outcome(c) \in [kind: {"none", "ok", "error", "cancelled"},
                            timed_out: BOOLEAN, io_grace_expired: BOOLEAN]
         /\ Outcome(c).kind = "ok" /\ Outcome(c).timed_out = FALSE
              /\ Outcome(c).io_grace_expired = FALSE =>
              /\ settled[c] = TRUE /\ forced[c] = "none"
              /\ \A k \in Used(c) : job[c][k] = "done"
<1>1. /\ settled[c] \in BOOLEAN /\ late[c] \in BOOLEAN
      /\ forced[c] \in {"none", "timeout", "cancel"}
      /\ \A k \in {"stdout", "stderr"} : job[c][k] # "broken"
  BY DEF RuntimeInv, RuntimeTypeOK, FateInv
<1> DEFINE missing == ~AllFinished(c)
           broken == job[c]["stdin"] = "broken" /\ forced[c] = "none" /\ ~late[c]
<1>2. CASE missing \/ broken \/ ~settled[c]
  <2>1. Outcome(c) = [NoResult EXCEPT !.kind = "error"]
    BY <1>2 DEF Outcome
  <2> QED BY <2>1 DEF NoResult
<1>3. CASE ~(missing \/ broken \/ ~settled[c]) /\ forced[c] = "cancel"
  <2>1. Outcome(c) = [NoResult EXCEPT !.kind = "cancelled"]
    BY <1>3 DEF Outcome
  <2> QED BY <2>1 DEF NoResult
<1>4. CASE ~(missing \/ broken \/ ~settled[c]) /\ forced[c] # "cancel"
  <2>1. Outcome(c) = [kind |-> "ok", timed_out |-> forced[c] = "timeout",
                      io_grace_expired |-> late[c] /\ forced[c] = "none"]
    BY <1>4 DEF Outcome
  <2>2. /\ Outcome(c).kind = "ok"
        /\ Outcome(c).timed_out = (forced[c] = "timeout")
        /\ Outcome(c).io_grace_expired = (late[c] /\ forced[c] = "none")
    BY <2>1
  <2>3. (forced[c] = "timeout") \in BOOLEAN /\ (late[c] /\ forced[c] = "none") \in BOOLEAN
    BY Zenon
  <2>4. Outcome(c) \in [kind: {"none", "ok", "error", "cancelled"},
                        timed_out: BOOLEAN, io_grace_expired: BOOLEAN]
    <3> DEFINE t == forced[c] = "timeout"
               g == late[c] /\ forced[c] = "none"
    <3>1. t \in BOOLEAN /\ g \in BOOLEAN
      BY <2>3
    <3>2. Outcome(c) = [kind |-> "ok", timed_out |-> t, io_grace_expired |-> g]
      BY <2>1
    <3> HIDE DEF t, g
    <3> QED BY <3>1, <3>2
  <2>5. ASSUME Outcome(c).timed_out = FALSE, Outcome(c).io_grace_expired = FALSE
        PROVE  settled[c] = TRUE /\ forced[c] = "none" /\ \A k \in Used(c) : job[c][k] = "done"
    <3>1. forced[c] = "none" /\ late[c] = FALSE
      BY <1>1, <1>4, <2>2, <2>5
    <3>2. settled[c] = TRUE
      BY <1>1, <1>4, Zenon
    <3>3. \A k \in Used(c) : job[c][k] = "done"
      BY <1>1, <1>4, <3>1 DEF AllFinished, Finished, Used, Pipe
    <3> QED BY <3>1, <3>2, <3>3
  <2> QED BY <2>4, <2>5
<1> QED BY <1>2, <1>3, <1>4

(* run_command returns, with all results or without. *)
LEMMA ReturnStep ==
  ASSUME RuntimeInv, NEW c \in Commands, stage[c] \in {"collecting", "cleanup", "joining"},
         ReturnResult(c), UNCHANGED <<queue, job, child, open, need, forced, settled, late>>
  PROVE  RuntimeInv'
<1>1. /\ result' = [result EXCEPT ![c] = Outcome(c)]
      /\ stage' = [stage EXCEPT ![c] = "returned"]
  BY DEF ReturnResult
<1>2. result'[c] = Outcome(c) /\ stage'[c] = "returned"
  BY <1>1 DEF RuntimeInv, RuntimeTypeOK
<1>3. RuntimeTypeOK'
  BY <1>1, OutcomeFacts DEF RuntimeInv, RuntimeTypeOK
<1>4. StagesInv(c)'
  BY <1>2 DEF StagesInv, Pipe
<1>5. FateInv(c)'
  <2> DEFINE r == Outcome(c)
  <2>1. r.kind = "ok" /\ r.timed_out = FALSE /\ r.io_grace_expired = FALSE =>
          settled[c] = TRUE /\ forced[c] = "none" /\ \A k \in Used(c) : job[c][k] = "done"
    BY OutcomeFacts
  <2>2. result'[c] = r
    BY <1>2
  <2> HIDE DEF r
  <2> QED BY <2>1, <2>2 DEF RuntimeInv, FateInv, Used
<1> QED BY <1>1, <1>3, <1>4, <1>5, OneCommand DEF RuntimeInv, RuntimeTypeOK

(* A deadline of the collection passes and the tree is signalled again. *)
LEMMA SignalStep ==
  ASSUME RuntimeInv, NEW c \in Commands, NEW next \in {"cleanup", "joining"},
         stage[c] \in {"collecting", "cleanup"},
         signal_tree(c), stage' = [stage EXCEPT ![c] = next],
         late' \in [Commands -> BOOLEAN],
         UNCHANGED <<queue, job, need, forced, settled, result>>
  PROVE  RuntimeInv'
<1>1. stage'[c] = next /\ \A d \in Commands \ {c} : stage'[d] = stage[d]
  BY DEF RuntimeInv, RuntimeTypeOK
<1>2. /\ child' \in [Commands -> {"none", "running", "exited", "killed"}]
      /\ open' \in [Commands -> {"none", "tree", "escaped"}]
      /\ child'[c] \in {child[c], "killed"} /\ (child'[c] = "killed" => child[c] \in {"running", "killed"})
      /\ open'[c] \in {open[c], "none"}
      /\ \A d \in Commands \ {c} : child'[d] = child[d] /\ open'[d] = open[d]
  BY DEF RuntimeInv, RuntimeTypeOK, signal_tree, TreeGone, IdentityLost
<1>3. RuntimeTypeOK'
  BY <1>2 DEF RuntimeInv, RuntimeTypeOK
<1>4. StagesInv(c)'
  BY <1>1 DEF RuntimeInv, StagesInv, Pipe
<1>5. FateInv(c)'
  BY <1>2 DEF RuntimeInv, FateInv, Used
<1> QED BY <1>1, <1>2, <1>3, <1>4, <1>5, OneCommand

LEMMA RuntimeStepInv == RuntimeInv /\ [RuntimeNext]_runtimeVars => RuntimeInv'
<1> SUFFICES ASSUME RuntimeInv, [RuntimeNext]_runtimeVars PROVE RuntimeInv'
  OBVIOUS
<1>1. CASE io_pool_worker
  BY <1>1, PoolStep
<1>2. ASSUME NEW c \in Commands, Caller(c) PROVE RuntimeInv'
  <2>1. CASE Spawn(c) \/ SpawnFails(c)
    BY <2>1, SpawnStep
  <2>2. CASE spawn_io_worker(c)
    BY <2>2, SubmitStep
  <2>3. CASE WaitExit(c)
    <3>1. forced' = [forced EXCEPT ![c] = "none"]
      <4>1. forced[c] = "none" /\ forced' = forced /\ forced \in [Commands -> {"none", "timeout", "cancel"}]
        BY <2>3 DEF WaitExit, RuntimeInv, StagesInv, RuntimeTypeOK
      <4> QED BY <4>1
    <3> QED BY <2>3, <3>1, WaitStep DEF WaitExit
  <2>4. CASE Collects(c)
    BY <2>4, ReturnStep DEF Collects
  <2> QED BY <1>2, <2>1, <2>2, <2>3, <2>4 DEF Caller
<1>3. ASSUME NEW c \in Commands, Timer(c) PROVE RuntimeInv'
  <2>1. CASE CollectExpires(c)
    <3>1. late \in [Commands -> BOOLEAN] /\ late' = [late EXCEPT ![c] = TRUE]
      BY <2>1 DEF CollectExpires, RuntimeInv, RuntimeTypeOK
    <3>2. late' \in [Commands -> BOOLEAN]
      BY <3>1, Zenon
    <3> QED BY <2>1, <3>2, SignalStep DEF CollectExpires
  <2>2. CASE CleanupExpires(c)
    <3>1. late' \in [Commands -> BOOLEAN]
      BY <2>2 DEF CleanupExpires, RuntimeInv, RuntimeTypeOK
    <3> QED BY <2>2, <3>1, SignalStep DEF CleanupExpires
  <2>3. CASE JoinExpires(c)
    BY <2>3, ReturnStep DEF JoinExpires
  <2> QED BY <1>3, <2>1, <2>2, <2>3 DEF Timer
<1>4. ASSUME NEW c \in Commands, Job(c) PROVE RuntimeInv'
  BY <1>4, JobStep
<1>5. ASSUME NEW c \in Commands, ChildExits(c) PROVE RuntimeInv'
  BY <1>5, ExitStep
<1>6. ASSUME NEW c \in Commands, TimesOut(c) \/ Cancelled(c) PROVE RuntimeInv'
  BY <1>6, WaitStep DEF TimesOut, Cancelled, terminate_verified_child
<1>7. CASE UNCHANGED runtimeVars
  BY <1>7 DEF runtimeVars, RuntimeInv, RuntimeTypeOK, QueueInv, StagesInv, FateInv, Used
<1> QED BY <1>1, <1>2, <1>3, <1>4, <1>5, <1>6, <1>7 DEF RuntimeNext

(* The type invariant of the runtime. *)
THEOREM RuntimeTypeCorrect == RuntimeSpec => []RuntimeTypeOK
<1>1. RuntimeInv => RuntimeTypeOK
  BY DEF RuntimeInv
<1> QED BY <1>1, RuntimeInitInv, RuntimeStepInv, PTL DEF RuntimeSpec

(* A RunResult without a flag stands for a child that ended by itself,     *)
(* whose output was read to the end and whose input was written            *)
(* (run_command and collect_process_io), whatever the pool, the deadlines  *)
(* and the commands beside it did.                                         *)
THEOREM ResultsAreWhole == RuntimeSpec => []CompleteResultIsWhole
<1> QED BY RuntimeInvImplies, RuntimeInitInv, RuntimeStepInv, PTL DEF RuntimeSpec

(* Whatever run_command returned, a settled child and its group are gone   *)
(* (terminate_verified_child, terminal_status).                            *)
THEOREM NoTreeSurvives == RuntimeSpec => []NoTreeLeft
<1> QED BY RuntimeInvImplies, RuntimeInitInv, RuntimeStepInv, PTL DEF RuntimeSpec
=============================================================================
