------------------------------- MODULE RefIndex -------------------------------
(***************************************************************************)
(* One shard of the per-user reference index: an append-only file of       *)
(* entries that several processes extend under a lock, compact in place    *)
(* by rename, and read without the lock. A process may die in the middle   *)
(* of an append; the next line is then glued to the torn one and neither   *)
(* parses (each line carries a commit of its own content).                 *)
(* Sizes are counted in lines. Entries keep the reference, the store, the  *)
(* timestamp, the sticky expanded flag, the expansion count and whether    *)
(* the legacy shard was already folded in.                                 *)
(***************************************************************************)
EXTENDS Naturals, Sequences, FiniteSets, SequencesExt, WellFoundedInduction,
        FiniteSetTheorems, TLAPS

CONSTANTS IndexRefs,     \* references that share the shard
          IndexStores,   \* store paths recorded in it
          CompactAbove,  \* REF_INDEX_MAX_BYTES
          ReadMax,       \* REF_INDEX_READ_MAX_BYTES
          LegacyCounts,  \* what the two-character legacy shard may say of a reference
          MaxIndexOps,   \* bound: operations begun
          MaxTorn        \* bound: appends cut by a crash

VARIABLES shard,     \* [lines, junk, torn]
          legacy,    \* legacy shard: expansion count per reference
          appending, \* store -> the append_blob_refs call in flight
          clock, expansions, crashes

indexVars == <<shard, legacy, appending, clock, expansions, crashes>>

Idle == [busy |-> FALSE, ref |-> CHOOSE r \in IndexRefs : TRUE, ts |-> 0]

Lines(s) == Len(s.lines) + s.junk + (IF s.torn THEN 1 ELSE 0)

(* ref_index_text: nothing is read of a shard past the read ceiling. *)
ref_index_text(s) == IF Lines(s) > ReadMax THEN <<>> ELSE s.lines

MaxOver(S) == IF S = {} THEN 0 ELSE CHOOSE m \in S : \A n \in S : n <= m

Of(text, r) == {i \in 1..Len(text) : text[i].ref = r}

(* The entry that compaction keeps when it takes the newest line as it is. *)
NewestAsIs(text, r) ==
    text[CHOOSE i \in Of(text, r) : \A j \in Of(text, r) :
            text[j].ts < text[i].ts \/ (text[j].ts = text[i].ts /\ j <= i)]

(* newest_ref_index_entries: the newest line of a reference, with the      *)
(* sticky flags and the largest count of all its lines.                    *)
newest_ref_index_entry(text, r) ==
    [text[CHOOSE i \in Of(text, r) : \A j \in Of(text, r) :
            text[j].ts < text[i].ts \/ (text[j].ts = text[i].ts /\ j <= i)]
     EXCEPT !.expanded = \E i \in Of(text, r) : text[i].expanded,
            !.count = MaxOver({text[i].count : i \in Of(text, r)}),
            !.migrated = \E i \in Of(text, r) : text[i].migrated]

Known(text) == {r \in IndexRefs : Of(text, r) # {}}

Compacted(s) ==
    [lines |-> LET live == SetToSeq(Known(s.lines))
               IN  [k \in 1..Len(live) |-> newest_ref_index_entry(s.lines, live[k])],
     junk |-> 0, torn |-> FALSE]

(* compact_ref_index_if_needed, under the shard lock *)
compact_ref_index_if_needed(s) ==
    LET stale == Lines(s) - Cardinality(Known(ref_index_text(s)))
        near_unread == Lines(s) >= ReadMax \div 2
    IN  IF Lines(s) <= CompactAbove \/ (~near_unread /\ 4 * stale < 3 * Lines(s))
        THEN s ELSE Compacted(s)

append_ref_index_line(s, e) ==
    IF s.torn THEN [s EXCEPT !.junk = @ + 1, !.torn = FALSE]
    ELSE [s EXCEPT !.lines = Append(@, e)]

TornLine(s) == IF s.torn THEN s ELSE [s EXCEPT !.torn = TRUE]

(* Newest store path recorded for a reference, the first of equals. *)
newest_ref_index_store_path(s, r) ==
    LET text == ref_index_text(s)
    IN  IF Of(text, r) = {} THEN {}
        ELSE {text[CHOOSE i \in Of(text, r) : \A j \in Of(text, r) :
                text[j].ts < text[i].ts \/ (text[j].ts = text[i].ts /\ i <= j)].store}

(* ref_index_blob_lru: what the cache reads, without the lock, from both shards. *)
ref_index_blob_lru(r) ==
    LET text == ref_index_text(shard)
    IN  MaxOver({legacy[r]} \cup {text[i].count : i \in Of(text, r)}
                            \cup {IF text[i].expanded THEN 1 ELSE 0 : i \in Of(text, r)})

-----------------------------------------------------------------------------
Init ==
    /\ shard = [lines |-> <<>>, junk |-> 0, torn |-> FALSE]
    /\ legacy \in [IndexRefs -> LegacyCounts]
    /\ appending = [s \in IndexStores |-> Idle]
    /\ clock = 0
    /\ expansions = [r \in IndexRefs |-> 0]
    /\ crashes = 0

(* append_blob_refs_to_ref_index takes its timestamp before any lock. *)
AppendBegins(s, r) ==
    /\ ~appending[s].busy
    /\ clock < MaxIndexOps
    /\ clock' = clock + 1
    /\ appending' = [appending EXCEPT ![s] = [busy |-> TRUE, ref |-> r, ts |-> clock + 1]]
    /\ UNCHANGED <<shard, legacy, expansions, crashes>>

append_blob_refs_to_ref_index(s) ==
    LET call == appending[s]
        entry == [ref |-> call.ref, store |-> s, ts |-> call.ts, expanded |-> FALSE,
                  count |-> 0, migrated |-> FALSE]
    IN  /\ call.busy
        /\ shard' = IF newest_ref_index_store_path(shard, call.ref) = {s} THEN shard
                    ELSE compact_ref_index_if_needed(append_ref_index_line(shard, entry))
        /\ appending' = [appending EXCEPT ![s] = Idle]
        /\ UNCHANGED <<legacy, clock, expansions, crashes>>

(* The line record_ref_index_expanded writes for an expansion by store s. *)
ExpandedEntry(s, r) ==
    LET text == ref_index_text(shard)
        seen == Of(text, r) # {}
        old == newest_ref_index_entry(text, r)
        folded == seen /\ old.migrated
        prior == MaxOver((IF seen THEN {old.count, IF old.expanded THEN 1 ELSE 0} ELSE {})
                         \cup (IF folded THEN {} ELSE {legacy[r]}))
    IN  [ref |-> r, store |-> s, ts |-> clock + 1, expanded |-> TRUE,
         count |-> prior + 1, migrated |-> TRUE]

record_ref_index_expanded(s, r) ==
    /\ clock < MaxIndexOps
    /\ clock' = clock + 1
    /\ shard' = compact_ref_index_if_needed(append_ref_index_line(shard, ExpandedEntry(s, r)))
    /\ expansions' = [expansions EXCEPT ![r] = @ + 1]
    /\ UNCHANGED <<legacy, appending, crashes>>

(* The process dies inside the append; the kernel drops its lock. *)
CrashInAppend(s) ==
    /\ crashes < MaxTorn
    /\ clock < MaxIndexOps
    /\ crashes' = crashes + 1
    /\ clock' = clock + 1
    /\ shard' = TornLine(shard)
    /\ appending' = [appending EXCEPT ![s] = Idle]
    /\ UNCHANGED <<legacy, expansions>>

(* The process dies between the append and the rename of the compacted file. *)
CrashBeforeRename(s, r) ==
    /\ crashes < MaxTorn
    /\ clock < MaxIndexOps
    /\ crashes' = crashes + 1
    /\ clock' = clock + 1
    /\ shard' = append_ref_index_line(shard, ExpandedEntry(s, r))
    /\ expansions' = [expansions EXCEPT ![r] = @ + 1]
    /\ appending' = [appending EXCEPT ![s] = Idle]
    /\ UNCHANGED legacy

Next == \E s \in IndexStores :
    \/ append_blob_refs_to_ref_index(s)
    \/ CrashInAppend(s)
    \/ \E r \in IndexRefs :
          AppendBegins(s, r) \/ record_ref_index_expanded(s, r) \/ CrashBeforeRename(s, r)

Spec == Init /\ [][Next]_indexVars

Entry == [ref : IndexRefs, store : IndexStores, ts : Nat, expanded : BOOLEAN,
          count : Nat, migrated : BOOLEAN]

TypeOK ==
    /\ shard \in [lines : Seq(Entry), junk : Nat, torn : BOOLEAN]
    /\ legacy \in [IndexRefs -> Nat]
    /\ appending \in [IndexStores -> [busy : BOOLEAN, ref : IndexRefs, ts : Nat]]
    /\ clock \in Nat /\ crashes \in Nat
    /\ expansions \in [IndexRefs -> Nat]

-----------------------------------------------------------------------------
(* The count readers see is the legacy count plus the expansions recorded  *)
(* since, and each append cut by a crash costs at most one of them: no     *)
(* compaction, no append by another store with an older timestamp and no   *)
(* fold of the legacy shard counts twice or starts over.                   *)
CountsTrackExpansions == \A r \in IndexRefs :
    /\ ref_index_blob_lru(r) <= legacy[r] + expansions[r]
    /\ ref_index_blob_lru(r) + crashes >= legacy[r] + expansions[r]

-----------------------------------------------------------------------------
(* Why the counts are right.  A line never counts more than was expanded,  *)
(* one that folded the legacy shard in counts at least what that said, and *)
(* the largest count of a reference is behind by no more than the crashes, *)
(* a torn end of the file having its loss still ahead.  Compaction keeps a *)
(* shard below the read ceiling, so every line is read.                    *)

IndexConstants ==
    /\ IsFiniteSet(IndexRefs) /\ IndexRefs # {} /\ LegacyCounts \subseteq Nat
    /\ CompactAbove \in Nat /\ ReadMax \in Nat /\ MaxTorn \in Nat
    /\ CompactAbove + MaxTorn <= ReadMax /\ ReadMax \div 2 + MaxTorn <= ReadMax
    /\ Cardinality(IndexRefs) + MaxTorn <= ReadMax

Shards == [lines : Seq(Entry), junk : Nat, torn : BOOLEAN]

LineTrue(e, counts, c) ==
    /\ e.ts <= c
    /\ e.count <= legacy[e.ref] + counts[e.ref]
    /\ e.migrated => legacy[e.ref] <= e.count
    /\ e.expanded => 1 <= e.count

LinesTrue(s, counts, c) == \A i \in 1..Len(s.lines) : LineTrue(s.lines[i], counts, c)

Due(s, counts, r) == legacy[r] + counts[r] + (IF s.torn THEN 1 ELSE 0)

CountsKept(s, counts, slips) ==
    \A r \in IndexRefs :
        \/ Due(s, counts, r) <= legacy[r] + slips
        \/ \E i \in Of(s.lines, r) : Due(s, counts, r) <= s.lines[i].count + slips

ShardFits(s, slips) == Lines(s) <= ReadMax - MaxTorn + slips

IndexInv ==
    /\ TypeOK /\ crashes <= MaxTorn
    /\ \A s \in IndexStores : appending[s].ts <= clock
    /\ LinesTrue(shard, expansions, clock)
    /\ CountsKept(shard, expansions, crashes)
    /\ ShardFits(shard, crashes)

-----------------------------------------------------------------------------
(* A nonempty set of numbers below a bound has a largest one. *)
LEMMA LargestNumber ==
    ASSUME NEW n \in Nat, NEW S \in SUBSET (0..n), S # {}
    PROVE  \E m \in S : \A k \in S : k <= m
<1> DEFINE T == {n - m : m \in S}
           Less == {ss \in Nat \X Nat : ss[1] < ss[2]}
<1>1. IsWellFoundedOn(Less, Nat)
  BY NatLessThanWellFounded, Zenon DEF OpToRel
<1>2. T \subseteq Nat /\ T # {}
  <2>1. \A m \in S : n - m \in Nat
    OBVIOUS
  <2> QED  BY <2>1
<1> HIDE DEF Less
<1>3. PICK x \in T : \A y \in T : ~ (<<y, x>> \in Less)
  BY <1>1, <1>2, WFMin, Zenon
<1>4. ASSUME NEW y \in T PROVE x <= y
  <2>1. x \in Nat /\ y \in Nat /\ <<y, x>> \in Nat \X Nat
    BY <1>2
  <2>2. <<y, x>>[1] = y /\ <<y, x>>[2] = x
    OBVIOUS
  <2>3. ~ (y < x)
    BY <1>3, <2>1, <2>2, Zenon DEF Less
  <2> QED  BY <2>1, <2>3
<1>5. PICK m \in S : x = n - m
  OBVIOUS
<1>6. \A k \in S : k <= m
  <2> TAKE k \in S
  <2>1. x <= n - k
    BY <1>4
  <2> QED  BY <1>5, <2>1
<1> QED  BY <1>6

(* MaxOver picks it. *)
LEMMA MaxOverIs ==
    ASSUME NEW n \in Nat, NEW S \in SUBSET (0..n), S # {}
    PROVE  MaxOver(S) \in S /\ MaxOver(S) \in Nat /\ \A k \in S : k <= MaxOver(S)
<1>1. \E m \in S : \A k \in S : k <= m
  BY LargestNumber
<1>2. MaxOver(S) \in S /\ \A k \in S : k <= MaxOver(S)
  BY <1>1, Zenon DEF MaxOver
<1>3. \A m \in S : m \in Nat
  OBVIOUS
<1> QED  BY <1>2, <1>3, Zenon

(* The entry compaction keeps of a reference: one of its lines in age, the *)
(* largest count, the flags of any.                                        *)
LEMMA NewestIs ==
    ASSUME NEW text \in Seq(Entry), NEW r \in IndexRefs, NEW c \in Nat, NEW n \in Nat,
           Of(text, r) # {},
           \A i \in 1..Len(text) : text[i].ts <= c,
           \A i \in Of(text, r) : text[i].count <= n
    PROVE  LET e == newest_ref_index_entry(text, r)
           IN /\ e \in Entry /\ e.ref = r /\ e.ts <= c
              /\ \E i \in Of(text, r) : e.count = text[i].count
              /\ \A i \in Of(text, r) : text[i].count <= e.count
              /\ e.expanded <=> \E i \in Of(text, r) : text[i].expanded
              /\ e.migrated <=> \E i \in Of(text, r) : text[i].migrated
<1> DEFINE O == Of(text, r)
           Newest(i) == \A j \in O : text[j].ts < text[i].ts \/ (text[j].ts = text[i].ts /\ j <= i)
<1>1. \A i \in O : i \in 1..Len(text) /\ i \in Nat /\ text[i] \in Entry /\ text[i].ref = r
  BY DEF Of
<1>2. \A i \in O : text[i].ts \in 0..c /\ text[i].count \in 0..n
  BY <1>1 DEF Entry
<1>3. PICK t \in {text[i].ts : i \in O} : \A k \in {text[i].ts : i \in O} : k <= t
  <2> DEFINE S == {text[i].ts : i \in O}
  <2>1. S \subseteq 0..c /\ S # {}
    BY <1>2
  <2> HIDE DEF S
  <2>2. \E m \in S : \A k \in S : k <= m
    BY <2>1, LargestNumber
  <2> QED  BY <2>2, Zenon DEF S
<1>4. PICK i \in {j \in O : text[j].ts = t} : \A k \in {j \in O : text[j].ts = t} : k <= i
  <2> DEFINE S == {j \in O : text[j].ts = t}
  <2>1. S \subseteq 0..Len(text) /\ S # {} /\ Len(text) \in Nat
    BY <1>1, <1>3
  <2> HIDE DEF S
  <2>2. \E m \in S : \A k \in S : k <= m
    BY <2>1, LargestNumber
  <2> QED  BY <2>2, Zenon DEF S
<1>5. i \in O /\ Newest(i)
  <2>1. SUFFICES ASSUME NEW j \in O
                 PROVE  text[j].ts < text[i].ts \/ (text[j].ts = text[i].ts /\ j <= i)
    BY <1>4
  <2>2. text[i].ts = t /\ text[j].ts <= t
    BY <1>3, <1>4
  <2>3. text[j].ts = t => j <= i
    BY <1>4
  <2> QED  BY <1>2, <2>2, <2>3
<1> DEFINE w == CHOOSE j \in O : Newest(j)
           best == MaxOver({text[j].count : j \in O})
<1>6. w \in O
  BY <1>5, Zenon
<1>7. best \in {text[j].count : j \in O} /\ \A k \in {text[j].count : j \in O} : k <= best
  <2> DEFINE S == {text[j].count : j \in O}
  <2>1. S \subseteq 0..n /\ S # {}
    BY <1>2
  <2> HIDE DEF S
  <2>2. MaxOver(S) \in S /\ \A k \in S : k <= MaxOver(S)
    BY <2>1, MaxOverIs
  <2> QED  BY <2>2, Zenon DEF S
<1>8. newest_ref_index_entry(text, r)
        = [text[w] EXCEPT !.expanded = \E j \in O : text[j].expanded, !.count = best,
                          !.migrated = \E j \in O : text[j].migrated]
  BY Zenon DEF newest_ref_index_entry
<1>9. best \in Nat
  BY <1>2, <1>7
<1>10. PICK k \in O : best = text[k].count
  BY <1>7
<1>11. \A j \in O : text[j].count <= best
  BY <1>7
<1>12. text[w] \in Entry /\ text[w].ref = r /\ text[w].ts <= c
  BY <1>1, <1>2, <1>6
<1> DEFINE e == newest_ref_index_entry(text, r)
           ex == \E j \in O : text[j].expanded
           mi == \E j \in O : text[j].migrated
<1>13. ex \in BOOLEAN /\ mi \in BOOLEAN
  OBVIOUS
<1> HIDE DEF w, best, O, ex, mi
<1>14. e = [text[w] EXCEPT !.expanded = ex, !.count = best, !.migrated = mi]
  BY <1>8, Zenon DEF ex, mi
<1>15. e \in Entry /\ e.ref = r /\ e.ts <= c /\ e.count = best /\ e.expanded = ex /\ e.migrated = mi
  BY <1>9, <1>12, <1>13, <1>14 DEF Entry
<1> HIDE DEF e
<1> QED  BY <1>10, <1>11, <1>15, Zenon DEF O, ex, mi, e

(* The live references in some order, none missing. *)
LEMMA SetToSeqIs ==
    ASSUME NEW K, IsFiniteSet(K)
    PROVE  LET q == SetToSeq(K)
           IN q \in [1..Cardinality(K) -> K] /\ \A x \in K : \E k \in 1..Cardinality(K) : q[k] = x
<1> DEFINE n == Cardinality(K)
<1>1. n \in Nat /\ ExistsBijection(1..n, K)
  BY FS_CardinalityType
<1>2. \E f \in [1..n -> K] : IsInjective(f)
  BY <1>1 DEF ExistsBijection, Bijection, Injection
<1> DEFINE q == SetToSeq(K)
<1>3. q \in [1..n -> K] /\ IsInjective(q)
  BY <1>2, Zenon DEF SetToSeq
<1>4. IsFiniteSet(1..n) /\ Cardinality(1..n) = n
  <2>1. 1 \in Int /\ n \in Int
    BY <1>1
  <2> QED  BY <1>1, <2>1, FS_Interval
<1>5. q \in Injection(1..n, K)
  BY <1>3 DEF Injection
<1>6. q \in Surjection(1..n, K)
  BY <1>4, <1>5, FS_Injection
<1> QED  BY <1>3, <1>6 DEF Surjection

(* Compaction keeps true lines true and loses no count; one line per live  *)
(* reference is left.                                                      *)
LEMMA CompactedKeeps ==
    ASSUME IndexConstants, legacy \in [IndexRefs -> Nat],
           NEW s \in Shards, NEW counts \in [IndexRefs -> Nat], NEW c \in Nat, NEW slips \in Nat,
           LinesTrue(s, counts, c), CountsKept(s, counts, slips)
    PROVE  /\ Compacted(s) \in Shards
           /\ LinesTrue(Compacted(s), counts, c)
           /\ CountsKept(Compacted(s), counts, slips)
           /\ Lines(Compacted(s)) <= Cardinality(IndexRefs)
<1> DEFINE text == s.lines
           K == Known(text)
           n == Cardinality(K)
           q == SetToSeq(K)
           d == Compacted(s)
<1>1. text \in Seq(Entry)
  BY DEF Shards
<1>2. IsFiniteSet(K) /\ n \in Nat /\ Cardinality(IndexRefs) \in Nat /\ n <= Cardinality(IndexRefs)
  <2>1. K \subseteq IndexRefs /\ IsFiniteSet(IndexRefs)
    BY DEF Known, IndexConstants
  <2> QED  BY <2>1, FS_Subset, FS_CardinalityType
<1>3. q \in [1..n -> K] /\ \A x \in K : \E k \in 1..n : q[k] = x
  BY <1>2, SetToSeqIs
<1>4. Len(q) = n
  BY <1>2, <1>3
<1>5. d = [lines |-> [k \in 1..n |-> newest_ref_index_entry(text, q[k])], junk |-> 0, torn |-> FALSE]
  BY <1>4, Zenon DEF Compacted
<1>6. ASSUME NEW r \in K
      PROVE  LET e == newest_ref_index_entry(text, r)
             IN /\ e \in Entry /\ e.ref = r /\ LineTrue(e, counts, c)
                /\ \A i \in Of(text, r) : text[i].count <= e.count
  <2>1. r \in IndexRefs /\ Of(text, r) # {}
    BY DEF Known
  <2>2. \A i \in Of(text, r) : i \in 1..Len(text) /\ text[i].ref = r /\ text[i] \in Entry
    BY <1>1 DEF Of
  <2>3. legacy[r] + counts[r] \in Nat /\ legacy[r] \in Nat
    BY <2>1
  <2>4. \A i \in Of(text, r) : /\ text[i].count <= legacy[r] + counts[r]
                               /\ text[i].migrated => legacy[r] <= text[i].count
                               /\ text[i].expanded => 1 <= text[i].count
    BY <2>2 DEF LinesTrue, LineTrue
  <2>5. \A i \in 1..Len(text) : text[i].ts <= c
    BY DEF LinesTrue, LineTrue
  <2> DEFINE e == newest_ref_index_entry(text, r)
  <2>6. /\ e \in Entry /\ e.ref = r /\ e.ts <= c
        /\ \E i \in Of(text, r) : e.count = text[i].count
        /\ \A i \in Of(text, r) : text[i].count <= e.count
        /\ e.expanded <=> \E i \in Of(text, r) : text[i].expanded
        /\ e.migrated <=> \E i \in Of(text, r) : text[i].migrated
    <3> DEFINE top == legacy[r] + counts[r]
    <3>1. \A i \in Of(text, r) : text[i].count <= top
      BY <2>4
    <3>2. top \in Nat
      BY <2>3
    <3> HIDE DEF text, top
    <3> QED  BY <1>1, <2>1, <2>5, <3>1, <3>2, NewestIs
  <2> HIDE DEF e
  <2>7. e.count \in Nat /\ \A i \in Of(text, r) : text[i].count \in Nat
    BY <2>2, <2>6 DEF Entry
  <2>8. e.count <= legacy[r] + counts[r]
    BY <2>4, <2>6
  <2>9. e.migrated => legacy[r] <= e.count
    <3> SUFFICES ASSUME e.migrated PROVE legacy[r] <= e.count
      OBVIOUS
    <3>1. PICK i \in Of(text, r) : text[i].migrated
      BY <2>6
    <3> QED  BY <2>3, <2>4, <2>6, <2>7, <3>1
  <2>10. e.expanded => 1 <= e.count
    <3> SUFFICES ASSUME e.expanded PROVE 1 <= e.count
      OBVIOUS
    <3>1. PICK i \in Of(text, r) : text[i].expanded
      BY <2>6
    <3> QED  BY <2>4, <2>6, <2>7, <3>1
  <2>11. LineTrue(e, counts, c)
    BY <2>6, <2>8, <2>9, <2>10 DEF LineTrue
  <2> QED  BY <2>6, <2>11 DEF e
<1> HIDE DEF d, n, q, K
<1>7. /\ Len(d.lines) = n /\ d.lines \in Seq(Entry) /\ d.junk = 0 /\ d.torn = FALSE
      /\ \A k \in 1..n : d.lines[k] = newest_ref_index_entry(text, q[k]) /\ q[k] \in K
  <2>1. \A k \in 1..n : q[k] \in K /\ newest_ref_index_entry(text, q[k]) \in Entry
    BY <1>3, <1>6
  <2> QED  BY <1>2, <1>5, <2>1
<1>8. d \in Shards /\ Lines(d) = n
  BY <1>2, <1>5, <1>7 DEF Shards, Lines
<1>9. LinesTrue(d, counts, c)
  BY <1>6, <1>7 DEF LinesTrue
<1>10. CountsKept(d, counts, slips)
  <2> SUFFICES ASSUME NEW r \in IndexRefs
               PROVE  \/ Due(d, counts, r) <= legacy[r] + slips
                      \/ \E i \in Of(d.lines, r) : Due(d, counts, r) <= d.lines[i].count + slips
    BY DEF CountsKept
  <2>1. Due(d, counts, r) \in Nat /\ Due(s, counts, r) \in Nat /\ Due(d, counts, r) <= Due(s, counts, r)
    BY <1>7 DEF Due, Shards
  <2>2. CASE Due(s, counts, r) <= legacy[r] + slips
    BY <2>1, <2>2
  <2>3. CASE \E i \in Of(text, r) : Due(s, counts, r) <= text[i].count + slips
    <3>1. PICK i \in Of(text, r) : Due(s, counts, r) <= text[i].count + slips
      BY <2>3
    <3>2. r \in K
      BY <3>1, Zenon DEF K, Known
    <3>3. PICK k \in 1..n : q[k] = r
      BY <1>3, <3>2
    <3> DEFINE e == newest_ref_index_entry(text, r)
    <3>4. e \in Entry /\ e.ref = r /\ text[i].count <= e.count
      BY <1>6, <3>2
    <3>5. d.lines[k] = e
      BY <1>7, <3>3
    <3> HIDE DEF e
    <3>6. k \in Of(d.lines, r)
      BY <1>7, <3>4, <3>5 DEF Of
    <3>7. text[i].count \in Nat /\ e.count \in Nat
      <4>1. i \in 1..Len(text)
        BY DEF Of
      <4>2. text[i] \in Entry
        BY <1>1, <4>1
      <4>3. \A x \in Entry : x.count \in Nat
        BY DEF Entry
      <4> QED  BY <3>4, <4>2, <4>3, Zenon
    <3>8. Due(d, counts, r) <= d.lines[k].count + slips
      BY <2>1, <3>1, <3>4, <3>5, <3>7
    <3> QED  BY <3>6, <3>8
  <2> QED  BY <2>2, <2>3 DEF CountsKept
<1> QED  BY <1>2, <1>8, <1>9, <1>10 DEF d

(* The size of a shard is a number. *)
LEMMA LinesNumber == ASSUME NEW s \in Shards PROVE Lines(s) \in Nat
<1>1. s.lines \in Seq(Entry) /\ s.junk \in Nat
  BY DEF Shards
<1> QED  BY <1>1 DEF Lines

(* So does compaction on demand, and the shard it leaves is read whole. *)
LEMMA IfNeededKeeps ==
    ASSUME IndexConstants, legacy \in [IndexRefs -> Nat],
           NEW s \in Shards, NEW counts \in [IndexRefs -> Nat], NEW c \in Nat, NEW slips \in Nat,
           LinesTrue(s, counts, c), CountsKept(s, counts, slips)
    PROVE  LET d == compact_ref_index_if_needed(s)
           IN d \in Shards /\ LinesTrue(d, counts, c) /\ CountsKept(d, counts, slips)
              /\ ShardFits(d, slips)
<1>1. Lines(s) \in Nat
  BY DEF Shards, Lines
<1>2. Cardinality(IndexRefs) \in Nat
  BY FS_CardinalityType DEF IndexConstants
<1>3. CASE Lines(s) <= CompactAbove \/ Lines(s) < ReadMax \div 2
  <2>1. ShardFits(s, slips)
    BY <1>1, <1>3 DEF ShardFits, IndexConstants
  <2>2. Lines(Compacted(s)) \in Nat
    BY CompactedKeeps, LinesNumber
  <2>3. ShardFits(Compacted(s), slips)
    BY <1>2, <2>2, CompactedKeeps DEF ShardFits, IndexConstants
  <2> QED  BY <2>1, <2>3, CompactedKeeps DEF compact_ref_index_if_needed
<1>4. CASE ~(Lines(s) <= CompactAbove \/ Lines(s) < ReadMax \div 2)
  <2>1. compact_ref_index_if_needed(s) = Compacted(s)
    BY <1>1, <1>4 DEF compact_ref_index_if_needed, IndexConstants
  <2>2. Lines(Compacted(s)) \in Nat
    BY CompactedKeeps, LinesNumber
  <2>3. ShardFits(Compacted(s), slips)
    BY <1>2, <2>2, CompactedKeeps DEF ShardFits, IndexConstants
  <2> QED  BY <2>1, <2>3, CompactedKeeps
<1> QED  BY <1>3, <1>4

(* An appended line that is true keeps the counts; glued to a torn end it  *)
(* is lost, which that end allowed for.                                    *)
LEMMA LineAppended ==
    ASSUME legacy \in [IndexRefs -> Nat],
           NEW s \in Shards, NEW e \in Entry, NEW counts \in [IndexRefs -> Nat],
           NEW more \in [IndexRefs -> Nat], NEW c \in Nat, NEW later \in Nat, NEW slips \in Nat,
           LinesTrue(s, counts, c), CountsKept(s, counts, slips), c <= later,
           LineTrue(e, more, later),
           \A r \in IndexRefs : \/ more[r] = counts[r]
                                \/ /\ r = e.ref /\ more[r] = counts[r] + 1 /\ legacy[r] < e.count
                                   /\ \A i \in Of(s.lines, r) : s.lines[i].count < e.count
    PROVE  LET t == append_ref_index_line(s, e)
           IN /\ t \in Shards /\ LinesTrue(t, more, later) /\ CountsKept(t, more, slips)
              /\ Lines(t) <= Lines(s) + 1
<1> DEFINE text == s.lines
           t == append_ref_index_line(s, e)
<1>1. text \in Seq(Entry) /\ Len(text) \in Nat /\ s.junk \in Nat /\ s.torn \in BOOLEAN
  BY DEF Shards
<1>2. \A r \in IndexRefs : counts[r] \in Nat /\ more[r] \in Nat /\ legacy[r] \in Nat
                           /\ counts[r] <= more[r] /\ more[r] <= counts[r] + 1
  OBVIOUS
<1>3. \A i \in 1..Len(text) : text[i] \in Entry /\ text[i].count \in Nat /\ text[i].ts \in Nat
                              /\ text[i].ref \in IndexRefs
  <2>1. \A x \in Entry : x.count \in Nat /\ x.ts \in Nat /\ x.ref \in IndexRefs
    BY DEF Entry
  <2> QED  BY <1>1, <2>1
<1>4. \A i \in 1..Len(text) : LineTrue(text[i], more, later)
  <2> SUFFICES ASSUME NEW i \in 1..Len(text) PROVE LineTrue(text[i], more, later)
    OBVIOUS
  <2>1. LineTrue(text[i], counts, c)
    BY DEF LinesTrue
  <2> DEFINE x == text[i]
             y == x.ref
  <2>2. y \in IndexRefs /\ x.count \in Nat /\ x.ts \in Nat
    BY <1>3
  <2>3. counts[y] \in Nat /\ more[y] \in Nat /\ legacy[y] \in Nat /\ counts[y] <= more[y]
    BY <1>2, <2>2
  <2>4. /\ x.ts <= c /\ x.count <= legacy[y] + counts[y]
        /\ x.migrated => legacy[y] <= x.count
        /\ x.expanded => 1 <= x.count
    BY <2>1 DEF LineTrue
  <2> HIDE DEF x, y
  <2>5. x.ts <= later /\ x.count <= legacy[y] + more[y]
    BY <2>2, <2>3, <2>4
  <2> QED  BY <2>4, <2>5 DEF LineTrue, x, y
<1>5. CASE s.torn
  <2>1. /\ t = [s EXCEPT !.junk = @ + 1, !.torn = FALSE]
    BY <1>5 DEF append_ref_index_line
  <2>2. t \in Shards /\ t.lines = text /\ t.torn = FALSE /\ t.junk = s.junk + 1
    <3>1. s = [lines |-> text, junk |-> s.junk, torn |-> s.torn]
      BY DEF Shards
    <3>2. t = [lines |-> text, junk |-> s.junk + 1, torn |-> FALSE]
      BY <2>1, <3>1
    <3> HIDE DEF t, text
    <3> QED  BY <1>1, <3>2 DEF Shards
  <2> HIDE DEF t
  <2>3. Lines(t) <= Lines(s) + 1
    BY <1>1, <1>5, <2>2 DEF Lines
  <2>4. LinesTrue(t, more, later)
    BY <1>4, <2>2 DEF LinesTrue
  <2>5. CountsKept(t, more, slips)
    <3> SUFFICES ASSUME NEW r \in IndexRefs
                 PROVE  \/ Due(t, more, r) <= legacy[r] + slips
                        \/ \E i \in Of(t.lines, r) : Due(t, more, r) <= t.lines[i].count + slips
      BY DEF CountsKept
    <3>1. Due(t, more, r) \in Nat /\ Due(s, counts, r) \in Nat /\ Due(t, more, r) <= Due(s, counts, r)
      BY <1>2, <1>5, <2>2 DEF Due
    <3>2. CASE Due(s, counts, r) <= legacy[r] + slips
      BY <1>2, <3>1, <3>2
    <3>3. CASE \E i \in Of(text, r) : Due(s, counts, r) <= text[i].count + slips
      <4>1. PICK i \in Of(text, r) : Due(s, counts, r) <= text[i].count + slips
        BY <3>3
      <4>2. text[i].count \in Nat
        BY <1>3 DEF Of
      <4>3. Due(t, more, r) <= t.lines[i].count + slips
        BY <2>2, <3>1, <4>1, <4>2
      <4> QED  BY <2>2, <4>3
    <3> QED  BY <3>2, <3>3 DEF CountsKept
  <2> QED  BY <2>2, <2>3, <2>4, <2>5 DEF t
<1>6. CASE ~s.torn
  <2>1. t = [s EXCEPT !.lines = Append(@, e)]
    BY <1>6 DEF append_ref_index_line
  <2>2. t \in Shards /\ t.lines = Append(text, e) /\ t.torn = s.torn /\ t.junk = s.junk
    <3>1. s = [lines |-> text, junk |-> s.junk, torn |-> s.torn]
      BY DEF Shards
    <3>2. t = [lines |-> Append(text, e), junk |-> s.junk, torn |-> s.torn]
      BY <2>1, <3>1
    <3>3. Append(text, e) \in Seq(Entry)
      BY <1>1
    <3> HIDE DEF t, text
    <3> QED  BY <1>1, <3>2, <3>3 DEF Shards
  <2> HIDE DEF t
  <2>3. /\ Len(t.lines) = Len(text) + 1 /\ t.lines[Len(text) + 1] = e
        /\ \A i \in 1..Len(text) : t.lines[i] = text[i]
    BY <1>1, <2>2
  <2>4. Lines(t) <= Lines(s) + 1
    BY <1>1, <2>2, <2>3 DEF Lines
  <2>5. LinesTrue(t, more, later)
    <3> SUFFICES ASSUME NEW i \in 1..Len(t.lines) PROVE LineTrue(t.lines[i], more, later)
      BY DEF LinesTrue
    <3>1. i \in 1..Len(text) \/ i = Len(text) + 1
      BY <1>1, <2>3
    <3> QED  BY <1>4, <2>3, <3>1
  <2>6. \A r \in IndexRefs : \A i \in Of(text, r) :
          i \in Of(t.lines, r) /\ t.lines[i] = text[i] /\ text[i].count \in Nat
    BY <1>1, <1>3, <2>3 DEF Of
  <2>7. CountsKept(t, more, slips)
    <3> SUFFICES ASSUME NEW r \in IndexRefs
                 PROVE  \/ Due(t, more, r) <= legacy[r] + slips
                        \/ \E i \in Of(t.lines, r) : Due(t, more, r) <= t.lines[i].count + slips
      BY DEF CountsKept
    <3>1. /\ Due(t, more, r) \in Nat /\ Due(s, counts, r) \in Nat
          /\ Due(t, more, r) = Due(s, counts, r) + (more[r] - counts[r])
      <4> DEFINE tear == IF s.torn THEN 1 ELSE 0
      <4>1. tear \in Nat /\ legacy[r] \in Nat /\ counts[r] \in Nat /\ more[r] \in Nat
        BY <1>2
      <4>2. Due(t, more, r) = legacy[r] + more[r] + tear /\ Due(s, counts, r) = legacy[r] + counts[r] + tear
        BY <2>2 DEF Due
      <4> HIDE DEF tear
      <4> QED  BY <4>1, <4>2
    <3>2. \/ Due(s, counts, r) <= legacy[r] + slips
          \/ \E i \in Of(text, r) : Due(s, counts, r) <= text[i].count + slips
      BY DEF CountsKept
    <3>3. CASE more[r] = counts[r]
      <4>1. Due(t, more, r) = Due(s, counts, r)
        BY <1>2, <3>1, <3>3
      <4> QED  BY <2>6, <3>2, <4>1
    <3>4. CASE /\ r = e.ref /\ more[r] = counts[r] + 1 /\ legacy[r] < e.count
               /\ \A i \in Of(text, r) : text[i].count < e.count
      <4>1. Len(text) + 1 \in Of(t.lines, r)
        BY <1>1, <2>3, <3>4 DEF Of
      <4>2. e.count \in Nat
        BY DEF Entry
      <4>3. Due(t, more, r) <= e.count + slips
        <5>1. Due(t, more, r) = Due(s, counts, r) + 1
          BY <1>2, <3>1, <3>4
        <5>2. CASE Due(s, counts, r) <= legacy[r] + slips
          BY <1>2, <3>1, <3>4, <4>2, <5>1, <5>2
        <5>3. CASE \E i \in Of(text, r) : Due(s, counts, r) <= text[i].count + slips
          <6>1. PICK i \in Of(text, r) : Due(s, counts, r) <= text[i].count + slips
            BY <5>3
          <6>2. text[i].count \in Nat /\ text[i].count < e.count
            BY <2>6, <3>4
          <6> QED  BY <3>1, <4>2, <5>1, <6>1, <6>2
        <5> QED  BY <3>2, <5>2, <5>3
      <4> QED  BY <2>3, <4>1, <4>3
    <3> QED  BY <3>3, <3>4
  <2> QED  BY <2>2, <2>4, <2>5, <2>7 DEF t
<1> QED  BY <1>1, <1>5, <1>6

(* A shard within the bound is read to its end. *)
LEMMA AllRead ==
    ASSUME IndexConstants, IndexInv
    PROVE  /\ shard \in Shards /\ ref_index_text(shard) = shard.lines
           /\ \A i \in 1..Len(shard.lines) : shard.lines[i] \in Entry
<1>1. shard \in Shards /\ crashes \in Nat
  BY DEF IndexInv, TypeOK, Shards
<1>2. Lines(shard) \in Nat
  BY <1>1, LinesNumber
<1>3. Lines(shard) <= ReadMax
  BY <1>1, <1>2 DEF IndexInv, ShardFits, IndexConstants
<1>4. ref_index_text(shard) = shard.lines
  BY <1>2, <1>3 DEF ref_index_text, IndexConstants
<1>5. shard.lines \in Seq(Entry)
  BY <1>1 DEF Shards
<1> QED  BY <1>1, <1>4, <1>5

(* The line of an expansion counts one more than every line before it and  *)
(* than the legacy shard.                                                  *)
LEMMA ExpandedIs ==
    ASSUME IndexConstants, IndexInv, NEW st \in IndexStores, NEW r \in IndexRefs
    PROVE  LET e == ExpandedEntry(st, r)
           IN /\ e \in Entry /\ e.ref = r /\ e.ts = clock + 1
              /\ legacy[r] < e.count /\ e.count <= legacy[r] + expansions[r] + 1
              /\ \A i \in Of(shard.lines, r) : shard.lines[i].count < e.count
<1> DEFINE text == shard.lines
           seen == Of(text, r) # {}
           old == newest_ref_index_entry(text, r)
           folded == seen /\ old.migrated
           P == (IF seen THEN {old.count, IF old.expanded THEN 1 ELSE 0} ELSE {})
                \cup (IF folded THEN {} ELSE {legacy[r]})
           top == legacy[r] + expansions[r]
           e == ExpandedEntry(st, r)
<1>1. ref_index_text(shard) = text /\ text \in Seq(Entry)
  BY AllRead DEF Shards
<1>2. e = [ref |-> r, store |-> st, ts |-> clock + 1, expanded |-> TRUE,
           count |-> MaxOver(P) + 1, migrated |-> TRUE]
  BY <1>1 DEF ExpandedEntry
<1>3. legacy[r] \in Nat /\ expansions[r] \in Nat /\ clock \in Nat /\ top \in Nat
  BY DEF IndexInv, TypeOK
<1>4. \A i \in Of(text, r) : i \in 1..Len(text) /\ text[i].ref = r /\ text[i] \in Entry
  BY <1>1 DEF Of
<1>5. \A i \in Of(text, r) : /\ text[i].count <= top /\ text[i].count \in Nat
                             /\ text[i].migrated => legacy[r] <= text[i].count
                             /\ text[i].expanded => 1 <= text[i].count
  <2>1. \A x \in Entry : x.count \in Nat
    BY DEF Entry
  <2> QED  BY <1>4, <2>1 DEF IndexInv, LinesTrue, LineTrue
<1>6. \A i \in 1..Len(text) : text[i].ts <= clock
  BY DEF IndexInv, LinesTrue, LineTrue
<1>7. seen => /\ old \in Entry /\ old.count \in Nat
              /\ \E i \in Of(text, r) : old.count = text[i].count
              /\ \A i \in Of(text, r) : text[i].count <= old.count
              /\ old.expanded <=> \E i \in Of(text, r) : text[i].expanded
              /\ old.migrated <=> \E i \in Of(text, r) : text[i].migrated
  <2>1. \A x \in Entry : x.count \in Nat
    BY DEF Entry
  <2>2. \A i \in Of(text, r) : text[i].count <= top
    BY <1>5
  <2>3. ASSUME Of(text, r) # {}
        PROVE  /\ old \in Entry
               /\ \E i \in Of(text, r) : old.count = text[i].count
               /\ \A i \in Of(text, r) : text[i].count <= old.count
               /\ old.expanded <=> \E i \in Of(text, r) : text[i].expanded
               /\ old.migrated <=> \E i \in Of(text, r) : text[i].migrated
    <3> HIDE DEF text, top
    <3> QED  BY <1>1, <1>3, <1>6, <2>2, <2>3, NewestIs
  <2> HIDE DEF old
  <2> QED  BY <2>1, <2>3
<1>8. seen => /\ old.count <= top
              /\ old.migrated => legacy[r] <= old.count
              /\ old.expanded => 1 <= old.count
  <2> SUFFICES ASSUME seen PROVE /\ old.count <= top
                                 /\ old.migrated => legacy[r] <= old.count
                                 /\ old.expanded => 1 <= old.count
    OBVIOUS
  <2> HIDE DEF old, top, text
  <2>1. old.count <= top
    BY <1>5, <1>7
  <2>2. ASSUME old.migrated PROVE legacy[r] <= old.count
    <3>1. PICK i \in Of(text, r) : text[i].migrated
      BY <1>7, <2>2
    <3> QED  BY <1>3, <1>5, <1>7, <3>1
  <2>3. ASSUME old.expanded PROVE 1 <= old.count
    <3>1. PICK i \in Of(text, r) : text[i].expanded
      BY <1>7, <2>3
    <3> QED  BY <1>5, <1>7, <3>1
  <2> QED  BY <2>1, <2>2, <2>3
<1>9. P \subseteq 0..top /\ P # {}
  <2> HIDE DEF old, seen
  <2> QED  BY <1>3, <1>7, <1>8
<1>10. MaxOver(P) \in P /\ MaxOver(P) \in Nat /\ \A k \in P : k <= MaxOver(P)
  <2> HIDE DEF P, top
  <2> QED  BY <1>3, <1>9, MaxOverIs
<1> DEFINE m == MaxOver(P)
<1>11. m <= top /\ legacy[r] <= m /\ \A i \in Of(text, r) : text[i].count <= m
  <2>1. m <= top
    BY <1>3, <1>9, <1>10
  <2>2. CASE folded
    <3>1. old.count <= m
      BY <1>10, <2>2
    <3> DEFINE o == old.count
    <3>2. o \in Nat /\ legacy[r] <= o /\ \A i \in Of(text, r) : text[i].count <= o
      BY <1>7, <1>8, <2>2
    <3>3. m \in Nat
      BY <1>10
    <3> HIDE DEF m, o, text
    <3>4. o <= m
      BY <3>1 DEF o
    <3> QED  BY <1>3, <1>5, <2>1, <3>2, <3>3, <3>4
  <2>3. CASE ~folded
    <3>1. legacy[r] <= m
      BY <1>10, <2>3
    <3>2. seen => old.count <= m
      BY <1>10
    <3> HIDE DEF m, old
    <3>3. ASSUME NEW i \in Of(text, r) PROVE text[i].count <= m
      <4>1. seen
        OBVIOUS
      <4> QED  BY <1>5, <1>7, <1>10, <3>2, <4>1 DEF m
    <3> QED  BY <2>1, <3>1, <3>3
  <2> QED  BY <2>2, <2>3
<1> HIDE DEF P, m, top, text, old, seen
<1>12. e.ref = r /\ e.ts = clock + 1 /\ e.count = m + 1 /\ e \in Entry
  BY <1>2, <1>3, <1>10 DEF Entry, m
<1>13. m \in Nat
  BY <1>10 DEF m
<1> HIDE DEF e
<1>14. \A i \in Of(text, r) : text[i].count < e.count
  BY <1>5, <1>11, <1>12, <1>13
<1>15. legacy[r] < e.count /\ e.count <= top + 1
  BY <1>3, <1>11, <1>12, <1>13
<1> QED  BY <1>12, <1>14, <1>15 DEF top, text, e

(* An empty shard. *)
LEMMA IndexInitInv == IndexConstants /\ Init => IndexInv
<1> SUFFICES ASSUME IndexConstants, Init PROVE IndexInv
  OBVIOUS
<1>1. Idle \in [busy : BOOLEAN, ref : IndexRefs, ts : Nat] /\ Idle.ts = 0
  BY DEF Idle, IndexConstants
<1>2. /\ shard = [lines |-> <<>>, junk |-> 0, torn |-> FALSE]
      /\ clock = 0 /\ crashes = 0 /\ expansions = [r \in IndexRefs |-> 0]
      /\ legacy \in [IndexRefs -> Nat] /\ appending = [s \in IndexStores |-> Idle]
  BY DEF Init, IndexConstants
<1>3. TypeOK
  BY <1>1, <1>2 DEF TypeOK
<1>4. Len(shard.lines) = 0 /\ Lines(shard) = 0
  BY <1>2 DEF Lines
<1>5. LinesTrue(shard, expansions, clock) /\ ShardFits(shard, crashes)
  BY <1>2, <1>4 DEF LinesTrue, ShardFits, IndexConstants
<1>6. CountsKept(shard, expansions, crashes)
  BY <1>2 DEF CountsKept, Due
<1> QED  BY <1>1, <1>2, <1>3, <1>5, <1>6 DEF IndexInv, IndexConstants

(* Appending that line with the expansion it stands for keeps lines and    *)
(* counts true.                                                            *)
LEMMA ExpansionAppended ==
    ASSUME IndexConstants, IndexInv, NEW st \in IndexStores, NEW r \in IndexRefs
    PROVE  LET t == append_ref_index_line(shard, ExpandedEntry(st, r))
               more == [expansions EXCEPT ![r] = @ + 1]
           IN /\ t \in Shards /\ LinesTrue(t, more, clock + 1) /\ CountsKept(t, more, crashes)
              /\ Lines(t) <= Lines(shard) + 1 /\ more \in [IndexRefs -> Nat]
<1> DEFINE e == ExpandedEntry(st, r)
           more == [expansions EXCEPT ![r] = @ + 1]
<1>1. /\ shard \in Shards /\ legacy \in [IndexRefs -> Nat] /\ expansions \in [IndexRefs -> Nat]
      /\ clock \in Nat /\ crashes \in Nat
      /\ LinesTrue(shard, expansions, clock) /\ CountsKept(shard, expansions, crashes)
  BY DEF IndexInv, TypeOK, Shards
<1>2. /\ more \in [IndexRefs -> Nat] /\ more[r] = expansions[r] + 1
      /\ \A q \in IndexRefs : q # r => more[q] = expansions[q]
  BY <1>1
<1>3. /\ e \in Entry /\ e.ref = r /\ e.ts = clock + 1
      /\ legacy[r] < e.count /\ e.count <= legacy[r] + expansions[r] + 1
      /\ \A i \in Of(shard.lines, r) : shard.lines[i].count < e.count
  BY ExpandedIs
<1>4. e.count \in Nat /\ legacy[r] \in Nat /\ expansions[r] \in Nat
  BY <1>1, <1>3 DEF Entry
<1> HIDE DEF e, more
<1>5. LineTrue(e, more, clock + 1)
  <2>1. e.ts <= clock + 1
    BY <1>1, <1>3
  <2>2. e.count <= legacy[e.ref] + more[e.ref]
    BY <1>2, <1>3, <1>4
  <2>3. legacy[e.ref] <= e.count /\ 1 <= e.count
    BY <1>3, <1>4
  <2> QED  BY <2>1, <2>2, <2>3 DEF LineTrue
<1>6. clock + 1 \in Nat /\ clock <= clock + 1
  BY <1>1
<1>7. \A q \in IndexRefs : \/ more[q] = expansions[q]
                           \/ /\ q = e.ref /\ more[q] = expansions[q] + 1 /\ legacy[q] < e.count
                              /\ \A i \in Of(shard.lines, q) : shard.lines[i].count < e.count
  BY <1>2, <1>3, Zenon
<1> DEFINE t == append_ref_index_line(shard, e)
<1>8. /\ t \in Shards /\ LinesTrue(t, more, clock + 1) /\ CountsKept(t, more, crashes)
      /\ Lines(t) <= Lines(shard) + 1
  BY <1>1, <1>2, <1>3, <1>5, <1>6, <1>7, LineAppended
<1> QED  BY <1>2, <1>8 DEF e, more

(* What a step leaves of the invariant once its shard is known. *)
LEMMA ShardReplaced ==
    ASSUME legacy' = legacy, legacy \in [IndexRefs -> Nat], shard' \in Shards,
           appending' \in [IndexStores -> [busy : BOOLEAN, ref : IndexRefs, ts : Nat]],
           clock' \in Nat, crashes' \in Nat, crashes' <= MaxTorn,
           expansions' \in [IndexRefs -> Nat],
           \A st \in IndexStores : appending'[st].ts <= clock',
           LinesTrue(shard', expansions', clock'), CountsKept(shard', expansions', crashes'),
           ShardFits(shard', crashes')
    PROVE  IndexInv'
<1>1. TypeOK'
  BY DEF TypeOK, Shards
<1>2. LinesTrue(shard, expansions, clock)' <=> LinesTrue(shard', expansions', clock')
  BY DEF LinesTrue, LineTrue
<1>3. CountsKept(shard, expansions, crashes)' <=> CountsKept(shard', expansions', crashes')
  BY DEF CountsKept, Due
<1>4. ShardFits(shard, crashes)' <=> ShardFits(shard', crashes')
  BY DEF ShardFits, Lines
<1> QED  BY <1>1, <1>2, <1>3, <1>4 DEF IndexInv

(* Every step of the index keeps the invariant. *)
LEMMA IndexStepInv == IndexConstants /\ IndexInv /\ [Next]_indexVars => IndexInv'
<1> SUFFICES ASSUME IndexConstants, IndexInv, [Next]_indexVars PROVE IndexInv'
  OBVIOUS
<1>0. /\ shard \in Shards /\ legacy \in [IndexRefs -> Nat] /\ expansions \in [IndexRefs -> Nat]
      /\ clock \in Nat /\ crashes \in Nat /\ crashes <= MaxTorn /\ MaxTorn \in Nat /\ ReadMax \in Nat
      /\ appending \in [IndexStores -> [busy : BOOLEAN, ref : IndexRefs, ts : Nat]]
      /\ \A st \in IndexStores : appending[st].ts <= clock
      /\ LinesTrue(shard, expansions, clock) /\ CountsKept(shard, expansions, crashes)
      /\ ShardFits(shard, crashes) /\ Lines(shard) \in Nat
  BY LinesNumber DEF IndexInv, TypeOK, Shards, IndexConstants
<1>a. Idle \in [busy : BOOLEAN, ref : IndexRefs, ts : Nat] /\ Idle.ts = 0
  BY DEF Idle, IndexConstants
<1>b. LinesTrue(shard, expansions, clock + 1)
  <2> SUFFICES ASSUME NEW i \in 1..Len(shard.lines) PROVE LineTrue(shard.lines[i], expansions, clock + 1)
    BY DEF LinesTrue
  <2>1. shard.lines[i].ts \in Nat
    <3>1. \A x \in Entry : x.ts \in Nat
      BY DEF Entry
    <3> QED  BY <3>1, AllRead
  <2>2. LineTrue(shard.lines[i], expansions, clock)
    BY <1>0 DEF LinesTrue
  <2> QED  BY <1>0, <2>1, <2>2 DEF LineTrue
<1>c. ASSUME NEW st \in IndexStores, appending' = [appending EXCEPT ![st] = Idle],
             clock' \in Nat, clock <= clock'
      PROVE  /\ appending' \in [IndexStores -> [busy : BOOLEAN, ref : IndexRefs, ts : Nat]]
             /\ \A u \in IndexStores : appending'[u].ts <= clock'
  <2>1. \A u \in IndexStores : appending'[u] = appending[u] \/ appending'[u] = Idle
    BY <1>0, <1>c
  <2>2. appending' \in [IndexStores -> [busy : BOOLEAN, ref : IndexRefs, ts : Nat]]
    BY <1>0, <1>a, <1>c
  <2>3. \A u \in IndexStores : appending[u].ts \in Nat
    BY <1>0
  <2> QED  BY <1>0, <1>a, <1>c, <2>1, <2>2, <2>3
<1>1. ASSUME NEW st \in IndexStores, NEW r \in IndexRefs, AppendBegins(st, r) PROVE IndexInv'
  <2>1. /\ clock' = clock + 1 /\ appending' = [appending EXCEPT ![st] = [busy |-> TRUE, ref |-> r, ts |-> clock + 1]]
        /\ UNCHANGED <<shard, legacy, expansions, crashes>>
    BY <1>1 DEF AppendBegins
  <2>2. \A u \in IndexStores : appending'[u].ts <= clock'
    BY <1>0, <2>1
  <2>3. appending' \in [IndexStores -> [busy : BOOLEAN, ref : IndexRefs, ts : Nat]]
    BY <1>0, <2>1
  <2>4. LinesTrue(shard', expansions', clock') /\ CountsKept(shard', expansions', crashes')
        /\ ShardFits(shard', crashes') /\ shard' \in Shards
    BY <1>0, <1>b, <2>1
  <2> QED  BY <1>0, <2>1, <2>2, <2>3, <2>4, ShardReplaced
<1>2. ASSUME NEW st \in IndexStores, append_blob_refs_to_ref_index(st) PROVE IndexInv'
  <2> DEFINE call == appending[st]
             entry == [ref |-> call.ref, store |-> st, ts |-> call.ts, expanded |-> FALSE,
                       count |-> 0, migrated |-> FALSE]
             t == append_ref_index_line(shard, entry)
  <2>1. /\ shard' = shard \/ shard' = compact_ref_index_if_needed(t)
        /\ appending' = [appending EXCEPT ![st] = Idle]
        /\ UNCHANGED <<legacy, clock, expansions, crashes>>
    BY <1>2 DEF append_blob_refs_to_ref_index
  <2>2. entry \in Entry /\ entry.ts <= clock /\ entry.ref \in IndexRefs
    BY <1>0 DEF Entry
  <2>3. LineTrue(entry, expansions, clock)
    BY <1>0, <2>2 DEF LineTrue
  <2>4. t \in Shards /\ LinesTrue(t, expansions, clock) /\ CountsKept(t, expansions, crashes)
    <3> HIDE DEF entry
    <3> QED  BY <1>0, <2>2, <2>3, LineAppended
  <2> HIDE DEF t
  <2>5. LET d == compact_ref_index_if_needed(t)
        IN d \in Shards /\ LinesTrue(d, expansions, clock) /\ CountsKept(d, expansions, crashes)
           /\ ShardFits(d, crashes)
    BY <1>0, <2>4, IfNeededKeeps
  <2>6. /\ shard' \in Shards /\ LinesTrue(shard', expansions', clock')
        /\ CountsKept(shard', expansions', crashes') /\ ShardFits(shard', crashes')
    BY <1>0, <2>1, <2>5
  <2>7. clock' \in Nat /\ clock <= clock' /\ crashes' \in Nat /\ crashes' <= MaxTorn
        /\ expansions' \in [IndexRefs -> Nat] /\ legacy' = legacy
    BY <1>0, <2>1
  <2>8. /\ appending' \in [IndexStores -> [busy : BOOLEAN, ref : IndexRefs, ts : Nat]]
        /\ \A u \in IndexStores : appending'[u].ts <= clock'
    BY <1>c, <2>1, <2>7
  <2> QED  BY <1>0, <2>6, <2>7, <2>8, ShardReplaced
<1>3. ASSUME NEW st \in IndexStores, NEW r \in IndexRefs, record_ref_index_expanded(st, r) PROVE IndexInv'
  <2> DEFINE t == append_ref_index_line(shard, ExpandedEntry(st, r))
             more == [expansions EXCEPT ![r] = @ + 1]
  <2>1. /\ clock' = clock + 1 /\ shard' = compact_ref_index_if_needed(t) /\ expansions' = more
        /\ UNCHANGED <<legacy, appending, crashes>>
    BY <1>3 DEF record_ref_index_expanded
  <2>2. /\ t \in Shards /\ LinesTrue(t, more, clock + 1) /\ CountsKept(t, more, crashes)
        /\ more \in [IndexRefs -> Nat]
    BY ExpansionAppended
  <2>0. clock + 1 \in Nat
    BY <1>0
  <2> HIDE DEF t, more
  <2>3. /\ shard' \in Shards /\ LinesTrue(shard', expansions', clock')
        /\ CountsKept(shard', expansions', crashes') /\ ShardFits(shard', crashes')
    BY <1>0, <2>0, <2>1, <2>2, IfNeededKeeps
  <2>4. \A u \in IndexStores : appending[u].ts \in Nat
    BY <1>0
  <2>5. \A u \in IndexStores : appending'[u].ts <= clock'
    BY <1>0, <2>1, <2>4
  <2> QED  BY <1>0, <2>0, <2>1, <2>2, <2>3, <2>5, ShardReplaced
<1>4. ASSUME NEW st \in IndexStores, CrashInAppend(st) PROVE IndexInv'
  <2>1. /\ crashes < MaxTorn /\ crashes' = crashes + 1 /\ clock' = clock + 1
        /\ shard' = TornLine(shard) /\ appending' = [appending EXCEPT ![st] = Idle]
        /\ UNCHANGED <<legacy, expansions>>
    BY <1>4 DEF CrashInAppend
  <2>2. shard' = [lines |-> shard.lines, junk |-> shard.junk, torn |-> TRUE]
    <3>1. shard = [lines |-> shard.lines, junk |-> shard.junk, torn |-> shard.torn] /\ shard.torn \in BOOLEAN
      BY <1>0 DEF Shards
    <3>2. CASE shard.torn
      BY <2>1, <3>1, <3>2 DEF TornLine
    <3>3. CASE ~shard.torn
      <4>1. shard' = [shard EXCEPT !.torn = TRUE]
        BY <2>1, <3>3 DEF TornLine
      <4> QED  BY <3>1, <4>1
    <3> QED  BY <3>1, <3>2, <3>3
  <2>3. /\ shard'.lines = shard.lines /\ shard'.junk = shard.junk /\ shard'.torn = TRUE /\ shard' \in Shards
    BY <1>0, <2>2 DEF Shards
  <2>4. Lines(shard') <= Lines(shard) + 1
    <3>1. Len(shard.lines) \in Nat /\ shard.junk \in Nat
      BY <1>0 DEF Shards
    <3> QED  BY <2>3, <3>1 DEF Lines
  <2>5. Lines(shard') \in Nat
    BY <2>3, LinesNumber
  <2>6. ShardFits(shard', crashes')
    BY <1>0, <2>1, <2>4, <2>5 DEF ShardFits
  <2>7. LinesTrue(shard', expansions', clock')
    BY <1>b, <2>1, <2>3 DEF LinesTrue
  <2>8. CountsKept(shard', expansions, crashes + 1)
    <3> SUFFICES ASSUME NEW r \in IndexRefs
                 PROVE  \/ Due(shard', expansions, r) <= legacy[r] + (crashes + 1)
                        \/ \E i \in Of(shard'.lines, r) :
                             Due(shard', expansions, r) <= shard'.lines[i].count + (crashes + 1)
      BY DEF CountsKept
    <3>1. /\ Due(shard', expansions, r) \in Nat /\ Due(shard, expansions, r) \in Nat
          /\ Due(shard', expansions, r) <= Due(shard, expansions, r) + 1
      BY <1>0, <2>3 DEF Due
    <3>2. CASE Due(shard, expansions, r) <= legacy[r] + crashes
      BY <1>0, <3>1, <3>2
    <3>3. CASE \E i \in Of(shard.lines, r) : Due(shard, expansions, r) <= shard.lines[i].count + crashes
      <4>1. PICK i \in Of(shard.lines, r) : Due(shard, expansions, r) <= shard.lines[i].count + crashes
        BY <3>3
      <4>2. shard.lines[i].count \in Nat
        <5>1. shard.lines[i] \in Entry
          BY AllRead DEF Of
        <5> QED  BY <5>1 DEF Entry
      <4>3. Due(shard', expansions, r) <= shard'.lines[i].count + (crashes + 1)
        BY <1>0, <2>3, <3>1, <4>1, <4>2
      <4> QED  BY <2>3, <4>3
    <3> QED  BY <1>0, <3>2, <3>3 DEF CountsKept
  <2>9. crashes' \in Nat /\ crashes' <= MaxTorn /\ clock' \in Nat /\ clock <= clock'
    BY <1>0, <2>1
  <2>10. CountsKept(shard', expansions', crashes') /\ expansions' \in [IndexRefs -> Nat] /\ legacy' = legacy
    BY <1>0, <2>1, <2>8
  <2>11. /\ appending' \in [IndexStores -> [busy : BOOLEAN, ref : IndexRefs, ts : Nat]]
         /\ \A u \in IndexStores : appending'[u].ts <= clock'
    BY <1>c, <2>1, <2>9
  <2> QED  BY <1>0, <2>3, <2>6, <2>7, <2>9, <2>10, <2>11, ShardReplaced
<1>5. ASSUME NEW st \in IndexStores, NEW r \in IndexRefs, CrashBeforeRename(st, r) PROVE IndexInv'
  <2> DEFINE t == append_ref_index_line(shard, ExpandedEntry(st, r))
             more == [expansions EXCEPT ![r] = @ + 1]
  <2>1. /\ crashes < MaxTorn /\ crashes' = crashes + 1 /\ clock' = clock + 1
        /\ shard' = t /\ expansions' = more /\ appending' = [appending EXCEPT ![st] = Idle]
        /\ legacy' = legacy
    BY <1>5 DEF CrashBeforeRename
  <2>2. /\ t \in Shards /\ LinesTrue(t, more, clock + 1) /\ CountsKept(t, more, crashes)
        /\ more \in [IndexRefs -> Nat] /\ Lines(t) <= Lines(shard) + 1
    BY ExpansionAppended
  <2> HIDE DEF t, more
  <2>3. Lines(t) \in Nat
    BY <2>2, LinesNumber
  <2>4. ShardFits(shard', crashes')
    BY <1>0, <2>1, <2>2, <2>3 DEF ShardFits
  <2>5. CountsKept(t, more, crashes + 1)
    <3> SUFFICES ASSUME NEW q \in IndexRefs
                 PROVE  \/ Due(t, more, q) <= legacy[q] + (crashes + 1)
                        \/ \E i \in Of(t.lines, q) : Due(t, more, q) <= t.lines[i].count + (crashes + 1)
      BY DEF CountsKept
    <3>1. Due(t, more, q) \in Nat /\ legacy[q] \in Nat
      BY <1>0, <2>2 DEF Due
    <3>2. \A i \in Of(t.lines, q) : t.lines[i].count \in Nat
      <4>1. t.lines \in Seq(Entry)
        BY <2>2 DEF Shards
      <4>2. \A x \in Entry : x.count \in Nat
        BY DEF Entry
      <4> QED  BY <4>1, <4>2 DEF Of
    <3>3. \/ Due(t, more, q) <= legacy[q] + crashes
          \/ \E i \in Of(t.lines, q) : Due(t, more, q) <= t.lines[i].count + crashes
      BY <2>2 DEF CountsKept
    <3> QED  BY <1>0, <3>1, <3>2, <3>3
  <2>9. crashes' \in Nat /\ crashes' <= MaxTorn /\ clock' \in Nat /\ clock <= clock'
    BY <1>0, <2>1
  <2>10. /\ LinesTrue(shard', expansions', clock') /\ CountsKept(shard', expansions', crashes')
         /\ shard' \in Shards /\ expansions' \in [IndexRefs -> Nat]
    BY <2>1, <2>2, <2>5
  <2>11. /\ appending' \in [IndexStores -> [busy : BOOLEAN, ref : IndexRefs, ts : Nat]]
         /\ \A u \in IndexStores : appending'[u].ts <= clock'
    BY <1>c, <2>1, <2>9
  <2> QED  BY <1>0, <2>1, <2>4, <2>9, <2>10, <2>11, ShardReplaced
<1>6. CASE UNCHANGED indexVars
  <2>1. UNCHANGED <<shard, legacy, appending, clock, expansions, crashes>>
    BY <1>6 DEF indexVars
  <2> QED  BY <1>0, <2>1, ShardReplaced
<1> QED  BY <1>1, <1>2, <1>3, <1>4, <1>5, <1>6 DEF Next

(* What readers see of such a shard is behind by no more than the crashes. *)
LEMMA IndexInvImplies == IndexConstants /\ IndexInv => CountsTrackExpansions
<1> SUFFICES ASSUME IndexConstants, IndexInv, NEW r \in IndexRefs
             PROVE  /\ ref_index_blob_lru(r) <= legacy[r] + expansions[r]
                    /\ ref_index_blob_lru(r) + crashes >= legacy[r] + expansions[r]
  BY DEF CountsTrackExpansions
<1> DEFINE text == shard.lines
           S == {legacy[r]} \cup {text[i].count : i \in Of(text, r)}
                            \cup {IF text[i].expanded THEN 1 ELSE 0 : i \in Of(text, r)}
           top == legacy[r] + expansions[r]
<1>1. ref_index_blob_lru(r) = MaxOver(S)
  BY AllRead DEF ref_index_blob_lru
<1>2. legacy[r] \in Nat /\ expansions[r] \in Nat /\ crashes \in Nat /\ top \in Nat
  BY DEF IndexInv, TypeOK
<1>3. \A i \in Of(text, r) : text[i].count \in Nat /\ text[i].count <= top
                             /\ (text[i].expanded => 1 <= text[i].count)
  <2>1. \A x \in Entry : x.count \in Nat
    BY DEF Entry
  <2>2. \A i \in Of(text, r) : i \in 1..Len(text) /\ text[i].ref = r /\ text[i] \in Entry
    BY AllRead DEF Of
  <2> QED  BY <2>1, <2>2 DEF IndexInv, LinesTrue, LineTrue
<1>4. S \subseteq 0..top /\ S # {}
  BY <1>2, <1>3
<1>5. MaxOver(S) \in S /\ MaxOver(S) \in Nat /\ \A k \in S : k <= MaxOver(S)
  <2> HIDE DEF S, top
  <2> QED  BY <1>2, <1>4, MaxOverIs
<1> DEFINE m == MaxOver(S)
<1>6. m <= top /\ legacy[r] <= m /\ \A i \in Of(text, r) : text[i].count <= m
  BY <1>2, <1>4, <1>5
<1>7. m \in Nat
  BY <1>5
<1> HIDE DEF m, S
<1>8. Due(shard, expansions, r) \in Nat /\ top <= Due(shard, expansions, r)
  BY <1>2 DEF Due
<1>9. \/ Due(shard, expansions, r) <= legacy[r] + crashes
      \/ \E i \in Of(text, r) : Due(shard, expansions, r) <= text[i].count + crashes
  BY DEF IndexInv, CountsKept
<1>10. top <= m + crashes
  <2> HIDE DEF top, text
  <2> QED  BY <1>2, <1>3, <1>6, <1>7, <1>8, <1>9
<1> QED  BY <1>1, <1>2, <1>6, <1>7, <1>10 DEF m
=============================================================================
