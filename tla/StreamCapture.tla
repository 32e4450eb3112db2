---------------------------- MODULE StreamCapture ----------------------------
(***************************************************************************)
(* Capturing a child's output, crates/tokenzero-runtime/src/lib.rs: each   *)
(* pipe reader keeps a bounded preview in memory and, past a threshold,    *)
(* the whole stream in a spill file; a maintenance pass prunes old spill   *)
(* files while readers may still be writing theirs.                        *)
(*                                                                         *)
(* Byte number i of a stream is i, so a text is the sequence of the        *)
(* numbers of its bytes and the first n bytes are 1, ..., n.               *)
(***************************************************************************)
EXTENDS Integers, Sequences, FiniteSets, FiniteSetsExt

CONSTANTS
  Stream,          \* pipes being read
  CaptureBytes,    \* per_stream_capture_bytes as configured
  SpillBytes,      \* spill_threshold_bytes as configured
  DefaultCapture,  \* DEFAULT_SHELL_CAPTURE_BYTES
  DefaultSpill,    \* DEFAULT_SHELL_SPILL_BYTES
  ChunkSizes,      \* sizes a read may return
  MaxStream,       \* bound: bytes of one stream
  MaxTotal,        \* max_total_bytes of a prune
  MaxTicks         \* bound: writes and prunes of one behaviour

ASSUME CaptureConstants ==
  /\ CaptureBytes \in Nat /\ SpillBytes \in Nat
  /\ DefaultCapture \in Nat \ {0} /\ DefaultSpill \in Nat \ {0}
  /\ ChunkSizes \subseteq Nat \ {0}
  /\ MaxStream \in Nat /\ MaxTotal \in Nat /\ MaxTicks \in Nat

VARIABLES
  pc,        \* Stream -> reading, done or failed
  seen,      \* Stream -> bytes_seen
  captured,  \* Stream -> the preview
  spill,     \* Stream -> the spill file's text, as its writer holds it
  linked,    \* Stream -> the spill file can be found at its path
  mtime,     \* Stream -> when the spill file was last written
  now        \* the file system's clock

vars == <<pc, seen, captured, spill, linked, mtime, now>>

BytesFrom(from, to) == [i \in 1..(to - from) |-> from + i]

Min2(a, b) == IF a < b THEN a ELSE b

-----------------------------------------------------------------------------
(* RunOutputPolicy::normalized *)
capture_limit == IF CaptureBytes = 0 THEN DefaultCapture ELSE CaptureBytes

(* Mutant: the threshold is not lowered to the capture limit. *)
SpillAsConfigured == IF SpillBytes = 0 THEN DefaultSpill ELSE SpillBytes

spill_threshold ==
  Min2(IF SpillBytes = 0 THEN DefaultSpill ELSE SpillBytes, capture_limit)

-----------------------------------------------------------------------------
Preview(s, n) ==
  LET room == IF Len(captured[s]) < capture_limit THEN capture_limit - Len(captured[s]) ELSE 0
  IN  captured[s] \o BytesFrom(seen[s], seen[s] + Min2(n, room))

(* Mutant: the spill starts with the chunk that crossed the threshold. *)
SpillsFromHere(s, n) == spill[s] \o BytesFrom(seen[s], seen[s] + n)

(* SpillWriter::write: a new file starts with the preview of before. *)
Spilled(s, n) ==
  (IF spill[s] = <<>> THEN captured[s] ELSE spill[s]) \o BytesFrom(seen[s], seen[s] + n)

(* One turn of capture_reader_with_observer. *)
Read(s, n) ==
  /\ pc[s] = "reading" /\ seen[s] + n <= MaxStream /\ now < MaxTicks
  /\ seen' = [seen EXCEPT ![s] = @ + n]
  /\ captured' = [captured EXCEPT ![s] = Preview(s, n)]
  /\ IF seen[s] + n > spill_threshold
     THEN /\ spill' = [spill EXCEPT ![s] = Spilled(s, n)]
          /\ linked' = [linked EXCEPT ![s] = IF spill[s] = <<>> THEN TRUE ELSE @]
          /\ mtime' = [mtime EXCEPT ![s] = now + 1]
          /\ now' = now + 1
     ELSE UNCHANGED <<spill, linked, mtime, now>>
  /\ UNCHANGED pc

(* Mutant: the file of a failed reader is kept. *)
KeepsFile(s) ==
  /\ pc[s] = "reading"
  /\ pc' = [pc EXCEPT ![s] = "failed"]
  /\ UNCHANGED <<seen, captured, spill, linked, mtime, now>>

(* A read or a spill write fails: the writer is dropped without retain and *)
(* removes its file.                                                       *)
ReadFails(s) ==
  /\ pc[s] = "reading"
  /\ pc' = [pc EXCEPT ![s] = "failed"]
  /\ linked' = [linked EXCEPT ![s] = FALSE]
  /\ UNCHANGED <<seen, captured, spill, mtime, now>>

(* The end of the stream. *)
Finish(s) ==
  /\ pc[s] = "reading"
  /\ pc' = [pc EXCEPT ![s] = "done"]
  /\ UNCHANGED <<seen, captured, spill, linked, mtime, now>>

truncated(s) == seen[s] > Len(captured[s])

-----------------------------------------------------------------------------
(* prune_spill_dir_bounded: of the files it visited before its budget or   *)
(* deadline ran out, the aged ones, then the oldest while the rest is over *)
(* the byte budget.  A removal may fail.                                   *)
SpillSize(files) == MapThenSumSet(LAMBDA s : Len(spill[s]), files)

Oldest(fresh, k) ==
  {s \in fresh : Cardinality({t \in fresh : mtime[t] < mtime[s]}) < k}

OverBudget(fresh) ==
  Oldest(fresh, CHOOSE k \in 0..Cardinality(fresh) :
                  /\ SpillSize(fresh \ Oldest(fresh, k)) <= MaxTotal
                  /\ \A j \in 0..(k - 1) : SpillSize(fresh \ Oldest(fresh, j)) > MaxTotal)

prune_spill_dir(visited, cutoff) ==
  LET aged  == {s \in visited : mtime[s] < cutoff}
      fresh == visited \ aged
  IN
  /\ visited \subseteq {s \in Stream : linked[s]}
  /\ now < MaxTicks
  /\ \E removed \in SUBSET (aged \cup OverBudget(fresh)) :
       linked' = [s \in Stream |-> linked[s] /\ s \notin removed]
  /\ now' = now + 1
  /\ UNCHANGED <<pc, seen, captured, spill, mtime>>

-----------------------------------------------------------------------------
Init ==
  /\ pc = [s \in Stream |-> "reading"]
  /\ seen = [s \in Stream |-> 0]
  /\ captured = [s \in Stream |-> <<>>]
  /\ spill = [s \in Stream |-> <<>>]
  /\ linked = [s \in Stream |-> FALSE]
  /\ mtime = [s \in Stream |-> 0]
  /\ now = 0

Next ==
  \/ \E s \in Stream : \/ \E n \in ChunkSizes : Read(s, n)
                       \/ ReadFails(s) \/ Finish(s)
  \/ \E visited \in SUBSET Stream, cutoff \in 0..MaxTicks : prune_spill_dir(visited, cutoff)

Spec == Init /\ [][Next]_vars

-----------------------------------------------------------------------------
TypeOK ==
  /\ pc \in [Stream -> {"reading", "done", "failed"}]
  /\ seen \in [Stream -> Nat]
  /\ captured \in [Stream -> Seq(Nat)]
  /\ spill \in [Stream -> Seq(Nat)]
  /\ linked \in [Stream -> BOOLEAN]
  /\ mtime \in [Stream -> Nat]
  /\ now \in Nat

(* No byte the reader saw is out of reach: the preview is the beginning of *)
(* the stream, and when it is not all of it the spill file is, wherever    *)
(* the chunks were cut and whatever limits were configured.                *)
NothingLost ==
  \A s \in Stream :
    /\ captured[s] = BytesFrom(0, Len(captured[s]))
    /\ truncated(s) => spill[s] = BytesFrom(0, seen[s])

(* A spill file that can be found holds a stream from its first byte, as   *)
(* far as its reader got; a failed reader leaves none behind.              *)
SpillFilesWhole ==
  \A s \in Stream :
    linked[s] => pc[s] # "failed" /\ spill[s] = BytesFrom(0, seen[s])

-----------------------------------------------------------------------------
(* The preview is as long as the stream or the limit; a spill exists from  *)
(* the threshold on and holds everything seen.                             *)
StreamInv(s) ==
  /\ captured[s] = BytesFrom(0, Min2(seen[s], capture_limit))
  /\ spill[s] = IF seen[s] > spill_threshold THEN BytesFrom(0, seen[s]) ELSE <<>>
  /\ linked[s] => pc[s] # "failed" /\ seen[s] > spill_threshold

CaptureInv == TypeOK /\ \A s \in Stream : StreamInv(s)
=============================================================================
