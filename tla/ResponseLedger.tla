--------------------------- MODULE ResponseLedger ---------------------------
(***************************************************************************)
(* The JSONL ledger of served responses: several engine processes append   *)
(* to one active file, rotate it into numbered generations under a file    *)
(* lock and drop the oldest ones; inside a process a writer switches from  *)
(* direct writes to a buffer that a scheduler thread flushes.              *)
(***************************************************************************)
EXTENDS Integers, Sequences, FiniteSets, SequencesExt, FiniteSetsExt, Functions

CONSTANTS Threads,          \* the callers of record_response
          Owner,            \* the process each of them runs in
          MaxRecords,       \* responses each process serves (bound)
          Generations,      \* TOKENZERO_LEDGER_MAX_GENERATIONS
          MaxBytes,         \* size at which the active file rotates
          TotalBytes,       \* size of all generations together
          FlushBytes,       \* LEDGER_FLUSH_BYTES
          MaxWriteFaults    \* failing writes (bound)

VARIABLES path,       \* generation -> file, 0 is ledger.jsonl
          content,    \* file -> lines
          writer,     \* the LedgerWriter and LedgerIo of each process
          io,         \* owner of the writer's `io` mutex
          append,     \* the response each caller is recording
          registry,   \* targets and generation of the flush scheduler
          sched,      \* the scheduler thread
          taken,      \* lines that reached a buffer or a file, in order
          dropped,    \* lines on generations the size limits removed
          writeFaults

ledgerVars == <<path, content, writer, io, append, registry, sched, taken,
                dropped, writeFaults>>

Procs == Range(Owner)
NoFile == 0
NoThread == "none"
Files == 1..FoldFunction(LAMBDA a, b : a + b, 0, MaxRecords)
Gens == 0..Generations
Lines == [who: Procs, cumulative: 1..Max(Range(MaxRecords)), size: {1, FlushBytes}]

Size(lines) == Len(lines) + (FlushBytes - 1) * Len(SelectSeq(lines, LAMBDA l : l.size = FlushBytes))
Idle == [pc |-> "idle", size |-> 1, cumulative |-> 0]

Init ==
  /\ path = [g \in Gens |-> NoFile]
  /\ content = [f \in Files |-> <<>>]
  /\ writer = [p \in Procs |-> [mode |-> "first", cumulative |-> 0,
                                handle |-> NoFile, buf |-> <<>>, at |-> "none"]]
  /\ io = [p \in Procs |-> NoThread]
  /\ append = [t \in Threads |-> Idle]
  /\ registry = [p \in Procs |-> [target |-> FALSE, generation |-> 0, failed |-> FALSE]]
  /\ sched = [p \in Procs |-> [pc |-> "unstarted", seen |-> 0, active |-> FALSE,
                               deadline |-> FALSE]]
  /\ taken = [p \in Procs |-> <<>>]
  /\ dropped = [p \in Procs |-> <<>>]
  /\ writeFaults = 0

Alive(p) == writer[p].mode # "closed"
LineOf(t) == [who |-> Owner[t], cumulative |-> append[t].cumulative,
              size |-> append[t].size]

(***************************************************************************)
(* The file: what one locked write does to it                              *)
(***************************************************************************)
SizeOf(f) == IF f = NoFile THEN 0 ELSE Size(content[f])

\* mutant: the retained handle is trusted without comparing inodes
TrustHandle(h) == h # NoFile

\* A retained handle is only used while it is the file at the path.
open_file_matches_path(h) == h # NoFile /\ h = path[0]

\* The last generation is removed and the others move up by one name.
rotate_ledger(pt) == [g \in Gens |-> IF g = 0 THEN NoFile ELSE pt[g - 1]]

\* The oldest generations go until the rest fits the total.
enforce_ledger_total_bytes(pt, size) ==
  LET total[k \in Gens] == IF k = 0 THEN size[0] ELSE total[k - 1] + size[k]
      fits == {k \in Gens : total[k] <= TotalBytes}
      keep == IF fits = {} THEN 0 ELSE Max(fits)
  IN [g \in Gens |-> IF g <= keep THEN pt[g] ELSE NoFile]

Unused == Files \ (Range(path) \cup {f \in Files : content[f] # <<>>})

Mine(lines, p) == SelectSeq(lines, LAMBDA l : l.who = p)
LinesAt(pt, ct, gs) ==
  LET At(g) == IF pt[g] = NoFile \/ g \notin gs THEN <<>> ELSE ct[pt[g]]
      from[g \in Gens] == IF g = 0 THEN At(0) ELSE At(g) \o from[g - 1]
  IN from[Generations]

\* Compare the handle with the path, rotate when the bytes would not fit,
\* and open the file at the path, a new one if there is none.
OpenFor(handle, lines) ==
  LET full == SizeOf(path[0]) > 0 /\ SizeOf(path[0]) + Size(lines) > MaxBytes
      rotated == IF full THEN rotate_ledger(path) ELSE path
  IN IF ~full /\ open_file_matches_path(handle)
     THEN [file |-> handle, path |-> path]
     ELSE LET file == IF rotated[0] # NoFile THEN rotated[0] ELSE Min(Unused)
          IN [file |-> file, path |-> [rotated EXCEPT ![0] = file]]

\* The whole write, under the rotation lock: open, append, enforce the total.
\* `outcome` is how far it got.
write_bytes_locked(p, lines, outcome) ==
  IF outcome = "failed"
  THEN /\ writeFaults < MaxWriteFaults
       /\ writeFaults' = writeFaults + 1
       /\ UNCHANGED <<path, content, dropped>>
  ELSE
    /\ outcome = "late" => writeFaults < MaxWriteFaults
    /\ writeFaults' = IF outcome = "late" THEN writeFaults + 1 ELSE writeFaults
    /\ \E opened \in {OpenFor(writer[p].handle, lines)} :
       \E written \in {[content EXCEPT ![opened.file] = @ \o lines]} :
       \E size \in {[g \in Gens |-> IF opened.path[g] = NoFile THEN 0
                                    ELSE Size(written[opened.path[g]])]} :
       \E kept \in {IF outcome = "late" THEN opened.path
                    ELSE enforce_ledger_total_bytes(opened.path, size)} :
       \E lost \in {Range(path) \ Range(kept)} :
         /\ path' = kept
         /\ content' = [f \in Files |-> IF f \in lost THEN <<>> ELSE written[f]]
         /\ dropped' = [q \in Procs |->
              dropped[q] \o Mine(LinesAt(path, content, {g \in Gens : path[g] \in lost}), q)]

Handle(outcome) == IF outcome = "failed" THEN NoFile ELSE path'[0]
Outcomes == {"written", "failed", "late"}

\* flush_locked: write the buffer; only a clean write empties it.
flush_locked(p, outcome) ==
  /\ write_bytes_locked(p, writer[p].buf, outcome)
  /\ writer' = [writer EXCEPT
       ![p].handle = Handle(outcome),
       ![p].buf = IF outcome = "written" THEN <<>> ELSE @,
       ![p].at = IF outcome = "written" THEN "none" ELSE @]

(***************************************************************************)
(* Recording a response                                                    *)
(***************************************************************************)
\* record_response of a response with accounting, up to the stamp: the total
\* is advanced under the io lock, which is kept until the line is placed.
record_response(t) ==
  LET p == Owner[t]
  IN /\ append[t].pc = "idle" /\ Alive(p)
     /\ io[p] = NoThread
     /\ writer[p].cumulative < MaxRecords[p]
     /\ io' = [io EXCEPT ![p] = t]
     /\ writer' = [writer EXCEPT ![p].cumulative = @ + 1]
     /\ \E s \in {1, FlushBytes} :
          append' = [append EXCEPT ![t] = [pc |-> "write", size |-> s,
                                           cumulative |-> writer[p].cumulative + 1]]
     /\ UNCHANGED <<path, content, registry, sched, taken, dropped, writeFaults>>

Release(t, pc) ==
  /\ append' = [append EXCEPT ![t] = IF pc = "idle" THEN Idle ELSE [@ EXCEPT !.pc = pc]]
  /\ io' = [io EXCEPT ![Owner[t]] = IF pc \in {"idle", "register"} THEN NoThread ELSE @]

Take(t) == taken' = [taken EXCEPT ![Owner[t]] = Append(@, LineOf(t))]

\* Direct mode: the first record, and any large one, is written at once; the
\* caller learns of a failure.
WriteDirect(t) ==
  LET p == Owner[t]
  IN /\ append[t].pc = "write"
     /\ \/ writer[p].mode = "first"
        \/ writer[p].mode = "direct" /\ append[t].size >= FlushBytes
     /\ \E o \in Outcomes :
          /\ write_bytes_locked(p, <<LineOf(t)>>, o)
          /\ writer' = [writer EXCEPT ![p].handle = Handle(o),
                                      ![p].mode = IF o = "written" THEN "direct" ELSE @]
          /\ IF o = "failed" THEN UNCHANGED taken ELSE Take(t)
     /\ Release(t, "idle")
     /\ UNCHANGED <<registry, sched>>

\* The second small record turns the writer to its buffered mode.
StartBuffering(t) ==
  LET p == Owner[t]
  IN /\ append[t].pc = "write"
     /\ writer[p].mode = "direct" /\ append[t].size < FlushBytes
     /\ writer' = [writer EXCEPT ![p].mode = "buffered",
                                 ![p].buf = <<LineOf(t)>>, ![p].at = "fresh"]
     /\ Take(t)
     /\ Release(t, "register")
     /\ UNCHANGED <<path, content, registry, sched, dropped, writeFaults>>

\* LedgerIo::append that must flush first: a large line, or a full buffer.
AppendFlush(t) ==
  LET p == Owner[t]
  IN /\ append[t].pc = "write" /\ writer[p].mode = "buffered"
     /\ writer[p].buf # <<>>
     /\ \/ append[t].size >= FlushBytes
        \/ Size(writer[p].buf) + append[t].size > FlushBytes
     /\ \E o \in Outcomes :
          /\ flush_locked(p, o)
          /\ IF o = "written" THEN UNCHANGED <<append, io>> ELSE Release(t, "idle")
     /\ UNCHANGED <<registry, sched, taken>>

\* A large line goes past the (now empty) buffer.
AppendLarge(t) ==
  LET p == Owner[t]
  IN /\ append[t].pc = "write" /\ writer[p].mode = "buffered"
     /\ append[t].size >= FlushBytes /\ writer[p].buf = <<>>
     /\ \E o \in Outcomes :
          /\ write_bytes_locked(p, <<LineOf(t)>>, o)
          /\ writer' = [writer EXCEPT ![p].handle = Handle(o), ![p].at = "none"]
          /\ IF o = "failed" THEN UNCHANGED taken ELSE Take(t)
     /\ Release(t, "idle")
     /\ UNCHANGED <<registry, sched>>

\* A small line joins the buffer; one that starts a flush window wakes the
\* scheduler.
AppendSmall(t) ==
  LET p == Owner[t]
      starts == writer[p].buf = <<>>
  IN /\ append[t].pc = "write" /\ writer[p].mode = "buffered"
     /\ Size(writer[p].buf) + append[t].size <= FlushBytes
     /\ append[t].size < FlushBytes
     /\ writer' = [writer EXCEPT ![p].buf = Append(@, LineOf(t)),
                                 ![p].at = IF starts THEN "fresh" ELSE @]
     /\ Take(t)
     /\ Release(t, IF starts THEN "wake" ELSE "idle")
     /\ UNCHANGED <<path, content, registry, sched, dropped, writeFaults>>

\* register_flush_target and wake_flush_scheduler: start the thread the first
\* time, bump the generation under the registry lock, then notify.
wake_flush_scheduler(t) ==
  LET p == Owner[t]
  IN /\ append[t].pc \in {"wake", "register"} /\ ~registry[p].failed
     /\ registry' = [registry EXCEPT ![p].generation = @ + 1,
                                     ![p].target = @ \/ append[t].pc = "register"]
     /\ sched' = [sched EXCEPT ![p].pc = IF @ \in {"unstarted", "wait"} THEN "scan" ELSE @]
     /\ Release(t, "idle")
     /\ UNCHANGED <<path, content, writer, taken, dropped, writeFaults>>

\* The scheduler thread could not be started, now or earlier: flush at once
\* and report an error.
WakeFailed(t) ==
  LET p == Owner[t]
  IN /\ append[t].pc \in {"wake", "register"} /\ sched[p].pc = "unstarted"
     /\ registry' = [registry EXCEPT ![p].failed = TRUE]
     /\ \E o \in Outcomes : flush_locked(p, o)
     /\ Release(t, "idle")
     /\ UNCHANGED <<sched, taken>>

(***************************************************************************)
(* The scheduler thread of a process                                       *)
(***************************************************************************)
Scan(p) ==
  /\ sched[p].pc = "scan"
  /\ sched' = [sched EXCEPT ![p] = [pc |-> "flush", seen |-> registry[p].generation,
                 active |-> registry[p].target /\ Alive(p), deadline |-> FALSE]]
  /\ UNCHANGED <<path, content, writer, io, append, registry, taken, dropped, writeFaults>>

\* flush_if_due: a failed flush keeps the bytes and opens a new window.
flush_if_due(p) ==
  /\ sched[p].pc = "flush"
  /\ sched' = [sched EXCEPT ![p].pc = "deadline"]
  /\ IF sched[p].active /\ writer[p].at = "due"
     THEN IF writer[p].buf = <<>>
          THEN /\ writer' = [writer EXCEPT ![p].at = "none"]
               /\ UNCHANGED <<path, content, dropped, writeFaults>>
          ELSE \E o \in Outcomes :
                 /\ write_bytes_locked(p, writer[p].buf, o)
                 /\ writer' = [writer EXCEPT
                      ![p].handle = Handle(o),
                      ![p].buf = IF o = "written" THEN <<>> ELSE @,
                      ![p].at = IF o = "written" THEN "none" ELSE "fresh"]
     ELSE UNCHANGED <<path, content, writer, dropped, writeFaults>>
  /\ UNCHANGED <<io, append, registry, taken>>

flush_deadline(p) ==
  /\ sched[p].pc = "deadline"
  /\ sched' = [sched EXCEPT ![p].pc = "decide",
                            ![p].deadline = sched[p].active /\ writer[p].at # "none"]
  /\ UNCHANGED <<path, content, writer, io, append, registry, taken, dropped, writeFaults>>

\* mutant: the scheduler sleeps without looking at the generation again
SleepAnyway(p) ==
  /\ sched[p].pc = "decide"
  /\ sched' = [sched EXCEPT ![p].pc = "wait"]
  /\ UNCHANGED <<path, content, writer, io, append, registry, taken, dropped, writeFaults>>

\* Wait only if nothing was registered or woken since the scan.
WaitOrRescan(p) ==
  /\ sched[p].pc = "decide"
  /\ sched' = [sched EXCEPT ![p].pc =
                 IF registry[p].generation # sched[p].seen THEN "scan" ELSE "wait"]
  /\ UNCHANGED <<path, content, writer, io, append, registry, taken, dropped, writeFaults>>

WaitTimeout(p) ==
  /\ sched[p].pc = "wait" /\ sched[p].deadline
  /\ sched' = [sched EXCEPT ![p].pc = "scan"]
  /\ UNCHANGED <<path, content, writer, io, append, registry, taken, dropped, writeFaults>>

\* LEDGER_FLUSH_WINDOW passes.
WindowPasses(p) ==
  /\ writer[p].at = "fresh"
  /\ writer' = [writer EXCEPT ![p].at = "due"]
  /\ UNCHANGED <<path, content, io, append, registry, sched, taken, dropped, writeFaults>>

(***************************************************************************)
(* End of a process                                                        *)
(***************************************************************************)
Quiet(p) == \A t \in Threads : Owner[t] = p => append[t] = Idle

\* Drop of the writer flushes, ignoring a failure.
Close(p) ==
  /\ Alive(p) /\ Quiet(p)
  /\ IF writer[p].buf = <<>>
     THEN UNCHANGED <<path, content, dropped, writeFaults>>
     ELSE \E o \in Outcomes : write_bytes_locked(p, writer[p].buf, o)
  /\ writer' = [writer EXCEPT ![p].mode = "closed", ![p].buf = <<>>,
                              ![p].at = "none", ![p].handle = NoFile]
  /\ UNCHANGED <<io, append, registry, sched, taken>>

\* The process is killed: its buffer is gone.
Kill(p) ==
  /\ Alive(p)
  /\ writer' = [writer EXCEPT ![p].mode = "closed", ![p].buf = <<>>,
                              ![p].at = "none", ![p].handle = NoFile]
  /\ append' = [t \in Threads |-> IF Owner[t] = p THEN Idle ELSE append[t]]
  /\ io' = [io EXCEPT ![p] = NoThread]
  /\ UNCHANGED <<path, content, registry, sched, taken, dropped, writeFaults>>

Next ==
  \/ \E t \in Threads :
       \/ record_response(t) \/ WriteDirect(t) \/ StartBuffering(t)
       \/ AppendFlush(t) \/ AppendLarge(t) \/ AppendSmall(t)
       \/ wake_flush_scheduler(t) \/ WakeFailed(t)
  \/ \E p \in Procs :
       \/ Scan(p) \/ flush_if_due(p) \/ flush_deadline(p) \/ WaitOrRescan(p)
       \/ WaitTimeout(p) \/ WindowPasses(p) \/ Close(p) \/ Kill(p)

Spec == Init /\ [][Next]_ledgerVars

(***************************************************************************)
(* What the readers make of the files                                      *)
(***************************************************************************)
\* read_records: every generation, oldest first, then the active file.
read_records == LinesAt(path, content, Gens)

\* task_cost_report groups by session, query_ledger by repository, agent or
\* version; aggregate_token_mass takes all. A line counts its mass, here 1.
task_cost_report(p) == Len(Mine(read_records, p))
query_ledger(ps) == Len(SelectSeq(read_records, LAMBDA l : l.who \in ps))
aggregate_token_mass == Len(read_records)

TypeOK ==
  /\ path \in [Gens -> {NoFile} \cup Files]
  /\ content \in [Files -> Seq(Lines)]
  /\ io \in [Procs -> Threads \cup {NoThread}]
  /\ \A p \in Procs : /\ writer[p].mode \in {"first", "direct", "buffered", "closed"}
                      /\ writer[p].at \in {"none", "fresh", "due"}
                      /\ writer[p].handle \in {NoFile} \cup Files

\* Keep the first of equal lines: a flush that failed after its bytes were
\* written is repeated.
FirstOnly(s) ==
  FoldLeft(LAMBDA acc, l : IF l \in Range(acc) THEN acc ELSE Append(acc, l), <<>>, s)

\* What a session recorded is exactly what the size limits removed, followed
\* by what a reader finds (whichever process rotated the file under which
\* handle) and what its buffer still holds, in the order of the running
\* totals; a dead session may only miss a tail, and no generation outgrows
\* the limit. (write_bytes_locked, open_file_matches_path,
\* append_stamped_record: "increment order matches durable JSONL order".)
ServedSequenceKept ==
  \A p \in Procs :
    LET found == FirstOnly(dropped[p] \o Mine(read_records, p) \o writer[p].buf)
    IN /\ IF Alive(p) THEN found = taken[p] ELSE IsPrefix(found, taken[p])
       /\ \A i, j \in 1..Len(found) : i < j => found[i].cumulative < found[j].cumulative
       /\ writeFaults = 0 => task_cost_report(p) <= writer[p].cumulative
       /\ query_ledger({p}) + query_ledger(Procs \ {p}) = aggregate_token_mass
       /\ \A g \in Gens : SizeOf(path[g]) <= MaxBytes

\* A buffer is never forgotten: while it holds lines, the scheduler of the
\* process is not asleep without a deadline, unless a caller is about to
\* wake it. (run_flush_scheduler, LedgerIo::append.)
BufferHasWaker ==
  \A p \in Procs :
    /\ sched[p].pc = "wait" /\ ~sched[p].deadline
    /\ writer[p].buf # <<>>
    => \E t \in Threads : Owner[t] = p /\ append[t].pc \in {"wake", "register"}
=============================================================================
