---------------------------- MODULE ProcessRuntime ----------------------------
(***************************************************************************)
(* Running shell children, crates/tokenzero-runtime/src/lib.rs: commands   *)
(* run side by side, each with a child process tree, two pipe readers and  *)
(* perhaps a stdin writer.  The readers and writers are jobs of one fixed  *)
(* pool of I/O threads shared by all commands.                             *)
(*                                                                         *)
(* A child is what it needs: it exits once the jobs that serve the pipes   *)
(* it waits on have started.  A descendant that left the process group     *)
(* keeps the pipes open after every signal.  Time is the freedom of a      *)
(* deadline to pass.                                                       *)
(***************************************************************************)
EXTENDS Naturals, Sequences, FiniteSets

CONSTANTS
  Commands,   \* commands run side by side
  Threads,    \* io_pool_size
  Needs,      \* sets of pipes a child may wait on before it exits
  Stdin,      \* commands that are given an input
  Deadlines,  \* commands whose timeout may pass
  Cancels,    \* commands that may be cancelled
  Escapes,    \* commands with a descendant that may leave the process group
  RuntimeFaults      \* "spawn": no child; "identity": the hub cannot settle a child

Pipe == {"stdin", "stdout", "stderr"}

ASSUME RuntimeConstants ==
  /\ Threads \in Nat \ {0}
  /\ Needs \subseteq SUBSET Pipe
  /\ Stdin \subseteq Commands
  /\ RuntimeFaults \subseteq {"spawn", "identity"}
  /\ Deadlines \subseteq Commands /\ Cancels \subseteq Commands /\ Escapes \subseteq Commands

VARIABLES
  queue,    \* jobs no thread has taken, in order
  job,      \* Command -> Pipe -> none, queued, running, done, broken
  stage,    \* Command -> where run_command is
  child,    \* Command -> the root process: none, running, exited, killed
  open,     \* Command -> who holds the pipes: "none", "tree" or "escaped"
  need,     \* Command -> the pipes the child waits on
  forced,   \* Command -> why the tree was terminated: none, timeout, cancel
  settled,  \* Command -> the hub gave a terminal status
  late,     \* Command -> some job had no result when its deadline passed
  result    \* Command -> what run_command returned

runtimeVars == <<queue, job, stage, child, open, need, forced, settled, late, result>>

NoResult == [kind |-> "none", timed_out |-> FALSE, io_grace_expired |-> FALSE]

Used(c) == IF c \in Stdin THEN Pipe ELSE Pipe \ {"stdin"}
Finished(c, k) == job[c][k] \in {"done", "broken"}
AllFinished(c) == \A k \in Used(c) : Finished(c, k)

Running == {x \in Commands \X Pipe : job[x[1]][x[2]] = "running"}

-----------------------------------------------------------------------------
(* The child, as the code sees it (zero_process owns it).                  *)

(* signal_tree reaches the process group, never an escaped process.  The   *)
(* root is reaped and the group swept, unless the hub cannot prove the     *)
(* child's identity.                                                       *)
(* Mutant: only the root is killed. *)
KillsRootOnly(c) ==
  /\ child' = [child EXCEPT ![c] = IF @ = "running" THEN "killed" ELSE @]
  /\ UNCHANGED open

TreeGone(c) ==
  /\ child' = [child EXCEPT ![c] = IF @ = "running" THEN "killed" ELSE @]
  /\ open' = [open EXCEPT ![c] = IF @ = "tree" THEN "none" ELSE @]

IdentityLost == "identity" \in RuntimeFaults /\ UNCHANGED <<child, open>>

signal_tree(c) == TreeGone(c) \/ IdentityLost

ChildExits(c) ==
  /\ child[c] = "running"
  /\ \A k \in need[c] \cap Used(c) : job[c][k] \notin {"none", "queued"}
  /\ child' = [child EXCEPT ![c] = "exited"]
  /\ open' \in {[open EXCEPT ![c] = o] :
                  o \in {"none", "tree"} \cup (IF c \in Escapes THEN {"escaped"} ELSE {})}
  /\ UNCHANGED <<queue, job, stage, need, forced, settled, late, result>>

-----------------------------------------------------------------------------
(* The I/O pool.                                                           *)

Submitted(c, k) ==
  /\ queue' = Append(queue, <<c, k>>)
  /\ job' = [job EXCEPT ![c][k] = "queued"]

(* io_pool_worker takes the oldest job. *)
io_pool_worker ==
  /\ queue # <<>>
  /\ Cardinality(Running) < Threads
  /\ LET x == Head(queue) IN job' = [job EXCEPT ![x[1]][x[2]] = "running"]
  /\ queue' = Tail(queue)
  /\ UNCHANGED <<stage, child, open, need, forced, settled, late, result>>

(* capture_reader_with_observer returns at the end of the stream. *)
ReaderFinishes(c, k) ==
  /\ k # "stdin" /\ job[c][k] = "running"
  /\ child[c] # "running" /\ open[c] = "none"
  /\ job' = [job EXCEPT ![c][k] = "done"]
  /\ UNCHANGED <<queue, stage, child, open, need, forced, settled, late, result>>

(* write_all ends when the child read everything, or with a broken pipe    *)
(* when nobody is left to read.                                            *)
WriterFinishes(c) ==
  /\ job[c]["stdin"] = "running"
  /\ \/ "stdin" \in need[c] /\ job' = [job EXCEPT ![c]["stdin"] = "done"]
     \/ /\ child[c] # "running" /\ open[c] = "none" /\ "stdin" \notin need[c]
        /\ job' = [job EXCEPT ![c]["stdin"] = "broken"]
  /\ UNCHANGED <<queue, stage, child, open, need, forced, settled, late, result>>

-----------------------------------------------------------------------------
(* run_command: spawn, submit the readers and the writer, wait.            *)

(* Invalid input, or a spawn or pipe that fails: nothing is left running. *)
SpawnFails(c) ==
  /\ "spawn" \in RuntimeFaults
  /\ stage[c] = "idle"
  /\ stage' = [stage EXCEPT ![c] = "returned"]
  /\ result' = [result EXCEPT ![c] = [NoResult EXCEPT !.kind = "error"]]
  /\ UNCHANGED <<queue, job, child, open, need, forced, settled, late>>

Spawn(c) ==
  /\ stage[c] = "idle"
  /\ \E n \in Needs : need' = [need EXCEPT ![c] = n]
  /\ child' = [child EXCEPT ![c] = "running"]
  /\ open' = [open EXCEPT ![c] = "tree"]
  /\ stage' = [stage EXCEPT ![c] = "stdout"]
  /\ UNCHANGED <<queue, job, forced, settled, late, result>>

(* Mutant: the input is never handed to a writer. *)
ForgetsStdin(c) == [stdout |-> "stderr", stderr |-> "waiting", stdin |-> "waiting"]

NextStage(c) ==
  [stdout |-> "stderr", stderr |-> IF c \in Stdin THEN "stdin" ELSE "waiting",
   stdin |-> "waiting"]

spawn_io_worker(c) ==
  /\ stage[c] \in Pipe
  /\ Submitted(c, stage[c])
  /\ stage' = [stage EXCEPT ![c] = NextStage(c)[stage[c]]]
  /\ UNCHANGED <<child, open, need, forced, settled, late, result>>

(* The wait loop ends: terminal_status, or wait after wait_for_exit. *)
WaitExit(c) ==
  /\ stage[c] = "waiting"
  /\ child[c] = "exited"
  /\ \/ TreeGone(c) /\ settled' = [settled EXCEPT ![c] = TRUE]
     \/ IdentityLost /\ UNCHANGED settled
  /\ stage' = [stage EXCEPT ![c] = "collecting"]
  /\ UNCHANGED <<queue, job, need, forced, late, result>>

(* Mutant: a deadline that passes is not remembered. *)
ForgetsWhy(c, why) ==
  /\ stage[c] = "waiting"
  /\ TreeGone(c) /\ settled' = [settled EXCEPT ![c] = TRUE]
  /\ stage' = [stage EXCEPT ![c] = "collecting"]
  /\ UNCHANGED <<queue, job, need, forced, late, result>>

(* terminate_verified_child: SIGTERM, grace, SIGKILL, reap.  The child may *)
(* have exited since the loop last looked.                                 *)
terminate_verified_child(c, why) ==
  /\ stage[c] = "waiting"
  /\ \/ TreeGone(c) /\ settled' = [settled EXCEPT ![c] = TRUE]
     \/ IdentityLost /\ UNCHANGED settled
  /\ forced' = [forced EXCEPT ![c] = why]
  /\ stage' = [stage EXCEPT ![c] = "collecting"]
  /\ UNCHANGED <<queue, job, need, late, result>>

TimesOut(c) == c \in Deadlines /\ terminate_verified_child(c, "timeout")
Cancelled(c) == c \in Cancels /\ terminate_verified_child(c, "cancel")

-----------------------------------------------------------------------------
(* collect_process_io: three rounds of polling with the tree signalled in  *)
(* between, and the result.                                                *)

(* Mutant: the reason of the termination is returned as the outcome. *)
ReportsWhy(c) == [NoResult EXCEPT !.kind = forced[c]]

(* A missing job or a write error nobody may ignore is an error of the     *)
(* collection; then the settlement error, then the cancellation count.     *)
Outcome(c) ==
  LET missing == ~AllFinished(c)
      broken  == job[c]["stdin"] = "broken" /\ forced[c] = "none" /\ ~late[c]
  IN
  IF missing \/ broken \/ ~settled[c] THEN [NoResult EXCEPT !.kind = "error"]
  ELSE IF forced[c] = "cancel" THEN [NoResult EXCEPT !.kind = "cancelled"]
  ELSE [kind |-> "ok", timed_out |-> forced[c] = "timeout",
        io_grace_expired |-> late[c] /\ forced[c] = "none"]

ReturnResult(c) ==
  /\ result' = [result EXCEPT ![c] = Outcome(c)]
  /\ stage' = [stage EXCEPT ![c] = "returned"]

Collects(c) ==
  /\ stage[c] \in {"collecting", "cleanup", "joining"}
  /\ AllFinished(c)
  /\ ReturnResult(c)
  /\ UNCHANGED <<queue, job, child, open, need, forced, settled, late>>

(* The first deadline: the grace after an exit, or the command's own. *)
CollectExpires(c) ==
  /\ stage[c] = "collecting"
  /\ ~AllFinished(c)
  /\ late' = [late EXCEPT ![c] = TRUE]
  /\ signal_tree(c)
  /\ stage' = [stage EXCEPT ![c] = "cleanup"]
  /\ UNCHANGED <<queue, job, need, forced, settled, result>>

CleanupExpires(c) ==
  /\ stage[c] = "cleanup"
  /\ ~AllFinished(c)
  /\ signal_tree(c)
  /\ stage' = [stage EXCEPT ![c] = "joining"]
  /\ UNCHANGED <<queue, job, need, forced, settled, late, result>>

(* Mutant: the join waits until the worker is done. *)
JoinWaits(c) == stage[c] = "joining" /\ AllFinished(c) /\ UNCHANGED runtimeVars

(* ensure_worker_joined gives up; the job keeps its thread. *)
JoinExpires(c) ==
  /\ stage[c] = "joining"
  /\ ~AllFinished(c)
  /\ ReturnResult(c)
  /\ UNCHANGED <<queue, job, child, open, need, forced, settled, late>>

-----------------------------------------------------------------------------
RuntimeInit ==
  /\ queue = <<>>
  /\ job = [c \in Commands |-> [k \in Pipe |-> "none"]]
  /\ stage = [c \in Commands |-> "idle"]
  /\ child = [c \in Commands |-> "none"]
  /\ open = [c \in Commands |-> "none"]
  /\ need = [c \in Commands |-> {}]
  /\ forced = [c \in Commands |-> "none"]
  /\ settled = [c \in Commands |-> FALSE]
  /\ late = [c \in Commands |-> FALSE]
  /\ result = [c \in Commands |-> NoResult]

Caller(c) ==
  \/ Spawn(c) \/ SpawnFails(c) \/ spawn_io_worker(c)
  \/ WaitExit(c) \/ Collects(c)

Timer(c) == CollectExpires(c) \/ CleanupExpires(c) \/ JoinExpires(c)

Job(c) == WriterFinishes(c) \/ \E k \in Pipe : ReaderFinishes(c, k)

RuntimeNext ==
  \/ io_pool_worker
  \/ \E c \in Commands :
       \/ Caller(c) \/ Timer(c) \/ Job(c) \/ ChildExits(c)
       \/ TimesOut(c) \/ Cancelled(c)

RuntimeSpec == RuntimeInit /\ [][RuntimeNext]_runtimeVars

(* Threads run, clocks advance, a child that gets what it waits for ends.  *)
(* A timeout is a deadline too.  Nobody has to cancel.                     *)
RuntimeFairSpec ==
  /\ RuntimeSpec
  /\ WF_runtimeVars(io_pool_worker)
  /\ \A c \in Commands :
       /\ WF_runtimeVars(Caller(c)) /\ WF_runtimeVars(Timer(c)) /\ WF_runtimeVars(Job(c))
       /\ WF_runtimeVars(ChildExits(c)) /\ WF_runtimeVars(TimesOut(c))

-----------------------------------------------------------------------------
RuntimeTypeOK ==
  /\ queue \in Seq(Commands \X Pipe)
  /\ job \in [Commands -> [Pipe -> {"none", "queued", "running", "done", "broken"}]]
  /\ stage \in [Commands -> Pipe \cup {"idle", "waiting", "collecting", "cleanup",
                                   "joining", "returned"}]
  /\ child \in [Commands -> {"none", "running", "exited", "killed"}]
  /\ open \in [Commands -> {"none", "tree", "escaped"}]
  /\ need \in [Commands -> SUBSET Pipe]
  /\ forced \in [Commands -> {"none", "timeout", "cancel"}]
  /\ settled \in [Commands -> BOOLEAN]
  /\ late \in [Commands -> BOOLEAN]
  /\ result \in [Commands -> [kind: {"none", "ok", "error", "cancelled"},
                             timed_out: BOOLEAN, io_grace_expired: BOOLEAN]]

(* A RunResult without timed_out and without io_grace_expired stands for a *)
(* child that ended by itself, whose pipes were read to their end and      *)
(* whose input was written: the caller may treat the output as complete.   *)
CompleteResultIsWhole ==
  \A c \in Commands :
    LET r == result[c] IN
    r.kind = "ok" /\ ~r.timed_out /\ ~r.io_grace_expired =>
      /\ child[c] = "exited" /\ open[c] = "none"
      /\ \A k \in Used(c) : job[c][k] = "done"

(* No result leaves a process behind in the tree: whatever run_command     *)
(* returned, the child is dead and the group is swept, unless the hub      *)
(* could not settle the child.                                             *)
NoTreeLeft ==
  \A c \in Commands :
    stage[c] = "returned" /\ settled[c] => child[c] # "running" /\ open[c] # "tree"

(* A command whose wait has begun returns, whatever its child does: a      *)
(* blocked reader, an escaped descendant or a full pool only delays it to  *)
(* the deadlines.                                                          *)
EveryCommandReturns == \A c \in Commands : stage[c] # "idle" ~> stage[c] = "returned"

(* A child that only waits for its own pipes ends by itself, whatever the  *)
(* commands beside it do: the jobs serving it get a thread.  Only of       *)
(* commands that nobody times out or cancels, which would hide the wait.   *)
PipesAreServed ==
  \A c \in Commands \ (Deadlines \cup Cancels) :
    child[c] = "running" ~> child[c] = "exited"

-----------------------------------------------------------------------------
(* Why what run_command returns is true of the child and of its pipes, for *)
(* any number of commands and threads, and for every set of pipes a child  *)
(* may wait on.                                                            *)

(* The jobs the pool has not started wait in the queue, each once. *)
QueueInv ==
  /\ \A i \in 1..Len(queue) : job[queue[i][1]][queue[i][2]] = "queued"
  /\ \A i, j \in 1..Len(queue) : i # j => queue[i] # queue[j]

(* A command submits its jobs one after the other, and has no fate before  *)
(* its wait ends.                                                          *)
StagesInv(c) ==
  /\ stage[c] \in {"idle", "stdout"} => job[c]["stdout"] = "none"
  /\ stage[c] \in {"idle", "stdout", "stderr"} => job[c]["stderr"] = "none"
  /\ stage[c] \in {"idle", "stdout", "stderr", "stdin"} => job[c]["stdin"] = "none"
  /\ stage[c] \in Pipe \cup {"idle", "waiting"} => forced[c] = "none" /\ settled[c] = FALSE
  /\ stage[c] # "returned" => result[c].kind = "none"
  /\ stage[c] = "idle" => child[c] = "none"

(* A reader is done only at the end of its stream; a settled child is dead *)
(* with its group; and a complete result was made of finished jobs.        *)
FateInv(c) ==
  /\ \A k \in {"stdout", "stderr"} :
       /\ job[c][k] # "broken"
       /\ job[c][k] = "done" => child[c] # "running" /\ open[c] = "none"
  /\ settled[c] = TRUE => child[c] # "running" /\ open[c] # "tree"
  /\ settled[c] = TRUE /\ forced[c] = "none" => child[c] = "exited"
  /\ result[c].kind = "ok" /\ result[c].timed_out = FALSE /\ result[c].io_grace_expired = FALSE =>
       /\ settled[c] = TRUE /\ forced[c] = "none"
       /\ \A k \in Used(c) : job[c][k] = "done"

RuntimeInv ==
  /\ RuntimeTypeOK /\ QueueInv
  /\ \A c \in Commands : StagesInv(c) /\ FateInv(c)
=============================================================================
