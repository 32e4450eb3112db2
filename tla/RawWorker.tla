------------------------------ MODULE RawWorker ------------------------------
(***************************************************************************)
(* The raw worker: a process that serves the engine over stdin/stdout.     *)
(* The reader thread routes frames (handshake, shutdown, cancel, call); a  *)
(* single worker thread runs the calls it is sent.  A cancel must reach a  *)
(* running call, so the two share the cancel registry; the session mutex   *)
(* is never held while a child process is torn down.                       *)
(*                                                                         *)
(*   raw_worker_impl.rs   session, frames, cancel registry, serve loop     *)
(*   raw_worker.rs        the frame executor and its envelopes             *)
(*   dispatcher.rs        kernel, response ledger, Pulse ledger            *)
(*   domain.rs            operations that bypass the dispatcher            *)
(***************************************************************************)
EXTENDS Naturals, Sequences, FiniteSets, TLAPS

CONSTANTS Ids,     \* request ids; the host uses each for one call
          OpOf,    \* id -> "shell", "tool", "unknown" or "job"
          Nobody   \* no call, not an id

VARIABLES bound,     \* the handshake has bound root, session and revision
          closing,   \* RawWorkerSession::shutdown
          reader,    \* reader thread: "read", "teardown", "reply", "term", "exit"
          doomed,    \* ids whose child the reader took out to tear down
          registry,  \* cancel_registry
          cancelled, \* ids whose CancelState flag is set
          slot,      \* ids whose CancelState holds the child handle
          child,     \* id -> "none", "live" or "gone"
          queue,     \* calls sent to the worker thread
          active,    \* call on the worker thread
          step,      \* the worker's control point
          outcome,   \* what the running call will answer
          answer,    \* id -> answer the host received, "none", or "sent"
          ledgered,  \* calls in the response ledger
          pulsed     \* calls in the Pulse ledger

vars == <<bound, closing, reader, doomed, registry, cancelled, slot, child, queue,
          active, step, outcome, answer, ledgered, pulsed>>

readerVars == <<bound, closing, reader, doomed>>
workerVars == <<active, step, outcome>>
books      == <<ledgered, pulsed>>

Refusals == {"trace_binding_mismatch", "worker_revision_changed",
             "deadline_exceeded", "unsupported_operation"}
Errors   == {"cancelled", "error", "output_too_large", "invalid_token_accounting",
             "handshake_required", "session_shutdown"} \cup Refusals

TypeOK ==
    /\ bound \in BOOLEAN /\ closing \in BOOLEAN
    /\ reader \in {"read", "teardown", "reply", "term", "kill", "exit"}
    /\ doomed \subseteq Ids /\ registry \subseteq Ids /\ cancelled \subseteq Ids
    /\ slot \subseteq Ids /\ ledgered \subseteq Ids /\ pulsed \subseteq ledgered
    /\ child \in [Ids -> {"none", "live", "gone"}]
    /\ queue \in Seq(Ids)
    /\ active \in Ids \cup {Nobody}
    /\ step \in {"idle", "start", "spawn", "store", "check", "run", "ledger",
                 "pulse", "decide", "finish", "write", "dead"}
    /\ outcome \in {"none", "ok", "result"} \cup Errors
    /\ answer \in [Ids -> {"none", "sent", "result"} \cup Errors]

Init ==
    /\ bound = FALSE /\ closing = FALSE /\ reader = "read" /\ doomed = {}
    /\ registry = {} /\ cancelled = {} /\ slot = {} /\ child = [i \in Ids |-> "none"]
    /\ queue = <<>> /\ active = Nobody /\ step = "idle" /\ outcome = "none"
    /\ answer = [i \in Ids |-> "none"] /\ ledgered = {} /\ pulsed = {}

-----------------------------------------------------------------------------
(* Reader thread: route_frame under the session mutex.                      *)

\* A frame that does not decode, or is larger than the bound, is answered and
\* changes nothing.
BadFrame ==
    /\ reader = "read" /\ reader' = "reply"
    /\ UNCHANGED <<bound, closing, doomed, registry, cancelled, slot, child, queue,
                   workerVars, answer, books>>

\* handshake: an established binding refuses another root or session, a
\* binding mismatch is terminal, a stale revision pin is retryable; all three
\* leave the session as it is.
Handshake ==
    /\ reader = "read" /\ reader' = "reply"
    /\ bound' \in {bound, TRUE}
    /\ UNCHANGED <<closing, doomed, registry, cancelled, slot, child, queue,
                   workerVars, answer, books>>

\* shutdown is accepted before a handshake too.
Shutdown ==
    /\ reader = "read" /\ reader' = "reply"
    /\ closing' = TRUE
    /\ UNCHANGED <<bound, doomed, registry, cancelled, slot, child, queue,
                   workerVars, answer, books>>

\* cancel_call: the registration goes, the flag is set, and a stored handle is
\* copied out so that the mutex can be dropped before the teardown.
cancel_call(i) ==
    /\ registry' = registry \ {i}
    /\ cancelled' = IF i \in registry THEN cancelled \cup {i} ELSE cancelled
    /\ doomed' = IF i \in registry \cap slot THEN doomed \cup {i} ELSE doomed

Cancel(i) ==
    /\ reader = "read" /\ reader' = "teardown"
    /\ bound /\ ~closing
    /\ cancel_call(i)
    /\ UNCHANGED <<bound, closing, slot, child, queue, workerVars, answer, books>>

\* run_pending_teardown: every handle that was copied out is signalled.
Teardown ==
    /\ reader = "teardown" /\ reader' = "reply"
    /\ child' = [i \in Ids |-> IF i \in doomed THEN "gone" ELSE child[i]]
    /\ doomed' = {}
    /\ UNCHANGED <<bound, closing, registry, cancelled, slot, queue, workerVars,
                   answer, books>>

\* write_response by the reader: a failed write and a shutdown end the loop.
Reply ==
    /\ reader = "reply"
    /\ reader' \in (IF closing THEN {"term"} ELSE {"read", "term"})
    /\ UNCHANGED <<bound, closing, doomed, registry, cancelled, slot, child, queue,
                   workerVars, answer, books>>

\* validate_call and the two session checks before it: the call is refused.
RefuseCall(i) ==
    /\ reader = "read" /\ reader' = "reply"
    /\ answer[i] = "none"
    /\ \E e \in IF ~bound THEN {"handshake_required"}
                ELSE IF closing THEN {"session_shutdown"} ELSE Refusals :
         answer' = [answer EXCEPT ![i] = e]
    /\ UNCHANGED <<bound, closing, doomed, registry, cancelled, slot, child, queue,
                   workerVars, books>>

\* register_cancel, then the send; a worker that is gone ends the loop.
AcceptCall(i) ==
    /\ reader = "read" /\ bound /\ ~closing
    /\ answer[i] = "none"
    /\ answer' = [answer EXCEPT ![i] = "sent"]
    /\ registry' = registry \cup {i}
    /\ IF step = "dead" THEN reader' = "term" /\ UNCHANGED queue
                        ELSE reader' = "read" /\ queue' = Append(queue, i)
    /\ UNCHANGED <<bound, closing, doomed, cancelled, slot, child, workerVars, books>>

\* End of input or a read error.
EndOfInput ==
    /\ reader = "read" /\ reader' = "term"
    /\ UNCHANGED <<bound, closing, doomed, registry, cancelled, slot, child, queue,
                   workerVars, answer, books>>

\* terminate_raw_worker_session: cancel_all under the mutex ...
CancelAll ==
    /\ reader = "term" /\ reader' = "kill"
    /\ cancelled' = cancelled \cup registry
    /\ doomed' = registry \cap slot
    /\ registry' = {}
    /\ UNCHANGED <<bound, closing, slot, child, queue, workerVars, answer, books>>

\* ... then the teardown, then the exit, which does not join the worker.
Exit ==
    /\ reader = "kill" /\ reader' = "exit"
    /\ child' = [i \in Ids |-> IF i \in doomed THEN "gone" ELSE child[i]]
    /\ doomed' = {}
    /\ UNCHANGED <<bound, closing, registry, cancelled, slot, queue, workerVars,
                   answer, books>>

-----------------------------------------------------------------------------
(* Worker thread.                                                           *)

Goto(s) == step' = s

\* rx.recv.
Receive ==
    /\ step = "idle" /\ queue # <<>>
    /\ active' = Head(queue) /\ queue' = Tail(queue)
    /\ Goto("start")
    /\ UNCHANGED <<readerVars, registry, cancelled, slot, child, outcome, answer, books>>

\* A call cancelled in the queue is forgotten.
StartDropping ==
    /\ step = "start"
    /\ IF active \in cancelled
       THEN Goto("idle") /\ active' = Nobody /\ UNCHANGED outcome
       ELSE /\ Goto(IF OpOf[active] = "shell" THEN "spawn" ELSE "run")
            /\ UNCHANGED <<active, outcome>>
    /\ UNCHANGED <<readerVars, registry, cancelled, slot, child, queue, answer, books>>

\* run_call_registered: a call cancelled in the queue is not dispatched.
run_call_registered ==
    /\ step = "start"
    /\ IF active \in cancelled
       THEN Goto("finish") /\ outcome' = "cancelled"
       ELSE /\ Goto(IF OpOf[active] = "shell" THEN "spawn" ELSE "run")
            /\ UNCHANGED outcome
    /\ UNCHANGED <<readerVars, registry, cancelled, slot, child, queue, active, answer, books>>

\* The shell operation spawns its command; spawn_failed is a tool error.
Spawn ==
    /\ step = "spawn"
    /\ \/ Goto("store") /\ child' = [child EXCEPT ![active] = "live"] /\ UNCHANGED outcome
       \/ Goto("ledger") /\ outcome' = "error" /\ UNCHANGED child
    /\ UNCHANGED <<readerVars, registry, cancelled, slot, queue, active, answer, books>>

\* The flag is looked at first, the handle stored afterwards.
NoteStoresLast ==
    \/ /\ step = "store" /\ Goto("check")
       /\ child' = IF active \in cancelled THEN [child EXCEPT ![active] = "gone"] ELSE child
       /\ UNCHANGED <<readerVars, registry, cancelled, slot, queue, active, outcome, answer, books>>
    \/ /\ step = "check" /\ Goto("run")
       /\ slot' = slot \cup {active}
       /\ UNCHANGED <<readerVars, registry, cancelled, child, queue, active, outcome, answer, books>>

\* v2_note_child: the handle is stored first, then the flag is looked at, so a
\* cancel either finds the handle or is found by this check.
v2_note_child ==
    \/ /\ step = "store" /\ Goto("check")
       /\ slot' = slot \cup {active}
       /\ UNCHANGED <<readerVars, registry, cancelled, child, queue, active, outcome, answer, books>>
    \/ /\ step = "check" /\ Goto("run")
       /\ child' = IF active \in cancelled THEN [child EXCEPT ![active] = "gone"] ELSE child
       /\ UNCHANGED <<readerVars, registry, cancelled, slot, queue, active, outcome, answer, books>>

\* execute_domain_op: a registered operation returns a tool response, ok or
\* error; anything else is a dispatch error with nothing to account.
execute_domain_op(op) ==
    IF op \in {"shell", "tool"}
    THEN {[step |-> "ledger", outcome |-> o] : o \in {"ok", "error"}}
    ELSE {[step |-> "decide", outcome |-> "error"]}

\* execute_embedded_value: job polls and background launches are answered
\* without the dispatcher, so they reach neither ledger.
execute_embedded_value(op) ==
    IF op = "job" THEN {[step |-> "decide", outcome |-> o] : o \in {"ok", "error"}} ELSE {}

\* The operation runs to its end: the child is gone when the runtime returns,
\* by itself, at the deadline, or because the runtime saw the flag.
Run ==
    /\ step = "run"
    /\ child' = [child EXCEPT ![active] = IF @ = "live" THEN "gone" ELSE @]
    /\ \E r \in IF OpOf[active] = "job" THEN execute_embedded_value("job")
                                        ELSE execute_domain_op(OpOf[active]) :
         Goto(r.step) /\ outcome' = r.outcome
    /\ UNCHANGED <<readerVars, registry, cancelled, slot, queue, active, answer, books>>

\* persist_accounting_failure: the served response becomes an error.
persist_accounting_failure == Goto("decide") /\ outcome' = "error"

\* dispatch_operation, the response ledger: a failed write fails the call.
RecordLedger ==
    /\ step = "ledger"
    /\ \/ Goto("pulse") /\ ledgered' = ledgered \cup {active} /\ UNCHANGED outcome
       \/ persist_accounting_failure /\ UNCHANGED ledgered
    /\ UNCHANGED <<readerVars, registry, cancelled, slot, child, queue, active, answer, pulsed>>

\* The Pulse write's error is dropped.
PulseBestEffort ==
    /\ step = "pulse" /\ Goto("decide")
    /\ \/ pulsed' = pulsed \cup {active} \/ UNCHANGED pulsed
    /\ UNCHANGED <<readerVars, registry, cancelled, slot, child, queue, active, outcome,
                   answer, ledgered>>

\* dispatch_operation, the Pulse ledger: likewise.
RecordPulse ==
    /\ step = "pulse"
    /\ \/ Goto("decide") /\ pulsed' = pulsed \cup {active} /\ UNCHANGED outcome
       \/ persist_accounting_failure /\ UNCHANGED pulsed
    /\ UNCHANGED <<readerVars, registry, cancelled, slot, child, queue, active, answer, ledgered>>

\* response_from_outcome: only a tool response without an error is a success.
response_from_outcome(o) == IF o = "ok" THEN "ok" ELSE "error"

\* worker_token_accounting: counts that are missing, too large or inconsistent
\* (more cached than billed) turn the result into an error.
worker_token_accounting == {"result", "invalid_token_accounting"}

\* dispatch_call after the operation: a cancellation wins over the result, an
\* oversized value is never sent.
dispatch_call ==
    /\ step = "decide" /\ Goto("finish")
    /\ outcome' \in IF active \in cancelled THEN {"cancelled"}
                    ELSE IF response_from_outcome(outcome) = "ok"
                    THEN {"output_too_large"} \cup worker_token_accounting
                    ELSE {"error"}
    /\ UNCHANGED <<readerVars, registry, cancelled, slot, child, queue, active, answer, books>>

\* finish_call under the session mutex, before the answer is written.
finish_call ==
    /\ step = "finish" /\ Goto("write")
    /\ registry' = registry \ {active}
    /\ UNCHANGED <<readerVars, cancelled, slot, child, queue, active, outcome, answer, books>>

\* write_response by the worker: a failed write ends the thread.
WriteAnswer ==
    /\ step = "write"
    /\ \/ answer' = [answer EXCEPT ![active] = outcome] /\ Goto("idle")
       \/ UNCHANGED answer /\ Goto("dead")
    /\ active' = Nobody /\ outcome' = "none"
    /\ UNCHANGED <<readerVars, registry, cancelled, slot, child, queue, books>>

-----------------------------------------------------------------------------
Reader == \/ BadFrame \/ Handshake \/ Shutdown \/ Teardown \/ Reply \/ EndOfInput
          \/ CancelAll \/ Exit
          \/ \E i \in Ids : Cancel(i) \/ RefuseCall(i) \/ AcceptCall(i)

Worker == /\ reader # "exit"
          /\ \/ Receive \/ run_call_registered \/ Spawn \/ v2_note_child \/ Run
             \/ RecordLedger \/ RecordPulse \/ dispatch_call \/ finish_call \/ WriteAnswer

Next == Reader \/ Worker

Spec == Init /\ [][Next]_vars

\* Both threads are scheduled; the deadline ends every operation, so the
\* worker's own step is fair as well.  The host owes nothing: it may stop
\* sending, never close its end, and keep the writes failing.
FairSpec == Spec /\ WF_vars(Worker) /\ WF_vars(Teardown \/ Reply \/ CancelAll \/ Exit)

-----------------------------------------------------------------------------
(* Properties.                                                              *)

\* The session exits only after it has torn down every child it knows of: a
\* command that survives the exit was spawned so late that its handle reached
\* the registry after the cancellation, with the worker still inside
\* v2_note_child (raw_worker_impl.rs, cancel_all and v2_note_child).
OrphansOnlyFromSpawnWindow ==
    reader = "exit" => \A i \in Ids : child[i] = "live" =>
        active = i /\ i \in cancelled /\ step \in {"store", "check"}

\* A result the host received for a dispatched operation is in the response
\* ledger and in the Pulse ledger (dispatcher.rs: accounting is fail closed).
ServedAccountingDurable ==
    \A i \in Ids : answer[i] = "result" /\ OpOf[i] \in {"shell", "tool"}
        => i \in ledgered \cap pulsed

\* A call that was accepted is answered, cancelled or not, unless the session
\* ends or the host no longer reads (raw_worker_impl.rs serve loop).
Accepted(i) == answer[i] = "sent"
Settled(i) == answer[i] # "sent" \/ reader = "exit" \/ step = "dead"
EveryRequestAnswered == \A i \in Ids : Accepted(i) ~> Settled(i)

-----------------------------------------------------------------------------
(* Why children are reached and results accounted, for any number of       *)
(* calls.  Each accepted call is once in the queue or on the worker; until *)
(* finish_call it is registered or cancelled; a child that is past the     *)
(* check of v2_note_child has its handle in the slot, so that the cancel   *)
(* that comes later finds it.                                              *)

WorkerConstants ==
    Nobody \notin Ids /\ OpOf \in [Ids -> {"shell", "tool", "unknown", "job"}]

Outstanding(i) == answer[i] = "sent" /\ i \in registry \cup cancelled

CallsAreOnce ==
    /\ active = Nobody <=> step \in {"idle", "dead"}
    /\ step \notin {"idle", "dead"} => answer[active] = "sent"
    /\ step \notin {"idle", "dead", "write"} => active \in registry \cup cancelled
    /\ \A a \in 1..Len(queue) : Outstanding(queue[a]) /\ queue[a] # active
    /\ \A a, b \in 1..Len(queue) : a # b => queue[a] # queue[b]

ChildrenTracked ==
    /\ reader \in {"kill", "exit"} => registry = {}
    /\ doomed # {} => reader \in {"teardown", "kill"}
    /\ \A i \in Ids : child[i] = "live" =>
         /\ i = active /\ step \in {"store", "check", "run"}
         /\ step # "store" => i \in slot
         /\ step = "run" /\ i \in cancelled => i \in doomed

Dispatched(i) == OpOf[i] \in {"shell", "tool"}

AccountedFirst ==
    /\ outcome = "ok" => step \in {"ledger", "pulse", "decide"}
    /\ outcome = "result" => step \in {"finish", "write"}
    /\ step = "pulse" => active \in ledgered
    /\ step = "decide" /\ outcome = "ok" /\ Dispatched(active) => active \in ledgered \cap pulsed
    /\ outcome = "result" /\ Dispatched(active) => active \in ledgered \cap pulsed
    /\ \A i \in Ids : answer[i] = "result" /\ Dispatched(i) => i \in ledgered \cap pulsed

WorkerInv == TypeOK /\ CallsAreOnce /\ ChildrenTracked /\ AccountedFirst

(* The invariant implies the properties, and holds at the start.      *)
LEMMA WorkerInvImplies ==
    ASSUME WorkerInv PROVE OrphansOnlyFromSpawnWindow /\ ServedAccountingDurable
<1>1. OrphansOnlyFromSpawnWindow
  BY DEF WorkerInv, CallsAreOnce, ChildrenTracked, OrphansOnlyFromSpawnWindow
<1>2. ServedAccountingDurable
  BY DEF WorkerInv, AccountedFirst, Dispatched, ServedAccountingDurable
<1> QED  BY <1>1, <1>2

LEMMA WorkerInitInv == ASSUME WorkerConstants, Init PROVE WorkerInv
<1> USE DEF WorkerConstants, Init
<1>0. bound \in BOOLEAN /\ closing \in BOOLEAN
  BY Zenon
<1>1. TypeOK
  BY <1>0 DEF TypeOK
<1>2. CallsAreOnce /\ ChildrenTracked /\ AccountedFirst
  BY DEF CallsAreOnce, ChildrenTracked, AccountedFirst
<1> QED  BY <1>1, <1>2 DEF WorkerInv

(* Every step of the reader thread keeps the invariant, ...                *)
LEMMA FrameKeeps ==
    ASSUME WorkerConstants, WorkerInv,
           BadFrame \/ Handshake \/ Shutdown \/ Teardown \/ Reply \/ EndOfInput \/
             CancelAll \/ Exit
    PROVE  WorkerInv'
<1> USE DEF WorkerConstants, WorkerInv
<1>1. CASE BadFrame
  <2>1. TypeOK'
    BY <1>1 DEF BadFrame, workerVars, books, TypeOK, Errors, Refusals
  <2>2. CallsAreOnce'
    BY <1>1, <2>1 DEF BadFrame, workerVars, books, TypeOK, CallsAreOnce, Outstanding
  <2>3. ChildrenTracked'
    BY <1>1, <2>1 DEF BadFrame, workerVars, books, TypeOK, CallsAreOnce, ChildrenTracked
  <2>4. AccountedFirst'
    BY <1>1, <2>1 DEF BadFrame, workerVars, books, TypeOK, CallsAreOnce, AccountedFirst,
           Dispatched
  <2> QED  BY <2>1, <2>2, <2>3, <2>4
<1>2. CASE Handshake
  <2>1. TypeOK'
    BY <1>2, ZenonT(60) DEF Handshake, workerVars, books, TypeOK, Errors, Refusals
  <2>2. CallsAreOnce'
    BY <1>2, <2>1 DEF Handshake, workerVars, books, TypeOK, CallsAreOnce, Outstanding
  <2>3. ChildrenTracked'
    BY <1>2, <2>1 DEF Handshake, workerVars, books, TypeOK, CallsAreOnce,
           ChildrenTracked
  <2>4. AccountedFirst'
    BY <1>2, <2>1 DEF Handshake, workerVars, books, TypeOK, CallsAreOnce,
           AccountedFirst, Dispatched
  <2> QED  BY <2>1, <2>2, <2>3, <2>4
<1>3. CASE Shutdown
  <2>1. TypeOK'
    BY <1>3 DEF Shutdown, workerVars, books, TypeOK, Errors, Refusals
  <2>2. CallsAreOnce'
    BY <1>3, <2>1 DEF Shutdown, workerVars, books, TypeOK, CallsAreOnce, Outstanding
  <2>3. ChildrenTracked'
    BY <1>3, <2>1 DEF Shutdown, workerVars, books, TypeOK, CallsAreOnce, ChildrenTracked
  <2>4. AccountedFirst'
    BY <1>3, <2>1 DEF Shutdown, workerVars, books, TypeOK, CallsAreOnce, AccountedFirst,
           Dispatched
  <2> QED  BY <2>1, <2>2, <2>3, <2>4
<1>4. CASE Teardown
  <2>1. TypeOK'
    BY <1>4 DEF Teardown, workerVars, books, TypeOK, Errors, Refusals
  <2>2. CallsAreOnce'
    BY <1>4, <2>1 DEF Teardown, workerVars, books, TypeOK, CallsAreOnce, Outstanding
  <2>3. ChildrenTracked'
    BY <1>4, <2>1 DEF Teardown, workerVars, books, TypeOK, CallsAreOnce, ChildrenTracked
  <2>4. AccountedFirst'
    BY <1>4, <2>1 DEF Teardown, workerVars, books, TypeOK, CallsAreOnce, AccountedFirst,
           Dispatched
  <2> QED  BY <2>1, <2>2, <2>3, <2>4
<1>5. CASE Reply
  <2>1. TypeOK'
    BY <1>5 DEF Reply, workerVars, books, TypeOK, Errors, Refusals
  <2>2. CallsAreOnce'
    BY <1>5, <2>1 DEF Reply, workerVars, books, TypeOK, CallsAreOnce, Outstanding
  <2>3. ChildrenTracked'
    BY <1>5, <2>1 DEF Reply, workerVars, books, TypeOK, CallsAreOnce, ChildrenTracked
  <2>4. AccountedFirst'
    BY <1>5, <2>1 DEF Reply, workerVars, books, TypeOK, CallsAreOnce, AccountedFirst,
           Dispatched
  <2> QED  BY <2>1, <2>2, <2>3, <2>4
<1>6. CASE EndOfInput
  <2>1. TypeOK'
    BY <1>6 DEF EndOfInput, workerVars, books, TypeOK, Errors, Refusals
  <2>2. CallsAreOnce'
    BY <1>6, <2>1 DEF EndOfInput, workerVars, books, TypeOK, CallsAreOnce, Outstanding
  <2>3. ChildrenTracked'
    BY <1>6, <2>1 DEF EndOfInput, workerVars, books, TypeOK, CallsAreOnce,
           ChildrenTracked
  <2>4. AccountedFirst'
    BY <1>6, <2>1 DEF EndOfInput, workerVars, books, TypeOK, CallsAreOnce,
           AccountedFirst, Dispatched
  <2> QED  BY <2>1, <2>2, <2>3, <2>4
<1>7. CASE CancelAll
  <2>1. TypeOK'
    BY <1>7 DEF CancelAll, workerVars, books, TypeOK, Errors, Refusals
  <2>2. CallsAreOnce'
    BY <1>7, <2>1 DEF CancelAll, workerVars, books, TypeOK, CallsAreOnce, Outstanding
  <2>3. ChildrenTracked'
    BY <1>7, <2>1 DEF CancelAll, workerVars, books, TypeOK, CallsAreOnce,
           ChildrenTracked
  <2>4. AccountedFirst'
    BY <1>7, <2>1 DEF CancelAll, workerVars, books, TypeOK, CallsAreOnce,
           AccountedFirst, Dispatched
  <2> QED  BY <2>1, <2>2, <2>3, <2>4
<1>8. CASE Exit
  <2>1. TypeOK'
    BY <1>8 DEF Exit, workerVars, books, TypeOK, Errors, Refusals
  <2>2. CallsAreOnce'
    BY <1>8, <2>1 DEF Exit, workerVars, books, TypeOK, CallsAreOnce, Outstanding
  <2>3. ChildrenTracked'
    BY <1>8, <2>1 DEF Exit, workerVars, books, TypeOK, CallsAreOnce, ChildrenTracked
  <2>4. AccountedFirst'
    BY <1>8, <2>1 DEF Exit, workerVars, books, TypeOK, CallsAreOnce, AccountedFirst,
           Dispatched
  <2> QED  BY <2>1, <2>2, <2>3, <2>4
<1> QED  BY <1>1, <1>2, <1>3, <1>4, <1>5, <1>6, <1>7, <1>8

(* ... every frame about a call, ...                                       *)
LEMMA CallKeeps ==
    ASSUME WorkerConstants, WorkerInv, NEW i \in Ids,
           Cancel(i) \/ RefuseCall(i) \/ AcceptCall(i)
    PROVE  WorkerInv'
<1> USE DEF WorkerConstants, WorkerInv
<1>1. CASE Cancel(i)
  <2>1. TypeOK'
    BY <1>1 DEF Cancel, cancel_call, workerVars, books, TypeOK, Errors, Refusals
  <2>2. CallsAreOnce'
    BY <1>1, <2>1 DEF Cancel, cancel_call, workerVars, books, TypeOK, CallsAreOnce,
           Outstanding
  <2>3. ChildrenTracked'
    BY <1>1, <2>1 DEF Cancel, cancel_call, workerVars, books, TypeOK, CallsAreOnce,
           ChildrenTracked
  <2>4. AccountedFirst'
    BY <1>1, <2>1 DEF Cancel, cancel_call, workerVars, books, TypeOK, CallsAreOnce,
           AccountedFirst, Dispatched
  <2> QED  BY <2>1, <2>2, <2>3, <2>4
<1>2. CASE RefuseCall(i)
  <2>1. TypeOK'
    BY <1>2 DEF RefuseCall, Refusals, workerVars, books, TypeOK, Errors
  <2>2. CallsAreOnce'
    BY <1>2, <2>1 DEF RefuseCall, Refusals, workerVars, books, TypeOK, CallsAreOnce,
           Outstanding
  <2>3. ChildrenTracked'
    BY <1>2, <2>1 DEF RefuseCall, Refusals, workerVars, books, TypeOK, CallsAreOnce,
           ChildrenTracked
  <2>4. AccountedFirst'
    BY <1>2, <2>1 DEF RefuseCall, Refusals, workerVars, books, TypeOK, CallsAreOnce,
           AccountedFirst, Dispatched
  <2> QED  BY <2>1, <2>2, <2>3, <2>4
<1>3. CASE AcceptCall(i)
  <2>0. /\ reader = "read" /\ reader' \in {"read", "term"} /\ answer[i] = "none"
        /\ answer' = [answer EXCEPT ![i] = "sent"] /\ registry' = registry \cup {i}
        /\ queue' = queue \/ queue' = Append(queue, i)
        /\ UNCHANGED <<bound, closing, doomed, cancelled, slot, child, active, step, outcome,
                       ledgered, pulsed>>
    BY <1>3 DEF AcceptCall, workerVars, books
  <2>1. TypeOK'
    <3>1. queue' \in Seq(Ids)
      BY <2>0 DEF TypeOK
    <3> QED  BY <2>0, <3>1 DEF TypeOK
  <2>2. CallsAreOnce'
    <3>1. \A a \in 1..Len(queue) : queue[a] \in Ids /\ queue[a] # i
      BY <2>0 DEF TypeOK, CallsAreOnce, Outstanding
    <3>2. active # i
      BY <2>0 DEF TypeOK, CallsAreOnce
    <3>3. \A a \in 1..Len(queue') : \/ a \in 1..Len(queue) /\ queue'[a] = queue[a]
                                    \/ a = Len(queue) + 1 /\ queue'[a] = i
      BY <2>0 DEF TypeOK
    <3>4. \A a \in 1..Len(queue') : Outstanding(queue[a])' /\ queue'[a] # active'
      <4> SUFFICES ASSUME NEW a \in 1..Len(queue') PROVE Outstanding(queue[a])' /\ queue'[a] # active'
        OBVIOUS
      <4> QED  BY <2>0, <3>1, <3>2, <3>3 DEF TypeOK, CallsAreOnce, Outstanding
    <3>5. \A a, b \in 1..Len(queue') : a # b => queue'[a] # queue'[b]
      BY <2>0, <3>1, <3>3 DEF CallsAreOnce
    <3>6. /\ (active = Nobody <=> step \in {"idle", "dead"})'
          /\ (step \notin {"idle", "dead"} => answer[active] = "sent")'
          /\ (step \notin {"idle", "dead", "write"} => active \in registry \cup cancelled)'
      BY <2>0, <3>2 DEF TypeOK, CallsAreOnce
    <3> QED  BY <3>4, <3>5, <3>6 DEF CallsAreOnce
  <2>3. ChildrenTracked'
    BY <2>0 DEF TypeOK, CallsAreOnce, ChildrenTracked
  <2>4. AccountedFirst'
    BY <2>0 DEF TypeOK, CallsAreOnce, AccountedFirst, Dispatched
  <2> QED  BY <2>1, <2>2, <2>3, <2>4
<1> QED  BY <1>1, <1>2, <1>3

(* ... and so does every step of the worker thread.                        *)
LEMMA WorkerKeeps ==
    ASSUME WorkerConstants, WorkerInv, reader # "exit",
           Receive \/ run_call_registered \/ Spawn \/ v2_note_child \/ Run \/
             RecordLedger \/ RecordPulse \/ dispatch_call \/ finish_call
             \/ WriteAnswer
    PROVE  WorkerInv'
<1> USE DEF WorkerConstants, WorkerInv
<1>1. CASE Receive
  <2>1. TypeOK'
    BY <1>1 DEF Receive, Goto, readerVars, books, TypeOK, Errors, Refusals, CallsAreOnce
  <2>2. CallsAreOnce'
    BY <1>1, <2>1 DEF Receive, Goto, readerVars, books, TypeOK, CallsAreOnce,
           Outstanding
  <2>3. ChildrenTracked'
    BY <1>1, <2>1 DEF Receive, Goto, readerVars, books, TypeOK, CallsAreOnce,
           ChildrenTracked
  <2>4. AccountedFirst'
    BY <1>1, <2>1 DEF Receive, Goto, readerVars, books, TypeOK, CallsAreOnce,
           AccountedFirst, Dispatched
  <2> QED  BY <2>1, <2>2, <2>3, <2>4
<1>2. CASE run_call_registered
  <2>1. TypeOK'
    BY <1>2 DEF run_call_registered, Goto, readerVars, books, TypeOK, Errors, Refusals,
           CallsAreOnce
  <2>2. CallsAreOnce'
    BY <1>2, <2>1 DEF run_call_registered, Goto, readerVars, books, TypeOK,
           CallsAreOnce, Outstanding
  <2>3. ChildrenTracked'
    BY <1>2, <2>1 DEF run_call_registered, Goto, readerVars, books, TypeOK,
           CallsAreOnce, ChildrenTracked
  <2>4. AccountedFirst'
    BY <1>2, <2>1 DEF run_call_registered, Goto, readerVars, books, TypeOK,
           CallsAreOnce, AccountedFirst, Dispatched
  <2> QED  BY <2>1, <2>2, <2>3, <2>4
<1>3. CASE Spawn
  <2>1. TypeOK'
    BY <1>3 DEF Spawn, Goto, readerVars, books, TypeOK, Errors, Refusals, CallsAreOnce
  <2>2. CallsAreOnce'
    BY <1>3, <2>1 DEF Spawn, Goto, readerVars, books, TypeOK, CallsAreOnce, Outstanding
  <2>3. ChildrenTracked'
    BY <1>3, <2>1 DEF Spawn, Goto, readerVars, books, TypeOK, CallsAreOnce,
           ChildrenTracked
  <2>4. AccountedFirst'
    BY <1>3, <2>1 DEF Spawn, Goto, readerVars, books, TypeOK, CallsAreOnce,
           AccountedFirst, Dispatched
  <2> QED  BY <2>1, <2>2, <2>3, <2>4
<1>4. CASE v2_note_child
  <2>1. TypeOK'
    BY <1>4 DEF v2_note_child, Goto, readerVars, books, TypeOK, Errors, Refusals,
           CallsAreOnce
  <2>2. CallsAreOnce'
    BY <1>4, <2>1 DEF v2_note_child, Goto, readerVars, books, TypeOK, CallsAreOnce,
           Outstanding
  <2>3. ChildrenTracked'
    BY <1>4, <2>1 DEF v2_note_child, Goto, readerVars, books, TypeOK, CallsAreOnce,
           ChildrenTracked
  <2>4. AccountedFirst'
    BY <1>4, <2>1 DEF v2_note_child, Goto, readerVars, books, TypeOK, CallsAreOnce,
           AccountedFirst, Dispatched
  <2> QED  BY <2>1, <2>2, <2>3, <2>4
<1>5. CASE Run
  <2>1. TypeOK'
    BY <1>5 DEF Run, Goto, execute_domain_op, execute_embedded_value, readerVars, books,
           TypeOK, Errors, Refusals, CallsAreOnce
  <2>2. CallsAreOnce'
    BY <1>5, <2>1 DEF Run, Goto, execute_domain_op, execute_embedded_value, readerVars,
           books, TypeOK, CallsAreOnce, Outstanding
  <2>3. ChildrenTracked'
    BY <1>5, <2>1 DEF Run, Goto, execute_domain_op, execute_embedded_value, readerVars,
           books, TypeOK, CallsAreOnce, ChildrenTracked
  <2>4. AccountedFirst'
    BY <1>5, <2>1 DEF Run, Goto, execute_domain_op, execute_embedded_value, readerVars,
           books, TypeOK, CallsAreOnce, AccountedFirst, Dispatched
  <2> QED  BY <2>1, <2>2, <2>3, <2>4
<1>6. CASE RecordLedger
  <2>1. TypeOK'
    BY <1>6 DEF RecordLedger, Goto, persist_accounting_failure, readerVars, books,
           TypeOK, Errors, Refusals, CallsAreOnce
  <2>2. CallsAreOnce'
    BY <1>6, <2>1 DEF RecordLedger, Goto, persist_accounting_failure, readerVars, books,
           TypeOK, CallsAreOnce, Outstanding
  <2>3. ChildrenTracked'
    BY <1>6, <2>1 DEF RecordLedger, Goto, persist_accounting_failure, readerVars, books,
           TypeOK, CallsAreOnce, ChildrenTracked
  <2>4. AccountedFirst'
    BY <1>6, <2>1 DEF RecordLedger, Goto, persist_accounting_failure, readerVars, books,
           TypeOK, CallsAreOnce, AccountedFirst, Dispatched
  <2> QED  BY <2>1, <2>2, <2>3, <2>4
<1>7. CASE RecordPulse
  <2>1. TypeOK'
    BY <1>7 DEF RecordPulse, Goto, persist_accounting_failure, readerVars, books,
           TypeOK, Errors, Refusals, AccountedFirst, CallsAreOnce
  <2>2. CallsAreOnce'
    BY <1>7, <2>1 DEF RecordPulse, Goto, persist_accounting_failure, readerVars, books,
           TypeOK, CallsAreOnce, Outstanding
  <2>3. ChildrenTracked'
    BY <1>7, <2>1 DEF RecordPulse, Goto, persist_accounting_failure, readerVars, books,
           TypeOK, CallsAreOnce, ChildrenTracked
  <2>4. AccountedFirst'
    BY <1>7, <2>1 DEF RecordPulse, Goto, persist_accounting_failure, readerVars, books,
           TypeOK, CallsAreOnce, AccountedFirst, Dispatched
  <2> QED  BY <2>1, <2>2, <2>3, <2>4
<1>8. CASE dispatch_call
  <2>1. TypeOK'
    BY <1>8 DEF dispatch_call, Goto, response_from_outcome, worker_token_accounting,
           readerVars, books, TypeOK, Errors, Refusals, CallsAreOnce
  <2>2. CallsAreOnce'
    BY <1>8, <2>1 DEF dispatch_call, Goto, response_from_outcome,
           worker_token_accounting, readerVars, books, TypeOK, CallsAreOnce, Outstanding
  <2>3. ChildrenTracked'
    BY <1>8, <2>1 DEF dispatch_call, Goto, response_from_outcome,
           worker_token_accounting, readerVars, books, TypeOK, CallsAreOnce,
           ChildrenTracked
  <2>4. AccountedFirst'
    BY <1>8, <2>1 DEF dispatch_call, Goto, response_from_outcome,
           worker_token_accounting, readerVars, books, TypeOK, CallsAreOnce,
           AccountedFirst, Dispatched
  <2> QED  BY <2>1, <2>2, <2>3, <2>4
<1>9. CASE finish_call
  <2>1. TypeOK'
    BY <1>9 DEF finish_call, Goto, readerVars, books, TypeOK, Errors, Refusals,
           CallsAreOnce
  <2>2. CallsAreOnce'
    BY <1>9, <2>1 DEF finish_call, Goto, readerVars, books, TypeOK, CallsAreOnce,
           Outstanding
  <2>3. ChildrenTracked'
    BY <1>9, <2>1 DEF finish_call, Goto, readerVars, books, TypeOK, CallsAreOnce,
           ChildrenTracked
  <2>4. AccountedFirst'
    BY <1>9, <2>1 DEF finish_call, Goto, readerVars, books, TypeOK, CallsAreOnce,
           AccountedFirst, Dispatched
  <2> QED  BY <2>1, <2>2, <2>3, <2>4
<1>10. CASE WriteAnswer
  <2>1. TypeOK'
    <3>1. outcome \in {"none", "sent", "result"} \cup Errors
      BY <1>10 DEF WriteAnswer, TypeOK, AccountedFirst
    <3>2. active \in Ids
      BY <1>10 DEF WriteAnswer, TypeOK, CallsAreOnce
    <3> QED  BY <1>10, <3>1, <3>2 DEF WriteAnswer, Goto, readerVars, books, TypeOK
  <2>2. CallsAreOnce'
    BY <1>10, <2>1 DEF WriteAnswer, Goto, readerVars, books, TypeOK, CallsAreOnce,
           Outstanding
  <2>3. ChildrenTracked'
    BY <1>10, <2>1 DEF WriteAnswer, Goto, readerVars, books, TypeOK, CallsAreOnce,
           ChildrenTracked
  <2>4. AccountedFirst'
    BY <1>10, <2>1 DEF WriteAnswer, Goto, readerVars, books, TypeOK, CallsAreOnce,
           AccountedFirst, Dispatched
  <2> QED  BY <2>1, <2>2, <2>3, <2>4
<1> QED  BY <1>1, <1>2, <1>3, <1>4, <1>5, <1>6, <1>7, <1>8, <1>9, <1>10

LEMMA WorkerStepInv == ASSUME WorkerConstants, WorkerInv, [Next]_vars PROVE WorkerInv'
<1>1. CASE UNCHANGED vars
  BY <1>1 DEF vars, WorkerInv, TypeOK, CallsAreOnce, Outstanding, ChildrenTracked,
         AccountedFirst, Dispatched
<1>2. CASE Worker
  BY <1>2, WorkerKeeps DEF Worker
<1>3. ASSUME NEW i \in Ids, Cancel(i) \/ RefuseCall(i) \/ AcceptCall(i) PROVE WorkerInv'
  BY <1>3, CallKeeps
<1>4. CASE BadFrame \/ Handshake \/ Shutdown \/ Teardown \/ Reply \/ EndOfInput \/ CancelAll
           \/ Exit
  BY <1>4, FrameKeeps
<1> QED  BY <1>1, <1>2, <1>3, <1>4 DEF Next, Reader

(* Whatever frames arrive: an accepted call is once in the queue or on the *)
(* worker and stays registered or cancelled until finish_call, a child     *)
(* past the check of v2_note_child has its handle in the slot, and a       *)
(* result is decided only after both ledgers (raw_worker_impl.rs).         *)
THEOREM WorkerInvariant == ASSUME WorkerConstants PROVE Spec => []WorkerInv
<1>1. Init => WorkerInv
  BY WorkerInitInv
<1>2. WorkerInv /\ [Next]_vars => WorkerInv'
  BY WorkerStepInv
<1> QED  BY <1>1, <1>2, PTL DEF Spec

(* Every variable of the session keeps its type (raw_worker_impl.rs).       *)
THEOREM WorkerTypeCorrect == ASSUME WorkerConstants PROVE Spec => []TypeOK
<1>1. WorkerInv => TypeOK
  BY DEF WorkerInv
<1> QED  BY <1>1, WorkerInvariant, PTL

(* For any number of calls and any interleaving of the two threads: when   *)
(* the session exits, a command still alive was spawned after its call was *)
(* cancelled, and its worker is still between storing the handle and       *)
(* looking at the flag (raw_worker_impl.rs, cancel_all and v2_note_child). *)
THEOREM NoOrphanButSpawning ==
    ASSUME WorkerConstants PROVE Spec => []OrphansOnlyFromSpawnWindow
<1>1. WorkerInv => OrphansOnlyFromSpawnWindow
  BY WorkerInvImplies
<1> QED  BY <1>1, WorkerInvariant, PTL

(* Every result the host received for a dispatched operation is in both    *)
(* ledgers, whatever writes failed (dispatcher.rs, dispatch_operation).    *)
THEOREM ResultsAccounted ==
    ASSUME WorkerConstants PROVE Spec => []ServedAccountingDurable
<1>1. WorkerInv => ServedAccountingDurable
  BY WorkerInvImplies
<1> QED  BY <1>1, WorkerInvariant, PTL
=============================================================================
