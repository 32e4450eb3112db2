--------------------------- MODULE BackgroundJobs ---------------------------
(***************************************************************************)
(* Background shell jobs (engine_shell.rs): a process-wide registry of     *)
(* jobs, one thread per job that runs the command and appends its output   *)
(* to a log, a client that follows the log with a cursor, and the session  *)
(* teardown that ends every job.  Starting a job, publishing its child and *)
(* the teardown interleave; so do a poll's reads and the log's writer.     *)
(*                                                                         *)
(* A log is its number of output chunks; jobs are numbered in the order    *)
(* they were created.                                                      *)
(***************************************************************************)
EXTENDS Integers, FiniteSets, WellFoundedInduction, TLAPS

CONSTANTS MaxJobs,   \* jobs ever started
          JobCap,    \* MAX_BACKGROUND_JOBS
          MaxChunks, \* chunks one command writes
          TailChunks \* chunks one poll returns at most

VARIABLES nextJob,   \* next_id
          halting,   \* terminating
          listed,    \* jobs in the registry
          starter,   \* <<control point, job>> of the thread in start
          status,    \* job -> "none", "running", "exited" or "failed"
          expired,   \* jobs whose completion is older than COMPLETED_JOB_TTL
          handle,    \* jobs whose child handle is published
          endAsked,  \* jobs with terminate_requested
          proc,      \* job -> "none", "live" or "gone"
          logLen,    \* job -> chunks in the log
          version,   \* job -> version
          logError,  \* jobs with a failed log write
          thread,    \* job -> control point of its thread
          ender,     \* terminate_all: "idle", "scan", "kill" or "done"
          victims,   \* children terminate_all took out of the registry
          client     \* the polling client: its job, cursor and control point

vars == <<nextJob, halting, listed, starter, status, expired, handle, endAsked, proc,
          logLen, version, logError, thread, ender, victims, client>>

Jobs == 1..MaxJobs

jobVars == <<status, expired, handle, endAsked, proc, logLen, version, logError, thread>>
enderVars == <<halting, ender, victims>>

\* at: "idle", "snap", "len", "lock", "wait", "read", "end" (saw the job end
\* and all of its output), "lost" (unknown job or log error)
NoPoll == [at |-> "idle", job |-> 0, cursor |-> 0, snap |-> 0, len |-> 0,
           seen |-> 0, woken |-> FALSE, done |-> FALSE]

TypeOK ==
    /\ nextJob \in 1..(MaxJobs + 1) /\ halting \in BOOLEAN
    /\ listed \subseteq Jobs /\ expired \subseteq Jobs /\ handle \subseteq Jobs
    /\ endAsked \subseteq Jobs /\ logError \subseteq Jobs /\ victims \subseteq Jobs
    /\ starter \in {"idle", "insert", "recheck", "launch"} \X (0..MaxJobs)
    /\ status \in [Jobs -> {"none", "running", "exited", "failed"}]
    /\ proc \in [Jobs -> {"none", "live", "gone"}]
    /\ logLen \in [Jobs -> 0..(MaxChunks + 1)]
    /\ version \in [Jobs -> 0..(MaxChunks + 1)]
    /\ thread \in [Jobs -> {"none", "spawn", "publish", "stream", "bump", "notify",
                            "failing", "finish", "notify_end", "done"}]
    /\ ender \in {"idle", "scan", "kill", "done"}

Init ==
    /\ nextJob = 1 /\ halting = FALSE /\ listed = {} /\ starter = <<"idle", 0>>
    /\ status = [j \in Jobs |-> "none"] /\ expired = {} /\ handle = {} /\ endAsked = {}
    /\ proc = [j \in Jobs |-> "none"] /\ logLen = [j \in Jobs |-> 0]
    /\ version = [j \in Jobs |-> 0] /\ logError = {} /\ thread = [j \in Jobs |-> "none"]
    /\ ender = "idle" /\ victims = {} /\ client = NoPoll

-----------------------------------------------------------------------------
(* start.                                                                   *)

\* Refused during teardown; otherwise an id is taken and the log created.
Start ==
    /\ starter[1] = "idle" /\ ~halting /\ nextJob <= MaxJobs
    /\ starter' = <<"insert", nextJob>>
    /\ nextJob' = nextJob + 1
    /\ UNCHANGED <<listed, jobVars, enderVars, client>>

background_job_is_complete(j) == status[j] \in {"exited", "failed"}

\* When the registry is full the oldest job goes, running or not.
EvictOldest(full) == full \ {CHOOSE j \in full : \A k \in full : j <= k}

\* When the registry is full the oldest completed job goes; none, no room.
EvictCompleted(full) ==
    LET ended == {j \in full : background_job_is_complete(j)}
    IN  IF ended = {} THEN full
        ELSE full \ {CHOOSE j \in ended : \A k \in ended : j <= k}

\* insert_bounded: expired jobs are dropped first.
InsertBounded ==
    /\ starter[1] = "insert"
    /\ LET j    == starter[2]
           kept == listed \ expired
           room == IF Cardinality(kept) >= JobCap THEN EvictCompleted(kept) ELSE kept
       IN  IF Cardinality(room) >= JobCap
           THEN /\ listed' = room /\ starter' = <<"idle", 0>>
                /\ UNCHANGED status
           ELSE /\ listed' = room \cup {j} /\ starter' = <<"recheck", j>>
                /\ status' = [status EXCEPT ![j] = "running"]
    /\ UNCHANGED <<nextJob, expired, handle, endAsked, proc, logLen, version, logError,
                   thread, enderVars, client>>

\* The job is launched whatever the teardown did meanwhile.
NoRecheck ==
    /\ starter[1] = "recheck"
    /\ starter' = <<"launch", starter[2]>>
    /\ UNCHANGED <<nextJob, listed, jobVars, enderVars, client>>

\* The teardown may have begun between the first check and the insertion.
Recheck ==
    /\ starter[1] = "recheck"
    /\ LET j == starter[2]
       IN  IF halting
           THEN /\ listed' = listed \ {j} /\ starter' = <<"idle", 0>>
                /\ status' = [status EXCEPT ![j] = "none"]
           ELSE starter' = <<"launch", j>> /\ UNCHANGED <<listed, status>>
    /\ UNCHANGED <<nextJob, expired, handle, endAsked, proc, logLen, version, logError,
                   thread, enderVars, client>>

\* The job's thread is spawned; a failure takes the job out again.
Launch ==
    /\ starter[1] = "launch" /\ starter' = <<"idle", 0>>
    /\ LET j == starter[2]
       IN  \/ thread' = [thread EXCEPT ![j] = "spawn"] /\ UNCHANGED <<listed, status>>
           \/ /\ listed' = listed \ {j} /\ status' = [status EXCEPT ![j] = "none"]
              /\ UNCHANGED thread
    /\ UNCHANGED <<nextJob, expired, handle, endAsked, proc, logLen, version, logError,
                   enderVars, client>>

-----------------------------------------------------------------------------
(* The job's thread.                                                        *)

Step(j, from, to) == thread[j] = from /\ thread' = [thread EXCEPT ![j] = to]
Kill(j) == proc' = [proc EXCEPT ![j] = "gone"]

SpawnChild(j) ==
    /\ \/ Step(j, "spawn", "publish") /\ proc' = [proc EXCEPT ![j] = "live"]
       \/ Step(j, "spawn", "failing") /\ UNCHANGED proc
    /\ UNCHANGED <<nextJob, listed, starter, status, expired, handle, endAsked, logLen,
                   version, logError, enderVars, client>>

\* The handle observer: the handle is published and the mark read under one
\* lock, so a teardown either finds the handle or is found here.
Publish(j) ==
    /\ Step(j, "publish", "stream")
    /\ handle' = handle \cup {j}
    /\ IF j \in endAsked THEN Kill(j) ELSE UNCHANGED proc
    /\ UNCHANGED <<nextJob, listed, starter, status, expired, endAsked, logLen, version,
                   logError, enderVars, client>>

\* The chunk observer, first half: the chunk goes to the log.
WriteChunk(j) ==
    /\ Step(j, "stream", "bump") /\ proc[j] = "live" /\ logLen[j] < MaxChunks
    /\ \/ logLen' = [logLen EXCEPT ![j] = @ + 1] /\ UNCHANGED <<logError, proc>>
       \/ logError' = logError \cup {j} /\ Kill(j) /\ UNCHANGED logLen
    /\ UNCHANGED <<nextJob, listed, starter, status, expired, handle, endAsked, version,
                   enderVars, client>>

\* Second half: the version moves, under the state lock.
Bump(j) ==
    /\ Step(j, "bump", "notify")
    /\ version' = [version EXCEPT ![j] = @ + 1]
    /\ UNCHANGED <<nextJob, listed, starter, status, expired, handle, endAsked, proc,
                   logLen, logError, enderVars, client>>

WakeClient(j) ==
    client' = IF client.at = "wait" /\ client.job = j
              THEN [client EXCEPT !.woken = TRUE] ELSE client

Notify(j) ==
    /\ Step(j, "notify", "stream") /\ WakeClient(j)
    /\ UNCHANGED <<nextJob, listed, starter, status, expired, handle, endAsked, proc,
                   logLen, version, logError, enderVars>>

\* The runtime returns with the tree gone, by itself, at the timeout or killed.
ChildEnds(j) ==
    /\ Step(j, "stream", "finish")
    /\ Kill(j)
    /\ UNCHANGED <<nextJob, listed, starter, status, expired, handle, endAsked, logLen,
                   version, logError, enderVars, client>>

\* A failed run leaves its message in the log before the job is completed.
LogFailure(j) ==
    /\ Step(j, "failing", "finish")
    /\ \/ logLen' = [logLen EXCEPT ![j] = @ + 1] /\ UNCHANGED logError
       \/ logError' = logError \cup {j} /\ UNCHANGED logLen
    /\ UNCHANGED <<nextJob, listed, starter, status, expired, handle, endAsked, proc,
                   version, enderVars, client>>

\* The completion is published while output is still on its way to the log.
CompleteEarly(j) ==
    /\ thread[j] = "stream" /\ status[j] = "running"
    /\ status' = [status EXCEPT ![j] = "exited"]
    /\ UNCHANGED <<nextJob, listed, starter, expired, handle, endAsked, proc, logLen,
                   version, logError, thread, enderVars, client>>

\* Completion: status, exit code, time and version under the state lock.
Complete(j) ==
    /\ Step(j, "finish", "notify_end")
    /\ status' = [status EXCEPT ![j] = IF proc[j] = "none" THEN "failed" ELSE "exited"]
    /\ version' = [version EXCEPT ![j] = @ + 1]
    /\ UNCHANGED <<nextJob, listed, starter, expired, handle, endAsked, proc, logLen,
                   logError, enderVars, client>>

NotifyEnd(j) ==
    /\ Step(j, "notify_end", "done") /\ WakeClient(j)
    /\ UNCHANGED <<nextJob, listed, starter, status, expired, handle, endAsked, proc,
                   logLen, version, logError, enderVars>>

\* background_job_is_expired: the completion grows older than the TTL.
Expire(j) ==
    /\ background_job_is_complete(j) /\ j \notin expired
    /\ expired' = expired \cup {j}
    /\ UNCHANGED <<nextJob, listed, starter, status, handle, endAsked, proc, logLen,
                   version, logError, thread, enderVars, client>>

-----------------------------------------------------------------------------
(* poll, by a client that passes the cursor of its last answer.             *)

Client(c) == client' = c /\ UNCHANGED <<nextJob, starter, jobVars, enderVars>>

\* Expired jobs are dropped, then the job is looked up.
PollLookup(j) ==
    /\ client.at = "idle" /\ j < nextJob /\ (client.job = 0 \/ client.job = j)
    /\ listed' = listed \ expired
    /\ Client([client EXCEPT !.job = j,
                             !.at = IF j \in listed \ expired THEN "snap" ELSE "lost"])

PollSnapshot ==
    /\ client.at = "snap"
    /\ Client([client EXCEPT !.at = "len", !.snap = version[client.job]])
    /\ UNCHANGED listed

PollLength ==
    /\ client.at = "len"
    /\ Client([client EXCEPT !.at = "lock", !.len = logLen[client.job]])
    /\ UNCHANGED listed

\* The wait is decided on the length alone.
WaitOnLength(j) == status[j] = "running" /\ client.cursor >= client.len

\* The poll waits only if nothing moved since its first look at the state and
\* the log held nothing beyond the cursor.
MustWait(j) ==
    /\ status[j] = "running" /\ version[j] = client.snap
    /\ client.cursor >= client.len

PollDecide ==
    /\ client.at = "lock"
    /\ LET j == client.job
       IN  \/ /\ MustWait(j)
              /\ Client([client EXCEPT !.at = "wait", !.seen = version[j], !.woken = FALSE])
           \/ Client([client EXCEPT !.at = "read", !.done = background_job_is_complete(j)])
              \* no wait asked for, or nothing to wait for
    /\ UNCHANGED listed

\* The condition variable: woken and something moved, or the wait timed out.
PollWake ==
    /\ client.at = "wait"
    /\ LET j == client.job
       IN  Client(IF client.woken /\ status[j] = "running" /\ version[j] = client.seen
                  THEN [client EXCEPT !.woken = FALSE]
                  ELSE [client EXCEPT !.at = "read", !.done = background_job_is_complete(j)])
    /\ UNCHANGED listed

\* decode_job_tail: valid text is consumed whole, otherwise a bounded prefix.
decode_job_tail(n) == {n} \cup (IF n > 1 THEN {1} ELSE {})

\* read_job_window: what lies between the cursor and the end, within the bound.
read_job_window(j) ==
    LET rest == logLen[j] - client.cursor IN IF rest < TailChunks THEN rest ELSE TailChunks

\* The answer: a log error fails the poll.
PollRead ==
    /\ client.at = "read"
    /\ LET j == client.job
       IN  IF j \in logError THEN Client([client EXCEPT !.at = "lost"])
           ELSE \E used \in decode_job_tail(read_job_window(j)) :
                  LET end == client.cursor + used
                  IN  Client([client EXCEPT !.cursor = end,
                          !.at = IF client.done /\ end = logLen[j] THEN "end" ELSE "idle"])
    /\ UNCHANGED listed

-----------------------------------------------------------------------------
(* terminate_all, from the session teardown.                                *)

BeginTerminate ==
    /\ ender = "idle" /\ ender' = "scan" /\ halting' = TRUE
    /\ UNCHANGED <<nextJob, listed, starter, jobVars, victims, client>>

\* Under the registry lock every running job is marked and its handle taken.
TerminateScan ==
    /\ ender = "scan" /\ ender' = "kill"
    /\ LET running == {j \in listed : status[j] = "running"}
       IN  endAsked' = endAsked \cup running /\ victims' = running \cap handle
    /\ UNCHANGED <<nextJob, listed, starter, halting, status, expired, handle, proc, logLen,
                   version, logError, thread, client>>

TerminateKill ==
    /\ ender = "kill" /\ ender' = "done"
    /\ proc' = [j \in Jobs |-> IF j \in victims THEN "gone" ELSE proc[j]]
    /\ victims' = {}
    /\ UNCHANGED <<nextJob, listed, starter, halting, status, expired, handle, endAsked,
                   logLen, version, logError, thread, client>>

-----------------------------------------------------------------------------
Next ==
    \/ Start \/ InsertBounded \/ Recheck \/ Launch
    \/ \E j \in Jobs : \/ SpawnChild(j) \/ Publish(j) \/ WriteChunk(j) \/ Bump(j)
                       \/ Notify(j) \/ ChildEnds(j) \/ LogFailure(j) \/ Complete(j)
                       \/ NotifyEnd(j) \/ Expire(j) \/ PollLookup(j)
    \/ PollSnapshot \/ PollLength \/ PollDecide \/ PollWake \/ PollRead
    \/ BeginTerminate \/ TerminateScan \/ TerminateKill

Spec == Init /\ [][Next]_vars

-----------------------------------------------------------------------------
(* Properties.                                                              *)

\* Once the teardown has run, a command still alive belongs to a job whose
\* thread has not published its handle yet, and which will kill it there
\* (start's second check of terminating, terminate_requested).
TeardownReachesJobs ==
    ender = "done" => \A j \in Jobs : proc[j] = "live" =>
        thread[j] = "publish" /\ j \in endAsked

\* A client asleep in a poll has seen everything in the log, unless the writer
\* is about to wake it (the snapshot of the version before the log length).
NoLostWakeup ==
    client.at = "wait" /\ ~client.woken /\ logLen[client.job] > client.cursor
        => thread[client.job] \in {"bump", "notify", "finish", "notify_end"}

\* A client that was told the job has ended, and has read to the end of the
\* log it was shown, has all of the job's output (completion is published
\* after the last write).
ClientSeesAllOutput ==
    client.at = "end" => client.cursor = logLen[client.job]

\* A job whose command may still run can be polled: making room never drops
\* it (insert_bounded evicts completed jobs only).
RunningJobsListed ==
    \A j \in Jobs : thread[j] \notin {"none", "done"} /\ status[j] = "running"
        => j \in listed
-----------------------------------------------------------------------------
(* Why the properties hold, for any number of jobs and chunks.  A job's    *)
(* status follows its thread; a running job stays listed, so the scan of   *)
(* the teardown marks it; and the client's snapshot of the version is      *)
(* older than the length it waits on.                                      *)

JobsConstants == MaxJobs \in Nat /\ TailChunks \in Nat

JobsTyped ==
    /\ nextJob \in 1..(MaxJobs + 1) /\ halting \in BOOLEAN
    /\ listed \subseteq Jobs /\ victims \subseteq Jobs
    /\ status \in [Jobs -> {"none", "running", "exited", "failed"}]
    /\ proc \in [Jobs -> {"none", "live", "gone"}]
    /\ logLen \in [Jobs -> Nat] /\ version \in [Jobs -> Nat]
    /\ thread \in [Jobs -> {"none", "spawn", "publish", "stream", "bump", "notify",
                            "failing", "finish", "notify_end", "done"}]
    /\ ender \in {"idle", "scan", "kill", "done"}

ClientTyped ==
    client \in [at : {"idle", "snap", "len", "lock", "wait", "read", "end", "lost"},
                job : 0..MaxJobs, cursor : Int, snap : Nat, len : Nat, seen : Nat,
                woken : BOOLEAN, done : BOOLEAN]

\* The starter works on the newest job, whose thread does not exist yet.
StarterOwnsJob ==
    /\ starter[1] \in {"idle", "insert", "recheck", "launch"}
    /\ starter[1] # "idle" =>
         /\ starter[2] \in Jobs /\ nextJob = starter[2] + 1
         /\ thread[starter[2]] = "none"
         /\ starter[1] = "insert" => status[starter[2]] = "none"
         /\ starter[1] # "insert" => status[starter[2]] = "running"
    /\ \A j \in Jobs : j >= nextJob => thread[j] = "none" /\ status[j] = "none"

\* The status a thread has published, and where its command may be alive.
StatusFollowsThread ==
    \A j \in Jobs :
      /\ thread[j] \in {"spawn", "publish", "stream", "bump", "notify", "failing", "finish"}
           => status[j] = "running"
      /\ thread[j] \in {"notify_end", "done"} => status[j] \in {"exited", "failed"}
      /\ thread[j] = "none" => status[j] \in {"none", "running"}
      /\ proc[j] = "live" => thread[j] \in {"publish", "stream", "bump", "notify"}
      /\ proc[j] = "live" /\ thread[j] # "publish" => j \in handle
      /\ status[j] = "running" => j \in listed
      /\ j \in expired => status[j] \in {"exited", "failed"}

\* The teardown: nothing is launched once it began, its scan marked every job
\* that has a thread or is about to get one, and it holds every live command
\* whose handle was published.
Marked(j) ==
    /\ status[j] = "running"
         /\ (thread[j] # "none" \/ (starter[1] = "launch" /\ starter[2] = j))
         => j \in endAsked
    /\ proc[j] = "live" /\ thread[j] # "publish" => ender = "kill" /\ j \in victims

ScanMarksJobs ==
    /\ halting <=> ender # "idle"
    /\ ender \in {"kill", "done"} => \A j \in Jobs : Marked(j)

\* The client: a version that has not moved since its snapshot means a log
\* that has not grown since the length was read, but for a writer about to
\* move the version; and what woke nobody yet is about to.
ClientCurrent ==
    /\ client.at \notin {"idle", "lost"} \/ client.done => client.job \in Jobs
    /\ client.done => status[client.job] \in {"exited", "failed"}
    /\ client.at = "end" => client.done /\ client.cursor = logLen[client.job]
    /\ client.at \in {"len", "lock"} => client.snap <= version[client.job]
    /\ client.at = "lock" /\ client.snap = version[client.job]
          /\ logLen[client.job] > client.len
         => thread[client.job] \in {"bump", "finish"}
    /\ client.at = "wait" =>
         /\ client.seen <= version[client.job]
         /\ client.seen = version[client.job] /\ logLen[client.job] > client.cursor
              => thread[client.job] \in {"bump", "finish"}
         /\ client.seen # version[client.job] /\ ~client.woken
              => thread[client.job] \in {"notify", "notify_end"}

JobsInv == /\ JobsTyped /\ ClientTyped /\ StarterOwnsJob /\ StatusFollowsThread
           /\ ScanMarksJobs /\ ClientCurrent

(* The invariant implies the properties, and holds at the start.      *)
LEMMA JobsInvImplies ==
    JobsInv => TeardownReachesJobs /\ NoLostWakeup /\ ClientSeesAllOutput /\ RunningJobsListed
<1> SUFFICES ASSUME JobsInv
             PROVE  TeardownReachesJobs /\ NoLostWakeup /\ ClientSeesAllOutput /\ RunningJobsListed
  OBVIOUS
<1>1. TeardownReachesJobs
  BY DEF JobsInv, JobsTyped, StatusFollowsThread, ScanMarksJobs, Marked, TeardownReachesJobs
<1>2. NoLostWakeup
  BY DEF JobsInv, JobsTyped, ClientTyped, ClientCurrent, NoLostWakeup
<1>3. ClientSeesAllOutput
  BY DEF JobsInv, ClientCurrent, ClientSeesAllOutput
<1>4. RunningJobsListed
  BY DEF JobsInv, StatusFollowsThread, RunningJobsListed
<1> QED  BY <1>1, <1>2, <1>3, <1>4

LEMMA InitInv == ASSUME JobsConstants, Init PROVE JobsInv
<1> USE DEF JobsConstants, Init
<1>0. halting \in BOOLEAN
  BY Zenon
<1>1. JobsTyped
  BY <1>0 DEF JobsTyped
<1>2. StarterOwnsJob /\ StatusFollowsThread /\ ScanMarksJobs
  BY DEF StarterOwnsJob, StatusFollowsThread, ScanMarksJobs, Marked
<1>3. ClientTyped /\ ClientCurrent
  BY DEF ClientTyped, ClientCurrent, NoPoll
<1> QED  BY <1>1, <1>2, <1>3 DEF JobsInv

(* A set of jobs that is not empty has an oldest one, ...                   *)
LEMMA OldestJob ==
    ASSUME NEW S \in SUBSET Nat, S # {} PROVE \E j \in S : \A k \in S : j <= k
<1> DEFINE Older == {pair \in Nat \X Nat : pair[1] < pair[2]}
<1>1. IsWellFoundedOn(Older, Nat)
  BY NatLessThanWellFounded, Zenon DEF OpToRel
<1> HIDE DEF Older
<1>2. PICK j \in S : \A k \in S : ~ (<<k, j>> \in Older)
  BY <1>1, WFMin, Zenon
<1>3. ASSUME NEW k \in S PROVE j <= k
  <2>1. j \in Nat /\ k \in Nat /\ <<k, j>> \in Nat \X Nat
    OBVIOUS
  <2>2. <<k, j>>[1] = k /\ <<k, j>>[2] = j
    OBVIOUS
  <2>3. ~ (k < j)
    BY <1>2, <2>1, <2>2, Zenon DEF Older
  <2> QED  BY <2>1, <2>3
<1> QED  BY <1>3

(* ... and insert_bounded makes room of a completed job only.               *)
LEMMA EvictsCompleted ==
    ASSUME JobsConstants, NEW full \in SUBSET Jobs
    PROVE  /\ EvictCompleted(full) \subseteq full
           /\ \A j \in full : ~background_job_is_complete(j) => j \in EvictCompleted(full)
<1> DEFINE ended == {j \in full : background_job_is_complete(j)}
<1>1. CASE ended = {}
  BY <1>1 DEF EvictCompleted
<1>2. CASE ended # {}
  <2> DEFINE oldest == CHOOSE j \in ended : \A k \in ended : j <= k
  <2>1. EvictCompleted(full) = full \ {oldest}
    BY <1>2 DEF EvictCompleted
  <2>2. ended \in SUBSET Nat
    <3>1. Jobs \subseteq Nat
      BY DEF Jobs, JobsConstants
    <3> QED  BY <3>1
  <2> HIDE DEF ended
  <2>3. oldest \in ended
    BY <1>2, <2>2, OldestJob
  <2>4. EvictCompleted(full) \subseteq full
    BY <2>1
  <2>5. ASSUME NEW j \in full, ~background_job_is_complete(j)
        PROVE  j \in EvictCompleted(full)
    <3>1. j \notin ended
      BY <2>5 DEF ended
    <3> QED  BY <2>1, <2>3, <3>1
  <2> QED  BY <2>4, <2>5
<1> QED  BY <1>1, <1>2

(* Every step keeps the invariant: ...                                      *)
(* ... the starter takes a new job to its thread or gives it up, ...       *)
LEMMA StartKeeps ==
    ASSUME JobsConstants, JobsInv,
           Start \/ InsertBounded \/ Recheck \/ Launch
    PROVE  JobsInv'
<1> USE DEF JobsConstants, JobsInv
<1>1. CASE Start
  <2>1. JobsTyped'
    BY <1>1 DEF Start, jobVars, enderVars, JobsTyped
  <2>2. ClientTyped'
    BY <1>1, <2>1 DEF Start, jobVars, enderVars, ClientTyped
  <2>3. StarterOwnsJob'
    BY <1>1, <2>1, SMTT(30) DEF Start, jobVars, enderVars, Jobs, JobsTyped, ClientTyped,
           StarterOwnsJob, StatusFollowsThread
  <2>4. StatusFollowsThread'
    BY <1>1, <2>1 DEF Start, jobVars, enderVars, JobsTyped, ClientTyped, StarterOwnsJob,
           StatusFollowsThread
  <2>5. ScanMarksJobs'
    BY <1>1, <2>1 DEF Start, jobVars, enderVars, JobsTyped, ClientTyped, StarterOwnsJob,
           StatusFollowsThread, ScanMarksJobs, Marked
  <2>6. ClientCurrent'
    BY <1>1, <2>1 DEF Start, jobVars, enderVars, JobsTyped, ClientTyped, StarterOwnsJob,
           StatusFollowsThread, ClientCurrent
  <2> QED  BY <2>1, <2>2, <2>3, <2>4, <2>5, <2>6
<1>2. CASE InsertBounded
  <2>0. /\ starter[1] = "insert" /\ starter[2] \in Jobs /\ listed' \subseteq listed \cup {starter[2]}
        /\ \A k \in listed : status[k] = "running" /\ k \notin expired => k \in listed'
        /\ \/ starter' = <<"idle", 0>> /\ status' = status
           \/ /\ starter' = <<"recheck", starter[2]>> /\ starter[2] \in listed'
              /\ status' = [status EXCEPT ![starter[2]] = "running"]
        /\ UNCHANGED <<nextJob, expired, handle, endAsked, proc, logLen, version, logError,
                       thread, halting, ender, victims, client>>
    <3> DEFINE kept == listed \ expired
               room == IF Cardinality(kept) >= JobCap THEN EvictCompleted(kept) ELSE kept
    <3>1. kept \in SUBSET Jobs
      BY DEF JobsTyped
    <3>2. /\ room \subseteq kept
          /\ \A k \in kept : ~background_job_is_complete(k) => k \in room
      BY <3>1, EvictsCompleted
    <3>3. \A k \in listed : status[k] = "running" /\ k \notin expired => k \in room
      BY <3>2 DEF background_job_is_complete
    <3>4. \/ listed' = room /\ starter' = <<"idle", 0>> /\ status' = status
          \/ /\ listed' = room \cup {starter[2]} /\ starter' = <<"recheck", starter[2]>>
             /\ status' = [status EXCEPT ![starter[2]] = "running"]
      BY <1>2 DEF InsertBounded
    <3> HIDE DEF room
    <3> QED  BY <1>2, <3>2, <3>3, <3>4 DEF InsertBounded, enderVars, StarterOwnsJob
  <2>1. JobsTyped'
    BY <2>0 DEF JobsTyped
  <2>2. ClientTyped'
    BY <2>0 DEF ClientTyped
  <2>3. StarterOwnsJob'
    <3>1. CASE starter' = <<"idle", 0>> /\ status' = status
      BY <2>0, <3>1 DEF JobsTyped, StarterOwnsJob
    <3>2. CASE /\ starter' = <<"recheck", starter[2]>>
               /\ status' = [status EXCEPT ![starter[2]] = "running"]
      <4>1. starter[2] < nextJob /\ nextJob' = nextJob /\ thread' = thread
        BY <2>0 DEF StarterOwnsJob, Jobs
      <4> QED  BY <2>0, <3>2, <4>1 DEF JobsTyped, StarterOwnsJob, Jobs
    <3> QED  BY <2>0, <3>1, <3>2
  <2>4. StatusFollowsThread'
    BY <2>0 DEF JobsTyped, StarterOwnsJob, StatusFollowsThread
  <2>5. ScanMarksJobs'
    BY <2>0 DEF JobsTyped, StarterOwnsJob, StatusFollowsThread, ScanMarksJobs, Marked
  <2>6. ClientCurrent'
    BY <2>0 DEF JobsTyped, ClientTyped, StarterOwnsJob, ClientCurrent
  <2> QED  BY <2>1, <2>2, <2>3, <2>4, <2>5, <2>6
<1>3. CASE Recheck
  <2>1. JobsTyped'
    BY <1>3 DEF Recheck, jobVars, enderVars, JobsTyped, StarterOwnsJob
  <2>2. ClientTyped'
    BY <1>3, <2>1 DEF Recheck, jobVars, enderVars, ClientTyped
  <2>3. StarterOwnsJob'
    BY <1>3, <2>1 DEF Recheck, jobVars, enderVars, JobsTyped, ClientTyped,
           StarterOwnsJob, StatusFollowsThread
  <2>4. StatusFollowsThread'
    BY <1>3, <2>1 DEF Recheck, jobVars, enderVars, JobsTyped, ClientTyped,
           StarterOwnsJob, StatusFollowsThread
  <2>5. ScanMarksJobs'
    <3>1. UNCHANGED <<halting, ender, victims, endAsked>>
      BY <1>3 DEF Recheck, enderVars
    <3>2. ASSUME NEW k \in Jobs, ender \in {"kill", "done"} PROVE Marked(k)'
      BY <1>3, <2>1, <3>1, <3>2 DEF Recheck, enderVars, JobsTyped, StarterOwnsJob, StatusFollowsThread,
             ScanMarksJobs, Marked
    <3> QED  BY <3>1, <3>2 DEF ScanMarksJobs
  <2>6. ClientCurrent'
    BY <1>3, <2>1 DEF Recheck, jobVars, enderVars, JobsTyped, ClientTyped,
           StarterOwnsJob, StatusFollowsThread, ClientCurrent
  <2> QED  BY <2>1, <2>2, <2>3, <2>4, <2>5, <2>6
<1>4. CASE Launch
  <2>1. JobsTyped'
    BY <1>4 DEF Launch, jobVars, enderVars, JobsTyped, StarterOwnsJob
  <2>2. ClientTyped'
    BY <1>4, <2>1 DEF Launch, jobVars, enderVars, ClientTyped
  <2>3. StarterOwnsJob'
    BY <1>4, <2>1 DEF Launch, jobVars, enderVars, JobsTyped, ClientTyped,
           StarterOwnsJob, StatusFollowsThread
  <2>4. StatusFollowsThread'
    BY <1>4, <2>1 DEF Launch, jobVars, enderVars, JobsTyped, ClientTyped,
           StarterOwnsJob, StatusFollowsThread
  <2>5. ScanMarksJobs'
    <3>1. UNCHANGED <<halting, ender, victims, endAsked>>
      BY <1>4 DEF Launch, enderVars
    <3>2. ASSUME NEW k \in Jobs, ender \in {"kill", "done"} PROVE Marked(k)'
      BY <1>4, <2>1, <3>1, <3>2 DEF Launch, enderVars, JobsTyped, StarterOwnsJob, StatusFollowsThread,
             ScanMarksJobs, Marked
    <3> QED  BY <3>1, <3>2 DEF ScanMarksJobs
  <2>6. ClientCurrent'
    BY <1>4, <2>1 DEF Launch, jobVars, enderVars, JobsTyped, ClientTyped,
           StarterOwnsJob, StatusFollowsThread, ClientCurrent
  <2> QED  BY <2>1, <2>2, <2>3, <2>4, <2>5, <2>6
<1> QED  BY <1>1, <1>2, <1>3, <1>4

(* ... the job's thread, ...                                               *)
LEMMA ThreadKeeps ==
    ASSUME JobsConstants, JobsInv, NEW j \in Jobs,
           SpawnChild(j) \/ Publish(j) \/ WriteChunk(j) \/ Bump(j) \/ Notify(j)
               \/ ChildEnds(j) \/ LogFailure(j) \/ Complete(j) \/
               NotifyEnd(j) \/ Expire(j)
    PROVE  JobsInv'
<1> USE DEF JobsConstants, JobsInv
<1>1. CASE SpawnChild(j)
  <2>1. JobsTyped'
    BY <1>1 DEF SpawnChild, Step, jobVars, enderVars, JobsTyped
  <2>2. ClientTyped'
    BY <1>1, <2>1 DEF SpawnChild, Step, jobVars, enderVars, ClientTyped
  <2>3. StarterOwnsJob'
    BY <1>1, <2>1 DEF SpawnChild, Step, jobVars, enderVars, JobsTyped, ClientTyped,
           StarterOwnsJob, StatusFollowsThread
  <2>4. StatusFollowsThread'
    BY <1>1, <2>1 DEF SpawnChild, Step, jobVars, enderVars, JobsTyped, ClientTyped,
           StarterOwnsJob, StatusFollowsThread
  <2>5. ScanMarksJobs'
    BY <1>1, <2>1 DEF SpawnChild, Step, jobVars, enderVars, JobsTyped, ClientTyped,
           StarterOwnsJob, StatusFollowsThread, ScanMarksJobs, Marked
  <2>6. ClientCurrent'
    BY <1>1, <2>1 DEF SpawnChild, Step, jobVars, enderVars, JobsTyped, ClientTyped,
           StarterOwnsJob, StatusFollowsThread, ClientCurrent
  <2> QED  BY <2>1, <2>2, <2>3, <2>4, <2>5, <2>6
<1>2. CASE Publish(j)
  <2>1. JobsTyped'
    BY <1>2 DEF Publish, Step, Kill, jobVars, enderVars, JobsTyped
  <2>2. ClientTyped'
    BY <1>2, <2>1 DEF Publish, Step, Kill, jobVars, enderVars, ClientTyped
  <2>3. StarterOwnsJob'
    BY <1>2, <2>1 DEF Publish, Step, Kill, jobVars, enderVars, JobsTyped, ClientTyped,
           StarterOwnsJob, StatusFollowsThread
  <2>4. StatusFollowsThread'
    BY <1>2, <2>1 DEF Publish, Step, Kill, jobVars, enderVars, JobsTyped, ClientTyped,
           StarterOwnsJob, StatusFollowsThread
  <2>5. ScanMarksJobs'
    <3>1. UNCHANGED <<halting, ender, victims, endAsked>>
      BY <1>2 DEF Publish, Step, Kill, enderVars
    <3>2. ASSUME NEW k \in Jobs, ender \in {"kill", "done"} PROVE Marked(k)'
      BY <1>2, <2>1, <3>1, <3>2 DEF Publish, Step, Kill, enderVars, JobsTyped, StarterOwnsJob, StatusFollowsThread,
             ScanMarksJobs, Marked
    <3> QED  BY <3>1, <3>2 DEF ScanMarksJobs
  <2>6. ClientCurrent'
    BY <1>2, <2>1 DEF Publish, Step, Kill, jobVars, enderVars, JobsTyped, ClientTyped,
           StarterOwnsJob, StatusFollowsThread, ClientCurrent
  <2> QED  BY <2>1, <2>2, <2>3, <2>4, <2>5, <2>6
<1>3. CASE WriteChunk(j)
  <2>1. JobsTyped'
    BY <1>3 DEF WriteChunk, Step, Kill, jobVars, enderVars, JobsTyped
  <2>2. ClientTyped'
    BY <1>3, <2>1 DEF WriteChunk, Step, Kill, jobVars, enderVars, ClientTyped
  <2>3. StarterOwnsJob'
    BY <1>3, <2>1 DEF WriteChunk, Step, Kill, jobVars, enderVars, JobsTyped,
           ClientTyped, StarterOwnsJob, StatusFollowsThread
  <2>4. StatusFollowsThread'
    BY <1>3, <2>1 DEF WriteChunk, Step, Kill, jobVars, enderVars, JobsTyped,
           ClientTyped, StarterOwnsJob, StatusFollowsThread
  <2>5. ScanMarksJobs'
    BY <1>3, <2>1 DEF WriteChunk, Step, Kill, jobVars, enderVars, JobsTyped,
           ClientTyped, StarterOwnsJob, StatusFollowsThread, ScanMarksJobs, Marked
  <2>6. ClientCurrent'
    BY <1>3, <2>1 DEF WriteChunk, Step, Kill, jobVars, enderVars, JobsTyped,
           ClientTyped, StarterOwnsJob, StatusFollowsThread, ClientCurrent
  <2> QED  BY <2>1, <2>2, <2>3, <2>4, <2>5, <2>6
<1>4. CASE Bump(j)
  <2>1. JobsTyped'
    BY <1>4 DEF Bump, Step, jobVars, enderVars, JobsTyped
  <2>2. ClientTyped'
    BY <1>4, <2>1 DEF Bump, Step, jobVars, enderVars, ClientTyped
  <2>3. StarterOwnsJob'
    BY <1>4, <2>1 DEF Bump, Step, jobVars, enderVars, JobsTyped, ClientTyped,
           StarterOwnsJob, StatusFollowsThread
  <2>4. StatusFollowsThread'
    BY <1>4, <2>1 DEF Bump, Step, jobVars, enderVars, JobsTyped, ClientTyped,
           StarterOwnsJob, StatusFollowsThread
  <2>5. ScanMarksJobs'
    BY <1>4, <2>1 DEF Bump, Step, jobVars, enderVars, JobsTyped, ClientTyped,
           StarterOwnsJob, StatusFollowsThread, ScanMarksJobs, Marked
  <2>6. ClientCurrent'
    BY <1>4, <2>1 DEF Bump, Step, jobVars, enderVars, JobsTyped, ClientTyped,
           StarterOwnsJob, StatusFollowsThread, ClientCurrent
  <2> QED  BY <2>1, <2>2, <2>3, <2>4, <2>5, <2>6
<1>5. CASE Notify(j)
  <2>1. JobsTyped'
    BY <1>5 DEF Notify, Step, WakeClient, jobVars, enderVars, JobsTyped
  <2>2. ClientTyped'
    BY <1>5, <2>1 DEF Notify, Step, WakeClient, jobVars, enderVars, JobsTyped,
           ClientTyped
  <2>3. StarterOwnsJob'
    BY <1>5, <2>1 DEF Notify, Step, WakeClient, jobVars, enderVars, JobsTyped,
           ClientTyped, StarterOwnsJob, StatusFollowsThread
  <2>4. StatusFollowsThread'
    BY <1>5, <2>1 DEF Notify, Step, WakeClient, jobVars, enderVars, JobsTyped,
           ClientTyped, StarterOwnsJob, StatusFollowsThread
  <2>5. ScanMarksJobs'
    BY <1>5, <2>1 DEF Notify, Step, WakeClient, jobVars, enderVars, JobsTyped,
           ClientTyped, StarterOwnsJob, StatusFollowsThread, ScanMarksJobs, Marked
  <2>6. ClientCurrent'
    BY <1>5, <2>1 DEF Notify, Step, WakeClient, jobVars, enderVars, JobsTyped,
           ClientTyped, StarterOwnsJob, StatusFollowsThread, ClientCurrent
  <2> QED  BY <2>1, <2>2, <2>3, <2>4, <2>5, <2>6
<1>6. CASE ChildEnds(j)
  <2>1. JobsTyped'
    BY <1>6 DEF ChildEnds, Step, Kill, jobVars, enderVars, JobsTyped
  <2>2. ClientTyped'
    BY <1>6, <2>1 DEF ChildEnds, Step, Kill, jobVars, enderVars, ClientTyped
  <2>3. StarterOwnsJob'
    BY <1>6, <2>1 DEF ChildEnds, Step, Kill, jobVars, enderVars, JobsTyped, ClientTyped,
           StarterOwnsJob, StatusFollowsThread
  <2>4. StatusFollowsThread'
    BY <1>6, <2>1 DEF ChildEnds, Step, Kill, jobVars, enderVars, JobsTyped, ClientTyped,
           StarterOwnsJob, StatusFollowsThread
  <2>5. ScanMarksJobs'
    BY <1>6, <2>1 DEF ChildEnds, Step, Kill, jobVars, enderVars, JobsTyped, ClientTyped,
           StarterOwnsJob, StatusFollowsThread, ScanMarksJobs, Marked
  <2>6. ClientCurrent'
    BY <1>6, <2>1 DEF ChildEnds, Step, Kill, jobVars, enderVars, JobsTyped, ClientTyped,
           StarterOwnsJob, StatusFollowsThread, ClientCurrent
  <2> QED  BY <2>1, <2>2, <2>3, <2>4, <2>5, <2>6
<1>7. CASE LogFailure(j)
  <2>1. JobsTyped'
    BY <1>7 DEF LogFailure, Step, jobVars, enderVars, JobsTyped
  <2>2. ClientTyped'
    BY <1>7, <2>1 DEF LogFailure, Step, jobVars, enderVars, ClientTyped
  <2>3. StarterOwnsJob'
    BY <1>7, <2>1 DEF LogFailure, Step, jobVars, enderVars, JobsTyped, ClientTyped,
           StarterOwnsJob, StatusFollowsThread
  <2>4. StatusFollowsThread'
    BY <1>7, <2>1 DEF LogFailure, Step, jobVars, enderVars, JobsTyped, ClientTyped,
           StarterOwnsJob, StatusFollowsThread
  <2>5. ScanMarksJobs'
    BY <1>7, <2>1 DEF LogFailure, Step, jobVars, enderVars, JobsTyped, ClientTyped,
           StarterOwnsJob, StatusFollowsThread, ScanMarksJobs, Marked
  <2>6. ClientCurrent'
    BY <1>7, <2>1 DEF LogFailure, Step, jobVars, enderVars, JobsTyped, ClientTyped,
           StarterOwnsJob, StatusFollowsThread, ClientCurrent
  <2> QED  BY <2>1, <2>2, <2>3, <2>4, <2>5, <2>6
<1>8. CASE Complete(j)
  <2>1. JobsTyped'
    BY <1>8 DEF Complete, Step, jobVars, enderVars, JobsTyped
  <2>2. ClientTyped'
    BY <1>8, <2>1 DEF Complete, Step, jobVars, enderVars, ClientTyped
  <2>3. StarterOwnsJob'
    BY <1>8, <2>1 DEF Complete, Step, jobVars, enderVars, JobsTyped, ClientTyped,
           StarterOwnsJob, StatusFollowsThread
  <2>4. StatusFollowsThread'
    BY <1>8, <2>1 DEF Complete, Step, jobVars, enderVars, JobsTyped, ClientTyped,
           StarterOwnsJob, StatusFollowsThread
  <2>5. ScanMarksJobs'
    BY <1>8, <2>1 DEF Complete, Step, jobVars, enderVars, JobsTyped, ClientTyped,
           StarterOwnsJob, StatusFollowsThread, ScanMarksJobs, Marked
  <2>6. ClientCurrent'
    BY <1>8, <2>1 DEF Complete, Step, jobVars, enderVars, JobsTyped, ClientTyped,
           StarterOwnsJob, StatusFollowsThread, ClientCurrent
  <2> QED  BY <2>1, <2>2, <2>3, <2>4, <2>5, <2>6
<1>9. CASE NotifyEnd(j)
  <2>1. JobsTyped'
    BY <1>9 DEF NotifyEnd, Step, WakeClient, jobVars, enderVars, JobsTyped
  <2>2. ClientTyped'
    BY <1>9, <2>1 DEF NotifyEnd, Step, WakeClient, jobVars, enderVars, JobsTyped,
           ClientTyped
  <2>3. StarterOwnsJob'
    BY <1>9, <2>1 DEF NotifyEnd, Step, WakeClient, jobVars, enderVars, JobsTyped,
           ClientTyped, StarterOwnsJob, StatusFollowsThread
  <2>4. StatusFollowsThread'
    BY <1>9, <2>1 DEF NotifyEnd, Step, WakeClient, jobVars, enderVars, JobsTyped,
           ClientTyped, StarterOwnsJob, StatusFollowsThread
  <2>5. ScanMarksJobs'
    BY <1>9, <2>1 DEF NotifyEnd, Step, WakeClient, jobVars, enderVars, JobsTyped,
           ClientTyped, StarterOwnsJob, StatusFollowsThread, ScanMarksJobs, Marked
  <2>6. ClientCurrent'
    BY <1>9, <2>1 DEF NotifyEnd, Step, WakeClient, jobVars, enderVars, JobsTyped,
           ClientTyped, StarterOwnsJob, StatusFollowsThread, ClientCurrent
  <2> QED  BY <2>1, <2>2, <2>3, <2>4, <2>5, <2>6
<1>10. CASE Expire(j)
  <2>1. JobsTyped'
    BY <1>10 DEF Expire, background_job_is_complete, jobVars, enderVars, JobsTyped
  <2>2. ClientTyped'
    BY <1>10, <2>1 DEF Expire, background_job_is_complete, jobVars, enderVars,
           ClientTyped
  <2>3. StarterOwnsJob'
    BY <1>10, <2>1 DEF Expire, background_job_is_complete, jobVars, enderVars,
           JobsTyped, ClientTyped, StarterOwnsJob, StatusFollowsThread
  <2>4. StatusFollowsThread'
    BY <1>10, <2>1 DEF Expire, background_job_is_complete, jobVars, enderVars,
           JobsTyped, ClientTyped, StarterOwnsJob, StatusFollowsThread
  <2>5. ScanMarksJobs'
    BY <1>10, <2>1 DEF Expire, background_job_is_complete, jobVars, enderVars,
           JobsTyped, ClientTyped, StarterOwnsJob, StatusFollowsThread, ScanMarksJobs,
           Marked
  <2>6. ClientCurrent'
    BY <1>10, <2>1 DEF Expire, background_job_is_complete, jobVars, enderVars,
           JobsTyped, ClientTyped, StarterOwnsJob, StatusFollowsThread, ClientCurrent
  <2> QED  BY <2>1, <2>2, <2>3, <2>4, <2>5, <2>6
<1> QED  BY <1>1, <1>2, <1>3, <1>4, <1>5, <1>6, <1>7, <1>8, <1>9, <1>10

(* ... the client, ...                                                     *)
LEMMA PollKeeps ==
    ASSUME JobsConstants, JobsInv, NEW j \in Jobs,
           PollLookup(j) \/ PollSnapshot \/ PollLength \/ PollDecide \/ PollWake
               \/ PollRead
    PROVE  JobsInv'
<1> USE DEF JobsConstants, JobsInv
<1>1. CASE PollLookup(j)
  <2>0. PICK p \in {"snap", "lost"} : client' = [client EXCEPT !.job = j, !.at = p]
    BY <1>1 DEF PollLookup, Client
  <2>1. JobsTyped'
    BY <1>1 DEF PollLookup, Client, jobVars, enderVars, JobsTyped
  <2>2. ClientTyped'
    <3>1. j \in 0..MaxJobs
      BY DEF Jobs
    <3> QED  BY <2>0, <3>1 DEF ClientTyped
  <2>3. StarterOwnsJob'
    BY <1>1, <2>1 DEF PollLookup, Client, jobVars, enderVars, JobsTyped, ClientTyped,
           StarterOwnsJob, StatusFollowsThread
  <2>4. StatusFollowsThread'
    BY <1>1, <2>1 DEF PollLookup, Client, jobVars, enderVars, JobsTyped, ClientTyped,
           StarterOwnsJob, StatusFollowsThread
  <2>5. ScanMarksJobs'
    BY <1>1, <2>1 DEF PollLookup, Client, jobVars, enderVars, JobsTyped, ClientTyped,
           StarterOwnsJob, StatusFollowsThread, ScanMarksJobs, Marked
  <2>6. ClientCurrent'
    <3>1. client.at = "idle" /\ (client.job = 0 \/ client.job = j)
          /\ UNCHANGED <<status, version, logLen, thread>>
      BY <1>1 DEF PollLookup, Client, jobVars
    <3>2. client.done => client.job = j
      BY <3>1 DEF ClientCurrent, Jobs
    <3> QED  BY <2>0, <3>1, <3>2 DEF ClientTyped, ClientCurrent, JobsTyped
  <2> QED  BY <2>1, <2>2, <2>3, <2>4, <2>5, <2>6
<1>2. CASE PollSnapshot
  <2>1. JobsTyped'
    BY <1>2 DEF PollSnapshot, Client, jobVars, enderVars, JobsTyped
  <2>2. ClientTyped'
    BY <1>2, <2>1 DEF PollSnapshot, Client, jobVars, enderVars, JobsTyped, ClientTyped,
           ClientCurrent, Jobs
  <2>3. StarterOwnsJob'
    BY <1>2, <2>1 DEF PollSnapshot, Client, jobVars, enderVars, JobsTyped, ClientTyped,
           StarterOwnsJob, StatusFollowsThread
  <2>4. StatusFollowsThread'
    BY <1>2, <2>1 DEF PollSnapshot, Client, jobVars, enderVars, JobsTyped, ClientTyped,
           StarterOwnsJob, StatusFollowsThread
  <2>5. ScanMarksJobs'
    BY <1>2, <2>1 DEF PollSnapshot, Client, jobVars, enderVars, JobsTyped, ClientTyped,
           StarterOwnsJob, StatusFollowsThread, ScanMarksJobs, Marked
  <2>6. ClientCurrent'
    BY <1>2, <2>1 DEF PollSnapshot, Client, jobVars, enderVars, JobsTyped, ClientTyped,
           StarterOwnsJob, StatusFollowsThread, ClientCurrent
  <2> QED  BY <2>1, <2>2, <2>3, <2>4, <2>5, <2>6
<1>3. CASE PollLength
  <2>1. JobsTyped'
    BY <1>3 DEF PollLength, Client, jobVars, enderVars, JobsTyped
  <2>2. ClientTyped'
    BY <1>3, <2>1 DEF PollLength, Client, jobVars, enderVars, JobsTyped, ClientTyped,
           ClientCurrent, Jobs
  <2>3. StarterOwnsJob'
    BY <1>3, <2>1 DEF PollLength, Client, jobVars, enderVars, JobsTyped, ClientTyped,
           StarterOwnsJob, StatusFollowsThread
  <2>4. StatusFollowsThread'
    BY <1>3, <2>1 DEF PollLength, Client, jobVars, enderVars, JobsTyped, ClientTyped,
           StarterOwnsJob, StatusFollowsThread
  <2>5. ScanMarksJobs'
    BY <1>3, <2>1 DEF PollLength, Client, jobVars, enderVars, JobsTyped, ClientTyped,
           StarterOwnsJob, StatusFollowsThread, ScanMarksJobs, Marked
  <2>6. ClientCurrent'
    BY <1>3, <2>1 DEF PollLength, Client, jobVars, enderVars, JobsTyped, ClientTyped,
           StarterOwnsJob, StatusFollowsThread, ClientCurrent
  <2> QED  BY <2>1, <2>2, <2>3, <2>4, <2>5, <2>6
<1>4. CASE PollDecide
  <2>0. /\ client.at = "lock" /\ client.job \in Jobs
        /\ \/ /\ MustWait(client.job)
              /\ client' = [client EXCEPT !.at = "wait", !.seen = version[client.job],
                                          !.woken = FALSE]
           \/ client' = [client EXCEPT !.at = "read",
                                       !.done = background_job_is_complete(client.job)]
    BY <1>4 DEF PollDecide, Client, ClientCurrent
  <2>1. JobsTyped'
    BY <1>4 DEF PollDecide, Client, MustWait, background_job_is_complete, jobVars,
           enderVars, JobsTyped
  <2>2. ClientTyped'
    <3>1. background_job_is_complete(client.job) \in BOOLEAN
      BY DEF background_job_is_complete
    <3>2. \/ client' = [client EXCEPT !.at = "read",
                                       !.done = background_job_is_complete(client.job)]
          \/ \E v \in Nat : client' = [client EXCEPT !.at = "wait", !.seen = v, !.woken = FALSE]
          \/ client' = [client EXCEPT !.woken = FALSE]
      BY <2>0 DEF JobsTyped
    <3> QED  BY <3>1, <3>2 DEF ClientTyped
  <2>3. StarterOwnsJob'
    BY <1>4, <2>1 DEF PollDecide, Client, MustWait, background_job_is_complete, jobVars,
           enderVars, JobsTyped, ClientTyped, StarterOwnsJob, StatusFollowsThread
  <2>4. StatusFollowsThread'
    BY <1>4, <2>1 DEF PollDecide, Client, MustWait, background_job_is_complete, jobVars,
           enderVars, JobsTyped, ClientTyped, StarterOwnsJob, StatusFollowsThread
  <2>5. ScanMarksJobs'
    BY <1>4, <2>1 DEF PollDecide, Client, MustWait, background_job_is_complete, jobVars,
           enderVars, JobsTyped, ClientTyped, StarterOwnsJob, StatusFollowsThread,
           ScanMarksJobs, Marked
  <2>6. ClientCurrent'
    <3>1. UNCHANGED <<status, version, logLen, thread>>
      BY <1>4 DEF PollDecide, Client, jobVars
    <3>2. CASE client' = [client EXCEPT !.at = "read",
                                        !.done = background_job_is_complete(client.job)]
      BY <2>0, <3>1, <3>2 DEF ClientTyped, ClientCurrent, background_job_is_complete
    <3>3. CASE /\ MustWait(client.job)
               /\ client' = [client EXCEPT !.at = "wait", !.seen = version[client.job],
                                           !.woken = FALSE]
      BY <2>0, <3>1, <3>3 DEF ClientTyped, JobsTyped, ClientCurrent, MustWait
    <3> QED  BY <2>0, <3>2, <3>3
  <2> QED  BY <2>1, <2>2, <2>3, <2>4, <2>5, <2>6
<1>5. CASE PollWake
  <2>0. /\ client.at = "wait" /\ client.job \in Jobs
        /\ \/ /\ version[client.job] = client.seen
              /\ client' = [client EXCEPT !.woken = FALSE]
           \/ client' = [client EXCEPT !.at = "read",
                                       !.done = background_job_is_complete(client.job)]
    BY <1>5 DEF PollWake, Client, ClientCurrent
  <2>1. JobsTyped'
    BY <1>5 DEF PollWake, Client, background_job_is_complete, jobVars, enderVars,
           JobsTyped
  <2>2. ClientTyped'
    <3>1. background_job_is_complete(client.job) \in BOOLEAN
      BY DEF background_job_is_complete
    <3>2. \/ client' = [client EXCEPT !.at = "read",
                                       !.done = background_job_is_complete(client.job)]
          \/ \E v \in Nat : client' = [client EXCEPT !.at = "wait", !.seen = v, !.woken = FALSE]
          \/ client' = [client EXCEPT !.woken = FALSE]
      BY <2>0 DEF JobsTyped
    <3> QED  BY <3>1, <3>2 DEF ClientTyped
  <2>3. StarterOwnsJob'
    BY <1>5, <2>1 DEF PollWake, Client, background_job_is_complete, jobVars, enderVars,
           JobsTyped, ClientTyped, StarterOwnsJob, StatusFollowsThread
  <2>4. StatusFollowsThread'
    BY <1>5, <2>1 DEF PollWake, Client, background_job_is_complete, jobVars, enderVars,
           JobsTyped, ClientTyped, StarterOwnsJob, StatusFollowsThread
  <2>5. ScanMarksJobs'
    BY <1>5, <2>1 DEF PollWake, Client, background_job_is_complete, jobVars, enderVars,
           JobsTyped, ClientTyped, StarterOwnsJob, StatusFollowsThread, ScanMarksJobs,
           Marked
  <2>6. ClientCurrent'
    <3>1. UNCHANGED <<status, version, logLen, thread>>
      BY <1>5 DEF PollWake, Client, jobVars
    <3> QED  BY <2>0, <3>1, ZenonT(60) DEF ClientTyped, JobsTyped, ClientCurrent, background_job_is_complete
  <2> QED  BY <2>1, <2>2, <2>3, <2>4, <2>5, <2>6
<1>6. CASE PollRead
  <2>0. /\ client.at = "read" /\ client.job \in Jobs
        /\ \/ client' = [client EXCEPT !.at = "lost"]
           \/ \E end \in Int, p \in {"end", "idle"} :
                /\ client' = [client EXCEPT !.cursor = end, !.at = p]
                /\ p = "end" => client.done /\ end = logLen[client.job]
        /\ UNCHANGED <<status, version, logLen, thread, proc, handle, expired, listed, endAsked,
                       victims, ender, halting, nextJob, starter>>
    <3>1. client.at = "read" /\ client.job \in Jobs
      BY <1>6 DEF PollRead, ClientCurrent
    <3>2. UNCHANGED <<status, version, logLen, thread, proc, handle, expired, listed, endAsked,
                      victims, ender, halting, nextJob, starter>>
      BY <1>6 DEF PollRead, Client, jobVars, enderVars
    <3>3. CASE client.job \in logError
      BY <1>6, <3>1, <3>2, <3>3 DEF PollRead, Client
    <3>4. CASE client.job \notin logError
      <4>1. PICK used \in decode_job_tail(read_job_window(client.job)) :
              client' = [client EXCEPT !.cursor = client.cursor + used,
                           !.at = IF client.done /\ client.cursor + used = logLen[client.job]
                                  THEN "end" ELSE "idle"]
        BY <1>6, <3>4 DEF PollRead, Client
      <4>2. used \in Int
        BY <3>1, <4>1 DEF decode_job_tail, read_job_window, ClientTyped, JobsTyped
      <4>3. client.cursor + used \in Int
        BY <4>2 DEF ClientTyped
      <4>4. CASE client.done /\ client.cursor + used = logLen[client.job]
        <5>1. client' = [client EXCEPT !.cursor = client.cursor + used, !.at = "end"]
          BY <4>1, <4>4
        <5> QED  BY <3>1, <3>2, <4>3, <4>4, <5>1
      <4>5. CASE ~(client.done /\ client.cursor + used = logLen[client.job])
        <5>1. client' = [client EXCEPT !.cursor = client.cursor + used, !.at = "idle"]
          BY <4>1, <4>5
        <5> QED  BY <3>1, <3>2, <4>3, <5>1
      <4> QED  BY <4>4, <4>5
    <3> QED  BY <3>3, <3>4
  <2>1. JobsTyped'
    BY <2>0 DEF JobsTyped
  <2>2. ClientTyped'
    BY <2>0 DEF ClientTyped
  <2>3. StarterOwnsJob'
    BY <2>0 DEF StarterOwnsJob
  <2>4. StatusFollowsThread'
    BY <2>0 DEF StatusFollowsThread
  <2>5. ScanMarksJobs'
    BY <2>0 DEF ScanMarksJobs, Marked
  <2>6. ClientCurrent'
    BY <2>0, ZenonT(60) DEF ClientTyped, JobsTyped, ClientCurrent
  <2> QED  BY <2>1, <2>2, <2>3, <2>4, <2>5, <2>6
<1> QED  BY <1>1, <1>2, <1>3, <1>4, <1>5, <1>6

(* ... and the teardown.                                                   *)
LEMMA TeardownKeeps ==
    ASSUME JobsConstants, JobsInv,
           BeginTerminate \/ TerminateScan \/ TerminateKill
    PROVE  JobsInv'
<1> USE DEF JobsConstants, JobsInv
<1>1. CASE BeginTerminate
  <2>1. JobsTyped'
    BY <1>1 DEF BeginTerminate, jobVars, enderVars, JobsTyped
  <2>2. ClientTyped'
    BY <1>1, <2>1 DEF BeginTerminate, jobVars, enderVars, ClientTyped
  <2>3. StarterOwnsJob'
    BY <1>1, <2>1 DEF BeginTerminate, jobVars, enderVars, JobsTyped, ClientTyped,
           StarterOwnsJob, StatusFollowsThread
  <2>4. StatusFollowsThread'
    BY <1>1, <2>1 DEF BeginTerminate, jobVars, enderVars, JobsTyped, ClientTyped,
           StarterOwnsJob, StatusFollowsThread
  <2>5. ScanMarksJobs'
    BY <1>1, <2>1 DEF BeginTerminate, jobVars, enderVars, JobsTyped, ClientTyped,
           StarterOwnsJob, StatusFollowsThread, ScanMarksJobs, Marked
  <2>6. ClientCurrent'
    BY <1>1, <2>1 DEF BeginTerminate, jobVars, enderVars, JobsTyped, ClientTyped,
           StarterOwnsJob, StatusFollowsThread, ClientCurrent
  <2> QED  BY <2>1, <2>2, <2>3, <2>4, <2>5, <2>6
<1>2. CASE TerminateScan
  <2>1. JobsTyped'
    BY <1>2 DEF TerminateScan, jobVars, enderVars, JobsTyped
  <2>2. ClientTyped'
    BY <1>2, <2>1 DEF TerminateScan, jobVars, enderVars, ClientTyped
  <2>3. StarterOwnsJob'
    BY <1>2, <2>1 DEF TerminateScan, jobVars, enderVars, JobsTyped, ClientTyped,
           StarterOwnsJob, StatusFollowsThread
  <2>4. StatusFollowsThread'
    BY <1>2, <2>1 DEF TerminateScan, jobVars, enderVars, JobsTyped, ClientTyped,
           StarterOwnsJob, StatusFollowsThread
  <2>5. ScanMarksJobs'
    BY <1>2, <2>1 DEF TerminateScan, jobVars, enderVars, JobsTyped, ClientTyped,
           StarterOwnsJob, StatusFollowsThread, ScanMarksJobs, Marked
  <2>6. ClientCurrent'
    BY <1>2, <2>1 DEF TerminateScan, jobVars, enderVars, JobsTyped, ClientTyped,
           StarterOwnsJob, StatusFollowsThread, ClientCurrent
  <2> QED  BY <2>1, <2>2, <2>3, <2>4, <2>5, <2>6
<1>3. CASE TerminateKill
  <2>1. JobsTyped'
    BY <1>3 DEF TerminateKill, jobVars, enderVars, JobsTyped
  <2>2. ClientTyped'
    BY <1>3, <2>1 DEF TerminateKill, jobVars, enderVars, ClientTyped
  <2>3. StarterOwnsJob'
    BY <1>3, <2>1 DEF TerminateKill, jobVars, enderVars, JobsTyped, ClientTyped,
           StarterOwnsJob, StatusFollowsThread
  <2>4. StatusFollowsThread'
    BY <1>3, <2>1 DEF TerminateKill, jobVars, enderVars, JobsTyped, ClientTyped,
           StarterOwnsJob, StatusFollowsThread
  <2>5. ScanMarksJobs'
    BY <1>3, <2>1 DEF TerminateKill, jobVars, enderVars, JobsTyped, ClientTyped,
           StarterOwnsJob, StatusFollowsThread, ScanMarksJobs, Marked
  <2>6. ClientCurrent'
    BY <1>3, <2>1 DEF TerminateKill, jobVars, enderVars, JobsTyped, ClientTyped,
           StarterOwnsJob, StatusFollowsThread, ClientCurrent
  <2> QED  BY <2>1, <2>2, <2>3, <2>4, <2>5, <2>6
<1> QED  BY <1>1, <1>2, <1>3

LEMMA JobsStepInv == ASSUME JobsConstants, JobsInv, [Next]_vars PROVE JobsInv'
<1>1. CASE UNCHANGED vars
  BY <1>1 DEF vars, JobsInv, JobsTyped, ClientTyped, StarterOwnsJob, StatusFollowsThread,
         ScanMarksJobs, Marked, ClientCurrent
<1>2. CASE Start \/ InsertBounded \/ Recheck \/ Launch
  BY <1>2, StartKeeps
<1>3. ASSUME NEW j \in Jobs,
             SpawnChild(j) \/ Publish(j) \/ WriteChunk(j) \/ Bump(j) \/ Notify(j)
             \/ ChildEnds(j) \/ LogFailure(j) \/ Complete(j) \/ NotifyEnd(j) \/ Expire(j)
      PROVE  JobsInv'
  BY <1>3, ThreadKeeps
<1>4. ASSUME NEW j \in Jobs, PollLookup(j) PROVE JobsInv'
  BY <1>4, PollKeeps
<1>5. CASE PollSnapshot \/ PollLength \/ PollDecide \/ PollWake \/ PollRead
  <2>1. client.job \in Jobs
    BY <1>5 DEF JobsInv, ClientCurrent, PollSnapshot, PollLength, PollDecide, PollWake, PollRead
  <2> QED  BY <1>5, <2>1, PollKeeps
<1>6. CASE BeginTerminate \/ TerminateScan \/ TerminateKill
  BY <1>6, TeardownKeeps
<1> QED  BY <1>1, <1>2, <1>3, <1>4, <1>5, <1>6 DEF Next

(* Whatever jobs, polls and the teardown do: a job's status follows its    *)
(* thread, a running job is in the registry, the scan of terminate_all     *)
(* marks every job that has a thread, and a poll's snapshot of the version *)
(* is no newer than what it has read (engine_shell.rs).                    *)
THEOREM JobsInvariant == ASSUME JobsConstants PROVE Spec => []JobsInv
<1>1. Init => JobsInv
  BY InitInv
<1>2. JobsInv /\ [Next]_vars => JobsInv'
  BY JobsStepInv
<1> QED  BY <1>1, <1>2, PTL DEF Spec

(* For any number of jobs, a registry of any size and logs of any length:  *)
(* after terminate_all every command still alive is one whose thread is    *)
(* about to publish its handle and kill it (engine_shell.rs, the second    *)
(* check of terminating in start, terminate_requested in the observer).    *)
THEOREM TeardownReaches == ASSUME JobsConstants PROVE Spec => []TeardownReachesJobs
<1>1. JobsInv => TeardownReachesJobs
  BY JobsInvImplies
<1> QED  BY <1>1, JobsInvariant, PTL

(* A poll asleep on the condition variable misses no output: whatever the  *)
(* log holds beyond its cursor, the writer has yet to notify it (poll).    *)
THEOREM PollsWakeUp == ASSUME JobsConstants PROVE Spec => []NoLostWakeup
<1>1. JobsInv => NoLostWakeup
  BY JobsInvImplies
<1> QED  BY <1>1, JobsInvariant, PTL

(* A client told that its job has ended and that it has read to the end of *)
(* the log has all of the output (poll, the completion after the last      *)
(* write).                                                                 *)
THEOREM OutputIsComplete == ASSUME JobsConstants PROVE Spec => []ClientSeesAllOutput
<1>1. JobsInv => ClientSeesAllOutput
  BY JobsInvImplies
<1> QED  BY <1>1, JobsInvariant, PTL

(* Making room in the registry never drops a job that runs                 *)
(* (insert_bounded).                                                       *)
THEOREM RunningStayListed == ASSUME JobsConstants PROVE Spec => []RunningJobsListed
<1>1. JobsInv => RunningJobsListed
  BY JobsInvImplies
<1> QED  BY <1>1, JobsInvariant, PTL
=============================================================================
