----------------------------- MODULE ToolMetrics -----------------------------
(***************************************************************************)
(* Per-tool call counters (engine/src/metrics.rs).  Every server process   *)
(* keeps a session map, a mirror of the sidecar tool-metrics.json and the  *)
(* deltas it has not merged into the sidecar yet; several threads record   *)
(* calls, several processes merge into one sidecar under a flock.  All of  *)
(* it fails open: a flock that stays taken, or a write that fails, never   *)
(* reaches the caller.                                                     *)
(*                                                                         *)
(* A map of counters is the bag of the calls it counts, [Call -> Nat]:     *)
(* calls, errors, slow calls and milliseconds are sums over that bag and   *)
(* max_ms is a maximum, so adding two maps adds the bags.  A thread        *)
(* records one call, its own, or is a viewer that asks for a snapshot or   *)
(* drops the engine.                                                       *)
(***************************************************************************)
EXTENDS Naturals, FiniteSets, FiniteSetsExt

CONSTANTS Proc, Call, Viewer, Of,   \* server processes, threads, [Call \cup Viewer -> Proc]
          ToolOf, Ms, Failed,       \* what a call was: its tool, duration, outcome
          SlowMs,                   \* TOKENZERO_SLOW_TOOL_MS
          MetricsFaults,            \* "lock", "write", "crash", "damage"
          MaxFaults,                \* bound
          NoOne

Thread == Call \cup Viewer

MetricsConstants ==
  /\ Of \in [Thread -> Proc] /\ Call \cap Viewer = {} /\ NoOne \notin Thread
  /\ MaxFaults \in Nat

VARIABLES sidecar,   \* what tool-metrics.json counts
          readable,  \* whether it can be read and parsed
          flock,     \* the thread that holds tool-metrics.json.lock
          session, mirror, dirty,  \* by process
          at, doing, \* by thread
          taken,     \* the deltas a thread took to merge them
          merged,    \* what it is about to publish
          shown,     \* the snapshot a viewer returned
          before,    \* history: calls recorded when the viewer began, {} if it gave up
          lost,      \* history: calls a failed write, a crash or damage took
          faults

files == <<sidecar, readable, flock>>
maps == <<session, mirror, dirty>>
history == <<shown, before, lost, faults>>
metricsVars == <<files, maps, at, doing, taken, merged, history>>

None == [c \in Call |-> 0]
Plus(a, b) == [c \in Call |-> a[c] + b[c]]
One(call) == [c \in Call |-> IF c = call THEN 1 ELSE 0]
In(bag) == {c \in Call : bag[c] > 0}

Fault(f) == f \in MetricsFaults /\ faults < MaxFaults /\ faults' = faults + 1

-----------------------------------------------------------------------------
(* The numbers behind a bag: ToolStat::record and to_json. *)

ToolStat(bag, calls) ==
  LET sum(f(_)) == MapThenSumSet(LAMBDA c : bag[c] * f(c), calls)
      slow(c) == IF Ms[c] >= SlowMs THEN 1 ELSE 0
      failed(c) == IF c \in Failed THEN 1 ELSE 0
      ms(c) == Ms[c]
      one(c) == 1
      total == sum(one)
  IN [calls |-> total, errors |-> sum(failed), slow_calls |-> sum(slow),
      total_ms |-> sum(ms), max_ms |-> Max({0} \cup {Ms[c] : c \in calls \cap In(bag)}),
      avg_ms |-> IF total = 0 THEN 0 ELSE sum(ms) \div total]

(* One entry per tool that was called, and their totals. *)
map_to_json(bag) ==
  [tools |-> [t \in {ToolOf[c] : c \in In(bag)} |-> ToolStat(bag, {c \in Call : ToolOf[c] = t})],
   totals |-> ToolStat(bag, Call)]

-----------------------------------------------------------------------------
(* A missing or corrupt sidecar counts nothing: start fresh. *)
load_persisted == IF readable THEN sidecar ELSE None

(* ToolMetrics::new in every process. *)
MetricsInit ==
  /\ sidecar = None /\ readable = TRUE /\ flock = NoOne
  /\ session = [p \in Proc |-> None] /\ mirror = session /\ dirty = session
  /\ at = [t \in Thread |-> "idle"] /\ doing = [t \in Thread |-> "none"]
  /\ taken = [t \in Thread |-> None] /\ merged = taken
  /\ shown = [t \in Viewer |-> NoOne] /\ before = [t \in Viewer |-> {}]
  /\ lost = {} /\ faults = 0

Goto(t, step) == at' = [at EXCEPT ![t] = step]

(* record: three maps, one lock after the other ... *)
RecordSession(t) ==
  /\ t \in Call /\ at[t] = "idle"
  /\ session' = [session EXCEPT ![Of[t]] = Plus(@, One(t))]
  /\ doing' = [doing EXCEPT ![t] = "record"] /\ Goto(t, "mirror")
  /\ UNCHANGED <<files, mirror, dirty, taken, merged, history>>

RecordMirror(t) ==
  /\ at[t] = "mirror"
  /\ mirror' = [mirror EXCEPT ![Of[t]] = Plus(@, One(t))]
  /\ Goto(t, "dirty")
  /\ UNCHANGED <<files, session, dirty, doing, taken, merged, history>>

(* ... and a flush when the last one is PERSIST_COALESCE ago. *)
RecordDirty(t) ==
  /\ at[t] = "dirty"
  /\ dirty' = [dirty EXCEPT ![Of[t]] = Plus(@, One(t))]
  /\ \E due \in BOOLEAN : Goto(t, IF due THEN "flush" ELSE "done")
  /\ UNCHANGED <<files, session, mirror, doing, taken, merged, history>>

(* A thread of a process that has begun and not ended. *)
Busy(t) == at[t] \notin {"idle", "done"}

(* snapshot and Drop both begin with a flush; the engine is dropped when   *)
(* nothing uses it.                                                        *)
View(t) ==
  /\ t \in Viewer /\ at[t] = "idle"
  /\ \E o \in {"snapshot", "drop"} :
       /\ o = "drop" => \A u \in Thread : Of[u] = Of[t] => ~Busy(u)
       /\ doing' = [doing EXCEPT ![t] = o]
  /\ before' = [before EXCEPT ![t] = {c \in Call : Of[c] = Of[t] /\ at[c] = "done"}]
  /\ Goto(t, "flush")
  /\ UNCHANGED <<files, maps, taken, merged, shown, lost, faults>>

(* A process starts over: what it had not merged is gone, and what another *)
(* process loads is the sidecar.                                           *)
Restarted(p, gone) ==
  /\ session' = [session EXCEPT ![p] = None]
  /\ mirror' = [mirror EXCEPT ![p] = load_persisted]
  /\ dirty' = [dirty EXCEPT ![p] = None]
  /\ lost' = lost \cup In(dirty[p]) \cup gone

(* What follows a flush, whether it merged anything or gave up. *)
Flushed(t) == Goto(t, CASE doing[t] = "snapshot" -> "read" [] doing[t] = "drop" -> "exit" [] OTHER -> "done")

(* MetricsPersistLock::acquire: taken, or given up after LOCK_ATTEMPTS, or *)
(* because the lock file cannot be opened.                                 *)
acquire(t) ==
  /\ at[t] = "flush"
  /\ \/ flock = NoOne /\ flock' = t /\ Goto(t, "take") /\ UNCHANGED <<before, faults>>
     \/ /\ (flock # NoOne /\ UNCHANGED faults) \/ Fault("lock")
        /\ before' = [v \in Viewer |-> IF v = t THEN {} ELSE before[v]]
        /\ Flushed(t) /\ UNCHANGED flock
  /\ UNCHANGED <<sidecar, readable, maps, doing, taken, merged, shown, lost>>

(* flush_persisted, under both gates: the deltas are taken, ... *)
TakeDirty(t) ==
  /\ at[t] = "take"
  /\ IF dirty[Of[t]] = None
     THEN flock' = NoOne /\ Flushed(t) /\ UNCHANGED <<dirty, taken>>
     ELSE /\ taken' = [taken EXCEPT ![t] = dirty[Of[t]]]
          /\ dirty' = [dirty EXCEPT ![Of[t]] = None]
          /\ Goto(t, "load") /\ UNCHANGED flock
  /\ UNCHANGED <<sidecar, readable, session, mirror, doing, merged, history>>

Base(t) == load_persisted

(* ... the sidecar is reloaded and the deltas added, ... *)
LoadMerge(t) ==
  /\ at[t] = "load"
  /\ merged' = [merged EXCEPT ![t] = Plus(Base(t), taken[t])]
  /\ Goto(t, "publish")
  /\ UNCHANGED <<files, maps, doing, taken, history>>

(* ... the mirror is replaced, ... *)
PublishMirror(t) ==
  /\ at[t] = "publish"
  /\ mirror' = [mirror EXCEPT ![Of[t]] = merged[t]]
  /\ Goto(t, "write")
  /\ UNCHANGED <<files, session, dirty, doing, taken, merged, history>>

(* ... and the sidecar, by a rename; a failure is ignored. *)
write_persisted(t) ==
  /\ at[t] = "write"
  /\ \/ sidecar' = merged[t] /\ readable' = TRUE /\ UNCHANGED <<lost, faults>>
     \/ Fault("write") /\ lost' = lost \cup In(taken[t]) /\ UNCHANGED <<sidecar, readable>>
  /\ flock' = NoOne
  /\ taken' = [taken EXCEPT ![t] = None]
  /\ Flushed(t)
  /\ UNCHANGED <<maps, doing, merged, shown, before>>

(* The answer to resource://tokenzero/metrics. *)
Snapshot(t) ==
  /\ at[t] = "read"
  /\ shown' = [shown EXCEPT ![t] = [cumulative |-> map_to_json(mirror[Of[t]]),
                                    session |-> map_to_json(session[Of[t]])]]
  /\ Goto(t, "done")
  /\ UNCHANGED <<files, maps, doing, taken, merged, before, lost, faults>>

Exit(t) ==
  /\ at[t] = "exit"
  /\ Restarted(Of[t], {}) /\ Goto(t, "done")
  /\ UNCHANGED <<files, doing, taken, merged, shown, before, faults>>

(* A process dies: its threads end where they are and its flock is freed.  *)
(* A call that had not reached the deltas yet is gone too.                 *)
Unmerged(p) ==
  {c \in Call : Of[c] = p /\ at[c] \in {"mirror", "dirty"}}
  \cup UNION {In(taken[t]) : t \in {u \in Thread : Of[u] = p}}

ProcessDies(p) ==
  /\ Fault("crash")
  /\ Restarted(p, Unmerged(p))
  /\ at' = [t \in Thread |-> IF Of[t] = p /\ Busy(t) THEN "done" ELSE at[t]]
  /\ taken' = [t \in Thread |-> IF Of[t] = p THEN None ELSE taken[t]]
  /\ flock' = IF flock \in Thread /\ Of[flock] = p THEN NoOne ELSE flock
  /\ UNCHANGED <<sidecar, readable, doing, merged, shown, before>>

(* Somebody removes the sidecar or damages it. *)
Damage ==
  /\ Fault("damage") /\ readable
  /\ readable' = FALSE
  /\ lost' = lost \cup In(sidecar)
  /\ UNCHANGED <<sidecar, flock, maps, at, doing, taken, merged, shown, before>>

Step(t) ==
  \/ RecordSession(t) \/ RecordMirror(t) \/ RecordDirty(t) \/ View(t)
  \/ acquire(t) \/ TakeDirty(t) \/ LoadMerge(t) \/ PublishMirror(t) \/ write_persisted(t)
  \/ Snapshot(t) \/ Exit(t)

MetricsNext == (\E t \in Thread : Step(t)) \/ (\E p \in Proc : ProcessDies(p)) \/ Damage

MetricsSpec == MetricsInit /\ [][MetricsNext]_metricsVars

-----------------------------------------------------------------------------
(* How often a call is counted: in the sidecar, among the deltas of its    *)
(* process, and in the hands of a thread that is merging them.             *)
InHand(c) == {t \in Thread : at[t] \in {"load", "publish", "write"} /\ taken[t][c] > 0}

(* Every call whose recording has ended is counted exactly once, in the    *)
(* sidecar or on the way there, however the processes and threads          *)
(* interleave; only a failed write, a crash or a damaged sidecar loses it, *)
(* and nothing ever counts it twice.                                       *)
CallsCountedOnce ==
  \A c \in Call :
    LET counted == load_persisted[c] + dirty[Of[c]][c] + Cardinality(InHand(c)) IN
    /\ counted <= 1 /\ mirror[Of[c]][c] <= 1
    /\ at[c] \in {"flush", "take", "load", "publish", "write", "done"} /\ c \notin lost => counted = 1

(* A snapshot counts every call of its process that was recorded before it *)
(* was asked for, unless that call was lost or the flush gave up: no tool  *)
(* has fewer calls, errors or a smaller maximum than those calls have.     *)
SnapshotsComplete ==
  \A v \in Viewer : shown[v] # NoOne =>
    \A t \in {ToolOf[c] : c \in before[v] \ lost} :
      LET own == {c \in before[v] \ lost : ToolOf[c] = t}
          stat == IF t \in DOMAIN shown[v].cumulative.tools
                  THEN shown[v].cumulative.tools[t] ELSE ToolStat(None, Call)
      IN /\ stat.calls >= Cardinality(own) /\ stat.errors >= Cardinality(own \cap Failed)
         /\ \A c \in own : stat.max_ms >= Ms[c]

-----------------------------------------------------------------------------
(* Why every call is counted once.  The holder of the flock is the only    *)
(* thread that has deltas in its hands; what it is about to publish is the *)
(* sidecar and these deltas, but for calls that damage to the sidecar has  *)
(* taken meanwhile; and a call is nowhere before its deltas are recorded.  *)

Bag == [Call -> Nat]
Steps == {"idle", "mirror", "dirty", "flush", "take", "load", "publish", "write", "read", "exit", "done"}
Begun(c) == at[c] \notin {"idle", "mirror", "dirty"}
Hand(c) == IF flock = NoOne THEN 0 ELSE taken[flock][c]
Counted(c) == load_persisted[c] + dirty[Of[c]][c] + Hand(c)

MapsAreBags ==
  /\ sidecar \in Bag /\ readable \in BOOLEAN /\ flock \in Thread \cup {NoOne}
  /\ mirror \in [Proc -> Bag] /\ dirty \in [Proc -> Bag] /\ at \in [Thread -> Steps]
  /\ taken \in [Thread -> Bag] /\ merged \in [Thread -> Bag]

HolderMerges ==
  /\ \A t \in Thread : at[t] \in {"take", "load", "publish", "write"} <=> flock = t
  /\ \A t \in Thread : at[t] \notin {"load", "publish", "write"} => taken[t] = None

DeltasAreOwn == \A p \in Proc, c \in Call : Of[c] # p => dirty[p][c] = 0

CountedAtMostOnce ==
  \A c \in Call : /\ Counted(c) <= 1
                  /\ ~Begun(c) => Counted(c) = 0
                  /\ Begun(c) /\ c \notin lost => Counted(c) = 1

MergedIsSum ==
  \A t \in Thread, c \in Call : at[t] \in {"publish", "write"} =>
    /\ merged[t][c] + dirty[Of[c]][c] <= 1
    /\ ~Begun(c) => merged[t][c] = 0
    /\ c \notin lost => merged[t][c] = load_persisted[c] + taken[t][c]

MirroredOnce ==
  \A c \in Call : /\ mirror[Of[c]][c] <= 1
                  /\ at[c] \in {"idle", "mirror"} => mirror[Of[c]][c] = 0

MetricsInv ==
  /\ MapsAreBags /\ HolderMerges /\ DeltasAreOwn
  /\ CountedAtMostOnce /\ MergedIsSum /\ MirroredOnce
=============================================================================
