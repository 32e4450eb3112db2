---------------------------- MODULE ServeSession ----------------------------
(***************************************************************************)
(* The engine's serve path and its session seen-set: read and search calls *)
(* of an engine claim their serve keys, look the payload up in the session *)
(* memory, store it, may answer with a note ("unchanged") or a diff in     *)
(* place of the bytes, record the serve, and persist the seen-set for the  *)
(* next process.  Several calls run in one engine, several engines share   *)
(* the session-memory file and its journal.                                *)
(*                                                                         *)
(*   engine_read.rs, engine_search.rs   the calls                          *)
(*   engine_session.rs, session.rs      memory, single flight, write-back  *)
(*   session_persist.rs                 file, journal, compaction, resume  *)
(*   render.rs                          persist_refs, notes, diffs         *)
(*                                                                         *)
(* A payload is a number, 0 the empty one; a serve key is a number, the    *)
(* order of the numbers is the order of the serialised keys.               *)
(***************************************************************************)
EXTENDS Integers, Sequences, FiniteSets, SequencesExt, TLAPS

CONSTANTS Calls,         \* tool calls, each made once
          Requests,      \* what a call may ask: engine, kind, keys and option
          Engines,       \* engine processes (a restart reuses the name)
          Scopes,        \* session scopes
          ScopeOf,       \* engine -> scope
          Keys,          \* serve keys: path and range, or tool, query and roots
          Contents,      \* payloads
          FirstWorlds,   \* what the keys may yield at the start
          Long,          \* payloads that cost more than a note about them
          None,          \* no content, no memory, no delta
          MaxRecords,    \* MAX_SESSION_MEMORY_RECORDS
          CompactAfter,  \* journal lines that trigger a compaction
          MaxEdits,      \* changes of the files being read
          MaxPrunes,     \* blobs an outside prune removes
          MaxFaults      \* failed persists and crashes

VARIABLES world,     \* key -> what reading or searching it yields now
          durable,   \* payloads whose refs resolve in the recovery store
          memory,    \* engine -> SessionMemory, None until first use
          inFlight,  \* engine -> serve keys claimed by a running call
          base,      \* session-memory.json: version (0 = no file) and scopes
          journal,   \* complete lines of the journal
          torn,      \* an incomplete last line follows them
          lastBody,  \* engine -> the delta it persisted last
          pc, call,  \* call -> control point, arguments
          part,      \* call -> key -> what it will answer for the key
          loaded,    \* call -> session memory it read from disk, or None
          snap,      \* call -> snapshot taken under the session mutex
          handed,    \* engine -> payloads its answers delivered (history)
          unacked,   \* engine -> payloads recorded by calls that failed later
          persisted, \* scope -> key -> payloads a resume may find (history)
          edits, prunes, faults

vars == <<world, durable, memory, inFlight, base, journal, torn, lastBody, pc,
          call, part, loaded, snap, handed, unacked, persisted, edits, prunes, faults>>

NoRecords  == [k \in {} |-> None]
EmptyScope == [recs |-> NoRecords, hwm |-> 0]
EmptyMemory == [recs |-> NoRecords, restored |-> {}, hwm |-> 0]

Scope(c) == ScopeOf[call[c].eng]

Put(recs, more) == [k \in DOMAIN recs \cup DOMAIN more |->
                      IF k \in DOMAIN more THEN more[k] ELSE recs[k]]

-----------------------------------------------------------------------------
(* The session-memory file.                                                *)

\* normalize_records: sorted by key, only the last MaxRecords are kept.
normalize_records(recs) ==
    LET after(k) == {j \in DOMAIN recs : j > k}
    IN  [k \in {j \in DOMAIN recs : Cardinality(after(j)) < MaxRecords} |-> recs[k]]

\* apply_delta: the delta's records replace, the watermark never goes back.
apply_delta(scopes, d) ==
    [scopes EXCEPT ![d.scope] =
        [recs |-> Put(@.recs, d.recs),
         hwm  |-> IF d.hwm > @.hwm THEN d.hwm ELSE @.hwm]]

\* load_state: None when there is no file or a complete line does not parse.
load_state(b, lines) ==
    CASE b.version = 0 -> None
      [] b.version = 1 -> b
      [] OTHER ->
           IF \E i \in DOMAIN lines : ~lines[i].whole THEN None
           ELSE LET all == FoldLeft(apply_delta, b.scopes, lines)
                IN  [version |-> 2,
                     scopes |-> [s \in Scopes |->
                        [recs |-> normalize_records(all[s].recs), hwm |-> all[s].hwm]]]

\* A line written without cutting the torn tail continues the broken text.
GluedLine(lines, tail, d) ==
    Append(lines, [d EXCEPT !.whole = ~tail])

\* append_json_line: an incomplete last line is cut off before the write.
append_json_line(lines, tail, d) == Append(lines, d)

\* compact_journal: the snapshot first, then the journal is removed.
compact_journal(b, lines) ==
    << [b |-> load_state(b, lines), j |-> lines, t |-> FALSE],
       [b |-> load_state(b, lines), j |-> <<>>, t |-> FALSE] >>

\* persist_inner under the file lock, as the states of the two files it goes
\* through: a failure or a crash leaves one of them, success the last.
persist_inner(e, s, d) ==
    LET now   == [b |-> base, j |-> journal, t |-> torn]
        fresh == [version |-> 2, scopes |-> [base.scopes EXCEPT ![ScopeOf[e]] =
                    [recs |-> normalize_records(s.all), hwm |-> s.hwm]]]
        lines == append_json_line(journal, torn, d)
    IN  IF lastBody[e] = d /\ journal # <<>> /\ ~torn /\ Last(journal) = d
        THEN << now >>
        ELSE IF base.version < 2
        THEN << now,
                [b |-> fresh, j |-> journal, t |-> torn],
                [b |-> fresh, j |-> <<>>, t |-> FALSE],
                [b |-> fresh, j |-> <<>>, t |-> TRUE],
                [b |-> fresh, j |-> <<d>>, t |-> FALSE] >>
        ELSE << now,
                [b |-> base, j |-> journal, t |-> TRUE],
                [b |-> base, j |-> lines, t |-> FALSE] >>
             \o IF Len(lines) > CompactAfter /\ load_state(base, lines) # None
                THEN compact_journal(base, lines) ELSE <<>>

\* load_into: what a process resumes with.  A version 1 file restores no
\* records, a record whose blob does not resolve is left out.
load_into(sc) ==
    LET st == load_state(base, journal)
    IN  IF st = None THEN EmptyMemory
        ELSE LET scope == st.scopes[sc]
                 keep  == {k \in DOMAIN scope.recs : st.version = 2 /\ scope.recs[k] \in durable}
                 recs  == [k \in keep |-> scope.recs[k]]
             IN  [recs |-> recs, restored |-> {recs[k] : k \in keep}, hwm |-> scope.hwm]

-----------------------------------------------------------------------------
(* Session memory.                                                         *)

\* lookup: the key's own record decides; without one, any record with the
\* same bytes makes the payload a seen one.
lookup(m, k, text) ==
    IF k \in DOMAIN m.recs
    THEN IF m.recs[k] = text THEN [state |-> "unchanged", prev |-> text]
                             ELSE [state |-> "changed", prev |-> m.recs[k]]
    ELSE IF \E j \in DOMAIN m.recs : m.recs[j] = text
         THEN [state |-> "unchanged", prev |-> text]
         ELSE [state |-> "miss", prev |-> None]

\* with_session_memory: the memory in the slot, or the one the call loaded.
Session(c) == IF memory[call[c].eng] # None THEN memory[call[c].eng] ELSE loaded[c]

\* What the call answers for a key: a note, a diff or the full bytes.
Answers(c, k, text) ==
    LET m    == Session(c)
        seen == lookup(m, k, text)
        as(out) == [text |-> text, out |-> out, prev |-> seen.prev,
                    cross |-> text \in m.restored, pend |-> TRUE]
    IN  IF text = 0
        THEN {[text |-> 0, out |-> "full", prev |-> None, cross |-> FALSE, pend |-> FALSE]}
        ELSE IF call[c].opt = "normal" /\ seen.state = "unchanged" /\ text \in Long
        THEN {as("note")}
        ELSE IF call[c].opt = "normal" /\ seen.state = "changed"
                /\ call[c].kind = "read" /\ seen.prev \in durable
        THEN {as("diff"), as("full")}
        ELSE {as("full")}

\* with_session_memory's first half: the disk is read without the mutex; the
\* lock may be busy, the wall deadline may pass, and then nothing is restored.
ColdLoad(c) ==
    /\ pc[c] \in {"serve", "look", "apply"}
    /\ memory[call[c].eng] = None /\ loaded[c] = None
    /\ \E m \in {load_into(Scope(c)), EmptyMemory} : loaded' = [loaded EXCEPT ![c] = m]
    /\ UNCHANGED <<world, durable, memory, inFlight, base, journal, torn, lastBody, pc,
                   call, part, snap, handed, unacked, persisted, edits, prunes, faults>>

-----------------------------------------------------------------------------
(* The calls.                                                              *)

\* A call that fails and keeps its serve keys claimed.
DoneHolding(c, how) ==
    /\ pc' = [pc EXCEPT ![c] = how]
    /\ inFlight' = IF how = "error" THEN inFlight
                   ELSE [inFlight EXCEPT ![call[c].eng] = @ \ call[c].keys]
    /\ loaded' = [loaded EXCEPT ![c] = None]
    /\ snap' = [snap EXCEPT ![c] = None]
    /\ part' = [part EXCEPT ![c] = NoRecords]
    /\ call' = [call EXCEPT ![c] = None]

\* The call returns; its flight guard releases the keys and wakes the waiters.
Done(c, how) ==
    /\ pc' = [pc EXCEPT ![c] = how]
    /\ inFlight' = [inFlight EXCEPT ![call[c].eng] = @ \ call[c].keys]
    /\ loaded' = [loaded EXCEPT ![c] = None]
    /\ snap' = [snap EXCEPT ![c] = None]
    /\ part' = [part EXCEPT ![c] = NoRecords]
    /\ call' = [call EXCEPT ![c] = None]

\* The payloads a successful answer puts before the agent.
Shown(c) == {part[c][k].text : k \in {j \in DOMAIN part[c] : part[c][j].out \in {"full", "diff"}}}

\* A request names one query, or the paths of a read with its range; "fresh"
\* and "raw" (raw or passthrough) ask for the bytes themselves.
Start(c, req) ==
    /\ pc[c] = "idle"
    /\ pc' = [pc EXCEPT ![c] = "wait"]
    /\ call' = [call EXCEPT ![c] = req]
    /\ UNCHANGED <<world, durable, memory, inFlight, base, journal, torn, lastBody, part,
                   loaded, snap, handed, unacked, persisted, edits, prunes, faults>>

\* A flight that is joined without waiting for the keys.
NoFlight(c) ==
    /\ pc[c] = "wait"
    /\ inFlight' = [inFlight EXCEPT ![call[c].eng] = @ \cup call[c].keys]

\* begin_serve_flight: wait until every key is free, then claim them all.
begin_serve_flight(c) ==
    /\ pc[c] = "wait"
    /\ call[c].keys \cap inFlight[call[c].eng] = {}
    /\ inFlight' = [inFlight EXCEPT ![call[c].eng] = @ \cup call[c].keys]

Claim(c) ==
    /\ begin_serve_flight(c)
    /\ pc' = [pc EXCEPT ![c] = "serve"]
    /\ UNCHANGED <<world, durable, memory, base, journal, torn, lastBody, call, part,
                   loaded, snap, handed, unacked, persisted, edits, prunes, faults>>

\* read_one_path: read the file, store it deferred, look it up.  A path that
\* cannot be read fails the whole call and records nothing.
ReadOnePath(c, k) ==
    /\ pc[c] = "serve" /\ call[c].kind = "read"
    /\ k \in call[c].keys \ DOMAIN part[c]
    /\ \/ /\ world[k] = None
          /\ Done(c, "error")
          /\ UNCHANGED memory
       \/ /\ world[k] # None
          /\ world[k] # 0 => Session(c) # None
          /\ \E a \in Answers(c, k, world[k]) :
                part' = [part EXCEPT ![c] = Put(@, [j \in {k} |-> a])]
          /\ memory' = IF world[k] = 0 THEN memory
                       ELSE [memory EXCEPT ![call[c].eng] = Session(c)]
          /\ UNCHANGED <<pc, inFlight, loaded, snap, call>>
    /\ UNCHANGED <<world, durable, base, journal, torn, lastBody, handed, unacked,
                   persisted, edits, prunes, faults>>

\* A render the working set replaced, recorded as if it had been served.
ReplacedRecorded(c) ==
    /\ pc' = [pc EXCEPT ![c] = "apply"]
    /\ part' = [part EXCEPT ![c] = [k \in DOMAIN @ |-> [@[k] EXCEPT !.out = "evicted"]]]
    /\ UNCHANGED <<inFlight, loaded, snap, call>>

\* A render the working set replaced must not become a dedup base.
Replaced(c) == Done(c, "replaced")

\* persist_refs after the last path.  Degraded storage serves every part in
\* full and records nothing; so does a render the working set replaced.
StoreRead(c) ==
    /\ pc[c] = "serve" /\ call[c].kind = "read"
    /\ DOMAIN part[c] = call[c].keys
    /\ \/ /\ durable' = durable \cup {part[c][k].text : k \in call[c].keys}
          /\ \/ /\ pc' = [pc EXCEPT ![c] = "apply"]
                /\ UNCHANGED <<inFlight, loaded, snap, part, call, handed>>
             \/ /\ call[c].opt # "raw" /\ Cardinality(call[c].keys) = 1
                /\ Replaced(c)
                /\ UNCHANGED handed
       \/ /\ handed' = [handed EXCEPT ![call[c].eng] =
                            @ \cup {part[c][k].text : k \in call[c].keys}]
          /\ Done(c, "degraded")
          /\ UNCHANGED durable
    /\ UNCHANGED <<world, memory, base, journal, torn, lastBody, unacked, persisted,
                   edits, prunes, faults>>

\* run_search_backend: find stays in process unless rg is asked for; a missing
\* or unusable rg is an error only for an explicit regex search.
run_search_backend(setting, tool, rg) ==
    IF setting = "internal" \/ (setting = "auto" /\ tool = "find") THEN "internal"
    ELSE CASE rg = "invalid_pattern" -> "error"
           [] rg = "unavailable"     -> IF setting = "rg" /\ tool = "grep" THEN "error" ELSE "internal"
           [] OTHER                  -> "rg"

SearchOutcomes ==
    {run_search_backend(setting, tool, rg) :
        setting \in {"internal", "auto", "rg"}, tool \in {"find", "grep"},
        rg \in {"ok", "unavailable", "invalid_pattern"}} \cup {"hard_max_wall_ms"}

\* The search and the store of its output: a backend or pattern error or the
\* wall deadline ends the call; the lookup follows only stored refs.
RunSearch(c) ==
    /\ pc[c] = "serve" /\ call[c].kind = "search"
    /\ \E outcome \in SearchOutcomes :
       \/ /\ outcome \in {"error", "hard_max_wall_ms"}
          /\ Done(c, "error") /\ UNCHANGED durable
       \/ /\ outcome \in {"internal", "rg"}
          /\ \E k \in call[c].keys, ok \in BOOLEAN :
            LET text == IF world[k] = None THEN 0 ELSE world[k]
            IN  /\ durable' = IF ok THEN durable \cup {text} ELSE durable
                /\ part' = [part EXCEPT ![c] = [j \in {k} |->
                      [text |-> text, out |-> "full", prev |-> None, cross |-> FALSE, pend |-> FALSE]]]
                /\ pc' = [pc EXCEPT ![c] = IF ok /\ text # 0 THEN "look" ELSE "apply"]
                /\ UNCHANGED <<inFlight, loaded, snap, call>>
    /\ UNCHANGED <<world, memory, base, journal, torn, lastBody, handed, unacked,
                   persisted, edits, prunes, faults>>

SearchLookup(c) ==
    /\ pc[c] = "look" /\ Session(c) # None
    /\ memory' = [memory EXCEPT ![call[c].eng] = Session(c)]
    /\ \E k \in call[c].keys :
          \E a \in Answers(c, k, part[c][k].text) : part' = [part EXCEPT ![c] = [j \in {k} |-> a]]
    /\ pc' = [pc EXCEPT ![c] = "apply"]
    /\ UNCHANGED <<world, durable, inFlight, base, journal, torn, lastBody, call, loaded,
                   snap, handed, unacked, persisted, edits, prunes, faults>>

\* session_apply under the session mutex: record the serves, advance the
\* watermark, snapshot what changed and all there is.
SessionApply(c) ==
    /\ pc[c] = "apply" /\ Session(c) # None
    /\ LET e    == call[c].eng
           m    == Session(c)
           ks   == {k \in DOMAIN part[c] : part[c][k].pend}
           new  == [k \in ks |-> part[c][k].text]
           recs == Put(m.recs, new)
       IN  /\ memory' = [memory EXCEPT ![e] = [m EXCEPT !.recs = recs, !.hwm = m.hwm + 1]]
           /\ snap' = [snap EXCEPT ![c] = [changed |-> new, all |-> recs, hwm |-> m.hwm + 1]]
    /\ pc' = [pc EXCEPT ![c] = "persist"]
    /\ UNCHANGED <<world, durable, inFlight, base, journal, torn, lastBody, call, part,
                   loaded, handed, unacked, persisted, edits, prunes, faults>>

DeltaOf(c) == [scope |-> Scope(c), recs |-> snap[c].changed, hwm |-> snap[c].hwm, whole |-> TRUE]
Stages(c)  == persist_inner(call[c].eng, snap[c], DeltaOf(c))
Files(st)  == base' = st.b /\ journal' = st.j /\ torn' = st.t

\* The write-back succeeded: the answer goes out.
Persist(c) ==
    /\ pc[c] = "persist"
    /\ Files(Last(Stages(c)))
    /\ lastBody' = [lastBody EXCEPT ![call[c].eng] = DeltaOf(c)]
    /\ handed' = [handed EXCEPT ![call[c].eng] = @ \cup Shown(c)]
    /\ persisted' = [persisted EXCEPT ![Scope(c)] =
                        Put(@, [k \in DOMAIN snap[c].changed |-> {snap[c].changed[k]}])]
    /\ Done(c, "ok")
    /\ UNCHANGED <<world, durable, memory, unacked, edits, prunes, faults>>

\* A call that ended without an answer may still have reached the files.
Maybe(c) == [k \in DOMAIN persisted[Scope(c)] \cap DOMAIN snap[c].changed |->
               persisted[Scope(c)][k] \cup {snap[c].changed[k]}]

\* The lock is busy or a write fails: the call answers with an error.
PersistFails(c) ==
    /\ pc[c] = "persist" /\ faults < MaxFaults
    /\ \E i \in 1 .. Len(Stages(c)) - 1 : Files(Stages(c)[i])
    /\ faults' = faults + 1
    /\ unacked' = [unacked EXCEPT ![call[c].eng] = @ \cup Shown(c)]
    /\ persisted' = [persisted EXCEPT ![Scope(c)] = Put(@, Maybe(c))]
    /\ Done(c, "error")
    /\ UNCHANGED <<world, durable, memory, lastBody, handed, edits, prunes>>

\* The process dies, possibly inside the one persist that holds the lock, and
\* a new one takes its place.
Restart(e) ==
    LET mine == {c \in Calls : call[c] # None /\ call[c].eng = e}
    IN  /\ faults < MaxFaults
        /\ faults' = faults + 1
        /\ \/ UNCHANGED <<base, journal, torn, persisted>>
           \/ \E c \in mine : /\ pc[c] = "persist"
                              /\ \E i \in 2 .. Len(Stages(c)) : Files(Stages(c)[i])
                              /\ persisted' = [persisted EXCEPT ![Scope(c)] = Put(@, Maybe(c))]
        /\ pc' = [c \in Calls |-> IF c \in mine THEN "lost" ELSE pc[c]]
        /\ loaded' = [c \in Calls |-> IF c \in mine THEN None ELSE loaded[c]]
        /\ snap' = [c \in Calls |-> IF c \in mine THEN None ELSE snap[c]]
        /\ part' = [c \in Calls |-> IF c \in mine THEN NoRecords ELSE part[c]]
        /\ call' = [c \in Calls |-> IF c \in mine THEN None ELSE call[c]]
        /\ inFlight' = [inFlight EXCEPT ![e] = {}]
        /\ memory' = [memory EXCEPT ![e] = None]
        /\ lastBody' = [lastBody EXCEPT ![e] = None]
        /\ handed' = [handed EXCEPT ![e] = {}]
        /\ unacked' = [unacked EXCEPT ![e] = {}]
        /\ UNCHANGED <<world, durable, edits, prunes>>

\* The environment: files change, blobs are pruned from outside.
Edit(k, v) ==
    /\ edits < MaxEdits /\ world[k] # v
    /\ world' = [world EXCEPT ![k] = v] /\ edits' = edits + 1
    /\ UNCHANGED <<durable, memory, inFlight, base, journal, torn, lastBody, pc, call, part,
                   loaded, snap, handed, unacked, persisted, prunes, faults>>

Prune(v) ==
    /\ prunes < MaxPrunes /\ v \in durable
    /\ durable' = durable \ {v} /\ prunes' = prunes + 1
    /\ UNCHANGED <<world, memory, inFlight, base, journal, torn, lastBody, pc, call, part,
                   loaded, snap, handed, unacked, persisted, edits, faults>>

-----------------------------------------------------------------------------
\* No file yet, or one written by version 1, whose records are ignored.
Bases == {[version |-> 0, scopes |-> [s \in Scopes |-> EmptyScope]]} \cup
         {[version |-> 1, scopes |-> [s \in Scopes |-> [recs |-> [k \in {1} |-> v], hwm |-> 0]]] :
             v \in Long}

Init ==
    /\ world \in FirstWorlds /\ durable = {}
    /\ memory = [e \in Engines |-> None]
    /\ inFlight = [e \in Engines |-> {}]
    /\ base \in Bases /\ journal = <<>> /\ torn = FALSE
    /\ lastBody = [e \in Engines |-> None]
    /\ pc = [c \in Calls |-> "idle"] /\ call = [c \in Calls |-> None]
    /\ part = [c \in Calls |-> NoRecords]
    /\ loaded = [c \in Calls |-> None] /\ snap = [c \in Calls |-> None]
    /\ handed = [e \in Engines |-> {}] /\ unacked = [e \in Engines |-> {}]
    /\ persisted = [s \in Scopes |-> NoRecords]
    /\ edits = 0 /\ prunes = 0 /\ faults = 0

Step(c) ==
    \/ Claim(c) \/ ColdLoad(c) \/ (\E k \in Keys : ReadOnePath(c, k)) \/ StoreRead(c)
    \/ RunSearch(c) \/ SearchLookup(c) \/ SessionApply(c) \/ Persist(c)

Next ==
    \/ \E c \in Calls, req \in Requests : Start(c, req)
    \/ \E c \in Calls : Step(c) \/ PersistFails(c)
    \/ \E e \in Engines : Restart(e)
    \/ \E k \in Keys, v \in Contents \cup {None} : Edit(k, v)
    \/ \E v \in Contents : Prune(v)

Spec == Init /\ [][Next]_vars

\* A thread that can run its next step eventually does: the waits in this code
\* are on the flight's condition variable, whose keys every call releases.
Fairness == \A c \in Calls : WF_vars(Step(c))

FairSpec == Spec /\ Fairness

-----------------------------------------------------------------------------
(* Properties.                                                             *)

Ended == {"ok", "error", "degraded", "replaced", "lost"}

TypeOK ==
    /\ \A e \in Engines : memory[e] = None \/
          (DOMAIN memory[e].recs \subseteq Keys /\ memory[e].restored \subseteq Contents)
    /\ \A c \in Calls : pc[c] \in {"idle", "wait", "serve", "look", "apply", "persist"} \cup Ended
    /\ \A c \in Calls : DOMAIN part[c] \subseteq Keys

\* Payloads of an engine's calls that are recorded and about to be answered.
Underway(e) == UNION {Shown(c) : c \in {d \in Calls : pc[d] = "persist" /\ call[d].eng = e}}

Rests(c, k, basis) ==
    LET a == part[c][k] IN
      CASE a.out = "note" -> a.cross \/ a.text \in basis
        [] a.out = "diff" -> a.prev \in basis \cup Session(c).restored
        [] OTHER -> TRUE

\* A note or a diff stands in for bytes: the answer may only rest on bytes the
\* same engine process delivered, is delivering, restored from an earlier
\* process, or recorded for a call whose write-back then failed.
SubstitutionsBacked ==
    \A c \in Calls : (pc[c] = "persist" /\ pc'[c] = "ok") =>
        \A k \in DOMAIN part[c] :
           Rests(c, k, handed[call[c].eng] \cup Underway(call[c].eng) \cup unacked[call[c].eng])

\* The lookup a call made is still true when it records the serve: a payload
\* its engine already has under this key is never sent in full again.
LookupStillTrue ==
    \A c \in Calls : (pc[c] = "apply" /\ pc'[c] = "persist") =>
        \A k \in DOMAIN part[c] :
           (/\ part[c][k].pend /\ call[c].opt = "normal"
            /\ part[c][k].text \in Long
            /\ k \in DOMAIN Session(c).recs /\ Session(c).recs[k] = part[c][k].text)
           => part[c][k].out = "note"

\* Every serve that was answered is in the file: a resume finds the record the
\* last write-back left for its key (or one of a call that died writing), and
\* drops a key only when MaxRecords keys sort after it.
ResumeKeepsServes ==
    \A s \in Scopes : \A k \in DOMAIN persisted[s] :
        LET st == load_state(base, journal) IN
          /\ st # None
          /\ \/ k \in DOMAIN st.scopes[s].recs /\ st.scopes[s].recs[k] \in persisted[s][k]
             \/ k \notin DOMAIN st.scopes[s].recs
                /\ Cardinality({j \in DOMAIN st.scopes[s].recs : j > k}) >= MaxRecords

\* Overlapping calls wait for one another's keys, none waits forever.
Waiting(c) == pc[c] = "wait"
Answered(c) == pc[c] \in Ended
EveryCallAnswered == \A c \in Calls : Waiting(c) ~> Answered(c)

-----------------------------------------------------------------------------
(* What the serve path may leave out of an answer, for any number of       *)
(* calls, engines, keys and payloads: a note or a diff rests on bytes its  *)
(* caller was given, and a lookup is still true when its serve is          *)
(* recorded.                                                               *)

(* A request is one of an engine, and "nothing" is neither a request nor a *)
(* session memory.                                                         *)
ServeConstants ==
    /\ None \notin Requests
    /\ \A r \in Requests : r.eng \in Engines
    /\ \A recs, seen, n : [recs |-> recs, restored |-> seen, hwm |-> n] # None

Held == {"serve", "look", "apply", "persist"}   \* the call's keys are claimed

IsMemory(m) == m = [recs |-> m.recs, restored |-> m.restored, hwm |-> m.hwm]

(* What the caller of an engine has, is being given, or lost to a failed   *)
(* write-back: an answer may rest on these.                                *)
Basis(e) == handed[e] \cup unacked[e] \cup Underway(e)

Shapes ==
    /\ DOMAIN memory = Engines /\ DOMAIN handed = Engines /\ DOMAIN unacked = Engines
    /\ DOMAIN inFlight = Engines
    /\ DOMAIN pc = Calls /\ DOMAIN call = Calls /\ DOMAIN part = Calls /\ DOMAIN loaded = Calls
    /\ DOMAIN snap = Calls

(* A call at work has its request, and answers for keys of this request;   *)
(* what it loaded from the disk is what it marks as restored.              *)
CallFormed(c) ==
    /\ pc[c] \in Held \cup {"wait"} => call[c] \in Requests
    /\ pc[c] \in Held => DOMAIN part[c] \subseteq call[c].keys
    /\ pc[c] \notin Held => part[c] = NoRecords
    /\ loaded[c] # None => /\ IsMemory(loaded[c])
                           /\ \A k \in DOMAIN loaded[c].recs :
                                loaded[c].recs[k] \in loaded[c].restored

(* Every record of a session memory was restored or is in the basis.       *)
MemoryRests(e) ==
    memory[e] # None =>
      /\ IsMemory(memory[e])
      /\ \A k \in DOMAIN memory[e].recs : memory[e].recs[k] \in memory[e].restored \cup Basis(e)

(* So is what a note or a diff of a running call stands on.                *)
Backed(a, e) ==
    /\ a.out \in {"full", "note", "diff"}
    /\ a.pend \/ a.out # "full" => memory[e] # None
    /\ a.out = "note" => a.text \in Basis(e) \/ (a.cross /\ a.text \in memory[e].restored)
    /\ a.out = "diff" => a.prev \in Basis(e) \cup memory[e].restored

AnswerRests(c, e) ==
    pc[c] \in Held /\ call[c].eng = e =>
      /\ \A k \in DOMAIN part[c] : Backed(part[c][k], e)
      /\ pc[c] = "persist" => memory[e] # None

(* Single flight: the keys of the calls at work are claimed and disjoint.  *)
FlightsDisjoint ==
    \A c \in Calls : pc[c] \in Held =>
      /\ call[c].keys \subseteq inFlight[call[c].eng]
      /\ \A d \in Calls : d # c /\ pc[d] \in Held /\ call[d].eng = call[c].eng
           => call[d].keys \cap call[c].keys = {}

(* No other call records a serve under the key of a lookup, so what the    *)
(* lookup found under its key is there until the call records.             *)
Fresh(c, k, e) ==
    (/\ part[c][k].pend /\ call[c].opt = "normal" /\ part[c][k].text \in Long
     /\ k \in DOMAIN memory[e].recs /\ memory[e].recs[k] = part[c][k].text)
    => part[c][k].out = "note"

LookupHolds(c, e) ==
    pc[c] \in Held \ {"persist"} /\ call[c].eng = e =>
      \A k \in DOMAIN part[c] : Fresh(c, k, e)

ServeInv ==
    /\ Shapes
    /\ \A c \in Calls : CallFormed(c)
    /\ \A e \in Engines : MemoryRests(e)
    /\ \A c \in Calls, e \in Engines : AnswerRests(c, e) /\ LookupHolds(c, e)
    /\ FlightsDisjoint

-----------------------------------------------------------------------------
(* What a step must do for the basis of an engine to grow: whoever leaves  *)
(* the write-back leaves what it showed among the handed or the unacked.   *)
LEMMA BasisGrows ==
    ASSUME NEW e \in Engines, handed[e] \subseteq handed'[e], unacked[e] \subseteq unacked'[e],
           \A d \in Calls : pc[d] = "persist" /\ call[d].eng = e =>
             \/ Shown(d) \subseteq handed'[e] \cup unacked'[e]
             \/ pc'[d] = "persist" /\ call'[d] = call[d] /\ part'[d] = part[d]
    PROVE  Basis(e) \subseteq Basis(e)'
<1>1. ASSUME NEW x \in Underway(e) PROVE x \in handed'[e] \cup unacked'[e] \cup Underway(e)'
  <2>1. PICK d \in Calls : pc[d] = "persist" /\ call[d].eng = e /\ x \in Shown(d)
    BY DEF Underway
  <2>2. CASE Shown(d) \subseteq handed'[e] \cup unacked'[e]
    BY <2>1, <2>2
  <2>3. CASE pc'[d] = "persist" /\ call'[d] = call[d] /\ part'[d] = part[d]
    <3>1. x \in Shown(d)'
      BY <2>1, <2>3 DEF Shown
    <3> QED  BY <2>1, <2>3, <3>1 DEF Underway
  <2> QED  BY <2>1, <2>2, <2>3
<1> QED  BY <1>1 DEF Basis

(* How a step may change a session memory, seen by the calls that do not   *)
(* make it: the memory comes into being, or records change under ks only.  *)
Growth(e, ks) ==
    \/ memory'[e] = memory[e]
    \/ memory[e] = None
    \/ /\ memory'[e] # None /\ memory'[e].restored = memory[e].restored
       /\ \A k : k \notin ks =>
            /\ k \in DOMAIN memory'[e].recs <=> k \in DOMAIN memory[e].recs
            /\ k \in DOMAIN memory[e].recs => memory'[e].recs[k] = memory[e].recs[k]

LEMMA OthersKeep ==
    ASSUME ServeInv, NEW d \in Calls, NEW e \in Engines, NEW ks,
           pc'[d] = pc[d], call'[d] = call[d], part'[d] = part[d],
           call[d].eng = e => Basis(e) \subseteq Basis(e)' /\ Growth(e, ks),
           pc[d] \in Held /\ call[d].eng = e => call[d].keys \cap ks = {}
    PROVE  AnswerRests(d, e)' /\ LookupHolds(d, e)'
<1>1. AnswerRests(d, e) /\ LookupHolds(d, e) /\ CallFormed(d)
  BY DEF ServeInv
<1>2. ASSUME pc[d] \in Held, call[d].eng = e, NEW k \in DOMAIN part[d]
      PROVE  Backed(part[d][k], e)' /\ (pc[d] # "persist" => Fresh(d, k, e)')
  <2>1. Backed(part[d][k], e) /\ k \notin ks
    BY <1>1, <1>2 DEF AnswerRests, CallFormed
  <2>2. pc[d] # "persist" => Fresh(d, k, e)
    BY <1>1, <1>2 DEF LookupHolds
  <2>3. Backed(part[d][k], e)'
    BY <1>2, <2>1 DEF Backed, Growth
  <2>4. ASSUME pc[d] # "persist" PROVE Fresh(d, k, e)'
    BY <1>2, <2>1, <2>2, <2>4 DEF Backed, Growth, Fresh
  <2> QED  BY <2>3, <2>4
<1>3. ASSUME pc[d] = "persist", call[d].eng = e PROVE memory'[e] # None
  BY <1>1, <1>3 DEF AnswerRests, Growth, Held
<1>4. AnswerRests(d, e)'
  BY <1>2, <1>3 DEF AnswerRests
<1>5. LookupHolds(d, e)'
  BY <1>2 DEF LookupHolds
<1> QED  BY <1>4, <1>5

(* What a lookup answers with rests on the memory it looked into.          *)
LEMMA SessionRests ==
    ASSUME ServeInv, NEW c \in Calls, NEW e \in Engines, call[c].eng = e, Session(c) # None
    PROVE  /\ IsMemory(Session(c))
           /\ \A k \in DOMAIN Session(c).recs :
                Session(c).recs[k] \in Session(c).restored \cup Basis(e)
<1>1. CallFormed(c) /\ MemoryRests(e)
  BY DEF ServeInv
<1>2. CASE memory[e] # None
  BY <1>1, <1>2 DEF Session, MemoryRests
<1>3. CASE memory[e] = None
  BY <1>1, <1>3 DEF Session, CallFormed
<1> QED  BY <1>2, <1>3

LEMMA AnswersBacked ==
    ASSUME ServeInv, NEW c \in Calls, NEW e \in Engines, call[c].eng = e,
           NEW k, NEW text, NEW a \in Answers(c, k, text), text # 0 => Session(c) # None
    PROVE  /\ a.out \in {"full", "note", "diff"} /\ a.text = text
           /\ a.pend \/ a.out # "full" => text # 0
           /\ a.out = "note" => \/ text \in Basis(e)
                                \/ a.cross /\ text \in Session(c).restored
           /\ a.out = "diff" => a.prev \in Basis(e) \cup Session(c).restored
           /\ (/\ a.pend /\ call[c].opt = "normal" /\ text \in Long
               /\ k \in DOMAIN Session(c).recs /\ Session(c).recs[k] = text)
              => a.out = "note"
<1> DEFINE m == Session(c)
           seen == lookup(m, k, text)
           as(out) == [text |-> text, out |-> out, prev |-> seen.prev,
                       cross |-> text \in m.restored, pend |-> TRUE]
<1>1. CASE text = 0
  BY <1>1 DEF Answers
<1>2. CASE text # 0
  <2>1. \A j \in DOMAIN m.recs : m.recs[j] \in m.restored \cup Basis(e)
    BY <1>2, SessionRests
  <2>2. seen.state = "unchanged" => text \in m.restored \cup Basis(e)
    BY <2>1 DEF lookup
  <2>3. seen.state = "changed" => seen.prev \in m.restored \cup Basis(e)
    BY <2>1 DEF lookup
  <2>4. k \in DOMAIN m.recs /\ m.recs[k] = text => seen.state = "unchanged"
    BY DEF lookup
  <2>5. \/ a = as("note") /\ call[c].opt = "normal" /\ seen.state = "unchanged" /\ text \in Long
        \/ /\ a = as("diff") /\ seen.state = "changed"
        \/ /\ a = as("full")
           /\ ~(call[c].opt = "normal" /\ seen.state = "unchanged" /\ text \in Long)
    <3> HIDE DEF seen, m
    <3>1. a \in IF call[c].opt = "normal" /\ seen.state = "unchanged" /\ text \in Long
                THEN {as("note")}
                ELSE IF call[c].opt = "normal" /\ seen.state = "changed"
                        /\ call[c].kind = "read" /\ seen.prev \in durable
                THEN {as("diff"), as("full")}
                ELSE {as("full")}
      BY <1>2 DEF Answers, seen, m
    <3> HIDE DEF as
    <3>2. CASE call[c].opt = "normal" /\ seen.state = "unchanged" /\ text \in Long
      BY <3>1, <3>2
    <3>3. CASE ~(call[c].opt = "normal" /\ seen.state = "unchanged" /\ text \in Long)
      BY <3>1, <3>3
    <3> QED  BY <3>2, <3>3
  <2> HIDE DEF seen, m
  <2>6. CASE a = as("note") /\ call[c].opt = "normal" /\ seen.state = "unchanged" /\ text \in Long
    BY <1>2, <2>2, <2>6 DEF m
  <2>7. CASE a = as("diff") /\ seen.state = "changed"
    BY <1>2, <2>3, <2>4, <2>7 DEF m
  <2>8. CASE /\ a = as("full")
             /\ ~(call[c].opt = "normal" /\ seen.state = "unchanged" /\ text \in Long)
    BY <1>2, <2>4, <2>8 DEF m
  <2> QED  BY <2>5, <2>6, <2>7, <2>8
<1> QED  BY <1>1, <1>2

-----------------------------------------------------------------------------
(* A step of one call.                                                     *)
Alone(c) ==
    \A d \in Calls \ {c} : /\ pc'[d] = pc[d] /\ call'[d] = call[d] /\ part'[d] = part[d]
                           /\ loaded'[d] = loaded[d]

LEMMA AloneGrows ==
    ASSUME NEW c \in Calls, Alone(c),
           pc[c] # "persist" \/ (pc'[c] = pc[c] /\ call'[c] = call[c] /\ part'[c] = part[c]),
           \A e \in Engines : handed[e] \subseteq handed'[e] /\ unacked[e] \subseteq unacked'[e]
    PROVE  \A e \in Engines : Basis(e) \subseteq Basis(e)'
<1> SUFFICES ASSUME NEW e \in Engines PROVE Basis(e) \subseteq Basis(e)'
  OBVIOUS
<1>1. \A d \in Calls : pc[d] = "persist" =>
        pc'[d] = "persist" /\ call'[d] = call[d] /\ part'[d] = part[d]
  BY DEF Alone
<1> QED  BY <1>1, BasisGrows

LEMMA MemoryKeeps ==
    ASSUME ServeInv, NEW e \in Engines, memory'[e] = memory[e], Basis(e) \subseteq Basis(e)'
    PROVE  MemoryRests(e)'
BY DEF ServeInv, MemoryRests, IsMemory

LEMMA FlightKeeps ==
    ASSUME ServeInv, NEW c \in Calls,
           \A d \in Calls : pc'[d] \in Held => pc[d] \in Held /\ call'[d] = call[d],
           \/ inFlight' = inFlight
           \/ /\ pc[c] \in Held /\ pc'[c] \notin Held
              /\ inFlight' = [inFlight EXCEPT ![call[c].eng] = @ \ call[c].keys]
    PROVE  FlightsDisjoint'
<1>1. FlightsDisjoint /\ DOMAIN inFlight = Engines
  BY DEF ServeInv, Shapes
<1>2. ASSUME NEW d \in Calls, pc'[d] \in Held
      PROVE  call[d].keys \subseteq inFlight'[call[d].eng]
  <2>1. pc[d] \in Held /\ call[d].keys \subseteq inFlight[call[d].eng]
    BY <1>1, <1>2 DEF FlightsDisjoint
  <2>2. CASE inFlight' = inFlight
    BY <2>1, <2>2
  <2>3. CASE /\ pc[c] \in Held /\ pc'[c] \notin Held
             /\ inFlight' = [inFlight EXCEPT ![call[c].eng] = @ \ call[c].keys]
    <3>1. d # c
      BY <1>2, <2>3
    <3>2. call[d].eng = call[c].eng => call[d].keys \cap call[c].keys = {}
      BY <1>1, <2>1, <2>3, <3>1 DEF FlightsDisjoint
    <3>3. CASE call[d].eng = call[c].eng /\ call[c].eng \in Engines
      BY <1>1, <2>1, <2>3, <3>2, <3>3
    <3>4. CASE call[d].eng # call[c].eng
      BY <1>1, <2>1, <2>3, <3>4
    <3>5. CASE call[c].eng \notin Engines
      BY <1>1, <2>1, <2>3, <3>5
    <3> QED  BY <3>3, <3>4, <3>5
  <2> QED  BY <2>2, <2>3
<1>3. ASSUME NEW d \in Calls, NEW b \in Calls, b # d, pc'[d] \in Held, pc'[b] \in Held,
             call'[b].eng = call'[d].eng
      PROVE  call'[b].keys \cap call'[d].keys = {}
  BY <1>1, <1>3 DEF FlightsDisjoint
<1>4. \A d \in Calls : pc'[d] \in Held => call'[d] = call[d]
  OBVIOUS
<1> QED  BY <1>2, <1>3, <1>4 DEF FlightsDisjoint

LEMMA OneCallSteps ==
    ASSUME ServeInv, NEW c \in Calls, Alone(c), Shapes',
           \A e \in Engines : Basis(e) \subseteq Basis(e)',
           memory' = memory \/ pc[c] \in Held,
           \A e \in Engines : IF call[c].eng = e THEN Growth(e, call[c].keys)
                                                 ELSE memory'[e] = memory[e],
           CallFormed(c)', \A e \in Engines : MemoryRests(e)',
           \A e \in Engines : AnswerRests(c, e)' /\ LookupHolds(c, e)', FlightsDisjoint'
    PROVE  ServeInv'
<1>1. ASSUME NEW d \in Calls, d # c PROVE CallFormed(d)'
  BY <1>1 DEF ServeInv, Alone, CallFormed, IsMemory
<1>2. ASSUME NEW d \in Calls, d # c, NEW e \in Engines
      PROVE  AnswerRests(d, e)' /\ LookupHolds(d, e)'
  <2>1. pc'[d] = pc[d] /\ call'[d] = call[d] /\ part'[d] = part[d]
    BY <1>2 DEF Alone
  <2>2. CASE memory'[e] = memory[e]
    <3>1. Growth(e, {})
      BY <2>2 DEF Growth
    <3> QED  BY <1>2, <2>1, <3>1, OthersKeep
  <2>3. CASE memory'[e] # memory[e]
    <3>1. pc[c] \in Held /\ call[c].eng = e /\ Growth(e, call[c].keys)
      BY <2>3
    <3>2. pc[d] \in Held /\ call[d].eng = e => call[d].keys \cap call[c].keys = {}
      BY <1>2, <3>1 DEF ServeInv, FlightsDisjoint
    <3> QED  BY <1>2, <2>1, <3>1, <3>2, OthersKeep
  <2> QED  BY <2>2, <2>3
<1> QED  BY <1>1, <1>2 DEF ServeInv

(* A call that ends gives its keys back and holds nothing.                 *)
LEMMA DoneKeeps ==
    ASSUME ServeInv, NEW c \in Calls, NEW how, how \notin Held \cup {"wait"}, pc[c] \in Held,
           Done(c, how), memory' = memory, DOMAIN handed' = Engines, DOMAIN unacked' = Engines,
           \A e \in Engines : Basis(e) \subseteq Basis(e)'
    PROVE  ServeInv'
<1>1. Shapes /\ Shapes'
  BY DEF ServeInv, Shapes, Done
<1>2. Alone(c)
  BY <1>1 DEF Done, Alone, Shapes
<1>3. pc'[c] = how /\ part'[c] = NoRecords /\ loaded'[c] = None
  BY <1>1 DEF Done, Shapes
<1>4. CallFormed(c)'
  BY <1>3 DEF CallFormed
<1>5. \A e \in Engines : AnswerRests(c, e)' /\ LookupHolds(c, e)'
  BY <1>3 DEF AnswerRests, LookupHolds
<1>6. \A e \in Engines : MemoryRests(e)'
  BY MemoryKeeps
<1>7. FlightsDisjoint'
  <2>1. \A d \in Calls : pc'[d] \in Held => pc[d] \in Held /\ call'[d] = call[d]
    BY <1>2, <1>3 DEF Alone
  <2> QED  BY <1>3, <2>1, FlightKeeps DEF Done
<1>8. \A e \in Engines : IF call[c].eng = e THEN Growth(e, call[c].keys)
                                            ELSE memory'[e] = memory[e]
  BY DEF Growth
<1> QED  BY <1>1, <1>2, <1>4, <1>5, <1>6, <1>7, <1>8, OneCallSteps

-----------------------------------------------------------------------------
(* One lemma per action.  A call that starts has nothing to answer, ...    *)
LEMMA StartKeeps ==
    ASSUME ServeConstants, ServeInv, NEW c \in Calls, NEW req \in Requests, Start(c, req)
    PROVE  ServeInv'
<1>1. Shapes /\ Shapes' /\ Alone(c)
  BY DEF ServeInv, Shapes, Start, Alone
<1>2. pc[c] = "idle" /\ pc'[c] = "wait" /\ call'[c] = req /\ UNCHANGED <<part, loaded, memory>>
  BY <1>1 DEF Start, Shapes
<1>3. \A e \in Engines : Basis(e) \subseteq Basis(e)'
  BY <1>1, <1>2, AloneGrows DEF Start
<1>4. CallFormed(c)'
  BY <1>2 DEF ServeInv, CallFormed, Held, IsMemory
<1>5. \A e \in Engines : AnswerRests(c, e)' /\ LookupHolds(c, e)'
  BY <1>2 DEF AnswerRests, LookupHolds, Held
<1>6. \A e \in Engines : MemoryRests(e)'
  BY <1>2, <1>3, MemoryKeeps
<1>7. FlightsDisjoint'
  <2>1. \A d \in Calls : pc'[d] \in Held => pc[d] \in Held /\ call'[d] = call[d]
    BY <1>1, <1>2 DEF Alone, Held
  <2> QED  BY <2>1, FlightKeeps DEF Start
<1>8. \A e \in Engines : memory'[e] = memory[e] /\ Growth(e, call[c].keys)
  BY <1>2 DEF Growth
<1> QED  BY <1>1, <1>2, <1>3, <1>4, <1>5, <1>6, <1>7, <1>8, OneCallSteps

(* ... one that claims its keys claims them alone, ...                     *)
LEMMA ClaimKeeps ==
    ASSUME ServeConstants, ServeInv, NEW c \in Calls, Claim(c)
    PROVE  ServeInv'
<1>1. Shapes /\ Shapes' /\ Alone(c)
  BY DEF ServeInv, Shapes, Claim, begin_serve_flight, Alone
<1>2. /\ pc[c] = "wait" /\ pc'[c] = "serve" /\ UNCHANGED <<part, loaded, memory, call>>
      /\ part[c] = NoRecords /\ call[c] \in Requests /\ call[c].eng \in Engines
  BY <1>1 DEF Claim, begin_serve_flight, Shapes, ServeInv, CallFormed, Held, ServeConstants
<1>3. \A e \in Engines : Basis(e) \subseteq Basis(e)'
  BY <1>1, <1>2, AloneGrows DEF Claim
<1>4. CallFormed(c)'
  BY <1>2 DEF ServeInv, CallFormed, Held, IsMemory, NoRecords
<1>5. \A e \in Engines : AnswerRests(c, e)' /\ LookupHolds(c, e)'
  BY <1>2 DEF AnswerRests, LookupHolds, NoRecords
<1>6. \A e \in Engines : MemoryRests(e)'
  BY <1>2, <1>3, MemoryKeeps
<1>7. FlightsDisjoint'
  <2>1. /\ call[c].keys \cap inFlight[call[c].eng] = {}
        /\ inFlight' = [inFlight EXCEPT ![call[c].eng] = @ \cup call[c].keys]
    BY DEF Claim, begin_serve_flight
  <2>2. ASSUME NEW d \in Calls, d # c, pc[d] \in Held
        PROVE  /\ call[d].keys \subseteq inFlight[call[d].eng]
               /\ call[d].keys \subseteq inFlight'[call[d].eng]
               /\ call[d].eng = call[c].eng => call[d].keys \cap call[c].keys = {}
    <3>1. call[d].keys \subseteq inFlight[call[d].eng]
      BY <2>2 DEF ServeInv, FlightsDisjoint
    <3>2. call[d].keys \subseteq inFlight'[call[d].eng]
      BY <1>1, <1>2, <2>1, <3>1 DEF Shapes
    <3> QED  BY <2>1, <3>1, <3>2
  <2>3. call[c].keys \subseteq inFlight'[call[c].eng]
    BY <1>1, <1>2, <2>1 DEF Shapes
  <2>4. \A d \in Calls \ {c} : pc'[d] = pc[d]
    BY <1>1 DEF Alone
  <2>5. ASSUME NEW d \in Calls, d # c, NEW b \in Calls, b # c, b # d, pc[d] \in Held,
               pc[b] \in Held, call[b].eng = call[d].eng
        PROVE  call[b].keys \cap call[d].keys = {}
    BY <2>5 DEF ServeInv, FlightsDisjoint
  <2> SUFFICES ASSUME NEW x \in Calls, pc'[x] \in Held
               PROVE  /\ call[x].keys \subseteq inFlight'[call[x].eng]
                      /\ \A d \in Calls : d # x /\ pc'[d] \in Held /\ call[d].eng = call[x].eng
                           => call[d].keys \cap call[x].keys = {}
    BY <1>2 DEF FlightsDisjoint
  <2>6. CASE x = c
    BY <2>2, <2>3, <2>4, <2>6
  <2>7. CASE x # c
    <3>1. pc[x] \in Held
      BY <2>4, <2>7
    <3>2. ASSUME NEW d \in Calls, d # x, pc'[d] \in Held, call[d].eng = call[x].eng
          PROVE  call[d].keys \cap call[x].keys = {}
      <4>1. CASE d = c
        BY <2>2, <2>7, <3>1, <3>2, <4>1
      <4>2. CASE d # c
        BY <2>4, <2>5, <2>7, <3>1, <3>2, <4>2
      <4> QED  BY <4>1, <4>2
    <3> QED  BY <2>2, <2>7, <3>1, <3>2
  <2> QED  BY <2>6, <2>7
<1>8. \A e \in Engines : memory'[e] = memory[e] /\ Growth(e, call[c].keys)
  BY <1>2 DEF Growth
<1> QED  BY <1>1, <1>2, <1>3, <1>4, <1>5, <1>6, <1>7, <1>8, OneCallSteps

(* ... and what one restores from the disk it marks as restored.           *)
LEMMA ColdLoadKeeps ==
    ASSUME ServeInv, NEW c \in Calls, ColdLoad(c)
    PROVE  ServeInv'
<1>1. Shapes /\ Shapes' /\ Alone(c)
  BY DEF ServeInv, Shapes, ColdLoad, Alone
<1>2. UNCHANGED <<pc, part, memory, call, handed, unacked, inFlight>>
  BY DEF ColdLoad
<1>3. \A e \in Engines : Basis(e) \subseteq Basis(e)'
  BY <1>1, <1>2, AloneGrows
<1>4. CallFormed(c)'
  <2>1. PICK m \in {load_into(Scope(c)), EmptyMemory} : loaded'[c] = m
    BY <1>1 DEF ColdLoad, Shapes
  <2>0. IsMemory(EmptyMemory) /\ DOMAIN EmptyMemory.recs = {}
    BY DEF EmptyMemory, NoRecords, IsMemory
  <2>2. CASE m = EmptyMemory
    BY <1>2, <2>0, <2>1, <2>2 DEF ServeInv, CallFormed, IsMemory
  <2>3. CASE m = load_into(Scope(c))
    <3>1. CASE load_state(base, journal) = None
      <4>1. m = EmptyMemory
        BY <2>3, <3>1 DEF load_into
      <4> QED  BY <2>2, <4>1
    <3>2. CASE load_state(base, journal) # None
      <4> DEFINE st == load_state(base, journal)
                 scope == st.scopes[Scope(c)]
                 keep == {k \in DOMAIN scope.recs : st.version = 2 /\ scope.recs[k] \in durable}
                 recs == [k \in keep |-> scope.recs[k]]
      <4>1. m = [recs |-> recs, restored |-> {recs[k] : k \in keep}, hwm |-> scope.hwm]
        BY <2>3, <3>2 DEF load_into
      <4> HIDE DEF st, scope, keep
      <4>2. IsMemory(m) /\ \A k \in DOMAIN m.recs : m.recs[k] \in m.restored
        BY <4>1 DEF IsMemory
      <4> QED  BY <1>2, <2>1, <4>2 DEF ServeInv, CallFormed, IsMemory
    <3> QED  BY <3>1, <3>2
  <2> QED  BY <2>1, <2>2, <2>3
<1>5. \A e \in Engines : Growth(e, {}) /\ memory'[e] = memory[e] /\ Growth(e, call[c].keys)
  BY <1>2 DEF Growth
<1>6. \A e \in Engines : AnswerRests(c, e)' /\ LookupHolds(c, e)'
  BY <1>2, <1>3, <1>5, OthersKeep
<1>7. \A e \in Engines : MemoryRests(e)'
  BY <1>2, <1>3, MemoryKeeps
<1>8. FlightsDisjoint'
  BY <1>2, FlightKeeps
<1> QED  BY <1>1, <1>2, <1>3, <1>4, <1>5, <1>6, <1>7, <1>8, OneCallSteps

(* A lookup brings the memory into being and answers from it, ...          *)
LEMMA LookupGrows ==
    ASSUME ServeConstants, ServeInv, NEW c \in Calls, NEW e \in Engines, call[c].eng = e,
           Session(c) # None, memory' = [memory EXCEPT ![e] = Session(c)]
    PROVE  /\ memory'[e] = Session(c) /\ \A f \in Engines : f # e => memory'[f] = memory[f]
           /\ \A ks : Growth(e, ks)
<1>1. DOMAIN memory = Engines
  BY DEF ServeInv, Shapes
<1>2. memory'[e] = Session(c) /\ \A f \in Engines : f # e => memory'[f] = memory[f]
  BY <1>1
<1>3. memory[e] # None => memory'[e] = memory[e]
  BY <1>2 DEF Session
<1> QED  BY <1>2, <1>3 DEF Growth

LEMMA ReadOnePathKeeps ==
    ASSUME ServeConstants, ServeInv, NEW c \in Calls, NEW k \in Keys, ReadOnePath(c, k)
    PROVE  ServeInv'
<1>1. /\ Shapes /\ pc[c] = "serve" /\ call[c] \in Requests /\ call[c].eng \in Engines
      /\ CallFormed(c) /\ UNCHANGED <<handed, unacked>> /\ k \in call[c].keys
  BY DEF ServeInv, CallFormed, Held, ServeConstants, ReadOnePath
<1>2. CASE Done(c, "error") /\ UNCHANGED memory
  <2>1. Alone(c)
    BY <1>1, <1>2 DEF Done, Alone, Shapes
  <2>2. \A f \in Engines : Basis(f) \subseteq Basis(f)'
    BY <1>1, <2>1, AloneGrows
  <2> QED  BY <1>1, <1>2, <2>2, DoneKeeps DEF Held, Shapes
<1>3. CASE ~(Done(c, "error") /\ UNCHANGED memory)
  <2>1. PICK e \in Engines : e = call[c].eng
    BY <1>1
  <2>2. PICK a \in Answers(c, k, world[k]) :
          part' = [part EXCEPT ![c] = Put(@, [j \in {k} |-> a])]
    BY <1>3 DEF ReadOnePath
  <2>3. /\ UNCHANGED <<pc, inFlight, loaded, snap, call>>
        /\ world[k] # 0 => Session(c) # None
        /\ memory' = IF world[k] = 0 THEN memory ELSE [memory EXCEPT ![e] = Session(c)]
    BY <1>3, <2>1 DEF ReadOnePath
  <2>4. Shapes' /\ Alone(c)
    BY <1>1, <2>2, <2>3 DEF Shapes, Alone
  <2>5. \A f \in Engines : Basis(f) \subseteq Basis(f)'
    BY <1>1, <2>4, AloneGrows
  <2>6. /\ DOMAIN part'[c] = DOMAIN part[c] \cup {k} /\ part'[c][k] = a
        /\ \A j \in DOMAIN part[c] : j # k => part'[c][j] = part[c][j]
    BY <1>1, <2>2 DEF Put, Shapes
  <2>7. CallFormed(c)'
    BY <1>1, <2>3, <2>6 DEF CallFormed, IsMemory, Held
  <2>8. /\ \A ks : Growth(e, ks)
        /\ \A f \in Engines : f # e => memory'[f] = memory[f]
        /\ world[k] # 0 => memory'[e] = Session(c)
    BY <2>1, <2>3, LookupGrows DEF Growth
  <2>9. \A f \in Engines : MemoryRests(f)'
    <3>1. ASSUME world[k] # 0 PROVE MemoryRests(e)'
      BY <2>1, <2>3, <2>5, <2>8, <3>1, SessionRests DEF MemoryRests, IsMemory
    <3>2. ASSUME world[k] = 0 PROVE MemoryRests(e)'
      BY <2>3, <2>5, <3>2, MemoryKeeps
    <3>3. ASSUME NEW f \in Engines, f # e PROVE MemoryRests(f)'
      BY <2>5, <2>8, <3>3, MemoryKeeps
    <3> QED  BY <3>1, <3>2, <3>3
  <2>10. Backed(part[c][k], e)' /\ Fresh(c, k, e)'
    <3>1. /\ a.out \in {"full", "note", "diff"} /\ a.text = world[k]
          /\ a.pend \/ a.out # "full" => world[k] # 0
          /\ a.out = "note" => \/ world[k] \in Basis(e)
                               \/ a.cross /\ world[k] \in Session(c).restored
          /\ a.out = "diff" => a.prev \in Basis(e) \cup Session(c).restored
          /\ (/\ a.pend /\ call[c].opt = "normal" /\ world[k] \in Long
              /\ k \in DOMAIN Session(c).recs /\ Session(c).recs[k] = world[k])
             => a.out = "note"
      BY <2>1, <2>2, <2>3, AnswersBacked
    <3> QED  BY <2>3, <2>5, <2>6, <2>8, <3>1 DEF Backed, Fresh
  <2>11. ASSUME NEW j \in DOMAIN part[c], j # k PROVE Backed(part[c][j], e)' /\ Fresh(c, j, e)'
    <3>1. Backed(part[c][j], e) /\ Fresh(c, j, e)
      BY <1>1, <2>1 DEF ServeInv, AnswerRests, LookupHolds, Held
    <3>2. Growth(e, {})
      BY <2>8
    <3> QED  BY <2>3, <2>5, <2>6, <2>11, <3>1, <3>2 DEF Backed, Fresh, Growth
  <2>12. \A f \in Engines : AnswerRests(c, f)' /\ LookupHolds(c, f)'
    BY <1>1, <2>1, <2>3, <2>6, <2>10, <2>11 DEF AnswerRests, LookupHolds
  <2>13. FlightsDisjoint'
    BY <2>3, FlightKeeps
  <2> QED  BY <1>1, <2>1, <2>4, <2>5, <2>7, <2>8, <2>9, <2>12, <2>13, OneCallSteps DEF Held
<1> QED  BY <1>2, <1>3

LEMMA SearchLookupKeeps ==
    ASSUME ServeConstants, ServeInv, NEW c \in Calls, SearchLookup(c)
    PROVE  ServeInv'
<1>1. /\ Shapes /\ pc[c] = "look" /\ call[c] \in Requests /\ call[c].eng \in Engines
      /\ CallFormed(c) /\ UNCHANGED <<handed, unacked, inFlight, loaded, snap, call>>
      /\ Session(c) # None /\ pc' = [pc EXCEPT ![c] = "apply"]
  BY DEF ServeInv, CallFormed, Held, ServeConstants, SearchLookup
<1>2. PICK e \in Engines : e = call[c].eng
  BY <1>1
<1>3. PICK k \in call[c].keys : \E a \in Answers(c, k, part[c][k].text) :
        part' = [part EXCEPT ![c] = [j \in {k} |-> a]]
  BY DEF SearchLookup
<1>4. PICK a \in Answers(c, k, part[c][k].text) : part' = [part EXCEPT ![c] = [j \in {k} |-> a]]
  BY <1>3
<1>5. memory' = [memory EXCEPT ![e] = Session(c)]
  BY <1>2 DEF SearchLookup
<1>6. /\ Shapes' /\ Alone(c) /\ DOMAIN part'[c] = {k} /\ part'[c][k] = a /\ pc'[c] = "apply"
  BY <1>1, <1>4, <1>5 DEF Shapes, Alone
<1>7. \A f \in Engines : Basis(f) \subseteq Basis(f)'
  BY <1>1, <1>6, AloneGrows
<1>8. CallFormed(c)'
  BY <1>1, <1>6 DEF CallFormed, IsMemory, Held
<1>9. /\ memory'[e] = Session(c) /\ (\A ks : Growth(e, ks))
      /\ \A f \in Engines : f # e => memory'[f] = memory[f]
  BY <1>1, <1>2, <1>5, LookupGrows
<1>10. \A f \in Engines : MemoryRests(f)'
  <2>1. MemoryRests(e)'
    BY <1>1, <1>2, <1>7, <1>9, SessionRests DEF MemoryRests, IsMemory
  <2>2. ASSUME NEW f \in Engines, f # e PROVE MemoryRests(f)'
    BY <1>7, <1>9, <2>2, MemoryKeeps
  <2> QED  BY <2>1, <2>2
<1>11. Backed(part[c][k], e)' /\ Fresh(c, k, e)'
  <2> DEFINE text == part[c][k].text
  <2>1. /\ a.out \in {"full", "note", "diff"} /\ a.text = text
        /\ a.out = "note" => text \in Basis(e) \/ (a.cross /\ text \in Session(c).restored)
        /\ a.out = "diff" => a.prev \in Basis(e) \cup Session(c).restored
        /\ (/\ a.pend /\ call[c].opt = "normal" /\ text \in Long
            /\ k \in DOMAIN Session(c).recs /\ Session(c).recs[k] = text)
           => a.out = "note"
    BY <1>1, <1>2, <1>4, AnswersBacked
  <2> HIDE DEF text
  <2> QED  BY <1>1, <1>6, <1>7, <1>9, <2>1 DEF Backed, Fresh
<1>12. \A f \in Engines : AnswerRests(c, f)' /\ LookupHolds(c, f)'
  BY <1>1, <1>2, <1>6, <1>11 DEF AnswerRests, LookupHolds
<1>13. FlightsDisjoint'
  <2>1. \A d \in Calls : pc'[d] \in Held => pc[d] \in Held /\ call'[d] = call[d]
    BY <1>1, <1>6 DEF Alone, Held
  <2> QED  BY <1>1, <2>1, FlightKeeps
<1> QED  BY <1>1, <1>2, <1>6, <1>7, <1>8, <1>9, <1>10, <1>12, <1>13, OneCallSteps DEF Held

(* ... a payload that is not looked up is served in full, ...              *)
LEMMA StoreReadKeeps ==
    ASSUME ServeConstants, ServeInv, NEW c \in Calls, StoreRead(c)
    PROVE  ServeInv'
<1>1. /\ Shapes /\ pc[c] = "serve" /\ CallFormed(c) /\ UNCHANGED <<memory, unacked>>
      /\ DOMAIN handed' = Engines /\ \A e \in Engines : handed[e] \subseteq handed'[e]
  <2>1. Shapes /\ pc[c] = "serve" /\ CallFormed(c) /\ UNCHANGED <<memory, unacked>>
    BY DEF ServeInv, StoreRead
  <2>2. handed' = handed \/ \E more : handed' = [handed EXCEPT ![call[c].eng] = @ \cup more]
    BY DEF StoreRead
  <2> QED  BY <2>1, <2>2 DEF Shapes
<1>2. CASE \E how \in {"degraded", "replaced"} : Done(c, how)
  <2>1. PICK how \in {"degraded", "replaced"} : Done(c, how)
    BY <1>2
  <2>2. Alone(c)
    BY <1>1, <2>1 DEF Done, Alone, Shapes
  <2>3. \A e \in Engines : Basis(e) \subseteq Basis(e)'
    BY <1>1, <2>2, AloneGrows
  <2> QED  BY <1>1, <2>1, <2>3, DoneKeeps DEF Held, Shapes
<1>3. CASE /\ pc' = [pc EXCEPT ![c] = "apply"]
           /\ UNCHANGED <<inFlight, loaded, snap, part, call, handed>>
  <2>1. Shapes' /\ Alone(c) /\ pc'[c] = "apply"
    BY <1>1, <1>3 DEF Shapes, Alone
  <2>2. \A e \in Engines : Basis(e) \subseteq Basis(e)'
    BY <1>1, <2>1, AloneGrows
  <2>3. \A e \in Engines : Growth(e, call[c].keys) /\ memory'[e] = memory[e]
    BY <1>1 DEF Growth
  <2>4. CallFormed(c)'
    BY <1>1, <1>3, <2>1 DEF CallFormed, IsMemory, Held
  <2>5. \A e \in Engines : MemoryRests(e)'
    BY <2>2, <2>3, MemoryKeeps
  <2>6. ASSUME NEW e \in Engines PROVE AnswerRests(c, e)' /\ LookupHolds(c, e)'
    <3>1. AnswerRests(c, e) /\ LookupHolds(c, e)
      BY DEF ServeInv
    <3>2. AnswerRests(c, e)'
      BY <1>1, <1>3, <2>1, <2>2, <3>1 DEF AnswerRests, Backed, Held
    <3>3. LookupHolds(c, e)'
      BY <1>1, <1>3, <2>1, <3>1 DEF LookupHolds, Fresh, Held
    <3> QED  BY <3>2, <3>3
  <2>7. FlightsDisjoint'
    <3>1. \A d \in Calls : pc'[d] \in Held => pc[d] \in Held /\ call'[d] = call[d]
      BY <1>1, <1>3, <2>1 DEF Alone, Held
    <3> QED  BY <1>3, <3>1, FlightKeeps
  <2> QED  BY <1>1, <2>1, <2>2, <2>3, <2>4, <2>5, <2>6, <2>7, OneCallSteps
<1> QED  BY <1>2, <1>3 DEF StoreRead, Replaced

LEMMA RunSearchKeeps ==
    ASSUME ServeConstants, ServeInv, NEW c \in Calls, RunSearch(c)
    PROVE  ServeInv'
<1>1. /\ Shapes /\ pc[c] = "serve" /\ CallFormed(c) /\ UNCHANGED <<memory, unacked, handed>>
  BY DEF ServeInv, RunSearch
<1>2. CASE Done(c, "error")
  <2>1. Alone(c)
    BY <1>1, <1>2 DEF Done, Alone, Shapes
  <2>2. \A e \in Engines : Basis(e) \subseteq Basis(e)'
    BY <1>1, <2>1, AloneGrows
  <2> QED  BY <1>1, <1>2, <2>2, DoneKeeps DEF Held, Shapes
<1>3. CASE ~Done(c, "error")
  <2>1. PICK k \in call[c].keys, ok \in BOOLEAN :
          LET text == IF world[k] = None THEN 0 ELSE world[k]
          IN  /\ part' = [part EXCEPT ![c] = [j \in {k} |->
                    [text |-> text, out |-> "full", prev |-> None, cross |-> FALSE, pend |-> FALSE]]]
              /\ pc' = [pc EXCEPT ![c] = IF ok /\ text # 0 THEN "look" ELSE "apply"]
              /\ UNCHANGED <<inFlight, loaded, snap, call>>
    BY <1>3 DEF RunSearch
  <2>2. /\ Shapes' /\ Alone(c) /\ pc'[c] \in {"look", "apply"} /\ DOMAIN part'[c] = {k}
        /\ part'[c][k].out = "full" /\ part'[c][k].pend = FALSE
        /\ UNCHANGED <<inFlight, loaded, call>>
    BY <1>1, <2>1 DEF Shapes, Alone
  <2>3. \A e \in Engines : Basis(e) \subseteq Basis(e)'
    BY <1>1, <2>2, AloneGrows
  <2>4. \A e \in Engines : Growth(e, call[c].keys) /\ memory'[e] = memory[e]
    BY <1>1 DEF Growth
  <2>5. CallFormed(c)'
    BY <1>1, <2>1, <2>2 DEF CallFormed, IsMemory, Held
  <2>6. \A e \in Engines : MemoryRests(e)'
    BY <2>3, <2>4, MemoryKeeps
  <2>7. \A e \in Engines : AnswerRests(c, e)' /\ LookupHolds(c, e)'
    BY <2>2 DEF AnswerRests, Backed, LookupHolds, Fresh
  <2>8. FlightsDisjoint'
    <3>1. \A d \in Calls : pc'[d] \in Held => pc[d] \in Held /\ call'[d] = call[d]
      BY <1>1, <2>2 DEF Alone, Held
    <3> QED  BY <2>2, <3>1, FlightKeeps
  <2> QED  BY <1>1, <2>2, <2>3, <2>4, <2>5, <2>6, <2>7, <2>8, OneCallSteps
<1> QED  BY <1>2, <1>3

LEMMA RecordUpdated ==
    ASSUME NEW m, IsMemory(m), NEW r, NEW h
    PROVE  [m EXCEPT !.recs = r, !.hwm = h] = [recs |-> r, restored |-> m.restored, hwm |-> h]
<1>1. m \in [recs : {m.recs}, restored : {m.restored}, hwm : {m.hwm}]
  BY DEF IsMemory
<1>2. PICK b : b = m.restored
  OBVIOUS
<1>3. [m EXCEPT !.recs = r, !.hwm = h] \in [recs : {r}, restored : {b}, hwm : {h}]
  BY <1>1, <1>2
<1>4. \A q \in [recs : {r}, restored : {b}, hwm : {h}] :
        q = [recs |-> r, restored |-> b, hwm |-> h]
  OBVIOUS
<1> QED  BY <1>2, <1>3, <1>4

(* ... a serve that is recorded is shown, or rested on the basis before,   *)
LEMMA SessionApplyKeeps ==
    ASSUME ServeConstants, ServeInv, NEW c \in Calls, SessionApply(c)
    PROVE  ServeInv'
<1> DEFINE m == Session(c)
           ks == {k \in DOMAIN part[c] : part[c][k].pend}
           new == [k \in ks |-> part[c][k].text]
           recs == Put(m.recs, new)
<1>1. /\ Shapes /\ pc[c] = "apply" /\ call[c] \in Requests /\ call[c].eng \in Engines
      /\ CallFormed(c) /\ UNCHANGED <<handed, unacked, inFlight, loaded, call, part>>
      /\ m # None /\ pc' = [pc EXCEPT ![c] = "persist"]
      /\ DOMAIN snap' = Calls
  BY DEF ServeInv, Shapes, CallFormed, Held, ServeConstants, SessionApply
<1>2. PICK e \in Engines : e = call[c].eng
  BY <1>1
<1>3. IsMemory(m) /\ \A k \in DOMAIN m.recs : m.recs[k] \in m.restored \cup Basis(e)
  BY <1>1, <1>2, SessionRests
<1>4. memory' = [memory EXCEPT ![e] = [recs |-> recs, restored |-> m.restored, hwm |-> m.hwm + 1]]
  <2>1. memory' = [memory EXCEPT ![e] = [m EXCEPT !.recs = recs, !.hwm = m.hwm + 1]]
    BY <1>2 DEF SessionApply
  <2> HIDE DEF m, recs
  <2>2. [m EXCEPT !.recs = recs, !.hwm = m.hwm + 1]
          = [recs |-> recs, restored |-> m.restored, hwm |-> m.hwm + 1]
    BY <1>3, RecordUpdated, Zenon
  <2> QED  BY <2>1, <2>2
<1>5. ks \subseteq call[c].keys /\ ks \subseteq DOMAIN part[c]
  BY <1>1 DEF CallFormed, Held
<1>6. /\ DOMAIN recs = DOMAIN m.recs \cup ks
      /\ \A k \in DOMAIN recs : recs[k] = IF k \in ks THEN part[c][k].text ELSE m.recs[k]
  BY DEF Put
<1> HIDE DEF m, ks, recs
<1>7. /\ memory'[e] = [recs |-> recs, restored |-> m.restored, hwm |-> m.hwm + 1]
      /\ memory'[e] # None
      /\ \A f \in Engines : f # e => memory'[f] = memory[f]
  BY <1>1, <1>4 DEF Shapes, ServeConstants
<1>8. Shapes' /\ Alone(c) /\ pc'[c] = "persist"
  BY <1>1, <1>4 DEF Shapes, Alone
<1>9. \A f \in Engines : Basis(f) \subseteq Basis(f)'
  BY <1>1, <1>8, AloneGrows
<1>10. Growth(e, call[c].keys)
  <2>1. CASE memory[e] = None
    BY <2>1 DEF Growth
  <2>2. CASE memory[e] # None
    <3>1. m = memory[e]
      BY <1>2, <2>2 DEF m, Session
    <3>2. memory'[e].recs = recs /\ memory'[e].restored = memory[e].restored
      BY <1>7, <3>1
    <3>3. ASSUME NEW k, k \notin call[c].keys
          PROVE  /\ k \in DOMAIN memory'[e].recs <=> k \in DOMAIN memory[e].recs
                 /\ k \in DOMAIN memory[e].recs => memory'[e].recs[k] = memory[e].recs[k]
      BY <1>5, <1>6, <3>1, <3>2, <3>3
    <3> QED  BY <1>7, <3>2, <3>3 DEF Growth
  <2> QED  BY <2>1, <2>2
<1>11. CallFormed(c)'
  BY <1>1, <1>8 DEF CallFormed, IsMemory, Held
<1>12. ASSUME NEW k \in DOMAIN part[c]
       PROVE  /\ part[c][k].out \in {"full", "diff"} => part[c][k].text \in Basis(e)'
              /\ Backed(part[c][k], e)
  <2>1. Backed(part[c][k], e)
    BY <1>1, <1>2 DEF ServeInv, AnswerRests, Held
  <2>2. part[c][k].out \in {"full", "diff"} => part[c][k].text \in Shown(c)'
    BY <1>1 DEF Shown
  <2>3. Shown(c)' \subseteq Underway(e)'
    BY <1>1, <1>2, <1>8 DEF Underway
  <2> QED  BY <2>1, <2>2, <2>3 DEF Basis
<1>13. \A f \in Engines : MemoryRests(f)'
  <2>1. ASSUME NEW k \in DOMAIN recs PROVE recs[k] \in m.restored \cup Basis(e)'
    <3>1. CASE k \notin ks
      BY <1>3, <1>6, <1>9, <2>1, <3>1
    <3>2. CASE k \in ks
      <4>1. recs[k] = part[c][k].text /\ k \in DOMAIN part[c] /\ part[c][k].pend
        BY <1>6, <2>1, <3>2 DEF ks
      <4>2. Backed(part[c][k], e) /\ memory[e] # None
        BY <1>12, <4>1 DEF Backed
      <4>3. m = memory[e]
        BY <1>2, <4>2 DEF m, Session
      <4> QED  BY <1>9, <1>12, <4>1, <4>2, <4>3 DEF Backed
    <3> QED  BY <3>1, <3>2
  <2>2. MemoryRests(e)'
    BY <1>7, <2>1 DEF MemoryRests, IsMemory
  <2>3. ASSUME NEW f \in Engines, f # e PROVE MemoryRests(f)'
    BY <1>7, <1>9, <2>3, MemoryKeeps
  <2> QED  BY <2>2, <2>3
<1>14. \A f \in Engines : AnswerRests(c, f)' /\ LookupHolds(c, f)'
  <2>1. ASSUME NEW k \in DOMAIN part[c] PROVE Backed(part[c][k], e)'
    <3>1. Backed(part[c][k], e)
      BY <1>12
    <3>2. memory[e] # None => memory'[e].restored = memory[e].restored
      BY <1>2, <1>7 DEF m, Session
    <3> QED  BY <1>1, <1>7, <1>9, <3>1, <3>2 DEF Backed
  <2> QED  BY <1>1, <1>2, <1>7, <1>8, <2>1 DEF AnswerRests, LookupHolds
<1>15. FlightsDisjoint'
  <2>1. \A d \in Calls : pc'[d] \in Held => pc[d] \in Held /\ call'[d] = call[d]
    BY <1>1, <1>8 DEF Alone, Held
  <2> QED  BY <1>1, <2>1, FlightKeeps
<1> QED  BY <1>1, <1>2, <1>7, <1>8, <1>9, <1>10, <1>11, <1>13, <1>14, <1>15, OneCallSteps DEF Held

(* ... what the write-back of a call showed stays in the basis, whether it *)
(* is answered or fails, ...                                               *)
LEMMA WriteBackKeeps ==
    ASSUME ServeConstants, ServeInv, NEW c \in Calls, Persist(c) \/ PersistFails(c)
    PROVE  ServeInv'
<1>1. /\ Shapes /\ pc[c] = "persist" /\ call[c] \in Requests /\ call[c].eng \in Engines
      /\ UNCHANGED memory
  BY DEF ServeInv, CallFormed, Held, ServeConstants, Persist, PersistFails
<1>2. PICK e \in Engines : e = call[c].eng
  BY <1>1
<1>3. PICK how \in {"ok", "error"} : Done(c, how)
  BY DEF Persist, PersistFails
<1>4. \/ handed' = [handed EXCEPT ![e] = @ \cup Shown(c)] /\ unacked' = unacked
      \/ unacked' = [unacked EXCEPT ![e] = @ \cup Shown(c)] /\ handed' = handed
  BY <1>2 DEF Persist, PersistFails
<1>5. /\ DOMAIN handed' = Engines /\ DOMAIN unacked' = Engines
      /\ Shown(c) \subseteq handed'[e] \cup unacked'[e]
      /\ \A f \in Engines : handed[f] \subseteq handed'[f] /\ unacked[f] \subseteq unacked'[f]
  <2> HIDE DEF Shown
  <2>1. CASE handed' = [handed EXCEPT ![e] = @ \cup Shown(c)] /\ unacked' = unacked
    BY <1>1, <2>1 DEF Shapes
  <2>2. CASE unacked' = [unacked EXCEPT ![e] = @ \cup Shown(c)] /\ handed' = handed
    BY <1>1, <2>2 DEF Shapes
  <2> QED  BY <1>4, <2>1, <2>2
<1>6. Alone(c)
  BY <1>1, <1>3 DEF Done, Alone, Shapes
<1>7. ASSUME NEW f \in Engines PROVE Basis(f) \subseteq Basis(f)'
  <2>1. ASSUME NEW d \in Calls, pc[d] = "persist", call[d].eng = f
        PROVE  \/ Shown(d) \subseteq handed'[f] \cup unacked'[f]
               \/ pc'[d] = "persist" /\ call'[d] = call[d] /\ part'[d] = part[d]
    <3>1. CASE d = c
      BY <1>2, <1>5, <2>1, <3>1
    <3>2. CASE d # c
      BY <1>6, <2>1, <3>2 DEF Alone
    <3> QED  BY <3>1, <3>2
  <2> QED  BY <1>5, <2>1, BasisGrows
<1> QED  BY <1>1, <1>3, <1>5, <1>7, DoneKeeps DEF Held

(* ... and a restart takes everything of its engine, and nothing else.     *)
LEMMA RestartKeeps ==
    ASSUME ServeConstants, ServeInv, NEW e \in Engines, Restart(e)
    PROVE  ServeInv'
<1> DEFINE mine == {c \in Calls : call[c] # None /\ call[c].eng = e}
<1>1. Shapes /\ FlightsDisjoint /\ \A c \in Calls : CallFormed(c)
  BY DEF ServeInv
<1>2. /\ pc' = [c \in Calls |-> IF c \in mine THEN "lost" ELSE pc[c]]
      /\ loaded' = [c \in Calls |-> IF c \in mine THEN None ELSE loaded[c]]
      /\ part' = [c \in Calls |-> IF c \in mine THEN NoRecords ELSE part[c]]
      /\ call' = [c \in Calls |-> IF c \in mine THEN None ELSE call[c]]
      /\ DOMAIN snap' = Calls
      /\ inFlight' = [inFlight EXCEPT ![e] = {}]
      /\ memory' = [memory EXCEPT ![e] = None]
      /\ handed' = [handed EXCEPT ![e] = {}] /\ unacked' = [unacked EXCEPT ![e] = {}]
  BY DEF Restart
<1>3. Shapes'
  BY <1>1, <1>2 DEF Shapes
<1>4. ASSUME NEW c \in Calls, c \in mine
      PROVE  pc'[c] = "lost" /\ loaded'[c] = None /\ part'[c] = NoRecords
  BY <1>2, <1>4
<1>5. ASSUME NEW c \in Calls, c \notin mine
      PROVE  /\ pc'[c] = pc[c] /\ loaded'[c] = loaded[c] /\ part'[c] = part[c]
             /\ call'[c] = call[c]
             /\ pc[c] \in Held => call[c].eng \in Engines \ {e}
  <2>1. pc'[c] = pc[c] /\ loaded'[c] = loaded[c] /\ part'[c] = part[c] /\ call'[c] = call[c]
    BY <1>2, <1>5
  <2>2. pc[c] \in Held => call[c].eng \in Engines \ {e}
    BY <1>1, <1>5 DEF CallFormed, ServeConstants
  <2> QED  BY <2>1, <2>2
<1>6. /\ memory'[e] = None
      /\ \A f \in Engines \ {e} : /\ memory'[f] = memory[f] /\ inFlight'[f] = inFlight[f]
                                  /\ handed'[f] = handed[f] /\ unacked'[f] = unacked[f]
  BY <1>1, <1>2 DEF Shapes
<1> HIDE DEF mine
<1>7. ASSUME NEW f \in Engines \ {e} PROVE Basis(f) \subseteq Basis(f)'
  <2>1. ASSUME NEW d \in Calls, pc[d] = "persist", call[d].eng = f
        PROVE  pc'[d] = "persist" /\ call'[d] = call[d] /\ part'[d] = part[d]
    BY <1>5, <2>1 DEF mine
  <2> QED  BY <1>6, <2>1, BasisGrows
<1>8. ASSUME NEW c \in Calls PROVE CallFormed(c)'
  <2>1. CASE c \in mine
    BY <1>4, <2>1 DEF CallFormed, Held
  <2>2. CASE c \notin mine
    BY <1>1, <1>5, <2>2 DEF CallFormed, IsMemory
  <2> QED  BY <2>1, <2>2
<1>9. ASSUME NEW f \in Engines PROVE MemoryRests(f)'
  <2>1. CASE f = e
    BY <1>6, <2>1 DEF MemoryRests
  <2>2. CASE f # e
    BY <1>6, <1>7, <2>2, MemoryKeeps
  <2> QED  BY <2>1, <2>2
<1>10. ASSUME NEW c \in Calls, NEW f \in Engines PROVE AnswerRests(c, f)' /\ LookupHolds(c, f)'
  <2>1. CASE pc'[c] \notin Held
    BY <2>1 DEF AnswerRests, LookupHolds
  <2>2. CASE pc'[c] \in Held
    <3>1. c \notin mine
      BY <1>4, <2>2 DEF Held
    <3>2. /\ pc'[c] = pc[c] /\ part'[c] = part[c] /\ call'[c] = call[c]
          /\ call[c].eng \in Engines \ {e}
      BY <1>5, <2>2, <3>1
    <3>3. CASE f = e
      BY <3>2, <3>3 DEF AnswerRests, LookupHolds
    <3>4. CASE f # e
      <4>1. Growth(f, {})
        BY <1>6, <3>4 DEF Growth
      <4> QED  BY <1>7, <3>2, <3>4, <4>1, OthersKeep
    <3> QED  BY <3>3, <3>4
  <2> QED  BY <2>1, <2>2
<1>11. FlightsDisjoint'
  <2>1. ASSUME NEW c \in Calls, pc'[c] \in Held
        PROVE  pc[c] \in Held /\ call'[c] = call[c] /\ call[c].eng \in Engines \ {e}
    BY <1>4, <1>5, <2>1 DEF Held
  <2>2. ASSUME NEW c \in Calls, pc'[c] \in Held
        PROVE  call'[c].keys \subseteq inFlight'[call'[c].eng]
    BY <1>1, <1>6, <2>1, <2>2 DEF FlightsDisjoint
  <2>3. ASSUME NEW c \in Calls, NEW d \in Calls, pc'[c] \in Held, d # c, pc'[d] \in Held,
               call'[d].eng = call'[c].eng
        PROVE  call'[d].keys \cap call'[c].keys = {}
    BY <1>1, <2>1, <2>3 DEF FlightsDisjoint
  <2> QED  BY <2>2, <2>3 DEF FlightsDisjoint
<1> QED  BY <1>3, <1>8, <1>9, <1>10, <1>11 DEF ServeInv

(* Files, blobs and stuttering are not in the invariant.                   *)
LEMMA RestKeeps ==
    ASSUME ServeInv,
           UNCHANGED <<memory, inFlight, pc, call, part, loaded, snap, handed, unacked>>
    PROVE  ServeInv'
<1>1. Shapes' /\ FlightsDisjoint'
  BY DEF ServeInv, Shapes, FlightsDisjoint
<1>2. \A c \in Calls : CallFormed(c)'
  BY DEF ServeInv, CallFormed, IsMemory
<1>3. \A e \in Engines : Basis(e) \subseteq Basis(e)'
  <2> SUFFICES ASSUME NEW e \in Engines PROVE Basis(e) \subseteq Basis(e)'
    OBVIOUS
  <2>1. \A d \in Calls : pc[d] = "persist" =>
          pc'[d] = "persist" /\ call'[d] = call[d] /\ part'[d] = part[d]
    OBVIOUS
  <2> QED  BY <2>1, BasisGrows
<1>4. \A e \in Engines : MemoryRests(e)'
  BY <1>3, MemoryKeeps
<1>5. ASSUME NEW c \in Calls, NEW e \in Engines PROVE AnswerRests(c, e)' /\ LookupHolds(c, e)'
  <2>1. Growth(e, {})
    BY DEF Growth
  <2> QED  BY <1>3, <2>1, OthersKeep
<1> QED  BY <1>1, <1>2, <1>4, <1>5 DEF ServeInv

-----------------------------------------------------------------------------
LEMMA InitInv ==
    ASSUME Init PROVE ServeInv
<1>1. Shapes
  BY DEF Init, Shapes
<1>2. \A c \in Calls : pc[c] = "idle" /\ part[c] = NoRecords /\ loaded[c] = None
  BY DEF Init
<1>3. \A e \in Engines : memory[e] = None
  BY DEF Init
<1>4. \A c \in Calls : CallFormed(c)
  BY <1>2 DEF CallFormed, Held
<1>5. \A e \in Engines : MemoryRests(e)
  BY <1>3 DEF MemoryRests
<1>6. \A c \in Calls, e \in Engines : AnswerRests(c, e) /\ LookupHolds(c, e)
  BY <1>2 DEF AnswerRests, LookupHolds, Held
<1>7. FlightsDisjoint
  BY <1>2 DEF FlightsDisjoint, Held
<1> QED  BY <1>1, <1>4, <1>5, <1>6, <1>7 DEF ServeInv

LEMMA NextKeeps ==
    ASSUME ServeConstants, ServeInv, [Next]_vars PROVE ServeInv'
<1>1. CASE \E c \in Calls, req \in Requests : Start(c, req)
  BY <1>1, StartKeeps
<1>2. ASSUME NEW c \in Calls, Step(c) PROVE ServeInv'
  BY <1>2, ClaimKeeps, ColdLoadKeeps, ReadOnePathKeeps, StoreReadKeeps, RunSearchKeeps,
     SearchLookupKeeps, SessionApplyKeeps, WriteBackKeeps DEF Step
<1>3. ASSUME NEW c \in Calls, PersistFails(c) PROVE ServeInv'
  BY <1>3, WriteBackKeeps
<1>4. ASSUME NEW e \in Engines, Restart(e) PROVE ServeInv'
  BY <1>4, RestartKeeps
<1>5. CASE \/ \E k \in Keys, v \in Contents \cup {None} : Edit(k, v)
           \/ \E v \in Contents : Prune(v)
           \/ UNCHANGED vars
  BY <1>5, RestKeeps DEF Edit, Prune, vars
<1> QED  BY <1>1, <1>2, <1>3, <1>4, <1>5 DEF Next

(* Whatever calls, engines and files do: a session memory holds nothing    *)
(* but what was restored or what its caller has, the calls in flight of an *)
(* engine own disjoint keys, and what a call looked up under its key stays *)
(* there until the call records (engine_session.rs begin_serve_flight and  *)
(* session_apply, session.rs lookup).                                      *)
THEOREM ServeInvariant ==
    ASSUME ServeConstants PROVE Spec => []ServeInv
<1>1. Init => ServeInv
  BY InitInv
<1>2. ServeInv /\ [Next]_vars => ServeInv'
  BY NextKeeps
<1> QED  BY <1>1, <1>2, PTL DEF Spec

(* A note or a diff in place of the bytes (render.rs, engine_read.rs) only *)
(* ever rests on bytes this engine process delivered, is delivering,       *)
(* restored, or recorded for a call whose write-back failed.               *)
THEOREM NotesAreBacked ==
    ASSUME ServeConstants PROVE Spec => [][SubstitutionsBacked]_vars
<1>1. ASSUME ServeInv PROVE SubstitutionsBacked
  <2> SUFFICES ASSUME NEW c \in Calls, pc[c] = "persist", NEW k \in DOMAIN part[c]
               PROVE  Rests(c, k, handed[call[c].eng] \cup Underway(call[c].eng)
                                    \cup unacked[call[c].eng])
    BY DEF SubstitutionsBacked
  <2>1. PICK e \in Engines : e = call[c].eng
    BY <1>1 DEF ServeInv, CallFormed, Held, ServeConstants
  <2>2. Backed(part[c][k], e) /\ memory[e] # None
    BY <1>1, <2>1 DEF ServeInv, AnswerRests, Held
  <2>3. Session(c) = memory[e]
    BY <2>1, <2>2 DEF Session
  <2> QED  BY <2>1, <2>2, <2>3 DEF Rests, Backed, Basis
<1>2. ServeInv => [SubstitutionsBacked]_vars
  BY <1>1
<1> QED  BY <1>2, ServeInvariant, PTL

(* The lookup a call made holds until it records (engine_session.rs        *)
(* begin_serve_flight keeps other calls off its keys): bytes the engine    *)
(* already has under the key are never sent in full again.                 *)
THEOREM LookupsStayTrue ==
    ASSUME ServeConstants PROVE Spec => [][LookupStillTrue]_vars
<1>1. ASSUME ServeInv PROVE LookupStillTrue
  <2> SUFFICES ASSUME NEW c \in Calls, pc[c] = "apply", NEW k \in DOMAIN part[c],
                      part[c][k].pend, call[c].opt = "normal", part[c][k].text \in Long,
                      k \in DOMAIN Session(c).recs, Session(c).recs[k] = part[c][k].text
               PROVE  part[c][k].out = "note"
    BY DEF LookupStillTrue
  <2>1. PICK e \in Engines : e = call[c].eng
    BY <1>1 DEF ServeInv, CallFormed, Held, ServeConstants
  <2>2. Backed(part[c][k], e) /\ Fresh(c, k, e)
    BY <1>1, <2>1 DEF ServeInv, AnswerRests, LookupHolds, Held
  <2>3. Session(c) = memory[e]
    BY <2>1, <2>2 DEF Session, Backed
  <2> QED  BY <2>2, <2>3 DEF Fresh
<1>2. ServeInv => [LookupStillTrue]_vars
  BY <1>1
<1> QED  BY <1>2, ServeInvariant, PTL
=============================================================================
