------------------------------ MODULE ExpandOp ------------------------------
(***************************************************************************)
(* The engine's expand operation: a store checked out of a shared slot (or *)
(* loaded when another call holds it), reload from disk on a miss, the     *)
(* legacy sibling store, `since` diffs, secret masking and the raw cap, the *)
(* record of the serve, and the health gate its outcome drives.            *)
(***************************************************************************)
EXTENDS Integers, FiniteSets

CONSTANTS Calls,        \* concurrent calls of one engine
          Refs,         \* content-addressed refs
          MaskOf,       \* ref -> ref of its body with credentials masked
          BigRefs,      \* bodies over EXPAND_RAW_MAX_BYTES
          Requests,     \* what callers ask: op, ref, since, raw
          MaxRequests,  \* calls started (bound)
          MaxEvictions, \* refs other processes remove (bound)
          NoRef

VARIABLES slot,       \* the long-lived store, or out on loan
          disk,       \* refs of the cache file and its journals
          oldStore,   \* refs of the legacy sibling file: whole or dangling
          lease,      \* call -> the store it works on
          request,    \* call -> what it was asked
          answered,   \* call -> its last response
          serves,     \* refs recorded as served, for later deltas
          replays,    \* re-expansions of refs the session was shown
          health,     \* consecutive failures and whether the window is open
          truth,      \* what the last counted outcome really was
          asked, evictions

expandVars == <<slot, disk, oldStore, lease, request, answered, serves, replays,
                health, truth, asked, evictions>>

Out == [held |-> {}, unsaved |-> {}, lent |-> TRUE]
Store(held, unsaved) == [held |-> held, unsaved |-> unsaved, lent |-> FALSE]
NoRequest == [op |-> "none", ref |-> NoRef, since |-> NoRef, raw |-> FALSE]
NoAnswer == [code |-> "none", ref |-> NoRef, shown |-> NoRef, exact |-> FALSE,
             available |-> FALSE]

TypeOK ==
  /\ disk \subseteq Refs /\ serves \subseteq Refs
  /\ slot.held \subseteq Refs /\ slot.unsaved \subseteq slot.held
  /\ \A c \in Calls : lease[c].unsaved \subseteq lease[c].held
  /\ health \in [failures : 0..MaxRequests, recent : BOOLEAN]

Init ==
  /\ slot = Store({}, {})
  /\ disk = {}
  /\ oldStore \in {[whole |-> {}, dangling |-> {}]}
       \cup {[whole |-> {r}, dangling |-> {}] : r \in Refs}
       \cup {[whole |-> {}, dangling |-> {r}] : r \in Refs}
  /\ lease = [c \in Calls |-> Out]
  /\ request = [c \in Calls |-> NoRequest]
  /\ answered = [c \in Calls |-> NoAnswer]
  /\ serves = {}
  /\ replays = [r \in Refs |-> 0]
  /\ health = [failures |-> 0, recent |-> FALSE]
  /\ truth = "none"
  /\ asked = 0 /\ evictions = 0

(***************************************************************************)
(* Taking and returning the store                                          *)
(***************************************************************************)
expand_serve_key(q) == <<q.ref, q.since>>
InFlight(q) == \E c \in Calls : /\ request[c].op = "expand"
                                /\ expand_serve_key(request[c]) = expand_serve_key(q)

\* The slot is taken, or a store is loaded from disk when it is on loan;
\* calls with the same key wait for each other.
recovery_store(c, q) ==
  /\ request[c] = NoRequest /\ asked < MaxRequests
  /\ q.op = "expand" => ~InFlight(q)
  /\ asked' = asked + 1
  /\ request' = [request EXCEPT ![c] = q]
  /\ IF slot.lent THEN /\ lease' = [lease EXCEPT ![c] = Store(disk, {})]
                       /\ UNCHANGED slot
     ELSE /\ lease' = [lease EXCEPT ![c] = slot]
          /\ slot' = Out
  /\ UNCHANGED <<disk, oldStore, answered, serves, replays, health, truth, evictions>>

\* Drop of the lease: only an empty slot takes the store back.
PutBack(store) == slot' = IF slot.lent THEN store ELSE slot

(***************************************************************************)
(* The health gate                                                         *)
(***************************************************************************)
StoreFailures == {"expand_failed", "ref_not_found", "ref_stale", "store_mismatch"}
ClientFailures == {"invalid_ref", "hard_max_wall_ms", "expand_raw_cap_exceeded",
                   "session_persist_failed", "dangling_ref"}

\* mutant: every error code counts against the surface
CountEveryError(code) ==
  health' = IF code = "ok" THEN [health EXCEPT !.failures = 0]
            ELSE [failures |-> health.failures + 1, recent |-> TRUE]

\* record_expand_outcome: success clears the count, a store failure opens the
\* window, a client's mistake changes nothing.
record_expand_outcome(code) ==
  health' = IF code = "ok" THEN [health EXCEPT !.failures = 0]
            ELSE IF code \in StoreFailures
                 THEN [failures |-> health.failures + 1, recent |-> TRUE]
                 ELSE health

\* is_unhealthy with the default threshold of one failure.
recovery_unlocked == health.failures >= 1 /\ health.recent

\* decide_static on the CodeMode surface, and the strict gate of tools/call.
decide_static(class) ==
  IF class = "primary" THEN "not_gated"
  ELSE IF class = "locked" THEN "permanently_locked"
  ELSE IF recovery_unlocked THEN "unlocked" ELSE "blocked"
gate_tools_call(class, mode) ==
  IF mode = "strict" /\ class # "primary" THEN "unknown_tool" ELSE decide_static(class)

WindowCloses ==
  /\ health.recent
  /\ health' = [health EXCEPT !.recent = FALSE]
  /\ UNCHANGED <<slot, disk, oldStore, lease, request, answered, serves, replays,
                 truth, asked, evictions>>

\* record_read_outcome: a read through the engine that worked closes the gate.
ReadSucceeds ==
  /\ asked < MaxRequests /\ asked' = asked + 1
  /\ record_expand_outcome("ok") /\ truth' = "ok"
  /\ UNCHANGED <<slot, disk, oldStore, lease, request, answered, serves, replays, evictions>>

(***************************************************************************)
(* Resolving a ref                                                         *)
(***************************************************************************)
\* mutant: the loaned store is believed without a look at the disk
NeverReload(store, r) == store

\* A local miss loads the cache again; what the disk has replaces the store.
expand_with_reload_on_miss(store, r) ==
  IF r \notin store.held /\ r \in disk THEN Store(disk, {}) ELSE store

legacy_sibling_holding_ref(r) == r \in oldStore.whole \cup oldStore.dangling

\* resolve_slice: own store, disk, sibling; the code of a miss.
resolve_slice(store, r) ==
  LET reloaded == expand_with_reload_on_miss(store, r)
  IN [store |-> reloaded,
      code |-> IF r \in reloaded.held \/ r \in oldStore.whole THEN "ok"
               ELSE IF legacy_sibling_holding_ref(r) THEN "store_mismatch"
               ELSE "ref_not_found"]

Available(store, r, withSibling) ==
  r \in store.held \cup disk \/ (withSibling /\ r \in oldStore.whole)

mask_expansion_secrets(r) == MaskOf[r]

\* A call ends: the lease goes back, the gate learns the outcome, a success
\* on a ref the session already held counts as a replay.
Finish(c, store, answer, shownRef) ==
  /\ PutBack(store)
  /\ lease' = [lease EXCEPT ![c] = Out]
  /\ request' = [request EXCEPT ![c] = NoRequest]
  /\ answered' = [answered EXCEPT ![c] = answer]
  /\ record_expand_outcome(answer.code)
  /\ truth' = IF answer.code = "ok" THEN "ok"
              ELSE IF answer.code \in ClientFailures THEN truth
              ELSE IF answer.available THEN "mistaken" ELSE "store"
  /\ replays' = IF answer.code = "ok" /\ shownRef \in serves /\ replays[shownRef] < 1
                THEN [replays EXCEPT ![shownRef] = @ + 1] ELSE replays

Failure(c, store, code, available) ==
  /\ Finish(c, store, [code |-> code, ref |-> request[c].ref, shown |-> NoRef,
                       exact |-> FALSE, available |-> available], NoRef)
  /\ UNCHANGED <<disk, oldStore, serves, asked, evictions>>

\* pending_expand_record and session_apply: the shown body is stored and
\* persisted before the serve is recorded. A failed persist leaves it in the
\* store only and records nothing; a failed session write fails the call.
RecordServe(c, store, shown, answer) ==
  \/ /\ disk' = disk \cup store.unsaved \cup {shown}
     /\ \/ /\ serves' = serves \cup {shown}
           /\ Finish(c, Store(store.held \cup {shown}, {}), answer, answer.ref)
        \/ /\ UNCHANGED serves
           /\ Finish(c, Store(store.held \cup {shown}, {}),
                     [answer EXCEPT !.code = "session_persist_failed", !.shown = NoRef,
                                    !.exact = FALSE], NoRef)
  \/ /\ Finish(c, Store(store.held \cup {shown}, store.unsaved \cup {shown}),
               answer, answer.ref)
     /\ UNCHANGED <<disk, serves>>

\* Early returns: the wall deadline, a ref of no known scheme.
Refuse(c) ==
  /\ request[c].op = "expand"
  /\ \E code \in {"hard_max_wall_ms", "invalid_ref"} : Failure(c, lease[c], code, FALSE)

\* expand_with_params_inner without `since`.
Expand(c) ==
  LET r == request[c].ref
      got == resolve_slice(lease[c], r)
      shown == IF request[c].raw THEN r ELSE mask_expansion_secrets(r)
  IN /\ request[c].op = "expand" /\ request[c].since = NoRef
     /\ IF got.code # "ok"
        THEN Failure(c, got.store, got.code, Available(lease[c], r, TRUE))
        ELSE IF request[c].raw /\ r \in BigRefs
        THEN Failure(c, got.store, "expand_raw_cap_exceeded", TRUE)
        ELSE /\ RecordServe(c, got.store, shown,
                  [code |-> "ok", ref |-> r, shown |-> shown,
                   exact |-> request[c].raw \/ shown = r, available |-> TRUE])
             /\ UNCHANGED <<oldStore, asked, evictions>>

\* expand_since_diff: the base must be in the active store; the diff is
\* never claimed exact, and the target's body is what is recorded.
ExpandSince(c) ==
  LET b == request[c].since
      r == request[c].ref
      base == expand_with_reload_on_miss(lease[c], b)
      got == resolve_slice(base, r)
  IN /\ request[c].op = "expand" /\ request[c].since # NoRef
     /\ IF b \notin base.held
        THEN Failure(c, base, "expand_failed", Available(lease[c], b, FALSE))
        ELSE IF got.code # "ok"
        THEN Failure(c, got.store, got.code, Available(base, r, TRUE))
        ELSE /\ RecordServe(c, got.store, r,
                  [code |-> "ok", ref |-> r, shown |-> NoRef, exact |-> FALSE,
                   available |-> TRUE])
             /\ UNCHANGED <<oldStore, asked, evictions>>

(***************************************************************************)
(* Other traffic on the same stores                                        *)
(***************************************************************************)
\* An operation of this engine stores a body and hands its ref out only if
\* it persisted (persist_refs).
StoreBody(c) ==
  LET r == request[c].ref
      kept == lease[c].held \cup {r}
  IN /\ request[c].op = "store"
     /\ \/ /\ disk' = disk \cup lease[c].unsaved \cup {r}
           /\ PutBack(Store(kept, {}))
        \/ /\ UNCHANGED disk
           /\ PutBack(Store(kept, lease[c].unsaved \cup {r}))
     /\ lease' = [lease EXCEPT ![c] = Out]
     /\ request' = [request EXCEPT ![c] = NoRequest]
     /\ UNCHANGED <<oldStore, answered, serves, replays, health, truth, asked, evictions>>

\* Another process stores a body, or drops one.
OtherPersists(r) ==
  /\ asked < MaxRequests /\ asked' = asked + 1
  /\ r \notin disk /\ disk' = disk \cup {r}
  /\ UNCHANGED <<slot, oldStore, lease, request, answered, serves, replays, health, truth,
                 evictions>>
OtherEvicts(r) ==
  /\ evictions < MaxEvictions /\ evictions' = evictions + 1
  /\ r \in disk /\ disk' = disk \ {r}
  /\ UNCHANGED <<slot, oldStore, lease, request, answered, serves, replays, health, truth, asked>>

Next ==
  \/ \E c \in Calls : \/ \E q \in Requests : recovery_store(c, q)
                      \/ Refuse(c) \/ Expand(c) \/ ExpandSince(c) \/ StoreBody(c)
  \/ \E r \in Refs : OtherPersists(r) \/ OtherEvicts(r)
  \/ WindowCloses \/ ReadSucceeds

Spec == Init /\ [][Next]_expandVars

\* A miss is never the fault of a stale loaned store: when expand says that a
\* ref is gone, it was in no store it may use at that moment. And what it
\* calls exact is the stored body, never a masked one. (resolve_slice,
\* expand_with_reload_on_miss, RecoveryReceipt.exact_bytes.)
MissesAreReal ==
  \A c \in Calls :
    /\ answered[c].code \in StoreFailures => ~answered[c].available
    /\ answered[c].exact => answered[c].shown = answered[c].ref

\* The recovery gate of the CodeMode surface is open only while the last
\* outcome that says anything about the store was a real loss: a client's
\* mistake never opens it, a success closes it, and shell or edit tools stay
\* locked whatever the health. (SurfaceHealth.)
GateFollowsStore ==
  /\ recovery_unlocked => truth = "store"
  /\ \A m \in {"strict", "health_only"} : gate_tools_call("locked", m) # "unlocked"
  /\ gate_tools_call("recovery", "strict") = "unknown_tool"
  /\ decide_static("recovery") = "unlocked" <=> recovery_unlocked
=============================================================================
