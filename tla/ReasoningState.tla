--------------------------- MODULE ReasoningState ---------------------------
(***************************************************************************)
(* Provider-native reasoning state carried between turns                   *)
(* (core/src/reasoning_state.rs): opaque bytes are captured with the       *)
(* execution they belong to, replayed only into that same execution,       *)
(* and assessed for a receipt next to a raw decision view that can always  *)
(* be fallen back to.  A digest is modelled by the bytes it is taken of.   *)
(***************************************************************************)
EXTENDS Naturals, Sequences, FiniteSets

CONSTANTS Bindings,      \* records [policy, session, tokenizer, tools, sampler, sampled]
          Bytes,         \* opaque provider bytes
          Views,         \* raw decision views: records [tokenizer, tools, body]
          Expiries,      \* valid_until_unix_ms values, None and 0 among them
          None, Zero,    \* an absent option, the zero digest
          MaxHeld, LastTick, MaxPayloadLen, Capacity, Reserve

VARIABLES clockNow,      \* now_unix_ms of the next call
          held,          \* envelopes and terminal references, in capture order
          raw,           \* RawDecisionViewRecoveryEnvelope of the turn
          given          \* what the last call returned

reasonVars == <<clockNow, held, raw, given>>

Nothing == [what |-> "nothing"]

Payload == {"exact", "scoped_certificate", "approximate"}
Terminal == {"unavailable", "expired", "rejected", "identity_mismatch"}
carries_payload(status) == status \in Payload

-----------------------------------------------------------------------------
(* Construction *)

BindingValid(b) == (b.sampled => b.sampler # None) /\ b.sampler # Zero /\ b.session # Zero

OrderValid(order) ==
  /\ order.seq = 0 => order.parent = None
  /\ order.seq > 0 => order.parent # None
  /\ order.parent # Zero

validate_native_state_policy(policy, status) ==
  <<policy, status>> \in {<<"exact_required", "exact">>, <<"exact_if_available", "exact">>,
    <<"exact_if_available", "approximate">>, <<"scoped_certificate", "scoped_certificate">>}
validate_certificate(status, certificate) ==
  IF status = "scoped_certificate" THEN certificate \notin {None, Zero} ELSE certificate = None
validate_expiry(expiry) == expiry # 0

capture(status, b, order, certificate, expiry, bytes) ==
  IF /\ carries_payload(status) /\ bytes # <<>> /\ Len(bytes) <= MaxPayloadLen
     /\ validate_certificate(status, certificate)
     /\ validate_native_state_policy(b.policy, status)
     /\ validate_expiry(expiry)
  THEN {[status |-> status, binding |-> b, order |-> order, content |-> bytes,
         certificate |-> certificate, expiry |-> expiry, opaque |-> bytes]}
  ELSE {}

(* rejected, expired, identity_mismatch and unavailable: references that    *)
(* carry no bytes.                                                          *)
terminal_ref(status, b, order, content, expiry) ==
  IF content = Zero \/ ~validate_expiry(expiry) THEN {}
  ELSE {[status |-> status, binding |-> b, order |-> order, content |-> content,
         certificate |-> None, expiry |-> expiry, opaque |-> <<>>]}
unavailable(b) ==
  [status |-> "unavailable", binding |-> b, order |-> [seq |-> 0, parent |-> None], content |-> Zero,
   certificate |-> None, expiry |-> None, opaque |-> <<>>]

-----------------------------------------------------------------------------
(* Use *)

Past(expiry, t) == expiry # None /\ t >= expiry

(* Mutant: the state is still replayed at the instant it expires. *)
LastInstantReplays(e, b, order, t) ==
  IF /\ e.status = "exact" /\ validate_native_state_policy(e.binding.policy, e.status)
     /\ e.binding = b /\ e.order = order
     /\ ~(e.expiry # None /\ t > e.expiry) /\ e.opaque = e.content
  THEN {e.opaque} ELSE {}

exact_replay_bytes(e, b, order, t) ==
  IF /\ e.status = "exact" /\ validate_native_state_policy(e.binding.policy, e.status)
     /\ e.binding = b /\ e.order = order
     /\ ~Past(e.expiry, t) /\ e.opaque = e.content
  THEN {e.opaque} ELSE {}

NoEvidence == [kind |-> "none", certificate |-> None, expiry |-> None]
scoped(certificate) == [kind |-> "scoped", certificate |-> certificate, expiry |-> None]
empirical(expiry) == [kind |-> "empirical", certificate |-> None, expiry |-> expiry]

validate_continuation_evidence_for_state(r, ev) ==
  /\ ev.certificate # Zero /\ (ev.kind = "empirical" => ev.expiry # 0)
  /\ \/ ev.kind = "none"
     \/ ev.kind = "empirical" /\ r.status = "approximate"
     \/ ev.kind = "scoped" /\ r.status = "scoped_certificate" /\ r.certificate = ev.certificate

Unavailable(reason) == [class |-> "unavailable", reason |-> reason]
Held(class, r) == [class |-> class, reason |-> None, content |-> r.content]

ClassOf(r, ev, t) ==
  CASE Past(r.expiry, t) -> Unavailable("state_expired")
    [] r.status = "exact" -> Held("exact_neutral", r)
    [] r.status = "scoped_certificate" ->
         IF ev.kind = "scoped" THEN Held("scoped_certificate", r) ELSE Unavailable("scoped_evidence_absent")
    [] r.status = "approximate" ->
         IF ev.kind = "none" THEN Unavailable("empirical_evidence_absent")
         ELSE IF Past(ev.expiry, t) THEN Unavailable("empirical_evidence_expired")
         ELSE Held("empirical", r)
    [] OTHER -> Unavailable(r.status)

(* assess: no assessment where evidence, tokenizer or tools do not fit.     *)
assess(r, ev, view, t) ==
  IF /\ validate_continuation_evidence_for_state(r, ev)
     /\ r.binding.tokenizer = view.tokenizer /\ r.binding.tools = view.tools
  THEN {ClassOf(r, ev, t)} ELSE {}

(* The recovery envelope binds identities the caller brings to the bytes.   *)
RawEnvelope(view, safepoint) == [view |-> view, safepoint |-> safepoint, bytes |-> view.body]
exact_raw_decision_view_bytes(e, view, safepoint) ==
  IF e.view = view /\ e.safepoint = safepoint /\ e.bytes = e.view.body THEN {e.bytes} ELSE {}

(* DecisionViewHeadroomPlan::plan: what is left of the window below the     *)
(* reserves; no plan when the view does not fit.                            *)
admitted_input_ceiling == Capacity - Reserve
plan(b, view) ==
  IF /\ b.tokenizer = view.tokenizer /\ b.tools = view.tools /\ Reserve <= Capacity
     /\ Len(view.body) <= admitted_input_ceiling
  THEN {admitted_input_ceiling - Len(view.body)} ELSE {}

-----------------------------------------------------------------------------
Init ==
  /\ clockNow = 1 /\ held = <<>> /\ given = Nothing
  /\ raw \in {RawEnvelope(v, "s1") : v \in Views}

Parent == IF held = <<>> THEN None ELSE held[Len(held)].content
Orders == {o \in [seq : {Len(held)}, parent : {None, Zero, Parent}] : OrderValid(o)}

Capture ==
  /\ Len(held) < MaxHeld
  /\ \E b \in Bindings, status \in Payload \cup {"rejected"}, o \in Orders, x \in Expiries, y \in Bytes,
        c \in {None, Zero, "c1"} :
       /\ BindingValid(b)
       /\ \E e \in capture(status, b, o, c, x, y) : held' = Append(held, e)
  /\ UNCHANGED <<clockNow, raw, given>>

TurnLost ==
  /\ Len(held) < MaxHeld
  /\ \E b \in Bindings, o \in Orders, x \in Expiries \ {None}, y \in {<<1>>, Zero} :
       /\ BindingValid(b)
       /\ \/ held' = Append(held, unavailable(b))
          \/ \E e \in terminal_ref("expired", b, o, y, x) \cup terminal_ref("rejected", b, o, y, None)
                        \cup terminal_ref("identity_mismatch", b, o, y, None) : held' = Append(held, e)
  /\ UNCHANGED <<clockNow, raw, given>>

Tick == clockNow < LastTick /\ clockNow' = clockNow + 1 /\ UNCHANGED <<held, raw, given>>

Replay(i) ==
  /\ \E b \in Bindings, o \in {held[i].order, [seq |-> i, parent |-> held[i].content]} :
       \E bytes \in exact_replay_bytes(held[i], b, o, clockNow) :
         given' = [what |-> "replay", bytes |-> bytes, binding |-> b, order |-> o, at |-> clockNow]
  /\ UNCHANGED <<clockNow, held, raw>>

Assess(i) ==
  /\ \E ev \in {NoEvidence, scoped("c1"), scoped("c2")} \cup {empirical(x) : x \in Expiries} :
       \E class \in assess(held[i], ev, raw.view, clockNow) :
         given' = [what |-> "assessment", class |-> class, at |-> clockNow]
  /\ UNCHANGED <<clockNow, held, raw>>

(* The caller names the view of this turn; the envelope may be an older one.*)
Recover ==
  /\ \E v \in Views, s \in {"s1", "s2"} : \E bytes \in exact_raw_decision_view_bytes(raw, v, s) :
       given' = [what |-> "raw", bytes |-> bytes, view |-> v]
  /\ UNCHANGED <<clockNow, held, raw>>

Plan ==
  /\ \E b \in Bindings : \E left \in plan(b, raw.view) : given' = [what |-> "plan", left |-> left]
  /\ UNCHANGED <<clockNow, held, raw>>

Next == Capture \/ TurnLost \/ Tick \/ Recover \/ Plan \/ \E i \in DOMAIN held : Replay(i) \/ Assess(i)

Spec == Init /\ [][Next]_reasonVars

-----------------------------------------------------------------------------
(* A receipt calls a state exactly continuable when, at that same instant,  *)
(* the bytes can be replayed into the execution they were captured in, and  *)
(* only then; no other execution or position in the lineage ever gets them. *)
ReplayMatchesAssessment == \A i \in DOMAIN held :
  /\ \A v \in Views : \A class \in assess(held[i], NoEvidence, v, clockNow) :
       (class.class = "exact_neutral")
         <=> exact_replay_bytes(held[i], held[i].binding, held[i].order, clockNow) = {held[i].content}
  /\ \A b \in Bindings \ {held[i].binding} : exact_replay_bytes(held[i], b, held[i].order, clockNow) = {}
=============================================================================
