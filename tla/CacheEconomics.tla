--------------------------- MODULE CacheEconomics ---------------------------
(***************************************************************************)
(* The decisions about paying for a provider's prompt cache                *)
(* (engine/src/warmkeeper.rs, eviction_scheduler.rs, cache_crossover.rs,   *)
(* admission.rs): when to touch a lane, which message spans to evict and   *)
(* until when, whether to cache, compress or inline a content, and whether *)
(* a payload becomes a reference.  Requests arrive over time; the gaps     *)
(* between them feed the eviction schedule, and savings are booked by      *)
(* event.  Money is in whole units per token.                              *)
(***************************************************************************)
EXTENDS Integers, Sequences, FiniteSets, FiniteSetsExt, SequencesExt

CONSTANTS Lanes,         \* function: lane -> [tier, ttl, tokens, reads, input, read, write]
          Candidates,    \* function: span -> [tier, tokens, rewrite, requests, savings]
          Breakpoints,   \* provider_breakpoints: sequence of [ttl, minimum]
          Contents,      \* CacheCrossoverInput records
          Scale,         \* TOKEN_COST_PPM_SCALE
          BytesPerToken, Threshold,
          LastSecond, MaxGaps

VARIABLES second,        \* now_seconds
          lastTouch,     \* per lane, second of the last touch, or -1
          touches,       \* seconds at which each lane was touched
          lastRequest,   \* second of the last request, or -1
          gaps,          \* measured inter-request gaps, newest first
          evicted,       \* spans evicted, with the second their cache window ends
          booked         \* EvictionSavingsLedger: [ids, total, calls]

econVars == <<second, lastTouch, touches, lastRequest, gaps, evicted, booked>>

SaturatingSub(a, b) == IF a > b THEN a - b ELSE 0
NonNegative(x) == IF x > 0 THEN x ELSE 0

-----------------------------------------------------------------------------
(* warmkeeper.rs *)

read_savings(lane) == lane.tokens * NonNegative(lane.input - lane.read)
write_premium(lane) == lane.tokens * lane.write
next_touch_at_seconds(l, t) == IF lastTouch[l] = -1 THEN t ELSE lastTouch[l] + Lanes[l].ttl
resume_rewarm_kind(gap, ttl) == IF ttl = 0 \/ gap >= ttl THEN "full_rewrite" ELSE "keepalive_touch"

WarmDecision(l, t) ==
  CASE Lanes[l].tier = "self_hosted" -> "compatibility_only"
    [] t < next_touch_at_seconds(l, t) -> "not_due"
    [] Lanes[l].reads * read_savings(Lanes[l]) <= write_premium(Lanes[l]) -> "negative_expected_value"
    [] OTHER -> "touch"

(* simulate_warmkeeper: billed for one window, with the reads expected.     *)
NoWarmBill(lane) == lane.reads * lane.tokens * lane.input
WarmBill(lane) == write_premium(lane) + lane.reads * lane.tokens * lane.read
simulate_warmkeeper(l) == IF WarmDecision(l, second) = "touch" THEN WarmBill(Lanes[l]) ELSE NoWarmBill(Lanes[l])

-----------------------------------------------------------------------------
(* eviction_scheduler.rs *)

Elapsed(measured, n) == FoldLeft(LAMBDA a, b : a + b, 0, SubSeq(measured, 1, n))
Retained(measured, ttl) == 1 + Cardinality({n \in DOMAIN measured : Elapsed(measured, n) <= ttl})

ttl_from_gaps(measured) ==
  LET viable == {i \in DOMAIN Breakpoints : Retained(measured, Breakpoints[i].ttl) >= Breakpoints[i].minimum}
  IN IF viable = {} THEN {} ELSE {Breakpoints[Min(viable)]}

(* Mutant: a span is evicted when it breaks even. *)
BreakEvenEvicts(c, window) ==
  CASE c.tier # "messages" -> "preserve_protected_tier"
    [] window = {} -> "preserve_no_viable_ttl"
    [] c.requests * c.savings < c.rewrite -> "preserve_negative_expected_value"
    [] OTHER -> "evict"

EvictionDecision(c, window) ==
  CASE c.tier # "messages" -> "preserve_protected_tier"
    [] window = {} -> "preserve_no_viable_ttl"
    [] c.requests * c.savings <= c.rewrite -> "preserve_negative_expected_value"
    [] OTHER -> "evict"

schedule_evictions(measured, t) ==
  {[span |-> s, at |-> t + b.ttl] : s \in {x \in DOMAIN Candidates :
      EvictionDecision(Candidates[x], ttl_from_gaps(measured)) = "evict"}, b \in ttl_from_gaps(measured)}

NaiveBill(c) == c.requests * c.tokens
ScheduledBill(c, measured) ==
  IF EvictionDecision(c, ttl_from_gaps(measured)) = "evict"
  THEN c.rewrite + c.requests * SaturatingSub(c.tokens, c.savings)
  ELSE NaiveBill(c)
simulate_eviction_replay(measured) == [s \in DOMAIN Candidates |-> ScheduledBill(Candidates[s], measured)]

-----------------------------------------------------------------------------
(* cache_crossover.rs *)

validate_input(i) ==
  /\ i.original > 0 /\ i.multiplier \in 1..Scale /\ i.floor > 0
  /\ i.suffix <= i.original /\ i.horizon > 0

Projected(i) ==
  [inline |-> i.overhead * Scale + i.horizon * i.original * Scale,
   compress |-> i.overhead * Scale + i.compaction * Scale + i.horizon * i.compressed * Scale,
   cache |-> i.overhead * Scale + i.horizon * (i.suffix * Scale + (i.original - i.suffix) * i.multiplier)]

cache_eligible(i) == i.class = "stable" /\ i.original - i.suffix >= i.floor
smaller_inline_action(p) == IF p.compress < p.inline THEN "compress" ELSE "inline"

decide_cache_crossover(i) ==
  CASE ~i.admitted /\ cache_eligible(i) -> "cache"
    [] ~i.admitted -> "inline"
    [] ~cache_eligible(i) -> smaller_inline_action(Projected(i))
    [] Projected(i).compress < Projected(i).cache -> "compress"
    [] OTHER -> "cache"

-----------------------------------------------------------------------------
(* admission.rs *)

decide_threshold(bytes) == bytes > Threshold
decide_horizon_cost(bytes, pMilli, horizon, cost) ==
  /\ horizon # 0 /\ pMilli < 1000
  /\ cost * 1000 < (1000 - pMilli) * horizon * (bytes \div BytesPerToken)

-----------------------------------------------------------------------------
Init ==
  /\ second = 0
  /\ lastTouch = [l \in DOMAIN Lanes |-> -1] /\ touches = [l \in DOMAIN Lanes |-> {}]
  /\ lastRequest = -1 /\ gaps = <<>> /\ evicted = {}
  /\ booked = [ids |-> {}, total |-> 0, calls |-> 0]

Tick == second < LastSecond /\ second' = second + 1
        /\ UNCHANGED <<lastTouch, touches, lastRequest, gaps, evicted, booked>>

(* schedule_rewarms: the lanes that are due and worth it are touched.       *)
schedule_rewarms ==
  \E due \in {{l \in DOMAIN Lanes : WarmDecision(l, second) = "touch"}} :
    /\ due # {}
    /\ lastTouch' = [l \in DOMAIN Lanes |-> IF l \in due THEN second ELSE lastTouch[l]]
    /\ touches' = [l \in DOMAIN Lanes |-> IF l \in due THEN touches[l] \cup {second} ELSE touches[l]]
    /\ UNCHANGED <<second, lastRequest, gaps, evicted, booked>>

(* A request arrives; its gap to the one before is measured.                *)
Request ==
  /\ lastRequest # second /\ Len(gaps) < MaxGaps
  /\ gaps' = IF lastRequest = -1 THEN gaps ELSE <<second - lastRequest>> \o gaps
  /\ lastRequest' = second
  /\ UNCHANGED <<second, lastTouch, touches, evicted, booked>>

Evict ==
  /\ evicted = {} /\ schedule_evictions(gaps, second) # {}
  /\ evicted' = schedule_evictions(gaps, second)
  /\ UNCHANGED <<second, lastTouch, touches, lastRequest, gaps, booked>>

Saved(s) == SaturatingSub(NaiveBill(Candidates[s]), ScheduledBill(Candidates[s], gaps))

(* Mutant: a retried event is booked again. *)
RecordEveryTime(e) ==
  booked' = [ids |-> booked.ids \cup {e.span}, total |-> booked.total + Saved(e.span), calls |-> booked.calls + 1]

record_once(e) ==
  booked' = IF e.span \in booked.ids THEN [booked EXCEPT !.calls = @ + 1]
            ELSE [ids |-> booked.ids \cup {e.span}, total |-> booked.total + Saved(e.span), calls |-> booked.calls + 1]

(* The savings of an eviction are reported, possibly more than once.        *)
Book(e) ==
  /\ booked.calls < 3 /\ record_once(e)
  /\ UNCHANGED <<second, lastTouch, touches, lastRequest, gaps, evicted>>

Next == Tick \/ schedule_rewarms \/ Request \/ Evict \/ \E e \in evicted : Book(e)
Spec == Init /\ [][Next]_econVars

-----------------------------------------------------------------------------
(* With the demand it was told to expect, no decision costs more than doing *)
(* nothing: warming, eviction and the crossover each bill at most the plain *)
(* prompt (an eviction strictly less), the crossover takes the cheapest     *)
(* course open to it, a payload kept as a reference stays one when it gets  *)
(* larger or is read longer, and a lane is never touched twice in a window. *)
DecisionsPayOff ==
  /\ \A l \in DOMAIN Lanes : simulate_warmkeeper(l) <= NoWarmBill(Lanes[l])
  /\ \A bills \in {simulate_eviction_replay(gaps)} : \A s \in DOMAIN Candidates :
       \/ bills[s] < NaiveBill(Candidates[s])
       \/ bills[s] = NaiveBill(Candidates[s]) /\ EvictionDecision(Candidates[s], ttl_from_gaps(gaps)) # "evict"
  /\ \A i \in Contents : validate_input(i) => \A p \in {Projected(i)} :
       p[decide_cache_crossover(i)] = Min({p.inline} \cup (IF i.admitted THEN {p.compress} ELSE {})
                                            \cup (IF cache_eligible(i) THEN {p.cache} ELSE {}))
  /\ \A n \in 0..(2 * Threshold), p \in {0, 999, 1000}, h \in 0..1, cost \in {0, 2} :
       /\ decide_threshold(n) => decide_threshold(n + 1)
       /\ decide_horizon_cost(n, p, h, cost) => decide_horizon_cost(n + 1, p, h + 1, cost)
  /\ \A l \in DOMAIN Lanes : \A a, b \in touches[l] : a < b => resume_rewarm_kind(b - a, Lanes[l].ttl) = "full_rewrite"

(* However often an eviction is reported, the ledger holds no more than the *)
(* evictions it names can have saved.                                       *)
SavingsBookedOnce ==
  booked.total <= FoldSet(LAMBDA s, t : t + Candidates[s].requests * Candidates[s].savings - Candidates[s].rewrite,
                          0, booked.ids)
=============================================================================
