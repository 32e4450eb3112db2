----------------------------- MODULE CacheMeter -----------------------------
(***************************************************************************)
(* Provider cache metering (engine/src/cache_meter.rs,                     *)
(* core/src/provider_cache.rs): the usage fields of three providers are    *)
(* brought to one shape, telemetry is kept apart from eligibility, and a   *)
(* session report is summed over the observations.  The provider is        *)
(* external: an exchange says what it really read from and wrote to its    *)
(* cache, which fields its response leaves out or garbles, and what its    *)
(* cache diagnosis says.                                                   *)
(***************************************************************************)
EXTENDS Naturals, Sequences, FiniteSets, FiniteSetsExt, SequencesExt

CONSTANTS Exchanges,     \* records [provider, fresh, cached, created, out, omit, bad, diagnosis,
                         \*          text, eligibility, shape, id]
          Missing,       \* the value of a field the response does not have
          Garbled,       \* the value of a field that is not an unsigned integer
          NoveltyBudget, MaxExchanges

VARIABLES previous_request, \* text of the last observed request
          observations,     \* CacheObservation per observed request
          truths,           \* the exchange behind each of them
          errors            \* exchanges that could not be observed

meterVars == <<previous_request, observations, truths, errors>>

SatSub(a, b) == IF a > b THEN a - b ELSE 0

(* usage_layout: which totals a provider's input count includes, whether    *)
(* it reports cache writes, and the name it reports its model under.        *)
usage_layout(provider) ==
  [subtract |-> provider # "anthropic", creates |-> provider = "anthropic",
   usage_key |-> IF provider = "gemini" THEN "usageMetadata" ELSE "usage",
   route |-> CASE provider = "anthropic" -> "messages" [] provider = "openai" -> "chat.completions"
               [] provider = "gemini" -> "generateContent"]

-----------------------------------------------------------------------------
(* The response, as the provider words it (external).                       *)
Field(x, name, value) == IF name \in x.omit THEN Missing ELSE IF name \in x.bad THEN Garbled ELSE value
Response(x) ==
  [shape |-> x.shape, id |-> x.id, diagnosis |-> x.diagnosis,
   input |-> Field(x, "input", IF usage_layout(x.provider).subtract THEN x.fresh + x.cached ELSE x.fresh),
   cached |-> Field(x, "cached", x.cached),
   created |-> IF usage_layout(x.provider).creates THEN Field(x, "created", x.created) ELSE Missing,
   output |-> Field(x, "output", x.out), tier |-> Field(x, "tier", "standard"),
   reasoning |-> Field(x, "reasoning", x.out),
   total |-> Field(x, "total", x.fresh + x.cached + x.created + x.out),
   billed |-> Field(x, "billed", x.fresh), credit |-> Field(x, "credit", x.cached)]

-----------------------------------------------------------------------------
(* parse_provider_usage *)

Number(v) == v \notin {Missing, Garbled}
required_u64(v) == IF Number(v) THEN {v} ELSE {}
optional_u64(v) == IF v = Missing THEN {0} ELSE IF v = Garbled THEN {} ELSE {v}
read_cache_tokens(v) == IF v = Missing THEN {<<0, FALSE>>} ELSE IF v = Garbled THEN {} ELSE {<<v, TRUE>>}

(* Mutant: totals that include the cached tokens are taken for the rest.    *)
CachedCountedTwice(provider, r) ==
  IF r.shape \in {"null", "scalar"} THEN {}
  ELSE {[input |-> t[2], output |-> t[3], cached |-> t[1][1], reported |-> t[1][2], created |-> t[4]] :
    t \in read_cache_tokens(r.cached) \X required_u64(r.input) \X optional_u64(r.output)
          \X (IF usage_layout(provider).creates THEN optional_u64(r.created) ELSE {0})}

(* The usage object is read wherever it is, or the response itself if it    *)
(* has none; a null or scalar in its place has no input count.              *)
parse_provider_usage(provider, r) ==
  IF r.shape \in {"null", "scalar"} THEN {}
  ELSE {[input |-> IF usage_layout(provider).subtract THEN SatSub(t[2], t[1][1]) ELSE t[2],
         output |-> t[3], cached |-> t[1][1], reported |-> t[1][2], created |-> t[4]] :
    t \in read_cache_tokens(r.cached) \X required_u64(r.input) \X optional_u64(r.output)
          \X (IF usage_layout(provider).creates THEN optional_u64(r.created) ELSE {0})}

total_input_tokens(usage) == usage.input + usage.cached + usage.created

(* parse_provider_usage_observation: an amount is measured or it is not; a  *)
(* count that includes cached tokens cannot be split without them.          *)
Unmeasured == Missing
resolve_request_id(r) == IF r.id = Missing THEN {} ELSE {r.id}
read_amount(r, v) == IF r.shape = "object" THEN v ELSE Unmeasured
read_service_tier(r) == r.tier
read_reasoning_amount(r) == read_amount(r, r.reasoning)
read_billed_tokens_amount(r) == read_amount(r, r.total)
read_microcredit_amount(r, kind) == read_amount(r, r[kind])
parse_provider_usage_observation(provider, r) ==
  IF \/ resolve_request_id(r) = {} \/ r.shape = "scalar" \/ read_service_tier(r) = Garbled
     \/ Garbled \in {read_amount(r, v) : v \in {r.input, r.cached, r.created, r.output}}
     \/ Garbled \in {read_reasoning_amount(r), read_billed_tokens_amount(r)}
     \/ Garbled \in {read_microcredit_amount(r, kind) : kind \in {"billed", "credit"}}
  THEN {}
  ELSE {[uncached |-> IF ~usage_layout(provider).subtract THEN read_amount(r, r.input)
                      ELSE IF Missing \in {read_amount(r, r.input), read_amount(r, r.cached)} THEN Unmeasured
                      ELSE SatSub(r.input, r.cached),
         cached |-> read_amount(r, r.cached), written |-> read_amount(r, r.created),
         output |-> read_amount(r, r.output), reasoning |-> read_reasoning_amount(r),
         total |-> read_billed_tokens_amount(r),
         billed |-> read_microcredit_amount(r, "billed"), credit |-> read_microcredit_amount(r, "credit")]}

-----------------------------------------------------------------------------
(* Telemetry *)

Expiry == {"expired", "cache_expired", "ttl_expired"}
from_reported_cached_tokens(usage) ==
  IF ~usage.reported THEN "unavailable" ELSE IF usage.cached = 0 THEN "miss" ELSE "hit"

cache_miss_attribution(diagnosis) == diagnosis

(* No telemetry where diagnosis and counts contradict each other.           *)
provider_cache_telemetry(usage, diagnosis) ==
  IF cache_miss_attribution(diagnosis) \in Expiry
  THEN IF usage.reported /\ usage.cached > 0 THEN {} ELSE {"expired"}
  ELSE IF cache_miss_attribution(diagnosis) = "unknown"
  THEN IF usage.reported THEN {} ELSE {"unknown"}
  ELSE {from_reported_cached_tokens(usage)}

is_hit_rate_observation(o) == o.telemetry \in {"hit", "miss"}

common_prefix(left, right) == Max({n \in 0..Len(left) : n <= Len(right) /\ SubSeq(left, 1, n) = SubSeq(right, 1, n)})

Eligibilities == {"not_evaluated", "eligible", "ineligible"}

(* observe_with_eligibility: an unreadable or contradictory response is an  *)
(* error and leaves the meter as it was.                                    *)
Observed(x) ==
  UNION {{[text |-> x.text, stable |-> IF previous_request = Missing THEN 0 ELSE common_prefix(previous_request, x.text),
           usage |-> usage, telemetry |-> telemetry, eligibility |-> x.eligibility,
           attribution |-> cache_miss_attribution(x.diagnosis)] :
    telemetry \in provider_cache_telemetry(usage, x.diagnosis)} : usage \in parse_provider_usage(x.provider, Response(x))}

-----------------------------------------------------------------------------
(* report_with_slo *)

Sum(F(_), obs) == FoldLeft(LAMBDA total, o : total + F(o), 0, obs)
Count(P(_), obs) == Len(SelectSeq(obs, P))
Counted(obs) == SelectSeq(obs, is_hit_rate_observation)

report_with_slo(obs) ==
  LET counted == Counted(obs)
      cached == Sum(LAMBDA o : o.usage.cached, counted)
      input == Sum(LAMBDA o : total_input_tokens(o.usage), counted)
  IN [requests |-> Len(obs), stable |-> Sum(LAMBDA o : o.stable, obs),
      hits |-> Count(LAMBDA o : o.telemetry = "hit", obs), misses |-> Count(LAMBDA o : o.telemetry = "miss", obs),
      unavailable |-> Count(LAMBDA o : o.telemetry = "unavailable", obs),
      unknown |-> Count(LAMBDA o : o.telemetry = "unknown", obs),
      expired |-> Count(LAMBDA o : o.telemetry = "expired", obs),
      evaluated |-> Count(LAMBDA o : o.eligibility # "not_evaluated", obs),
      eligible |-> Count(LAMBDA o : o.eligibility = "eligible", obs),
      cached |-> cached, input |-> input, novel |-> SatSub(input, cached),
      available |-> input # 0, budget_left |-> SatSub(NoveltyBudget, SatSub(input, cached))]

-----------------------------------------------------------------------------
Init == previous_request = Missing /\ observations = <<>> /\ truths = <<>> /\ errors = 0

observe_with_eligibility(x) ==
  /\ Len(observations) + errors < MaxExchanges
  /\ \/ \E o \in Observed(x) :
          /\ observations' = Append(observations, o) /\ truths' = Append(truths, x)
          /\ previous_request' = x.text /\ UNCHANGED errors
     \/ Observed(x) = {} /\ errors' = errors + 1 /\ UNCHANGED <<previous_request, observations, truths>>

Next == \E x \in Exchanges : observe_with_eligibility(x)
Spec == Init /\ [][Next]_meterVars

-----------------------------------------------------------------------------
(* The report says of the provider's cache exactly what the provider did:   *)
(* the tokens it counts were sent and those it counts as cached were read   *)
(* from the cache, whichever way the provider words its totals; a request   *)
(* whose outcome was not reported counts neither as hit nor as miss; and    *)
(* the two readings of one response never disagree on a measured amount,    *)
(* and measured parts never exceed the measured total.                      *)
ReportMatchesProviders ==
  /\ \A report \in {report_with_slo(observations)} :
     \A known \in {{i \in DOMAIN truths : is_hit_rate_observation(observations[i])}} :
       /\ \A i \in DOMAIN truths \ known : "cached" \in truths[i].omit \/ truths[i].diagnosis \in Expiry
       /\ report.hits = Cardinality({i \in known : truths[i].cached > 0})
       /\ report.hits + report.misses + report.unavailable + report.unknown + report.expired = report.requests
       /\ report.cached = FoldSet(LAMBDA i, t : t + truths[i].cached, 0, known)
       /\ report.novel <= FoldSet(LAMBDA i, t : t + truths[i].fresh + truths[i].created, 0, known)
       /\ (\A i \in known : "created" \notin truths[i].omit) =>
            report.novel = FoldSet(LAMBDA i, t : t + truths[i].fresh + truths[i].created, 0, known)
  /\ \A i \in DOMAIN truths : \A amounts \in parse_provider_usage_observation(truths[i].provider, Response(truths[i])) :
       /\ amounts.uncached \in {Unmeasured, observations[i].usage.input}
       /\ amounts.cached # Unmeasured => observations[i].usage.reported /\ amounts.cached = truths[i].cached
       /\ Missing \notin {amounts[a] : a \in {"total", "uncached", "cached", "output"}} =>
            amounts.uncached + amounts.cached + amounts.output <= amounts.total
=============================================================================
