---------------------------- MODULE Representation ---------------------------
(***************************************************************************)
(* Choosing between representations of the same content: the Pareto        *)
(* frontiers of core/src/live_pareto.rs and representation_economics.rs,   *)
(* which leave out only what evidence of the day shows to be dominated,    *)
(* and the segmentation of a source into cheapest pieces.                  *)
(*                                                                         *)
(* A caller offers candidates one by one, their evidence ages, and a       *)
(* decision is taken again at any point; or it offers segments and asks    *)
(* for a plan.  Digests bind a decision to its inputs, so a decision       *)
(* carries the candidates themselves.                                      *)
(***************************************************************************)
EXTENDS Integers, Sequences, FiniteSets, FiniteSetsExt

CONSTANTS
    Candidates,     \* LiveCandidates a caller may offer
    Segments,       \* segments a caller may offer: start, end, cost, tokens
    Weights,        \* tokenizer weights, in units of WeightUnit
    WeightUnit,     \* 1_000_000
    Length,         \* length of the source to segment
    MaxCost,        \* u64::MAX
    MaxOffers,      \* bound: how many candidates, and how many segments, are offered
    Undecided, Refused

VARIABLES task, offered, result

rvars == <<task, offered, result>>

-----------------------------------------------------------------------------
(* Dominance. *)

is_fresh(c) == c.freshness = "fresh"

(* Protected outcomes: the same metrics, orders and baselines. *)
protected_comparable(a, b) ==
    /\ DOMAIN a.protected = DOMAIN b.protected
    /\ \A m \in DOMAIN a.protected :
         /\ a.protected[m].order = b.protected[m].order
         /\ a.protected[m].baseline = b.protected[m].baseline

NoWorse(order, v, w) ==
    CASE order = "at_least" -> v >= w [] order = "at_most" -> v <= w [] OTHER -> v = w

(* A candidate that regresses a protected metric of its own is invalid. *)
validate_candidate(c) ==
    \A m \in DOMAIN c.protected :
        NoWorse(c.protected[m].order, c.protected[m].value, c.protected[m].baseline)

dominates_or_equal(r, s) == \A axis \in DOMAIN r : r[axis] <= s[axis]
strictly_better_than(r, s) == dominates_or_equal(r, s) /\ r # s

DominatesOnAnyEvidence(a, b) ==
    /\ a.id # b.id /\ DOMAIN a.protected # {}
    /\ a.root = b.root /\ a.verifier = b.verifier
    /\ protected_comparable(a, b)
    /\ b.exact => a.exact
    /\ strictly_better_than(a.resources, b.resources)

live_dominates(a, b) ==
    /\ is_fresh(a) /\ DOMAIN a.protected # {}
    /\ a.id # b.id
    /\ a.root = b.root /\ a.verifier = b.verifier
    /\ protected_comparable(a, b)
    /\ b.exact => a.exact
    /\ \A m \in DOMAIN a.protected :
         NoWorse(a.protected[m].order, a.protected[m].value, b.protected[m].value)
    /\ dominates_or_equal(a.resources, b.resources)
    /\ \/ a.exact /\ ~b.exact
       \/ strictly_better_than(a.resources, b.resources)
       \/ \E m \in DOMAIN a.protected :
            /\ a.protected[m].order # "exact"
            /\ a.protected[m].value # b.protected[m].value

(* Representation records know neither evidence nor verifier.  root is the *)
(* pair of semantic and adapter root in both.                              *)
record_dominates(a, b) ==
    /\ a.id # b.id /\ a.root = b.root
    /\ b.exact => a.exact
    /\ strictly_better_than(a.resources, b.resources)

pareto_frontier(cs) == {c \in cs : ~\E d \in cs : record_dominates(d, c)}

(* Entries are kept per candidate, sorted by id; the reason names the      *)
(* dominator with the smallest id.  Stale, unknown and missing evidence    *)
(* stays visible with its reason, outside the frontier.                    *)
DominatedBy(cs, c) ==
    IF ~is_fresh(c) THEN 0
    ELSE LET ds == {d.id : d \in {e \in cs : live_dominates(e, c)}}
         IN  IF ds = {} THEN 0 ELSE Min(ds)

decide_live_pareto(cs) ==
    LET ids == {c.id : c \in {cs[i] : i \in DOMAIN cs}}
        all == {cs[i] : i \in DOMAIN cs}
        entry(c) ==
            [candidate |-> c, dominated_by |-> DominatedBy(all, c),
             in_frontier |-> /\ is_fresh(c) /\ DOMAIN c.protected # {}
                             /\ DominatedBy(all, c) = 0]
    IN  IF \/ cs = <<>> \/ Cardinality(ids) # Len(cs)
           \/ \E c \in all : ~validate_candidate(c)
        THEN Refused
        ELSE [entries |-> {entry(c) : c \in all}, records |-> pareto_frontier(all)]

-----------------------------------------------------------------------------
(* Segmentation. *)

(* The cost of a segment for all tokenizers, each share rounded up. *)
effective_cost(s) ==
    s.cost +
    MapThenSumSet(LAMBDA w : (s.tokens[w] * Weights[w] + WeightUnit - 1) \div WeightUnit,
                  DOMAIN Weights)

AlwaysReplaces(total, current) == FALSE
Keeps(total, current) == total >= current

(* The cheapest way to each position, built from the left: segments that   *)
(* start where a way ends are tried in the order offered, and replace what *)
(* is known only if cheaper.  A sum that does not fit ends the search.     *)
Unreached == [cost |-> -1, path |-> <<>>]
Overflowed == [cost |-> -2, path |-> <<>>]

Extend(best, p, segs) ==
    LET try[i \in 0..Len(segs)] ==
          IF i = 0 THEN best
          ELSE LET b == try[i - 1]
                   s == segs[i]
                   total == b[p].cost + effective_cost(s)
               IN  IF b[0] = Overflowed \/ s.start # p \/ s.end <= s.start \/ s.end > Length
                   THEN b
                   ELSE IF total > MaxCost THEN [b EXCEPT ![0] = Overflowed]
                   ELSE IF b[s.end] # Unreached /\ Keeps(total, b[s.end].cost) THEN b
                   ELSE [b EXCEPT ![s.end] = [cost |-> total, path |-> Append(b[p].path, i)]]
    IN  IF best[0] = Overflowed \/ best[p] = Unreached THEN best ELSE try[Len(segs)]

optimal_multi_tokenizer_segmentation(segs) ==
    LET start == [p \in 0..Length |-> IF p = 0 THEN [cost |-> 0, path |-> <<>>] ELSE Unreached]
        upto[p \in 0..Length] == IF p = 0 THEN start ELSE Extend(upto[p - 1], p - 1, segs)
        best == upto[Length]
    IN  IF \/ \E i \in DOMAIN segs : effective_cost(segs[i]) > MaxCost
           \/ best[0] = Overflowed \/ best[Length] = Unreached
        THEN Refused ELSE best[Length]

-----------------------------------------------------------------------------
Offers == IF task = "frontier" THEN Candidates ELSE Segments

Offer(x) ==
    /\ Len(offered) < MaxOffers[task]
    /\ offered' = Append(offered, x)
    /\ result' = Undecided
    /\ UNCHANGED task

(* Evidence loses its freshness; nothing makes it fresh again. *)
Age(i, freshness) ==
    /\ task = "frontier" /\ is_fresh(offered[i])
    /\ offered' = [offered EXCEPT ![i].freshness = freshness]
    /\ result' = Undecided
    /\ UNCHANGED task

Decide ==
    /\ result = Undecided
    /\ result' = IF task = "frontier" THEN decide_live_pareto(offered)
                 ELSE optimal_multi_tokenizer_segmentation(offered)
    /\ UNCHANGED <<task, offered>>

RepresentationInit ==
    /\ task \in {"frontier", "segments"} /\ offered = <<>> /\ result = Undecided

RepresentationNext ==
    \/ \E x \in Offers : Offer(x)
    \/ \E i \in DOMAIN offered, f \in {"stale", "unknown"} : Age(i, f)
    \/ Decide

RepresentationSpec == RepresentationInit /\ [][RepresentationNext]_rvars

-----------------------------------------------------------------------------
(* What a decision hides is hidden for a reason that is itself on show:    *)
(* every candidate with fresh and complete evidence is in the frontier or  *)
(* dominated by a member of it, no member of the frontier is dominated,    *)
(* and candidates without fresh evidence change nothing for the others.    *)
(* The same holds of the frontier of records.                              *)
FrontierCovers ==
    (task = "frontier" /\ result \notin {Undecided, Refused}) =>
        LET frontier == {e.candidate : e \in {x \in result.entries : x.in_frontier}}
            all == {e.candidate : e \in result.entries}
            fresh == {c \in all : is_fresh(c)}
        IN  /\ \A c \in fresh : DOMAIN c.protected # {} =>
                  c \in frontier \/ \E d \in frontier : live_dominates(d, c)
            /\ \A c \in frontier : is_fresh(c) /\ ~\E d \in all : live_dominates(d, c)
            /\ \A e \in result.entries :
                  DominatedBy(fresh, e.candidate) = e.dominated_by
            /\ \A c \in all : c \in result.records
                  \/ \E d \in result.records : record_dominates(d, c)

(* The ways to cover the source with the segments offered. *)
Covers(segs) ==
    {path \in UNION {[1..n -> DOMAIN segs] : n \in 1..Length} :
        /\ segs[path[1]].start = 0 /\ segs[path[Len(path)]].end = Length
        /\ \A i \in DOMAIN path : segs[path[i]].start < segs[path[i]].end
        /\ \A i \in 1..(Len(path) - 1) : segs[path[i]].end = segs[path[i + 1]].start}

PathCost(segs, path) ==
    MapThenSumSet(LAMBDA i : effective_cost(segs[path[i]]), DOMAIN path)

(* A plan covers the source end to end at the least cost of all covers,    *)
(* and is refused only when there is no cover or a cost does not fit.      *)
PlanIsOptimal ==
    (task = "segments" /\ result # Undecided) =>
        IF result = Refused
        THEN \/ Covers(offered) = {}
             \/ \E s \in {offered[i] : i \in DOMAIN offered} :
                   effective_cost(s) * Length > MaxCost
        ELSE /\ result.path \in Covers(offered)
             /\ result.cost = PathCost(offered, result.path)
             /\ \A path \in Covers(offered) : PathCost(offered, path) >= result.cost
=============================================================================
