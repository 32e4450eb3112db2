------------------------------ MODULE WorkingSet ------------------------------
(***************************************************************************)
(* The prompt-resident working set: spans of text kept within a token      *)
(* budget. A span that must go is stored as a blob and replaced by a       *)
(* reference line; an expansion of that reference pages it in again, whole *)
(* or in part. The memory verbs (store, commit_session, update_capsule,    *)
(* forget_visible, promote_anchor, link_refs) drive the same operations.   *)
(* A text is a sequence of lines, one token each; a blob reference is its  *)
(* content, so it is modelled by the text itself.                          *)
(***************************************************************************)
EXTENDS Naturals, Sequences, FiniteSets, FiniteSetsExt, SequencesExt

CONSTANTS Texts,        \* the texts that are admitted
          Anchors,      \* span anchors
          AliasNames,   \* names link_refs gives to references
          BudgetTokens, \* budget_tokens
          FloorTokens,  \* tokens of an eviction reference line
          MaxTouches    \* bound on the sequence counter

VARIABLES spans,        \* sequence of spans, oldest admission first
          evicted_refs, \* blob reference or alias -> ids of the spans it recovers
          touches,      \* sequence
          stored,       \* blobs the recovery store holds
          storeAliases, \* aliases the recovery store holds: name -> reference
          failed        \* the last operation returned an error

wsVars == <<spans, evicted_refs, touches, stored, storeAliases, failed>>

Tokens(t) == Len(t)

visible_tokens(sp) == IF sp.resident THEN Tokens(sp.text) ELSE FloorTokens

used_tokens(ss) == FoldFunction(+, 0, [i \in 1..Len(ss) |-> visible_tokens(ss[i])])

Index(ss, id) == CHOOSE i \in 1..Len(ss) : ss[i].id = id

Ids(ss) == {ss[i].id : i \in 1..Len(ss)}

Canonical(text) == <<"blob", text>>
Alias(name) == <<"alias", name>>

IdsOf(refs, key) == IF key \in DOMAIN refs THEN refs[key] ELSE {}

-----------------------------------------------------------------------------
(* Deltas: one exact hunk of whole lines. *)

CommonPrefix(a, b) == Max({n \in 0..Min({Len(a), Len(b)}) :
                             \A i \in 1..n : a[i] = b[i]})

(* A suffix measured on the whole texts, overlapping the common prefix. *)
OverlappingSuffix(a, b) == Max({n \in 0..Min({Len(a), Len(b)}) :
    \A i \in 1..n : a[Len(a) + 1 - i] = b[Len(b) + 1 - i]})

CommonSuffix(a, b) ==
    LET p == CommonPrefix(a, b)
    IN  Max({n \in 0..Min({Len(a) - p, Len(b) - p}) :
               \A i \in 1..n : a[Len(a) + 1 - i] = b[Len(b) + 1 - i]})

delta_between(old, new) ==
    LET p == CommonPrefix(old, new)
        s == CommonSuffix(old, new)
    IN  [start |-> p + 1,
         removed |-> SubSeq(old, p + 1, Len(old) - s),
         inserted |-> SubSeq(new, p + 1, Len(new) - s)]

AcknowledgementTokens(d) == 1 + Len(d.removed) + Len(d.inserted)

(* The base unchanged stands for the error of a hunk that does not apply. *)
integrate_delta(base, d) ==
    LET from == d.start - 1
        to == from + Len(d.removed)
    IN  IF to > Len(base) \/ SubSeq(base, from + 1, to) # d.removed THEN base
        ELSE SubSeq(base, 1, from) \o d.inserted \o SubSeq(base, to + 1, Len(base))

-----------------------------------------------------------------------------
(* Budget *)

(* Spans that shrink when paged out, in the order they are chosen. *)
Before(a, b) == \/ a.touched < b.touched
                \/ a.touched = b.touched /\ Tokens(a.text) > Tokens(b.text)
                \/ a.touched = b.touched /\ Tokens(a.text) = Tokens(b.text) /\ a.id < b.id

Candidates(ss) == {i \in 1..Len(ss) : ss[i].resident /\ Tokens(ss[i].text) > FloorTokens}

FirstVictims(ss, n) == {i \in Candidates(ss) :
    Cardinality({j \in Candidates(ss) : Before(ss[j], ss[i])}) < n}

page_out_at(ss, victims) ==
    [i \in 1..Len(ss) |-> IF i \in victims THEN [ss[i] EXCEPT !.resident = FALSE] ELSE ss[i]]

(* A budget loop that stops one victim early. *)
VictimsShort(ss) ==
    LET enough == {n \in 0..Cardinality(Candidates(ss)) :
                     \/ used_tokens(page_out_at(ss, FirstVictims(ss, n))) <= BudgetTokens + 1
                     \/ n = Cardinality(Candidates(ss))}
    IN  Min(enough)

(* How many victims enforce_budget needs. *)
Victims(ss) ==
    LET enough == {n \in 0..Cardinality(Candidates(ss)) :
                     \/ used_tokens(page_out_at(ss, FirstVictims(ss, n))) <= BudgetTokens
                     \/ n = Cardinality(Candidates(ss))}
    IN  Min(enough)

WithRefs(refs, ss, victims) ==
    LET keys == {Canonical(ss[i].text) : i \in victims}
    IN  [k \in DOMAIN refs \cup keys |->
            IdsOf(refs, k) \cup {ss[i].id : i \in {j \in victims : Canonical(ss[j].text) = k}}]

(* What pressure leaves behind: spans, references, new blobs; or, when the *)
(* store refuses the blob of victim n + 1, the first n victims paged out.  *)
enforce_budget(ss, refs) ==
    {[spans |-> page_out_at(ss, FirstVictims(ss, n)),
      refs |-> WithRefs(refs, ss, FirstVictims(ss, n)),
      blobs |-> {ss[i].text : i \in FirstVictims(ss, n)},
      ok |-> n = Victims(ss)] : n \in 0..Victims(ss)}

(* Forgets the span's blob key only, not the aliases that lead to it. *)
RemoveCanonicalOnly(refs, ss, id) ==
    LET key == Canonical(ss[Index(ss, id)].text)
    IN  [k \in {j \in DOMAIN refs : j # key \/ refs[j] # {id}} |->
            IF k = key THEN refs[k] \ {id} ELSE refs[k]]

remove_evicted_ref(refs, ss, id) ==
    [k \in {j \in DOMAIN refs : refs[j] \ {id} # {}} |-> refs[k] \ {id}]

(* The store forgets the aliases whose key emptied. *)
AliasesLeft(before, after) ==
    [a \in {n \in DOMAIN storeAliases :
              Alias(n) \in DOMAIN before => Alias(n) \in DOMAIN after} |-> storeAliases[a]]

(* Mutant: a span that was just admitted counts as never touched. *)
SpanUntouched(id, anchor, text) ==
    [id |-> id, touched |-> 0, anchor |-> anchor, text |-> text, resident |-> TRUE]

Span(id, anchor, text) ==
    [id |-> id, touched |-> id, anchor |-> anchor, text |-> text, resident |-> TRUE]

-----------------------------------------------------------------------------
Init ==
    /\ spans = <<>>
    /\ evicted_refs = <<>>
    /\ touches = 0
    /\ stored = {}
    /\ storeAliases = <<>>
    /\ failed = FALSE

At(anchor) == {i \in 1..Len(spans) : spans[i].anchor = anchor}

(* admit of the text already resident there: the span is only touched. *)
AlreadyResident(text, anchor) ==
    /\ touches < MaxTouches
    /\ \E i \in At(anchor) :
          /\ spans[i].resident /\ spans[i].text = text
          /\ spans' = [spans EXCEPT ![i].touched = touches + 1]
    /\ touches' = touches + 1
    /\ failed' = FALSE
    /\ UNCHANGED <<evicted_refs, stored, storeAliases>>

Beneficial(i, text) ==
    AcknowledgementTokens(delta_between(spans[i].text, text)) < Tokens(text)

(* admit of a changed text as a delta of the resident one. *)
AdmitDelta(text, anchor) ==
    /\ touches < MaxTouches
    /\ \E i \in At(anchor) :
          /\ spans[i].resident /\ spans[i].text # text /\ Beneficial(i, text)
          /\ \E out \in enforce_budget([spans EXCEPT ![i].touched = touches + 1,
                                                     ![i].text = text], evicted_refs) :
                /\ spans' = out.spans
                /\ evicted_refs' = out.refs
                /\ stored' = stored \cup out.blobs
                /\ failed' = ~out.ok
    /\ touches' = touches + 1
    /\ UNCHANGED storeAliases

Stale(text, anchor) == {i \in At(anchor) :
    ~spans[i].resident \/ (spans[i].text # text /\ ~Beneficial(i, text))}

(* admit as a new span; the span at the same anchor is dropped first, and  *)
(* the new one is taken back when the store fails.                         *)
AdmitNew(text, anchor) ==
    /\ touches < MaxTouches
    /\ At(anchor) = Stale(text, anchor)
    /\ LET gone == {spans[i].id : i \in At(anchor)}
           kept == SelectSeq(spans, LAMBDA sp : sp.id \notin gone)
           refs == IF gone = {} THEN evicted_refs
                   ELSE remove_evicted_ref(evicted_refs, spans, CHOOSE id \in gone : TRUE)
           new == touches + 1
       IN  \E out \in enforce_budget(Append(kept, Span(new, anchor, text)), refs) :
              /\ spans' = IF out.ok THEN out.spans
                          ELSE SelectSeq(out.spans, LAMBDA sp : sp.id # new)
              /\ evicted_refs' = out.refs
              /\ stored' = stored \cup out.blobs
              /\ storeAliases' = AliasesLeft(evicted_refs, refs)
              /\ failed' = ~out.ok
              /\ touches' = new

(* rehydrate_ref of an owned reference whose blob the store still has. *)
Owner(key) == Min(evicted_refs[key])

rehydrate_whole(key) ==
    /\ touches < MaxTouches
    /\ key \in DOMAIN evicted_refs
    /\ LET i == Index(spans, Owner(key))
           refs == remove_evicted_ref(evicted_refs, spans, Owner(key))
       IN  /\ spans[i].text \in stored
           /\ \E out \in enforce_budget([spans EXCEPT ![i].resident = TRUE,
                                                      ![i].touched = touches + 1], refs) :
                 /\ spans' = out.spans
                 /\ evicted_refs' = out.refs
                 /\ stored' = stored \cup out.blobs
                 /\ failed' = ~out.ok
           /\ storeAliases' = AliasesLeft(evicted_refs, refs)
    /\ touches' = touches + 1

(* ... or of some of its lines, which become a span of their own. *)
rehydrate_part(key, part) ==
    /\ touches < MaxTouches
    /\ key \in DOMAIN evicted_refs
    /\ LET i == Index(spans, Owner(key))
       IN  /\ spans[i].text \in stored
           /\ Len(spans[i].text) > 1
           /\ \E out \in enforce_budget(
                    Append(spans, Span(touches + 1, part, Front(spans[i].text))), evicted_refs) :
                 /\ spans' = out.spans
                 /\ evicted_refs' = out.refs
                 /\ stored' = stored \cup out.blobs
                 /\ failed' = ~out.ok
    /\ touches' = touches + 1
    /\ UNCHANGED storeAliases

(* touch; promote_anchor *)
touch(i) ==
    /\ touches < MaxTouches
    /\ spans' = [spans EXCEPT ![i].touched = touches + 1]
    /\ touches' = touches + 1
    /\ failed' = FALSE
    /\ UNCHANGED <<evicted_refs, stored, storeAliases>>

(* evict; forget_visible *)
evict(i) ==
    /\ spans[i].resident
    /\ spans' = page_out_at(spans, {i})
    /\ evicted_refs' = WithRefs(evicted_refs, spans, {i})
    /\ stored' = stored \cup {spans[i].text}
    /\ failed' = FALSE
    /\ UNCHANGED <<touches, storeAliases>>

(* The store keeps the first target; a second one only marks the alias. *)
link_refs(source, name) ==
    /\ source \in DOMAIN evicted_refs
    /\ source # Alias(name)
    /\ ~(evicted_refs[source] \subseteq IdsOf(evicted_refs, Alias(name)))
    /\ storeAliases' = [a \in DOMAIN storeAliases \cup {name} |->
                          IF a \in DOMAIN storeAliases THEN storeAliases[a] ELSE source]
    /\ evicted_refs' = [k \in DOMAIN evicted_refs \cup {Alias(name)} |->
                          IF k = Alias(name)
                          THEN IdsOf(evicted_refs, k) \cup evicted_refs[source]
                          ELSE evicted_refs[k]]
    /\ failed' = FALSE
    /\ UNCHANGED <<spans, touches, stored>>

(* The recovery store evicts a blob on its own limits. *)
StoreDrops(text) ==
    /\ text \in stored
    /\ stored' = stored \ {text}
    /\ UNCHANGED <<spans, evicted_refs, touches, storeAliases, failed>>

Next ==
    \/ \E text \in Texts, anchor \in Anchors :
          AlreadyResident(text, anchor) \/ AdmitDelta(text, anchor) \/ AdmitNew(text, anchor)
    \/ \E key \in DOMAIN evicted_refs :
          \/ rehydrate_whole(key)
          \/ \E part \in Anchors : At(part) = {} /\ rehydrate_part(key, part)
          \/ \E name \in AliasNames : link_refs(key, name)
    \/ \E i \in 1..Len(spans) : touch(i) \/ evict(i)
    \/ \E text \in stored : StoreDrops(text)

Spec == Init /\ [][Next]_wsVars

TypeOK ==
    /\ touches \in 0..MaxTouches
    /\ spans \in Seq([id : 1..MaxTouches, touched : 1..MaxTouches, anchor : Anchors,
                      text : Seq(Nat), resident : BOOLEAN])
    /\ \A k \in DOMAIN evicted_refs : evicted_refs[k] \subseteq 1..MaxTouches
    /\ DOMAIN storeAliases \subseteq AliasNames
    /\ failed \in BOOLEAN

-----------------------------------------------------------------------------
(* The index of paged-out references is exact: every id it names belongs   *)
(* to a paged-out span (rehydrate_ref panics otherwise), and every         *)
(* paged-out span is named by its own blob reference, through failures,    *)
(* aliases, partial page-ins and replaced anchors.                         *)
EvictedIndexExact ==
    /\ \A k \in DOMAIN evicted_refs :
          /\ evicted_refs[k] # {}
          /\ \A id \in evicted_refs[k] :
                id \in Ids(spans) /\ ~spans[Index(spans, id)].resident
    /\ \A i \in 1..Len(spans) : ~spans[i].resident =>
          spans[i].id \in IdsOf(evicted_refs, Canonical(spans[i].text))

(* An admission or a page-in that succeeds leaves the set within budget,   *)
(* or with nothing left that a reference line would shorten.               *)
AdmissionsFitBudget ==
    (touches' # touches /\ spans' # spans /\ ~failed'
     /\ \E i \in 1..Len(spans') : spans'[i].touched = touches' /\ spans'[i].id = touches')
    => used_tokens(spans') <= BudgetTokens \/ Candidates(spans') = {}

(* A delta acknowledgement applied to the text the caller already has      *)
(* yields the text the working set now holds.                              *)
DeltaIntegrates ==
    \A i \in 1..Len(spans) :
        (i <= Len(spans') /\ spans'[i].id = spans[i].id /\ spans'[i].text # spans[i].text) =>
            integrate_delta(spans[i].text, delta_between(spans[i].text, spans'[i].text))
              = spans'[i].text
=============================================================================
