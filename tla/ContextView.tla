------------------------------ MODULE ContextView ------------------------------
(***************************************************************************)
(* The materialised context view: a timeline of records behind an          *)
(* immutable prefix, of which a projection shows the newest (the hot tail) *)
(* and the resident ones within a token budget. Residency changes only at  *)
(* a provider cache breakpoint. A guard watches that the same sources      *)
(* render to the same bytes. A rendered record is its id, turn and text;   *)
(* the text stands for its reference.                                      *)
(***************************************************************************)
EXTENDS Naturals, Sequences, SequencesExt, FiniteSetsExt

CONSTANTS Snippets,         \* texts of records
          SnippetTokens,    \* tokens of a rendered record, by text
          WorkingSetTokens, \* working_set_tokens
          HotTailTokens,    \* hot_tail_tokens
          MaxRecords        \* bound on the timeline; also the last turn

VARIABLES cvRecords,  \* timeline, oldest first; the id is the position
          cvResident, \* resident_ids
          cvShown,    \* the last projection
          cvGuard     \* renders: sources -> rendering of the prefix guard

cvVars == <<cvRecords, cvResident, cvShown, cvGuard>>

Tokens(id) == SnippetTokens[cvRecords[id].text]

TokensOf(ids) == FoldFunctionOnSet(+, 0, [i \in 1..Len(cvRecords) |-> Tokens(i)], ids)

eligible(turn) == {i \in 1..Len(cvRecords) : cvRecords[i].turn <= turn}

(* The newest that fit the budget; an older one still fits when a newer    *)
(* one was too large.                                                      *)
select_newest(ids, budget) ==
    LET newest == Reverse(SetToSortSeq(ids, <))
        pick(acc, i) == IF acc.used + Tokens(i) <= budget
                        THEN [used |-> acc.used + Tokens(i), ids |-> acc.ids \cup {i}]
                        ELSE acc
    IN  FoldLeft(pick, [used |-> 0, ids |-> {}], newest).ids

(* What the hot tail leaves of the budget. *)
WholeBudget(turn) == WorkingSetTokens
Remaining(turn) == WorkingSetTokens - TokensOf(select_newest(eligible(turn), HotTailTokens))

(* The projection as of a turn, with the given residents. *)
render(turn, resident) ==
    LET hot == select_newest(eligible(turn), HotTailTokens)
    IN  [hot |-> hot,
         set |-> select_newest((eligible(turn) \cap resident) \ hot, Remaining(turn))]

Order(p) == SetToSortSeq(p.set, <) \o SetToSortSeq(p.hot, <)

Rendering(p) == [i \in 1..Len(Order(p)) |->
    [id |-> Order(p)[i], turn |-> cvRecords[Order(p)[i]].turn,
     text |-> cvRecords[Order(p)[i]].text]]

(* source_identity: the references of the records shown. *)
Sources(p) == [i \in 1..Len(Order(p)) |-> cvRecords[Order(p)[i]].text]

-----------------------------------------------------------------------------
Init ==
    /\ cvRecords = <<>>
    /\ cvResident = {}
    /\ cvShown = [hot |-> {}, set |-> {}]
    /\ cvGuard = <<>>

(* The record is stored before it is visible; a failed store changes       *)
(* nothing.                                                                *)
append(turn, text) ==
    /\ Len(cvRecords) < MaxRecords
    /\ cvRecords' = Append(cvRecords, [turn |-> turn, text |-> text])
    /\ UNCHANGED <<cvResident, cvShown, cvGuard>>

(* observe_render keeps the first rendering of the same sources. *)
Observed(p) == IF Sources(p) \in DOMAIN cvGuard THEN cvGuard
               ELSE [k \in DOMAIN cvGuard \cup {Sources(p)} |->
                        IF k = Sources(p) THEN Rendering(p) ELSE cvGuard[k]]

project(turn) ==
    /\ cvShown' = render(turn, cvResident)
    /\ cvGuard' = Observed(cvShown')
    /\ UNCHANGED <<cvRecords, cvResident>>

reproject_at_cache_breakpoint(turn) ==
    LET hot == select_newest(eligible(turn), HotTailTokens)
    IN  /\ cvResident' = select_newest(eligible(turn) \ hot, Remaining(turn))
        /\ cvShown' = render(turn, cvResident')
        /\ cvGuard' = Observed(cvShown')
        /\ UNCHANGED cvRecords

Next == \E turn \in 1..MaxRecords :
           \/ \E text \in Snippets : append(turn, text)
           \/ project(turn)
           \/ reproject_at_cache_breakpoint(turn)

Spec == Init /\ [][Next]_cvVars

(* Whatever turn is looked back to, after however many breakpoints and     *)
(* appends, what a projection shows after the prefix fits the budget and   *)
(* shows no record twice.                                                  *)
ProjectionsFitBudget ==
    /\ TokensOf(cvShown.hot) + TokensOf(cvShown.set) <= WorkingSetTokens
    /\ cvShown.hot \cap cvShown.set = {}
=============================================================================
