------------------------------ MODULE ShortRefs ------------------------------
(***************************************************************************)
(* The short forms tokenzero shows instead of full-hash refs, repeated     *)
(* paths and repeated symbols: dense ordinals (tz://o/<gen>/<n>) reserved  *)
(* in the shared store, and opaque handles (tz://s/<hex>) derived from the *)
(* content hash under a key kept in the store.                             *)
(*                                                                         *)
(* Several processes share one store.  Each rewrites a response in steps,  *)
(* taking the store's lock for each reservation and each persist; the      *)
(* others write the store in between, any write may fail, and the store    *)
(* may be deleted.  A response has a list of refs and a text; a text is a  *)
(* sequence of full-hash refs and values (paths, symbols).  A value is the *)
(* blob of its own text, so both are members of Hashes; a fragment that    *)
(* follows a ref is left where it is and not modelled.                     *)
(***************************************************************************)
EXTENDS Integers, Sequences, FiniteSets, TLC

CONSTANTS
    Engines, Hashes,
    FullRefs,   \* the members of Hashes that appear as refs; the others are values
    Dear,       \* the values that cost more tokens than the shortest ordinal
    Responses,  \* [refs |-> ..., text |-> ...], the responses that are emitted
    Keys,       \* keys an engine may draw
    Handles,    \* truncated handle bodies
    Keyed,      \* [Keys -> [Hashes -> Handles]]: the derivation, collisions included
    Nil,        \* no key, no target, no job, no store
    MaxOrdinal, \* where the ordinal counter overflows
    MaxFaults, MaxStarts
                \* bounds: failed writes, restarts and deletions; responses and refs asked for

VARIABLES
    memory,     \* the alias part of each engine's state
    disk,       \* the same of the shared store, or Nil
    sidecar,    \* the highest ordinal generation ever used, in a file of its own
    behind,     \* engines whose next persist finds a store they have not written or read
    job,        \* the response an engine is rewriting
    shown,      \* history: what was emitted, and what it stands for
    deleted,    \* history: how often the store was deleted
    faults, starts

srvars == <<memory, disk, sidecar, behind, job, shown, deleted, faults, starts>>

Generations == 1..(MaxFaults + 2 * MaxStarts + 2)
Ordinals == Generations \X (1..MaxOrdinal)
Names == Ordinals \cup Handles

IsState(s) ==
    /\ DOMAIN s = {"key", "aliases", "ambiguous", "generation", "next"}
    /\ s.key \in Keys \cup {Nil} /\ s.ambiguous \subseteq Names
    /\ DOMAIN s.aliases \subseteq Names /\ \A n \in DOMAIN s.aliases : s.aliases[n] \in Hashes
    /\ s.generation \in Generations /\ s.next \in 1..(MaxOrdinal + 1)

TypeOK ==
    /\ \A e \in Engines : IsState(memory[e])
    /\ disk = Nil \/ IsState(disk)
    /\ sidecar \in {0} \cup Generations /\ behind \subseteq Engines
    /\ \A e \in Engines : job[e] # Nil =>
          /\ job[e].step \in {"refs", "persist", "batch", "store", "reserve", "mapped"}
          /\ job[e].for \in Responses /\ job[e].values \in Seq(Dear)
          /\ \A v \in DOMAIN job[e].names : job[e].names[v] \in Ordinals
    /\ faults \in 0..MaxFaults /\ deleted \in 0..MaxFaults /\ starts \in 0..MaxStarts

-----------------------------------------------------------------------------
(* The alias table. *)

empty == [key |-> Nil, aliases |-> [n \in {} |-> Nil], ambiguous |-> {}, generation |-> 1, next |-> 1]

alias_target(state, name) == IF name \in DOMAIN state.aliases THEN state.aliases[name] ELSE Nil

(* A conflicting target never replaces the first mapping; the name becomes *)
(* ambiguous and is refused from then on.                                  *)
store_alias_deferred(state, name, target) ==
    CASE alias_target(state, name) = target -> state
      [] alias_target(state, name) = Nil -> [state EXCEPT !.aliases = (name :> target) @@ @]
      [] OTHER -> [state EXCEPT !.ambiguous = @ \cup {name}]

(* The alias part of merge_states: the store's mapping and key win, what   *)
(* differs is ambiguous, and the ordinals follow the newer generation.     *)
merge_states(existing, current) ==
    [key |-> IF existing.key = Nil THEN current.key ELSE existing.key,
     aliases |-> existing.aliases @@ current.aliases,
     ambiguous |-> existing.ambiguous \cup current.ambiguous \cup
        {n \in DOMAIN existing.aliases \cap DOMAIN current.aliases : existing.aliases[n] # current.aliases[n]},
     generation |-> IF current.generation > existing.generation THEN current.generation ELSE existing.generation,
     next |-> IF current.generation > existing.generation
                 \/ (current.generation = existing.generation /\ current.next > existing.next)
              THEN current.next ELSE existing.next]

(* Expansion of a short form: Nil when it is refused (ambiguous, of        *)
(* another generation) or unknown.  A target is a full ref, which is never *)
(* an alias itself, so the chain has one link.                             *)
resolve_alias(state, name) ==
    IF name \in state.ambiguous \/ (name \in Ordinals /\ name[1] # state.generation)
    THEN Nil ELSE alias_target(state, name)

-----------------------------------------------------------------------------
(* Writing the store.  A store that is gone starts a new generation, one   *)
(* above the sidecar's; generation 1 predates the sidecar.                 *)

next_ordinal_generation == IF sidecar = 0 THEN 2 ELSE sidecar + 1

Loaded(mine) ==
    IF disk # Nil THEN merge_states(disk, mine)
    ELSE merge_states([empty EXCEPT !.generation = next_ordinal_generation],
                      [mine EXCEPT !.generation = next_ordinal_generation, !.next = 1])

(* ensure_ordinal_generation_floor, or the generation just allocated. *)
RaiseSidecar ==
    sidecar' = IF disk = Nil THEN next_ordinal_generation
               ELSE IF disk.generation > sidecar THEN disk.generation ELSE sidecar

Fault == faults < MaxFaults /\ faults' = faults + 1

Publish(e, state) ==
    /\ disk' = state /\ memory' = [memory EXCEPT ![e] = state]
    /\ behind' = (behind \cup Engines) \ {e} /\ UNCHANGED <<faults, deleted>>

(* The store cannot be locked or read: nothing changes.  Or it cannot be   *)
(* written: memory is ahead of it, and the next persist merges again.      *)
NotLoaded(e, mine) ==
    /\ Fault /\ memory' = [memory EXCEPT ![e] = mine] /\ UNCHANGED <<disk, sidecar, behind, deleted>>
NotPublished(e, state) ==
    /\ Fault /\ memory' = [memory EXCEPT ![e] = state]
    /\ behind' = behind \cup {e} /\ UNCHANGED <<disk, deleted>>

(* persist_pending of the state `mine': merged only when the store changed *)
(* since this engine last wrote or read it.                                *)
Persist(e, mine, ok) ==
    LET state == IF e \in behind THEN Loaded(mine) ELSE mine
        raise == IF e \in behind THEN RaiseSidecar ELSE UNCHANGED sidecar
    IN  \/ ok /\ Publish(e, state) /\ raise
        \/ ~ok /\ NotLoaded(e, mine)
        \/ ~ok /\ NotPublished(e, state) /\ raise

(* Ordinals are reserved under the lock, always from the store, and        *)
(* published before use; the first of them, or Nil.                        *)
ReserveFromMemory(e, mine) == mine
ReserveBase(e, mine) == Loaded(mine)

FirstFree(e, mine) == LET base == ReserveBase(e, mine) IN <<base.generation, base.next>>

reserve_ordinal_range(e, mine, count, first) ==
    LET base == ReserveBase(e, mine)
        state == [base EXCEPT !.next = @ + count]
        fits == base.next + count <= MaxOrdinal + 1
    IN  \/ /\ fits /\ first = FirstFree(e, mine)
           /\ Publish(e, state) /\ RaiseSidecar
        \/ first = Nil /\ NotLoaded(e, mine)
        \/ fits /\ first = Nil /\ NotPublished(e, state) /\ RaiseSidecar
        \/ /\ ~fits /\ first = Nil /\ memory' = [memory EXCEPT ![e] = base] /\ RaiseSidecar
           /\ UNCHANGED <<disk, behind, faults, deleted>>

(* Refused when the ordinal already has another target. *)
OrdinalFree(state, name, target) == alias_target(state, name) \in {Nil, target}
store_ordinal_alias_deferred(state, name, target) ==
    IF OrdinalFree(state, name, target) THEN store_alias_deferred(state, name, target) ELSE state

-----------------------------------------------------------------------------
(* Opaque handles. *)

(* The key of the store, drawn on first use. *)
alias_key(state) == IF state.key = Nil THEN Keys ELSE {state.key}

session_visible_blob_alias_keyed(key, h) == Keyed[key][h]

(* The mapping in memory, and the handle, unless it is ambiguous. *)
Registered(state, key, h) ==
    store_alias_deferred([state EXCEPT !.key = key], session_visible_blob_alias_keyed(key, h), h)
Advertised(state, key, h) ==
    IF session_visible_blob_alias_keyed(key, h) \in state.ambiguous
    THEN h ELSE session_visible_blob_alias_keyed(key, h)

register_session_visible_alias(state, h) ==
    {[state |-> Registered(state, key, h), said |-> Advertised(Registered(state, key, h), key, h)] :
        key \in alias_key(state)}

Starting == starts < MaxStarts /\ starts' = starts + 1

Show(e, response, said, life) ==
    shown' = shown \cup {[by |-> e, means |-> response, said |-> said, life |-> life]}

(* One ref, made durable at once; after a failed persist the ref is shown. *)
ensure_session_visible_alias(e, h) ==
    /\ job[e] = Nil /\ Starting
    /\ \E r \in register_session_visible_alias(memory[e], h), ok \in BOOLEAN :
         /\ Persist(e, r.state, ok)
         /\ Show(e, [refs |-> <<h>>, text |-> <<>>],
                 [refs |-> <<IF ok THEN r.said ELSE h>>, text |-> <<>>], deleted)
    /\ UNCHANGED job

(* Every ref of a text, each registered in turn, without a persist ...     *)
apply_session_visible_aliases_in_text(e, response) ==
    /\ job[e] = Nil /\ Starting
    /\ \E key \in alias_key(memory[e]) :
         LET text == response.text
             after[i \in 0..Len(text)] ==
                IF i = 0 THEN memory[e]
                ELSE IF text[i] \in FullRefs THEN Registered(after[i - 1], key, text[i]) ELSE after[i - 1]
             said == [i \in DOMAIN text |->
                        IF text[i] \in FullRefs THEN Advertised(after[i], key, text[i]) ELSE text[i]]
         IN  /\ \E i \in DOMAIN text : text[i] \in FullRefs
             /\ memory' = [memory EXCEPT ![e] = after[Len(text)]]
             /\ job' = [job EXCEPT ![e] =
                   [step |-> "batch", for |-> response, said |-> [response EXCEPT !.text = said],
                    values |-> <<>>, names |-> [v \in {} |-> Nil], life |-> deleted]]
    /\ UNCHANGED <<disk, sidecar, behind, shown, deleted, faults>>

(* ... which its caller owes before the text may appear. *)
PersistBatch(e) ==
    /\ job[e] # Nil /\ job[e].step = "batch" /\ job' = [job EXCEPT ![e] = Nil]
    /\ \E ok \in BOOLEAN :
         /\ Persist(e, memory[e], ok)
         /\ IF ok THEN Show(e, job[e].for, job[e].said, job[e].life) ELSE UNCHANGED shown
    /\ UNCHANGED starts

-----------------------------------------------------------------------------
(* Rewriting a response. *)

(* Values that occur more than once, by their first place. *)
candidates(text) ==
    LET first(i) == /\ text[i] \in Hashes \ FullRefs /\ \A k \in 1..(i - 1) : text[k] # text[i]
                    /\ \E k \in (i + 1)..Len(text) : text[k] = text[i]
        places == SelectSeq([i \in DOMAIN text |-> i], first)
    IN  [n \in DOMAIN places |-> text[places[n]]]

Worthwhile(text) == SelectSeq(candidates(text), LAMBDA v : v \in Dear)

Replaced(tokens, names) ==
    [i \in DOMAIN tokens |-> IF tokens[i] \in DOMAIN names THEN names[tokens[i]] ELSE tokens[i]]

Continue(e, j) == job' = [job EXCEPT ![e] = j] /\ UNCHANGED shown
Emit(e, j, said) == job' = [job EXCEPT ![e] = Nil] /\ Show(e, j.for, said, j.life)

(* The next value; after the last one the text with every mapped value     *)
(* replaced, if it is cheaper as a whole (a matter of the tokenizer).      *)
alias_repeated_paths_and_symbols_if_changed(e, j) ==
    IF j.values # <<>> THEN Continue(e, [j EXCEPT !.step = "store"])
    ELSE \/ Emit(e, j, j.said)
         \/ DOMAIN j.names # {} /\ Emit(e, j, [j.said EXCEPT !.text = Replaced(@, j.names)])

Skip(e) == alias_repeated_paths_and_symbols_if_changed(e, [job[e] EXCEPT !.values = Tail(@)])

(* Full refs in the response's list are dealt with first; without any, the *)
(* values; without either, the response stays as it is.                    *)
apply_session_visible_ref_aliases(e, response) ==
    /\ job[e] = Nil /\ Starting
    /\ LET j == [step |-> "refs", for |-> response, said |-> response,
                 values |-> Worthwhile(response.text), names |-> [v \in {} |-> Nil], life |-> deleted]
       IN  IF response.refs # <<>> THEN Continue(e, j)
           ELSE alias_repeated_paths_and_symbols_if_changed(e, j)
    /\ UNCHANGED <<memory, disk, sidecar, behind, deleted, faults>>

(* One ordinal for every record of the list; the mapping is in memory.  A  *)
(* failure leaves the response as it is.                                   *)
ReserveRefs(e) ==
    /\ job[e] # Nil /\ job[e].step = "refs"
    /\ LET refs == job[e].for.refs
           name(first, i) == <<first[1], first[2] + i - 1>>
       IN  \E first \in {FirstFree(e, memory[e]), Nil} :
             /\ reserve_ordinal_range(e, memory[e], Len(refs), first)
             /\ IF first = Nil THEN Emit(e, job[e], job[e].for)
                ELSE Continue(e, [job[e] EXCEPT !.step = "persist",
                        !.names = [h \in {refs[i] : i \in DOMAIN refs} |->
                           name(first, CHOOSE i \in DOMAIN refs : refs[i] = h /\ \A k \in 1..(i - 1) : refs[k] # h)],
                        !.said = [@ EXCEPT !.refs = [i \in DOMAIN refs |-> name(first, i)]]])
    /\ UNCHANGED starts

(* The ordinals of the records, and the persist that makes them durable;   *)
(* in the encoded response the first record of a ref replaces them all.    *)
PersistRefs(e) ==
    /\ job[e] # Nil /\ job[e].step = "persist"
    /\ LET j == job[e]
           refs == j.for.refs
           mapped[i \in 0..Len(refs)] ==
              IF i = 0 THEN memory[e] ELSE store_ordinal_alias_deferred(mapped[i - 1], j.said.refs[i], refs[i])
           free == \A i \in DOMAIN refs : OrdinalFree(mapped[i - 1], j.said.refs[i], refs[i])
           upto == IF free THEN Len(refs)
                   ELSE CHOOSE i \in 0..(Len(refs) - 1) :
                          /\ ~OrdinalFree(mapped[i], j.said.refs[i + 1], refs[i + 1])
                          /\ \A k \in 1..i : OrdinalFree(mapped[k - 1], j.said.refs[k], refs[k])
           cheaper == [refs |-> Replaced(refs, j.names), text |-> Replaced(j.for.text, j.names)]
       IN  \/ /\ ~free /\ memory' = [memory EXCEPT ![e] = mapped[upto]] /\ Emit(e, j, j.for)
              /\ UNCHANGED <<disk, sidecar, behind, deleted, faults>>
           \/ free /\ Persist(e, mapped[upto], FALSE) /\ Emit(e, j, j.for)
           \/ free /\ Persist(e, mapped[upto], TRUE)
              /\ \/ Emit(e, j, j.for)
                 \/ alias_repeated_paths_and_symbols_if_changed(e,
                       [j EXCEPT !.said = cheaper, !.names = [v \in {} |-> Nil]])
    /\ UNCHANGED starts

(* store_blob: the value itself, with what else is pending. *)
StoreValue(e) ==
    /\ job[e] # Nil /\ job[e].step = "store"
    /\ \/ Persist(e, memory[e], TRUE) /\ Continue(e, [job[e] EXCEPT !.step = "reserve"])
       \/ Persist(e, memory[e], FALSE) /\ Skip(e)
    /\ UNCHANGED starts

(* Its handle is registered, an ordinal reserved and mapped; a value that  *)
(* is no dearer than its ordinal, or whose ordinal is taken, is skipped    *)
(* with what was registered left in memory.                                *)
ReserveValue(e) ==
    /\ job[e] # Nil /\ job[e].step = "reserve"
    /\ \E r \in register_session_visible_alias(memory[e], Head(job[e].values)) :
       \E first \in {FirstFree(e, r.state), Nil} :
         /\ reserve_ordinal_range(e, r.state, 1, first)
         /\ IF first = Nil THEN Skip(e)
            ELSE Continue(e, [job[e] EXCEPT !.step = "mapped", !.names = (Head(job[e].values) :> first) @@ @])
    /\ UNCHANGED starts

PersistValue(e) ==
    /\ job[e] # Nil /\ job[e].step = "mapped"
    /\ LET v == Head(job[e].values)
           name == job[e].names[v]
           state == store_ordinal_alias_deferred(memory[e], name, v)
           without == [job[e] EXCEPT !.values = Tail(@), !.names = [u \in DOMAIN @ \ {v} |-> @[u]]]
       IN  \/ /\ OrdinalFree(memory[e], name, v) /\ Persist(e, state, TRUE) /\ Skip(e)
           \/ /\ OrdinalFree(memory[e], name, v) /\ Persist(e, state, FALSE)
              /\ alias_repeated_paths_and_symbols_if_changed(e, without)
           \/ /\ memory' = [memory EXCEPT ![e] = state]
              /\ alias_repeated_paths_and_symbols_if_changed(e, without)
              /\ UNCHANGED <<disk, sidecar, behind, deleted, faults>>
    /\ UNCHANGED starts

-----------------------------------------------------------------------------
(* A process ends; the next one loads the store. *)
Restart(e) ==
    /\ Fault
    /\ memory' = [memory EXCEPT ![e] = IF disk = Nil THEN empty ELSE disk]
    /\ behind' = IF disk = Nil THEN behind \cup {e} ELSE behind \ {e}
    /\ job' = [job EXCEPT ![e] = Nil]
    /\ UNCHANGED <<disk, sidecar, shown, deleted, starts>>

(* Somebody deletes the store; the sidecar stays. *)
Delete ==
    /\ disk # Nil /\ Fault /\ disk' = Nil /\ deleted' = deleted + 1
    /\ behind' = Engines
    /\ UNCHANGED <<memory, sidecar, job, shown, starts>>

ShortRefsInit ==
    /\ memory = [e \in Engines |-> empty] /\ disk = Nil /\ sidecar = 0
    /\ behind = Engines /\ job = [e \in Engines |-> Nil]
    /\ shown = {} /\ deleted = 0 /\ faults = 0 /\ starts = 0

ShortRefsNext ==
    \/ \E e \in Engines :
        \/ \E h \in FullRefs : ensure_session_visible_alias(e, h)
        \/ \E response \in Responses :
              apply_session_visible_aliases_in_text(e, response) \/ apply_session_visible_ref_aliases(e, response)
        \/ PersistBatch(e) \/ ReserveRefs(e) \/ PersistRefs(e)
        \/ StoreValue(e) \/ ReserveValue(e) \/ PersistValue(e) \/ Restart(e)
    \/ Delete

ShortRefsSpec == ShortRefsInit /\ [][ShortRefsNext]_srvars

-----------------------------------------------------------------------------
(* Read back in the engine that showed it, or in any process that loads    *)
(* the store, what was emitted is what it stands for: every ordinal        *)
(* expands to what it replaced, and every handle to its target or, after a *)
(* collision, is refused.  Once the store was deleted an ordinal is refused *)
(* and never expands to anything else; the key of the handles is gone with *)
(* the store, so nothing is said of them.                                  *)
ShownTextsRecover ==
    \A s \in shown : \A state \in {memory[s.by]} \cup ({disk} \ {Nil}) :
        LET recovers(said, means) ==
              \/ said = means
              \/ said \in Names /\ resolve_alias(state, said) = means
              \/ said \in Ordinals /\ s.life # deleted /\ resolve_alias(state, said) = Nil
              \/ said \in Handles /\ (s.life # deleted \/ resolve_alias(state, said) = Nil)
        IN  /\ \A i \in DOMAIN s.means.refs : recovers(s.said.refs[i], s.means.refs[i])
            /\ \A i \in DOMAIN s.means.text : recovers(s.said.text[i], s.means.text[i])
=============================================================================
