---------------------------- MODULE DecisionView ---------------------------
(***************************************************************************)
(* Decision views and the model artifacts under them                       *)
(* (core/src/decision_view.rs, core/src/model_artifacts.rs): sections are  *)
(* validated against the view's identity, ordered, framed and tokenized,   *)
(* and the part a provider may cache is measured.  A caller builds a view  *)
(* section by section, reorders commutative sections, replaces volatile    *)
(* ones and renders again.  A rendered byte string is a sequence of cells: *)
(* one for the view's first line, and for each section one for its header,  *)
(* one per payload byte and one for the newline.                           *)
(***************************************************************************)
EXTENDS Naturals, Sequences, FiniteSets, SequencesExt

CONSTANTS Pool,          \* sections the caller has at hand
          Adapters,      \* tokenizers: what they join, and how they may be wrong
          Grades,        \* completeness grades, strongest first
          Evidence, Bodies, \* reference lists and (prefix, tail) pairs to form capsules of
          MaxSections, MaxCells, MaxPageTokens, MaxEvidence, MaxPayload

VARIABLES draft,         \* the sections of the view, in the caller's order
          adapter,       \* the tokenizer in use
          grade,         \* completeness declared with the view
          slots,         \* AppendOnlyCapsuleSlots: payload formed per causal key
          view           \* DecisionView rendered last, of the draft as it stands

viewVars == <<draft, adapter, grade, slots, view>>

Unscored == 0       \* no survival score; a score s is stored as s + 1
Absent == "absent"  \* an identity digest a section does not carry
Identity == [tokenizer |-> "tok", tools |-> "tools", root |-> "root", profile |-> "profile"]

StableKinds == {"stable_project_capsule", "stable_system_tool_contract",
                "stable_task_family_capsule", "stable_typed_effect_schema"}
KindOrder == <<"stable_project_capsule", "stable_system_tool_contract",
  "stable_task_family_capsule", "stable_typed_effect_schema", "volatile_locus_evidence",
  "volatile_recovery_routes", "volatile_uncertainty_coverage", "volatile_user_task",
  "volatile_working_tree_delta">>
Rank(kind) == CHOOSE i \in DOMAIN KindOrder : KindOrder[i] = kind
is_stable(s) == s.kind \in StableKinds
Scored(s) == s.score # Unscored

(* ModelCapsule: evidence references are sorted and deduplicated, so a set; *)
(* the payload is the stable prefix followed by the dynamic tail.           *)
capsule_contract_root(root, profile, tokenizer) == <<root, profile, tokenizer>>
FormationReceipt(contract, dependencies, payload) ==
  [contract_root |-> contract, dependency_roots |-> dependencies, payload_root |-> payload, epoch |-> 0]
ModelCapsule(key, receipt, tokenizer, evidence, prefix, tail) ==
  [causal_key |-> key, receipt |-> receipt, tokenizer |-> tokenizer, root |-> Identity.root,
   profile |-> Identity.profile, evidence |-> {evidence[i] : i \in DOMAIN evidence},
   payload |-> prefix \o tail, prefix_len |-> Len(prefix)]
CapsuleFits(evidence, prefix, tail) == Len(evidence) <= MaxEvidence /\ Len(prefix) + Len(tail) <= MaxPayload

(* ModelCapsule::new from token maps of one tokenizer, and from_formed with *)
(* a receipt the caller brings, which must bind the payload.                *)
new_capsule(tokenizer, mapTokenizer, evidence, prefix, tail) ==
  IF tokenizer # mapTokenizer \/ ~CapsuleFits(evidence, prefix, tail) THEN {}
  ELSE {ModelCapsule(Identity.root,
          FormationReceipt(capsule_contract_root(Identity.root, Identity.profile, tokenizer),
                           {evidence[i] : i \in DOMAIN evidence}, prefix \o tail),
          tokenizer, evidence, prefix, tail)}
from_formed(key, receipt, tokenizer, evidence, prefix, tail) ==
  IF ~CapsuleFits(evidence, prefix, tail) \/ receipt.payload_root # prefix \o tail THEN {}
  ELSE {ModelCapsule(key, receipt, tokenizer, evidence, prefix, tail)}

(* from_map, from_capsule and the volatile constructors: which digests of   *)
(* the identity a section of each kind is bound to.                         *)
from_map(kind, payload, tokenizer, source) ==
  [kind |-> kind, payload |-> payload, score |-> Unscored, tokenizer |-> tokenizer,
   tools |-> IF kind = "stable_typed_effect_schema" THEN source ELSE Absent,
   root |-> Absent, profile |-> Absent]
from_capsule(kind, capsule) ==
  [kind |-> kind, payload |-> capsule.payload, score |-> Unscored, tokenizer |-> capsule.tokenizer,
   tools |-> Absent, root |-> capsule.root, profile |-> capsule.profile]
volatile_recovery_routes(payload) ==
  [kind |-> "volatile_recovery_routes", payload |-> payload, score |-> Unscored,
   tokenizer |-> Absent, tools |-> Absent, root |-> Absent, profile |-> Absent]
with_survival_score_bps(s, score) == [s EXCEPT !.score = score + 1]

-----------------------------------------------------------------------------
(* Order *)

PayloadBefore(p, q) ==
  \/ Len(p) < Len(q) /\ IsPrefix(p, q)
  \/ \E i \in 1..Len(p) : /\ i <= Len(q) /\ p[i] < q[i]
                          /\ \A j \in 1..(i - 1) : p[j] = q[j]

Before(l, r) ==
  \/ l.score > r.score
  \/ l.score = r.score /\ Rank(l.kind) < Rank(r.kind)
  \/ l.score = r.score /\ l.kind = r.kind /\ PayloadBefore(l.payload, r.payload)

(* The maximal run of scored sections of one class around position i.       *)
Run(ss, i) == {j \in DOMAIN ss : \A k \in DOMAIN ss :
  (k \in i..j \/ k \in j..i) => Scored(ss[k]) /\ is_stable(ss[k]) = is_stable(ss[i])}

(* Mutant: equal scores keep the caller's order. *)
SortByScoreOnly(ss) ==
  [i \in DOMAIN ss |->
    IF ~Scored(ss[i]) THEN ss[i]
    ELSE LET run == Run(ss, i)
             Ahead(j) == {k \in run : ss[k].score > ss[j].score \/ (ss[k].score = ss[j].score /\ k < j)}
         IN ss[CHOOSE j \in run : Cardinality(Ahead(j)) = Cardinality({k \in run : k < i})]]

sort_commutative_runs(ss) ==
  [i \in DOMAIN ss |->
    IF ~Scored(ss[i]) THEN ss[i]
    ELSE LET run == Run(ss, i)
             Ahead(j) == {k \in run : Before(ss[k], ss[j]) \/ (~Before(ss[j], ss[k]) /\ k < j)}
         IN ss[CHOOSE j \in run : Cardinality(Ahead(j)) = Cardinality({k \in run : k < i})]]

StableFirst(ss) == \A i, j \in DOMAIN ss : i < j /\ is_stable(ss[j]) => is_stable(ss[i])

-----------------------------------------------------------------------------
(* Bytes and tokens *)

append_section(s) ==
  <<<<"h", Rank(s.kind), Len(s.payload)>>>> \o [i \in DOMAIN s.payload |-> <<"p", 0, s.payload[i]>>]
    \o <<<<"n", 0, 0>>>>
Banner == <<<<"t", 0, 0>>>>
Framed(ss) == FoldLeft(LAMBDA bytes, s : bytes \o append_section(s), Banner, ss)

(* A tokenizer cuts the cells everywhere except between the pairs it joins. *)
encode(cells, a) ==
  LET Step(pieces, i) ==
        IF i > 1 /\ <<cells[i - 1][1], cells[i][1]>> \in a.joins
        THEN [pieces EXCEPT ![Len(pieces)] = Append(@, cells[i])] ELSE Append(pieces, <<cells[i]>>)
      pieces == FoldLeft(Step, <<>>, [i \in DOMAIN cells |-> i])
  IN CASE a.fault = "none" -> pieces
       [] a.fault = "drops_last" -> Front(pieces)
       [] a.fault = "empty_token" -> Append(pieces, <<>>)

(* The end of every token, behind the start of the first.                   *)
token_ends(pieces) == FoldLeft(LAMBDA ends, p : Append(ends, Last(ends) + Len(p)), <<0>>, pieces)

TokenMap(pieces, ends) == [pieces |-> pieces, ends |-> ends]

(* Mutant: what is left over at the end is not noticed. *)
NoLengthCheck(source, pieces) ==
  {TokenMap(pieces, ends) : ends \in {e \in {token_ends(pieces)} :
     \A t \in DOMAIN pieces : pieces[t] # <<>> /\ pieces[t] = SubSeq(source, e[t] + 1, e[t + 1])}}

(* from_token_pieces: no token is empty, every token's bytes are the next   *)
(* bytes of the source, and nothing is left over.  No map if one fails.     *)
from_token_pieces(source, pieces) ==
  {TokenMap(pieces, ends) : ends \in {e \in {token_ends(pieces)} :
     /\ \A t \in DOMAIN pieces : pieces[t] # <<>> /\ pieces[t] = SubSeq(source, e[t] + 1, e[t + 1])
     /\ Last(e) = Len(source)}}

tokenize(a, source) == from_token_pieces(source, encode(source, a))
reconstruct(map) == FlattenSeq(map.pieces)
byte_range_for_tokens(map, from, to) == <<map.ends[from + 1], map.ends[to + 1]>>
token_boundary(map, offset) == {n \in 0..Len(map.pieces) : map.ends[n + 1] = offset}
token_range_for_bytes(map, from, to) == token_boundary(map, from) \X token_boundary(map, to)

(* TokenPage::new and expand: a bounded, non-empty slice of a map.          *)
TokenPage(map, from, to) ==
  [bytes |-> byte_range_for_tokens(map, from, to), tokens |-> SubSeq(map.pieces, from + 1, to)]
expand(page) == FlattenSeq(page.tokens)
Pages(map) == {r \in (0..Len(map.pieces)) \X (0..Len(map.pieces)) :
                 r[1] < r[2] /\ r[2] - r[1] <= MaxPageTokens}

-----------------------------------------------------------------------------
(* render_with_metadata *)

Bound(s) == \A field \in DOMAIN Identity : s[field] = Absent \/ s[field] = Identity[field]

StablePrefixGeometry(bytes, tokens) == [identity |-> Identity, bytes |-> bytes, tokens |-> tokens]
compare(p, q) == IF p.identity # q.identity THEN "identity_changed"
                 ELSE IF p.bytes = q.bytes THEN "prefix_identical" ELSE "prefix_bytes_changed"

Admissible(ss, a) ==
  /\ Len(ss) <= MaxSections /\ a.identity = Identity.tokenizer /\ StableFirst(ss)
  /\ \A i \in DOMAIN ss : Bound(ss[i])

DecisionView(ordered, cells, boundary, map, after, metadata) ==
  [rendered |-> cells, map |-> map, metadata |-> metadata,
   prefix |-> StablePrefixGeometry(SubSeq(cells, 1, boundary), after),
   volatile_tokens |-> Len(map.pieces) - after,
   sections |-> [i \in DOMAIN ordered |-> <<ordered[i].kind, ordered[i].score>>]]

Frame(ordered, cells, boundary, a, metadata) ==
  UNION {{DecisionView(ordered, cells, boundary, map, after, metadata) :
            after \in token_boundary(map, boundary)} : map \in tokenize(a, cells)}

(* The view, or nothing: a view that fails a check is an error.             *)
render_with_metadata(ss, a, metadata) ==
  IF ~Admissible(ss, a) THEN {}
  ELSE UNION {IF Len(cells) > MaxCells THEN {}
              ELSE Frame(sort_commutative_runs(ss), cells, Len(Framed(SelectSeq(ss, is_stable))), a, metadata) :
                cells \in {Framed(sort_commutative_runs(ss))}}

-----------------------------------------------------------------------------
Init ==
  /\ draft = <<>> /\ adapter \in Adapters
  /\ grade = Len(Grades)
  /\ slots = {}
  /\ view = render_with_metadata(<<>>, adapter, Len(Grades))

Render == view' = render_with_metadata(draft', adapter, grade')

Add(s) ==
  /\ Len(draft) <= MaxSections
  /\ draft' = Append(draft, s)
  /\ UNCHANGED <<adapter, grade, slots>> /\ Render

(* The caller hands two neighbours of one commutative run the other way.    *)
Swap(i) ==
  /\ i \in 1..(Len(draft) - 1) /\ i + 1 \in Run(draft, i)
  /\ draft' = [draft EXCEPT ![i] = draft[i + 1], ![i + 1] = draft[i]]
  /\ UNCHANGED <<adapter, grade, slots>> /\ Render

(* A volatile section is replaced by another for the next request.          *)
EditVolatile(i, s) ==
  /\ i \in DOMAIN draft /\ ~is_stable(draft[i]) /\ ~is_stable(s) /\ draft[i] # s
  /\ draft' = [draft EXCEPT ![i] = s]
  /\ UNCHANGED <<adapter, grade, slots>> /\ Render

(* join keeps the weaker of two grades; grades are numbered strongest first.*)
join(g, h) == IF g > h THEN g ELSE h
Annotate(g, h) ==
  /\ grade = Len(Grades) /\ draft # <<>>
  /\ grade' = join(g, h) /\ UNCHANGED <<draft, adapter, slots>> /\ Render

(* The capsules a caller gets for one body: formed here, or brought with a  *)
(* receipt for the same or for another body.                                *)
FormedAlike(e, b) ==
  new_capsule(adapter.identity, Identity.tokenizer, e, b[1], b[2])
    \cup UNION {from_formed(Identity.root, FormationReceipt("contract", {}, x[1] \o x[2]), Absent, e, b[1], b[2]) :
                 x \in Bodies}

(* AppendOnlyCapsuleSlots::record: a key formed once keeps its capsule.     *)
record(capsule) ==
  /\ \A f \in slots : f.causal_key = capsule.causal_key => f = capsule
  /\ slots' = slots \cup {capsule}
  /\ UNCHANGED <<draft, adapter, grade, view>>

Next ==
  \/ \E s \in Pool : Add(s) \/ \E i \in DOMAIN draft : EditVolatile(i, s)
  \/ \E i \in DOMAIN draft : Swap(i)
  \/ \E g, h \in 1..Len(Grades) : Annotate(g, h)
  \/ \E e \in Evidence, b \in Bodies : \E c \in FormedAlike(e, b) : record(c)

Spec == Init /\ [][Next]_viewVars

-----------------------------------------------------------------------------
(* Handing commutative sections over in another order changes neither the   *)
(* bytes nor the digest of the view, nor whether it is accepted; and        *)
(* replacing volatile sections leaves the cacheable prefix as it was.       *)
RenderingCanonical ==
  /\ (\E i \in DOMAIN draft : Swap(i)) => view' = view
  /\ (\E i \in DOMAIN draft, s \in Pool : EditVolatile(i, s)) =>
       \A v \in view, w \in view' : compare(v.prefix, w.prefix) = "prefix_identical"

(* The tokens of an accepted view are its bytes, the prefix holds every     *)
(* stable section and only those, and each page of the token map covers     *)
(* exactly the bytes it names.                                              *)
TokensExact == \A v \in view :
  /\ reconstruct(v.map) = v.rendered
  /\ {r[2] : r \in token_range_for_bytes(v.map, 0, Len(v.prefix.bytes))} = {v.prefix.tokens}
  /\ \A r \in Pages(v.map) : \A page \in {TokenPage(v.map, r[1], r[2])} :
       /\ expand(page) = SubSeq(v.rendered, page.bytes[1] + 1, page.bytes[2])
       /\ token_range_for_bytes(v.map, page.bytes[1], page.bytes[2]) = {r}
=============================================================================
