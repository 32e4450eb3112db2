------------------------------ MODULE Expansion ------------------------------
(***************************************************************************)
(* Expanding a reference: RecoveryStore::expand and TokenZeroStore::expand *)
(* over the tiers that may hold the bytes of one object h (shared CAS,     *)
(* snapshot entry, sidecar file, a sibling engine's store), with the       *)
(* fragment grammar (#B, #L) and the line windows of the caller.           *)
(* The tiers change between two expansions: objects are published,         *)
(* collected, damaged and repaired, entries are stored, externalised and   *)
(* evicted, aliases appear and become ambiguous.                           *)
(* An object is a sequence of bytes: "a" a one-byte character, "n" the     *)
(* newline, "h" and "t" the head and the tail of a two-byte character.     *)
(***************************************************************************)
EXTENDS Naturals, Sequences, FiniteSets

CONSTANTS Bodies,    \* the contents that object h may have
          Bound      \* the largest number written in a fragment or a window

VARIABLES body, cas, local, sidecar, alias, sibling, compat

expVars == <<body, cas, local, sidecar, alias, sibling, compat>>

(* What the other object g, an alias may also point at, contains. *)
OtherBody == <<"a", "n", "a", "n", "a">>

-----------------------------------------------------------------------------
(* Text *)

utf8(c) == \A i \in 1..Len(c) :
    /\ c[i] = "h" => i < Len(c) /\ c[i + 1] = "t"
    /\ c[i] = "t" => i > 1 /\ c[i - 1] = "h"

(* Ends of the segments of split_inclusive('\n'). *)
SegmentEnds(c) == {i \in 1..Len(c) : c[i] = "n" \/ i = Len(c)}

content_line_count(c) == Cardinality(SegmentEnds(c))

SegmentEnd(c, k) ==
    IF k = 0 THEN 0
    ELSE CHOOSE e \in SegmentEnds(c) : Cardinality({d \in SegmentEnds(c) : d <= e}) = k

(* Segments lo..hi, both within the line count. *)
line_slice_exact(c, lo, hi) == SubSeq(c, SegmentEnd(c, lo - 1) + 1, SegmentEnd(c, hi))

Boundary(c, i) == i = Len(c) \/ c[i + 1] # "t"

-----------------------------------------------------------------------------
(* Fragments: what the text after '#' says, and what the parser makes of it. *)

NoFragment == [kind |-> "-", form |-> "none", a |-> 0, b |-> 0]

Fragments ==
    [kind : {"B", "L", "X"}, form : {"single"}, a : 0..Bound, b : {0}]
    \cup [kind : {"B", "L"}, form : {"range", "plus"}, a : 0..Bound, b : 0..Bound]
    \cup [kind : {"B", "L"}, form : {"empty", "duplicate", "repeated"}, a : {1}, b : {2}]

Err(why) == [ok |-> FALSE, why |-> why]
Fragment(kind, s, e) == [ok |-> TRUE, kind |-> kind, start |-> s, end |-> e]

parse_fragment_bounds_core(f) ==
    LET e == IF f.form = "single" THEN f.a ELSE f.b
    IN  IF f.form = "repeated" \/ f.form = "plus" \/ (f.kind = "L" /\ f.a = 0)
        THEN Err("fragment-malformed")
        ELSE IF f.a > e THEN Err("fragment-reversed")
        ELSE Fragment(f.kind, f.a, IF f.form = "single" /\ f.kind = "B" THEN f.a + 1 ELSE e)

parse_fragment_spec(f) ==
    CASE f.form = "empty" -> Err("fragment-malformed")
      [] f.form = "duplicate" -> Err("fragment-duplicate")
      [] f.kind = "B" /\ f.form = "plus" -> Fragment("B", f.a, f.a + f.b)
      [] OTHER -> LET p == parse_fragment_bounds_core(f)
                  IN  IF p.ok /\ f.kind = "X" THEN Err("fragment-unknown-kind") ELSE p

(* A clamp that forgets the end of the text. *)
EmbeddedWithoutClamp(c, f) ==
    IF f.kind = "B"
    THEN IF f.end > Len(c) THEN Err("fragment-out-of-range")
         ELSE [ok |-> TRUE, bytes |-> SubSeq(c, f.start + 1, f.end)]
    ELSE IF ~utf8(c) THEN Err("non-utf8-line")
         ELSE IF f.start > content_line_count(c) \/ f.end > content_line_count(c)
         THEN Err("fragment-out-of-range")
         ELSE [ok |-> TRUE, bytes |-> line_slice_exact(c, f.start, f.end)]

apply_fragment_to_bytes(c, f) ==
    IF f.kind = "B"
    THEN IF f.end > Len(c) THEN Err("fragment-out-of-range")
         ELSE [ok |-> TRUE, bytes |-> SubSeq(c, f.start + 1, f.end)]
    ELSE IF ~utf8(c) THEN Err("non-utf8-line")
         ELSE IF f.start > content_line_count(c) THEN Err("fragment-out-of-range")
         ELSE [ok |-> TRUE,
               bytes |-> line_slice_exact(c, f.start,
                            IF f.end < content_line_count(c) THEN f.end
                            ELSE content_line_count(c))]

-----------------------------------------------------------------------------
(* Requests: a reference, its fragment, the caller's line window (start 0  *)
(* when there is none; "around" is parse_around_selector's window).        *)

NoWindow == [how |-> "none", a |-> 0, b |-> 0]

Windows == [how : {"lines", "selector", "around"}, a : 0..Bound, b : 0..Bound]

RefNames == {"tz", "fz", "short"}

Requests == [ref : RefNames, frag : Fragments \cup {NoFragment}, win : {NoWindow}]
            \cup [ref : {"tz"}, frag : {NoFragment}, win : Windows]

(* The window select_content works with, after resolve_selector_line_window. *)
resolve_selector_line_window(win, spec) ==
    LET given == IF spec.ok /\ spec.kind = "L" THEN <<spec.start, spec.end>>
                 ELSE IF win.how = "lines" THEN <<win.a, win.b>>
                 ELSE <<>>
    IN  IF win.how = "selector" /\ win.a > 0 /\ win.b > 0 THEN <<win.a, win.b>>
        ELSE IF win.how = "around" /\ win.a > 0
        THEN <<IF win.a > win.b THEN win.a - win.b ELSE 1, win.a + win.b>>
        ELSE given

clamp_line_window(c, w) ==
    IF w[1] = 0 \/ w[1] > w[2] \/ w[1] > content_line_count(c)
    THEN Err("window-out-of-range")
    ELSE [ok |-> TRUE, start |-> w[1],
          end |-> IF w[2] < content_line_count(c) THEN w[2] ELSE content_line_count(c)]

expand_selected_content(c, spec, w) ==
    IF spec.ok /\ spec.kind = "B"
    THEN IF spec.end > Len(c) THEN Err("fragment-out-of-range")
         ELSE IF spec.start = spec.end THEN [ok |-> TRUE, bytes |-> <<>>]
         ELSE IF Boundary(c, spec.start) /\ Boundary(c, spec.end)
         THEN [ok |-> TRUE, bytes |-> SubSeq(c, spec.start + 1, spec.end)]
         ELSE Err("fragment-not-utf8-boundary")
    ELSE IF w = <<>> THEN [ok |-> TRUE, bytes |-> c]
    ELSE LET k == clamp_line_window(c, w)
         IN  IF k.ok THEN [ok |-> TRUE, bytes |-> line_slice_exact(c, k.start, k.end)]
             ELSE k

-----------------------------------------------------------------------------
(* Tiers *)

(* SharedCas::resolve verifies the whole object against its hash. *)
shared_cas_resolve ==
    CASE cas = "intact" -> [ok |-> TRUE, bytes |-> body]
      [] cas = "missing" -> Err("shared-cas-missing")
      [] OTHER -> Err("shared-cas-corruption")

shared_cas_utf8 ==
    IF shared_cas_resolve.ok /\ ~utf8(body) THEN Err("shared-cas-non-utf8")
    ELSE shared_cas_resolve

(* The snapshot entry of tz://blob/h; a marker reads the CAS, then the sidecar. *)
resolve_blob_value ==
    CASE local = "none" -> Err("ref-not-found")
      [] local = "inline" -> [ok |-> TRUE, bytes |-> body]
      [] local = "damaged" -> [ok |-> TRUE, bytes |-> OtherBody]
      [] local = "marker" ->
            IF shared_cas_utf8.ok THEN shared_cas_utf8
            ELSE IF cas = "missing" /\ sidecar = "intact" THEN [ok |-> TRUE, bytes |-> body]
            ELSE Err("decode-failed")

expand_in_sibling_engine_store(spec, w) ==
    IF sibling /\ utf8(body)
    THEN expand_selected_content(body, spec, w)
    ELSE Err("ref-not-found")

note_legacy_expand ==
    IF ~compat THEN "legacy-ref-disabled"
    ELSE IF alias = "ambiguous" THEN "legacy-ambiguous" ELSE "ok"

(* Where the alias chain of the request ends: object h, object g, or nowhere. *)
resolve_alias_chain(ref) == IF ref = "short" THEN alias ELSE "h"

(* A reader that trusts whatever body the snapshot holds. *)
LocalContentUnchecked(ref) == resolve_blob_value

(* Content of h found past the CAS, checked against the requested hash. *)
LocalContent(ref) ==
    LET found == resolve_blob_value
    IN  IF ~found.ok THEN found
        ELSE IF ref # "short" /\ found.bytes # body THEN Err("zeroref-corruption")
        ELSE found

(* RecoveryStore::expand *)
expand(r) ==
    LET spec == IF r.frag.form = "none" THEN Err("none") ELSE parse_fragment_spec(r.frag)
        w == resolve_selector_line_window(r.win, spec)
        target == resolve_alias_chain(r.ref)
        fromCas == shared_cas_utf8
        inSibling == expand_in_sibling_engine_store(spec, w)
    IN  IF r.frag.form # "none" /\ ~spec.ok THEN spec
        ELSE IF r.ref = "short" /\ note_legacy_expand # "ok" THEN Err(note_legacy_expand)
        ELSE IF target = "none" THEN Err("ref-not-found")
        ELSE IF target = "g" THEN expand_selected_content(OtherBody, spec, w)
        ELSE IF fromCas.ok THEN expand_selected_content(fromCas.bytes, spec, w)
        ELSE IF cas # "missing" THEN fromCas
        ELSE IF r.ref = "fz" /\ inSibling.ok THEN inSibling
        ELSE LET found == LocalContent(r.ref)
             IN  IF found.ok THEN expand_selected_content(found.bytes, spec, w) ELSE found

(* TokenZeroStore::expand: a full-hash reference never leaves the CAS. *)
embedded_expand(r) ==
    LET spec == IF r.frag.form = "none" THEN Err("none") ELSE parse_fragment_spec(r.frag)
    IN  IF r.ref = "short" THEN expand(r)
        ELSE IF r.frag.form # "none" /\ ~spec.ok THEN spec
        ELSE IF ~shared_cas_resolve.ok THEN shared_cas_resolve
        ELSE IF spec.ok THEN apply_fragment_to_bytes(shared_cas_resolve.bytes, spec)
        ELSE shared_cas_resolve

-----------------------------------------------------------------------------
(* What happens to the tiers between two expansions. *)

Init ==
    /\ body \in Bodies
    /\ cas = "missing"
    /\ local = "none"
    /\ sidecar \in {"none", "intact", "damaged"}
    /\ alias = "none"
    /\ sibling \in BOOLEAN
    /\ compat \in BOOLEAN

(* put: validated target, then cas.publish *)
put ==
    /\ cas = "missing"
    /\ cas' = "intact"
    /\ UNCHANGED <<body, local, sidecar, alias, sibling, compat>>

repair_object ==
    /\ cas = "corrupt"
    /\ cas' = "intact"
    /\ UNCHANGED <<body, local, sidecar, alias, sibling, compat>>

CasFault ==
    /\ cas = "intact"
    /\ cas' \in {"missing", "corrupt"}
    /\ UNCHANGED <<body, local, sidecar, alias, sibling, compat>>

(* store_blob: a snapshot entry holds text, so only a UTF-8 body. *)
store_blob ==
    /\ local = "none"
    /\ utf8(body)
    /\ local' = "inline"
    /\ UNCHANGED <<body, cas, sidecar, alias, sibling, compat>>

(* publish_pending_cas: the body goes to the CAS, a marker stays behind. *)
publish_pending_cas ==
    /\ local = "inline"
    /\ cas' = "intact"
    /\ local' = "marker"
    /\ UNCHANGED <<body, sidecar, alias, sibling, compat>>

drop_ref ==
    /\ local # "none"
    /\ local' = "none"
    /\ UNCHANGED <<body, cas, sidecar, alias, sibling, compat>>

LocalFault ==
    /\ local = "inline"
    /\ body # OtherBody
    /\ local' = "damaged"
    /\ UNCHANGED <<body, cas, sidecar, alias, sibling, compat>>

add_alias ==
    /\ alias \in {"none", "h", "g"}
    /\ alias' \in IF alias = "none" THEN {"h", "g"} ELSE {"ambiguous"}
    /\ UNCHANGED <<body, cas, local, sidecar, sibling, compat>>

Next == put \/ repair_object \/ CasFault \/ store_blob \/ publish_pending_cas
        \/ drop_ref \/ LocalFault \/ add_alias

Spec == Init /\ [][Next]_expVars

TypeOK ==
    /\ body \in Bodies
    /\ cas \in {"missing", "intact", "corrupt"}
    /\ local \in {"none", "inline", "damaged", "marker"}
    /\ sidecar \in {"none", "intact", "damaged"}
    /\ alias \in {"none", "h", "g", "ambiguous"}
    /\ sibling \in BOOLEAN
    /\ compat \in BOOLEAN

-----------------------------------------------------------------------------
(* Reference definitions the algorithms above are compared with: which     *)
(* positions of the object a request means, read off the grammar alone.    *)

LineOf(c, i) == 1 + Cardinality({j \in 1..(i - 1) : c[j] = "n"})

Lines(c, a, b) == {i \in 1..Len(c) : LineOf(c, i) \in a..b}

Meant(c, r) ==
    LET f == r.frag
        w == r.win
    IN  CASE f.kind = "B" /\ f.form = "single" -> (f.a + 1)..(f.a + 1)
          [] f.kind = "B" /\ f.form = "range" -> (f.a + 1)..f.b
          [] f.kind = "B" /\ f.form = "plus" -> (f.a + 1)..(f.a + f.b)
          [] f.kind = "L" /\ f.form = "single" -> Lines(c, f.a, f.a)
          [] f.kind = "L" /\ f.form = "range" -> Lines(c, f.a, f.b)
          [] w.how = "lines" \/ (w.how = "selector" /\ w.a > 0 /\ w.b > 0) -> Lines(c, w.a, w.b)
          [] w.how = "around" /\ w.a > 0 ->
                {i \in 1..Len(c) : LineOf(c, i) + w.b >= w.a /\ LineOf(c, i) <= w.a + w.b}
          [] OTHER -> 1..Len(c)

(* A request that names a selection the object has. *)
Selectable(c, r) ==
    LET f == r.frag
        w == r.win
    IN  CASE f.form \in {"empty", "duplicate", "repeated"} \/ f.kind = "X" -> FALSE
          [] f.kind = "B" -> /\ f.form = "range" => f.a <= f.b
                             /\ Meant(c, r) \subseteq 1..Len(c)
                             /\ Meant(c, r) = {} => (IF f.form = "range" THEN f.b ELSE f.a) <= Len(c)
          [] f.kind = "L" -> f.form # "plus" /\ f.a > 0 /\ Lines(c, f.a, f.a) # {}
                             /\ (f.form = "range" => f.a <= f.b)
          [] w.how = "lines" -> w.a > 0 /\ w.a <= w.b /\ Lines(c, w.a, w.a) # {}
          [] w.how = "selector" -> (w.a > 0 /\ w.b > 0) => (w.a <= w.b /\ Lines(c, w.a, w.a) # {})
          [] w.how = "around" -> w.a > 0 => Lines(c, IF w.a > w.b THEN w.a - w.b ELSE 1,
                                                     IF w.a > w.b THEN w.a - w.b ELSE 1) # {}
          [] OTHER -> TRUE

(* A byte range that cuts a two-byte character. *)
CutsCharacter(c, r) ==
    /\ r.frag.kind = "B"
    /\ \E i \in Meant(c, r) \cap 1..Len(c) :
           \/ c[i] = "t" /\ i - 1 \notin Meant(c, r)
           \/ c[i] = "h" /\ i + 1 \notin Meant(c, r)

Pick(c, P) == [k \in 1..Cardinality(P) |->
    c[CHOOSE i \in P : Cardinality({j \in P : j <= i}) = k]]

(* Some tier expand may use holds the whole object. *)
Held(r) ==
    \/ cas = "intact" /\ utf8(body)
    \/ cas = "missing" /\ local = "inline"
    \/ cas = "missing" /\ local = "marker" /\ sidecar = "intact"
    \/ cas = "missing" /\ r.ref = "fz" /\ sibling /\ utf8(body)

(* RecoveryStore::expand of a full-hash reference serves exactly the       *)
(* selection the request means of exactly the named object, whenever a     *)
(* tier holds it, and otherwise nothing: no published, evicted, damaged or *)
(* repaired tier makes it serve other bytes.                               *)
ExpandIsExact ==
    \A r \in Requests : r.ref # "short" =>
        /\ expand(r).ok <=> Held(r) /\ Selectable(body, r) /\ ~CutsCharacter(body, r)
        /\ expand(r).ok => expand(r).bytes = Pick(body, Meant(body, r))

(* The embedded store and the recovery store answer a fragment alike:      *)
(* while the CAS holds a text object, both serve the same bytes or both    *)
(* refuse, except that only the embedded store cuts a character.           *)
SurfacesAgree ==
    cas = "intact" /\ utf8(body) =>
        \A r \in Requests : r.ref # "short" /\ r.win = NoWindow =>
            LET here == expand(r)
                there == embedded_expand(r)
            IN  IF CutsCharacter(body, r) THEN ~here.ok
                ELSE here.ok = there.ok /\ (here.ok => here.bytes = there.bytes)
=============================================================================
