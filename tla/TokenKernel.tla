----------------------------- MODULE TokenKernel -----------------------------
(***************************************************************************)
(* The token engine of the kernel (kernel/src/lib.rs): measure, certify,   *)
(* project, compress and expand over a content-addressed store.  Compress  *)
(* builds the capsules of Capsule and counts them with its own tokenizer,  *)
(* a BPE that joins adjacent pieces, so that a longer prefix may cost      *)
(* less; without a model it counts as the capsule does.                    *)
(*                                                                         *)
(* A projection is cut at characters: a blob is a sequence of characters   *)
(* of one or three bytes and of bytes that are not UTF-8.  The request and *)
(* answer types and the store are external (zero_abi, zero_store).         *)
(***************************************************************************)
EXTENDS Capsule, TLC

CONSTANTS Sources,      \* what is compressed: [text, json]
          Requests,     \* [mode, budget, label]
          Types, Refs,  \* content types, recovery references
          Commands,     \* what has run (Capsule)
          Blobs,        \* what is projected
          Limits,       \* visible_byte_limit
          BpeCost,      \* kind -> tokens of the BPE
          Joins,        \* <<kind, kind>> -> tokens saved when they are adjacent
          MinLimit,     \* 80
          MarkerBytes,  \* bytes and tokens of "\nexact: <handle>"
          MarkerTokens,
          StoreFaults,  \* "put", "metadata"
          MaxCalls      \* bound

VARIABLES bound,   \* whether a model with a BPE is bound
          cas,     \* what the store holds
          meta,    \* what has metadata
          answer,  \* of the last call
          calls

kvars == <<bound, cas, meta, answer, calls>>

-----------------------------------------------------------------------------
(* Counting. *)

BpeOf(line) == IF line[1] = "line" THEN BpeCost[line[2]] ELSE Price(line)
bpe(text) ==
  LET pair(i) == <<text[i][2], text[i + 1][2]>>
      saved(i) == IF /\ i < Len(text) /\ text[i][1] = "line" /\ text[i + 1][1] = "line"
                     /\ pair(i) \in DOMAIN Joins
                  THEN Joins[pair(i)] ELSE 0
  IN FoldLeft(LAMBDA n, i : n + BpeOf(text[i]) - saved(i), 0, [i \in 1..Len(text) |-> i])

Accounting(tokenizer, n, certified) ==
  [tokenizer |-> tokenizer, billed |-> n, visible |-> n, cached |-> 0, certified |-> certified]

count(text) == IF bound THEN Accounting("tiktoken", bpe(text), TRUE)
               ELSE Accounting("estimator", count_tokens(text), FALSE)

(* Characters: 1 and 3 bytes, and "x", a byte that is not UTF-8. *)
Width(c) == IF c = 3 THEN 3 ELSE 1
bytes(blob) == FoldLeft(LAMBDA n, c : n + Width(c), 0, blob)
Utf8(blob) == \A i \in DOMAIN blob : blob[i] # 0
from_utf8_lossy(blob) == [i \in DOMAIN blob |-> IF blob[i] = 0 THEN 3 ELSE blob[i]]
CountBlob(blob, marker) ==
  IF Utf8(blob) THEN Accounting(IF bound THEN "tiktoken" ELSE "estimator", (Len(blob) + 1) \div 2 + marker, bound)
  ELSE Accounting("bytes", bytes(blob), FALSE)

account_mass(a) == [raw |-> a.billed, visible |-> a.visible, recovered |-> a.cached,
                    spent |-> a.visible + a.cached]

-----------------------------------------------------------------------------
Init == bound \in BOOLEAN /\ cas = {} /\ meta = {} /\ answer = NoRef /\ calls = 0

Answers(a) == calls' = calls + 1 /\ answer' = a /\ UNCHANGED bound
Fails(op, why) == Answers([op |-> op, error |-> why]) /\ UNCHANGED <<cas, meta>>

(* Every operation looks at the cancellation token first, and only then. *)
Cancelled == \E op \in {"measure", "certify", "project", "compress", "expand"} : Fails(op, "cancelled")

(* store_exact: the object, then its metadata; either may fail. *)
StoreThen(op, content, a) ==
  \/ cas' = cas \cup {content} /\ meta' = meta \cup {content} /\ Answers(a)
  \/ "put" \in StoreFaults /\ Fails(op, "corrupt")
  \/ /\ "metadata" \in StoreFaults /\ cas' = cas \cup {content} /\ UNCHANGED meta
     /\ Answers([op |-> op, error |-> "corrupt"])

Measure ==
  \E s \in Sources : /\ Answers([op |-> "measure", source |-> s.text, accounting |-> count(s.text)])
                     /\ UNCHANGED <<cas, meta>>

(* The longest prefix that fits, tried from the end. *)
clamp_visible_to_budget(text, budget) ==
  LET ends == {n \in 0..Len(text) : count(SubSeq(text, 1, n)).billed <= budget}
      end == IF count(text).billed <= budget THEN Len(text) ELSE Max(ends \cup {0})
  IN [visible |-> SubSeq(text, 1, end), truncated |-> end # Len(text)]

(* Auto tries the digests that may be shorter, when the text is long; the  *)
(* kernel's own count decides.                                             *)
CheaperOf(best, c, raw) ==
  IF c.ok /\ count(c.text).billed < raw /\ count(c.text).billed < count(best.text).billed THEN c ELSE best

BestCapsule(s, r) ==
  LET raw == count(s.text).billed
      make(mode) == make_capsule_with_recovery_ref(s.text, s.json, raw, mode, r.budget, r.label, "blob")
      others(first) == IF first.ok /\ r.mode = "auto" /\ Len(s.text) > Sizes.oversized
                       THEN <<"dedupe", "structured">> ELSE <<>>
      best(first) == FoldLeft(LAMBDA c, mode : CheaperOf(c, make(mode), raw), first, others(first))
  IN best(make(r.mode))

passthrough_compression(text) ==
  [op |-> "compress", source |-> text, from |-> text, visible |-> text, truncated |-> FALSE, omitted |-> 0,
   accounting |-> count(text)]

(* The capsule, or the text itself when the capsule costs more. *)
Compressed(s, r, capsule, clamped) ==
  LET raw == count(s.text)
      seen == Min({count(clamped.visible).billed, r.budget})
  IN IF count(capsule.text).billed > raw.billed \/ seen > raw.billed
     THEN passthrough_compression(s.text)
     ELSE [op |-> "compress", source |-> s.text, from |-> capsule.text, visible |-> clamped.visible,
           truncated |-> clamped.truncated, omitted |-> Less(raw.billed, seen),
           accounting |-> [raw EXCEPT !.visible = seen]]

CompressAnswer(s, r, capsule) ==
  IF capsule.ok
  THEN Compressed(s, r, capsule, clamp_visible_to_budget(capsule.text, r.budget)) @@ [budget |-> r.budget]
  ELSE [op |-> "compress", error |-> "budget"]

Compress ==
  \E s \in Sources, r \in Requests :
    IF r.budget = 0 \/ r.mode = "unknown"
    THEN Fails("compress", "invalid")
    ELSE StoreThen("compress", s.text, CompressAnswer(s, r, BestCapsule(s, r)))

(* The longest head on a character boundary, and the marker. *)
bounded_utf8(blob, limit) ==
  Max({n \in 0..Len(blob) : n = 0 \/ bytes(SubSeq(blob, 1, n)) <= Less(limit, MarkerBytes)})

Projection(blob, limit) ==
  LET raw == CountBlob(blob, 0)
      head == SubSeq(from_utf8_lossy(blob), 1, bounded_utf8(from_utf8_lossy(blob), limit))
      seen == CountBlob(head, MarkerTokens)
      whole == [op |-> "project", source |-> blob, head |-> blob, size |-> bytes(blob), exact |-> FALSE,
                limit |-> limit, accounting |-> raw]
  IN IF seen.visible > raw.billed /\ Utf8(blob) THEN whole
     ELSE [whole EXCEPT !.head = head, !.size = bytes(head) + Min({MarkerBytes, limit}), !.exact = TRUE,
                        !.accounting = [raw EXCEPT !.visible = seen.visible,
                                                   !.certified = @ /\ seen.certified]]

Project ==
  \E blob \in Blobs, limit \in Limits :
    CASE bytes(blob) <= limit /\ Utf8(blob) ->
           /\ Answers([op |-> "project", source |-> blob, head |-> blob, size |-> bytes(blob),
                       exact |-> FALSE, limit |-> limit, accounting |-> CountBlob(blob, 0)])
           /\ UNCHANGED <<cas, meta>>
      [] limit < MinLimit -> Fails("project", "budget")
      [] OTHER -> StoreThen("project", blob, Projection(blob, limit))

(* A claim is recomputed; it is taken from an earlier answer or made up. *)
Certify ==
  \E s \in Sources, claim \in {count(t.text) : t \in Sources} :
    /\ Answers([op |-> "certify", source |-> s.text, claim |-> claim, matches |-> count(s.text) = claim])
    /\ UNCHANGED <<cas, meta>>

(* cas.expand: what the handle names, or an error. *)
Expand ==
  \E content \in cas :
    /\ answer.op # "expand" /\ answer' = [op |-> "expand", source |-> content]
    /\ UNCHANGED <<bound, cas, meta, calls>>

(* The engine's reads and ingests make capsules of their own, with the     *)
(* reference the recovery store gave them, if any ...                      *)
MakeCapsule ==
  \E s \in Sources, r \in Requests, ref \in Refs :
    LET raw == count_tokens(s.text)
        capsules == {make_capsule_with_recovery_ref(s.text, s.json, raw, r.mode, r.budget, r.label, ref)}
                    \cup {make_capsule_content_aware(s.text, s.json, raw, type, r.budget, r.label, ref, aggressive) :
                             type \in Types, aggressive \in BOOLEAN}
    IN /\ r.mode # "unknown"
       /\ \E c \in capsules : Answers([op |-> "capsule", source |-> s.text, capsule |-> c, ref |-> ref,
                                       budget |-> r.budget])
       /\ UNCHANGED <<cas, meta>>

(* ... and the rendering of a command asks for summaries. *)
Summarize ==
  \E s \in Sources, r \in Requests :
    /\ \/ \E view \in {summarize_tokens(s.text, r.budget, <<>>), keyword_window_view(s.text, 0, "critical")} :
            Answers([op |-> "critical", source |-> s.text, visible |-> view])
       \/ Answers([op |-> "summary", source |-> s.text,
                   visible |-> summarize_lines(s.text, Sizes.diagnostic, <<>>)])
    /\ UNCHANGED <<cas, meta>>

Dedupe ==
  \E s \in Sources, structural \in BOOLEAN :
    /\ Answers([op |-> IF structural THEN "critical" ELSE "summary", source |-> s.text,
                visible |-> dedupe_lines_impl(s.text, Len(s.text), structural)])
    /\ UNCHANGED <<cas, meta>>

(* The engine's shell renders a command; run is how often the caller has   *)
(* seen the same output.                                                   *)
RenderShell ==
  \E c \in Commands, run \in 1..2 :
    /\ Answers([op |-> "shell", source |-> c, shell |-> render_shell_repeat(c, run)])
    /\ UNCHANGED <<cas, meta>>

Next ==
  \/ calls < MaxCalls /\ (Cancelled \/ Measure \/ Compress \/ Project \/ Certify
                          \/ MakeCapsule \/ Summarize \/ Dedupe \/ RenderShell)
  \/ Expand

Spec == Init /\ [][Next]_kvars

-----------------------------------------------------------------------------
Answered(op) == answer # NoRef /\ answer.op = op /\ "error" \notin DOMAIN answer

(* A compression or projection never costs more than what it stands for,   *)
(* and keeps to its budget unless it is the text itself; what it says it   *)
(* shows is what the tokenizer counts, no longer prefix would have fitted, *)
(* what it says it left out is the rest, and the exact content is in the   *)
(* store with its metadata.                                                *)
CompressionHonest ==
  /\ Answered("compress") =>
       LET a == answer.accounting IN
       /\ a.visible <= a.billed /\ a.visible = count(answer.visible).billed
       /\ answer.omitted = a.billed - a.visible
       /\ a.visible <= answer.budget \/ answer.visible = answer.source
       /\ \A n \in (Len(answer.visible) + 1)..Len(answer.from) :
            count(SubSeq(answer.from, 1, n)).billed > answer.budget
       /\ account_mass(a).spent <= account_mass(a).raw
       /\ answer.source \in cas \cap meta
  /\ Answered("project") =>
       /\ answer.exact => answer.size <= answer.limit /\ answer.source \in cas \cap meta
       /\ ~answer.exact => answer.head = answer.source
       /\ Utf8(answer.source) => /\ answer.accounting.visible <= answer.accounting.billed
                                 /\ IsPrefix(answer.head, answer.source)

(* Nothing is left out silently: a capsule is the whole text, or names in  *)
(* its text where the rest is, or declares the loss; its count is that of  *)
(* its text, no more than that of the source, and at most a marker over    *)
(* the budget.  It is refused only where the source itself talks of        *)
(* "mode=lossy" and no usable reference was given.                         *)
CapsulesDeclareLoss ==
  Answered("capsule") =>
    LET c == answer.capsule
        whole == trim_end(answer.source)
        ref == exact_recovery_ref(answer.ref)
    IN /\ c.ok => /\ Holds(c.text, whole) \/ (exact_ref_has_selector(ref) /\ Names(c.text, ref)) \/ Declares(c.text)
                  /\ c.visible_tokens = count_tokens(c.text) /\ c.visible_tokens <= count_tokens(whole)
                  /\ \/ c.text = whole
                     \/ c.visible_tokens <= answer.budget + MarkerCost["lossyref"] + MarkerCost["cue"]
       /\ ~c.ok => ~exact_ref_has_selector(ref) /\ \E i \in DOMAIN whole : Is(whole[i], "mode")

(* A summary accounts for every line: the lines it shows, in their order,  *)
(* and the counts of its markers add up to the text; and no critical line  *)
(* is left out of the views that promise to keep them.                     *)
SummariesAddUp ==
  /\ Answered("summary") \/ Answered("critical") =>
       LET stands(line) == CASE line[1] \in {"omitted", "repeated", "similar"} -> line[2]
                             [] line = Empty -> 0 [] OTHER -> 1
           total == FoldLeft(LAMBDA n, line : n + stands(line), 0, answer.visible)
       IN answer.visible # <<>> => total \in {Len(answer.source), Len(trim_end(answer.source))}
  /\ Answered("critical") => SelectSeq(answer.visible, LAMBDA line : Is(line, "critical"))
                              = SelectSeq(answer.source, LAMBDA line : Is(line, "critical"))

(* A command that failed, timed out or may hide a failure is never shown   *)
(* as a success: its status and the warning are in the text, or the text   *)
(* declares that the budget cut it.  With a combined reference, as the     *)
(* engine always has one, every line of its output is shown or the         *)
(* reference is in the text; the lines that tell of a failure are shown    *)
(* (of a short failure, the first), whatever was squeezed out of the rest, *)
(* unless the caller asked for a form without them; an inventory counts    *)
(* every entry.  Only the tiny form and a lone declaration may be over     *)
(* the budget.                                                             *)
CommandsShown ==
  Answered("shell") =>
    LET c == answer.source
        r == answer.shell
        lines == SelectSeq(c.stdout \o c.stderr, LAMBDA l : ~Blank(l))
        cut == \E l \in Range(r.visible) : l[1] \in {"lossy", "sentinel"}
        shows(l) == \E v \in Range(r.visible) : v[1] \in {"line", "masked", "path"} /\ v[2] = l[2]
        failure == c.timed_out \/ ~command_succeeded(c) \/ failed_segment(c) \/ masking_warning(c)
        telling == SelectSeq(lines, LAMBDA l : Is(l, "critical") /\ ~(c.noisy /\ Is(l, "pass")))
        entries == FoldLeft(LAMBDA n, l : IF l[1] \in {"files", "dirs", "others"} THEN n + l[2] ELSE n, 0, r.visible)
    IN /\ c.timed_out \/ c.exit = NoExit => <<"success", TRUE>> \notin Range(r.visible)
       /\ failure => /\ r.strategy \in {"adaptive", "failure"}
                     /\ cut \/ (/\ <<"status", r.status>> \in Range(r.visible)
                                /\ r.status # "command_success" \/ masking_warning(c)
                                /\ masking_warning(c) => <<"masking_warning", 0>> \in Range(r.visible))
       /\ c.ref # NoRef => cut \/ Names(r.visible, c.ref) \/ \A i \in DOMAIN lines : shows(lines[i])
       /\ /\ r.strategy # "repeat"
          /\ \/ r.policy \in {"diagnostic", "passthrough"}
             \/ r.policy = "dedupe" /\ effective_policy(c.mode) = "auto"
          => cut \/ IF r.strategy = "failure" THEN telling = <<>> \/ \E i \in DOMAIN telling : shows(telling[i])
                    ELSE \A i \in DOMAIN telling : shows(telling[i])
       /\ c.kind = "inventory" /\ r.policy = "structured" =>
            cut \/ entries = Len(SelectSeq(c.stdout, LAMBDA l : ~Blank(l) /\ ~Is(l, "rule")))
       /\ \/ r.strategy = "tiny" \/ count_tokens(r.visible) <= c.budget
          \/ r.visible = <<Lossy(NoRef)>>
=============================================================================
