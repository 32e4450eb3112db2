------------------------------- MODULE Capsule -------------------------------
(***************************************************************************)
(* What the engine shows of a text that is over its token budget (core/src *)
(* /lib.rs, core/src/tokens.rs): summaries of lines, the budget that cuts  *)
(* them, the cue that names where the rest can be had, and the rule that   *)
(* nothing is left out silently; and what it shows of a command that has   *)
(* run (render_shell, core/src/shell_policy, core/src/render).  All of it  *)
(* is pure.                                                                *)
(*                                                                         *)
(* A text is a sequence of lines.  A source line <<"line", k>> is of a     *)
(* kind k with a cost and traits (what the scans for words look for); the  *)
(* lines a summary adds are <<tag, argument>>.  The head, tail and context *)
(* sizes of the code are the scaled constants Sizes.                       *)
(***************************************************************************)
EXTENDS Integers, Sequences, SequencesExt, FiniteSets

CONSTANTS LineCost,    \* kind -> tokens
          Traits,      \* kind -> subset of {"blank", "error", "warn", "critical", "dense",
                       \*                    "sig", "diff", "mode", "policy", "sentinel",
                       \*     of a command: "secret", "anchor", "boiler", "protected", "cont",
                       \*                    "pass", "noise", "summary", "finished", "progress",
                       \*                    "rule", "dir", "file", "number", "table", "name",
                       \*                    "unwell", "abnormal"}
          Norm,        \* kind -> the kind with its digit runs normalised
          MarkerCost,  \* tag -> tokens
          Sizes,       \* the head, tail and context sizes
          NoRef

Line(k) == <<"line", k>>
Empty == <<"empty", 0>>
Omitted(n) == <<"omitted", n>>       \* "... omitted n lines; exact ref available ..."
Lossy(ref) == IF ref = NoRef THEN <<"lossy", ref>> ELSE <<"lossyref", ref>>
Cue(ref) == <<"cue", ref>>           \* "... omitted by visible budget; expand ref ..."
Sentinel(ref) == <<"sentinel", ref>> \* the entry that stands for elided JSON

Is(line, trait) == line[1] = "line" /\ trait \in Traits[line[2]]
Blank(line) == line = Empty \/ Is(line, "blank")
PriceOf(line) == IF line[1] \in {"line", "masked", "path"} THEN LineCost[line[2]] ELSE MarkerCost[line[1]]
Price(line) == IF line[1] = "joined" THEN FoldLeft(LAMBDA n, l : n + PriceOf(l), 0, line[2]) ELSE PriceOf(line)
count_tokens(text) == FoldLeft(LAMBDA n, line : n + Price(line), 0, text)

trim_end(text) == SubSeq(text, 1, Max({0} \cup {i \in DOMAIN text : ~Blank(text[i])}))
Holds(text, part) ==
  \E i \in 0..(Len(text) - Len(part)) : SubSeq(text, i + 1, i + Len(part)) = part
First(text, n) == SubSeq(text, 1, Min({n, Len(text)}))
Final(text, n) == SubSeq(text, Len(text) - Min({n, Len(text)}) + 1, Len(text))
Less(a, b) == Max({a - b, 0})

(* What a reader can find in the text: a reference, a declaration. *)
Names(text, ref) == \E line \in Range(text) : line[1] \in {"lossyref", "cue", "sentinel", "combined_ref"} /\ line[2] = ref
Declares(text) == \E line \in Range(text) : line[1] \in {"lossy", "lossyref"}
Quotes(text, trait) ==
  \E line \in Range(text) : Is(line, trait) \/ (line[1] = "joined" /\ \E l \in Range(line[2]) : Is(l, trait))
SaysMode(text) == Declares(text) \/ Quotes(text, "mode")
SaysPolicy(text) == Declares(text) \/ Quotes(text, "policy")

-----------------------------------------------------------------------------
(* The views of a text that is too long. *)

summarize_lines(text, size, prefix) ==
  IF Len(text) <= size[1] + size[2] + Sizes.slack
  THEN prefix \o trim_end(text)
  ELSE prefix \o First(text, size[1]) \o <<Empty, Omitted(Len(text) - (size[1] + size[2])), Empty>>
              \o Final(text, size[2])

(* One marker for every gap between the lines that are kept. *)
WithGaps(text, keep) ==
  LET gap(i) == Max({j \in i..Len(text) : \A m \in i..j : m \notin keep}) - i + 1
      view[i \in 1..(Len(text) + 1)] ==
        CASE i > Len(text) -> <<>>
          [] i \in keep -> <<text[i]>> \o view[i + 1]
          [] OTHER -> <<Omitted(gap(i))>> \o view[i + gap(i)]
  IN view[1]

keyword_window_view(text, radius, trait) ==
  LET keep == {i \in DOMAIN text :
                 \E hit \in DOMAIN text : Is(text[hit], trait) /\ hit - radius <= i /\ i <= hit + radius}
  IN IF keep = {} THEN <<>> ELSE WithGaps(text, keep)

error_block(text) == keyword_window_view(text, Sizes.radius, "error")

compact_head_tail(lines, context) ==
  IF Len(lines) <= 2 * context + Sizes.keep
  THEN lines
  ELSE First(lines, context) \o <<Omitted(Len(lines) - 2 * context)>> \o Final(lines, context)

(* Runs of three equal lines collapse, and with `structural', as the shell *)
(* asks, runs of four that differ in digits only; critical lines stay.     *)
dedupe_lines_impl(text, context, structural) ==
  LET normal(line) == IF line[1] = "line" THEN Line(Norm[line[2]]) ELSE line
      run(i, same(_)) == Max({j \in i..Len(text) : \A m \in i..j : same(text[m])}) - i + 1
      rest[i \in 1..(Len(text) + 1)] ==
        IF i > Len(text) THEN <<>>
        ELSE LET line == text[i]
                 exact == run(i, LAMBDA l : l = line)
                 similar == run(i, LAMBDA l : ~Is(l, "critical") /\ normal(l) = normal(line))
             IN CASE structural /\ Is(line, "critical") -> <<line>> \o rest[i + 1]
                  [] exact >= 3 -> <<line, <<"repeated", exact - 1>>>> \o rest[i + exact]
                  [] structural /\ similar >= 4 -> <<line, <<"similar", similar - 1>>>> \o rest[i + similar]
                  [] OTHER -> SubSeq(text, i, i + exact - 1) \o rest[i + exact]
  IN compact_head_tail(rest[1], context)

diff_summary(text) ==
  LET changed == First(SelectSeq(text, LAMBDA line : Is(line, "diff")), Sizes.diff)
  IN IF changed = <<>> THEN summarize_lines(text, Sizes.auto, <<>>) ELSE changed

(* Head, declarations and tail.  The marker is written without a line end: *)
(* the first line of the tail runs on in its line, and without             *)
(* declarations it runs on in the last line of the head.                   *)
summarize_code(text, budget, prefix) ==
  LET head == First(text, Sizes.code[1])
      tail == Final(text, Min({Sizes.code[2], Len(text) - Len(head)}))
      sigs == SelectSeq(First(text, Sizes.codeScan), LAMBDA line : Is(line, "sig"))
      marker == <<Omitted(Len(text) - Len(head) - Len(tail)), tail[1]>>
  IN CASE Len(text) <= Sizes.codeMin -> prefix \o trim_end(text)
       [] sigs = <<>> -> prefix \o Front(head) \o <<<<"joined", <<Last(head)>> \o marker>>>> \o SubSeq(tail, 2, Len(tail))
       [] OTHER -> prefix \o head \o <<Empty, <<"declarations", 0>>>> \o First(sigs, budget \div Sizes.perSig)
                     \o <<<<"joined", marker>>>> \o SubSeq(tail, 2, Len(tail))

(* The keys of a JSON text, or else its lines. *)
summarize_json(text, json, prefix) ==
  IF ~json THEN summarize_lines(text, Sizes.diffview, prefix)
  ELSE prefix \o <<<<"keys", Len(text)>>>> \o [i \in 1..Min({Len(text), Sizes.keys}) |-> <<"key", i>>]
              \o <<<<"stored", 0>>>>

(* Errors and warnings first, or else head and tail. *)
summarize_logs(text, budget, prefix) ==
  LET errors == SelectSeq(text, LAMBDA line : Is(line, "error"))
      warns == SelectSeq(text, LAMBDA line : Is(line, "warn") /\ ~Is(line, "error"))
      labelled(tag, lines, limit) == IF lines = <<>> THEN <<>> ELSE <<<<tag, Len(lines)>>>> \o First(lines, limit)
      head == First(text, Sizes.logs[1])
      tail == Final(text, Min({Sizes.logs[2], Len(text) - Len(head)}))
      gap == Len(text) - Len(head) - Len(tail)
  IN prefix \o (IF errors = <<>> /\ warns = <<>>
                THEN head \o (IF gap > 0 THEN <<Omitted(gap)>> ELSE <<>>) \o tail
                ELSE labelled("errors", errors, budget \div Sizes.perLog)
                     \o labelled("warnings", warns, budget \div (2 * Sizes.perLog))
                     \o <<<<"total", Len(text)>>>>)

(* Lines by what they tell, critical ones whatever they cost, in a soft    *)
(* budget; a short line between two that are kept is kept.                 *)
summarize_tokens(text, budget, prefix) ==
  LET n == Len(text)
      score(i) == CASE Is(text[i], "critical") -> 100 [] Blank(text[i]) -> 0
                    [] OTHER -> Max({1, (IF i <= Sizes.edge \/ i + Sizes.edge > n THEN 60 ELSE 0)
                                        + (IF Is(text[i], "dense") THEN 30 ELSE 0)})
      order == SortSeq([i \in 1..n |-> i], LAMBDA a, b : score(a) > score(b) \/ (score(a) = score(b) /\ a < b))
      pick == FoldLeft(LAMBDA acc, i :
                         IF score(i) >= 100 \/ (score(i) # 0 /\ acc.spent + Price(text[i]) + Sizes.gapCost <= budget)
                         THEN [kept |-> acc.kept \cup {i}, spent |-> acc.spent + Price(text[i])] ELSE acc,
                       [kept |-> {}, spent |-> 0], order).kept
      fill == FoldLeft(LAMBDA kept, i :
                         IF {i - 1, i + 1} \subseteq kept /\ Price(text[i]) <= Sizes.gapCost THEN kept \cup {i} ELSE kept,
                       pick, [i \in 1..Less(n, 2) |-> i + 1])
  IN CASE budget = 0 \/ count_tokens(text) <= budget \/ n <= Sizes.few -> prefix \o trim_end(text)
       [] fill = {} -> summarize_lines(text, Sizes.diagnostic, prefix)
       [] OTHER -> prefix \o WithGaps(text, fill)

-----------------------------------------------------------------------------
(* The budget.  A JSON text keeps a prefix of its entries behind a         *)
(* sentinel and is otherwise replaced; plain text keeps a prefix of lines. *)

(* The longest prefix, of at most `limit' lines, that fits after `first'.  *)
FittingPrefix(lines, first, limit, budget) ==
  First(lines, Max({n \in 0..Min({limit, Len(lines)}) : n = 0 \/ count_tokens(<<first>> \o First(lines, n)) <= budget}))

elide_top_level_json(text, budget, ref) ==
  IF (\E line \in Range(text) : Is(line, "sentinel")) \/ Price(Sentinel(ref)) > budget
  THEN <<>>
  ELSE <<Sentinel(ref)>> \o FittingPrefix(text, Sentinel(ref), Less(Len(text), 1), budget)

(* An elision that failed is empty. *)
ElidedOr(elided, ref) == IF elided = <<>> THEN <<Lossy(ref)>> ELSE elided

enforce_token_budget_with_ref(text, budget, ref, json) ==
  CASE count_tokens(text) <= budget -> text
    [] json -> ElidedOr(elide_top_level_json(text, budget, ref), ref)
    [] Price(Lossy(ref)) > budget -> <<Lossy(ref)>>
    [] OTHER -> <<Lossy(ref)>> \o FittingPrefix(text, Lossy(ref), Len(text), budget)

-----------------------------------------------------------------------------
(* Capsules. *)

effective_policy(mode) ==
  CASE mode = "hybrid" -> "auto" [] mode = "critical" -> "diagnostic"
    [] mode \in {"fidelity", "lossy"} -> "structured" [] OTHER -> mode

(* A reference is of a recovery scheme or not, bare or with a selector     *)
(* that the expander may or may not parse.                                 *)
exact_recovery_ref(ref) ==
  CASE ref \in {"foreign", NoRef} -> NoRef [] ref = "blob" -> "blob#bytes" [] OTHER -> ref
exact_ref_has_selector(ref) == ref \in {"blob#bytes", "blob#lines", "blob#symbol"}

(* The label as it is, shortened, or the word "source". *)
capsule_prefix(label, budget, raw) ==
  LET room == Max({Less(budget, raw), Sizes.label})
      cost(tag) == MarkerCost[tag]
  IN CASE label = "none" -> <<>>
       [] budget = 0 \/ cost("label") <= room -> <<<<"label", 0>>>>
       [] cost("compact") <= room \/ cost("compact") < cost("label") -> <<<<"compact", 0>>>>
       [] OTHER -> <<<<"source", 0>>>>

(* Bytes left out need the whole text, a selector that is in the text, or  *)
(* a declaration of the loss.  (No constructor sets protected anchors.)    *)
validate_omission_rule(capsule, original) ==
  \/ Holds(capsule.text, trim_end(original))
  \/ \E ref \in capsule.exact_refs : exact_ref_has_selector(ref) /\ Names(capsule.text, ref)
  \/ /\ capsule.mode = "lossy" /\ capsule.lossy_spans > 0
     /\ SaysMode(capsule.text) /\ SaysPolicy(capsule.text)

apply_never_worse_passthrough(capsule, original) ==
  IF count_tokens(trim_end(original)) < capsule.visible_tokens
  THEN [capsule EXCEPT !.text = trim_end(original), !.visible_tokens = count_tokens(trim_end(original)),
                       !.omitted_lines = 0, !.exact_refs = {}, !.lossy_spans = 0, !.mode = "passthrough"]
  ELSE capsule

(* The reference is named in the text, where a reader can find it. *)
Referenced(capsule, ref) ==
  LET text == IF Names(capsule.text, ref) THEN capsule.text ELSE Append(capsule.text, Cue(ref))
  IN [capsule EXCEPT !.text = text, !.visible_tokens = IF Names(capsule.text, ref) THEN @ ELSE count_tokens(text),
                     !.exact_refs = @ \cup {ref}]

(* The loss is declared, unless the whole text costs no more. *)
DeclaredAs(capsule, cut) ==
  [capsule EXCEPT !.mode = "lossy", !.lossy_spans = 1, !.text = cut, !.visible_tokens = count_tokens(cut)]

DeclaredOr(capsule, text, original, budget) ==
  IF count_tokens(text) >= count_tokens(original)
  THEN [capsule EXCEPT !.text = original, !.visible_tokens = count_tokens(original), !.omitted_lines = 0]
  ELSE DeclaredAs(capsule, enforce_token_budget_with_ref(text, budget, NoRef, FALSE))

Declared(capsule, original, budget) ==
  DeclaredOr(capsule, IF SaysMode(capsule.text) THEN capsule.text ELSE Append(capsule.text, Lossy(NoRef)),
             original, budget)

Validated(capsule, original) ==
  IF validate_omission_rule(capsule, original) THEN capsule ELSE [capsule EXCEPT !.ok = FALSE]

finalize_capsule_omission(capsule, original, budget, ref) ==
  LET whole == trim_end(original)
      final == CASE Holds(capsule.text, whole) -> capsule
                 [] exact_ref_has_selector(ref) -> Referenced(capsule, ref)
                 [] OTHER -> Declared(capsule, whole, budget)
  IN Validated(apply_never_worse_passthrough(final, original), original)

NewCapsule(text, visible, tokens, raw, mode) ==
  [ok |-> TRUE, text |-> visible, visible_tokens |-> tokens, raw_tokens |-> raw, mode |-> mode,
   omitted_lines |-> Less(Len(text), Len(visible)), exact_refs |-> {}, lossy_spans |-> 0]

View(text, raw, mode, budget, prefix) ==
  LET policy == effective_policy(mode)
  IN CASE policy = "exact" -> prefix \o <<<<"stored", 0>>>>
       [] policy = "passthrough" -> prefix \o trim_end(text)
       [] policy = "diagnostic" /\ error_block(text) = <<>> -> summarize_lines(text, Sizes.diagnostic, prefix)
       [] policy = "diagnostic" -> prefix \o trim_end(error_block(text))
       [] policy = "structured" -> summarize_lines(text, Sizes.structured, prefix)
       [] policy = "dedupe" -> prefix \o trim_end(dedupe_lines_impl(text, Sizes.context, FALSE))
       [] policy = "diff-aware" -> prefix \o trim_end(diff_summary(text))
       [] policy = "auto" /\ (budget = 0 \/ raw <= budget) -> prefix \o trim_end(text)
       [] OTHER -> summarize_lines(text, Sizes.auto, prefix)

(* A view is JSON when it is the whole of a JSON source, without a label. *)
CutView(view, text, json, mode, budget, exact) ==
  IF effective_policy(mode) = "passthrough" THEN view
  ELSE enforce_token_budget_with_ref(view, budget, exact, json /\ view = trim_end(text))

CapsuleOf(text, visible, raw, mode, budget, exact) ==
  finalize_capsule_omission(NewCapsule(text, visible, count_tokens(visible), raw, mode), text, budget, exact)

(* The text itself, when the view that was cut costs more. *)
CheaperCapsule(text, cut, raw, mode, budget, exact) ==
  LET fallback == count_tokens(cut) > raw /\ count_tokens(trim_end(text)) < count_tokens(cut)
  IN CapsuleOf(text, IF fallback THEN trim_end(text) ELSE cut, raw,
               IF fallback THEN "passthrough" ELSE mode, budget, exact)

make_capsule_with_recovery_ref(text, json, raw, mode, budget, label, ref) ==
  LET exact == exact_recovery_ref(ref)
      view == View(text, raw, mode, budget, capsule_prefix(label, budget, raw))
  IN CheaperCapsule(text, CutView(view, text, json, mode, budget, exact), raw, mode, budget, exact)

(* The summary by the type of the content. *)
make_capsule_content_aware(text, json, raw, type, budget, label, ref, aggressive) ==
  LET prefix == capsule_prefix(label, budget, raw)
      exact == exact_recovery_ref(ref)
      room == IF aggressive THEN budget \div 3 ELSE budget
      view == CASE type = "code" -> summarize_code(text, room, prefix)
                [] type = "logs" -> summarize_logs(text, room, prefix)
                [] type = "json" -> summarize_json(text, json, prefix)
                [] type = "diff" -> summarize_lines(text, Sizes.diffview, prefix)
                [] type = "search" -> summarize_lines(text, Sizes.search, prefix)
                [] OTHER -> summarize_lines(text, Sizes.auto, prefix)
  IN IF ~aggressive /\ (budget = 0 \/ raw <= budget)
     THEN make_capsule_with_recovery_ref(text, json, raw, "auto", budget, label, ref)
     ELSE CapsuleOf(text, CutView(view, text, json, "auto", budget, exact), raw,
                    IF aggressive THEN "exact" ELSE "auto", budget, exact)

-----------------------------------------------------------------------------
(* What a command is.  A command c that has run has the lines of its       *)
(* streams (each ended by a newline, none with a carriage return), its     *)
(* exit code or NoExit, and what the parser makes of its text: its kind,   *)
(* the exit 1 that only says "false" (c.false), how its segments are       *)
(* joined (c.joined), the segment and the words in its output that tell of *)
(* a failure (c.failed, c.evidence), the lines it asks for (c.head,        *)
(* c.context), whether its toolchain is a noisy one.                       *)

NoExit == -1
AllBlank(text) == trim_end(text) = <<>>
Some(text, trait) == \E i \in DOMAIN text : Is(text[i], trait)
Both(c) == c.stdout \o <<Empty>> \o c.stderr             \* "{stdout}\n{stderr}"

shell_stream_output(c) ==
  LET combined == c.stdout \o (IF c.stderr = <<>> THEN <<>> ELSE <<<<"stderr", 0>>>> \o c.stderr)
  IN IF combined = <<>> /\ c.exit # 0 THEN <<<<"exit_code", c.exit>>>> ELSE combined

shell_raw_tokens(c) == MarkerCost["command"] + count_tokens(shell_stream_output(c))

shell_family(c) ==
  CASE c.kind # "plain" -> c.kind
    [] Some(Both(c), "table") -> "status"
    [] c.json # "no" -> "structured"
    [] Some(Both(c), "critical") -> "diagnostic"
    [] OTHER -> "generic"

is_search_no_match(c) == c.exit = 1 /\ c.kind = "search"
is_expected_false_exit(c) ==
  /\ c.exit = 1 /\ AllBlank(c.stderr)
  /\ c.false = "always" \/ (c.false = "silent" /\ AllBlank(c.stdout))

failed_segment(c) == c.failed /\ ~is_search_no_match(c) /\ ~is_expected_false_exit(c)
masking_warning(c) ==
  /\ ~(c.kind = "inventory" /\ c.exit = 0 /\ AllBlank(c.stderr))
  /\ c.joined # "alone"
  /\ c.evidence \/ (c.exit = 0 /\ failed_segment(c))

command_succeeded(c) == ~c.timed_out /\ (c.exit = 0 \/ is_search_no_match(c) \/ is_expected_false_exit(c))
command_status_label(c) ==
  CASE c.timed_out -> "command_timeout"
    [] c.exit = 0 /\ failed_segment(c) -> "pipeline_masked"
    [] command_succeeded(c) -> "command_success"
    [] c.exit = NoExit -> "command_unknown"
    [] OTHER -> "command_failed"

repeated_line_count(text) == Cardinality({i \in 2..Len(text) : text[i] = text[i - 1] /\ ~Blank(text[i])})

is_diagnostic_shell_policy(c) ==
  \/ shell_family(c) \in {"test", "build", "lint"}
  \/ failed_segment(c) \/ masking_warning(c)
  \/ c.exit \notin {0, NoExit}
  \/ Some(shell_stream_output(c), "critical")

auto_shell_policy(c) ==
  LET combined == shell_stream_output(c)
      hazard == failed_segment(c) \/ masking_warning(c)
  IN CASE c.kind = "inventory" -> "structured"
       [] c.kind = "diff" -> "diff-aware"
       [] c.kind = "search" /\ ~hazard /\ (c.exit = 0 \/ is_search_no_match(c)) -> "structured"
       [] is_expected_false_exit(c) -> "structured"
       [] c.head[1] # "all" -> "structured"
       [] is_diagnostic_shell_policy(c) -> "diagnostic"
       [] shell_family(c) \in {"search", "structured", "status"} -> "structured"
       [] repeated_line_count(combined) >= Sizes.repeats \/ Len(combined) > Sizes.long -> "dedupe"
       [] OTHER -> "passthrough"

decide_shell_policy(c) ==
  IF effective_policy(c.mode) = "auto" THEN auto_shell_policy(c) ELSE effective_policy(c.mode)

-----------------------------------------------------------------------------
(* The views of its output.  An entry of a list is the line it quotes. *)

inventory_stats(text) ==
  LET entries == SelectSeq(text, LAMBDA l : ~Blank(l) /\ ~Is(l, "rule"))
      others == SelectSeq(entries, LAMBDA l : ~Is(l, "dir"))
  IN [dirs |-> Len(entries) - Len(others), files |-> Len(SelectSeq(others, LAMBDA l : Is(l, "file"))),
      other |-> Len(SelectSeq(others, LAMBDA l : ~Is(l, "file"))),
      paths |-> others, counts |-> SelectSeq(entries, LAMBDA l : Is(l, "number"))]

Counted(tag, n) == IF n = 0 THEN <<>> ELSE <<<<tag, n>>>>
Listed(tag, lines) == IF lines = <<>> THEN <<>> ELSE <<<<tag, 0>>>> \o lines

repo_inventory_view(text) ==
  LET stats == inventory_stats(text)
  IN <<<<"inventory", 0>>, <<"command", 0>>, <<"files", stats.files>>, <<"dirs", stats.dirs>>>>
     \o Counted("others", stats.other)
     \o Listed("counts", First(stats.counts, Sizes.counts)) \o Listed("paths", First(stats.paths, Sizes.paths))

compact_repo_inventory_view(text) ==
  LET stats == inventory_stats(text)
      short(l) == <<"path", l[2]>>                         \* its last two components
  IN <<<<"inventory", 0>>, <<"files", stats.files>>>>
     \o Counted("dirs", stats.dirs) \o Counted("others", stats.other)
     \o <<<<"paths", 0>>>> \o [i \in 1..Min({Len(stats.paths), Sizes.sample}) |-> short(stats.paths[i])]

search_shell_view(c) ==
  LET matches == SelectSeq(c.stdout, LAMBDA l : ~Blank(l))
      diagnostics == SelectSeq(c.stderr, LAMBDA l : Is(l, "critical"))
      limit == Max({Sizes.matches, (c.context + 1) * Sizes.perContext})
  IN <<<<"search", 0>>, <<"matches", Len(matches)>>>>
     \o Listed("diagnostics", First(diagnostics, Sizes.diagnostics))
     \o Listed("paths", First(matches, limit))
     \o Counted("omitted", Less(Len(matches), limit))

json_summary(c) ==
  CASE c.json = "object" -> [i \in 1..Min({Len(c.stdout), Sizes.keys}) |-> <<"key", i>>]
    [] c.json = "array" -> SelectSeq(First(c.stdout, Sizes.keys), LAMBDA l : Is(l, "abnormal"))
    [] OTHER -> <<>>

structured_shell_view(c) ==
  LET unwell == SelectSeq(First(Both(c), Sizes.table), LAMBDA l : Is(l, "unwell") \/ Is(l, "name"))
      take == Min({c.head[2], Sizes.head})
  IN CASE c.kind = "inventory" -> repo_inventory_view(c.stdout)
       [] c.kind = "search" -> search_shell_view(c)
       [] c.json # "no" -> <<<<"keys", Len(c.stdout)>>>> \o json_summary(c)
       [] Some(Both(c), "table") /\ unwell # <<>> -> <<<<"status_summary", 0>>>> \o unwell
       [] c.head[1] = "tail" -> summarize_lines(Both(c), <<0, take>>, <<>>)
       [] c.head[1] = "head" -> summarize_lines(Both(c), <<take, 0>>, <<>>)
       [] OTHER -> summarize_lines(Both(c), Sizes.shell, <<>>)

critical_lines(text) == keyword_window_view(text, Sizes.critical, "critical")

(* The budget with no reference; a view that is the JSON of stdout is JSON. *)
enforce_token_budget(c, text) ==
  enforce_token_budget_with_ref(text, c.budget, NoRef, c.json \in {"object", "array"} /\ trim_end(text) = trim_end(c.stdout))

diagnostic_shell_view(c) ==
  LET critical == critical_lines(Both(c))
  IN enforce_token_budget(c, IF AllBlank(critical) THEN summarize_lines(Both(c), Sizes.failure, <<>>) ELSE critical)

diagnostic_shell_view_with_tail(c) ==
  LET tail(tag, text) == Listed(tag, Final(SelectSeq(text, LAMBDA l : ~Blank(l)), Sizes.final))
      both == <<tail("final_stdout", c.stdout), tail("final_stderr", c.stderr)>>
      apart(a, b) == IF a = <<>> \/ b = <<>> THEN a \o b ELSE a \o <<Empty>> \o b
      tails == apart(both[1], both[2])
      critical == critical_lines(Both(c))
      new == \E l \in Range(critical) : ~Blank(l) /\ l \notin Range(tails)
      view == IF new THEN apart(tails, Listed("critical", trim_end(critical))) ELSE tails
  IN enforce_token_budget(c, IF AllBlank(view) THEN summarize_lines(Both(c), Sizes.failure, <<>>) ELSE view)

mask_visible_secrets(text) == [i \in DOMAIN text |-> IF Is(text[i], "secret") THEN <<"masked", text[i][2]>> ELSE text[i]]

(* The collapsed view of a noisy toolchain's success: what is recognised   *)
(* as noise is counted, critical lines and the lines that continue them    *)
(* are kept, and so is the beginning of the rest.                          *)
success_noise_view(c) ==
  LET absorbed == {"noise", "summary", "finished", "progress"}
      step(s, l) ==
        CASE Blank(l) -> [s EXCEPT !.block = FALSE]
          [] Is(l, "pass") -> [s EXCEPT !.block = FALSE, !.collapsed = @ + 1]
          [] Is(l, "critical") -> [s EXCEPT !.block = TRUE, !.kept = Append(@, l)]
          [] \E t \in absorbed : Is(l, t) ->
               [s EXCEPT !.block = FALSE, !.seen = TRUE,
                         !.collapsed = IF Is(l, "noise") \/ Is(l, "progress") THEN @ + 1 ELSE @,
                         !.summary = IF Is(l, "summary") THEN Append(@, l) ELSE @,
                         !.progress = IF Is(l, "progress") THEN @ \cup {l} ELSE @]
          [] s.block /\ Is(l, "cont") -> [s EXCEPT !.kept = Append(@, l)]
          [] OTHER -> [s EXCEPT !.block = FALSE, !.other = @ + 1,
                                !.kept = IF s.other < Sizes.other THEN Append(@, l) ELSE @]
      tally == FoldLeft(step, [block |-> FALSE, seen |-> FALSE, collapsed |-> 0, summary |-> <<>>,
                               progress |-> {}, kept |-> <<>>, other |-> 0],
                        c.stdout \o c.stderr)
  IN IF ~c.noisy \/ (tally.collapsed = 0 /\ ~tally.seen)
     THEN <<>>
     ELSE <<<<"collapsed", tally.collapsed>>>> \o tally.summary \o SetToSeq(tally.progress) \o tally.kept
          \o Counted("more", Less(tally.other, Sizes.other))

-----------------------------------------------------------------------------
(* The rendering. *)

safe_auto_success(c) ==
  /\ effective_policy(c.mode) = "auto" /\ command_succeeded(c)
  /\ ~c.timed_out /\ ~failed_segment(c) /\ ~masking_warning(c)

should_compact_tiny_shell(c) ==
  /\ safe_auto_success(c) /\ c.exit = 0 /\ decide_shell_policy(c) = "passthrough"
  /\ AllBlank(c.stderr) /\ Len(c.stdout) <= Sizes.tinyLines /\ count_tokens(c.stdout) <= Sizes.tinyTokens

should_compact_short_failure_shell(c) ==
  LET combined == shell_stream_output(c)
  IN /\ effective_policy(c.mode) = "auto" /\ decide_shell_policy(c) = "diagnostic"
     /\ ~command_succeeded(c) /\ c.exit # NoExit /\ ~c.timed_out /\ c.ref # NoRef
     /\ ~AllBlank(c.stdout) \/ ~AllBlank(c.stderr)
     /\ ~Some(combined, "secret") /\ ~Some(combined, "protected")
     /\ count_tokens(combined) <= Sizes.shortTokens /\ Len(combined) <= Sizes.shortLines
     /\ Some(combined, "critical") \/ failed_segment(c)

should_compact_repo_inventory_shell(c) ==
  /\ safe_auto_success(c) /\ c.exit = 0 /\ decide_shell_policy(c) = "structured" /\ c.kind = "inventory"
  /\ AllBlank(c.stderr) /\ c.ref # NoRef
  /\ count_tokens(c.stdout) <= Sizes.shortTokens /\ Len(c.stdout) <= Sizes.invLines

(* The one line that tells most of a short failure. *)
compact_diagnostic_shell_view(c) ==
  LET lines == SelectSeq(c.stdout \o c.stderr, LAMBDA l : ~Blank(l) /\ ~Is(l, "boiler"))
      anchors == SelectSeq(lines, LAMBDA l : Is(l, "anchor"))
      critical == SelectSeq(lines, LAMBDA l : Is(l, "critical"))
      best == CASE anchors # <<>> -> anchors [] critical # <<>> -> critical [] OTHER -> lines
  IN IF best = <<>> THEN <<<<"see_ref", 0>>>> ELSE <<best[1]>>

shell_success_summary_budget(budget) == IF budget = 0 THEN Sizes.success ELSE Min({Sizes.success, budget})

PolicyView(c, policy) ==
  LET combined == shell_stream_output(c)
  IN CASE policy \in {"exact", "passthrough"} -> combined
       [] policy = "diagnostic" /\ c.exit = 0 /\ masking_warning(c) -> diagnostic_shell_view_with_tail(c)
       [] policy = "diagnostic" -> diagnostic_shell_view(c)
       [] policy = "structured" -> structured_shell_view(c)
       [] policy = "dedupe" -> dedupe_lines_impl(combined, Sizes.context, TRUE)
       [] policy = "diff-aware" -> diff_summary(combined)
       [] OTHER -> summarize_lines(combined, Sizes.auto, <<>>)

(* The view of the policy; of a success with a reference, the collapsed    *)
(* view and then the squeezed one, where they cost less; masked.           *)
MaskedBody(policy, body, compacted) ==
  [text |-> IF policy \in {"exact", "passthrough"} THEN body ELSE mask_visible_secrets(body), compacted |-> compacted]

SqueezedBody(policy, best, squeezed, squeezable, collapse) ==
  LET squeeze == squeezable /\ count_tokens(squeezed) < count_tokens(best)
  IN MaskedBody(policy, IF squeeze THEN squeezed ELSE best, collapse \/ squeeze)

BestBody(c, policy, compact, best, collapse) ==
  LET room == shell_success_summary_budget(c.budget)
  IN SqueezedBody(policy, best, summarize_tokens(best, room, <<>>),
                  compact /\ policy \in {"dedupe", "passthrough", "diagnostic"} /\ count_tokens(best) > room,
                  collapse)

CollapsedBody(c, policy, compact, view, noise) ==
  LET collapse == /\ compact /\ noise # <<>>
                  /\ \/ count_tokens(noise) < count_tokens(view)
                     \/ policy = "diagnostic" /\ 2 * count_tokens(noise) <= shell_raw_tokens(c)
  IN BestBody(c, policy, compact, IF collapse THEN noise ELSE view, collapse)

build_shell_body(c, policy) ==
  CollapsedBody(c, policy, safe_auto_success(c) /\ c.ref # NoRef /\ policy # "exact",
                PolicyView(c, policy), success_noise_view(c))

CombinedRef(c) == IF c.ref = NoRef THEN <<>> ELSE <<<<"combined_ref", c.ref>>>>

push_shell_status(c) ==
  <<<<"exit_code", c.exit>>>>
  \o (IF failed_segment(c) THEN <<<<"failed_segment", 0>>>> ELSE <<>>)
  \o (IF masking_warning(c) THEN <<<<"masking_warning", 0>>>> ELSE <<>>)
  \o (IF masking_warning(c) /\ c.joined = "pipeline" THEN <<<<"rerun", 0>>>> ELSE <<>>)

format_shell_status_header(c, policy, body) ==
  <<<<"shell", 0>>, <<"command", 0>>, <<"policy", policy>>, <<"status", command_status_label(c)>>,
    <<"success", command_succeeded(c)>>>>
  \o push_shell_status(c) \o CombinedRef(c) \o <<Empty>> \o trim_end(body)

format_minimal_shell_ok(c, body) == <<<<"ok", 0>>>> \o CombinedRef(c) \o trim_end(body)

compact_diagnostic_shell_capsule(c, body) ==
  <<<<"shell", 0>>, <<"status", command_status_label(c)>>>> \o push_shell_status(c)
  \o <<<<"stream_ref", IF c.stderr = <<>> THEN "stdout" ELSE "stderr">>>>
  \o CombinedRef(c) \o <<Empty>> \o trim_end(body)

Rendered(c, strategy, policy, visible) ==
  [visible |-> visible, strategy |-> strategy, policy |-> policy, status |-> command_status_label(c),
   omitted |-> Less(Len(shell_stream_output(c)), Len(visible))]

finalize_shell_visible(c, policy, body) ==
  LET full == format_shell_status_header(c, policy, body.text)
      least == format_minimal_shell_ok(c, body.text)
      minimal == /\ count_tokens(full) > shell_raw_tokens(c) \/ body.compacted
                 /\ safe_auto_success(c) /\ count_tokens(least) < count_tokens(full)
  IN Rendered(c, CASE body.compacted -> "success" [] minimal -> "minimal" [] OTHER -> "adaptive", policy,
              enforce_token_budget(c, IF minimal THEN least ELSE full))

render_shell(c) ==
  LET policy == decide_shell_policy(c)
      tiny == IF AllBlank(c.stdout) THEN <<<<"ok", 0>>>> ELSE trim_end(c.stdout)
  IN CASE should_compact_tiny_shell(c) -> Rendered(c, "tiny", policy, tiny)
       [] should_compact_short_failure_shell(c) ->
            Rendered(c, "failure", policy, enforce_token_budget(
              c, compact_diagnostic_shell_capsule(c, compact_diagnostic_shell_view(c))))
       [] should_compact_repo_inventory_shell(c) ->
            Rendered(c, "inventory", policy, enforce_token_budget(
              c, compact_repo_inventory_view(c.stdout) \o CombinedRef(c)))
       [] OTHER -> finalize_shell_visible(c, policy, build_shell_body(c, policy))

(* A repeat of a success that the caller has verified to be unchanged. *)
render_shell_repeat(c, seen) ==
  LET visible == <<<<"unchanged", seen>>>> \o CombinedRef(c)
  IN IF seen >= 2 /\ safe_auto_success(c) /\ c.ref # NoRef /\ count_tokens(visible) < shell_raw_tokens(c)
     THEN Rendered(c, "repeat", "passthrough", enforce_token_budget(c, visible))
     ELSE render_shell(c)
=============================================================================
