------------------------------ MODULE SearchOp ------------------------------
(***************************************************************************)
(* Discovery: find/grep (ripgrep child or the in-process walker), glob and *)
(* tree.  A walk is a worklist in depth-first order, one entry per step,   *)
(* while entries lose their permissions; the answer says which rows were   *)
(* found, whether the scan may have missed any, and shows them.            *)
(***************************************************************************)
EXTENDS Integers, FiniteSets, Sequences, SequencesExt

CONSTANTS Tree,          \* paths that exist: sequences of names
          Files,         \* those that are regular files
          HiddenNames,   \* names that start with a dot
          SkippedNames,  \* target, __pycache__, ...
          Worlds,        \* starting contents: hits, length, decls, blocked, linked
          Asks,          \* requests: tool, backend, roots, limit, ...
          VisitMultiplier, MinVisited, MaxVisited, WallEvery,
          MaxWalkDepth, ContextLines,
          MaxDisturbed   \* entries changed behind a scan (bound)

VARIABLES fileWorld,    \* hits and length of files, blocked and linked paths
          ask,          \* the request
          stage,        \* idle, walk (in process), rg, answered, rg_done
          todo,         \* worklist of the walk, or the roots rg has yet to scan
          rows,         \* matches collected
          tally,        \* SearchStats
          said,         \* the answer
          disturbed

searchVars == <<fileWorld, ask, stage, todo, rows, tally, said, disturbed>>

Dirs == Tree \ Files
NoStats == [visited |-> 0, unreadable |-> 0, unparsed |-> 0, byResults |-> FALSE,
            byVisit |-> FALSE, byWall |-> FALSE]
NoReply == [code |-> "none", diagnostic |-> "none", exhausted |-> FALSE, note |-> "none",
            unparsed |-> 0, shown |-> <<>>, grouped |-> FALSE]
Failure(code) == [NoReply EXCEPT !.code = code]

(***************************************************************************)
(* Paths: a name is its colon-separated fields, numeric ones positive      *)
(***************************************************************************)
LexLess(s, t) ==
  \/ /\ Len(s) < Len(t) /\ SubSeq(t, 1, Len(s)) = s
  \/ \E i \in 1..Len(s) : /\ i <= Len(t) /\ s[i] < t[i]
                          /\ \A j \in 1..(i - 1) : s[j] = t[j]
PathLess(p, q) ==
  \/ /\ Len(p) < Len(q) /\ SubSeq(q, 1, Len(p)) = p
  \/ \E i \in 1..Len(p) : /\ i <= Len(q) /\ LexLess(p[i], q[i])
                          /\ \A j \in 1..(i - 1) : p[j] = q[j]
RowLess(a, b) == \/ PathLess(a.path, b.path)
                 \/ a.path = b.path /\ a.line < b.line
Parent(p) == SubSeq(p, 1, Len(p) - 1)
Within(p, root) == Len(p) >= Len(root) /\ SubSeq(p, 1, Len(root)) = root
Rel(p, root) == SubSeq(p, Len(root) + 1, Len(p))

should_skip(name, hiddenToo) ==
  name \in SkippedNames \/ (~hiddenToo /\ name \in HiddenNames)

\* What a directory lists, in the order every walker visits it.
sorted_entries(d) ==
  SortSeq(SetToSeq({p \in Tree : Len(p) = Len(d) + 1 /\ Within(p, d)}), PathLess)
Listing == [d \in Dirs |-> sorted_entries(d)]

max_search_visited_files(limit) ==
  IF limit = 0 THEN 0
  ELSE LET wanted == limit * VisitMultiplier
       IN IF wanted < MinVisited THEN MinVisited
          ELSE IF wanted > MaxVisited THEN MaxVisited ELSE wanted

TypeOK ==
  /\ fileWorld.blocked \subseteq Tree /\ fileWorld.linked \subseteq Tree
  /\ \A i \in DOMAIN rows : rows[i].path \in Tree
  /\ tally.visited \in 0..Cardinality(Files)
  /\ said.code \in {"none", "ok", "path_not_allowed", "backend_unavailable",
                    "invalid_pattern", "hard_max_wall_ms"}

NoAsk == [tool |-> "idle", backend |-> "idle", roots |-> <<>>, limit |-> 0, depth |-> 0,
         hidden |-> FALSE, valid |-> TRUE, quiet |-> FALSE, allowed |-> TRUE]

Init ==
  /\ fileWorld \in Worlds
  /\ ask = NoAsk /\ stage = "idle" /\ todo = <<>> /\ rows = <<>>
  /\ tally = NoStats /\ said = NoReply /\ disturbed = 0

(***************************************************************************)
(* Starting a call                                                         *)
(***************************************************************************)
Visits(roots, depth) == [i \in DOMAIN roots |-> [base |-> roots[i], path |-> roots[i],
                                                 depth |-> depth]]

\* Auto keeps find in process and prefers rg for grep; a missing rg is an
\* error only for grep with rg asked for by name.
Backend(q, rgFound) ==
  IF \/ q.tool \notin {"find", "grep"}
     \/ q.backend = "internal"
     \/ q.backend = "auto" /\ q.tool = "find"
  THEN "walk"
  ELSE IF rgFound THEN "rg"
       ELSE IF q.backend = "rg" /\ q.tool = "grep" THEN "none" ELSE "walk"

run_search_backend(q) ==
  /\ stage = "idle" /\ said = NoReply
  /\ rows' = <<>> /\ tally' = NoStats
  /\ \E rgFound \in BOOLEAN :
       LET chosen == Backend(q, rgFound)
           refusal == IF ~q.allowed THEN "path_not_allowed"
                      ELSE IF chosen = "none" THEN "backend_unavailable" ELSE "none"
       IN IF refusal # "none"
          THEN /\ said' = Failure(refusal)
               /\ UNCHANGED <<ask, stage, todo>>
          ELSE /\ ask' = q /\ stage' = chosen
               /\ todo' = Visits(q.roots, IF q.tool = "tree" THEN q.depth ELSE MaxWalkDepth)
               /\ UNCHANGED said
  /\ UNCHANGED <<fileWorld, disturbed>>

Readable(p) == p \notin fileWorld.blocked
Hits(f) == SortSeq(SetToSeq(fileWorld.hits[f]), LAMBDA a, b : a < b)
RowsOf(f) == [i \in DOMAIN Hits(f) |-> [path |-> f, line |-> Hits(f)[i]]]
Take(s, n) == SubSeq(s, 1, IF n < Len(s) THEN n ELSE Len(s))

(***************************************************************************)
(* The in-process walkers                                                  *)
(***************************************************************************)
\* The host deadline or a cancellation, sampled every n-th step.
check_active_wall_deadline_every(step, n) == IF step % n = 0 THEN BOOLEAN ELSE {FALSE}

Stop(flags) == /\ tally' = flags /\ todo' = <<>> /\ UNCHANGED rows
Count(unread) == [tally EXCEPT !.unreadable = @ + unread]

VisitCap == Stop([tally EXCEPT !.byVisit = TRUE])

\* One entry of collect_search: budgets first, then a file's lines or a
\* directory's children in front of what is left.
collect_search ==
  /\ stage = "walk" /\ ask.tool \in {"find", "grep"} /\ todo # <<>>
  /\ \E v \in {Head(todo)} :
       IF Len(rows) >= ask.limit THEN Stop([tally EXCEPT !.byResults = TRUE])
       ELSE IF tally.visited >= max_search_visited_files(ask.limit) THEN VisitCap
       ELSE IF v.depth = 0 THEN todo' = Tail(todo) /\ UNCHANGED <<rows, tally>>
       ELSE IF v.path \in Files
       THEN \E late \in check_active_wall_deadline_every(tally.visited + 1, WallEvery) :
              IF late
              THEN Stop([tally EXCEPT !.visited = @ + 1, !.byWall = TRUE])
              ELSE IF ~Readable(v.path)
              THEN /\ tally' = [Count(1) EXCEPT !.visited = @ + 1]
                   /\ todo' = Tail(todo) /\ UNCHANGED rows
              ELSE \E new \in {RowsOf(v.path)} :
                     LET over == Len(rows) + Len(new) > ask.limit
                     IN /\ rows' = Take(rows \o new, ask.limit)
                        /\ tally' = [tally EXCEPT !.visited = @ + 1, !.byResults = over]
                        /\ todo' = IF over THEN <<>> ELSE Tail(todo)
       ELSE IF ~Readable(v.path)
       THEN tally' = Count(1) /\ todo' = Tail(todo) /\ UNCHANGED rows
       ELSE /\ LET open == SelectSeq(Listing[v.path],
                                     LAMBDA p : /\ ~should_skip(Last(p), FALSE)
                                                /\ p \notin fileWorld.linked)
               IN todo' = [i \in DOMAIN open |-> [v EXCEPT !.path = open[i],
                                                           !.depth = v.depth - 1]]
                          \o Tail(todo)
            /\ UNCHANGED <<rows, tally>>
  /\ UNCHANGED <<fileWorld, ask, stage, said, disturbed>>

\* glob: a file is a row when it matches; directories are entered while
\* depth lasts; once the rows are full the walk only runs out.
glob_matches(f) == fileWorld.hits[f] # {}
collect_glob ==
  /\ stage = "walk" /\ ask.tool = "glob" /\ todo # <<>>
  /\ \E v \in {Head(todo)} :
       IF Len(rows) >= ask.limit \/ (v.path \in Dirs /\ v.depth = 0)
       THEN todo' = Tail(todo) /\ UNCHANGED <<rows, tally>>
       ELSE IF v.path \in Files
       THEN /\ rows' = IF glob_matches(v.path) THEN Append(rows, [path |-> v.path, line |-> 0])
                       ELSE rows
            /\ todo' = Tail(todo) /\ UNCHANGED tally
       ELSE IF ~Readable(v.path)
       THEN tally' = Count(1) /\ todo' = Tail(todo) /\ UNCHANGED rows
       ELSE /\ LET open == SelectSeq(Listing[v.path],
                                     LAMBDA p : /\ ~should_skip(Last(p), ask.hidden)
                                                /\ p \notin fileWorld.linked)
               IN todo' = [i \in DOMAIN open |-> [v EXCEPT !.path = open[i],
                                                           !.depth = v.depth - 1]]
                          \o Tail(todo)
            /\ UNCHANGED <<rows, tally>>
  /\ UNCHANGED <<fileWorld, ask, stage, said, disturbed>>

\* tree: every entry is a row, links are followed, the requested depth bounds it.
collect_tree ==
  /\ stage = "walk" /\ ask.tool = "tree" /\ todo # <<>>
  /\ \E v \in {Head(todo)} :
       LET top == v.path = v.base
       IN IF Len(rows) >= ask.limit \/ (top /\ v.depth = 0)
          THEN todo' = Tail(todo) /\ UNCHANGED <<rows, tally>>
          ELSE /\ rows' = IF top THEN rows ELSE Append(rows, [path |-> v.path, base |-> v.base])
               /\ IF (v.path \in Files /\ ~top) \/ v.depth = 0 \/ Len(rows') >= ask.limit
                  THEN todo' = Tail(todo) /\ UNCHANGED tally
                  ELSE IF v.path \in Files \/ ~Readable(v.path)
                  THEN tally' = Count(1) /\ todo' = Tail(todo)
                  ELSE /\ LET open == SelectSeq(Listing[v.path],
                                                LAMBDA p : ~should_skip(Last(p), ask.hidden))
                          IN todo' = [i \in DOMAIN open |-> [v EXCEPT !.path = open[i],
                                                                      !.depth = v.depth - 1]]
                                     \o Tail(todo)
                       /\ UNCHANGED tally
  /\ UNCHANGED <<fileWorld, ask, stage, said, disturbed>>

(***************************************************************************)
(* The ripgrep child, one root per step                                    *)
(***************************************************************************)
\* External: what rg reaches under a root, and the rows it prints
\* (path:line:text, as the fields between colons after the directory).
RgSees(root) ==
  {p \in Tree : /\ Within(p, root)
                /\ \A k \in (Len(root) + 1)..Len(p) :
                     /\ ~should_skip(p[k], FALSE)
                     /\ SubSeq(p, 1, k) \notin fileWorld.linked
                     /\ k < Len(p) => SubSeq(p, 1, k) \notin fileWorld.blocked}
RgLines(root) ==
  UNION {{[dir |-> Parent(f), root |-> f = root, fields |-> Last(f) \o <<n, -9>>, text |-> n] :
            n \in fileWorld.hits[f]} : f \in {g \in RgSees(root) \cap Files : Readable(g)}}
RgErred(root) == \E p \in RgSees(root) : ~Readable(p)

\* The first `:digits:` whose prefix is a file there, else the first of all.
find_rg_field_boundary(r) ==
  LET marks == {i \in 2..(Len(r.fields) - 1) : r.fields[i] > 0}
      named == {i \in marks : Append(r.dir, SubSeq(r.fields, 1, i - 1)) \in Files}
      Least(S) == CHOOSE i \in S : \A j \in S : i <= j
  IN IF named # {} THEN Least(named) ELSE Least(marks)
parse_rg_line(r) ==
  LET i == IF r.root THEN Len(r.fields) - 1 ELSE find_rg_field_boundary(r)
  IN [path |-> Append(r.dir, SubSeq(r.fields, 1, i - 1)), line |-> r.fields[i]]

ExitTwoIsComplete(code, stderr) ==
  IF code \in {0, 1, 2} THEN "Complete" ELSE "Unavailable"
\* Exit 0/1 is a whole scan; 2 is a bad pattern when grep wrote to stderr,
\* otherwise IO; anything else makes rg unusable.
classify_rg_exit(code, stderr) ==
  IF code \in {0, 1} THEN "Complete"
  ELSE IF code = 2 /\ ask.tool = "grep" /\ stderr THEN "InvalidPattern"
  ELSE IF code = 2 THEN "Incomplete" ELSE "Unavailable"
GiveUp(code) == /\ said' = Failure(code) /\ stage' = "answered" /\ todo' = <<>>
                /\ UNCHANGED <<rows, tally>>
\* The walker starts over, with nothing of what rg had found.
FallBack == /\ stage' = "walk"
            /\ todo' = Visits(ask.roots, MaxWalkDepth)
            /\ rows' = <<>> /\ tally' = NoStats
            /\ UNCHANGED said
RgFails == IF ask.backend = "rg" /\ ask.tool = "grep" THEN GiveUp("backend_unavailable")
           ELSE FallBack

rg_search ==
  /\ stage = "rg" /\ todo # <<>>
  /\ \E root \in {Head(todo).path} :
     \/ Stop([tally EXCEPT !.byWall = TRUE]) /\ UNCHANGED <<stage, said>>
     \/ /\ Len(rows) >= ask.limit
        /\ Stop([tally EXCEPT !.byResults = TRUE]) /\ UNCHANGED <<stage, said>>
     \/ RgFails  \* spawn, teardown or a pipe reader failed
     \/ /\ Len(rows) < ask.limit
        /\ \E lines \in {IF ask.valid \/ ask.tool = "find" THEN RgLines(root) ELSE {}},
              torn \in {0, 1} :
           \E verdict \in {IF ~ask.valid /\ ask.tool = "grep" THEN classify_rg_exit(2, TRUE)
                           ELSE IF RgErred(root) THEN classify_rg_exit(2, FALSE)
                           ELSE classify_rg_exit(IF lines = {} THEN 1 ELSE 0, FALSE)} :
             CASE verdict = "InvalidPattern" -> GiveUp("invalid_pattern")
               [] verdict = "Unavailable" -> RgFails
               [] OTHER ->
                  \E new \in {SortSeq(SetToSeq({parse_rg_line(r) : r \in lines}), RowLess)} :
                  \E kept \in {SubSeq(new, 1, IF torn <= Len(new) THEN Len(new) - torn
                                              ELSE Len(new))} :
                    LET over == Len(rows) + Len(kept) > ask.limit
                    IN /\ rows' = Take(rows \o kept, ask.limit)
                       /\ tally' = [tally EXCEPT
                            !.unreadable = @ + (IF verdict = "Incomplete" THEN 1 ELSE 0),
                            !.unparsed = @ + (Len(new) - Len(kept)),
                            !.byResults = over]
                       /\ todo' = IF over THEN <<>> ELSE Tail(todo)
                       /\ UNCHANGED <<stage, said>>
  /\ UNCHANGED <<fileWorld, ask, disturbed>>

(***************************************************************************)
(* What is shown                                                           *)
(***************************************************************************)
Less(a, b) == IF a < b THEN a ELSE b
More(a, b) == IF a > b THEN a ELSE b

enclosing_symbol(f, line) ==
  LET above == {d \in fileWorld.decls[f] : d <= Less(line, fileWorld.length[f])}
  IN IF above = {} THEN 0 ELSE CHOOSE d \in above : \A e \in above : e <= d

WindowEndExclusive(r) ==
  [path |-> r.path, start |-> More(r.line - ContextLines, 1),
   stop |-> Less(r.line + ContextLines, fileWorld.length[r.path]) - 1, sym |-> 0]
\* The context window of a hit: clamped to the file, or the line alone when
\* the file can no longer be read.
emit_hit_window(r) ==
  IF Readable(r.path) /\ fileWorld.length[r.path] > 0
  THEN [path |-> r.path, start |-> More(r.line - ContextLines, 1),
        stop |-> Less(r.line + ContextLines, fileWorld.length[r.path]),
        sym |-> enclosing_symbol(r.path, r.line)]
  ELSE [path |-> r.path, start |-> r.line, stop |-> r.line, sym |-> 0]
\* Windows that repeat are written once.
hit_search_output == {emit_hit_window(rows[i]) : i \in DOMAIN rows}

Label(name, level, dir) == [head |-> <<>>, name |-> name, level |-> level, dir |-> dir]
Heading(root) == [head |-> root, name |-> <<>>, level |-> 0, dir |-> FALSE]

\* The root a path is grouped under: the most specific one that holds it.
GroupRoot(p) ==
  LET holding == {i \in DOMAIN ask.roots : /\ Within(p, ask.roots[i])
                                           /\ Len(p) > Len(ask.roots[i])}
  IN IF holding = {} THEN <<>>
     ELSE ask.roots[CHOOSE i \in holding :
            \A j \in holding : Len(ask.roots[j]) <= Len(ask.roots[i])]

\* Lines a row adds below the previous one: the directories they do not
\* share, then the file.
TrieLines(comps, previous) ==
  LET dirs == Front(comps)
      shared == Cardinality({k \in DOMAIN dirs :
                  k <= Len(previous) /\ \A m \in 1..k : dirs[m] = previous[m]})
  IN [k \in 1..(Len(dirs) - shared) |-> Label(dirs[shared + k], shared + k - 1, TRUE)]
     \o <<Label(Last(comps), Len(dirs), FALSE)>>
Section(root, paths) ==
  LET inside == SelectSeq(paths, LAMBDA p : GroupRoot(p) = root)
      comps == [i \in DOMAIN inside |-> Rel(inside[i], root)]
  IN IF inside = <<>> THEN <<>>
     ELSE <<Heading(root)>> \o FlattenSeq([i \in DOMAIN comps |->
            TrieLines(comps[i], IF i = 1 THEN <<>> ELSE Front(comps[i - 1]))])
grouped_path_output(paths) ==
  LET roots == SortSeq(SetToSeq({ask.roots[i] : i \in DOMAIN ask.roots}), PathLess)
      outside == SelectSeq(paths, LAMBDA p : GroupRoot(p) = <<>>)
  IN FlattenSeq([i \in DOMAIN roots |-> Section(roots[i], paths)])
     \o [i \in DOMAIN outside |-> Heading(outside[i])]

grouped_tree_output ==
  [i \in DOMAIN rows |-> Label(Last(rows[i].path), Len(Rel(rows[i].path, rows[i].base)) - 1,
                               rows[i].path \in Dirs)]

(***************************************************************************)
(* The answer                                                              *)
(***************************************************************************)
\* paths.sort(); paths.dedup()
GlobPaths == SortSeq(SetToSeq({rows[i].path : i \in DOMAIN rows}), PathLess)

\* A scan that stopped on a budget; glob and tree infer it from how many
\* rows came back (zero rows: from a limit that stops before scanning).
Truncated(found) ==
  IF ask.tool \in {"find", "grep"} THEN tally.byResults \/ tally.byVisit
  ELSE IF found = 0 THEN ask.limit = 0 \/ (ask.tool = "tree" /\ ask.depth = 0)
  ELSE ask.limit > 0 /\ found >= ask.limit

\* First reason wins: a failed cache write, then unreadable entries, then
\* (only for an empty answer) a budget.
Diagnostic(stored, found) ==
  IF ~stored THEN "cache_write"
  ELSE IF tally.unreadable > 0 THEN "scan_unreadable"
  ELSE IF found = 0 /\ Truncated(found) THEN "budget_exhausted" ELSE "none"

apply_empty_discovery_notes(found) ==
  IF found > 0 \/ ask.quiet THEN "none"
  ELSE IF Truncated(found) THEN "truncated"
  ELSE IF tally.unreadable > 0 THEN "incomplete" ELSE "zero_hits"

Shown(grouped) ==
  CASE ask.tool = "glob" -> IF grouped THEN grouped_path_output(GlobPaths) ELSE <<>>
    [] ask.tool = "tree" -> IF grouped THEN grouped_tree_output ELSE <<>>
    [] OTHER -> SetToSeq(hit_search_output)

\* Flat or indented form: cache economics choose, an empty body stays flat.
decide_emission_crossover(found) ==
  IF found = 0 \/ ask.tool \notin {"glob", "tree"} THEN {FALSE} ELSE BOOLEAN

\* The body is stored under its refs; a write that fails is the diagnostic.
search_result_response(found, stored, grouped) ==
  [code |-> "ok", diagnostic |-> Diagnostic(stored, found), exhausted |-> Truncated(found),
   note |-> apply_empty_discovery_notes(found), unparsed |-> tally.unparsed,
   shown |-> Shown(grouped), grouped |-> grouped]

Answer ==
  /\ stage \in {"walk", "rg"} /\ todo = <<>>
  /\ \E found \in {IF ask.tool = "glob" THEN Len(GlobPaths) ELSE Len(rows)} :
     \E stored \in BOOLEAN, grouped \in decide_emission_crossover(found) :
       said' = IF tally.byWall THEN Failure("hard_max_wall_ms")
               ELSE search_result_response(found, stored, grouped)
  /\ stage' = IF stage = "rg" THEN "rg_done" ELSE "answered"
  /\ UNCHANGED <<fileWorld, ask, todo, rows, tally, disturbed>>

Collected == /\ said.code # "none"
             /\ ask' = NoAsk /\ stage' = "idle" /\ said' = NoReply /\ rows' = <<>> /\ tally' = NoStats
             /\ UNCHANGED <<fileWorld, todo, disturbed>>

\* Behind the scan an entry becomes unreadable.
Disturb ==
  /\ disturbed < MaxDisturbed /\ stage \in {"walk", "rg"}
  /\ disturbed' = disturbed + 1
  /\ \E p \in Tree : fileWorld' = [fileWorld EXCEPT !.blocked = @ \cup {p}]
  /\ UNCHANGED <<ask, stage, todo, rows, tally, said>>

Next == \/ \E q \in Asks : run_search_backend(q)
        \/ collect_search \/ collect_glob \/ collect_tree \/ rg_search
        \/ Answer \/ Collected \/ Disturb

Spec == Init /\ [][Next]_searchVars

(***************************************************************************)
(* Properties                                                              *)
(***************************************************************************)
Answered(tools) == said.code = "ok" /\ ask.tool \in tools
Reach(p, root, hiddenToo, links) ==
  /\ Within(p, root)
  /\ \A k \in (Len(root) + 1)..Len(p) :
       /\ ~should_skip(p[k], hiddenToo)
       /\ links \/ SubSeq(p, 1, k) \notin fileWorld.linked

\* What each operation should report, without walking.
Expected ==
  CASE Answered({"find", "grep"}) ->
         UNION {{[path |-> f, line |-> n] : n \in fileWorld.hits[f]} : f \in {g \in Files :
            \E i \in DOMAIN ask.roots :
              /\ Reach(g, ask.roots[i], FALSE, FALSE)
              /\ stage # "rg_done" => Len(g) - Len(ask.roots[i]) < MaxWalkDepth}}
    [] Answered({"glob"}) ->
         {[path |-> f, line |-> 0] : f \in {f \in Files :
            /\ glob_matches(f)
            /\ \E i \in DOMAIN ask.roots :
                 /\ Reach(f, ask.roots[i], ask.hidden, FALSE)
                 /\ Len(f) - Len(ask.roots[i]) <= MaxWalkDepth}}
    [] OTHER ->
         UNION {{[path |-> p, base |-> ask.roots[i]] : p \in {p \in Tree :
            /\ Reach(p, ask.roots[i], ask.hidden, TRUE)
            /\ Len(p) - Len(ask.roots[i]) \in 1..ask.depth}} : i \in DOMAIN ask.roots}

RowSet == {rows[i] : i \in DOMAIN rows}
Unflagged == /\ said.diagnostic = "none" /\ ~said.exhausted /\ said.unparsed = 0
InOrder(S) == SortSeq(SetToSeq(S), RowLess)

\* An answer that carries no warning (no diagnostic, budget not exhausted, no
\* unparsed rows) is the whole truth: it has exactly the rows the tree holds,
\* whichever of rg and the walker ran, whatever became unreadable meanwhile.
\* Every other answer has only true rows, and with one root and nothing
\* unreadable both backends cut the same ordered list (collect.rs, engine_search.rs).
CleanAnswersComplete ==
  said.code = "ok" =>
    /\ RowSet \subseteq Expected
    /\ Unflagged => RowSet = Expected
    /\ (/\ Answered({"find", "grep"}) /\ Len(ask.roots) = 1
        /\ tally.unreadable = 0 /\ tally.unparsed = 0)
         => IsPrefix(rows, InOrder(Expected))

\* Reading the indented listing back: a line's directories are the last
\* directory lines above it at each smaller level, under the last heading.
Unindent(i) ==
  LET Above(k) == CHOOSE j \in 1..(i - 1) :
                    /\ said.shown[j].dir /\ said.shown[j].level = k
                    /\ \A m \in (j + 1)..(i - 1) : said.shown[m].dir => said.shown[m].level # k
  IN [k \in 1..said.shown[i].level |-> said.shown[Above(k - 1)].name] \o <<said.shown[i].name>>
HeadingOf(i) ==
  LET heads == {j \in 1..i : said.shown[j].head # <<>>}
  IN said.shown[CHOOSE j \in heads : \A m \in heads : m <= j].head

\* What is shown stands for the rows: every match lies in a window printed
\* for its file, and the indented glob and tree listings read back to exactly
\* the paths found (the compact form is called lossless, collect.rs:217).
VisibleShowsRows ==
  said.code = "ok" =>
    /\ ask.tool \in {"find", "grep"} =>
         \A r \in RowSet : \E w \in ToSet(said.shown) :
           w.path = r.path /\ r.line \in w.start..w.stop
    /\ (said.grouped /\ ask.tool = "glob") =>
         {rows[i].path : i \in DOMAIN rows} =
           {HeadingOf(i) \o (IF said.shown[i].head # <<>> THEN <<>> ELSE Unindent(i)) :
              i \in {i \in DOMAIN said.shown :
                       ~said.shown[i].dir /\ said.shown[i].head \in Files \cup {<<>>}}}
    /\ (said.grouped /\ ask.tool = "tree") =>
         /\ Len(said.shown) = Len(rows)
         /\ \A i \in DOMAIN rows : Unindent(i) = Rel(rows[i].path, rows[i].base)
=============================================================================
