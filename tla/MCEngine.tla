------------------------------ MODULE MCEngine ------------------------------
(***************************************************************************)
(* Small instances of the engine's components for TLC, explored together   *)
(* like those of MCStores: `part' says which component a behaviour is of,  *)
(* the slots v1, v2, ... stand for its variables.  StreamCapture, the part *)
(* "capture", keeps its own.  The last three parts are the components that *)
(* make others wait, with the fairness their code justifies.               *)
(***************************************************************************)
EXTENDS StreamCapture, SequencesExt, TLC

CONSTANTS Parts,                  \* the components explored
          out, err,               \* the streams of one command
          c1, c2, c3,             \* calls of a serving engine
          q1, q2,                 \* processes that share a recovery cache
          nil, zero, bad,         \* the absent values of the components
          EditCalls, EditAsks, EditTexts,   \* edits, their requests, the texts of the file
          FetchCalls, FetchUrls, FetchHosts, FetchAnswers,  \* fetches, and the web they meet
          FetchAllow, FetchDeny, FetchLife, FetchCap, FetchHops, FetchTicks

VARIABLES part, v1, v2, v3, v4, v5, v6, v7, v8, v9, v10, v11, v12, v13, v14,
          v15, v16, v17, v18, v19

(* A lock, a marker or a slot that nobody holds is no caller's. *)
ASSUME EngineConstants ==
  nil \notin {1, 2} /\ "free" \notin FetchCalls /\ FetchCap \in Nat

MCSymmetry == Permutations({out, err}) \cup Permutations({c1, c2})

slots == <<v1, v2, v3, v4, v5, v6, v7, v8, v9, v10, v11, v12, v13, v14, v15, v16,
           v17, v18, v19>>

(* Reads of one or two paths and a search, of one engine process; the      *)
(* content 0 is too short for a note.                                      *)
Request(kind, keys, opt) == [eng |-> "e", kind |-> kind, keys |-> keys, opt |-> opt]
ServeRequests == {Request("read", {1, 2}, "normal"), Request("read", {1}, "normal"),
                  Request("search", {3}, "normal"), Request("read", {1}, "raw")}
ServeScope == [e \in {"e"} |-> "a"]
ServeWorlds == {[k \in 1..3 |-> 1]}
Serve == INSTANCE ServeSession WITH
  Calls <- {c1, c2}, Requests <- ServeRequests, Engines <- {"e"}, Scopes <- {"a"},
  ScopeOf <- ServeScope, Keys <- 1..3, Contents <- 0..2, FirstWorlds <- ServeWorlds,
  Long <- {1}, None <- nil, MaxRecords <- 2, CompactAfter <- 1, MaxEdits <- 1,
  MaxPrunes <- 1, MaxFaults <- 1,
  world <- v1, durable <- v2, memory <- v3, inFlight <- v4, base <- v5, journal <- v6,
  torn <- v7, lastBody <- v8, pc <- v9, call <- v10, part <- v11, loaded <- v12,
  snap <- v13, handed <- v14, unacked <- v15, persisted <- v16, edits <- v17, prunes <- v18,
  faults <- v19

WorkerOps == [i \in {1, 2} |-> IF i = 1 THEN "shell" ELSE "tool"]
Worker == INSTANCE RawWorker WITH
  Ids <- {1, 2}, OpOf <- WorkerOps, Nobody <- nil,
  bound <- v1, closing <- v2, reader <- v3, doomed <- v4, registry <- v5, cancelled <- v6,
  slot <- v7, child <- v8, queue <- v9, active <- v10, step <- v11, outcome <- v12,
  answer <- v13, ledgered <- v14, pulsed <- v15

Jobs == INSTANCE BackgroundJobs WITH
  MaxJobs <- 2, JobCap <- 1, MaxChunks <- 1, TailChunks <- 1,
  nextJob <- v1, halting <- v2, listed <- v3, starter <- v4, status <- v5, expired <- v6,
  handle <- v7, endAsked <- v8, proc <- v9, logLen <- v10, version <- v11, logError <- v12,
  thread <- v13, ender <- v14, victims <- v15, client <- v16

(* Hunks that apply, that apply twice, that are missing or ambiguous, a    *)
(* new file, a dry run and two malformed requests.                         *)
Hunk(find, replace, all) == [find |-> find, replace |-> replace, all |-> all]
EditOf(hunks, create, dry) == [hunks |-> hunks, create |-> create, dry |-> dry]
SmallEditAsks ==
  {EditOf(<<Hunk(<<"a">>, <<"b">>, FALSE)>>, FALSE, FALSE),
   EditOf(<<Hunk(<<"a">>, <<"b", "c">>, TRUE), Hunk(<<"c", "b">>, <<"d">>, FALSE)>>, FALSE, FALSE),
   EditOf(<<Hunk(<<>>, <<"n">>, FALSE)>>, TRUE, FALSE),
   EditOf(<<Hunk(<<"a">>, <<"c">>, TRUE)>>, FALSE, TRUE), EditOf(<<>>, FALSE, FALSE),
   EditOf(<<Hunk(<<>>, <<>>, FALSE)>>, TRUE, FALSE)}
SmallEditTexts == {nil, <<"a">>, <<"a", "a">>, <<"b">>}
Edit == INSTANCE FileEdit WITH
  Edits <- EditCalls, EditRequests <- EditAsks, StartTexts <- EditTexts, NoFile <- nil,
  file <- v1, temps <- v2, images <- v3, at <- v4, req <- v5, old <- v6, new <- v7,
  ack <- v8, seenText <- v9, editCrashed <- v10

(* One public site with two pages, a listed private host and a denied one; *)
(* the first page may redirect to any of them.                             *)
SmallFetchHosts == [u \in 1..4 |-> CASE u = 2 -> "lan" [] u = 3 -> "bad" [] OTHER -> "site"]
Body(b) == [kind |-> "body", body |-> b]
Redirect(u) == [kind |-> "redirect", next |-> u]
SmallFetchAnswers == [u \in 1..4 |->
                   CASE u = 1 -> {Body("page"), Redirect(1), Redirect(2), Redirect(3)}
                     [] u = 2 -> {Body("other")} [] OTHER -> {Body("page")}]
Fetch == INSTANCE FetchOp WITH
  Fetches <- FetchCalls, Urls <- FetchUrls, HostOf <- FetchHosts, ListedAllow <- FetchAllow,
  ListedDeny <- FetchDeny, Answers <- FetchAnswers, PublicIp <- "public",
  PrivateIp <- "private", AnyIp <- "any", FetchTtl <- FetchLife, IndexCap <- FetchCap,
  MaxHops <- FetchHops, MaxTicks <- FetchTicks,
  now <- v1, index <- v2, indexLock <- v3, bodies <- v4, stage <- v5, url <- v6, hop <- v7,
  entry <- v8, pinned <- v9, got <- v10, loadedIx <- v11, contacts <- v12, recorded <- v13

Shell == INSTANCE ShellOp WITH
  CaptureCap <- 2, SpillCap <- 4, LoadCap <- 4, InlineBudget <- 3, DefaultInline <- 2,
  MaxBytes <- 5,
  sh <- v1, out <- v2, exact <- v3, witness <- v4, okExit <- v5, reply <- v6

(* Two threads of one process and one of another. *)
LedgerOwner == [t \in {"t1", "t2", "t3"} |-> IF t = "t3" THEN "p2" ELSE "p1"]
LedgerMax == [p \in {"p1", "p2"} |-> IF p = "p1" THEN 3 ELSE 1]
Ledger == INSTANCE ResponseLedger WITH
  Threads <- {"t1", "t2", "t3"}, Owner <- LedgerOwner, MaxRecords <- LedgerMax,
  Generations <- 2, MaxBytes <- 2, TotalBytes <- 4, FlushBytes <- 2, MaxWriteFaults <- 1,
  path <- v1, content <- v2, writer <- v3, io <- v4, append <- v5, registry <- v6,
  sched <- v7, taken <- v8, dropped <- v9, writeFaults <- v10

(* The secret s is shown masked, as m; a is large enough to be measured    *)
(* against its inline form.                                                *)
ExpandMask == [r \in {"a", "s", "m"} |-> IF r = "s" THEN "m" ELSE r]
ExpandAsk(op, ref, since, raw) == [op |-> op, ref |-> ref, since |-> since, raw |-> raw]
ExpandAsks == {ExpandAsk("expand", r, "-", raw) : r \in {"a", "s"}, raw \in BOOLEAN}
  \cup {ExpandAsk("expand", "s", "a", FALSE)} \cup {ExpandAsk("store", r, "-", FALSE) : r \in {"a", "s"}}
Expand == INSTANCE ExpandOp WITH
  Calls <- {c1, c2}, Refs <- {"a", "s", "m"}, MaskOf <- ExpandMask, BigRefs <- {"a"},
  Requests <- ExpandAsks, MaxRequests <- 3, MaxEvictions <- 1, NoRef <- "-",
  slot <- v1, disk <- v2, oldStore <- v3, lease <- v4, request <- v5, answered <- v6,
  serves <- v7, replays <- v8, health <- v9, truth <- v10, asked <- v11, evictions <- v12

(* Names are sequences of characters, a path a sequence of names: -5 is    *)
(* the workspace, with a directory that holds one, a hidden directory and  *)
(* a hidden file; one file name holds a colon and a digit.                 *)
SearchFiles == {<< <<-5>>, <<-4>>, <<-4>> >>, << <<-5>>, <<-4>>, <<-3>>, <<-4>> >>,
                << <<-5>>, <<-3, 7, -2>> >>, << <<-5>>, <<-2>>, <<-3>> >>, << <<-5>>, <<-1>> >>}
SearchDirs == {<< <<-5>> >>, << <<-5>>, <<-4>> >>, << <<-5>>, <<-4>>, <<-3>> >>, << <<-5>>, <<-2>> >>}
InFiles(a, b, c, d, other) ==
  [f \in SearchFiles |-> CASE f = << <<-5>>, <<-4>>, <<-4>> >> -> a
                           [] f = << <<-5>>, <<-4>>, <<-3>>, <<-4>> >> -> b
                           [] f = << <<-5>>, <<-3, 7, -2>> >> -> c
                           [] f = << <<-5>>, <<-2>>, <<-3>> >> -> d
                           [] OTHER -> other]
SearchWorlds ==
  {[hits |-> InFiles(a, b, c, d, {}), length |-> InFiles(4, 4, 4, 4, 4),
    decls |-> InFiles({2}, {}, {1}, {}, {}), blocked |-> {}, linked |-> links] :
     a \in {{}, {2}}, b \in {{}, {1, 3}}, c \in {{}, {4}}, d \in {{}, {1}},
     links \in {{}, {<< <<-5>>, <<-2>> >>}}}
Ask == [tool |-> "find", backend |-> "auto", roots |-> << << <<-5>> >> >>, limit |-> 9, depth |-> 3,
        hidden |-> FALSE, valid |-> TRUE, quiet |-> FALSE, allowed |-> TRUE]
TwoRoots == << << <<-5>>, <<-4>> >>, << <<-5>>, <<-2>> >> >>
SearchAsks ==
  {[Ask EXCEPT !.tool = t, !.backend = b, !.limit = l] :
     t \in {"find", "grep"}, b \in {"auto", "rg"}, l \in {0, 2, 9}}
  \cup {[Ask EXCEPT !.tool = "grep", !.backend = b, !.valid = FALSE] : b \in {"auto", "rg"}}
  \cup {[Ask EXCEPT !.tool = t, !.roots = r, !.limit = l, !.hidden = h] :
           t \in {"glob", "tree"}, r \in {Ask.roots, TwoRoots}, l \in {0, 1, 9}, h \in BOOLEAN}
  \cup {[Ask EXCEPT !.tool = "tree", !.depth = d] : d \in {0, 2}}
  \cup {[Ask EXCEPT !.tool = "grep", !.backend = "rg", !.roots = TwoRoots],
        [Ask EXCEPT !.quiet = TRUE], [Ask EXCEPT !.allowed = FALSE]}
Search == INSTANCE SearchOp WITH
  Tree <- SearchFiles \cup SearchDirs, Files <- SearchFiles, HiddenNames <- {<<-2>>},
  SkippedNames <- {<<-9>>}, Worlds <- SearchWorlds, Asks <- SearchAsks,
  VisitMultiplier <- 1, MinVisited <- 3, MaxVisited <- 4, WallEvery <- 2, MaxWalkDepth <- 3,
  ContextLines <- 1, MaxDisturbed <- 1,
  fileWorld <- v1, ask <- v2, stage <- v3, todo <- v4, rows <- v5, tally <- v6, said <- v7,
  disturbed <- v8

(* Usage reports of three providers, with fields left out or malformed. *)
Usage(p, f, c, w, omit, garbled, d, t, e, s, id) ==
  [provider |-> p, fresh |-> f, cached |-> c, created |-> w, out |-> 1, omit |-> omit,
   bad |-> garbled, diagnosis |-> d, text |-> t, eligibility |-> e, shape |-> s, id |-> id]
MeterExchanges ==
  {Usage(p, 1, c, IF p = "anthropic" THEN 1 ELSE 0, omit, {}, d, <<1, 2>>, "eligible", "object", "r") :
     p \in {"anthropic", "openai"}, c \in {0, 2}, d \in {"none", "ttl_expired", "unknown"},
     omit \in {{}, {"cached"}, {"created"}, {"total", "tier", "billed"}}}
  \cup {Usage("gemini", 0, 1, 0, {}, garbled, "none", <<1, 1>>, "not_evaluated", s,
              IF s = "object" THEN "r" ELSE nil) :
           garbled \in {{}, {"cached"}, {"input"}, {"tier"}, {"total"}},
           s \in {"object", "null", "flat", "scalar"}}
Meter == INSTANCE CacheMeter WITH
  Exchanges <- MeterExchanges, Missing <- nil, Garbled <- bad, NoveltyBudget <- 2,
  MaxExchanges <- 3,
  previous_request <- v1, observations <- v2, truths <- v3, errors <- v4

(* Paid and self-hosted lanes, candidates on both sides of break-even. *)
Lane(tier, ttl, reads, write) == [tier |-> tier, ttl |-> ttl, tokens |-> 2, reads |-> reads,
                                  input |-> 3, read |-> 1, write |-> write]
EconLanes == [l \in {"a", "b", "c"} |->
                CASE l = "a" -> Lane("paid", 2, 2, 3) [] l = "b" -> Lane("paid", 3, 1, 3)
                  [] OTHER -> Lane("self_hosted", 2, 9, 0)]
Candidate(tier, rewrite, requests, savings) ==
  [tier |-> tier, tokens |-> 3, rewrite |-> rewrite, requests |-> requests, savings |-> savings]
EconCandidates == [c \in {"m", "n", "s"} |->
                     CASE c = "m" -> Candidate("messages", 2, 2, 2)
                       [] c = "n" -> Candidate("messages", 4, 2, 2)
                       [] OTHER -> Candidate("system", 0, 9, 3)]
EconBreakpoints == <<[ttl |-> 1, minimum |-> 2], [ttl |-> 3, minimum |-> 3]>>
EconContents ==
  [class : {"stable", "churn"}, admitted : BOOLEAN, original : {2}, compressed : {1, 3},
   overhead : {1}, multiplier : {1}, floor : {2}, suffix : {0, 1}, compaction : {0, 1},
   horizon : {1, 3}]
Econ == INSTANCE CacheEconomics WITH
  Lanes <- EconLanes, Candidates <- EconCandidates, Breakpoints <- EconBreakpoints,
  Contents <- EconContents, Scale <- 2, BytesPerToken <- 4, Threshold <- 4, LastSecond <- 5,
  MaxGaps <- 3,
  second <- v1, lastTouch <- v2, touches <- v3, lastRequest <- v4, gaps <- v5,
  evicted <- v6, booked <- v7

(* Sections of every origin and tokenizers that join tokens, lose one or   *)
(* answer for another identity.  The sections are built by the operators   *)
(* of the component, which need no pool.                                   *)
ViewAdapter(identity, joins, fault) == [identity |-> identity, joins |-> joins, fault |-> fault]
ViewAdapters == {ViewAdapter("tok", {<<"p", "p">>}, "none"), ViewAdapter("tok", {<<"n", "h">>}, "none"),
                 ViewAdapter("other", {}, "none"), ViewAdapter("tok", {<<"h", "p">>}, "drops_last"),
                 ViewAdapter("tok", {}, "empty_token")}
ViewGrades == <<"Proved", "Unknown">>
ViewEvidence == {<<"e1", "e2">>, <<"e2", "e1", "e2">>}
ViewBodies == {<<<<1>>, <<0>>>>, <<<<1, 0>>, <<1>>>>}
Sections == INSTANCE DecisionView WITH
  Pool <- {}, Adapters <- ViewAdapters, Grades <- ViewGrades, Evidence <- ViewEvidence,
  Bodies <- ViewBodies, MaxSections <- 3, MaxCells <- 11, MaxPageTokens <- 3, MaxEvidence <- 3,
  MaxPayload <- 2, draft <- v1, adapter <- v2, grade <- v3, slots <- v4, view <- v5
Capsule == [payload |-> <<1>>, tokenizer |-> "tok", root |-> "root", profile |-> "profile"]
ViewPool ==
  {Sections!from_capsule("stable_project_capsule", Capsule),
   Sections!with_survival_score_bps(Sections!from_map("stable_system_tool_contract", <<0>>, "tok", "x"), 1),
   Sections!with_survival_score_bps(Sections!from_map("stable_system_tool_contract", <<0, 1>>, "tok", "x"), 1),
   Sections!from_map("stable_typed_effect_schema", <<2>>, "tok", "other"),
   Sections!with_survival_score_bps(Sections!from_map("volatile_user_task", <<1>>, "tok", "x"), 1),
   Sections!with_survival_score_bps(Sections!volatile_recovery_routes(<<0, 0>>), 2)}
View == INSTANCE DecisionView WITH
  Pool <- ViewPool, Adapters <- ViewAdapters, Grades <- ViewGrades,
  Evidence <- ViewEvidence, Bodies <- ViewBodies, MaxSections <- 3, MaxCells <- 11,
  MaxPageTokens <- 3, MaxEvidence <- 3, MaxPayload <- 2,
  draft <- v1, adapter <- v2, grade <- v3, slots <- v4, view <- v5

(* Bindings under each policy, sampled or not, in two sessions. *)
Binding(p, s, sampled, sampler) == [policy |-> p, session |-> s, tokenizer |-> "tok",
                                    tools |-> "tools", sampler |-> sampler, sampled |-> sampled]
ReasonBindings == {Binding("exact_required", "s1", FALSE, nil), Binding("scoped_certificate", "s1", FALSE, nil),
                   Binding("exact_if_available", "s1", TRUE, "smp"), Binding("exact_required", "s2", TRUE, nil),
                   Binding("exact_required", "s2", FALSE, nil)}
ReasonViews == {[tokenizer |-> "tok", tools |-> "tools", body |-> <<1, 2>>],
                [tokenizer |-> "other", tools |-> "tools", body |-> <<1>>]}
Reason == INSTANCE ReasoningState WITH
  Bindings <- ReasonBindings, Bytes <- {<<>>, <<1>>, <<1, 2>>}, Views <- ReasonViews,
  Expiries <- {nil, 0, 2, 3}, None <- nil, Zero <- zero, MaxHeld <- 2, LastTick <- 2,
  MaxPayloadLen <- 1, Capacity <- 3, Reserve <- 1,
  clockNow <- v1, held <- v2, raw <- v3, given <- v4

(* Offers that tie, dominate, miss a protected measure or lack evidence,   *)
(* and segments that overlap, leave gaps or run past the end.              *)
Protects(v) == [q |-> [order |-> "at_least", baseline |-> 0, value |-> v]]
Offer(id, verifier, protected, a, b, exact) ==
  [id |-> id, root |-> "r", verifier |-> verifier, freshness |-> "fresh",
   protected |-> protected, resources |-> <<a, b>>, exact |-> exact]
ReprCandidates ==
  {Offer(1, "v", Protects(1), 1, 1, TRUE), Offer(2, "v", Protects(1), 1, 2, TRUE),
   Offer(2, "v", Protects(2), 2, 2, TRUE), Offer(3, "v", Protects(0), 2, 2, FALSE),
   Offer(3, "w", Protects(0), 2, 2, FALSE), Offer(4, "v", <<>>, 0, 0, TRUE),
   Offer(4, "v", Protects(1), 2, 1, TRUE), Offer(3, "v", Protects(1), 1, 1, FALSE),
   Offer(1, "v", Protects(-1), 0, 0, TRUE)}
Segment(start, end, cost, tokens) == [start |-> start, end |-> end, cost |-> cost, tokens |-> tokens]
ReprSegments ==
  {Segment(0, 1, 1, <<1, 1>>), Segment(0, 1, 0, <<0, 1>>), Segment(1, 2, 1, <<0, 0>>),
   Segment(2, 3, 0, <<1, 1>>), Segment(1, 3, 1, <<2, 1>>), Segment(0, 3, 2, <<1, 1>>),
   Segment(0, 3, 7, <<1, 1>>), Segment(2, 2, 0, <<0, 0>>), Segment(0, 2, 0, <<3, 0>>),
   Segment(2, 4, 0, <<0, 0>>)}
ReprOffers == [frontier |-> 3, segments |-> 4]
Repr == INSTANCE Representation WITH
  Candidates <- ReprCandidates, Segments <- ReprSegments, Weights <- <<1, 2>>,
  WeightUnit <- 2, Length <- 3, MaxCost <- 8, MaxOffers <- ReprOffers, Undecided <- nil,
  Refused <- bad,
  task <- v1, offered <- v2, result <- v3

NovelRoles == [referenced |-> <<1>>, novel |-> <<2>>, reused |-> <<1, 1>>, deterministic |-> <<2, 1>>]
NovelTokens(bytes) == (Len(bytes) + 1) \div 2
Novel == INSTANCE OutputNovelty WITH
  Names <- {<<1>>, <<1, 2>>, <<>>}, ValidNames <- {<<1>>, <<1, 2>>}, Roles <- NovelRoles,
  Payloads <- {<<>>, <<1, 1>>, <<0>>},
  Identities <- {<<1, 1, 2>>, <<1, 0, 1>>, <<2, 1, 1>>}, TokenCount <- NovelTokens,
  MaxFields <- 2, MaxBytes <- 17, MaxTotal <- 3, MaxDraft <- 3, NotCoded <- nil,
  Rejected <- bad,
  fields <- v1, coding <- v2

(* Two processes that publish one large blob while writes fail. *)
LocksKind == [r \in {"r"} |-> "blob"]
LocksMax == [k \in {"blob"} |-> 2]
LocksSize == [r \in {"r"} |-> 1]
Locks == INSTANCE RecoveryStore WITH
  Proc <- {q1, q2}, Ref <- {"r"}, Payloads <- {"r"}, Alias <- {}, Kind <- LocksKind,
  MaxOf <- LocksMax, Size <- LocksSize, MaxBytes <- 9, LegacyAlias <- <<>>, Large <- {"r"},
  Counts <- {}, MaxOrdinal <- 0, MaxGen <- 2, MaxGrants <- 0, LegacyNext <- 0,
  Removable <- {}, Faults <- {"io"}, QuietOpen <- FALSE, MemoHits <- FALSE,
  CasRetries <- FALSE,
  snap <- v1, wal <- v2, side <- v3, pc <- v4, op <- v5, mem <- v6, session <- v7,
  pending <- v8, cas <- v9, memo <- v10, skip <- v11, diskId <- v12, walId <- v13,
  fast <- v14, range <- v15, acked <- v16, ackedAliases <- v17, removed <- v18,
  grants <- v19

(* Three calls whose keys overlap in a chain. *)
FlightRequests == {Request("read", {1, 2}, "normal"), Request("read", {2, 3}, "normal"),
                   Request("search", {3}, "normal")}
Flight == INSTANCE ServeSession WITH
  Calls <- {c1, c2, c3}, Requests <- FlightRequests, Engines <- {"e"}, Scopes <- {"a"},
  ScopeOf <- ServeScope, Keys <- 1..3, Contents <- {1}, FirstWorlds <- ServeWorlds,
  Long <- {1}, None <- nil, MaxRecords <- 2, CompactAfter <- 9, MaxEdits <- 0,
  MaxPrunes <- 0, MaxFaults <- 0,
  world <- v1, durable <- v2, memory <- v3, inFlight <- v4, base <- v5, journal <- v6,
  torn <- v7, lastBody <- v8, pc <- v9, call <- v10, part <- v11, loaded <- v12,
  snap <- v13, handed <- v14, unacked <- v15, persisted <- v16, edits <- v17, prunes <- v18,
  faults <- v19

HostOps == [i \in {1, 2} |-> IF i = 1 THEN "job" ELSE "unknown"]
Host == INSTANCE RawWorker WITH
  Ids <- {1, 2}, OpOf <- HostOps, Nobody <- nil,
  bound <- v1, closing <- v2, reader <- v3, doomed <- v4, registry <- v5, cancelled <- v6,
  slot <- v7, child <- v8, queue <- v9, active <- v10, step <- v11, outcome <- v12,
  answer <- v13, ledgered <- v14, pulsed <- v15

(* Two recording threads and a viewer of one process, a call of another. *)
MetricsOf == [t \in {"a", "b", "c", "v"} |-> IF t = "c" THEN 2 ELSE 1]
MetricsTool == [t \in {"a", "b", "c"} |-> IF t = "b" THEN "read" ELSE "grep"]
MetricsMs == [t \in {"a", "b", "c"} |-> IF t = "b" THEN 1 ELSE 2]
Metrics == INSTANCE ToolMetrics WITH
  Proc <- {1, 2}, Call <- {"a", "b", "c"}, Viewer <- {"v"}, Of <- MetricsOf,
  ToolOf <- MetricsTool, Ms <- MetricsMs, Failed <- {"a"}, SlowMs <- 2,
  MetricsFaults <- {"lock", "write", "crash", "damage"}, MaxFaults <- 1, NoOne <- nil,
  sidecar <- v1, readable <- v2, flock <- v3, session <- v4, mirror <- v5, dirty <- v6,
  at <- v7, doing <- v8, taken <- v9, merged <- v10, shown <- v11, before <- v12, lost <- v13,
  faults <- v14

(* Texts of plain (p), dense (q), critical (e) and blank (b) lines, of     *)
(* lines that talk of "mode=lossy" (m), and a JSON entry with the key of   *)
(* the sentinel (k), on both sides of every size and budget.               *)
(* Of commands: an anchor (a), boilerplate (x), a secret error (s), a      *)
(* protected one (t), a continuation (c), a passed test that talks of an   *)
(* error (o), noise (n), a summary (u), progress (g), entries of a listing *)
(* (d, f), the head of a status table (h) and a row that is not well (w).  *)
KernelKinds == {"p", "q", "e", "b", "m", "k", "a", "x", "s", "t", "c", "o", "n", "u", "g", "d", "f", "h", "w"}
KernelCost == [k \in KernelKinds |-> CASE k = "b" -> 0 [] k = "q" -> 3 [] OTHER -> 2]
KernelTraits == [k \in KernelKinds |->
                   CASE k = "a" -> {"anchor", "critical"} [] k = "x" -> {"boiler"} [] k = "s" -> {"secret", "critical"}
                     [] k = "t" -> {"protected", "critical"} [] k = "c" -> {"cont"} [] k = "o" -> {"pass", "critical"}
                     [] k = "n" -> {"noise"} [] k = "u" -> {"summary"} [] k = "g" -> {"progress"} [] k = "d" -> {"dir"}
                     [] k = "f" -> {"file"} [] k = "h" -> {"table", "name"} [] k = "w" -> {"unwell"}
                     [] k = "e" -> {"error", "critical"} [] k = "b" -> {"blank"} [] k = "m" -> {"mode"}
                     [] k = "k" -> {"sentinel"} [] k = "q" -> {"diff", "dense", "warn", "sig"} [] OTHER -> {}]
KernelNorm == [k \in KernelKinds |-> IF k = "q" THEN "p" ELSE k]
KernelMarkers == [t \in {"empty", "omitted", "repeated", "similar", "lossy", "lossyref", "cue", "sentinel",
                         "errors", "warnings", "total", "declarations", "keys", "key", "label", "compact", "source", "stored",
                         "stderr", "exit_code", "command", "inventory", "files", "dirs", "others", "counts", "paths",
                         "search", "matches", "diagnostics", "status_summary", "final_stdout", "final_stderr", "critical",
                         "collapsed", "more", "see_ref", "combined_ref", "failed_segment", "masking_warning", "rerun",
                         "shell", "policy", "status", "success", "stream_ref", "ok", "unchanged"} |->
                    CASE t = "empty" -> 0 [] t \in {"lossy", "sentinel"} -> 3 [] t = "lossyref" -> 4
                      [] t \in {"cue", "label"} -> 2 [] OTHER -> 1]
KernelSizes == [diagnostic |-> <<1, 1>>, structured |-> <<2, 1>>, auto |-> <<1, 1>>, slack |-> 1,
                context |-> 1, keep |-> 1, radius |-> 1, diff |-> 2, logs |-> <<1, 1>>, perLog |-> 2,
                edge |-> 1, gapCost |-> 1, few |-> 2, label |-> 1, diffview |-> <<1, 1>>,
                search |-> <<2, 1>>, oversized |-> 3, code |-> <<2, 1>>, codeScan |-> 4, codeMin |-> 4,
                perSig |-> 2, keys |-> 2, repeats |-> 3, long |-> 5, counts |-> 1, paths |-> 2, sample |-> 1,
                matches |-> 2, perContext |-> 1, diagnostics |-> 1, table |-> 3, head |-> 2, shell |-> <<2, 1>>,
                critical |-> 1, failure |-> <<1, 1>>, final |-> 1, other |-> 1, tinyLines |-> 2, tinyTokens |-> 4,
                shortTokens |-> 8, shortLines |-> 4, invLines |-> 3, success |-> 8]
KernelText(kinds, json) == [text |-> [i \in DOMAIN kinds |-> <<"line", kinds[i]>>], json |-> json]
KernelSources ==
  {KernelText(s, FALSE) : s \in [1..2 -> {"p", "m"}] \cup
     {<<"b">>, <<"p">>, <<"q", "e", "b">>, <<"p", "m", "p">>, <<"p", "q", "p", "q", "m">>,
      <<"p", "p", "p", "p", "e">>, <<"q", "b", "q", "e", "m", "b">>, <<"q", "q", "q", "q", "q", "q">>,
      <<"p", "q", "p", "q", "e", "p">>, <<"p", "e", "p", "p", "p", "e">>,
      <<"p", "p", "q", "b", "p", "p", "p", "q">>, <<"e", "e", "e", "p", "m", "q", "q">>,
      <<"q", "e", "p", "q", "p">>}}
  \cup {KernelText(s, TRUE) : s \in {<<"p", "q", "p", "q">>, <<"p", "q", "q">>, <<"q", "q", "q", "q", "k">>}}
KernelAsk(modes, budgets, label) == [mode : modes, budget : budgets, label : {label}]
KernelAsks ==
  KernelAsk({"auto", "passthrough", "diagnostic", "structured", "dedupe", "diff-aware", "exact", "lossy"},
            {0, 3, 8}, "none")
  \cup KernelAsk({"auto", "structured"}, {3, 8}, "path") \cup KernelAsk({"unknown"}, {1}, "none")
KernelBlobs == {<<1, 1, 3>>, <<3, 3, 3, 1>>, <<1, 0, 1>>, <<0, 0, 0, 0>>, <<3, 3, 3, 3, 3, 3>>,
                <<1, 1, 1, 1, 1, 1, 1, 1, 1, 1>>}
(* Commands that succeed, fail, time out and mask a failure, with outputs   *)
(* on both sides of every form's limits, by kind, mode, budget, reference. *)
KernelLines(kinds) == [i \in DOMAIN kinds |-> <<"line", kinds[i]>>]
KernelStreams ==
  {<<KernelLines(s[1]), KernelLines(s[2])>> : s \in
     {<<<<>>, <<>>>>, <<<<"p">>, <<>>>>, <<<<"p">>, <<"q">>>>, <<<<"p", "q", "p">>, <<>>>>, <<<<"p", "p", "p", "p", "q", "q", "e">>, <<>>>>,
      <<<<"p", "p", "p", "p", "q", "q">>, <<>>>>, <<<<"x", "p">>, <<"e">>>>, <<<<"p", "e", "a">>, <<"x">>>>,
      <<<<"p">>, <<"s">>>>, <<<<"t", "p">>, <<>>>>, <<<<"e", "p", "q", "q", "p", "e", "p">>, <<"q", "p", "a">>>>,
      <<<<"o", "n", "u", "e", "c", "p", "q">>, <<"g", "g">>>>, <<<<"n", "n", "o", "p">>, <<>>>>,
      <<<<"q", "q", "s", "q", "n", "n", "n">>, <<>>>>, <<<<"d", "f", "p">>, <<>>>>, <<<<"d", "f", "p", "f", "b">>, <<"q">>>>,
      <<<<"h", "w", "p", "w">>, <<>>>>}}
KernelRuns == {[exit |-> 0, timed |-> FALSE], [exit |-> 1, timed |-> FALSE], [exit |-> 2, timed |-> FALSE],
               [exit |-> -1, timed |-> TRUE], [exit |-> 0, timed |-> TRUE], [exit |-> -1, timed |-> FALSE]}
KernelShapes ==   \* kind, c.false, c.joined, c.failed, c.evidence, c.noisy, c.head, json
  {<<"plain", "no", "alone", FALSE, FALSE, FALSE, <<"all", 0>>, "no">>, <<"plain", "no", "pipeline", FALSE, TRUE, FALSE, <<"all", 0>>, "no">>,
   <<"plain", "no", "sequence", TRUE, FALSE, FALSE, <<"all", 0>>, "no">>, <<"build", "no", "alone", FALSE, FALSE, TRUE, <<"all", 0>>, "no">>,
   <<"plain", "no", "alone", FALSE, FALSE, TRUE, <<"all", 0>>, "no">>, <<"plain", "always", "alone", FALSE, FALSE, FALSE, <<"tail", 1>>, "no">>,
   <<"inventory", "no", "alone", FALSE, FALSE, FALSE, <<"all", 0>>, "no">>, <<"search", "silent", "alone", FALSE, FALSE, FALSE, <<"all", 0>>, "no">>,
   <<"diff", "always", "alone", FALSE, FALSE, FALSE, <<"all", 0>>, "no">>, <<"plain", "no", "alone", FALSE, FALSE, FALSE, <<"all", 0>>, "object">>}
KernelCommands ==
  {[stdout |-> s[1], stderr |-> s[2], exit |-> r.exit, timed_out |-> r.timed, kind |-> h[1], false |-> h[2],
    joined |-> h[3], failed |-> h[4], evidence |-> h[5], noisy |-> h[6], head |-> h[7], context |-> 0, json |-> h[8],
    mode |-> ask[1], budget |-> ask[2], ref |-> ask[3]] :
     s \in KernelStreams, r \in KernelRuns, h \in KernelShapes,
     ask \in {<<"auto", 8, "blob">>, <<"auto", 20, "blob">>, <<"auto", 20, nil>>, <<"auto", 40, "blob">>,
              <<"structured", 20, "blob">>, <<"dedupe", 40, "blob">>, <<"exact", 40, "blob">>, <<"diagnostic", 40, nil>>}}
KernelJoins == [pair \in {<<"p", "q">>, <<"q", "e">>} |-> 3]
Kernel == INSTANCE TokenKernel WITH
  LineCost <- KernelCost, Traits <- KernelTraits, Norm <- KernelNorm, MarkerCost <- KernelMarkers,
  Sizes <- KernelSizes, NoRef <- nil, Sources <- KernelSources, Requests <- KernelAsks,
  Types <- {"code", "logs", "json", "diff", "search", "text"}, Refs <- {nil, "blob", "blob#odd"}, Commands <- KernelCommands,
  Blobs <- KernelBlobs, Limits <- {2, 5, 8}, BpeCost <- KernelCost, Joins <- KernelJoins,
  MinLimit <- 5, MarkerBytes <- 4, MarkerTokens <- 2, StoreFaults <- {"put", "metadata"},
  MaxCalls <- 1,
  bound <- v1, cas <- v2, meta <- v3, answer <- v4, calls <- v5

-----------------------------------------------------------------------------
(* The slots a component leaves over hold nothing. *)
Spare19 == v19 = nil
Spare18 == v18 = nil /\ Spare19
Spare17 == v17 = nil /\ Spare18
Spare16 == v16 = nil /\ Spare17
Spare15 == v15 = nil /\ Spare16
Spare14 == v14 = nil /\ Spare15
Spare13 == v13 = nil /\ Spare14
Spare12 == v12 = nil /\ Spare13
Spare11 == v11 = nil /\ Spare12
Spare10 == v10 = nil /\ Spare11
Spare9 == v9 = nil /\ Spare10
Spare8 == v8 = nil /\ Spare9
Spare7 == v7 = nil /\ Spare8
Spare6 == v6 = nil /\ Spare7
Spare5 == v5 = nil /\ Spare6
Spare4 == v4 = nil /\ Spare5
Spare3 == v3 = nil /\ Spare4
Spare1 == v1 = nil /\ v2 = nil /\ Spare3

MCInit ==
  /\ part \in Parts
  /\ Init
  /\ \/ part = "serve" /\ Serve!Init
     \/ part = "worker" /\ Worker!Init /\ Spare16
     \/ part = "jobs" /\ Jobs!Init /\ Spare17
     \/ part = "edit" /\ Edit!Init /\ Spare11
     \/ part = "fetch" /\ Fetch!Init /\ Spare14
     \/ part = "shell" /\ Shell!Init /\ Spare7
     \/ part = "ledger" /\ Ledger!Init /\ Spare11
     \/ part = "expand" /\ Expand!Init /\ Spare13
     \/ part = "search" /\ Search!Init /\ Spare9
     \/ part = "meter" /\ Meter!Init /\ Spare5
     \/ part = "economics" /\ Econ!Init /\ Spare8
     \/ part = "view" /\ View!Init /\ Spare6
     \/ part = "reasoning" /\ Reason!Init /\ Spare5
     \/ part = "representation" /\ Repr!RepresentationInit /\ Spare4
     \/ part = "novelty" /\ Novel!OutputNoveltyInit /\ Spare3
     \/ part = "metrics" /\ Metrics!MetricsInit /\ Spare15
     \/ part = "kernel" /\ Kernel!Init /\ Spare6
     \/ part = "locks" /\ Locks!Init
     \/ part = "flight" /\ Flight!Init
     \/ part = "host" /\ Host!Init /\ Spare16
     \/ part = "capture" /\ Spare1

(* One step of the component, all else as it was. *)
Rest20 == <<part, vars>>
Rest19 == <<v19, Rest20>>
Rest18 == <<v18, Rest19>>
Rest17 == <<v17, Rest18>>
Rest16 == <<v16, Rest17>>
Rest15 == <<v15, Rest16>>
Rest14 == <<v14, Rest15>>
Rest13 == <<v13, Rest14>>
Rest12 == <<v12, Rest13>>
Rest11 == <<v11, Rest12>>
Rest10 == <<v10, Rest11>>
Rest9 == <<v9, Rest10>>
Rest8 == <<v8, Rest9>>
Rest7 == <<v7, Rest8>>
Rest6 == <<v6, Rest7>>
Rest5 == <<v5, Rest6>>
Rest4 == <<v4, Rest5>>
Rest3 == <<v3, Rest4>>

MCNext ==
  \/ part = "serve" /\ Serve!Next /\ UNCHANGED Rest20
  \/ part = "worker" /\ Worker!Next /\ UNCHANGED Rest16
  \/ part = "jobs" /\ Jobs!Next /\ UNCHANGED Rest17
  \/ part = "edit" /\ Edit!Next /\ UNCHANGED Rest11
  \/ part = "fetch" /\ Fetch!Next /\ UNCHANGED Rest14
  \/ part = "shell" /\ Shell!Next /\ UNCHANGED Rest7
  \/ part = "ledger" /\ Ledger!Next /\ UNCHANGED Rest11
  \/ part = "expand" /\ Expand!Next /\ UNCHANGED Rest13
  \/ part = "search" /\ Search!Next /\ UNCHANGED Rest9
  \/ part = "meter" /\ Meter!Next /\ UNCHANGED Rest5
  \/ part = "economics" /\ Econ!Next /\ UNCHANGED Rest8
  \/ part = "view" /\ View!Next /\ UNCHANGED Rest6
  \/ part = "reasoning" /\ Reason!Next /\ UNCHANGED Rest5
  \/ part = "representation" /\ Repr!RepresentationNext /\ UNCHANGED Rest4
  \/ part = "novelty" /\ Novel!OutputNoveltyNext /\ UNCHANGED Rest3
  \/ part = "metrics" /\ Metrics!MetricsNext /\ UNCHANGED Rest15
  \/ part = "kernel" /\ Kernel!Next /\ UNCHANGED Rest6
  \/ part = "locks" /\ Locks!Next /\ UNCHANGED Rest20
  \/ part = "flight" /\ Flight!Next /\ UNCHANGED Rest20
  \/ part = "host" /\ Host!Next /\ UNCHANGED Rest16
  \/ part = "capture" /\ Next /\ UNCHANGED <<part, slots>>

MCSpec == MCInit /\ [][MCNext]_<<part, slots, vars>>

-----------------------------------------------------------------------------
(* Every variable of a component keeps its type, bounds of its queues,      *)
(* counters and chains of redirects included.                              *)
EngineTypeOK ==
  /\ part = "serve" => Serve!TypeOK
  /\ part = "worker" => Worker!TypeOK
  /\ part = "jobs" => Jobs!TypeOK
  /\ part = "edit" => Edit!TypeOK
  /\ part = "fetch" => Fetch!TypeOK
  /\ part = "shell" => Shell!TypeOK
  /\ part = "ledger" => Ledger!TypeOK
  /\ part = "expand" => Expand!TypeOK
  /\ part = "search" => Search!TypeOK

(* What was served is on record: a resumed session finds every serve that  *)
(* was answered, the accounting of an answered request is durable, and the *)
(* response ledger keeps one process's lines in order, whole and without a *)
(* gap, with a thread that will write what is buffered.                    *)
RecordsSurvive ==
  /\ part = "serve" => Serve!ResumeKeepsServes
  /\ part = "worker" => Worker!ServedAccountingDurable
  /\ part = "ledger" => Ledger!ServedSequenceKept /\ Ledger!BufferHasWaker

(* A child process is reachable as long as it runs: by a cancellation but  *)
(* for the window between spawn and registration, by the teardown of the   *)
(* job registry, and by the listing; and a client that waits for output is *)
(* woken and sees all of it.                                               *)
ChildrenReached ==
  /\ part = "worker" => Worker!OrphansOnlyFromSpawnWindow
  /\ part = "jobs" => Jobs!TeardownReachesJobs /\ Jobs!NoLostWakeup /\ Jobs!ClientSeesAllOutput /\ Jobs!RunningJobsListed

(* A reader of an edited file sees the old or the new text whole, and what *)
(* an acknowledged edit replaced can be recovered, with two edits running  *)
(* and a crash anywhere; and a spill file a command still names holds its  *)
(* stream from the first byte.                                             *)
FilesWhole ==
  /\ part = "edit" => Edit!FileAlwaysWhole /\ Edit!UndoRecoverable
  /\ part = "capture" => SpillFilesWhole

(* No host is contacted at an address that was not validated, after any    *)
(* redirects and however names resolve; and the fetch index loses no       *)
(* record to a concurrent fetch.                                           *)
FetchesGuarded ==
  /\ part = "fetch" => Fetch!ContactsChecked /\ Fetch!IndexKeepsRecords

(* An answer claims no more than is so: that a reference covers the whole  *)
(* output, that a search found all there was and shows the rows it counts, *)
(* that a reference is not in the store, and that expansion is in trouble; *)
(* and what a capsule or a summary leaves out it says.                     *)
AnswersHonest ==
  /\ part = "kernel" => Kernel!CapsulesDeclareLoss /\ Kernel!SummariesAddUp /\ Kernel!CommandsShown
  /\ part = "shell" => Shell!CoverClaimTrue
  /\ part = "search" => Search!CleanAnswersComplete /\ Search!VisibleShowsRows
  /\ part = "expand" => Expand!MissesAreReal /\ Expand!GateFollowsStore

(* The cache report adds up to what the providers billed, a decision to    *)
(* warm, evict or admit pays off, a saving is booked once, a tool call is  *)
(* counted once and shown by a later snapshot, and a compression never     *)
(* costs more than what it stands for.                                     *)
AccountsBalance ==
  /\ part = "kernel" => Kernel!CompressionHonest
  /\ part = "metrics" => Metrics!CallsCountedOnce /\ Metrics!SnapshotsComplete
  /\ part = "meter" => Meter!ReportMatchesProviders
  /\ part = "economics" => Econ!DecisionsPayOff /\ Econ!SavingsBookedOnce

(* What stands for content is exact: the token map of a view, the replay   *)
(* of reasoning state, the frontier of alternatives and the plan chosen    *)
(* from it, and the canonical bytes of an output.                          *)
RepresentationsExact ==
  /\ part = "view" => View!TokensExact
  /\ part = "reasoning" => Reason!ReplayMatchesAssessment
  /\ part = "representation" => Repr!FrontierCovers /\ Repr!PlanIsOptimal
  /\ part = "novelty" => Novel!EncodingDetermines

(* What one step may never do: answer with a note or a diff that rests on  *)
(* bytes the caller was never given, send in full what the caller has, or  *)
(* change the bytes of a view when commutative sections trade places.      *)
ServingStepsSafe ==
  [][/\ part = "serve" => Serve!SubstitutionsBacked /\ Serve!LookupStillTrue
     /\ part = "view" => View!RenderingCanonical]_<<part, slots, vars>>

-----------------------------------------------------------------------------
(* Fairness.  A process that holds the recovery lock or opens a store runs *)
(* on; so does the thread of a call that is not waiting for the keys of    *)
(* another; and in a session both threads are scheduled, but the host owes *)
(* nothing.                                                                *)
MCVars == <<part, slots, vars>>

LiveSpec ==
  /\ MCSpec
  /\ \A q \in {q1, q2} : /\ WF_MCVars(part = "locks" /\ Locks!Open(q) /\ UNCHANGED Rest20)
                         /\ WF_MCVars(part = "locks" /\ Locks!Publish(q) /\ UNCHANGED Rest20)
  /\ \A c \in {c1, c2, c3} : WF_MCVars(part = "flight" /\ Flight!Step(c) /\ UNCHANGED Rest20)
  /\ WF_MCVars(part = "host" /\ Host!Worker /\ UNCHANGED Rest16)
  /\ WF_MCVars(/\ part = "host" /\ UNCHANGED Rest16
               /\ Host!Teardown \/ Host!Reply \/ Host!CancelAll \/ Host!Exit)

(* Every publication ends and gives the lock back. *)
LockReleased ==
  \A q \in {q1, q2} : (part = "locks" /\ Locks!Locked(q)) ~> (part = "locks" /\ ~Locks!Locked(q))

(* Calls that overlap wait for one another's keys; none waits forever.     *)
EveryCallAnswered ==
  \A c \in {c1, c2, c3} : (part = "flight" /\ Flight!Waiting(c)) ~> (part = "flight" /\ Flight!Answered(c))

(* A request that was accepted is answered, cancelled or not, unless the   *)
(* session ends or the host no longer reads.                               *)
EveryRequestAnswered ==
  \A i \in {1, 2} : (part = "host" /\ Host!Accepted(i)) ~> (part = "host" /\ Host!Settled(i))
=============================================================================
