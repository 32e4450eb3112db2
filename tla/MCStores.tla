------------------------------ MODULE MCStores ------------------------------
(***************************************************************************)
(* Small instances of the components that keep their own files beside the  *)
(* recovery cache, for TLC.  No two of them share state, so one run can    *)
(* explore all of them: `part' says which component a behaviour is of, and *)
(* the slots v1, v2, ... stand for that component's variables.  A property *)
(* below is the conjunction of what the components named in it promise.    *)
(***************************************************************************)
EXTENDS Integers, Sequences, FiniteSets, TLC

CONSTANTS Parts,            \* the components explored
          p1, p2,           \* two processes, threads or stores that are alike
          r1, r2,           \* references
          h1, h2, h3, j1, j2, \* hashes a response names, and short handles
          nil, absent, bad, \* the absent values of the components
          Maintainers, Sidecars, MaintBudget,  \* maintenance: processes, sidecar files
          MaintCoalesce, MaintGcInterval, MaintTmpAge, MaintTicks,
          MigShort, MigHash, MigPrefix, MigFound, MigFaults,  \* legacy migration
          TreeThreads, TreePlacements, TreeExposed, TreeChanges, TreeCalls, \* a CAS tree
          IdxRefs, IdxStores, IdxCompactAbove, IdxReadMax, IdxLegacy, IdxOps, IdxTorn, \* the ref index
          AcKeys, AcArtifacts, AcSessions, AcServers, AcResults,  \* the action cache
          AcGrace, AcSeconds, AcCrashes,
          NovMerges, NovScopes, NovIds, NovProducers, NovDamages  \* entity novelty

VARIABLES part, v1, v2, v3, v4, v5, v6, v7, v8, v9, v10, v11, v12, v13

MCSymmetry == Permutations({p1, p2})

slots == <<v1, v2, v3, v4, v5, v6, v7, v8, v9, v10, v11, v12, v13>>

Maint == INSTANCE Maintenance WITH
  Maintainer <- Maintainers, Sidecar <- Sidecars, Budget <- MaintBudget,
  Coalesce <- MaintCoalesce, GcInterval <- MaintGcInterval, TmpMaxAge <- MaintTmpAge,
  LastTick <- MaintTicks,
  clock <- v1, mlock <- v2, plock <- v3, marker <- v4, gcMarker <- v5, todo <- v6,
  sweptAt <- v7, tmp <- v8, named <- v9, files <- v10, victims <- v11, lastAuto <- v12,
  lastGc <- v13

(* Two short refs, a hash that collides with another on its short ref, and *)
(* a blob under a short ref that is not its own.                           *)
SmallPrefix == [h \in {"h1", "h2", "h3"} |-> IF h = "h2" THEN "b" ELSE "a"]
SmallFound == {[s \in {"a", "b"} |-> IF s = "a" THEN f ELSE g] :
               f \in {"h1", "h2", "corrupt"}, g \in {"h2", "missing"}}
Mig == INSTANCE Migration WITH
  Short <- MigShort, Hash <- MigHash, Prefix <- MigPrefix, Found <- MigFound,
  MigrationFaults <- MigFaults,
  sources <- v1, objects <- v2, aliases <- v3, ambiguous <- v4, manifest <- v5, op <- v6,
  maker <- v7, original <- v8

(* Three records in segments of at most two, one stop anywhere. *)
Seg == INSTANCE SegmentStore WITH
  Refs <- {r1, r2}, Leases <- {1, 2}, Horizon <- 2, SegmentCap <- 2, Segments <- {1, 2, 3},
  MaxStops <- 1, MaxRecords <- 3, StopWithExtension <- FALSE,
  data <- v1, index <- v2, manifest <- v3, backup <- v4, task <- v5, now <- v6, acked <- v7,
  extended <- v8, stops <- v9

(* Bodies of up to four characters: n ends a line, h and t are the two     *)
(* bytes of one character.                                                 *)
ExpBodies == {<<>>, <<"a">>, <<"n">>, <<"a", "n">>, <<"n", "n", "a">>,
              <<"h", "t", "n">>, <<"a", "n", "h", "t">>, <<"t", "n">>}
Exp == INSTANCE Expansion WITH
  Bodies <- ExpBodies, Bound <- 3,
  body <- v1, cas <- v2, local <- v3, sidecar <- v4, alias <- v5, sibling <- v6,
  compat <- v7

Idx == INSTANCE RefIndex WITH
  IndexRefs <- IdxRefs, IndexStores <- IdxStores, CompactAbove <- IdxCompactAbove,
  ReadMax <- IdxReadMax, LegacyCounts <- IdxLegacy, MaxIndexOps <- IdxOps, MaxTorn <- IdxTorn,
  shard <- v1, legacy <- v2, appending <- v3, clock <- v4, expansions <- v5, crashes <- v6

WsTexts == {<<1, 1, 1>>, <<1, 1, 1, 1, 1>>, <<1, 2, 1, 3>>}
Ws == INSTANCE WorkingSet WITH
  Texts <- WsTexts, Anchors <- {"p", "q"}, AliasNames <- {"a"}, BudgetTokens <- 6,
  FloorTokens <- 2, MaxTouches <- 4,
  spans <- v1, evicted_refs <- v2, touches <- v3, stored <- v4, storeAliases <- v5,
  failed <- v6

SmallResults == [k \in {"k"} |-> {"x"}]
Ac == INSTANCE ActionCache WITH
  Keys <- AcKeys, Artifacts <- AcArtifacts, Sessions <- AcSessions, Servers <- AcServers,
  Results <- AcResults, GraceSecs <- AcGrace, MaxSeconds <- AcSeconds, MaxAcCrashes <- AcCrashes,
  acSeg <- v1, acSide <- v2, acPut <- v3, acPin <- v4, acServe <- v5, acPlan <- v6,
  acBlobs <- v7, acSeconds <- v8, acCrashes <- v9

Log == INSTANCE Transparency WITH
  LogEvents <- {1, 2}, LogSessions <- {1, 2}, MaxLeaves <- 4,
  logShared <- v1, logCopy <- v2

ViewTokens == [t \in {"a", "b"} |-> IF t = "a" THEN 1 ELSE 2]
View == INSTANCE ContextView WITH
  Snippets <- {"a", "b"}, SnippetTokens <- ViewTokens, WorkingSetTokens <- 3,
  HotTailTokens <- 2, MaxRecords <- 3,
  cvRecords <- v1, cvResident <- v2, cvShown <- v3, cvGuard <- v4

Cow == INSTANCE CowFork WITH
  Branches <- {"r", "c"}, RootBranch <- "r", Notes <- {1, 2}, MaxNovelty <- 2,
  MaxPoints <- 1, MaxCowCrashes <- 1,
  cow <- v1, cowPoints <- v2, cowMemory <- v3, cowDisk <- v4, cowHanded <- v5,
  cowCrashes <- v6

(* Two threads, of one process or of two. *)
SmallPlacements == {[t \in {p1, p2} |-> "one"], [t \in {p1, p2} |-> t]}
Tree == INSTANCE CasTree WITH
  Thread <- TreeThreads, Placements <- TreePlacements, Exposed <- TreeExposed,
  MaxChanges <- TreeChanges, MaxCalls <- TreeCalls,
  placed <- v1, tree <- v2, writable <- v3, objects <- v4, guard <- v5, handle <- v6,
  job <- v7, disturbed <- v8, changes <- v9, calls <- v10

(* Two stores hold the same body; the clock starts at the end of 2023 or   *)
(* on the last day of February 2100.                                       *)
LeaseBodies == {<<"s", "h">>, <<"t", "h">>}
Lease == INSTANCE CasLease WITH
  Store <- {"s", "t"}, Hash <- {"h"}, Bodies <- LeaseBodies, Large <- {"h"},
  Origins <- {19722, 47540}, LeaseLife <- 1, GraceAsked <- 0, MinGrace <- 1, MaxGrace <- 2,
  MinAge <- 1, LastTick <- 2,
  origin <- v1, now <- v2, objects <- v3, leases <- v4, pins <- v5, memory <- v6,
  root <- v7, pending <- v8, job <- v9, guaranteed <- v10, uncovered <- v11

(* A file of two lines, and each of its line ranges. *)
IngTexts == {<<"a">>, <<"b">>, <<"a", "b">>}
IngFirst == {<<"a", "b">>}
Ing == INSTANCE Ingest WITH
  Texts <- IngTexts, FirstTexts <- IngFirst, Paths <- {"p"}, Shell <- "sh", LargeLines <- 2,
  Nothing <- nil, MaxEdits <- 1, MaxStores <- 2,
  sources <- v1, inHand <- v2, entries <- v3, fileRefs <- v4, unitRefs <- v5,
  toPublish <- v6, saved <- v7, objects <- v8, leased <- v9, kept <- v10, changes <- v11,
  stores <- v12

(* Two keys under which the two handles of three hashes trade places. *)
ShortKeyed == [k1 |-> [h \in {h1, h2, h3} |-> IF h = h1 THEN j1 ELSE j2],
               k2 |-> [h \in {h1, h2, h3} |-> IF h = h1 THEN j2 ELSE j1]]
ShortResponses == {[refs |-> <<h1>>, text |-> <<h1, h2, h2>>], [refs |-> <<>>, text |-> <<h2, h3, h2, h3>>],
                   [refs |-> <<h1, h1>>, text |-> <<h1>>]}
Short == INSTANCE ShortRefs WITH
  Engines <- {"A", "B"}, Hashes <- {h1, h2, h3}, FullRefs <- {h1}, Dear <- {h2, h3},
  Responses <- ShortResponses,
  Keys <- {"k1", "k2"}, Handles <- {j1, j2}, Keyed <- ShortKeyed, Nil <- nil,
  MaxOrdinal <- 3, MaxFaults <- 1, MaxStarts <- 2,
  memory <- v1, disk <- v2, sidecar <- v3, behind <- v4, job <- v5, shown <- v6, deleted <- v7,
  faults <- v8, starts <- v9

Nov == INSTANCE EntityNovelty WITH
  Merges <- NovMerges, Scopes <- NovScopes, BadScope <- "nosuch", Ids <- NovIds,
  BadId <- "bade", Producers <- NovProducers, BadProducer <- "other",
  MaxDamages <- NovDamages, Missing <- absent, Damaged <- bad, Idle <- nil,
  novelty <- v1, merge <- v2, since <- v3, damages <- v4

(* Markers are no processes or hashes, times are numbers, and the live     *)
(* references of an index shard fit below its read ceiling.                *)
ASSUME StoresConstants ==
  Maint!MaintConstants /\ Mig!MigConstants /\ Tree!TreeConstants /\ Idx!IndexConstants

-----------------------------------------------------------------------------
(* The slots a component leaves over hold nothing. *)
Spare13 == v13 = nil
Spare12 == v12 = nil /\ Spare13
Spare11 == v11 = nil /\ Spare12
Spare10 == v10 = nil /\ Spare11
Spare9 == v9 = nil /\ Spare10
Spare8 == v8 = nil /\ Spare9
Spare7 == v7 = nil /\ Spare8
Spare6 == v6 = nil /\ Spare7
Spare5 == v5 = nil /\ Spare6
Spare4 == v4 = nil /\ Spare5
Spare3 == v3 = nil /\ Spare4

MCInit ==
  /\ part \in Parts
  /\ \/ part = "maintenance" /\ Maint!Init
     \/ part = "migration" /\ Mig!Init /\ Spare9
     \/ part = "segments" /\ Seg!Init /\ Spare10
     \/ part = "expansion" /\ Exp!Init /\ Spare8
     \/ part = "refindex" /\ Idx!Init /\ Spare7
     \/ part = "workingset" /\ Ws!Init /\ Spare7
     \/ part = "actioncache" /\ Ac!Init /\ Spare10
     \/ part = "transparency" /\ Log!Init /\ Spare3
     \/ part = "contextview" /\ View!Init /\ Spare5
     \/ part = "cowfork" /\ Cow!Init /\ Spare7
     \/ part = "castree" /\ Tree!Init /\ Spare11
     \/ part = "caslease" /\ Lease!Init /\ Spare12
     \/ part = "ingest" /\ Ing!IngestInit /\ Spare13
     \/ part = "shortrefs" /\ Short!ShortRefsInit /\ Spare10
     \/ part = "entitynovelty" /\ Nov!EntityNoveltyInit /\ Spare5

(* One step of the component, the spare slots and the part as they were. *)
Rest14 == <<part>>
Rest13 == <<v13, Rest14>>
Rest12 == <<v12, Rest13>>
Rest11 == <<v11, Rest12>>
Rest10 == <<v10, Rest11>>
Rest9 == <<v9, Rest10>>
Rest8 == <<v8, Rest9>>
Rest7 == <<v7, Rest8>>
Rest6 == <<v6, Rest7>>
Rest5 == <<v5, Rest6>>
Rest4 == <<v4, Rest5>>
Rest3 == <<v3, Rest4>>

MCNext ==
  \/ part = "maintenance" /\ Maint!Next /\ UNCHANGED Rest14
  \/ part = "migration" /\ Mig!Next /\ UNCHANGED Rest9
  \/ part = "segments" /\ Seg!Next /\ UNCHANGED Rest10
  \/ part = "expansion" /\ Exp!Next /\ UNCHANGED Rest8
  \/ part = "refindex" /\ Idx!Next /\ UNCHANGED Rest7
  \/ part = "workingset" /\ Ws!Next /\ UNCHANGED Rest7
  \/ part = "actioncache" /\ Ac!Next /\ UNCHANGED Rest10
  \/ part = "transparency" /\ Log!Next /\ UNCHANGED Rest3
  \/ part = "contextview" /\ View!Next /\ UNCHANGED Rest5
  \/ part = "cowfork" /\ Cow!Next /\ UNCHANGED Rest7
  \/ part = "castree" /\ Tree!Next /\ UNCHANGED Rest11
  \/ part = "caslease" /\ Lease!Next /\ UNCHANGED Rest12
  \/ part = "ingest" /\ Ing!IngestNext /\ UNCHANGED Rest13
  \/ part = "shortrefs" /\ Short!ShortRefsNext /\ UNCHANGED Rest10
  \/ part = "entitynovelty" /\ Nov!EntityNoveltyNext /\ UNCHANGED Rest5

MCSpec == MCInit /\ [][MCNext]_<<part, slots>>

-----------------------------------------------------------------------------
(* Every variable of a component keeps its type, the spans of the working  *)
(* set and the bounds of rings and counters included.                      *)
StoresTypeOK ==
  /\ part = "maintenance" => Maint!TypeOK
  /\ part = "migration" => Mig!TypeOK
  /\ part = "segments" => Seg!TypeOK
  /\ part = "expansion" => Exp!TypeOK
  /\ part = "refindex" => Idx!TypeOK
  /\ part = "workingset" => Ws!TypeOK
  /\ part = "actioncache" => Ac!TypeOK
  /\ part = "castree" => Tree!TypeOK
  /\ part = "caslease" => Lease!TypeOK
  /\ part = "ingest" => Ing!TypeOK
  /\ part = "shortrefs" => Short!TypeOK

(* The segment store implements LeasedRefs: a ref is held until its lease, *)
(* a put raises the lease at once or not at all, and only a lease that has *)
(* passed is forgotten, though an operation stages segments, indexes and   *)
(* the manifest and may stop between any two of its writes.                *)
Leased == INSTANCE LeasedRefs WITH
  Refs <- {r1, r2}, Leases <- {1, 2}, Horizon <- 2,
  lease <- IF part = "segments" THEN Seg!LeaseSeen ELSE [r \in {r1, r2} |-> 0],
  now <- IF part = "segments" THEN v6 ELSE 0
ImplementsLeasedRefs == Leased!Spec

(* What a caller was given a reference for can still be read: a leased     *)
(* record of the segment store, a body an ordinary writer ingested, an     *)
(* object the shared CAS must keep for a lease or a mark (whose stamps are *)
(* compared in the order of time), and the records of a fork or of a       *)
(* restore point, through evictions, collections, failed persists and      *)
(* restarts.                                                               *)
BodiesKept ==
  /\ part = "segments" => Seg!LiveDataKept
  /\ part = "ingest" => Ing!BodiesSurvive
  /\ part = "caslease" => Lease!MarkedObjectsKept /\ Lease!StampsOrdered
  /\ part = "cowfork" => Cow!HandedRefsDurable

(* A reference yields exactly the bytes it names or an error: on every     *)
(* surface and for every fragment, wherever the body lies (cache, CAS,     *)
(* sidecar, sibling store, alias), for pointers whose source was edited,   *)
(* and for the short handles a text shows.                                 *)
RefsResolveExactly ==
  /\ part = "expansion" => Exp!ExpandIsExact /\ Exp!SurfacesAgree
  /\ part = "ingest" => Ing!ResolvesExactly
  /\ part = "shortrefs" => Short!ShownTextsRecover

(* A legacy blob leaves the store only into the shared CAS, and a run that *)
(* reports no failure verifies, after any crash, fault or rollback.        *)
LegacyMigrates ==
  /\ part = "migration" => Mig!LegacyStaysReadable /\ Mig!CleanRunVerifies

(* Files several processes write without one lock stay whole and lose no   *)
(* more than the code accepts: expansion counts survive compaction and     *)
(* torn lines, action-cache segments are never cut short, and a merge of   *)
(* entity ids loses only the ids merged while it ran.                      *)
SharedRecordsMerge ==
  /\ part = "refindex" => Idx!CountsTrackExpansions
  /\ part = "actioncache" => Ac!SegmentsWhole
  /\ part = "entitynovelty" => Nov!MergesLoseOnlyRaces

(* The CAS tree of an embedded store: an object, once published, keeps its *)
(* path while threads probe, create and clean the tree, and what the store *)
(* said about it was so.                                                   *)
CasTreeHonest ==
  /\ part = "castree" => Tree!ObjectsKeepTheirPath /\ Tree!AnswersHonest

(* Maintenance by several processes: collections are spaced and never      *)
(* overlap, a sweep takes no live temporary file, and the snapshot names   *)
(* no unlinked sidecar.                                                    *)
MaintenanceSafe ==
  /\ part = "maintenance" => Maint!CollectionsSpaced /\ Maint!LiveTmpKept /\ Maint!NamedSidecarsExist

(* What stands in for content stays exact and within its budget: the index *)
(* of paged-out spans, the projection of a timeline, and the proofs of the *)
(* transparency log, which bind a leaf to its place.                       *)
ContextBounded ==
  /\ part = "workingset" => Ws!EvictedIndexExact
  /\ part = "contextview" => View!ProjectionsFitBudget
  /\ part = "transparency" => Log!ProofsBindLeaves

(* What one step may never do: start a coalesced maintenance too early,    *)
(* admit a span beyond the budget while something could be paged out, give *)
(* a delta that does not lead to the new text, evict an artifact that was  *)
(* handed out, publish a log that is inconsistent with its earlier root,   *)
(* or drop the novelty of a branch.                                        *)
StoreStepsSafe ==
  [][/\ part = "maintenance" => Maint!CoalescedRunsSpaced
     /\ part = "workingset" => Ws!AdmissionsFitBudget /\ Ws!DeltaIntegrates
     /\ part = "actioncache" => Ac!EvictionSparesServed
     /\ part = "transparency" => Log!RootsStayConsistent
     /\ part = "cowfork" => Cow!NoveltyNeverDropped]_<<part, slots>>
=============================================================================
