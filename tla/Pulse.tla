-------------------------------- MODULE Pulse --------------------------------
(***************************************************************************)
(* The Pulse telemetry ledger of crates/tokenzero-pulse/src/lib.rs: an     *)
(* append-only JSONL ledger that is the source of truth, an SQLite cache   *)
(* rebuilt from it, a sidecar marker, and a snapshot file through which    *)
(* ledgers of several roots are exported and imported.                     *)
(*                                                                         *)
(* One advisory lock per ledger orders appends, syncs, imports and         *)
(* exports.  The snapshot file belongs to no ledger: nothing locks it.     *)
(* Steps are the writes a crash or another ledger can come between.        *)
(***************************************************************************)
EXTENDS Naturals, Sequences, SequencesExt

CONSTANTS
  Ledger,       \* ledgers, each with its lock, cache and sidecar
  Agent,        \* processes
  Home,         \* Agent -> the ledger a process works on
  Event,        \* telemetry events, each of one moment: recorded once
  Clamp,        \* Event -> the event an SQLite row gives back: counts above
                \* i64::MAX come back as i64::MAX
  MaxClock,     \* bound: seconds of the behaviour
  Faults        \* "torn" appends, "crash" of a process, "cache" loss or damage
                \* of an SQLite file, "io" errors of a sync, "snapshot" damage

ASSUME PulseConstants ==
  /\ Home \in [Agent -> Ledger]
  /\ Clamp \in [Event -> Event]
  /\ \A e \in Event : Clamp[Clamp[e]] = Clamp[e]
  /\ MaxClock \in Nat
  /\ Faults \subseteq {"torn", "crash", "cache", "io", "snapshot"}

VARIABLES
  ledger,   \* Ledger -> what was appended, in order
  cache,    \* Ledger -> the SQLite cache: its rows and the hash in its meta
            \* table (the table's update time is never read)
  side,     \* Ledger -> events.meta.json
  out,      \* the snapshot file
  outMeta,  \* the marker beside the snapshot
  clock,    \* now_unix, in seconds
  pc,       \* Agent -> where a process is
  op,       \* Agent -> the command it runs
  held,     \* Agent -> the scan and marker a command carries between steps
  recorded, \* events that some process has tried to append, and what SQLite
            \* makes of them: their moments are past
  fresh,    \* ghost: Ledger -> events acknowledged since the last sync marker
  exported  \* ghost: the snapshots that were ever marked, with their last time

vars == <<ledger, cache, side, out, outMeta, clock, pc, op, held, recorded, fresh, exported>>

-----------------------------------------------------------------------------
(* The text of a ledger.  An append is a chunk: the event's JSON, whole or *)
(* cut short, with or without its newline.                                 *)

Chunk == [event: Event, whole: BOOLEAN, newline: BOOLEAN]

Cut(e) == [event |-> e, whole |-> FALSE, newline |-> FALSE]
Appended(e) == [event |-> e, whole |-> TRUE, newline |-> TRUE]

(* What a failed write can leave: a cut event, an event without its        *)
(* newline, or all of the line.                                            *)
Torn(e) == {Cut(e), [event |-> e, whole |-> TRUE, newline |-> FALSE], Appended(e)}

StartsLine(text, i) == i = 1 \/ text[i - 1].newline
EndsLine(text, i)   == i = Len(text) \/ text[i].newline

(* parse_event_line succeeds on a line that is one whole event. *)
parse_event_line(text, i) == text[i].whole /\ StartsLine(text, i) /\ EndsLine(text, i)

(* scan_jsonl: the events of the lines that parse, and the lines that do   *)
(* not.  The hash of a text is the text.                                   *)
Parsed(text) == {i \in DOMAIN text : parse_event_line(text, i)}

Events(text) == {text[i].event : i \in Parsed(text)}

Skipped(text) == {i \in DOMAIN text : EndsLine(text, i)} \ Parsed(text) # {}

(* The rows a rebuild inserts, line by line in ledger order. *)
Rows(text) ==
  LET upTo[n \in 0..Len(text)] ==
        IF n = 0 THEN <<>>
        ELSE IF n \in Parsed(text) THEN Append(upTo[n - 1], Clamp[text[n].event])
        ELSE upTo[n - 1]
  IN  upTo[Len(text)]

NoFile  == [file |-> "absent"]
NoMeta  == [file |-> "absent"]
NoCache == [file |-> "absent"]
NoHeld  == [file |-> "absent"]

(* meta_from_scan, meta_matches_scan *)
meta_from_scan(text) == [hash |-> text, updated |-> clock]
meta_matches_scan(meta, text) == meta # NoMeta /\ meta.hash = text

Lock(a) == Home[a]
Locked(a) == pc[a] # "idle"
LockFree(l) == \A b \in Agent : Home[b] = l => ~Locked(b)

-----------------------------------------------------------------------------
(* record_event: one line appended and flushed under the lock.             *)

record_event(a, e) ==
  LET l == Home[a] IN
  /\ pc[a] = "idle" /\ LockFree(l) /\ e \notin recorded
  /\ recorded' = recorded \cup {e, Clamp[e]}
  /\ ledger' = [ledger EXCEPT ![l] = Append(@, Appended(e))]
  /\ fresh' = [fresh EXCEPT ![l] = @ \cup {e}]
  /\ UNCHANGED <<cache, side, out, outMeta, clock, pc, op, held, exported>>

(* A full disk, a failed flush or a crash inside the append.  The caller   *)
(* gets no acknowledgement; some of the line may be in the file.           *)
RecordFails(a, e) ==
  LET l == Home[a] IN
  /\ "torn" \in Faults
  /\ pc[a] = "idle" /\ LockFree(l) /\ e \notin recorded
  /\ recorded' = recorded \cup {e, Clamp[e]}
  /\ \E c \in Torn(e) : ledger' = [ledger EXCEPT ![l] = Append(@, c)]
  /\ UNCHANGED <<cache, side, out, outMeta, clock, pc, op, held, fresh, exported>>

-----------------------------------------------------------------------------
(* sync_jsonl_to_sqlite_locked, in the two writes it makes.                *)

(* Mutant: the sidecar alone decides that the cache is current. *)
TrustsSidecar(l) == meta_matches_scan(side[l], ledger[l])

(* The marker-equality fast path of sync_jsonl_into_sqlite_cache. *)
CacheIsCurrent(l) ==
  /\ cache[l] # NoCache
  /\ cache[l].hash = ledger[l]
  /\ meta_matches_scan(side[l], ledger[l])

(* One transaction: every row replaced, and the marker with them. *)
write_sqlite_events_from_jsonl(l) ==
  cache' = [cache EXCEPT ![l] = [rows |-> Rows(ledger[l]), hash |-> ledger[l]]]

SyncCache(a, kind) ==
  LET l == Home[a] IN
  /\ \/ kind \in {"sync", "export"} /\ pc[a] = "idle" /\ LockFree(l)
     \/ kind = "import" /\ pc[a] = "copied"
  /\ IF CacheIsCurrent(l) THEN UNCHANGED cache ELSE write_sqlite_events_from_jsonl(l)
  /\ pc' = [pc EXCEPT ![a] = "cached"]
  /\ op' = [op EXCEPT ![a] = kind]
  /\ UNCHANGED <<ledger, side, out, outMeta, clock, held, recorded, fresh, exported>>

(* write_sidecar_meta: what was appended is now under a marker. *)
SyncSidecar(a) ==
  LET l == Home[a] IN
  /\ pc[a] = "cached"
  /\ side' = [side EXCEPT ![l] = meta_from_scan(ledger[l])]
  /\ fresh' = [fresh EXCEPT ![l] = {}]
  /\ pc' = [pc EXCEPT ![a] = "synced"]
  /\ UNCHANGED <<ledger, cache, out, outMeta, clock, op, held, recorded, exported>>

Return(a) ==
  /\ pc' = [pc EXCEPT ![a] = "idle"]
  /\ op' = [op EXCEPT ![a] = "none"]
  /\ held' = [held EXCEPT ![a] = NoHeld]

SyncReturn(a) ==
  /\ pc[a] = "synced" /\ op[a] # "export"
  /\ Return(a)
  /\ UNCHANGED <<ledger, cache, side, out, outMeta, clock, recorded, fresh, exported>>

(* A database that stays locked, or a write that fails: the error is       *)
(* returned and whatever was written stays.                                *)
CommandFails(a) ==
  /\ "io" \in Faults
  /\ Locked(a)
  /\ Return(a)
  /\ UNCHANGED <<ledger, cache, side, out, outMeta, clock, recorded, fresh, exported>>

-----------------------------------------------------------------------------
(* export_jsonl, after its sync: the rows become the snapshot, then the    *)
(* snapshot is scanned and its marker written.                             *)

(* Mutant: rows are written as they are, not as JSON lines. *)
ExportsRawRows(rows) == rows

AsText(rows) == [i \in DOMAIN rows |-> Appended(rows[i])]

atomic_export_sqlite_jsonl(a) ==
  /\ pc[a] = "synced" /\ op[a] = "export"
  /\ out' = [text |-> AsText(cache[Home[a]].rows)]
  /\ pc' = [pc EXCEPT ![a] = "written"]
  /\ UNCHANGED <<ledger, cache, side, outMeta, clock, op, held, recorded, fresh, exported>>

ExportScan(a) ==
  /\ pc[a] = "written"
  /\ held' = [held EXCEPT ![a] = meta_from_scan(out.text)]
  /\ pc' = [pc EXCEPT ![a] = "scanned"]
  /\ UNCHANGED <<ledger, cache, side, out, outMeta, clock, op, recorded, fresh, exported>>

ExportMarker(a) ==
  /\ pc[a] = "scanned"
  /\ outMeta' = held[a]
  /\ exported' = LET older == {m \in exported : m.hash = held[a].hash /\ m.updated <= held[a].updated}
                     newer == {m \in exported : m.hash = held[a].hash} \ older
                 IN  (exported \ older) \cup (IF newer = {} THEN {held[a]} ELSE {})
  /\ Return(a)
  /\ UNCHANGED <<ledger, cache, side, out, clock, recorded, fresh>>

-----------------------------------------------------------------------------
(* import_jsonl: verify the snapshot against its marker and the current    *)
(* ledger, copy it, sync.                                                  *)

(* The scan of verify_import_source, of which the hash is kept; a corrupt or missing source is an     *)
(* error before anything happened.                                         *)
ImportScan(a) ==
  /\ pc[a] = "idle" /\ LockFree(Home[a])
  /\ out # NoFile /\ ~Skipped(out.text)
  /\ held' = [held EXCEPT ![a] = [hash |-> out.text, updated |-> 0]]
  /\ pc' = [pc EXCEPT ![a] = "verifying"]
  /\ op' = [op EXCEPT ![a] = "import"]
  /\ UNCHANGED <<ledger, cache, side, out, outMeta, clock, recorded, fresh, exported>>

(* Mutants: events appended since the last sync do not matter; a snapshot  *)
(* of the same second is newer.                                            *)
ForgetsUnsynced(text, meta, l) ==
  \/ text = ledger[l]
  \/ side[l] = NoMeta /\ ledger[l] = <<>>
  \/ side[l] # NoMeta /\ meta # NoMeta /\ meta.updated > side[l].updated

AcceptsSameSecond(text, meta, l) ==
  \/ text = ledger[l]
  \/ side[l] = NoMeta /\ ledger[l] = <<>>
  \/ /\ side[l] # NoMeta /\ meta # NoMeta
     /\ meta_matches_scan(side[l], ledger[l]) \/ Skipped(ledger[l])
     /\ meta.updated >= side[l].updated

(* The rules of ensure_import_not_older for a verified text. *)
ensure_import_not_older(text, meta, l) ==
  \/ text = ledger[l]
  \/ side[l] = NoMeta /\ ledger[l] = <<>>
  \/ /\ side[l] # NoMeta /\ meta # NoMeta
     /\ meta_matches_scan(side[l], ledger[l]) \/ Skipped(ledger[l])
     /\ meta.updated > side[l].updated

ImportVerify(a) ==
  LET text == held[a].hash
      pass == /\ outMeta = NoMeta \/ meta_matches_scan(outMeta, text)
              /\ ensure_import_not_older(text, outMeta, Home[a])
  IN
  /\ pc[a] = "verifying"
  /\ \/ pass /\ pc' = [pc EXCEPT ![a] = "accepted"] /\ UNCHANGED <<op, held>>
     \/ ~pass /\ Return(a)
  /\ UNCHANGED <<ledger, cache, side, out, outMeta, clock, recorded, fresh, exported>>

(* Mutants: the copy is not compared with what was verified, and skips    *)
(* corrupt lines or not.                                                   *)
CopiesWhateverIsThere(a) == out # NoFile

UnchangedSource(a) == out.text = held[a].hash

atomic_import_valid_jsonl(a) ==
  /\ pc[a] = "accepted"
  /\ \/ /\ UnchangedSource(a)
        /\ ledger' = [ledger EXCEPT ![Home[a]] = out.text]
        /\ pc' = [pc EXCEPT ![a] = "copied"]
        /\ UNCHANGED <<op, held>>
     \/ ~UnchangedSource(a) /\ Return(a) /\ UNCHANGED ledger
  /\ UNCHANGED <<cache, side, out, outMeta, clock, recorded, fresh, exported>>

-----------------------------------------------------------------------------
(* The environment.                                                        *)

Tick ==
  /\ clock < MaxClock
  /\ clock' = clock + 1
  /\ UNCHANGED <<ledger, cache, side, out, outMeta, pc, op, held, recorded, fresh, exported>>

(* The kernel drops the lock of a dead process. *)
Crash(a) ==
  /\ "crash" \in Faults
  /\ Locked(a)
  /\ Return(a)
  /\ UNCHANGED <<ledger, cache, side, out, outMeta, clock, recorded, fresh, exported>>

(* The database is deleted, or malformed and removed by the next open. *)
LoseCache(l) ==
  /\ "cache" \in Faults
  /\ cache[l] # NoCache /\ LockFree(l)
  /\ cache' = [cache EXCEPT ![l] = NoCache]
  /\ UNCHANGED <<ledger, side, out, outMeta, clock, pc, op, held, recorded, fresh, exported>>

(* Someone truncates the snapshot inside its last line. *)
DamageSnapshot ==
  /\ "snapshot" \in Faults
  /\ out # NoFile /\ out.text # <<>> /\ Last(out.text).whole
  /\ out' = [text |-> Append(Front(out.text), Cut(Last(out.text).event))]
  /\ UNCHANGED <<ledger, cache, side, outMeta, clock, pc, op, held, recorded, fresh, exported>>

-----------------------------------------------------------------------------
Init ==
  /\ ledger = [l \in Ledger |-> <<>>]
  /\ cache = [l \in Ledger |-> NoCache]
  /\ side = [l \in Ledger |-> NoMeta]
  /\ out = NoFile /\ outMeta = NoMeta
  /\ clock = 0 /\ recorded = {}
  /\ pc = [a \in Agent |-> "idle"]
  /\ op = [a \in Agent |-> "none"]
  /\ held = [a \in Agent |-> NoHeld]
  /\ fresh = [l \in Ledger |-> {}]
  /\ exported = {}

Command(a) ==
  \/ \E e \in Event : record_event(a, e) \/ RecordFails(a, e)
  \/ \E kind \in {"sync", "export", "import"} : SyncCache(a, kind)
  \/ SyncSidecar(a) \/ SyncReturn(a)
  \/ atomic_export_sqlite_jsonl(a) \/ ExportScan(a) \/ ExportMarker(a)
  \/ ImportScan(a) \/ ImportVerify(a) \/ atomic_import_valid_jsonl(a)
  \/ CommandFails(a) \/ Crash(a)

Next ==
  \/ \E a \in Agent : Command(a)
  \/ \E l \in Ledger : LoseCache(l)
  \/ DamageSnapshot
  \/ Tick

Spec == Init /\ [][Next]_vars

-----------------------------------------------------------------------------
Text == Seq(Chunk)
Meta == [hash: Text, updated: Nat]

TypeOK ==
  /\ ledger \in [Ledger -> Text]
  /\ cache \in [Ledger -> {NoCache} \cup [rows: Seq(Event), hash: Text]]
  /\ side \in [Ledger -> {NoMeta} \cup Meta]
  /\ out = NoFile \/ out \in [text: Text]
  /\ outMeta = NoMeta \/ outMeta \in Meta
  /\ clock \in Nat /\ recorded \subseteq Event
  /\ pc \in [Agent -> {"idle", "cached", "synced", "written", "scanned",
                       "verifying", "accepted", "copied"}]
  /\ op \in [Agent -> {"none", "sync", "export", "import"}]
  /\ held \in [Agent -> {NoHeld} \cup Meta]
  /\ fresh \in [Ledger -> SUBSET Event]
  /\ exported \subseteq Meta

(* An event that record_event acknowledged is read by every scan of the    *)
(* ledger until a sync puts it under a marker: no import discards unsynced *)
(* events, and nothing written before or after makes the line unreadable.  *)
RecordedEventsReadable == \A l \in Ledger : fresh[l] \subseteq Events(ledger[l])

(* A sync that is about to return has the cache hold exactly the readable  *)
(* events of the ledger, in order, and both markers name that ledger,      *)
(* whatever happened to the cache, the sidecar or an earlier sync.         *)
SyncedCacheCurrent ==
  \A a \in Agent :
    LET l == Home[a] IN
    pc[a] = "synced" =>
      /\ cache[l] # NoCache /\ cache[l].rows = Rows(ledger[l])
      /\ cache[l].hash = ledger[l]
      /\ meta_matches_scan(side[l], ledger[l])

(* A ledger changes by appends, or is replaced by a snapshot that some     *)
(* export marked later than the ledger's own marker; only a ledger that    *)
(* never had an event or a marker takes a snapshot of any age.             *)
ReplacedOnlyByNewer ==
  [][\A l \in Ledger :
       \/ IsPrefix(ledger[l], ledger'[l])
       \/ \E m \in exported : /\ m.hash = ledger'[l]
                              /\ side[l] # NoMeta /\ m.updated > side[l].updated]_ledger

(* No corrupt line reaches a ledger through an import: a ledger nobody     *)
(* tore stays readable to the last line, though the snapshot it is         *)
(* imported from may be cut at any moment.                                 *)
ImportsReadable == "torn" \notin Faults => \A l \in Ledger : ~Skipped(ledger[l])
=============================================================================
