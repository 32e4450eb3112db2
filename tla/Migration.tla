----------------------------- MODULE Migration -----------------------------
(***************************************************************************)
(* Legacy short-ref migration (crates/tokenzero-recovery/src/migration.rs) *)
(* as the operator commands run it: every command opens the recovery store *)
(* (aliases and blobs as they are on disk then), works in memory, and      *)
(* writes three durable things one after the other: objects of the shared  *)
(* CAS, the store (persist_pending), and the manifest file.  A crash or a  *)
(* failed write can separate any two of them.  Agents of the same store    *)
(* register the short alias of a blob they store at any time.              *)
(*                                                                         *)
(* A hash stands for the bytes, their SHA-256 and their size; Prefix[h] is *)
(* the short ref made of the first digits of h.                            *)
(***************************************************************************)
EXTENDS FiniteSets, Functions

CONSTANTS Short, Hash, Prefix,
          Found,        \* what the store may hold under the short refs at the start
          MigrationFaults   \* subset of {"cas", "persist", "save", "crash", "rot", "manifest"}

VARIABLES sources,      \* durable: the blob under each short ref, or a marker
          objects,      \* durable: "absent", "good" or "bad" per CAS object
          aliases,      \* durable: alias table of the store
          ambiguous,    \* durable: short refs marked ambiguous
          manifest,     \* durable: the manifest file
          op,           \* the running command, in memory
          maker,        \* history: who made the alias of a short ref first
          original      \* history: the blobs the store held at the start

durable == <<sources, objects, aliases, ambiguous, manifest>>
vars == <<durable, op, maker, original>>

None == "none"
NoAlias == [s \in {} |-> s]
NoFile == [file |-> "missing", entries |-> NoAlias, completed |-> FALSE]
Idle == [kind |-> "idle"]

(* BlobContentResult: "missing" has no blob under the ref, "corrupt" has   *)
(* one that cannot be resolved.                                            *)
Content == Hash \cup {"missing", "corrupt"}

Bind(f, s, v) == [x \in DOMAIN f \cup {s} |-> IF x = s THEN v ELSE f[x]]

TypeOK ==
  /\ sources \in [Short -> Content]
  /\ objects \in [Hash -> {"absent", "good", "bad"}]
  /\ DOMAIN aliases \subseteq Short /\ Range(aliases) \subseteq Hash
  /\ ambiguous \subseteq Short
  /\ manifest.file \in {"missing", "valid", "unreadable"}
  /\ \A s \in DOMAIN manifest.entries : manifest.entries[s].hash \in Hash
  /\ op.kind \in {"idle", "run", "rollback", "cleanup", "report"}

Init ==
  /\ sources \in Found
  /\ objects = [h \in Hash |-> "absent"]
  /\ aliases = NoAlias
  /\ ambiguous = {}
  /\ manifest = NoFile
  /\ op = Idle
  /\ maker = [s \in Short |-> None]
  /\ original = sources

-----------------------------------------------------------------------------
(* The command's view of the store, and its checks.                        *)

(* cas_ok: the object is there and its bytes hash to its name. *)
cas_ok(h) == objects[h] = "good"

(* SharedCas::publish: an object with other bytes is never replaced.  The  *)
(* possible outcomes, as the object's state afterwards.                    *)
Publish(h) == (IF objects[h] = "bad" THEN {"bad"} ELSE {"good"})
                \cup (IF "cas" \in MigrationFaults /\ objects[h] # "good"
                      THEN {objects[h]} ELSE {})

(* Mutant: the alias is not looked at. *)
IntegrityWithoutAlias(view, s, entry, requireSource) ==
  /\ \/ view.sources[s] = entry.hash
     \/ ~requireSource /\ view.sources[s] = "missing"
  /\ cas_ok(entry.hash)

(* integrity: a legacy source that is there must have the recorded bytes,  *)
(* and may be gone only where the caller allows it; the object must be     *)
(* good and the alias must name it.                                        *)
integrity(view, s, entry, requireSource) ==
  /\ \/ view.sources[s] = entry.hash
     \/ ~requireSource /\ view.sources[s] = "missing"
  /\ cas_ok(entry.hash)
  /\ s \in DOMAIN view.aliases /\ view.aliases[s] = entry.hash

(* verify *)
verify(view) ==
  /\ manifest.file = "valid"
  /\ \A s \in DOMAIN manifest.entries : integrity(view, s, manifest.entries[s], FALSE)

(* is_legacy_blob_ref over blob_ref_ids *)
LegacyRefs == {s \in Short : sources[s] # "missing"}

(* with_legacy_migration: a command opens the store it will work on. *)
Opened(kind, todo) ==
  [kind |-> kind, todo |-> todo, step |-> "entries",
   sources |-> sources, aliases |-> aliases, ambiguous |-> ambiguous,
   dropAliases |-> {}, dropBlobs |-> {},
   entries |-> manifest.entries, changed |-> FALSE, failed |-> FALSE]

-----------------------------------------------------------------------------
(* run                                                                     *)

(* A manifest that is unreadable or of another version ends the run. *)
StartRun ==
  /\ op = Idle
  /\ manifest.file # "unreadable"
  /\ op' = Opened("run", LegacyRefs)
  /\ UNCHANGED <<durable, maker, original>>

Fail(s) == [op EXCEPT !.todo = @ \ {s}, !.failed = TRUE]
Skip(s) == [op EXCEPT !.todo = @ \ {s}]

(* resume_entry and manifest_entry both record the alias as made here. *)
Recorded(s, h, resumed) ==
  [op EXCEPT !.todo = @ \ {s}, !.changed = TRUE,
             !.entries = Bind(@, s, [hash |-> h, owner |-> TRUE, resumed |-> resumed])]

WithAlias(o, s, h) == [o EXCEPT !.aliases = Bind(@, s, h)]

(* Mutant: a good object is taken for a finished entry. *)
ResumeEntryTrustingObject(s, h) ==
  \/ /\ manifest.entries[s].hash # h
     /\ op' = Fail(s)
     /\ UNCHANGED objects
  \/ /\ manifest.entries[s].hash = h
     /\ \E after \in Publish(h) :
          /\ objects' = [objects EXCEPT ![h] = after]
          /\ op' = IF after = "good" THEN Skip(s) ELSE Fail(s)

(* An entry of the manifest: a missing object is published again, a        *)
(* missing alias stored again; an alias that exists is not compared.       *)
ResumeEntry(s, h) ==
  LET needsAlias == s \notin DOMAIN op.aliases
      Repaired == IF needsAlias THEN WithAlias(Recorded(s, h, TRUE), s, h)
                                ELSE Recorded(s, h, TRUE)
  IN \/ /\ manifest.entries[s].hash # h
        /\ op' = Fail(s)
        /\ UNCHANGED objects
     \/ /\ manifest.entries[s].hash = h
        /\ ~cas_ok(h)
        /\ \E after \in Publish(h) :
             /\ objects' = [objects EXCEPT ![h] = after]
             /\ op' = IF after = "good" THEN Repaired ELSE Fail(s)
     \/ /\ manifest.entries[s].hash = h
        /\ cas_ok(h)
        /\ op' = IF needsAlias THEN Repaired ELSE Skip(s)
        /\ UNCHANGED objects

(* No entry yet: an alias to other bytes is a conflict; otherwise publish, *)
(* store the alias if there is none, and record the entry.                 *)
FirstMigration(s, h) ==
  \/ /\ s \in DOMAIN op.aliases /\ op.aliases[s] # h
     /\ op' = Fail(s)
     /\ UNCHANGED objects
  \/ /\ s \in DOMAIN op.aliases => op.aliases[s] = h
     /\ \E after \in Publish(h) :
          /\ objects' = [objects EXCEPT ![h] = after]
          /\ op' = IF after = "good" THEN WithAlias(Recorded(s, h, FALSE), s, h) ELSE Fail(s)

(* Ambiguous refs, unresolvable blobs and blobs whose hash does not start  *)
(* with the short ref are failed and left alone.                           *)
Migratable(s, h) == s \notin op.ambiguous /\ h \in Hash /\ Prefix[h] = s

migrate_one(s) ==
  /\ op.kind = "run" /\ op.step = "entries" /\ s \in op.todo
  /\ LET h == op.sources[s] IN
     \/ /\ ~Migratable(s, h)
        /\ op' = Fail(s)
        /\ UNCHANGED objects
     \/ /\ Migratable(s, h)
        /\ IF s \in DOMAIN manifest.entries THEN ResumeEntry(s, h) ELSE FirstMigration(s, h)
  /\ UNCHANGED <<sources, aliases, ambiguous, manifest, maker, original>>

-----------------------------------------------------------------------------
(* The end of a command: persist, then the manifest file.                  *)

(* persist_pending of the recovery store: deletions apply, the command's   *)
(* aliases merge with those an agent stored meanwhile; the first mapping   *)
(* stays and a conflict makes the ref ambiguous.                           *)
PersistStore ==
  LET kept == Restrict(aliases, DOMAIN aliases \ op.dropAliases)
      mine == Restrict(op.aliases, DOMAIN op.aliases \ op.dropAliases)
  IN /\ aliases' = [s \in DOMAIN kept \cup DOMAIN mine |->
                      IF s \in DOMAIN kept THEN kept[s] ELSE mine[s]]
     /\ ambiguous' = (ambiguous \ op.dropAliases) \cup
          {s \in DOMAIN kept \cap DOMAIN mine : kept[s] # mine[s]}
     /\ sources' = [s \in Short |-> IF s \in op.dropBlobs THEN "missing" ELSE sources[s]]
     /\ maker' = [s \in Short |->
                    IF s \notin DOMAIN aliases' THEN None
                    ELSE IF s \notin DOMAIN kept /\ maker[s] = None THEN "migration" ELSE maker[s]]

Report(failed) == op' = [kind |-> "report", of |-> op.kind, failed |-> failed]

(* The steps after the last entry.  A run with nothing changed writes      *)
(* nothing; a failed persist fails the run, and the manifest is saved all  *)
(* the same.                                                               *)
FinishRun ==
  /\ op.kind = "run" /\ op.step = "entries" /\ op.todo = {}
  /\ \/ /\ ~op.changed
        /\ Report(op.failed)
        /\ UNCHANGED <<sources, aliases, ambiguous, maker>>
     \/ /\ op.changed
        /\ PersistStore
        /\ op' = [op EXCEPT !.step = "save"]
     \/ /\ op.changed /\ "persist" \in MigrationFaults
        /\ op' = [op EXCEPT !.step = "save", !.failed = TRUE]
        /\ UNCHANGED <<sources, aliases, ambiguous, maker>>
  /\ UNCHANGED <<objects, manifest, original>>

(* MigrationManifest::save: temporary file and rename. *)
SaveManifest ==
  /\ op.kind = "run" /\ op.step = "save"
  /\ \/ manifest' = [file |-> "valid", entries |-> op.entries, completed |-> ~op.failed]
     \/ "save" \in MigrationFaults /\ UNCHANGED manifest
  /\ Report(op.failed)
  /\ UNCHANGED <<sources, objects, aliases, ambiguous, maker, original>>

-----------------------------------------------------------------------------
(* rollback --apply                                                        *)

(* Mutant: sources are not checked. *)
RollbackUnchecked ==
  /\ op = Idle /\ manifest.file = "valid"
  /\ op' = [Opened("rollback", {}) EXCEPT !.dropAliases = DOMAIN manifest.entries]
  /\ UNCHANGED <<durable, maker, original>>

(* Every entry's source must still be there; one that is not fails the     *)
(* whole rollback, which then writes nothing.                              *)
rollback ==
  /\ op = Idle /\ manifest.file = "valid"
  /\ LET safe == \A s \in DOMAIN manifest.entries : sources[s] = manifest.entries[s].hash
         mine == {s \in DOMAIN manifest.entries : manifest.entries[s].owner}
     IN op' = IF safe
              THEN [Opened("rollback", {}) EXCEPT !.dropAliases = mine]
              ELSE [kind |-> "report", of |-> "rollback", failed |-> TRUE]
  /\ UNCHANGED <<durable, maker, original>>

(* The manifest goes only after the alias removals are persisted. *)
RollbackPersist ==
  /\ op.kind = "rollback" /\ op.step = "entries"
  /\ \/ /\ PersistStore
        /\ op' = [op EXCEPT !.step = "unlink"]
     \/ /\ "persist" \in MigrationFaults
        /\ Report(TRUE)
        /\ UNCHANGED <<sources, aliases, ambiguous, maker>>
  /\ UNCHANGED <<objects, manifest, original>>

RollbackUnlink ==
  /\ op.kind = "rollback" /\ op.step = "unlink"
  /\ manifest' = NoFile
  /\ Report(FALSE)
  /\ UNCHANGED <<sources, objects, aliases, ambiguous, maker, original>>

-----------------------------------------------------------------------------
(* cleanup --apply --confirm-cleanup                                       *)

(* The whole manifest must verify; then each entry is checked once more,   *)
(* its source included, before its blob is removed.                        *)
cleanup ==
  /\ op = Idle /\ manifest.file = "valid"
  /\ LET view == [sources |-> sources, aliases |-> aliases]
         sure == {s \in DOMAIN manifest.entries : integrity(view, s, manifest.entries[s], TRUE)}
     IN op' = IF verify(view)
              THEN [Opened("cleanup", {}) EXCEPT !.dropBlobs = sure,
                                                 !.failed = sure # DOMAIN manifest.entries]
              ELSE [kind |-> "report", of |-> "cleanup", failed |-> TRUE]
  /\ UNCHANGED <<durable, maker, original>>

CleanupPersist ==
  /\ op.kind = "cleanup"
  /\ \/ /\ op.dropBlobs # {}
        /\ PersistStore
        /\ Report(op.failed)
     \/ /\ op.dropBlobs = {} \/ "persist" \in MigrationFaults
        /\ Report(op.failed \/ op.dropBlobs # {})
        /\ UNCHANGED <<sources, aliases, ambiguous, maker>>
  /\ UNCHANGED <<objects, manifest, original>>

-----------------------------------------------------------------------------
(* Everybody else.                                                         *)

Acknowledge ==
  /\ op.kind = "report"
  /\ op' = Idle
  /\ UNCHANGED <<durable, maker, original>>

(* register_blob of another process: the blob's short alias is stored and  *)
(* persisted; a second target makes the short ref ambiguous.               *)
RegisterBlob(h) ==
  /\ LET s == Prefix[h] IN
     IF s \in DOMAIN aliases
     THEN /\ ambiguous' = IF aliases[s] = h THEN ambiguous ELSE ambiguous \cup {s}
          /\ UNCHANGED <<aliases, maker>>
     ELSE /\ aliases' = Bind(aliases, s, h)
          /\ maker' = [maker EXCEPT ![s] = IF op = Idle THEN "agent" ELSE "race"]
          /\ UNCHANGED ambiguous
  /\ UNCHANGED <<sources, objects, manifest, op, original>>

Crash ==
  /\ "crash" \in MigrationFaults
  /\ op.kind \in {"run", "rollback", "cleanup"}
  /\ op' = Idle
  /\ UNCHANGED <<durable, maker, original>>

(* An object is lost or damaged between two commands, while the legacy     *)
(* blob is still there to repair it from.                                  *)
Rot(h) ==
  /\ "rot" \in MigrationFaults
  /\ op = Idle
  /\ objects[h] = "good"
  /\ sources[Prefix[h]] = h
  /\ \E state \in {"absent", "bad"} : objects' = [objects EXCEPT ![h] = state]
  /\ UNCHANGED <<sources, aliases, ambiguous, manifest, op, maker, original>>

LoseManifest ==
  /\ "manifest" \in MigrationFaults
  /\ op = Idle
  /\ manifest.file = "valid"
  /\ \E file \in {"missing", "unreadable"} : manifest' = [NoFile EXCEPT !.file = file]
  /\ UNCHANGED <<sources, objects, aliases, ambiguous, op, maker, original>>

Next ==
  \/ StartRun \/ FinishRun \/ SaveManifest
  \/ \E s \in Short : migrate_one(s)
  \/ rollback \/ RollbackPersist \/ RollbackUnlink
  \/ cleanup \/ CleanupPersist
  \/ Acknowledge \/ Crash \/ LoseManifest
  \/ \E h \in Hash : RegisterBlob(h) \/ Rot(h)

Spec == Init /\ [][Next]_vars

-----------------------------------------------------------------------------
(* Properties.                                                             *)

(* A legacy blob leaves the store only into the shared CAS: once its       *)
(* source is gone, the object is good and the short ref's alias names it,  *)
(* whatever command failed, crashed or was rolled back before or after.    *)
LegacyStaysReadable ==
  \A s \in Short :
    original[s] \in Hash /\ sources[s] = "missing" =>
      /\ objects[original[s]] = "good"
      /\ s \in DOMAIN aliases /\ aliases[s] = original[s]

(* A run that reports no failure leaves every recorded entry it could see  *)
(* with a good object and an alias naming it, repairing what earlier       *)
(* crashes and half-done rollbacks left; an alias an agent bound to other  *)
(* bytes is the exception that only verify reports.                        *)
CleanRunVerifies ==
  op.kind = "report" /\ op.of = "run" /\ ~op.failed =>
    \A s \in DOMAIN manifest.entries :
      sources[s] # "missing" /\ maker[s] \notin {"agent", "race"} =>
        integrity([sources |-> sources, aliases |-> aliases], s, manifest.entries[s], FALSE)

-----------------------------------------------------------------------------
(* Why a legacy blob stays readable and a clean run verifies.               *)

MigConstants ==
  /\ "missing" \notin Hash /\ "corrupt" \notin Hash
  /\ Prefix \in [Hash -> Short] /\ Found \subseteq [Short -> Content]

EntriesNamed(entries) ==
  /\ DOMAIN entries \subseteq Short
  /\ \A s \in DOMAIN entries : entries[s].hash \in Hash /\ Prefix[entries[s].hash] = s

Running ==
  /\ op = [kind |-> op.kind, todo |-> op.todo, step |-> op.step, sources |-> op.sources,
           aliases |-> op.aliases, ambiguous |-> op.ambiguous, dropAliases |-> op.dropAliases,
           dropBlobs |-> op.dropBlobs, entries |-> op.entries, changed |-> op.changed,
           failed |-> op.failed]
  /\ op.failed \in BOOLEAN /\ op.changed \in BOOLEAN
  /\ DOMAIN op.aliases \subseteq Short

MigShapes ==
  /\ sources \in [Short -> Content] /\ original \in [Short -> Content]
  /\ objects \in [Hash -> {"absent", "good", "bad"}]
  /\ DOMAIN aliases \subseteq Short /\ DOMAIN maker = Short
  /\ EntriesNamed(manifest.entries)
  /\ \/ op = Idle
     \/ op.kind = "report" /\ op = [kind |-> "report", of |-> op.of, failed |-> op.failed] /\ op.failed \in BOOLEAN
     \/ op.kind \in {"run", "rollback", "cleanup"} /\ Running

(* A blob is what it was, or it is gone and its object stands in for it. *)
SourcesHandedOver ==
  \A s \in Short :
    /\ sources[s] = original[s] \/ sources[s] = "missing"
    /\ original[s] \in Hash /\ sources[s] = "missing" =>
         /\ Prefix[original[s]] = s /\ objects[original[s]] = "good"
         /\ s \in DOMAIN aliases /\ aliases[s] = original[s]

(* An alias no agent made names the bytes the short ref had. *)
AliasesTrue ==
  \A s \in Short :
    /\ s \notin DOMAIN aliases => maker[s] = None
    /\ s \in DOMAIN aliases /\ maker[s] \notin {"agent", "race"} => aliases[s] = original[s]

(* What a command still in memory will drop, it may drop. *)
DropsSafe ==
  /\ op.kind = "run" => op.dropAliases = {} /\ op.dropBlobs = {}
  /\ op.kind = "rollback" =>
       /\ op.dropBlobs = {} /\ \A s \in op.dropAliases : s \in Short => sources[s] # "missing"
       /\ op.step = "entries" => DOMAIN op.aliases \subseteq DOMAIN aliases
  /\ op.kind = "cleanup" =>
       /\ op.dropAliases = {} /\ DOMAIN op.aliases \subseteq DOMAIN aliases
       /\ \A s \in op.dropBlobs :
            /\ s \in Short /\ sources[s] \in Hash /\ Prefix[sources[s]] = s
            /\ objects[sources[s]] = "good"
            /\ s \in DOMAIN aliases /\ aliases[s] = sources[s]

(* What is recorded of s is its blob, and the blob's object is there. *)
Backed(entries, s) ==
  /\ s \in DOMAIN entries => entries[s].hash = sources[s]
  /\ sources[s] \in Hash /\ objects[sources[s]] = "good"

RunFaithful ==
  op.kind = "run" =>
    /\ op.sources = sources /\ op.todo \subseteq LegacyRefs
    /\ op.step = "save" => op.todo = {}
    /\ EntriesNamed(op.entries)
    /\ \A s \in DOMAIN op.entries : op.entries[s].hash = sources[s]
         \/ (s \in DOMAIN manifest.entries /\ op.entries[s].hash = manifest.entries[s].hash)
    /\ \A s \in DOMAIN op.aliases \ DOMAIN aliases : op.aliases[s] = original[s] /\ op.changed
    /\ ~op.failed => \A s \in LegacyRefs \ op.todo :
         /\ Backed(manifest.entries, s) /\ Backed(op.entries, s)
         /\ s \in DOMAIN op.aliases
         /\ op.step = "save" => s \in DOMAIN aliases

ReportTrue ==
  op.kind = "report" /\ op.of = "run" /\ ~op.failed =>
    \A s \in LegacyRefs : Backed(manifest.entries, s) /\ s \in DOMAIN aliases

MigInv == MigShapes /\ SourcesHandedOver /\ AliasesTrue /\ DropsSafe /\ RunFaithful /\ ReportTrue
=============================================================================
