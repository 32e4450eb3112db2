-------------------------------- MODULE Ingest --------------------------------
(***************************************************************************)
(* Where the body behind a recovery ref lives: tokenzero-recovery/lib.rs.   *)
(*                                                                         *)
(* A payload is admitted as a blob (its bytes in the snapshot, later a     *)
(* marker for an object of the shared CAS), as a pointer to a line range   *)
(* of the source file, as a file ref (a copy, or the source itself) and as *)
(* line units and search hits.  Sources are edited and deleted by others,  *)
(* publications to the CAS fail, objects nothing names are collected, and  *)
(* the process dies between any two of these steps.                        *)
(*                                                                         *)
(* A text is a sequence of lines and stands for its own SHA-256, so a ref  *)
(* is the text it names (with the path, for a file ref).  One engine owns  *)
(* the store; RecoveryStore has the journal, the merge and the lock.       *)
(***************************************************************************)
EXTENDS Integers, Sequences, FiniteSets

CONSTANTS
    Texts,              \* contents of files and payloads: sequences of lines
    FirstTexts,         \* contents the sources start with
    Paths,              \* source files
    Shell,              \* the path of a payload that has no file ("shell:...")
    LargeLines,         \* BLOB_EXTERNALIZE_MIN_BYTES, in lines
    Nothing,            \* no entry, no file, no text
    MaxEdits, MaxStores \* bounds: changes of the sources, admissions

VARIABLES
    sources,    \* the files: text and modification time, or Nothing
    inHand,     \* a text read from a path and not yet stored, or Nothing
    entries,    \* state.blobs of the running engine
    fileRefs,   \* state.files
    unitRefs,   \* state.units and state.search_hits: the texts they hold
    toPublish,  \* pending_cas_hashes
    saved,      \* the state a restart loads
    objects,    \* texts the shared CAS holds
    leased,     \* objects a publish lease protects
    kept,       \* history: who stored a blob last, since it was evicted
    changes,    \* changes of the sources so far
    stores      \* admissions so far

ivars == <<sources, inHand, entries, fileRefs, unitRefs, toPublish, saved,
           objects, leased, kept, changes, stores>>

Lines == UNION {{t[i] : i \in DOMAIN t} : t \in Texts}
Large(t) == Len(t) >= LargeLines

Inline == [kind |-> "inline"]
Marker == [kind |-> "marker"]
FileRef(p, s, e) == [kind |-> "file", path |-> p, from |-> s, to |-> e]
Entries == {Inline, Marker} \cup {FileRef(p, s, e) : p \in Paths, s \in 1..2, e \in 1..2}

(* The fingerprint of a source: its bytes and its modification time. *)
Fingerprints == [text : Texts, stamp : 0..MaxEdits]

TypeOK ==
    /\ sources \in [Paths -> Fingerprints \cup {Nothing}]
    /\ inHand \in [path : Paths \cup {Shell}, text : Texts] \cup {Nothing}
    /\ entries \in [Texts -> Entries \cup {Nothing}]
    /\ fileRefs \in [Texts \X (Paths \cup {Shell}) ->
            [backed : BOOLEAN, print : Fingerprints \cup {Nothing}] \cup {Nothing}]
    /\ unitRefs \subseteq Lines
    /\ toPublish \subseteq Texts
    /\ saved \in [entries : [Texts -> Entries \cup {Nothing}],
                  fileRefs : [Texts \X (Paths \cup {Shell}) ->
            [backed : BOOLEAN, print : Fingerprints \cup {Nothing}] \cup {Nothing}],
                  unitRefs : SUBSET Lines]
    /\ objects \subseteq Texts /\ leased \subseteq Texts
    /\ kept \in [Texts -> {"nobody", "ordinary", "repointed"}]
    /\ changes \in 0..MaxEdits /\ stores \in 0..MaxStores

-----------------------------------------------------------------------------
(* Reading a source and telling whether it is still the one admitted. *)

line_range_out_of_bounds(s, e, count) == s = 0 \/ s > e \/ e > count

(* The bytes of a line range as they are now, Nothing when the file is     *)
(* gone or shorter.                                                        *)
read_utf8_line_range_hashed(p, s, e) ==
    IF sources[p] = Nothing \/ line_range_out_of_bounds(s, e, Len(sources[p].text))
    THEN Nothing
    ELSE SubSeq(sources[p].text, s, e)

(* The fingerprint of a file as it is when asked. *)
source_fingerprint(p) == sources[p]

(* The same with the hash already known: only the modification time is     *)
(* read.                                                                   *)
source_fingerprint_from_sha256(p, t) ==
    IF sources[p] = Nothing THEN Nothing ELSE [text |-> t, stamp |-> sources[p].stamp]

(* Slices and payloads without a file have no fingerprint.  The file is    *)
(* hashed again here, after the text was read.                             *)
fingerprint_for_stored_payload(p, slice) ==
    IF slice \/ p = Shell THEN Nothing ELSE source_fingerprint(p)

file_ref_is_stale(t, p) ==
    LET stored == fileRefs[<<t, p>>]
    IN  /\ stored # Nothing
        /\ p # Shell
        /\ stored.print # Nothing
        /\ source_fingerprint(p) # stored.print

(* A ref is answered by the digest of what was read, not by where it was   *)
(* read.                                                                   *)
TrustsThePointer(t, found) == TRUE
blob_ref_digest_matches(t, found) == found = t

(* The body of an entry, Nothing when it cannot be had. *)
resolve_blob_value(t, entry) ==
    CASE entry.kind = "inline" -> t
      [] entry.kind = "marker" -> IF t \in objects THEN t ELSE Nothing
      [] entry.kind = "file" ->
            LET found == read_utf8_line_range_hashed(entry.path, entry.from, entry.to)
            IN  IF found # Nothing /\ blob_ref_digest_matches(t, found)
                THEN found ELSE Nothing

(* The expansion of a full-hash blob ref asks the CAS first. *)
Resolve(es, t) ==
    IF t \in objects THEN t
    ELSE IF es[t] = Nothing THEN Nothing
    ELSE resolve_blob_value(t, es[t])

resolve_file_value(t, p) ==
    LET stored == fileRefs[<<t, p>>]
    IN  IF ~stored.backed THEN t
        ELSE IF stored.print = Nothing \/ sources[p] = Nothing THEN Nothing
        ELSE IF source_fingerprint_from_sha256(p, sources[p].text) = stored.print
             THEN sources[p].text ELSE Nothing

(* A file ref is refused as stale before it is resolved. *)
ExpandFile(t, p) ==
    IF fileRefs[<<t, p>>] = Nothing \/ file_ref_is_stale(t, p) THEN Nothing
    ELSE resolve_file_value(t, p)

blob_reachable(t) == entries[t] # Nothing \/ t \in objects

(* Asked before a blob serves as a base later output refers to. *)
HasRefInMemory(t) == t \in objects \/ entries[t] # Nothing
has_ref_durable(t) == t \in objects \/ saved.entries[t] # Nothing

-----------------------------------------------------------------------------
(* Admission. *)

(* Bodies are stored inline and queued for the CAS. *)
put_blob(t) ==
    /\ entries' = [entries EXCEPT ![t] = Inline]
    /\ toPublish' = toPublish \cup {t}
    /\ kept' = [kept EXCEPT ![t] = "ordinary"]

(* The pointer replaces whatever entry the hash had. *)
put_file_backed_blob(t, p, s, e) ==
    /\ entries' = [entries EXCEPT ![t] = FileRef(p, s, e)]
    /\ kept' = [kept EXCEPT ![t] = IF @ = "nobody" THEN @ ELSE "repointed"]
    /\ UNCHANGED toPublish

put_file_entry(t, p, backed, print) ==
    fileRefs' = [fileRefs EXCEPT ![<<t, p>>] = [backed |-> backed, print |-> print]]

(* One unit per line, named by its text. *)
index_units(t) == unitRefs' = unitRefs \cup {t[i] : i \in DOMAIN t}

Admitting == stores < MaxStores /\ stores' = stores + 1

(* The engine reads a source, or runs a command, and stores later. *)
ReadSource(p) ==
    /\ inHand = Nothing /\ sources[p] # Nothing
    /\ inHand' = [path |-> p, text |-> sources[p].text]
    /\ UNCHANGED <<sources, entries, fileRefs, unitRefs, toPublish, saved, objects,
                   leased, kept, changes, stores>>

RunCommand(t) ==
    /\ inHand = Nothing
    /\ inHand' = [path |-> Shell, text |-> t]
    /\ UNCHANGED <<sources, entries, fileRefs, unitRefs, toPublish, saved, objects,
                   leased, kept, changes, stores>>

(* A payload with a copy of its bytes. *)
store_payload_deferred_batch(slice) ==
    /\ inHand # Nothing /\ Admitting
    /\ put_blob(inHand.text)
    /\ put_file_entry(inHand.text, inHand.path, FALSE,
                      fingerprint_for_stored_payload(inHand.path, slice))
    /\ index_units(inHand.text)
    /\ inHand' = Nothing
    /\ UNCHANGED <<sources, saved, objects, leased, changes>>

(* A large whole file is admitted by pointing at it. *)
store_source_backed_payload_deferred_batch ==
    /\ inHand # Nothing /\ inHand.path # Shell /\ Large(inHand.text) /\ Admitting
    /\ put_file_backed_blob(inHand.text, inHand.path, 1, Len(inHand.text))
    /\ put_file_entry(inHand.text, inHand.path, TRUE,
                      source_fingerprint_from_sha256(inHand.path, inHand.text))
    /\ index_units(inHand.text)
    /\ inHand' = Nothing
    /\ UNCHANGED <<sources, saved, objects, leased, changes>>

(* The explicit pointer to a line range; the range is checked on what is   *)
(* read now.                                                               *)
store_file_backed_blob(p, s, e) ==
    /\ Admitting
    /\ \E t \in {read_utf8_line_range_hashed(p, s, e)} \ {Nothing} :
            put_file_backed_blob(t, p, s, e)
    /\ UNCHANGED <<sources, inHand, fileRefs, unitRefs, saved, objects, leased, changes>>

(* Bytes paged out of a prompt, without file or unit entries. *)
store_blob(t) ==
    /\ Admitting
    /\ put_blob(t)
    /\ UNCHANGED <<sources, inHand, fileRefs, unitRefs, saved, objects, leased, changes>>

(* A line of search output. *)
store_search_output_deferred(l) ==
    /\ Admitting
    /\ unitRefs' = unitRefs \cup {l}
    /\ UNCHANGED <<sources, inHand, entries, fileRefs, toPublish, saved, objects,
                   leased, kept, changes>>

(* Eviction and explicit removal drop an entry; an object stays. *)
drop_ref(t) ==
    /\ entries[t] # Nothing
    /\ entries' = [entries EXCEPT ![t] = Nothing]
    /\ fileRefs' = [r \in DOMAIN fileRefs |-> IF r[1] = t THEN Nothing ELSE fileRefs[r]]
    /\ kept' = [kept EXCEPT ![t] = "nobody"]
    /\ UNCHANGED <<sources, inHand, unitRefs, toPublish, saved, objects, leased,
                   changes, stores>>

-----------------------------------------------------------------------------
(* Publication to the shared CAS. *)

Memory(es) == [entries |-> es, fileRefs |-> fileRefs, unitRefs |-> unitRefs]

(* Of the hashes taken from the queue the inline ones are published under  *)
(* a lease; those that fail return to the queue; the large ones that did   *)
(* not become markers.                                                     *)
MarkedWithoutObject(taken, published) ==
    [t \in Texts |-> IF t \in taken /\ entries[t] = Inline /\ Large(t)
                     THEN Marker ELSE entries[t]]
Marked(taken, published) ==
    [t \in Texts |-> IF t \in published /\ Large(t) THEN Marker ELSE entries[t]]

(* The snapshot is rewritten when a body left it; the leases are given     *)
(* back only after that succeeded.                                         *)
publish_pending_cas_locked(taken, rest, base) ==
    \E published \in SUBSET {t \in taken : entries[t] = Inline}, written \in BOOLEAN :
        LET shrunk == \E t \in published : Large(t)
        IN  /\ entries' = Marked(taken, published)
            /\ objects' = objects \cup published
            /\ toPublish' = rest \cup {t \in taken : entries[t] = Inline /\ t \notin published}
            /\ IF shrunk /\ ~written
               THEN saved' = base /\ leased' = leased \cup published
               ELSE /\ saved' = IF shrunk THEN Memory(Marked(taken, published)) ELSE base
                    /\ leased' = leased \ published

publish_pending_cas ==
    /\ toPublish # {}
    /\ publish_pending_cas_locked(toPublish, {}, saved)
    /\ UNCHANGED <<sources, inHand, fileRefs, unitRefs, kept, changes, stores>>

(* A persist writes the state and then moves large bodies to the CAS;      *)
(* small ones wait for an explicit publication.                            *)
externalize_large_pending_cas_locked ==
    LET large == {t \in toPublish : entries[t] = Inline /\ Large(t)}
    IN  publish_pending_cas_locked(large, toPublish \ large, Memory(entries))

persist ==
    /\ Memory(entries) # saved \/ \E t \in toPublish : entries[t] = Inline /\ Large(t)
    /\ externalize_large_pending_cas_locked
    /\ UNCHANGED <<sources, inHand, fileRefs, unitRefs, kept, changes, stores>>

(* The collector (hub, external) removes an object that no lease protects  *)
(* and no marker of the saved state names.                                 *)
CollectObject(t) ==
    /\ t \in objects \ leased
    /\ saved.entries[t] # Marker
    /\ objects' = objects \ {t}
    /\ UNCHANGED <<sources, inHand, entries, fileRefs, unitRefs, toPublish, saved,
                   leased, kept, changes, stores>>

(* The process dies and the next one loads what was saved.  What a blob    *)
(* was stored for is known again only for the entries that were saved.     *)
Restart ==
    /\ entries' = saved.entries /\ fileRefs' = saved.fileRefs
    /\ unitRefs' = saved.unitRefs
    /\ toPublish' = {} /\ inHand' = Nothing
    /\ kept' = [t \in Texts |->
            IF saved.entries[t] \in {Inline, Marker} THEN "ordinary" ELSE "nobody"]
    /\ UNCHANGED <<sources, saved, objects, leased, changes, stores>>

-----------------------------------------------------------------------------
(* Other programs change the sources; a change may keep the modification   *)
(* time, and a touch changes nothing else.                                 *)
ChangeSource(p, t, touch) ==
    /\ changes < MaxEdits
    /\ changes' = changes + 1
    /\ sources' = [sources EXCEPT ![p] =
            IF t = Nothing THEN Nothing
            ELSE [text |-> t, stamp |-> IF touch \/ @ = Nothing THEN changes + 1 ELSE @.stamp]]
    /\ UNCHANGED <<inHand, entries, fileRefs, unitRefs, toPublish, saved, objects,
                   leased, kept, stores>>

IngestInit ==
    /\ sources \in [Paths -> [text : FirstTexts, stamp : {0}]]
    /\ inHand = Nothing
    /\ entries = [t \in Texts |-> Nothing]
    /\ fileRefs = [r \in Texts \X (Paths \cup {Shell}) |-> Nothing]
    /\ unitRefs = {} /\ toPublish = {}
    /\ saved = [entries |-> entries, fileRefs |-> fileRefs, unitRefs |-> {}]
    /\ objects = {} /\ leased = {}
    /\ kept = [t \in Texts |-> "nobody"]
    /\ changes = 0 /\ stores = 0

IngestNext ==
    \/ \E p \in Paths : ReadSource(p)
    \/ \E t \in Texts : RunCommand(t) \/ store_blob(t) \/ drop_ref(t) \/ CollectObject(t)
    \/ \E slice \in BOOLEAN : store_payload_deferred_batch(slice)
    \/ store_source_backed_payload_deferred_batch
    \/ \E p \in Paths, s, e \in 0..2 : store_file_backed_blob(p, s, e)
    \/ \E l \in Lines : store_search_output_deferred(l)
    \/ publish_pending_cas \/ persist \/ Restart
    \/ \E p \in Paths, t \in Texts \cup {Nothing}, touch \in BOOLEAN :
            ChangeSource(p, t, touch)

IngestSpec == IngestInit /\ [][IngestNext]_ivars

-----------------------------------------------------------------------------
(* Properties. *)

(* Whatever happens to the sources, a blob ref or a file ref is answered   *)
(* with exactly the text it names, or refused: lines inserted above an     *)
(* admitted range, an edit that keeps the modification time, or a file     *)
(* replaced between the read and the admission never put other bytes       *)
(* behind a ref.                                                           *)
ResolvesExactly ==
    /\ \A t \in Texts : Resolve(entries, t) \in {t, Nothing}
    /\ \A t \in Texts, p \in Paths \cup {Shell} : ExpandFile(t, p) \in {t, Nothing}

(* A body an ordinary writer stored is had as long as nothing dropped or   *)
(* repointed its entry, through failed publications, failed snapshot       *)
(* rewrites, collections and restarts; and a blob accepted as a durable    *)
(* base is had by the next process too, unless it is a pointer.            *)
BodiesSurvive ==
    \A t \in Texts :
        /\ kept[t] = "ordinary" => Resolve(entries, t) = t
        /\ has_ref_durable(t) =>
              \/ Resolve(saved.entries, t) = t
              \/ saved.entries[t] # Nothing /\ saved.entries[t].kind = "file"
=============================================================================
