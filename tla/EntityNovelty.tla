---------------------------- MODULE EntityNovelty ----------------------------
(***************************************************************************)
(* The known-entity record that the engines of the stack share             *)
(* (recovery/src/entity_novelty.rs): one file per scope, replaced whole.   *)
(* A merge reads the file, adds ids in memory and replaces the file; no    *)
(* lock spans the three, so merges of several engines overlap.             *)
(*                                                                         *)
(* A file is Missing, Damaged (it does not parse, carries another schema,  *)
(* lists an id twice or names another scope) or a record.                  *)
(***************************************************************************)
EXTENDS Naturals, FiniteSets

CONSTANTS
    Merges,         \* concurrent callers
    Scopes,         \* valid scope keys
    BadScope,       \* a key of no known kind
    Ids, BadId,     \* lowercase digests, and a value that is none
    Producers,      \* PRODUCING_ENGINES
    BadProducer,
    MaxDamages,     \* bound: foreign writes that damage a file
    Missing, Damaged, Idle

VARIABLES
    novelty,        \* the file of each scope
    merge,          \* what each caller holds between its read and its write
    since,          \* ghost: ids that reached the file since that read
    damages

envars == <<novelty, merge, since, damages>>

Record(ids, producer, digest) == [ids |-> ids, producer |-> producer, cas_digest |-> digest]

validate_scope_key(scope) == scope \in Scopes
validate_engine(producer) == producer \in Producers
validate_entity_id(id) == id \in Ids

empty == Record({}, "tokenzero", Missing)

(* A missing file is an empty record; a damaged one is an error. *)
read_entity_novelty(scope) ==
    IF ~validate_scope_key(scope) THEN Damaged
    ELSE IF novelty[scope] = Missing THEN empty ELSE novelty[scope]

ForgetsTheRead(record, ids, producer, digest) ==
    Record(ids, producer, IF digest = Missing THEN record.cas_digest ELSE digest)

(* The union; a digest replaces the one on record only when given. *)
merge_ids(record, ids, producer, digest) ==
    Record(record.ids \cup ids, producer,
           IF digest = Missing THEN record.cas_digest ELSE digest)

-----------------------------------------------------------------------------
(* The read and the merge in memory; any refusal ends the call here. *)
Read(c, scope, ids, producer, digest) ==
    /\ merge[c] = Idle
    /\ LET record == read_entity_novelty(scope)
           accepted == /\ record # Damaged
                       /\ validate_engine(producer)
                       /\ \A id \in ids : validate_entity_id(id)
                       /\ digest = Missing \/ validate_entity_id(digest)
       IN  /\ accepted
           /\ merge' = [merge EXCEPT ![c] =
                  [scope |-> scope, record |-> merge_ids(record, ids, producer, digest)]]
    /\ since' = [since EXCEPT ![c] = {}]
    /\ UNCHANGED <<novelty, damages>>

(* A temporary file of its own, renamed over the record. *)
write_entity_novelty(c) ==
    /\ merge[c] # Idle
    /\ LET scope == merge[c].scope
           record == merge[c].record
       IN  /\ novelty' = [novelty EXCEPT ![scope] = record]
           /\ since' = [d \in Merges |->
                  IF d # c /\ merge[d] # Idle /\ merge[d].scope = scope
                  THEN since[d] \cup record.ids ELSE since[d]]
    /\ merge' = [merge EXCEPT ![c] = Idle]
    /\ UNCHANGED damages

(* The caller dies, or the write fails, before the rename. *)
Abandon(c) ==
    /\ merge[c] # Idle
    /\ merge' = [merge EXCEPT ![c] = Idle]
    /\ UNCHANGED <<novelty, since, damages>>

(* Something else leaves a file that no engine accepts, or takes it away. *)
Damage(scope) ==
    /\ damages < MaxDamages /\ novelty[scope] \notin {Missing, Damaged}
    /\ \E content \in {Missing, Damaged} : novelty' = [novelty EXCEPT ![scope] = content]
    /\ damages' = damages + 1
    /\ UNCHANGED <<merge, since>>

EntityNoveltyInit ==
    /\ novelty = [s \in Scopes |-> Missing]
    /\ merge = [c \in Merges |-> Idle] /\ since = [c \in Merges |-> {}]
    /\ damages = 0

EntityNoveltyNext ==
    \/ \E c \in Merges :
         \/ \E scope \in Scopes \cup {BadScope}, ids \in SUBSET (Ids \cup {BadId}),
               producer \in Producers \cup {BadProducer}, digest \in Ids \cup {BadId, Missing} :
                Cardinality(ids) < 3 /\ Read(c, scope, ids, producer, digest)
         \/ write_entity_novelty(c) \/ Abandon(c)
    \/ \E scope \in Scopes : Damage(scope)

EntityNoveltySpec == EntityNoveltyInit /\ [][EntityNoveltyNext]_envars

-----------------------------------------------------------------------------
(* What a merge may lose: no lock is held, so ids another engine merged    *)
(* between a caller's read and its write are lost, and nothing else is.    *)
(* Every record on disk stays one that every engine accepts.               *)
MergesLoseOnlyRaces ==
    /\ \A s \in Scopes : novelty[s] \notin {Missing, Damaged} =>
          novelty[s].ids \subseteq Ids /\ novelty[s].producer \in Producers
    /\ \A c \in Merges : merge[c] # Idle =>
          LET now == novelty[merge[c].scope]
          IN  now \notin {Missing, Damaged} => now.ids \ merge[c].record.ids \subseteq since[c]

-----------------------------------------------------------------------------
(* Why: a merge in flight holds an acceptable record of a valid scope that *)
(* is behind its file by no more than what was written since its read.     *)
HeldAcceptable ==
    \A c \in Merges : merge[c] # Idle =>
        /\ merge[c].scope \in Scopes
        /\ merge[c].record.ids \subseteq Ids /\ merge[c].record.producer \in Producers

NoveltyInv ==
    /\ DOMAIN novelty = Scopes /\ DOMAIN merge = Merges /\ DOMAIN since = Merges
    /\ HeldAcceptable /\ MergesLoseOnlyRaces
=============================================================================
