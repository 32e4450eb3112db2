---------------------------- MODULE OutputNovelty ----------------------------
(***************************************************************************)
(* Coding receipts for output effects (core/src/output_novelty.rs): the    *)
(* caller's fields are framed into one byte string, whose digest stands    *)
(* for the selection from then on, and accounted per role.                 *)
(*                                                                         *)
(* A digest stands for the bytes it is taken of.  Lengths are one byte     *)
(* wide and drawn from the alphabet of the payload, so that the framing,   *)
(* not the alphabet, has to keep fields apart.                             *)
(***************************************************************************)
EXTENDS Integers, Sequences, FiniteSets, FiniteSetsExt, SequencesExt

CONSTANTS
    Names,          \* field names a caller may give: byte strings
    ValidNames,     \* those validate_field_name accepts
    Roles,          \* role -> the bytes of its name
    Payloads,       \* byte strings of field contents
    Identities,     \* digests of authority, effect and verification; 0 is none
    TokenCount(_),  \* the tokenizer, external: tokens of a byte string
    MaxFields,      \* MAX_OUTPUT_NOVELTY_FIELDS
    MaxBytes,       \* MAX_OUTPUT_NOVELTY_BYTES
    MaxTotal,       \* u64::MAX
    MaxDraft,       \* bound: fields of a draft
    NotCoded, Rejected

VARIABLES fields, coding

onvars == <<fields, coding>>

validate_field_name(name) == name \in ValidNames

new(name, role, bytes) ==
    validate_field_name(name) /\ (role = "novel" => bytes # <<>>)

Unframed(bytes) == bytes
put_bytes(bytes) == <<Len(bytes)>> \o bytes

(* Domain and the three identities have a fixed width. *)
encode_fields(identities, fs) ==
    identities \o put_bytes(<<Len(fs)>>)
    \o FlattenSeq([i \in DOMAIN fs |-> put_bytes(fs[i].name) \o put_bytes(Roles[fs[i].role])
                                       \o put_bytes(fs[i].bytes)])

(* Computed before anything is built. *)
encoded_len(fs) ==
    5 + MapThenSumSet(LAMBDA i : 3 + Len(fs[i].name) + Len(Roles[fs[i].role]) + Len(fs[i].bytes),
                      DOMAIN fs)

(* Counts of fields, bytes and tokens of one role; a sum that does not fit *)
(* fails the coding.                                                       *)
add(fs, role) ==
    LET of == {i \in DOMAIN fs : fs[i].role = role}
    IN  [fields |-> Cardinality(of),
         bytes  |-> MapThenSumSet(LAMBDA i : Len(fs[i].bytes), of),
         tokens |-> MapThenSumSet(LAMBDA i : TokenCount(fs[i].bytes), of)]

encode(identities, fs) ==
    LET totals == [role \in DOMAIN Roles |-> add(fs, role)]
        encoded == encode_fields(identities, fs)
    IN  IF \/ \E i \in DOMAIN identities : identities[i] = 0
           \/ fs = <<>> \/ Len(fs) > MaxFields
           \/ \E i \in DOMAIN fs : ~new(fs[i].name, fs[i].role, fs[i].bytes)
           \/ \E i, j \in DOMAIN fs : i # j /\ fs[i].name = fs[j].name
           \/ encoded_len(fs) > MaxBytes
           \/ \E role \in DOMAIN Roles : totals[role].bytes > MaxTotal \/ totals[role].tokens > MaxTotal
        THEN Rejected
        ELSE [identities |-> identities, fields |-> fs, encoded |-> encoded,
              total_encoded_bytes |-> Len(encoded), totals |-> totals]

(* The fields come back only if they still give the coding kept. *)
reconstruct_fields(c) ==
    IF encode_fields(c.identities, c.fields) = c.encoded THEN c.fields ELSE Rejected

-----------------------------------------------------------------------------
AddField(name, role, bytes) ==
    /\ coding = NotCoded /\ Len(fields) < MaxDraft
    /\ new(name, role, bytes)
    /\ fields' = Append(fields, [name |-> name, role |-> role, bytes |-> bytes])
    /\ UNCHANGED coding

Encode(identities) ==
    /\ coding = NotCoded
    /\ coding' = encode(identities, fields)
    /\ UNCHANGED fields

OutputNoveltyInit == fields = <<>> /\ coding = NotCoded

OutputNoveltyNext ==
    \/ \E n \in Names, r \in DOMAIN Roles, b \in Payloads : AddField(n, r, b)
    \/ \E ids \in Identities : Encode(ids)

OutputNoveltySpec == OutputNoveltyInit /\ [][OutputNoveltyNext]_onvars

-----------------------------------------------------------------------------
(* A reader of the encoding: what it takes off the front, and the rest. *)
TakeFrame(bytes) ==
    IF bytes = <<>> \/ Len(bytes) < 1 + Head(bytes) THEN [frame |-> <<>>, rest |-> <<>>]
    ELSE [frame |-> SubSeq(bytes, 2, 1 + Head(bytes)),
          rest  |-> SubSeq(bytes, 2 + Head(bytes), Len(bytes))]

Frames(bytes, n) ==
    LET after[k \in 0..n] ==
          IF k = 0 THEN [frames |-> <<>>, rest |-> bytes]
          ELSE LET t == TakeFrame(after[k - 1].rest)
               IN  [frames |-> Append(after[k - 1].frames, t.frame), rest |-> t.rest]
    IN  after[n]

(* The encoding determines the selection: whoever holds the bytes reads    *)
(* back the identities, the number of fields and each name, role and       *)
(* payload, with nothing left over; its length is the one the limit was    *)
(* checked against, and the totals of the roles account for every payload  *)
(* byte once.                                                              *)
EncodingDetermines ==
    coding \notin {NotCoded, Rejected} =>
        LET n == Len(coding.fields)
            read == Frames(SubSeq(coding.encoded, 4, Len(coding.encoded)), 3 * n + 1)
        IN  /\ SubSeq(coding.encoded, 1, 3) = coding.identities
            /\ read.frames[1] = <<n>> /\ read.rest = <<>>
            /\ \A i \in 1..n : LET f == coding.fields[i]
                 IN  /\ read.frames[3 * i - 1] = f.name
                     /\ read.frames[3 * i] = Roles[f.role]
                     /\ read.frames[3 * i + 1] = f.bytes
            /\ coding.total_encoded_bytes = encoded_len(coding.fields)
            /\ reconstruct_fields(coding) = coding.fields
            /\ MapThenSumSet(LAMBDA r : coding.totals[r].bytes, DOMAIN Roles)
                 = MapThenSumSet(LAMBDA i : Len(coding.fields[i].bytes), 1..n)
=============================================================================
