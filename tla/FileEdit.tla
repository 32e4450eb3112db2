------------------------------ MODULE FileEdit ------------------------------
(***************************************************************************)
(* The edit operation: read the file, apply every hunk to the evolving     *)
(* text, make the pre- and post-image recoverable, publish the new text    *)
(* through a temporary file, seed the session's seen-set.  Edits of one    *)
(* file run concurrently and nothing locks the file.                       *)
(*                                                                         *)
(*   engine_edit.rs   edit                                                 *)
(*   render.rs        apply_edit_hunks, create_file_hunk, write_atomic     *)
(*                                                                         *)
(* A text is a sequence of letters.                                        *)
(***************************************************************************)
EXTENDS Naturals, Sequences, FiniteSets, SequencesExt

CONSTANTS Edits,        \* edit calls, each made once
          EditRequests, \* hunks, create flag and dry-run flag a call may carry
          StartTexts,   \* texts the file may hold at the start
          NoFile        \* the file does not exist

VARIABLES file,    \* the file's text, NoFile, or a torn text
          temps,   \* name -> bytes in a temporary file
          images,  \* texts recoverable from the store
          at,      \* edit -> control point
          req,     \* edit -> its request
          old, new,\* edit -> text read, text to publish
          ack,     \* edit -> "none", "applied", "dry", "failed", "session_failed"
          seenText,\* texts the seen-set holds for the file
          editCrashed  \* a crash stopped an edit

vars == <<file, temps, images, at, req, old, new, ack, seenText, editCrashed>>

Torn(text) == <<"torn">> \o text   \* a prefix of the bytes only

TypeOK ==
    /\ temps \in [DOMAIN temps -> Seq(STRING) \cup {NoFile}]
    /\ at \in [Edits -> {"idle", "read", "apply", "persist", "write", "fill", "rename",
                         "seed", "done"}]
    /\ ack \in [Edits -> {"none", "applied", "dry", "failed", "session_failed"}]
    /\ editCrashed \in BOOLEAN

Init ==
    /\ file \in StartTexts /\ temps = [n \in {} |-> <<>>] /\ images = {}
    /\ at = [e \in Edits |-> "idle"] /\ req = [e \in Edits |-> NoFile]
    /\ old = [e \in Edits |-> <<>>] /\ new = [e \in Edits |-> <<>>]
    /\ ack = [e \in Edits |-> "none"] /\ seenText = {} /\ editCrashed = FALSE

-----------------------------------------------------------------------------
(* Hunks.                                                                   *)

\* match_indices: the non-overlapping occurrences, left to right.
match_indices(text, find) ==
    LET hit(i) == i + Len(find) - 1 <= Len(text)
                  /\ SubSeq(text, i, i + Len(find) - 1) = find
    IN  FoldLeft(LAMBDA found, i :
                   IF hit(i) /\ (found = <<>> \/ Last(found) + Len(find) <= i)
                   THEN Append(found, i) ELSE found,
                 <<>>, [i \in 1..Len(text) |-> i])

Splice(text, i, find, put) ==
    SubSeq(text, 1, i - 1) \o put \o SubSeq(text, i + Len(find), Len(text))

\* One hunk on the evolving text: an empty find, a hunk that changes nothing,
\* no match, and several matches without replace_all fail.  Replacements go
\* from the last occurrence backwards.
apply_hunk(state, h) ==
    LET offsets == match_indices(state.text, h.find)
    IN  IF \/ ~state.ok \/ h.find = <<>> \/ h.find = h.replace \/ offsets = <<>>
           \/ Len(offsets) > 1 /\ ~h.all
        THEN [state EXCEPT !.ok = FALSE]
        ELSE [state EXCEPT !.text =
               FoldRight(LAMBDA i, text : Splice(text, i, h.find, h.replace),
                         offsets, state.text)]

apply_edit_hunks(text, hunks) == FoldLeft(apply_hunk, [ok |-> TRUE, text |-> text], hunks)

\* create_file_hunk: an empty replacement is refused.
create_file_hunk(h) == [ok |-> h.replace # <<>>, text |-> h.replace]

-----------------------------------------------------------------------------
(* edit.                                                                    *)

Finish(e, word) == at' = [at EXCEPT ![e] = "done"] /\ ack' = [ack EXCEPT ![e] = word]
Goto(e, p) == at' = [at EXCEPT ![e] = p] /\ UNCHANGED ack

\* Arguments: no hunks, or create with anything but one hunk with empty find.
BadArguments(r) ==
    r.hunks = <<>> \/ (r.create /\ (Len(r.hunks) # 1 \/ r.hunks[1].find # <<>>))

Begin(e) ==
    /\ at[e] = "idle"
    /\ \E r \in EditRequests :
         /\ req' = [req EXCEPT ![e] = r]
         /\ IF BadArguments(r) THEN Finish(e, "failed") ELSE Goto(e, "read")
    /\ UNCHANGED <<file, temps, images, old, new, seenText, editCrashed>>

\* create needs the file to be absent, an edit needs it to be readable.
ReadFile(e) ==
    /\ at[e] = "read"
    /\ IF req[e].create
       THEN IF file # NoFile THEN Finish(e, "failed") /\ UNCHANGED old
            ELSE Goto(e, "apply") /\ old' = [old EXCEPT ![e] = <<>>]
       ELSE IF file = NoFile THEN Finish(e, "failed") /\ UNCHANGED old
            ELSE Goto(e, "apply") /\ old' = [old EXCEPT ![e] = file]
    /\ UNCHANGED <<file, temps, images, req, new, seenText, editCrashed>>

Apply(e) ==
    /\ at[e] = "apply"
    /\ LET done == IF req[e].create THEN create_file_hunk(req[e].hunks[1])
                   ELSE apply_edit_hunks(old[e], req[e].hunks)
       IN  IF done.ok THEN Goto(e, "persist") /\ new' = [new EXCEPT ![e] = done.text]
           ELSE Finish(e, "failed") /\ UNCHANGED new
    /\ UNCHANGED <<file, temps, images, req, old, seenText, editCrashed>>

\* The file is written whether or not the images could be stored.
PersistDegraded(e) ==
    /\ at[e] = "persist"
    /\ \/ images' = images \cup {old[e], new[e]}
       \/ UNCHANGED images
    /\ IF req[e].dry THEN Finish(e, "dry") ELSE Goto(e, "write")
    /\ UNCHANGED <<file, temps, req, old, new, seenText, editCrashed>>

\* Pre- and post-image are persisted before the file changes; when that fails
\* the edit is refused (a dry run reports and ends either way).
PersistImages(e) ==
    /\ at[e] = "persist"
    /\ \/ images' = images \cup {old[e], new[e]}
          /\ IF req[e].dry THEN Finish(e, "dry") ELSE Goto(e, "write")
       \/ UNCHANGED images /\ Finish(e, IF req[e].dry THEN "dry" ELSE "failed")
    /\ UNCHANGED <<file, temps, req, old, new, seenText, editCrashed>>

\* The temporary file is named after the file and the process only.
SharedTemp(e) == "process"

\* unique_edit_tmp: the process and a counter make the name the edit's own.
unique_edit_tmp(e) == e

SetTemp(n, text) ==
    [m \in DOMAIN temps \cup {n} |-> IF m = n THEN text ELSE temps[m]]

\* write_atomic: the temporary file is created and filled in steps ...
OpenTemp(e) ==
    /\ at[e] = "write" /\ Goto(e, "fill")
    /\ temps' = SetTemp(unique_edit_tmp(e), Torn(new[e]))
    /\ UNCHANGED <<file, images, req, old, new, seenText, editCrashed>>

FillTemp(e) ==
    /\ at[e] = "fill"
    /\ \/ Goto(e, "rename") /\ temps' = SetTemp(unique_edit_tmp(e), new[e])
       \/ Finish(e, "failed") /\ UNCHANGED temps   \* the write fails
    /\ UNCHANGED <<file, images, req, old, new, seenText, editCrashed>>

\* ... then renamed over the file; a failed rename removes it.
Rename(e) ==
    /\ at[e] = "rename"
    /\ LET n == unique_edit_tmp(e)
       IN  /\ \/ /\ n \in DOMAIN temps /\ file' = temps[n] /\ Goto(e, "seed")
              \/ UNCHANGED file /\ Finish(e, "failed")
           /\ temps' = [m \in DOMAIN temps \ {n} |-> temps[m]]
    /\ UNCHANGED <<images, req, old, new, seenText, editCrashed>>

\* session_apply with the post-image; a failed persist fails the answer, the
\* file keeps its new text.
SeedSession(e) ==
    /\ at[e] = "seed"
    /\ \/ Finish(e, "applied") /\ seenText' = seenText \cup {new[e]}
       \/ Finish(e, "session_failed") /\ UNCHANGED seenText
    /\ UNCHANGED <<file, temps, images, req, old, new, editCrashed>>

\* The process dies: its edits stop where they are, temporary files stay.
CrashEdits ==
    /\ ~editCrashed /\ editCrashed' = TRUE
    /\ at' = [e \in Edits |-> "done"]
    /\ UNCHANGED <<file, temps, images, req, old, new, ack, seenText>>

Next == \/ \E e \in Edits : \/ Begin(e) \/ ReadFile(e) \/ Apply(e) \/ PersistImages(e)
                            \/ OpenTemp(e) \/ FillTemp(e) \/ Rename(e) \/ SeedSession(e)
        \/ CrashEdits

Spec == Init /\ [][Next]_vars

-----------------------------------------------------------------------------
(* Properties.                                                              *)

\* Whatever edits run and wherever a crash stops them, the file holds a text
\* it started with or the complete result of one edit (write_atomic).
FileAlwaysWhole ==
    file \in StartTexts \cup {new[e] : e \in Edits}

\* Any text an edit put in the file, and the text it was derived from, can be
\* recovered: no edit mutates with a dead undo (engine_edit.rs 1zpq).
UndoRecoverable ==
    \A e \in Edits : (ack[e] \in {"applied", "session_failed"} \/ at[e] = "seed")
        => {old[e], new[e]} \subseteq images

-----------------------------------------------------------------------------
(* Why they hold: EditInv is the inductive invariant.                       *)

EditShapes ==
    /\ DOMAIN at = Edits /\ DOMAIN old = Edits /\ DOMAIN new = Edits
    /\ DOMAIN ack = Edits /\ DOMAIN req = Edits

\* The temporary file an edit is about to rename is its own and complete.
TempsComplete ==
    \A e \in Edits : at[e] = "rename" => unique_edit_tmp(e) \in DOMAIN temps
                                         /\ temps[unique_edit_tmp(e)] = new[e]

\* A text in the file is that of an edit whose result no longer changes.
FileSettled ==
    file \in StartTexts \/ \E e \in Edits : at[e] \in {"seed", "done"} /\ file = new[e]

\* Both images are in the store from before the file is touched.
ImagesFirst ==
    \A e \in Edits : (ack[e] \in {"applied", "session_failed"}
                      \/ at[e] \in {"write", "fill", "rename", "seed"})
        => {old[e], new[e]} \subseteq images

\* An answered edit is over.
AnsweredDone == \A e \in Edits : ack[e] # "none" => at[e] = "done"

EditInv == EditShapes /\ TempsComplete /\ FileSettled /\ ImagesFirst /\ AnsweredDone
=============================================================================
