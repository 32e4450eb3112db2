------------------------------- MODULE ShellOp -------------------------------
(***************************************************************************)
(* The shell operation after its command has run (engine_shell.rs shell):  *)
(* take the exact bytes of both streams from memory or from the spill      *)
(* files, store them with a combined witness and a capture record, persist *)
(* and verify the refs through a fresh store, and choose what is visible.  *)
(* Any step can fail; the answer is then a degraded one that claims no     *)
(* refs.  Other processes prune the store and the spill directory.         *)
(*                                                                         *)
(* A stream is described by what decides its path: the number of bytes it  *)
(* produced, whether they are UTF-8, whether the capture was cut.  Its     *)
(* bytes are "own"; bytes of the same length that are not are "foreign".   *)
(***************************************************************************)
EXTENDS Naturals, FiniteSets

CONSTANTS CaptureCap,   \* per_stream_capture_bytes
          SpillCap,     \* bytes a spill file may take
          LoadCap,      \* the store's max_load_bytes
          InlineBudget, \* shell_inline_budget (0: no inline output)
          DefaultInline,\* DEFAULT_SHELL_INLINE_BUDGET
          MaxBytes      \* longest stream explored

VARIABLES sh,      \* control point
          out,     \* stream -> its bytes, encoding and spill file
          exact,   \* stream -> bytes taken for the witness, or "none"
          witness, \* what the store resolves: stream -> bytes, or "none"
          okExit,  \* the command succeeded
          reply    \* [kind, claim, visible, refs]

vars == <<sh, out, exact, witness, okExit, reply>>

Streams == {"stdout", "stderr"}
NoReply == [kind |-> "none", claim |-> FALSE, visible |-> "none", refs |-> {}]

Truncated(s) == out[s].bytes > CaptureCap

\* Length in bytes stands for the token count it is estimated from.
Total == out["stdout"].bytes + out["stderr"].bytes

TypeOK ==
    /\ sh \in {"collect", "store", "persist", "verify", "choose", "done"}
    /\ out \in [Streams -> [bytes : 0..MaxBytes, utf8 : BOOLEAN, spilled : 0..MaxBytes,
                            spill : {"own", "foreign", "gone"}]]
    /\ exact \in [Streams -> {"none", "own", "foreign"}]
    /\ witness \in [Streams -> {"none", "own", "foreign"}]
    /\ reply.kind \in {"none", "degraded", "inline", "small", "rendered"}

\* What the process runtime hands over: a stream within the capture is in
\* memory, a longer one is spilled as far as the spill file takes it.
Init ==
    /\ sh = "collect" /\ okExit \in BOOLEAN /\ reply = NoReply
    /\ out \in [Streams -> {[bytes |-> n, utf8 |-> u, spill |-> "own",
                             spilled |-> IF n <= CaptureCap THEN 0
                                         ELSE IF n < SpillCap THEN n ELSE SpillCap] :
                            n \in 0..MaxBytes, u \in BOOLEAN}]
    /\ exact = [s \in Streams |-> "none"] /\ witness = [s \in Streams |-> "none"]

-----------------------------------------------------------------------------
\* Before it is read a spill file may be removed by a spill prune, or replaced.
SpillDisturbed ==
    /\ sh = "collect"
    /\ \E s \in Streams, x \in {"foreign", "gone"} :
         /\ Truncated(s) /\ out[s].spill = "own"
         /\ out' = [out EXCEPT ![s].spill = x]
    /\ UNCHANGED <<sh, exact, witness, okExit, reply>>

\* The spill file's length is compared, its digest is not.
LengthOnly(s) == TRUE

\* verify_full_stream_digest: the digest taken while the bytes were observed.
verify_full_stream_digest(s) == ~Truncated(s) \/ out[s].spill = "own"

\* exact_shell_stream_text: too long to load, a spill that is missing, short
\* or changed, and text that is not UTF-8 have no exact witness.
exact_shell_stream_text(s) ==
    /\ out[s].bytes <= LoadCap
    /\ out[s].utf8
    /\ Truncated(s) => /\ out[s].spill # "gone"
                       /\ out[s].spilled = out[s].bytes
    /\ verify_full_stream_digest(s)

\* degraded_shell_response: the captured preview, no refs, no claim.
degraded_shell_response ==
    /\ sh' = "done"
    /\ reply' = [kind |-> "degraded", claim |-> FALSE, visible |-> "preview", refs |-> {}]

Collect ==
    /\ sh = "collect"
    /\ IF \A s \in Streams : exact_shell_stream_text(s)
       THEN /\ sh' = "store" /\ UNCHANGED reply
            /\ exact' = [s \in Streams |-> IF Truncated(s) THEN out[s].spill ELSE "own"]
       ELSE degraded_shell_response /\ UNCHANGED exact
    /\ UNCHANGED <<out, witness, okExit>>

\* store_shell_outputs and the capture record, deferred.
StoreOutputs ==
    /\ sh = "store" /\ sh' = "persist"
    /\ UNCHANGED <<out, exact, witness, okExit, reply>>

\* persist_refs: the snapshot write may fail.
PersistRefs ==
    /\ sh = "persist"
    /\ \/ sh' = "verify" /\ witness' = exact /\ UNCHANGED reply
       \/ degraded_shell_response /\ UNCHANGED witness
    /\ UNCHANGED <<out, exact, okExit>>

\* Another process prunes the store before the verification.
PruneWitness ==
    /\ sh = "verify"
    /\ \E s \in Streams : witness[s] # "none" /\ witness' = [witness EXCEPT ![s] = "none"]
    /\ UNCHANGED <<sh, out, exact, okExit, reply>>

\* The persisted refs are taken on trust.
TrustStore ==
    /\ sh = "verify" /\ sh' = "choose"
    /\ UNCHANGED <<out, exact, witness, okExit, reply>>

\* verify_persisted_shell_witnesses: a fresh store must expand every witness
\* to the exact bytes.
verify_persisted_shell_witnesses ==
    /\ sh = "verify"
    /\ IF \A s \in Streams : witness[s] = exact[s]
       THEN sh' = "choose" /\ UNCHANGED reply
       ELSE degraded_shell_response
    /\ UNCHANGED <<out, exact, witness, okExit>>

\* Inline output although a stream was cut.
InlineCut == okExit /\ InlineBudget > 0 /\ Total <= InlineBudget

\* ShellVisibleChoice: whole output only when nothing was cut, the command
\* succeeded and the text fits the budget.
Inline ==
    /\ \A s \in Streams : ~Truncated(s)
    /\ okExit /\ InlineBudget > 0 /\ Total <= InlineBudget

Small == (\A s \in Streams : ~Truncated(s)) /\ okExit /\ Total <= DefaultInline

\* The answer: refs of non-empty streams, the combined witness, the capture;
\* a small answer lists only the combined one.
ShellVisibleChoice ==
    /\ sh = "choose" /\ sh' = "done"
    /\ LET listed == {s \in Streams : out[s].bytes > 0} \cup {"combined", "capture"}
       IN  reply' = [kind    |-> IF Inline THEN "inline" ELSE IF Small THEN "small" ELSE "rendered",
                     claim   |-> TRUE,
                     visible |-> IF Inline THEN (IF \E s \in Streams : Truncated(s)
                                                 THEN "preview" ELSE "whole")
                                 ELSE IF Small /\ InlineBudget = 0 THEN "ref" ELSE "rendered",
                     refs    |-> IF Small THEN {"combined"} ELSE listed]
    /\ UNCHANGED <<out, exact, witness, okExit>>

Next == \/ SpillDisturbed \/ Collect \/ StoreOutputs \/ PersistRefs \/ PruneWitness
        \/ verify_persisted_shell_witnesses \/ ShellVisibleChoice

Spec == Init /\ [][Next]_vars

-----------------------------------------------------------------------------
(* Properties.                                                              *)

\* An answer that says its refs cover the full output has, for each stream,
\* the command's own bytes behind the refs, whatever happened to the spill
\* files and the store on the way; an inline answer shows the whole output.
CoverClaimTrue ==
    /\ reply.claim => \A s \in Streams : exact[s] = "own" /\ witness[s] = "own"
    /\ reply.kind = "inline" => reply.visible = "whole"
=============================================================================
