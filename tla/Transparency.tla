----------------------------- MODULE Transparency -----------------------------
(***************************************************************************)
(* The transparency log of the recovery store: a Merkle Mountain Range     *)
(* over mint and alias events. Every session carries its copy, a persist   *)
(* merges it into the shared log, and third parties check inclusion and    *)
(* consistency proofs against published roots. A hash is the term it       *)
(* hashes, so two hashes are equal only when their contents are.           *)
(***************************************************************************)
EXTENDS Naturals, Sequences, SequencesExt, FiniteSetsExt

CONSTANTS LogEvents,   \* events that are appended
          LogSessions, \* sessions with a copy of the log
          MaxLeaves    \* bound on the length of a log

VARIABLES logShared,   \* leaves of the shared log
          logCopy      \* session -> leaves of its copy

logVars == <<logShared, logCopy>>

hash_leaf(event) == <<"leaf", event>>
hash_node(l, r) == <<"node", l, r>>

bag(peaks) == IF peaks = <<>> THEN <<"empty">>
              ELSE FoldLeft(LAMBDA acc, peak : <<"bag", acc, peak>>, Head(peaks), Tail(peaks))

Log2[n \in Nat] == IF n <= 1 THEN 0 ELSE 1 + Log2[n \div 2]

peak_heights[size \in Nat] ==
    IF size = 0 THEN <<>> ELSE <<Log2[size]>> \o peak_heights[size - 2^Log2[size]]

(* The first leaf (from 0) and the number of leaves under each peak. *)
peak_ranges(size) ==
    LET h == peak_heights[size]
    IN  [p \in 1..Len(h) |->
           <<FoldLeft(LAMBDA acc, height : acc + 2^height, 0, SubSeq(h, 1, p - 1)), 2^h[p]>>]

subtree_root(leaves) ==
    LET over[from \in 1..Len(leaves), to \in 1..Len(leaves)] ==
          IF from = to THEN leaves[from]
          ELSE LET mid == (from + to - 1) \div 2
               IN  hash_node(over[from, mid], over[mid + 1, to])
    IN  over[1, Len(leaves)]

Under(leaves, range) == SubSeq(leaves, range[1] + 1, range[1] + range[2])

peaks(leaves) ==
    LET r == peak_ranges(Len(leaves))
    IN  [p \in 1..Len(r) |-> subtree_root(Under(leaves, r[p]))]

root(leaves) == bag(peaks(leaves))

(* Siblings from the leaf (from 1) up to the peak. *)
inclusion_path(leaves, index) ==
    LET sibling(from, to, left) == [hash |-> subtree_root(SubSeq(leaves, from, to)), is_left |-> left]
        path[from \in 1..Len(leaves), to \in 1..Len(leaves)] ==
          IF from = to THEN <<>>
          ELSE LET mid == (from + to - 1) \div 2
               IN  IF index <= mid
                   THEN Append(path[from, mid], sibling(mid + 1, to, FALSE))
                   ELSE Append(path[mid + 1, to], sibling(from, mid, TRUE))
    IN  path[1, Len(leaves)]

inclusion_proof(leaves, i) ==
    LET ranges == peak_ranges(Len(leaves))
        p == CHOOSE q \in 1..Len(ranges) : ranges[q][1] < i /\ i <= ranges[q][1] + ranges[q][2]
    IN  [leaf |-> leaves[i], peak |-> p, peaks |-> peaks(leaves),
         siblings |-> inclusion_path(Under(leaves, ranges[p]), i - ranges[p][1])]

(* A verifier that trusts the peak in the proof and skips the path. *)
PeakTrusted(proof, expected) == bag(proof.peaks) = expected

verify_inclusion(proof, expected) ==
    LET node == FoldLeft(LAMBDA n, s : IF s.is_left THEN hash_node(s.hash, n)
                                       ELSE hash_node(n, s.hash),
                         proof.leaf, proof.siblings)
    IN  bag([proof.peaks EXCEPT ![proof.peak] = node]) = expected

consistency_proof(leaves, old) ==
    [old |-> old, new |-> Len(leaves), peaks |-> peaks(SubSeq(leaves, 1, old)),
     appended |-> SubSeq(leaves, old + 1, Len(leaves))]

(* One appended leaf absorbs the peaks of its height. *)
Absorb(ps, current) ==
    LET peak(k) == ps[Len(ps) - k + 1]
        node[k \in 0..Len(ps)] ==
          IF k = 0 THEN current
          ELSE [height |-> node[k - 1].height + 1, hash |-> hash_node(peak(k).hash, node[k - 1].hash)]
        absorbed == Max({k \in 0..Len(ps) : \A i \in 1..k : peak(i).height = current.height + i - 1})
    IN  Append(SubSeq(ps, 1, Len(ps) - absorbed), node[absorbed])

verify_consistency(proof, oldRoot, newRoot) ==
    LET heights == peak_heights[proof.old]
        start == [p \in 1..Len(heights) |-> [height |-> heights[p], hash |-> proof.peaks[p]]]
        end == FoldLeft(LAMBDA ps, leaf : Absorb(ps, [height |-> 0, hash |-> leaf]),
                        start, proof.appended)
    IN  /\ proof.old <= proof.new
        /\ Len(proof.appended) = proof.new - proof.old
        /\ bag(proof.peaks) = oldRoot
        /\ Len(heights) = Len(proof.peaks)
        /\ bag([p \in 1..Len(end) |-> end[p].hash]) = newRoot

CommonLeaves(a, b) == Max({n \in 0..Min({Len(a), Len(b)}) : \A i \in 1..n : a[i] = b[i]})

(* The longer log wins. *)
LongerWins(a, b) == IF Len(b) > Len(a) THEN b ELSE a

merge_concurrent(a, b) == a \o SubSeq(b, CommonLeaves(a, b) + 1, Len(b))

-----------------------------------------------------------------------------
Init == logShared = <<>> /\ logCopy = [s \in LogSessions |-> <<>>]

(* put_blob and store_alias_deferred append their event. *)
Record(s, event) ==
    /\ Len(logCopy[s]) < MaxLeaves
    /\ logCopy' = [logCopy EXCEPT ![s] = Append(@, hash_leaf(event))]
    /\ UNCHANGED logShared

(* A persist merges the copy; a full snapshot also adopts the result, a    *)
(* journal append leaves the copy as it was.                               *)
Persist(s, adopt) ==
    LET merged == merge_concurrent(logShared, logCopy[s])
    IN  /\ Len(merged) <= MaxLeaves
        /\ logShared' = merged
        /\ logCopy' = IF adopt THEN [logCopy EXCEPT ![s] = merged] ELSE logCopy

Next == \E s \in LogSessions : \/ \E event \in LogEvents : Record(s, event)
                               \/ \E adopt \in BOOLEAN : Persist(s, adopt)

Spec == Init /\ [][Next]_logVars

(* A leaf proves its own place and no other event's, whatever the shape of *)
(* the range, its peaks and its lone leaves.                               *)
ProofsBindLeaves ==
    \A i \in 1..Len(logShared) :
        LET proof == inclusion_proof(logShared, i)
        IN  /\ verify_inclusion(proof, root(logShared))
            /\ \A event \in LogEvents : hash_leaf(event) # logShared[i] =>
                  ~verify_inclusion([proof EXCEPT !.leaf = hash_leaf(event)], root(logShared))

(* Every merge of concurrent sessions is consistent with the root that was *)
(* published before it.                                                    *)
RootsStayConsistent ==
    verify_consistency(consistency_proof(logShared', Len(logShared)),
                       root(logShared), root(logShared'))
=============================================================================
