------------------------------ MODULE CasTree ------------------------------
(***************************************************************************)
(* The embedded store handle (recovery/src/embedded_store.rs) over one CAS *)
(* root shared by threads of several processes: opening a handle, probing  *)
(* whether the CAS and the durable cache accept writes, and publishing an  *)
(* object.  A probe creates the directories it needs and removes those it  *)
(* did not find; the publication lock serializes probes and publications   *)
(* of one process only.  Directories are modelled one system call at a     *)
(* time, since other processes and operators change them in between.       *)
(***************************************************************************)
EXTENDS Naturals, FiniteSets

CONSTANTS Thread,
          Placements,     \* how the threads may be spread over processes
          Exposed,        \* paths an operator may replace
          MaxChanges,     \* bound on changes from outside and closed handles
          MaxCalls        \* bound on publications and probes

VARIABLES placed,      \* the process each thread runs in
          tree,        \* kind of each path: a directory, a file, a link, nothing
          writable,    \* whether the file system accepts writes
          objects,     \* prefixes under which an object has been published
          guard,       \* holder of CAS_PUBLICATION_LOCK per process
          handle,      \* each thread's handle
          job,         \* what each thread is doing
          disturbed,   \* history: something else touched the tree meanwhile
          changes, calls

treeVars == <<placed, tree, writable, objects, guard, handle, job, disturbed, changes, calls>>

Prefix == {"p1", "p2"}
Path == {"root", "blobs", "sha256"} \cup Prefix \cup {"engine", "cache"}
Kind == {"none", "dir", "file", "link"}
Chain(p) == <<"root", "blobs", "sha256", p>>
Below(x) == CASE x = "root" -> {"blobs", "engine"} [] x = "blobs" -> {"sha256"}
              [] x = "sha256" -> Prefix [] x = "engine" -> {"cache"} [] OTHER -> {}
Idle == [at |-> "idle"]
Nobody == "nobody"
ProcessOf(t) == placed[t]
Process == {ProcessOf(t) : t \in Thread}
Closed == [open |-> FALSE, cas |-> FALSE, shared |-> FALSE, durable |-> FALSE, degraded |-> FALSE]

TypeOK ==
  /\ tree \in [Path -> Kind] /\ writable \in BOOLEAN /\ objects \subseteq Prefix
  /\ guard \in [Process -> Thread \cup {Nobody}]
  /\ handle \in [Thread -> [open : BOOLEAN, cas : BOOLEAN, shared : BOOLEAN,
                            durable : BOOLEAN, degraded : BOOLEAN]]
  /\ disturbed \in [Thread -> BOOLEAN] /\ changes \in 0..MaxChanges /\ calls \in 0..MaxCalls

Empty == [x \in Path |-> IF x = "root" THEN "dir" ELSE "none"]

Init ==
  /\ placed \in Placements
  /\ tree \in {[Empty EXCEPT !["root"] = "none"],
               [Empty EXCEPT !["blobs"] = "dir", !["sha256"] = "dir", !["p1"] = "dir"]}
  /\ writable = TRUE /\ objects = {}
  /\ guard = [q \in Process |-> Nobody]
  /\ handle = [t \in Thread |-> Closed]
  /\ job = [t \in Thread |-> Idle]
  /\ disturbed = [t \in Thread |-> FALSE]
  /\ changes = 0 /\ calls = 0

(* A change of the tree by t disturbs the calls of other processes; those   *)
(* of its own process are kept out by the lock it holds.                    *)
Touch(t) == disturbed' = [u \in Thread |->
               disturbed[u] \/ (job[u].at # "idle" /\ ProcessOf(u) # ProcessOf(t))]

EmptyDir(x) == tree[x] = "dir" /\ (\A y \in Below(x) : tree[y] = "none") /\ x \notin objects

-----------------------------------------------------------------------------
(* probe_durable_cache_target: no link or file on the way to the cache's    *)
(* directory, no non-file at the cache itself, and a scratch file beside it *)
(* can be written; reject_symlinks_below is its first part.                 *)
reject_symlinks_below == tree["root"] \in {"dir", "none"} /\ tree["engine"] \in {"dir", "none"}

probe_durable_cache_target ==
  /\ reject_symlinks_below
  /\ tree["root"] = "dir" /\ tree["engine"] = "dir"
  /\ tree["cache"] \in {"none", "file"}
  /\ writable

(* ensure_layout is the hub's: it makes the store's directories or fails.   *)
LayoutMade == IF writable /\ reject_symlinks_below
                THEN [tree EXCEPT !["root"] = "dir", !["engine"] = "dir"] ELSE tree

Openable == writable /\ reject_symlinks_below /\ tree["cache"] \in {"none", "file"}

(* try_open_with_env, and open_with_env's fall-back to memory: the ambient  *)
(* CAS is attached but not advertised as shared; a degraded handle has none.*)
open_with_env(t) ==
  /\ job[t] = Idle /\ ~handle[t].open
  /\ tree' = LayoutMade
  /\ handle' = [handle EXCEPT ![t] = [open |-> TRUE, cas |-> Openable, shared |-> FALSE,
                                      durable |-> Openable, degraded |-> ~Openable]]
  /\ Touch(t)
  /\ UNCHANGED <<writable, objects, guard, job, changes, calls>>

(* with_shared_cas_and_env: a sibling's CAS is advertised and survives a    *)
(* failure to open the durable cache; without a root nothing is durable and *)
(* nothing is degraded.                                                     *)
with_shared_cas(t, rooted) ==
  /\ job[t] = Idle /\ ~handle[t].open
  /\ tree' = IF rooted THEN LayoutMade ELSE tree
  /\ handle' = [handle EXCEPT ![t] = [open |-> TRUE, cas |-> TRUE, shared |-> TRUE,
                                      durable |-> rooted /\ Openable,
                                      degraded |-> rooted /\ ~Openable]]
  /\ Touch(t)
  /\ UNCHANGED <<writable, objects, guard, job, changes, calls>>

(* Drop: the handle goes; only a temporary CAS would go with it.            *)
Close(t) ==
  /\ job[t] = Idle /\ handle[t].open
  /\ changes < MaxChanges /\ changes' = changes + 1
  /\ handle' = [handle EXCEPT ![t] = Closed]
  /\ UNCHANGED <<tree, writable, objects, guard, job, disturbed, calls>>

(* durable_usable: asked again on every descriptor, never cached.           *)
durable_usable(t) == ~handle[t].degraded /\ handle[t].durable /\ probe_durable_cache_target

(* capability_descriptor, with what root_report repeats of it.              *)
Advertised(t) == [shared_cas |-> handle[t].shared /\ handle[t].cas,
                  durable |-> durable_usable(t), degraded |-> handle[t].degraded]

-----------------------------------------------------------------------------
Guarded(t) == guard[ProcessOf(t)] = Nobody
Take(t) == guard' = [guard EXCEPT ![ProcessOf(t)] = t]
Free(t) == guard' = [guard EXCEPT ![ProcessOf(t)] = IF @ = t THEN Nobody ELSE @]

(* Mutant: the probe works without the lock. *)
NoGuard(t) == UNCHANGED guard

cas_publication_guard(t) == Guarded(t) /\ Take(t)
Begin(t, what, p) ==
  /\ calls < MaxCalls /\ calls' = calls + 1
  /\ job' = [job EXCEPT ![t] = [at |-> "prepare", what |-> what, prefix |-> p, level |-> 1,
                                existed |-> {x \in {"blobs", "sha256", p} : tree[x] # "none"}]]

(* put: the size limit and the missing CAS are refused before the lock; the *)
(* refused calls change nothing and are left out.                           *)
put(t, p) ==
  /\ job[t] = Idle /\ handle[t].cas
  /\ Guarded(t) /\ Take(t)
  /\ Begin(t, "put", p)
  /\ UNCHANGED <<tree, writable, objects, handle, disturbed, changes>>

(* capability_descriptor and root_report probe a shared CAS under a prefix  *)
(* drawn from a fresh name; an ambient CAS is reported as absent unprobed.  *)
probe_cas_writable(t, p) ==
  /\ job[t] = Idle /\ Advertised(t).shared_cas
  /\ cas_publication_guard(t)
  /\ Begin(t, "probe", p)
  /\ UNCHANGED <<tree, writable, objects, handle, disturbed, changes>>

End(t, answer) ==
  /\ job' = [job EXCEPT ![t] = [at |-> "done", what |-> job[t].what, prefix |-> job[t].prefix,
                                answer |-> answer]]
  /\ Free(t)

(* prepare_canonical_prefix, one directory per step: anything but a real    *)
(* directory is refused, a missing one is created.                          *)
prepare_canonical_prefix(t) ==
  /\ job[t].at = "prepare"
  /\ LET x == Chain(job[t].prefix)[job[t].level]
         parent == IF job[t].level = 1 THEN "root" ELSE Chain(job[t].prefix)[job[t].level - 1]
     IN IF tree[x] \in {"file", "link"}
        THEN End(t, "containment") /\ UNCHANGED <<tree, disturbed>>
        ELSE IF tree[x] = "none" /\ ~writable
        THEN End(t, "permission") /\ UNCHANGED <<tree, disturbed>>
        ELSE IF tree[x] = "none" /\ job[t].level > 1 /\ tree[parent] # "dir"
        THEN End(t, "io") /\ UNCHANGED <<tree, disturbed>>
        ELSE /\ tree' = [tree EXCEPT ![x] = "dir"]
             /\ IF tree[x] = "none" THEN Touch(t) ELSE UNCHANGED disturbed
             /\ IF job[t].level = 4 THEN job' = [job EXCEPT ![t].at = "write"]
                ELSE job' = [job EXCEPT ![t].level = @ + 1]
             /\ UNCHANGED guard
  /\ UNCHANGED <<writable, objects, handle, changes, calls>>

(* The hub's put writes the object, making missing directories itself.      *)
publish(t) ==
  /\ job[t].at = "write" /\ job[t].what = "put"
  /\ LET chain == {Chain(job[t].prefix)[i] : i \in 1..4}
     IN \/ /\ writable /\ \A x \in chain : tree[x] \in {"dir", "none"}
           /\ tree' = [x \in Path |-> IF x \in chain THEN "dir" ELSE tree[x]]
           /\ objects' = objects \cup {job[t].prefix}
           /\ End(t, "ok") /\ Touch(t)
        \/ /\ ~(writable /\ \A x \in chain : tree[x] \in {"dir", "none"})
           /\ End(t, "io") /\ UNCHANGED <<tree, objects, disturbed>>
  /\ UNCHANGED <<writable, handle, changes, calls>>

(* The probe file is created, synced and removed in the prepared directory. *)
WriteProbe(t) ==
  /\ job[t].at = "write" /\ job[t].what = "probe"
  /\ job' = [job EXCEPT ![t] = [at |-> "undo", what |-> "probe", prefix |-> @.prefix, level |-> 4,
                                existed |-> @.existed,
                                answer |-> IF writable /\ \A i \in 1..4 : tree[Chain(job[t].prefix)[i]] = "dir"
                                           THEN "ok" ELSE "io"]]
  /\ UNCHANGED <<tree, writable, objects, guard, handle, disturbed, changes, calls>>

(* Mutant: the clean-up removes whole trees. *)
remove_dir_all(x) == IF writable /\ tree[x] = "dir"
  THEN [y \in Path |-> IF y = x \/ y \in Below(x) THEN "none" ELSE tree[y]] ELSE tree

(* remove_dir: only an empty directory goes. *)
remove_dir(x) == IF writable /\ EmptyDir(x) THEN [tree EXCEPT ![x] = "none"] ELSE tree
(* What was not there before the probe is removed again, innermost first.   *)
UndoProbe(t) ==
  /\ job[t].at = "undo"
  /\ LET x == Chain(job[t].prefix)[job[t].level]
     IN /\ tree' = IF x \notin job[t].existed THEN remove_dir(x) ELSE tree
        /\ IF tree' # tree THEN Touch(t) ELSE UNCHANGED disturbed
  /\ IF job[t].level = 2 THEN End(t, job[t].answer)
     ELSE job' = [job EXCEPT ![t].level = @ - 1] /\ UNCHANGED guard
  /\ UNCHANGED <<writable, objects, handle, changes, calls>>

Return(t) ==
  /\ job[t].at = "done"
  /\ job' = [job EXCEPT ![t] = Idle]
  /\ disturbed' = [disturbed EXCEPT ![t] = FALSE]
  /\ UNCHANGED <<tree, writable, objects, guard, handle, changes, calls>>

(* Operators replace paths, remount, or repair.                             *)
Outside ==
  /\ changes < MaxChanges /\ changes' = changes + 1
  /\ \/ \E x \in Exposed, k \in {"file", "link"} :
          tree[x] = "none" /\ tree' = [tree EXCEPT ![x] = k] /\ UNCHANGED writable
     \/ writable' = ~writable /\ UNCHANGED tree
  /\ disturbed' = [u \in Thread |-> disturbed[u] \/ job[u].at # "idle"]
  /\ UNCHANGED <<objects, guard, handle, job, calls>>

Step(t) ==
  \/ open_with_env(t) \/ Close(t) \/ (\E r \in BOOLEAN : with_shared_cas(t, r))
  \/ \E p \in Prefix : put(t, p) \/ probe_cas_writable(t, p)
  \/ prepare_canonical_prefix(t) \/ publish(t) \/ WriteProbe(t) \/ UndoProbe(t) \/ Return(t)

Next == ((\E t \in Thread : Step(t)) \/ Outside) /\ UNCHANGED placed

Spec == Init /\ [][Next]_treeVars

-----------------------------------------------------------------------------
(* A published object keeps every directory above it, whatever probes of    *)
(* any process clean up with an out-of-date notion of what existed.         *)
ObjectsKeepTheirPath ==
  \A p \in objects : \A i \in 1..4 : tree[Chain(p)[i]] = "dir"

(* Unless another process or an operator touched the tree meanwhile, the    *)
(* answer is true of the tree: a put or a probe fails only where a path is  *)
(* blocked or the file system refuses writes.                               *)
AnswersHonest == \A t \in Thread :
  job[t].at = "done" /\ ~disturbed[t] =>
    (job[t].answer = "ok" <=>
       writable /\ \A i \in 1..4 : tree[Chain(job[t].prefix)[i]] \in {"dir", "none"})

-----------------------------------------------------------------------------
(* Why the answers hold: the calls of one process build and clean one after *)
(* the other, and a call that nobody else disturbed finds what it built.    *)

TreeConstants == Nobody \notin Thread
(* What a thread in the middle of a call remembers. *)
JobShape(j) ==
  \/ j = Idle
  \/ /\ j.at \in {"prepare", "write"} /\ j.prefix \in Prefix /\ j.level \in 1..4
     /\ j = [at |-> j.at, what |-> j.what, prefix |-> j.prefix, level |-> j.level, existed |-> j.existed]
  \/ /\ j.at = "undo" /\ j.prefix \in Prefix /\ j.level \in 2..4
     /\ j = [at |-> "undo", what |-> "probe", prefix |-> j.prefix, level |-> j.level, existed |-> j.existed, answer |-> j.answer]
  \/ /\ j.at = "done" /\ j.prefix \in Prefix
     /\ j = [at |-> "done", what |-> j.what, prefix |-> j.prefix, answer |-> j.answer]
TreeShapes ==
  /\ tree \in [Path -> Kind] /\ writable \in BOOLEAN /\ objects \subseteq Prefix
  /\ DOMAIN guard = Process
  /\ DOMAIN job = Thread /\ disturbed \in [Thread -> BOOLEAN]
  /\ \A t \in Thread : JobShape(job[t])
GuardOwned ==
  \A t \in Thread : job[t].at \in {"prepare", "write", "undo"} => guard[ProcessOf(t)] = t
Unblocked(p) == \A i \in 1..4 : tree[Chain(p)[i]] \in {"dir", "none"}
(* What a call that nobody disturbed has built is still there, and what it *)
(* found out is still so.                                                  *)
Stands(t) ==
  ~disturbed[t] =>
    /\ job[t].at = "prepare" => \A i \in 1..4 : i < job[t].level => tree[Chain(job[t].prefix)[i]] = "dir"
    /\ job[t].at = "write" => \A i \in 1..4 : tree[Chain(job[t].prefix)[i]] = "dir"
    /\ job[t].at = "undo" => (job[t].answer = "ok" <=> writable) /\ Unblocked(job[t].prefix)
    /\ job[t].at = "done" => (job[t].answer = "ok" <=> (writable /\ Unblocked(job[t].prefix)))
TreeInv == TreeShapes /\ GuardOwned /\ (\A t \in Thread : Stands(t)) /\ ObjectsKeepTheirPath
=============================================================================
