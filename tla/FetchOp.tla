------------------------------- MODULE FetchOp -------------------------------
(***************************************************************************)
(* The fetch operation: validate the target, serve a fresh enough earlier  *)
(* fetch from the store, otherwise run curl hop by hop along validated     *)
(* redirects, store the body, and record it in the shared fetch index.     *)
(* Names may resolve differently from one moment to the next, and several  *)
(* processes update the index.                                             *)
(*                                                                         *)
(*   engine_fetch.rs   fetch, follow_validated_redirects, fetch_response   *)
(*   fetch_guard.rs    validate_fetch_target                               *)
(*   fetch_cache.rs    the index and its lock                              *)
(***************************************************************************)
EXTENDS Naturals, FiniteSets

CONSTANTS Fetches,      \* fetch calls, each made once
          Urls, HostOf, \* URLs and the host of each
          ListedAllow, ListedDeny,  \* configured host lists
          Answers,      \* url -> what the server may answer: a body, a next
                        \* url, or an error
          PublicIp, PrivateIp, AnyIp, \* address classes; AnyIp: not resolved
          FetchTtl, IndexCap, MaxHops, MaxTicks

VARIABLES now,       \* epoch_secs
          index,     \* fetch-cache.json: url -> [body, time]
          indexLock, \* fetch holding the index lock, or "free"
          bodies,    \* bodies that expand from the store
          stage,     \* fetch -> control point
          url, hop,  \* fetch -> current url, redirects taken
          entry,     \* fetch -> the url the caller asked for
          pinned,    \* fetch -> address curl is told to use
          got,       \* fetch -> body received
          loadedIx,  \* fetch -> index read under the lock
          contacts,  \* <<host, address class>> connections made (history)
          recorded   \* urls whose record_fetch wrote the index (history)

vars == <<now, index, indexLock, bodies, stage, url, hop, entry, pinned, got, loadedIx,
          contacts, recorded>>

Bodies == {"page", "other", "none"}
NoIndex == [u \in {} |-> 0]

TypeOK ==
    /\ now \in 0..MaxTicks /\ indexLock \in Fetches \cup {"free"}
    /\ bodies \subseteq Bodies
    /\ stage \in [Fetches -> {"idle", "cache", "check", "connect", "store", "lock",
                              "load", "save", "hit", "ok", "failed"}]
    /\ hop \in [Fetches -> 0..MaxHops]
    /\ pinned \in [Fetches -> {PublicIp, PrivateIp, AnyIp}]
    /\ recorded \subseteq Urls /\ DOMAIN index \subseteq Urls

Init ==
    /\ now = 0 /\ indexLock = "free" /\ bodies = {}
    /\ index \in {NoIndex} \cup {[u \in {v} |-> [body |-> "page", time |-> 0]] : v \in Urls}
    /\ stage = [f \in Fetches |-> "idle"] /\ url \in [Fetches -> Urls] /\ entry = url
    /\ hop = [f \in Fetches |-> 0] /\ pinned = [f \in Fetches |-> AnyIp]
    /\ got = [f \in Fetches |-> "none"] /\ loadedIx = [f \in Fetches |-> NoIndex]
    /\ contacts = {} /\ recorded = DOMAIN index

Goto(f, s) == stage' = [stage EXCEPT ![f] = s]

\* blocked_ip_reason: loopback, private, link-local, multicast, reserved ...
blocked_ip_reason(ip) == ip = PrivateIp

\* Every answer the resolver may give: a set of addresses.
Resolutions == {{PublicIp}, {PrivateIp}, {PublicIp, PrivateIp}}

\* validate_fetch_target: the pins it may return, none when it refuses.  A
\* listed host is trusted as configured; one blocked address among those the
\* name resolves to refuses the whole answer.
validate_fetch_target(h) ==
    IF h \in ListedDeny THEN {}
    ELSE IF h \in ListedAllow THEN {AnyIp}
    ELSE UNION {r \in Resolutions : ~ \E ip \in r : blocked_ip_reason(ip)}

\* The entry checks; the first validation guards the cached path too.
Begin(f) ==
    /\ stage[f] = "idle"
    /\ Goto(f, IF validate_fetch_target(HostOf[url[f]]) = {} THEN "failed" ELSE "cache")
    /\ UNCHANGED <<now, index, indexLock, bodies, url, hop, entry, pinned, got, loadedIx,
                   contacts, recorded>>

\* A record within the ttl whose body still expands is served without network;
\* `fresh` skips it.
CacheLookup(f) ==
    /\ stage[f] = "cache"
    /\ LET u == url[f]
           usable == u \in DOMAIN index /\ now - index[u].time <= FetchTtl
                     /\ index[u].body \in bodies
       IN  \/ usable /\ Goto(f, "hit") /\ got' = [got EXCEPT ![f] = index[u].body]
           \/ Goto(f, "check") /\ UNCHANGED got
    /\ UNCHANGED <<now, index, indexLock, bodies, url, hop, entry, pinned, loadedIx,
                   contacts, recorded>>

\* Every hop is validated like the entry URL.
CheckHop(f) ==
    /\ stage[f] = "check"
    /\ \/ \E ip \in validate_fetch_target(HostOf[url[f]]) :
            Goto(f, "connect") /\ pinned' = [pinned EXCEPT ![f] = ip]
       \/ HostOf[url[f]] \notin ListedAllow /\ Goto(f, "failed") /\ UNCHANGED pinned
    /\ UNCHANGED <<now, index, indexLock, bodies, url, hop, entry, got, loadedIx,
                   contacts, recorded>>

\* curl resolves the name a second time.
ResolveAgain(f) == {PublicIp, PrivateIp}

\* The address curl connects to: the pinned one, else what the name says now.
ConnectTo(f) == IF pinned[f] = AnyIp THEN {PublicIp, PrivateIp} ELSE {pinned[f]}

\* Mutant: the redirect is counted after the limit was tested.
CountedLate(f) == hop[f] > MaxHops

TooManyRedirects(f) == hop[f] + 1 > MaxHops

\* One curl run: it fails, its capture is cut short, or it brings an answer.
Connect(f) ==
    /\ stage[f] = "connect"
    /\ \E ip \in ConnectTo(f) : contacts' = contacts \cup {<<HostOf[url[f]], ip>>}
    /\ \/ Goto(f, "failed") /\ UNCHANGED <<url, hop, got>>
       \/ \E a \in Answers[url[f]] :
            \/ /\ a.kind = "body" /\ Goto(f, "store") /\ got' = [got EXCEPT ![f] = a.body]
               /\ UNCHANGED <<url, hop>>
            \/ /\ a.kind = "redirect" /\ TooManyRedirects(f) /\ Goto(f, "failed")
               /\ UNCHANGED <<url, hop, got>>
            \/ /\ a.kind = "redirect" /\ ~TooManyRedirects(f) /\ Goto(f, "check")
               /\ url' = [url EXCEPT ![f] = a.next] /\ hop' = [hop EXCEPT ![f] = @ + 1]
               /\ UNCHANGED got
    /\ UNCHANGED <<now, index, indexLock, bodies, entry, pinned, loadedIx, recorded>>

\* fetch_response: the body is stored; only one that resolves is recorded.
StoreBody(f) ==
    /\ stage[f] = "store"
    /\ \/ Goto(f, "lock") /\ bodies' = bodies \cup {got[f]}
       \/ Goto(f, "ok") /\ UNCHANGED bodies   \* persist failed: degraded answer
    /\ UNCHANGED <<now, index, indexLock, url, hop, entry, pinned, got, loadedIx,
                   contacts, recorded>>

\* The index is read and written without the lock.
LockNever(f) ==
    /\ stage[f] = "lock" /\ Goto(f, "load")
    /\ UNCHANGED <<now, index, indexLock, bodies, url, hop, entry, pinned, got, loadedIx,
                   contacts, recorded>>

\* FetchIndexLock::acquire: a lock that cannot be taken costs the record.
AcquireIndex(f) ==
    /\ stage[f] = "lock"
    /\ \/ indexLock = "free" /\ indexLock' = f /\ Goto(f, "load")
       \/ indexLock # "free" /\ Goto(f, "ok") /\ UNCHANGED indexLock
    /\ UNCHANGED <<now, index, bodies, url, hop, entry, pinned, got, loadedIx, contacts, recorded>>

LoadIndex(f) ==
    /\ stage[f] = "load" /\ Goto(f, "save")
    /\ loadedIx' = [loadedIx EXCEPT ![f] = index]
    /\ UNCHANGED <<now, index, indexLock, bodies, url, hop, entry, pinned, got, contacts, recorded>>

\* The oldest entries go until the index is within its bound.
Trim(ix) ==
    IF Cardinality(DOMAIN ix) <= IndexCap THEN {ix}
    ELSE {[u \in DOMAIN ix \ {d} |-> ix[u]] :
            d \in {u \in DOMAIN ix : \A v \in DOMAIN ix : ix[u].time <= ix[v].time}}

\* record_fetch: the entry is inserted with the time of the recording.
record_fetch(f) ==
    /\ stage[f] = "save" /\ Goto(f, "ok")
    /\ \/ \E ix \in Trim([u \in DOMAIN loadedIx[f] \cup {entry[f]} |->
                           IF u = entry[f] THEN [body |-> got[f], time |-> now]
                           ELSE loadedIx[f][u]]) :
            index' = ix /\ recorded' = recorded \cup {entry[f]}
       \/ UNCHANGED <<index, recorded>>
    /\ indexLock' = "free"
    /\ UNCHANGED <<now, bodies, url, hop, entry, pinned, got, loadedIx, contacts>>

\* Time passes; the store evicts a body.
Tick == /\ now < MaxTicks /\ now' = now + 1
        /\ \/ UNCHANGED bodies \/ \E b \in bodies : bodies' = bodies \ {b}
        /\ UNCHANGED <<index, indexLock, stage, url, hop, entry, pinned, got, loadedIx,
                       contacts, recorded>>

Next == \/ Tick
        \/ \E f \in Fetches : \/ Begin(f) \/ CacheLookup(f) \/ CheckHop(f) \/ Connect(f)
                              \/ StoreBody(f) \/ AcquireIndex(f) \/ LoadIndex(f)
                              \/ record_fetch(f)

Spec == Init /\ [][Next]_vars

-----------------------------------------------------------------------------
(* Properties.                                                              *)

\* However the names resolve at each moment, every connection goes to an
\* address the guard has accepted, or to a host the configuration trusts
\* (validate_fetch_target's pin, closing the resolve-then-connect window).
ContactsChecked ==
    \A c \in contacts : /\ c[1] \notin ListedDeny
                        /\ blocked_ip_reason(c[2]) => c[1] \in ListedAllow

\* Concurrent fetches keep each other's records: until the index is full,
\* every url recorded is in it (record_fetch's lock).
IndexKeepsRecords ==
    Cardinality(recorded) <= IndexCap => recorded \subseteq DOMAIN index

-----------------------------------------------------------------------------
(* Why they hold: FetchInv is the inductive invariant.                      *)

\* What the guard and the lock rely on: the classes of addresses differ, and
\* "free" is nobody's name.
FetchConstants ==
    /\ PublicIp # PrivateIp /\ AnyIp # PublicIp /\ AnyIp # PrivateIp
    /\ "free" \notin Fetches /\ IndexCap \in Nat

FetchShapes ==
    /\ DOMAIN stage = Fetches /\ DOMAIN pinned = Fetches /\ DOMAIN loadedIx = Fetches
    /\ DOMAIN url = Fetches

\* The address curl is about to use was validated for the current url.
PinFresh ==
    \A f \in Fetches : stage[f] = "connect" => pinned[f] \in validate_fetch_target(HostOf[url[f]])

\* Who reads or writes the index holds its lock, and what it has read is so.
IndexOwned ==
    \A f \in Fetches : /\ stage[f] \in {"load", "save"} => indexLock = f
                       /\ stage[f] = "save" => loadedIx[f] = index

\* The index holds recorded urls only, and all of them until it is full.
IndexRecorded ==
    /\ IsFiniteSet(recorded) /\ DOMAIN index \subseteq recorded
    /\ IndexKeepsRecords

FetchInv == FetchShapes /\ PinFresh /\ IndexOwned /\ IndexRecorded /\ ContactsChecked
=============================================================================
