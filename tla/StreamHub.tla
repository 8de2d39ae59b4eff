------------------------------ MODULE StreamHub ------------------------------
(***************************************************************************)
(* The registry of live connections (rustak-server/src/stream: hub.rs,      *)
(* registry.rs, subscription.rs) and the steps the connections' tasks take   *)
(* upon it: join and replay (connection.rs, replay.rs), route a report or a  *)
(* chat (router.rs, dest.rs), leave and say so (notify.rs).                  *)
(*                                                                         *)
(* Each use of the registry is one step under its lock; between two of them  *)
(* every other task may run.  What is queued for a connection reaches its    *)
(* client in that order (StreamConnection), so a delivery is drawn on the    *)
(* client's map when it is queued; no queue overflows here.  Reports are     *)
(* numbered in the order they are accepted; 0 is none.                      *)
(***************************************************************************)
EXTENDS Naturals, FiniteSets

CONSTANTS
    MaxConns,      \* bound: connections, each served once
    Uids, Names,   \* client uids and callsigns
    UidOf,         \* the uid of the device behind a connection
    Relayed,       \* uids that devices also report on behalf of
    Addresses,     \* a callsign and a uid, either or both: what chats are addressed to
    Sees,          \* <<p, n>> when what p sends may reach n
    Shy,           \* connections that toggle incognito
    MaxReports,    \* bound: reports accepted
    NoUid, NoName, Absent, Idle

Ids == 1..MaxConns

ASSUME HubConstants ==
    /\ MaxConns \in Nat /\ MaxReports \in Nat
    /\ UidOf \in [Ids -> Uids]
    /\ Relayed \subseteq Uids
    /\ Addresses \subseteq ((Names \cup {NoName}) \X (Uids \cup {NoUid})) \ {<<NoName, NoUid>>}
    /\ Sees \subseteq Ids \X Ids /\ Shy \subseteq Ids
    /\ NoUid \notin Uids /\ NoName \notin Names

VARIABLES
    conns,         \* the subscriptions, by id
    byUid, byCallsign,
    phase,         \* how far each connection's task has come
    replay,        \* the snapshot it has yet to replay: the senders and their reports
    routing,       \* the message its task is routing
    map,           \* the report each client shows for a uid
    reports        \* how many were accepted

vars == <<conns, byUid, byCallsign, phase, replay, routing, map, reports>>

Numbers == 0..MaxReports

Subscription == [uid: Uids \cup {NoUid}, callsign: Names \cup {NoName},
                 latest: Numbers, incognito: BOOLEAN]

(* What a task is routing: a report or a notice is about a uid, and a chat is  *)
(* addressed to a callsign, a uid or both.  `stage` is the look-up to be made    *)
(* next, or "send"; `to` is who was found and has yet to be sent to.           *)
Routing == [kind: {"report", "chat", "notice"},
            callsign: Names \cup {NoName}, uid: Uids \cup {NoUid},
            n: Numbers, stage: {"callsign", "uid", "send"}, to: SUBSET Ids]

Message(kind, callsign, uid, n, stage, to) ==
    [kind |-> kind, callsign |-> callsign, uid |-> uid, n |-> n, stage |-> stage, to |-> to]

ASSUME NotASubscription == Absent \notin Subscription
ASSUME NotAMessage == Idle \notin Routing

TypeOK ==
    /\ conns \in [Ids -> Subscription \cup {Absent}]
    /\ byUid \in [Uids -> SUBSET Ids] /\ byCallsign \in [Names -> SUBSET Ids]
    /\ phase \in [Ids -> {"new", "joined", "replaying", "open", "short", "leaving", "gone"}]
    /\ replay \in [Ids -> SUBSET (Ids \X Uids \X Numbers)]
    /\ routing \in [Ids -> Routing \cup {Idle}]
    /\ map \in [Ids -> [Uids -> Numbers]]
    /\ reports \in Numbers

Registered(c) == conns[c] # Absent

Init ==
    /\ conns = [c \in Ids |-> Absent]
    /\ byUid = [u \in Uids |-> {}] /\ byCallsign = [k \in Names |-> {}]
    /\ phase = [c \in Ids |-> "new"]
    /\ replay = [c \in Ids |-> {}]
    /\ routing = [c \in Ids |-> Idle]
    /\ map = [c \in Ids |-> [u \in Uids |-> 0]]
    /\ reports = 0

-----------------------------------------------------------------------------
(* The registry.                                                            *)

\* Mutant: the first name a connection is known by stays in the index.
ReindexFirst(index, c, old, new) ==
    [k \in DOMAIN index |->
        IF old \notin DOMAIN index /\ k = new THEN index[k] \cup {c} ELSE index[k]]

\* Moves c's entry from `old` to `new`, either of which may be no key at all.
Reindex(index, c, old, new) ==
    [k \in DOMAIN index |->
        IF old = new THEN index[k]
        ELSE IF k = old THEN index[k] \ {c}
        ELSE IF k = new THEN index[k] \cup {c}
        ELSE index[k]]

Unindex(index, c, key) ==
    [k \in DOMAIN index |-> IF k = key THEN index[k] \ {c} ELSE index[k]]

\* Mutant: a connection is delivered to only once its replay is done.
ReachableFromOpen(c) ==
    {n \in Ids \ {c} : Registered(n) /\ <<c, n>> \in Sees /\ replay[n] = {}}

ReachableFrom(c) == {n \in Ids \ {c} : Registered(n) /\ <<c, n>> \in Sees}

\* Whoever carries a key and may be reached; no key finds nobody.
Resolve(index, c, key) ==
    {n \in Ids : /\ key \in DOMAIN index /\ n \in index[key]
                 /\ Registered(n) /\ <<c, n>> \in Sees}

LatestFor(n) ==
    {<<p, conns[p].uid, conns[p].latest>> :
        p \in {q \in Ids \ {n} : Registered(q) /\ ~conns[q].incognito
                                 /\ conns[q].latest # 0 /\ <<q, n>> \in Sees}}

-----------------------------------------------------------------------------
(* A connection's task: in, and the replay.                                 *)

Register(c) ==
    /\ phase[c] = "new"
    /\ \E incognito \in IF c \in Shy THEN BOOLEAN ELSE {FALSE} :
          conns' = [conns EXCEPT ![c] = [uid |-> NoUid, callsign |-> NoName,
                                         latest |-> 0, incognito |-> incognito]]
    /\ phase' = [phase EXCEPT ![c] = "joined"]
    /\ UNCHANGED <<byUid, byCallsign, replay, routing, map, reports>>

Snapshot(c) ==
    /\ phase[c] = "joined"
    /\ phase' = [phase EXCEPT ![c] = "replaying"]
    /\ replay' = [replay EXCEPT ![c] = LatestFor(c)]
    /\ UNCHANGED <<conns, byUid, byCallsign, routing, map, reports>>

\* In the order their senders registered.
ReplayNext(c) ==
    /\ phase[c] = "replaying"
    /\ \E report \in replay[c] :
          /\ \A other \in replay[c] : report[1] <= other[1]
          /\ replay' = [replay EXCEPT ![c] = replay[c] \ {report}]
          /\ map' = [map EXCEPT ![c][report[2]] = report[3]]
    /\ UNCHANGED <<conns, byUid, byCallsign, phase, routing, reports>>

\* The replay is done, or is cut short when its budget is spent.
StartReading(c) ==
    /\ phase[c] = "replaying"
    /\ phase' = [phase EXCEPT ![c] = IF replay[c] = {} THEN "open" ELSE "short"]
    /\ replay' = [replay EXCEPT ![c] = {}]
    /\ UNCHANGED <<conns, byUid, byCallsign, routing, map, reports>>

Reading(c) == phase[c] \in {"open", "short"} /\ routing[c] = Idle

-----------------------------------------------------------------------------
(* A connection's task: one message.                                        *)

\* What `apply_event` makes of a report about u under that callsign.
Identified(c, u, callsign) ==
    LET uid == IF conns[c].uid = NoUid THEN u ELSE conns[c].uid IN
    [uid |-> uid, callsign |-> callsign, incognito |-> conns[c].incognito,
     latest |-> IF u = uid THEN reports + 1 ELSE conns[c].latest]

\* A hidden client's report goes nowhere, and nothing is learned from it.
Report(c, u, callsign) ==
    /\ Reading(c) /\ ~conns[c].incognito
    /\ u = UidOf[c] \/ u \in Relayed
    /\ reports < MaxReports /\ reports' = reports + 1
    /\ LET now == Identified(c, u, callsign) IN
          /\ conns' = [conns EXCEPT ![c] = now]
          /\ byUid' = Reindex(byUid, c, conns[c].uid, now.uid)
          /\ byCallsign' = Reindex(byCallsign, c, conns[c].callsign, callsign)
    /\ routing' = [routing EXCEPT ![c] =
                       Message("report", NoName, u, reports + 1, "uid", {})]
    /\ UNCHANGED <<phase, replay, map>>

\* A chat to a callsign, a uid or both; one from a hidden client to a uid alone is
\* dropped like its reports.
Chat(c, callsign, u) ==
    /\ Reading(c)
    /\ conns[c].incognito => callsign # NoName
    /\ routing' = [routing EXCEPT ![c] =
                       Message("chat", callsign, u, 0,
                               IF callsign = NoName THEN "uid" ELSE "callsign", {})]
    /\ UNCHANGED <<conns, byUid, byCallsign, phase, replay, map, reports>>

LookingUp(c) == routing[c] # Idle /\ routing[c].stage # "send"

\* One look-up, under one lock.
Found(c) ==
    CASE routing[c].kind # "chat" -> ReachableFrom(c)
      [] routing[c].kind = "chat" /\ routing[c].stage = "callsign" ->
             Resolve(byCallsign, c, routing[c].callsign)
      [] OTHER -> Resolve(byUid, c, routing[c].uid)

Recipients(c) == routing[c].to \cup Found(c)

LastLookUp(c) == routing[c].stage = "uid" \/ routing[c].uid = NoUid

\* A chat nobody is found for is handed back to its sender.
Bounces(c) ==
    LookingUp(c) /\ routing[c].kind = "chat" /\ LastLookUp(c) /\ Recipients(c) = {}

Choose(c) ==
    /\ LookingUp(c)
    /\ routing' = [routing EXCEPT ![c] =
                       Message(routing[c].kind, routing[c].callsign, routing[c].uid,
                               routing[c].n, IF LastLookUp(c) THEN "send" ELSE "uid",
                               Recipients(c))]
    /\ UNCHANGED <<conns, byUid, byCallsign, phase, replay, map, reports>>

Sending(c) == routing[c] # Idle /\ routing[c].stage = "send"

\* One recipient's queue, whether or not it is registered still.
Send(c, n) ==
    /\ Sending(c) /\ n \in routing[c].to
    /\ routing' = [routing EXCEPT ![c] =
                       Message(routing[c].kind, routing[c].callsign, routing[c].uid,
                               routing[c].n, "send", routing[c].to \ {n})]
    /\ map' = IF routing[c].kind = "chat" THEN map
              ELSE [map EXCEPT ![n][routing[c].uid] = routing[c].n]
    /\ UNCHANGED <<conns, byUid, byCallsign, phase, replay, reports>>

Sent(c) ==
    /\ Sending(c) /\ routing[c].to = {}
    /\ routing' = [routing EXCEPT ![c] = Idle]
    /\ phase' = [phase EXCEPT ![c] = IF phase[c] = "leaving" THEN "gone" ELSE phase[c]]
    /\ UNCHANGED <<conns, byUid, byCallsign, replay, map, reports>>

Toggle(c) ==
    /\ Reading(c) /\ c \in Shy
    /\ conns' = [conns EXCEPT ![c] = [uid |-> conns[c].uid, callsign |-> conns[c].callsign,
                     latest |-> conns[c].latest, incognito |-> ~conns[c].incognito]]
    /\ UNCHANGED <<byUid, byCallsign, phase, replay, routing, map, reports>>

-----------------------------------------------------------------------------
(* A connection's task: out.                                                *)

\* A client that never said who it is leaves without a notice, which is about
\* its uid and carries no report.
Unregister(c) ==
    /\ conns' = [conns EXCEPT ![c] = Absent]
    /\ byUid' = Unindex(byUid, c, conns[c].uid)
    /\ byCallsign' = Unindex(byCallsign, c, conns[c].callsign)
    /\ IF conns[c].uid = NoUid
       THEN /\ phase' = [phase EXCEPT ![c] = "gone"]
            /\ routing' = [routing EXCEPT ![c] = Idle]
       ELSE /\ phase' = [phase EXCEPT ![c] = "leaving"]
            /\ routing' = [routing EXCEPT ![c] =
                               Message("notice", NoName, conns[c].uid, 0, "uid", {})]
    /\ UNCHANGED <<replay, map, reports>>

\* Mutant: the connection ends while its last message is still being routed.
LeaveAtOnce(c) ==
    \/ Reading(c) /\ Unregister(c)
    \/ /\ phase[c] \in {"open", "short"} /\ LookingUp(c)
       /\ conns' = [conns EXCEPT ![c] = Absent]
       /\ byUid' = Unindex(byUid, c, conns[c].uid)
       /\ byCallsign' = Unindex(byCallsign, c, conns[c].callsign)
       /\ phase' = [phase EXCEPT ![c] = "gone"]
       /\ UNCHANGED <<replay, routing, map, reports>>

Leave(c) == Reading(c) /\ Unregister(c)

Next ==
    \E c \in Ids :
        \/ Register(c) \/ Snapshot(c) \/ ReplayNext(c) \/ StartReading(c)
        \/ \E u \in Uids, callsign \in Names : Report(c, u, callsign)
        \/ \E to \in Addresses : Chat(c, to[1], to[2])
        \/ Choose(c) \/ Sent(c) \/ Toggle(c) \/ Leave(c)
        \/ \E n \in Ids : Send(c, n)

Spec == Init /\ [][Next]_vars

-----------------------------------------------------------------------------
(* The indexes hold exactly the names the registered connections carry,       *)
(* through renames, shared names and departures (registry.rs index, reindex,  *)
(* unindex): no stale entry, no missing one.                                 *)
IndexesExact ==
    /\ \A u \in Uids : byUid[u] = {c \in Ids : Registered(c) /\ conns[c].uid = u}
    /\ \A k \in Names : byCallsign[k] = {c \in Ids : Registered(c) /\ conns[c].callsign = k}

(* A chat comes back as undeliverable only when nobody the sender may reach     *)
(* carries the uid it is addressed to at that moment, or the callsign of one     *)
(* addressed to a callsign alone (dest.rs, router.rs bounce): not a peer that    *)
(* has just been renamed, nor one that shares its name.  Of two addresses the    *)
(* callsign was looked up in an earlier step, and may have been taken since.     *)
BouncedOnlyIfAbsent ==
    \A c, n \in Ids :
        Bounces(c) /\ Registered(n) /\ <<c, n>> \in Sees =>
            IF routing[c].uid = NoUid THEN conns[n].callsign # routing[c].callsign
            ELSE conns[n].uid # routing[c].uid

(* A client whose replay was completed shows every identified peer it may see: *)
(* one that reported before it joined is in the snapshot, one that reports      *)
(* after it is registered reaches it (connection.rs run, replay.rs), and        *)
(* nothing falls between the two.  Where a uid had another connection that      *)
(* has ended, its notice may have taken the device off the map again            *)
(* (notify.rs on_disconnect), until the next report.                          *)
MapIsFilled ==
    \A n, p \in Ids :
        /\ n # p /\ phase[n] = "open"
        /\ Registered(p) /\ p \notin Shy /\ conns[p].latest # 0 /\ routing[p] = Idle
        /\ <<p, n>> \in Sees
        /\ \A q \in Ids : phase[q] \in {"leaving", "gone"} =>
               conns[p].uid # UidOf[q] /\ conns[p].uid \notin Relayed
        => map[n][conns[p].uid] # 0

(* A uid comes onto a map only while a client that reports for it is connected, *)
(* unless a replay puts it there: a task routes its last message before it       *)
(* unregisters, and its notice comes behind both (connection.rs run, notify.rs  *)
(* on_disconnect).                                                            *)
AppearsConnected ==
    [][\A n \in Ids, u \in Uids :
          map[n][u] = 0 /\ map'[n][u] # 0 =>
              \/ \E p \in Ids : Registered(p) /\ (u = UidOf[p] \/ u \in Relayed)
              \/ \E r \in replay[n] : r[2] = u]_vars
=============================================================================
