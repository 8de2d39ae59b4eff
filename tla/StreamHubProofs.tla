--------------------------- MODULE StreamHubProofs ---------------------------
(***************************************************************************)
(* StreamHub's types and indexes, for any number of connections, names and   *)
(* reports.  The indexes are exact only together with where each task is:    *)
(* a connection registers once, before it has carried any name, and routes   *)
(* only while it is registered.                                             *)
(***************************************************************************)
EXTENDS StreamHub, TLAPS

\* A connection registers when it is new and routes while it is registered.
Phased(c) ==
    /\ phase[c] = "new" => conns[c] = Absent
    /\ phase[c] \in {"joined", "replaying", "open", "short"} => conns[c] # Absent

\* What is drawn on a map is about a uid.
AboutUid(c) ==
    routing[c] # Idle /\ routing[c].kind # "chat" => routing[c].uid \in Uids

\* A look-up to be made for a chat has something to look up.
AboutSomebody(c) ==
    routing[c] # Idle /\ routing[c].kind = "chat" =>
        /\ routing[c].stage = "callsign" => routing[c].callsign \in Names
        /\ routing[c].stage = "uid" => routing[c].uid \in Uids

\* Whoever has a report to replay has said who it is.
Told(c) == conns[c] # Absent /\ conns[c].latest # 0 => conns[c].uid \in Uids

Others(c) == Phased(c) /\ AboutUid(c) /\ AboutSomebody(c) /\ Told(c)

IInv ==
    /\ TypeOK
    /\ \A c \in Ids : Others(c)
    /\ IndexesExact

-----------------------------------------------------------------------------
(* Moving a connection from one key to another leaves every other entry, and  *)
(* every other connection, where it was (registry.rs reindex).               *)
LEMMA ReindexMoves ==
    ASSUME NEW K, NEW index \in [K -> SUBSET Ids], NEW c \in Ids,
           NEW old, NEW new
    PROVE  /\ Reindex(index, c, old, new) \in [K -> SUBSET Ids]
           /\ \A k \in K, d \in Ids :
                 d \in Reindex(index, c, old, new)[k] <=>
                     IF d = c /\ old # new
                     THEN k = new \/ (k # old /\ d \in index[k])
                     ELSE d \in index[k]
  BY DEF Reindex

(* Taking a connection out of one key's entry leaves the rest (registry.rs     *)
(* unindex).                                                                *)
LEMMA UnindexRemoves ==
    ASSUME NEW K, NEW index \in [K -> SUBSET Ids], NEW c \in Ids, NEW key
    PROVE  /\ Unindex(index, c, key) \in [K -> SUBSET Ids]
           /\ \A k \in K, d \in Ids :
                 d \in Unindex(index, c, key)[k] <=> d \in index[k] /\ ~(k = key /\ d = c)
  BY DEF Unindex

(* The invariant holds where the server starts.                              *)
LEMMA InitHolds == Init => IInv
  BY HubConstants DEF Init, IInv, TypeOK, Others, Phased, AboutUid, AboutSomebody, Told, IndexesExact,
        Registered, Numbers

(* A message that is being routed keeps its type through the steps that route  *)
(* it (router.rs handle_inbound, fan_out).                                    *)
LEMMA MessageTyped ==
    ASSUME NEW kind \in {"report", "chat", "notice"}, NEW callsign \in Names \cup {NoName},
           NEW uid \in Uids \cup {NoUid}, NEW n \in Numbers,
           NEW stage \in {"callsign", "uid", "send"}, NEW to \in SUBSET Ids
    PROVE  /\ Message(kind, callsign, uid, n, stage, to) \in Routing
           /\ Message(kind, callsign, uid, n, stage, to) # Idle
           /\ Message(kind, callsign, uid, n, stage, to).kind = kind
           /\ Message(kind, callsign, uid, n, stage, to).callsign = callsign
           /\ Message(kind, callsign, uid, n, stage, to).uid = uid
           /\ Message(kind, callsign, uid, n, stage, to).stage = stage
  BY NotAMessage DEF Routing, Message

\* What a message is made of.
LEMMA MessageParts ==
    /\ "report" \in {"report", "chat", "notice"} /\ "report" # "chat"
    /\ "notice" \in {"report", "chat", "notice"} /\ "notice" # "chat"
    /\ "chat" \in {"report", "chat", "notice"}
    /\ "callsign" \in {"callsign", "uid", "send"} /\ "callsign" # "uid"
    /\ "uid" \in {"callsign", "uid", "send"}
    /\ "send" \in {"callsign", "uid", "send"} /\ "send" # "callsign" /\ "send" # "uid"
    /\ NoName \in Names \cup {NoName} /\ NoUid \in Uids \cup {NoUid}
    /\ Uids \subseteq Uids \cup {NoUid} /\ {} \in SUBSET Ids
  OBVIOUS

(* A task that takes up a message, or moves it on, disturbs nobody else's: the   *)
(* types stand, and what each look-up expects.                                 *)
LEMMA MessageMoves ==
    ASSUME TypeOK, \A d \in Ids : Others(d), NEW c \in Ids,
           NEW kind \in {"report", "chat", "notice"}, NEW callsign \in Names \cup {NoName},
           NEW uid \in Uids \cup {NoUid}, NEW n \in Numbers,
           NEW stage \in {"callsign", "uid", "send"}, NEW to \in SUBSET Ids,
           routing' = [routing EXCEPT ![c] = Message(kind, callsign, uid, n, stage, to)],
           kind # "chat" => uid \in Uids,
           kind = "chat" /\ stage = "callsign" => callsign \in Names,
           kind = "chat" /\ stage = "uid" => uid \in Uids
    PROVE  /\ routing' \in [Ids -> Routing \cup {Idle}]
           /\ \A d \in Ids : AboutUid(d)' /\ AboutSomebody(d)'
<1> DEFINE m == Message(kind, callsign, uid, n, stage, to)
<1>1. /\ m \in Routing /\ m.kind = kind /\ m.callsign = callsign
      /\ m.uid = uid /\ m.stage = stage
  BY MessageTyped
<1>2. routing \in [Ids -> Routing \cup {Idle}] /\ routing' = [routing EXCEPT ![c] = m]
  BY DEF TypeOK
<1> HIDE DEF m
<1>3. \A d \in Ids : routing'[d] = IF d = c THEN m ELSE routing[d]
  BY <1>2
<1>4. routing' \in [Ids -> Routing \cup {Idle}]
  BY <1>1, <1>2
<1>5. ASSUME NEW d \in Ids PROVE AboutUid(d)' /\ AboutSomebody(d)'
  BY <1>1, <1>3 DEF Others, AboutUid, AboutSomebody
<1> QED BY <1>4, <1>5

\* The same for one whose recipients are chosen: nothing is looked up any more.
LEMMA MessageSent ==
    ASSUME TypeOK, \A d \in Ids : Others(d), NEW c \in Ids,
           NEW kind \in {"report", "chat", "notice"}, NEW callsign \in Names \cup {NoName},
           NEW uid \in Uids \cup {NoUid}, NEW n \in Numbers, NEW to \in SUBSET Ids,
           routing' = [routing EXCEPT ![c] = Message(kind, callsign, uid, n, "send", to)],
           kind # "chat" => uid \in Uids
    PROVE  /\ routing' \in [Ids -> Routing \cup {Idle}]
           /\ \A d \in Ids : AboutUid(d)' /\ AboutSomebody(d)'
<1> DEFINE m == Message(kind, callsign, uid, n, "send", to)
<1>1. /\ m \in Routing /\ m.kind = kind /\ m.callsign = callsign
      /\ m.uid = uid /\ m.stage = "send"
  BY MessageTyped
<1>2. routing \in [Ids -> Routing \cup {Idle}] /\ routing' = [routing EXCEPT ![c] = m]
  BY DEF TypeOK
<1> HIDE DEF m
<1>3. \A d \in Ids : routing'[d] = IF d = c THEN m ELSE routing[d]
  BY <1>2
<1>4. routing' \in [Ids -> Routing \cup {Idle}]
  BY <1>1, <1>2
<1>5. ASSUME NEW d \in Ids PROVE AboutUid(d)' /\ AboutSomebody(d)'
  BY <1>1, <1>3 DEF Others, AboutUid, AboutSomebody
<1> QED BY <1>4, <1>5

(* A subscription put together from its parts is one, and is not the absent one.*)
LEMMA SubscriptionTyped ==
    ASSUME NEW uid \in Uids \cup {NoUid}, NEW callsign \in Names \cup {NoName},
           NEW latest \in Numbers, NEW incognito \in BOOLEAN
    PROVE  /\ [uid |-> uid, callsign |-> callsign, latest |-> latest,
               incognito |-> incognito] \in Subscription
           /\ [uid |-> uid, callsign |-> callsign, latest |-> latest,
               incognito |-> incognito] # Absent
  BY NotASubscription DEF Subscription

(* Every step keeps the invariant: one case per action.                      *)
LEMMA NextKeeps == IInv /\ [Next]_vars => IInv'
<1> SUFFICES ASSUME IInv, [Next]_vars PROVE IInv'
    OBVIOUS
<1> USE DEF IInv
<1>1. CASE UNCHANGED vars
  BY <1>1 DEF vars, TypeOK, Others, Phased, AboutUid, AboutSomebody, Told, IndexesExact, Registered
<1>2. ASSUME NEW c \in Ids, Register(c) PROVE IInv'
  <2>1. PICK incognito \in BOOLEAN :
            conns' = [conns EXCEPT ![c] = [uid |-> NoUid, callsign |-> NoName,
                                           latest |-> 0, incognito |-> incognito]]
    BY <1>2 DEF Register
  <2>2. /\ [uid |-> NoUid, callsign |-> NoName, latest |-> 0,
            incognito |-> incognito] \in Subscription \ {Absent}
        /\ 0 \in Numbers
    BY HubConstants, SubscriptionTyped DEF Numbers
  <2>3. TypeOK'
    BY <1>2, <2>1, <2>2 DEF Register, TypeOK
  <2>4. conns[c] = Absent
    BY <1>2 DEF Register, Others, Phased
  <2>5. IndexesExact'
    BY <1>2, <2>1, <2>2, <2>4, HubConstants DEF Register, TypeOK, IndexesExact, Registered
  <2>6. \A d \in Ids : Others(d)'
    BY <1>2, <2>1, <2>2 DEF Register, TypeOK, Others, Phased, AboutUid, AboutSomebody, Told
  <2> QED BY <2>3, <2>5, <2>6
<1>3. ASSUME NEW c \in Ids, Snapshot(c) PROVE IInv'
  <2>1. LatestFor(c) \in SUBSET (Ids \X Uids \X Numbers)
    <3>1. ASSUME NEW q \in Ids, Registered(q), conns[q].latest # 0
          PROVE  <<q, conns[q].uid, conns[q].latest>> \in Ids \X Uids \X Numbers
      BY <3>1 DEF TypeOK, Registered, Subscription, Others, Told
    <3> QED BY <3>1 DEF LatestFor
  <2> QED
    BY <1>3, <2>1
    DEF Snapshot, TypeOK, Others, Phased, AboutUid, AboutSomebody, Told, IndexesExact, Registered
<1>4. ASSUME NEW c \in Ids, ReplayNext(c) PROVE IInv'
  <2>1. PICK report \in replay[c] :
            /\ replay' = [replay EXCEPT ![c] = replay[c] \ {report}]
            /\ map' = [map EXCEPT ![c][report[2]] = report[3]]
    BY <1>4 DEF ReplayNext
  <2>2. report[2] \in Uids /\ report[3] \in Numbers
    BY <2>1 DEF TypeOK
  <2>3. TypeOK'
    BY <1>4, <2>1, <2>2 DEF ReplayNext, TypeOK
  <2> QED
    BY <1>4, <2>3
    DEF ReplayNext, Others, Phased, AboutUid, AboutSomebody, Told, IndexesExact, Registered
<1>5. ASSUME NEW c \in Ids, StartReading(c) PROVE IInv'
  <2>1. TypeOK'
    BY <1>5 DEF StartReading, TypeOK
  <2> QED
    BY <1>5, <2>1
    DEF StartReading, TypeOK, Others, Phased, AboutUid, AboutSomebody, Told, IndexesExact, Registered
<1>6. ASSUME NEW c \in Ids, NEW u \in Uids, NEW callsign \in Names, Report(c, u, callsign)
      PROVE  IInv'
  <2> DEFINE now == Identified(c, u, callsign)
  <2>1. conns[c] \in Subscription /\ conns[c] # Absent
    BY <1>6 DEF Report, Reading, Others, Phased, TypeOK
  <2>2. reports + 1 \in Numbers
    BY <1>6, HubConstants DEF Report, TypeOK, Numbers
  <2>3. now.uid \in Uids /\ now.callsign = callsign /\ now \in Subscription /\ now # Absent
    <3>1. now = [uid |-> now.uid, callsign |-> callsign, latest |-> now.latest,
                 incognito |-> now.incognito]
      BY DEF Identified
    <3>2. now.uid \in Uids /\ now.latest \in Numbers /\ now.incognito \in BOOLEAN
      BY <2>1, <2>2 DEF Identified, Subscription
    <3> QED BY <3>1, <3>2, SubscriptionTyped
  <2>4. /\ conns' = [conns EXCEPT ![c] = now]
        /\ byUid' = Reindex(byUid, c, conns[c].uid, now.uid)
        /\ byCallsign' = Reindex(byCallsign, c, conns[c].callsign, callsign)
        /\ routing' = [routing EXCEPT ![c] =
                           Message("report", NoName, u, reports + 1, "uid", {})]
        /\ reports' = reports + 1 /\ UNCHANGED <<phase, replay, map>>
    BY <1>6 DEF Report
  <2> HIDE DEF now
  <2>5. /\ byUid' \in [Uids -> SUBSET Ids]
        /\ \A v \in Uids, d \in Ids :
              d \in byUid'[v] <=> IF d = c /\ conns[c].uid # now.uid
                                  THEN v = now.uid \/ (v # conns[c].uid /\ d \in byUid[v])
                                  ELSE d \in byUid[v]
    BY <2>4, ReindexMoves DEF TypeOK
  <2>6. /\ byCallsign' \in [Names -> SUBSET Ids]
        /\ \A k \in Names, d \in Ids :
              d \in byCallsign'[k] <=>
                  IF d = c /\ conns[c].callsign # callsign
                  THEN k = callsign \/ (k # conns[c].callsign /\ d \in byCallsign[k])
                  ELSE d \in byCallsign[k]
    BY <2>4, ReindexMoves DEF TypeOK
  <2>7. /\ routing' \in [Ids -> Routing \cup {Idle}]
        /\ \A d \in Ids : AboutUid(d)' /\ AboutSomebody(d)'
    BY <2>2, <2>4, MessageParts, MessageMoves
  <2>8. TypeOK'
    BY <2>2, <2>3, <2>4, <2>5, <2>6, <2>7 DEF TypeOK
  <2>9. \A d \in Ids : Others(d)'
    BY <2>1, <2>3, <2>4, <2>7 DEF TypeOK, Others, Phased, Told
  <2>10. \A d \in Ids : Registered(d)' <=> Registered(d)
    BY <2>1, <2>3, <2>4 DEF TypeOK, Registered
  <2>11. \A d \in Ids : conns'[d] = IF d = c THEN now ELSE conns[d]
    BY <2>4 DEF TypeOK
  <2>12. IndexesExact'
    <3>1. \A v \in Uids, d \in Ids :
              d \in byUid'[v] <=> Registered(d)' /\ conns'[d].uid = v
      BY <2>1, <2>3, <2>5, <2>10, <2>11 DEF IndexesExact, Registered
    <3>2. \A k \in Names, d \in Ids :
              d \in byCallsign'[k] <=> Registered(d)' /\ conns'[d].callsign = k
      BY <2>1, <2>3, <2>6, <2>10, <2>11 DEF IndexesExact, Registered
    <3> QED BY <3>1, <3>2, <2>8 DEF IndexesExact, TypeOK
  <2> QED BY <2>8, <2>9, <2>12
<1>7. ASSUME NEW c \in Ids, NEW to \in Addresses, Chat(c, to[1], to[2]) PROVE IInv'
  <2>1. /\ to[1] \in Names \cup {NoName} /\ to[2] \in Uids \cup {NoUid}
        /\ to[1] = NoName => to[2] \in Uids
    BY HubConstants
  <2>2. 0 \in Numbers
    BY HubConstants DEF Numbers
  <2>3. /\ routing' \in [Ids -> Routing \cup {Idle}]
        /\ \A d \in Ids : AboutUid(d)' /\ AboutSomebody(d)'
    <3>1. CASE to[1] = NoName
      <4>1. routing' = [routing EXCEPT ![c] = Message("chat", to[1], to[2], 0, "uid", {})]
        BY <1>7, <3>1 DEF Chat
      <4> QED BY <2>1, <2>2, <3>1, <4>1, MessageParts, MessageMoves
    <3>2. CASE to[1] # NoName
      <4>1. routing' = [routing EXCEPT ![c] = Message("chat", to[1], to[2], 0, "callsign", {})]
        BY <1>7, <3>2 DEF Chat
      <4> QED BY <2>1, <2>2, <3>2, <4>1, MessageParts, MessageMoves
    <3> QED BY <3>1, <3>2
  <2>4. TypeOK'
    BY <1>7, <2>3 DEF Chat, TypeOK
  <2> QED
    BY <1>7, <2>3, <2>4 DEF Chat, TypeOK, Others, Phased, Told, IndexesExact, Registered
<1>8. ASSUME NEW c \in Ids, Choose(c) PROVE IInv'
  <2>1. routing[c] \in Routing
    BY <1>8 DEF Choose, LookingUp, TypeOK
  <2>2. Recipients(c) \in SUBSET Ids
    BY <2>1 DEF Recipients, Found, Resolve, ReachableFrom, Routing
  <2>3. /\ routing' \in [Ids -> Routing \cup {Idle}]
        /\ \A d \in Ids : AboutUid(d)' /\ AboutSomebody(d)'
    <3> DEFINE kind == routing[c].kind  callsign == routing[c].callsign
               uid == routing[c].uid  number == routing[c].n  to == Recipients(c)
    <3>1. /\ kind \in {"report", "chat", "notice"} /\ callsign \in Names \cup {NoName}
          /\ uid \in Uids \cup {NoUid} /\ number \in Numbers /\ to \in SUBSET Ids
          /\ kind # "chat" => uid \in Uids
      BY <1>8, <2>1, <2>2 DEF Routing, Choose, LookingUp, Others, AboutUid
    <3>2. CASE LastLookUp(c)
      <4>1. routing' = [routing EXCEPT ![c] = Message(kind, callsign, uid, number, "send", to)]
        BY <1>8, <3>2 DEF Choose
      <4> HIDE DEF kind, callsign, uid, number, to
      <4> QED BY <3>1, <4>1, MessageSent
    <3>3. CASE ~LastLookUp(c)
      <4>1. routing' = [routing EXCEPT ![c] = Message(kind, callsign, uid, number, "uid", to)]
        BY <1>8, <3>3 DEF Choose
      <4>2. uid \in Uids
        BY <3>1, <3>3 DEF LastLookUp
      <4> HIDE DEF kind, callsign, uid, number, to
      <4> QED BY <3>1, <4>1, <4>2, MessageMoves
    <3> QED BY <3>2, <3>3
  <2>4. TypeOK'
    BY <1>8, <2>3 DEF Choose, TypeOK
  <2> QED
    BY <1>8, <2>3, <2>4 DEF Choose, TypeOK, Others, Phased, Told, IndexesExact, Registered
<1>9. ASSUME NEW c \in Ids, NEW n \in Ids, Send(c, n) PROVE IInv'
  <2> DEFINE rest == routing[c].to \ {n}
  <2>1. routing[c] \in Routing
    BY <1>9 DEF Send, Sending, TypeOK
  <2>2. /\ routing[c].kind \in {"report", "chat", "notice"}
        /\ routing[c].callsign \in Names \cup {NoName}
        /\ routing[c].uid \in Uids \cup {NoUid} /\ routing[c].n \in Numbers
        /\ rest \in SUBSET Ids
        /\ routing[c].kind # "chat" => routing[c].uid \in Uids
    BY <1>9, <2>1 DEF Routing, Send, Sending, Others, AboutUid
  <2>3. routing' = [routing EXCEPT ![c] =
            Message(routing[c].kind, routing[c].callsign, routing[c].uid,
                    routing[c].n, "send", rest)]
    BY <1>9 DEF Send
  <2> HIDE DEF rest
  <2>4. /\ routing' \in [Ids -> Routing \cup {Idle}]
        /\ \A d \in Ids : AboutUid(d)' /\ AboutSomebody(d)'
    <3> DEFINE kind == routing[c].kind  callsign == routing[c].callsign
               uid == routing[c].uid  number == routing[c].n
    <3>1. /\ kind \in {"report", "chat", "notice"} /\ callsign \in Names \cup {NoName}
          /\ uid \in Uids \cup {NoUid} /\ number \in Numbers /\ rest \in SUBSET Ids
          /\ kind # "chat" => uid \in Uids
          /\ routing' = [routing EXCEPT ![c] =
                             Message(kind, callsign, uid, number, "send", rest)]
      BY <2>2, <2>3
    <3> HIDE DEF kind, callsign, uid, number
    <3> QED BY <3>1, MessageSent
  <2>5. map' \in [Ids -> [Uids -> Numbers]]
    BY <1>9, <2>2 DEF Send, TypeOK
  <2>6. TypeOK'
    BY <1>9, <2>4, <2>5 DEF Send, TypeOK
  <2> QED
    BY <1>9, <2>4, <2>6 DEF Send, TypeOK, Others, Phased, Told, IndexesExact, Registered
<1>10. ASSUME NEW c \in Ids, Sent(c) PROVE IInv'
  <2>1. TypeOK'
    BY <1>10 DEF Sent, Sending, TypeOK
  <2> QED
    BY <1>10, <2>1
    DEF Sent, TypeOK, Others, Phased, AboutUid, AboutSomebody, Told, IndexesExact, Registered
<1>11. ASSUME NEW c \in Ids, Toggle(c) PROVE IInv'
  <2> DEFINE now == [uid |-> conns[c].uid, callsign |-> conns[c].callsign,
                     latest |-> conns[c].latest, incognito |-> ~conns[c].incognito]
  <2>1. conns[c] \in Subscription /\ conns[c] # Absent
    BY <1>11 DEF Toggle, Reading, Others, Phased, TypeOK
  <2>2. now \in Subscription /\ now # Absent
    <3>1. now \in Subscription
      BY <2>1 DEF Subscription
    <3> HIDE DEF now
    <3> QED BY <3>1, NotASubscription
  <2>3. TypeOK'
    BY <1>11, <2>2 DEF Toggle, TypeOK
  <2>4. \A d \in Ids : Others(d)'
    BY <1>11, <2>1, <2>2 DEF Toggle, TypeOK, Others, Phased, AboutUid, AboutSomebody, Told
  <2>5. IndexesExact'
    BY <1>11, <2>1, <2>2 DEF Toggle, TypeOK, IndexesExact, Registered
  <2> QED BY <2>3, <2>4, <2>5
<1>12. ASSUME NEW c \in Ids, Leave(c) PROVE IInv'
  <2>1. conns[c] \in Subscription /\ conns[c] # Absent
    BY <1>12 DEF Leave, Reading, Others, Phased, TypeOK
  <2>2. /\ conns' = [conns EXCEPT ![c] = Absent]
        /\ byUid' = Unindex(byUid, c, conns[c].uid)
        /\ byCallsign' = Unindex(byCallsign, c, conns[c].callsign)
        /\ UNCHANGED <<replay, map, reports>>
    BY <1>12 DEF Leave, Unregister
  <2>3. /\ byUid' \in [Uids -> SUBSET Ids]
        /\ \A v \in Uids, d \in Ids :
              d \in byUid'[v] <=> d \in byUid[v] /\ ~(v = conns[c].uid /\ d = c)
    BY <2>2, UnindexRemoves DEF TypeOK
  <2>4. /\ byCallsign' \in [Names -> SUBSET Ids]
        /\ \A k \in Names, d \in Ids :
              d \in byCallsign'[k] <=>
                  d \in byCallsign[k] /\ ~(k = conns[c].callsign /\ d = c)
    BY <2>2, UnindexRemoves DEF TypeOK
  <2>5. /\ routing' \in [Ids -> Routing \cup {Idle}]
        /\ \A d \in Ids : AboutUid(d)' /\ AboutSomebody(d)'
    <3>1. CASE conns[c].uid = NoUid
      BY <1>12, <3>1 DEF Leave, Unregister, TypeOK, Others, AboutUid, AboutSomebody
    <3>2. CASE conns[c].uid # NoUid
      <4>1. routing' = [routing EXCEPT ![c] =
                Message("notice", NoName, conns[c].uid, 0, "uid", {})]
        BY <1>12, <3>2 DEF Leave, Unregister
      <4>2. conns[c].uid \in Uids /\ 0 \in Numbers
        BY <2>1, <3>2, HubConstants DEF Subscription, Numbers
      <4> QED BY <4>1, <4>2, MessageParts, MessageMoves
    <3> QED BY <3>1, <3>2
  <2>6. TypeOK'
    BY <1>12, <2>2, <2>3, <2>4, <2>5 DEF Leave, Unregister, TypeOK
  <2>7. \A d \in Ids : Others(d)'
    BY <1>12, <2>1, <2>2, <2>5
    DEF Leave, Unregister, Subscription, TypeOK, Others, Phased, Told
  <2>8. IndexesExact'
    <3>1. \A d \in Ids : conns'[d] = IF d = c THEN Absent ELSE conns[d]
      BY <2>2 DEF TypeOK
    <3>2. \A v \in Uids, d \in Ids :
              d \in byUid'[v] <=> Registered(d)' /\ conns'[d].uid = v
      BY <2>1, <2>3, <3>1 DEF IndexesExact, Registered
    <3>3. \A k \in Names, d \in Ids :
              d \in byCallsign'[k] <=> Registered(d)' /\ conns'[d].callsign = k
      BY <2>1, <2>4, <3>1 DEF IndexesExact, Registered
    <3> QED BY <3>2, <3>3, <2>6 DEF IndexesExact, TypeOK
  <2> QED BY <2>6, <2>7, <2>8
<1> QED
  BY <1>1, <1>2, <1>3, <1>4, <1>5, <1>6, <1>7, <1>8, <1>9, <1>10, <1>11, <1>12 DEF Next

(* The invariant holds in every reachable state.                             *)
LEMMA Inductive == Spec => []IInv
<1>1. Init => IInv
  BY InitHolds
<1>2. IInv /\ [Next]_vars => IInv'
  BY NextKeeps
<1> QED BY <1>1, <1>2, PTL DEF Spec

-----------------------------------------------------------------------------
(* The registry, its indexes and what every task holds are well typed         *)
(* (hub.rs, registry.rs, router.rs), for any number of connections.           *)
THEOREM TypeCorrect == Spec => []TypeOK
<1>1. IInv => TypeOK
  BY DEF IInv
<1> QED BY <1>1, Inductive, PTL

(* The uid and callsign indexes hold exactly the registered connections that    *)
(* carry each name (registry.rs index, reindex, unindex), after any sequence    *)
(* of reports, renames and departures.                                       *)
THEOREM IndexesAreExact == Spec => []IndexesExact
<1>1. IInv => IndexesExact
  BY DEF IInv
<1> QED BY <1>1, Inductive, PTL

(* A chat is handed back as undeliverable only when nobody the sender may reach  *)
(* carries the uid, or the callsign alone, it was addressed to (hub.rs resolve,  *)
(* router.rs bounce).                                                          *)
THEOREM BouncesAreTruthful == Spec => []BouncedOnlyIfAbsent
<1>1. IInv => BouncedOnlyIfAbsent
  <2> SUFFICES ASSUME IInv, NEW c \in Ids, NEW n \in Ids,
                      Bounces(c), Registered(n), <<c, n>> \in Sees
               PROVE  IF routing[c].uid = NoUid
                      THEN conns[n].callsign # routing[c].callsign
                      ELSE conns[n].uid # routing[c].uid
    BY DEF BouncedOnlyIfAbsent
  <2>1. /\ routing[c].kind = "chat" /\ Found(c) = {}
        /\ routing[c].stage = "callsign" => routing[c].callsign \in Names
        /\ routing[c].stage = "uid" => routing[c].uid \in Uids
    BY DEF Bounces, LookingUp, Recipients, IInv, Others, AboutSomebody
  <2>2. CASE routing[c].uid = NoUid
    <3>1. routing[c].stage = "callsign"
      <4>1. routing[c].stage \in {"callsign", "uid"}
        BY DEF Bounces, LookingUp, IInv, TypeOK, Routing
      <4> QED BY <2>1, <2>2, <4>1, HubConstants
    <3>2. Resolve(byCallsign, c, routing[c].callsign) = {}
      BY <2>1, <3>1 DEF Found
    <3>3. n \notin byCallsign[routing[c].callsign]
      BY <2>1, <3>1, <3>2 DEF Resolve, IInv, TypeOK
    <3> QED BY <2>1, <2>2, <3>1, <3>3 DEF IInv, IndexesExact
  <2>3. CASE routing[c].uid # NoUid
    <3>1. routing[c].stage = "uid"
      BY <2>3 DEF Bounces, LastLookUp
    <3>2. Resolve(byUid, c, routing[c].uid) = {}
      BY <2>1, <3>1 DEF Found
    <3>3. n \notin byUid[routing[c].uid]
      BY <2>1, <3>1, <3>2 DEF Resolve, IInv, TypeOK
    <3> QED BY <2>1, <2>3, <3>1, <3>3 DEF IInv, IndexesExact
  <2> QED BY <2>2, <2>3
<1> QED BY <1>1, Inductive, PTL

-----------------------------------------------------------------------------
\* The uids a connection may speak of: its device's, and those devices relay.
Speaks(c) == {UidOf[c]} \cup Relayed

\* What a connection says of whom: itself, or a uid that is relayed.
Honest(c) ==
    /\ conns[c] # Absent =>
          /\ conns[c].uid \in {NoUid} \cup Speaks(c)
          /\ c \notin Shy => ~conns[c].incognito

\* A report is routed by a connection that is there, and a notice by one that has gone.
InTurn(c) ==
    routing[c] # Idle =>
        /\ routing[c].kind = "report" =>
              /\ phase[c] \in {"open", "short"} /\ routing[c].n # 0
              /\ routing[c].uid \in Speaks(c) /\ routing[c].stage # "callsign"
        /\ routing[c].kind = "notice" =>
              phase[c] = "leaving" /\ routing[c].n = 0 /\ routing[c].uid \in Speaks(c)

\* A snapshot holds reports.
Snapped(c) == \A r \in replay[c] : r[3] # 0

\* Nobody who has gone had spoken of p's uid.
Alone(p) ==
    \A q \in Ids : phase[q] \in {"leaving", "gone"} =>
        conns[p].uid # UidOf[q] /\ conns[p].uid \notin Relayed

\* n is to show p's device.
Due(n, p) ==
    /\ n # p /\ phase[n] \in {"replaying", "open"}
    /\ Registered(p) /\ p \notin Shy /\ conns[p].latest # 0 /\ <<p, n>> \in Sees
    /\ Alone(p)

\* p's report about itself has yet to be sent to n.
OnItsWay(n, p) ==
    /\ routing[p] # Idle /\ routing[p].kind = "report" /\ routing[p].uid = conns[p].uid
    /\ routing[p].stage = "uid" \/ n \in routing[p].to

\* n shows p's device, or will: from its snapshot, or from p's report.
Covered(n, p) ==
    \/ map[n][conns[p].uid] # 0
    \/ phase[n] = "replaying" /\ \E r \in replay[n] : r[2] = conns[p].uid
    \/ OnItsWay(n, p)

Sound == \A c \in Ids : Honest(c) /\ InTurn(c) /\ Snapped(c)
Filled == \A n, p \in Ids : Due(n, p) => Covered(n, p)

Telling == Sound /\ Filled

(* What a message is put together from.                                       *)
LEMMA MessageIs ==
    ASSUME NEW kind, NEW callsign, NEW uid, NEW n, NEW stage, NEW to
    PROVE  LET m == Message(kind, callsign, uid, n, stage, to) IN
           /\ m.kind = kind /\ m.uid = uid /\ m.n = n /\ m.stage = stage /\ m.to = to
  BY DEF Message

(* A message that is taken up, or moved on, is one.                            *)
LEMMA MessageIsOne ==
    /\ \A u \in Uids, n \in Numbers : Message("report", NoName, u, n, "uid", {}) # Idle
    /\ \A m \in Routing, to \in SUBSET Ids :
          Message(m.kind, m.callsign, m.uid, m.n, "send", to) # Idle
<1>1. ASSUME NEW u \in Uids, NEW n \in Numbers
      PROVE  Message("report", NoName, u, n, "uid", {}) \in Routing
  BY DEF Message, Routing
<1>2. ASSUME NEW m \in Routing, NEW to \in SUBSET Ids
      PROVE  Message(m.kind, m.callsign, m.uid, m.n, "send", to) \in Routing
  BY DEF Message, Routing
<1> QED BY <1>1, <1>2, NotAMessage

(* A step of c's task alters nothing of the others but what they show.           *)
LEMMA Apart ==
    ASSUME IInv, NEW c \in Ids,
           \/ Register(c) \/ Snapshot(c) \/ ReplayNext(c) \/ StartReading(c)
           \/ \E u \in Uids, callsign \in Names : Report(c, u, callsign)
           \/ \E to \in Addresses : Chat(c, to[1], to[2])
           \/ Choose(c) \/ Sent(c) \/ Toggle(c) \/ Leave(c)
           \/ \E n \in Ids : Send(c, n)
    PROVE  \A d \in Ids \ {c} :
              /\ conns'[d] = conns[d] /\ phase'[d] = phase[d]
              /\ replay'[d] = replay[d] /\ routing'[d] = routing[d]
<1> USE DEF IInv, TypeOK
<1>1. CASE Register(c) \/ Snapshot(c) \/ ReplayNext(c) \/ StartReading(c)
  BY <1>1 DEF Register, Snapshot, ReplayNext, StartReading
<1>2. ASSUME NEW u \in Uids, NEW callsign \in Names, Report(c, u, callsign)
      PROVE  \A d \in Ids \ {c} : /\ conns'[d] = conns[d] /\ phase'[d] = phase[d]
                                  /\ replay'[d] = replay[d] /\ routing'[d] = routing[d]
  BY <1>2 DEF Report
<1>3. CASE Choose(c) \/ Sent(c) \/ Toggle(c)
  BY <1>3 DEF Choose, Sent, Toggle
<1>4. CASE Leave(c)
  BY <1>4 DEF Leave, Unregister
<1>5. CASE (\E to \in Addresses : Chat(c, to[1], to[2])) \/ (\E n \in Ids : Send(c, n))
  BY <1>5 DEF Chat, Send
<1> QED BY <1>1, <1>2, <1>3, <1>4, <1>5

(* The invariant holds where the server starts.                              *)
LEMMA TellingInit == Init => Telling
  BY DEF Init, Telling, Sound, Honest, InTurn, Snapped, Filled, Due, Registered

(* Only c's own part is left to show, where c alone has moved.                 *)
LEMMA SoundAlone ==
    ASSUME Sound, NEW c \in Ids, Honest(c)', InTurn(c)', Snapped(c)',
           \A d \in Ids \ {c} :
              /\ conns'[d] = conns[d] /\ phase'[d] = phase[d]
              /\ replay'[d] = replay[d] /\ routing'[d] = routing[d]
    PROVE  Sound'
  BY DEF Sound, Honest, InTurn, Snapped

(* Connections speak of themselves and of relayed uids, and routing follows         *)
(* their phase (router.rs handle_inbound, notify.rs on_disconnect).             *)
LEMMA SoundKeeps ==
    ASSUME IInv, Sound, NEW c \in Ids,
           \/ Register(c) \/ Snapshot(c) \/ ReplayNext(c) \/ StartReading(c)
           \/ \E u \in Uids, callsign \in Names : Report(c, u, callsign)
           \/ \E to \in Addresses : Chat(c, to[1], to[2])
           \/ Choose(c) \/ Sent(c) \/ Toggle(c) \/ Leave(c)
           \/ \E n \in Ids : Send(c, n)
    PROVE  Sound'
<1> USE DEF IInv, TypeOK
<1>0. SUFFICES Honest(c)' /\ InTurn(c)' /\ Snapped(c)'
  BY Apart, SoundAlone
<1>1. Honest(c) /\ InTurn(c) /\ Snapped(c) /\ Phased(c)
  BY DEF Sound, Others
<1>2. CASE Register(c)
  <2>1. PICK incognito \in BOOLEAN :
            /\ c \notin Shy => incognito = FALSE
            /\ conns' = [conns EXCEPT ![c] = [uid |-> NoUid, callsign |-> NoName,
                                             latest |-> 0, incognito |-> incognito]]
    BY <1>2 DEF Register
  <2>2. conns'[c].uid = NoUid /\ (c \notin Shy => ~conns'[c].incognito)
    BY <2>1
  <2>3. phase[c] = "new" /\ UNCHANGED <<replay, routing>>
    BY <1>2 DEF Register
  <2> QED BY <1>1, <2>2, <2>3 DEF Honest, InTurn, Snapped
<1>3. CASE Snapshot(c)
  <2>1. Snapped(c)'
    <3> SUFFICES ASSUME NEW r \in LatestFor(c) PROVE r[3] # 0
      BY <1>3 DEF Snapshot, Snapped
    <3>1. PICK q \in Ids : conns[q].latest # 0 /\ r = <<q, conns[q].uid, conns[q].latest>>
      BY DEF LatestFor
    <3> QED BY <3>1
  <2> QED BY <1>1, <1>3, <2>1 DEF Snapshot, Honest, InTurn
<1>4. CASE ReplayNext(c)
  <2>1. replay'[c] \subseteq replay[c]
    BY <1>4 DEF ReplayNext
  <2> QED BY <1>1, <1>4, <2>1 DEF ReplayNext, Honest, InTurn, Snapped
<1>5. CASE StartReading(c)
  BY <1>1, <1>5 DEF StartReading, Honest, InTurn, Snapped
<1>6. ASSUME NEW u \in Uids, NEW callsign \in Names, Report(c, u, callsign)
      PROVE  Honest(c)' /\ InTurn(c)' /\ Snapped(c)'
  <2> DEFINE m == Message("report", NoName, u, reports + 1, "uid", {})
  <2>1. /\ m.kind = "report" /\ m.n = reports + 1 /\ m.uid = u /\ m.stage = "uid"
    BY MessageIs
  <2>2. routing'[c] = m
    BY <1>6 DEF Report
  <2> HIDE DEF m
  <2>3. reports + 1 # 0 /\ u \in Speaks(c)
    BY <1>6 DEF Report, Numbers, Speaks
  <2>4. phase'[c] \in {"open", "short"}
    BY <1>6 DEF Report, Reading
  <2>5. InTurn(c)'
    BY <2>1, <2>2, <2>3, <2>4 DEF InTurn, Speaks
  <2>6. /\ conns'[c].uid = IF conns[c].uid = NoUid THEN u ELSE conns[c].uid
        /\ conns'[c].incognito = FALSE
        /\ conns[c] # Absent
    BY <1>1, <1>6 DEF Report, Reading, Identified, Phased
  <2>7. Honest(c)'
    BY <1>1, <2>3, <2>6 DEF Honest, Speaks
  <2> QED BY <1>1, <1>6, <2>5, <2>7 DEF Report, Snapped
<1>7. ASSUME NEW to \in Addresses, Chat(c, to[1], to[2])
      PROVE  Honest(c)' /\ InTurn(c)' /\ Snapped(c)'
  <2>1. routing'[c].kind = "chat"
    BY <1>7, MessageIs DEF Chat
  <2> QED BY <1>1, <1>7, <2>1 DEF Chat, Honest, InTurn, Snapped
<1>8. CASE Choose(c) \/ \E n \in Ids : Send(c, n)
  <2>1. /\ routing[c] # Idle
        /\ UNCHANGED <<conns, phase, replay>>
        /\ \E stage \in {"uid", "send"} : \E to :
              routing'[c] = Message(routing[c].kind, routing[c].callsign, routing[c].uid,
                                    routing[c].n, stage, to)
    <3>1. CASE Choose(c)
      <4>1. routing'[c] =
                Message(routing[c].kind, routing[c].callsign, routing[c].uid,
                        routing[c].n, IF LastLookUp(c) THEN "send" ELSE "uid",
                        Recipients(c))
        BY <1>1, <3>1 DEF Choose
      <4>2. (IF LastLookUp(c) THEN "send" ELSE "uid") \in {"uid", "send"}
        OBVIOUS
      <4> QED BY <3>1, <4>1, <4>2, Zenon DEF Choose, LookingUp
    <3>2. ASSUME NEW n \in Ids, Send(c, n)
          PROVE  /\ routing[c] # Idle
                 /\ UNCHANGED <<conns, phase, replay>>
                 /\ \E stage \in {"uid", "send"} : \E to :
                       routing'[c] = Message(routing[c].kind, routing[c].callsign,
                                             routing[c].uid, routing[c].n, stage, to)
      <4>1. routing'[c] =
                Message(routing[c].kind, routing[c].callsign, routing[c].uid,
                        routing[c].n, "send", routing[c].to \ {n})
        BY <1>1, <3>2 DEF Send
      <4> QED BY <3>2, <4>1, Zenon DEF Send, Sending
    <3> QED BY <1>8, <3>1, <3>2
  <2>2. /\ routing'[c].kind = routing[c].kind /\ routing'[c].uid = routing[c].uid
        /\ routing'[c].n = routing[c].n /\ routing'[c].stage # "callsign"
    BY <2>1, MessageIs
  <2> QED BY <1>1, <2>1, <2>2 DEF Honest, InTurn, Snapped, Speaks
<1>9. CASE Sent(c)
  BY <1>1, <1>9 DEF Sent, Honest, InTurn, Snapped
<1>10. CASE Toggle(c)
  BY <1>1, <1>10 DEF Toggle, Reading, Phased, Honest, InTurn, Snapped
<1>11. CASE Leave(c)
  <2>1. conns'[c] = Absent /\ replay' = replay
    BY <1>11 DEF Leave, Unregister
  <2>2. CASE conns[c].uid = NoUid
    BY <1>1, <1>11, <2>1, <2>2 DEF Leave, Unregister, Honest, InTurn, Snapped
  <2>3. CASE conns[c].uid # NoUid
    <3> DEFINE m == Message("notice", NoName, conns[c].uid, 0, "uid", {})
    <3>1. m.kind = "notice" /\ m.n = 0 /\ m.uid = conns[c].uid
      BY MessageIs
    <3>2. routing'[c] = m /\ phase'[c] = "leaving"
      BY <1>11, <2>3 DEF Leave, Unregister
    <3> HIDE DEF m
    <3>3. conns[c].uid \in Speaks(c)
      BY <1>1, <1>11, <2>3 DEF Leave, Reading, Phased, Honest
    <3> QED BY <1>1, <2>1, <3>1, <3>2, <3>3 DEF Honest, InTurn, Snapped, Speaks
  <2> QED BY <2>2, <2>3
<1> QED
  BY <1>2, <1>3, <1>4, <1>5, <1>6, <1>7, <1>8, <1>9, <1>10, <1>11

(* A connection that has gone stays gone, so who may speak of a uid only grows less.  *)
LEMMA AloneBefore ==
    ASSUME NEW p \in Ids, Alone(p)', conns'[p].uid = conns[p].uid,
           \A q \in Ids : phase[q] \in {"leaving", "gone"} => phase'[q] \in {"leaving", "gone"}
    PROVE  Alone(p)
  BY DEF Alone

(* Nobody's departure is undone.                                              *)
LEMMA GoneStays ==
    ASSUME IInv, NEW c \in Ids,
           \/ Register(c) \/ Snapshot(c) \/ ReplayNext(c) \/ StartReading(c)
           \/ \E u \in Uids, callsign \in Names : Report(c, u, callsign)
           \/ \E to \in Addresses : Chat(c, to[1], to[2])
           \/ Choose(c) \/ Sent(c) \/ Toggle(c) \/ Leave(c)
           \/ \E n \in Ids : Send(c, n)
    PROVE  \A q \in Ids : phase[q] \in {"leaving", "gone"} => phase'[q] \in {"leaving", "gone"}
<1>1. phase[c] \in {"leaving", "gone"} => phase'[c] \in {"leaving", "gone"}
  BY DEF IInv, TypeOK, Register, Snapshot, ReplayNext, StartReading, Report, Chat, Choose, Sent,
         Toggle, Leave, Unregister, Send, Reading
<1> QED BY <1>1, Apart

(* Whoever is due to show a device shows it, or will: the steps of one task, for      *)
(* one pair of connections.                                                  *)
LEMMA FilledKeeps ==
    ASSUME IInv, Sound, Filled, NEW c \in Ids,
           \/ Register(c) \/ Snapshot(c) \/ ReplayNext(c) \/ StartReading(c)
           \/ \E u \in Uids, callsign \in Names : Report(c, u, callsign)
           \/ \E to \in Addresses : Chat(c, to[1], to[2])
           \/ Choose(c) \/ Sent(c) \/ Toggle(c) \/ Leave(c)
           \/ \E n \in Ids : Send(c, n),
           NEW n \in Ids, NEW p \in Ids, Due(n, p)'
    PROVE  Covered(n, p)'
<1> USE DEF IInv, TypeOK
<1>1. \A d \in Ids \ {c} : /\ conns'[d] = conns[d] /\ phase'[d] = phase[d]
                            /\ replay'[d] = replay[d] /\ routing'[d] = routing[d]
  BY Apart
<1>2. conns'[p].uid = conns[p].uid => Alone(p)
  BY GoneStays, AloneBefore DEF Due
<1>3. /\ n # p /\ phase'[n] \in {"replaying", "open"} /\ conns'[p] # Absent /\ p \notin Shy
      /\ conns'[p].latest # 0 /\ <<p, n>> \in Sees
  BY DEF Due, Registered
<1>4. ASSUME UNCHANGED <<conns, map>>, routing'[p] = routing[p],
             replay'[n] = replay[n], phase'[n] = phase[n]
      PROVE  Covered(n, p)'
  BY <1>2, <1>3, <1>4 DEF Filled, Due, Registered, Covered, OnItsWay
<1>5. CASE Register(c)
  <2>1. conns'[c].latest = 0 /\ phase'[c] = "joined"
    BY <1>5 DEF Register
  <2>2. p # c /\ n # c
    BY <1>3, <2>1
  <2> QED
    BY <1>1, <1>2, <1>3, <1>5, <2>2 DEF Register, Filled, Due, Registered, Covered, OnItsWay
<1>6. CASE Snapshot(c)
  <2>1. UNCHANGED <<conns, routing, map>>
    BY <1>6 DEF Snapshot
  <2>2. CASE n = c
    <3>1. phase'[n] = "replaying" /\ replay'[n] = LatestFor(n)
      BY <1>6, <2>2 DEF Snapshot
    <3>2. ~conns[p].incognito /\ Registered(p) /\ conns[p].latest # 0
      BY <1>3, <2>1 DEF Sound, Honest, Registered
    <3>3. <<p, conns[p].uid, conns[p].latest>> \in LatestFor(n)
      BY <1>3, <3>2 DEF LatestFor
    <3> QED BY <2>1, <3>1, <3>3 DEF Covered
  <2>3. CASE n # c
    BY <1>1, <1>4, <2>1, <2>3
  <2> QED BY <2>2, <2>3
<1>7. CASE ReplayNext(c)
  <2>1. PICK report \in replay[c] :
            /\ replay' = [replay EXCEPT ![c] = replay[c] \ {report}]
            /\ map' = [map EXCEPT ![c][report[2]] = report[3]]
    BY <1>7 DEF ReplayNext
  <2>2. UNCHANGED <<conns, phase, routing>> /\ phase[c] = "replaying"
    BY <1>7 DEF ReplayNext
  <2>3. Covered(n, p)
    BY <1>2, <1>3, <2>2 DEF Filled, Due, Registered
  <2>4. CASE n = c
    <3>1. report[2] \in Uids /\ report[3] # 0
      BY <2>1 DEF Sound, Snapped
    <3>2. \A u \in Uids : map'[n][u] = IF u = report[2] THEN report[3] ELSE map[n][u]
      BY <2>1, <2>4, <3>1
    <3>3. conns[p].uid \in Uids
      BY <1>3, <2>2 DEF Others, Told
    <3> QED
      BY <2>1, <2>2, <2>3, <2>4, <3>1, <3>2, <3>3 DEF Covered, OnItsWay
  <2>5. CASE n # c
    BY <1>1, <2>1, <2>2, <2>3, <2>5 DEF Covered, OnItsWay
  <2> QED BY <2>4, <2>5
<1>8. CASE StartReading(c)
  <2>1. UNCHANGED <<conns, routing, map>>
    BY <1>8 DEF StartReading
  <2>2. CASE n = c
    <3>1. phase[n] = "replaying" /\ replay[n] = {} /\ phase'[n] = "open"
      BY <1>3, <1>8, <2>2 DEF StartReading
    <3>2. Covered(n, p)
      BY <1>2, <1>3, <2>1, <3>1 DEF Filled, Due, Registered
    <3> QED BY <2>1, <3>1, <3>2 DEF Covered, OnItsWay
  <2>3. CASE n # c
    BY <1>1, <1>4, <2>1, <2>3
  <2> QED BY <2>2, <2>3
<1>9. ASSUME NEW u \in Uids, NEW callsign \in Names, Report(c, u, callsign)
      PROVE  Covered(n, p)'
  <2>1. UNCHANGED <<phase, replay, map>> /\ routing[c] = Idle
    BY <1>9 DEF Report, Reading
  <2>2. CASE p # c
    <3>1. Covered(n, p)
      BY <1>1, <1>2, <1>3, <2>1, <2>2 DEF Filled, Due, Registered
    <3> QED BY <1>1, <2>1, <2>2, <3>1 DEF Covered, OnItsWay
  <2>3. CASE p = c
    <3> DEFINE m == Message("report", NoName, u, reports + 1, "uid", {})
    <3>1. /\ m.kind = "report" /\ m.uid = u /\ m.stage = "uid" /\ m # Idle
      <4>1. reports + 1 \in Numbers
        BY <1>9, HubConstants DEF Report, Numbers
      <4>2. m # Idle
        BY <4>1, MessageIsOne
      <4>3. m.kind = "report" /\ m.uid = u /\ m.stage = "uid"
        BY MessageIs
      <4> QED BY <4>2, <4>3
    <3>2. routing'[p] = m
      BY <1>9, <2>3 DEF Report
    <3> HIDE DEF m
    <3>3. /\ conns[p] # Absent
          /\ conns'[p].uid = IF conns[p].uid = NoUid THEN u ELSE conns[p].uid
          /\ u # conns'[p].uid => conns'[p].latest = conns[p].latest
      BY <1>9, <2>3 DEF Report, Reading, Identified, Others, Phased
    <3>4. CASE u = conns'[p].uid
      BY <3>1, <3>2, <3>4 DEF Covered, OnItsWay
    <3>5. CASE u # conns'[p].uid
      <4>1. conns'[p].uid = conns[p].uid /\ conns'[p].latest = conns[p].latest
        BY <3>3, <3>5
      <4>2. Covered(n, p)
        BY <1>2, <1>3, <2>1, <3>3, <4>1 DEF Filled, Due, Registered
      <4> QED BY <2>1, <2>3, <4>1, <4>2 DEF Covered, OnItsWay
    <3> QED BY <3>4, <3>5
  <2> QED BY <2>2, <2>3
<1>10. ASSUME NEW to \in Addresses, Chat(c, to[1], to[2])
       PROVE  Covered(n, p)'
  <2>1. UNCHANGED <<conns, phase, replay, map>> /\ routing[c] = Idle
    BY <1>10 DEF Chat, Reading
  <2>2. Covered(n, p)
    BY <1>2, <1>3, <2>1 DEF Filled, Due, Registered
  <2> QED BY <1>1, <2>1, <2>2 DEF Covered, OnItsWay
<1>11. CASE Choose(c)
  <2>1. UNCHANGED <<conns, phase, replay, map>> /\ LookingUp(c)
    BY <1>11 DEF Choose
  <2>2. Covered(n, p)
    BY <1>2, <1>3, <2>1 DEF Filled, Due, Registered
  <2>3. ASSUME OnItsWay(n, p), p = c PROVE OnItsWay(n, p)'
    <3>1. routing[c].kind = "report" /\ routing[c].uid = conns[c].uid
      BY <2>3 DEF OnItsWay
    <3>2. routing[c].stage = "uid"
      <4>1. routing[c].stage \in {"callsign", "uid"}
        BY <2>1 DEF LookingUp, Routing
      <4> QED BY <2>1, <3>1, <4>1 DEF LookingUp, Sound, InTurn
    <3>3. n \in Recipients(c)
      <4>1. conns[n] # Absent
        BY <1>3, <2>1 DEF Others, Phased
      <4>2. n \in ReachableFrom(c)
        BY <1>3, <2>3, <4>1 DEF ReachableFrom, Registered
      <4> QED BY <3>1, <4>2 DEF Recipients, Found
    <3> DEFINE m == Message(routing[c].kind, routing[c].callsign, routing[c].uid,
                            routing[c].n, "send", Recipients(c))
    <3>4. routing'[c] = m
      BY <1>11, <3>2 DEF Choose, LastLookUp
    <3>5. m.kind = "report" /\ m.uid = conns[c].uid /\ n \in m.to /\ m # Idle
      <4>1. /\ routing[c] \in Routing
        BY <2>1 DEF LookingUp
      <4>2. Recipients(c) \in SUBSET Ids
        BY <4>1 DEF Recipients, Found, Resolve, ReachableFrom, Routing
      <4>4. m # Idle
        BY <4>1, <4>2, MessageIsOne
      <4>5. m.kind = "report" /\ m.uid = conns[c].uid /\ n \in m.to
        BY <3>1, <3>3, MessageIs
      <4> QED BY <4>4, <4>5
    <3> HIDE DEF m
    <3> QED BY <2>1, <2>3, <3>4, <3>5 DEF OnItsWay
  <2>4. ASSUME OnItsWay(n, p), p # c PROVE OnItsWay(n, p)'
    BY <1>1, <2>1, <2>4 DEF OnItsWay
  <2> QED BY <2>1, <2>2, <2>3, <2>4 DEF Covered
<1>12. ASSUME NEW d \in Ids, Send(c, d) PROVE Covered(n, p)'
  <2>1. UNCHANGED <<conns, phase, replay>> /\ Sending(c) /\ d \in routing[c].to
    BY <1>12 DEF Send
  <2>2. Covered(n, p) /\ Alone(p)
    BY <1>2, <1>3, <2>1 DEF Filled, Due, Registered
  <2>3. routing[c] \in Routing /\ conns[p].uid \in Uids
    BY <1>3, <2>1 DEF Sending, Others, Told
  <2>4. map[n][conns[p].uid] # 0 => map'[n][conns[p].uid] # 0
    <3>1. CASE routing[c].kind = "chat"
      BY <1>12, <3>1 DEF Send
    <3>2. CASE routing[c].kind # "chat"
      <4>1. map' = [map EXCEPT ![d][routing[c].uid] = routing[c].n]
        BY <1>12, <3>2 DEF Send
      <4>2. routing[c].n = 0 => routing[c].uid # conns[p].uid
        BY <2>1, <2>2, <2>3, <3>2 DEF Sending, Routing, Sound, InTurn, Speaks, Alone
      <4> QED BY <4>1, <4>2
    <3> QED BY <3>1, <3>2
  <2>5. ASSUME OnItsWay(n, p), p = c PROVE Covered(n, p)'
    <3>1. routing[c].kind = "report" /\ routing[c].uid = conns[p].uid /\ n \in routing[c].to
      BY <2>1, <2>5 DEF OnItsWay, Sending
    <3>2. CASE d = n
      <4>1. map' = [map EXCEPT ![n][conns[p].uid] = routing[c].n]
        BY <1>12, <3>1, <3>2 DEF Send
      <4>2. routing[c].n # 0
        BY <2>1, <3>1 DEF Sending, Sound, InTurn
      <4>3. map'[n][conns[p].uid] = routing[c].n
        BY <2>3, <4>1
      <4> QED BY <2>1, <4>2, <4>3 DEF Covered
    <3>3. CASE d # n
      <4> DEFINE m == Message(routing[c].kind, routing[c].callsign, routing[c].uid,
                              routing[c].n, "send", routing[c].to \ {d})
      <4>1. routing'[c] = m
        BY <1>12 DEF Send
      <4>4. routing[c].to \ {d} \in SUBSET Ids
        BY <2>3 DEF Routing
      <4>2. m # Idle
        BY <2>3, <4>4, MessageIsOne
      <4>3. m.kind = "report" /\ m.uid = conns[p].uid /\ n \in m.to
        BY <3>1, <3>3, MessageIs
      <4> HIDE DEF m
      <4> QED BY <2>1, <2>5, <4>1, <4>2, <4>3 DEF Covered, OnItsWay
    <3> QED BY <3>2, <3>3
  <2>6. ASSUME OnItsWay(n, p), p # c PROVE OnItsWay(n, p)'
    BY <1>1, <2>1, <2>6 DEF OnItsWay
  <2> QED BY <2>1, <2>2, <2>4, <2>5, <2>6 DEF Covered
<1>13. CASE Sent(c)
  <2>1. UNCHANGED <<conns, replay, map>> /\ Sending(c) /\ routing[c].to = {}
    BY <1>13 DEF Sent
  <2>2. phase'[n] = phase[n]
    BY <1>3, <1>13 DEF Sent
  <2>3. Covered(n, p)
    BY <1>2, <1>3, <2>1, <2>2 DEF Filled, Due, Registered
  <2>4. p = c => ~OnItsWay(n, p)
    BY <2>1 DEF OnItsWay, Sending
  <2> QED BY <1>1, <2>1, <2>2, <2>3, <2>4 DEF Covered, OnItsWay
<1>14. CASE Toggle(c)
  <2>1. UNCHANGED <<phase, replay, routing, map>> /\ p # c
    BY <1>3, <1>14 DEF Toggle
  <2> QED
    BY <1>1, <1>2, <1>3, <2>1 DEF Filled, Due, Registered, Covered, OnItsWay
<1>15. CASE Leave(c)
  <2>1. UNCHANGED <<replay, map>> /\ conns'[c] = Absent /\ phase'[c] \in {"leaving", "gone"}
    BY <1>15 DEF Leave, Unregister
  <2>2. p # c /\ n # c
    BY <1>3, <2>1
  <2> QED
    BY <1>1, <1>2, <1>3, <2>1, <2>2 DEF Filled, Due, Registered, Covered, OnItsWay
<1> QED
  BY <1>5, <1>6, <1>7, <1>8, <1>9, <1>10, <1>11, <1>12, <1>13, <1>14, <1>15

(* Every step keeps what is told: one task moves.                               *)
LEMMA TellingKeeps == IInv /\ Telling /\ [Next]_vars => Telling'
<1> SUFFICES ASSUME IInv, Telling, [Next]_vars PROVE Telling'
    OBVIOUS
<1>1. CASE UNCHANGED vars
  BY <1>1
  DEF vars, Telling, Sound, Honest, InTurn, Snapped, Filled, Due, Registered, Alone, Covered, OnItsWay
<1>2. CASE Next
  BY <1>2, SoundKeeps, FilledKeeps DEF Next, Telling, Filled
<1> QED BY <1>1, <1>2

(* A client whose replay was completed shows every peer it may see that has said        *)
(* where it is (connection.rs run, replay.rs), for any number of connections, but      *)
(* where the departure of an older connection may have taken the uid off again.        *)
THEOREM MapsAreFilled == Spec => []MapIsFilled
<1>1. IInv /\ Telling => MapIsFilled
  <2> SUFFICES ASSUME IInv, Telling, NEW n \in Ids, NEW p \in Ids,
                      n # p, phase[n] = "open", Registered(p), p \notin Shy,
                      conns[p].latest # 0, routing[p] = Idle, <<p, n>> \in Sees, Alone(p)
               PROVE  map[n][conns[p].uid] # 0
    BY DEF MapIsFilled, Alone
  <2>1. Covered(n, p)
    BY DEF Telling, Filled, Due
  <2> QED BY <2>1 DEF Covered, OnItsWay
<1> QED BY <1>1, TellingInit, TellingKeeps, Inductive, PTL DEF Spec

(* A uid comes onto a map from a snapshot, or while a client that reports for it is      *)
(* connected (connection.rs run, notify.rs on_disconnect).                      *)
THEOREM NobodyAppearsAbsent == Spec => AppearsConnected
<1> DEFINE Step == \A n \in Ids, u \in Uids :
                      map[n][u] = 0 /\ map'[n][u] # 0 =>
                          \/ \E p \in Ids : Registered(p) /\ (u = UidOf[p] \/ u \in Relayed)
                          \/ \E r \in replay[n] : r[2] = u
<1>1. IInv /\ Telling /\ [Next]_vars => [Step]_vars
  <2> SUFFICES ASSUME IInv, Telling, Next, NEW n \in Ids, NEW u \in Uids,
                      map[n][u] = 0, map'[n][u] # 0
               PROVE  \/ \E p \in Ids : Registered(p) /\ (u = UidOf[p] \/ u \in Relayed)
                      \/ \E r \in replay[n] : r[2] = u
    OBVIOUS
  <2> USE DEF IInv, TypeOK
  <2>1. \/ \E c \in Ids : ReplayNext(c)
        \/ \E c, d \in Ids : Send(c, d)
    BY DEF Next, Register, Snapshot, StartReading, Report, Chat, Choose, Sent, Toggle, Leave, Unregister
  <2>2. ASSUME NEW c \in Ids, ReplayNext(c) PROVE \E r \in replay[n] : r[2] = u
    BY <2>2 DEF ReplayNext
  <2>3. ASSUME NEW c \in Ids, NEW d \in Ids, Send(c, d)
        PROVE  Registered(c) /\ (u = UidOf[c] \/ u \in Relayed)
    <3>1. /\ routing[c] # Idle /\ routing[c].kind # "chat"
          /\ map' = [map EXCEPT ![d][routing[c].uid] = routing[c].n]
      BY <2>3 DEF Send, Sending
    <3>2. u = routing[c].uid /\ routing[c].n # 0
      BY <3>1
    <3>3. routing[c].kind = "report"
      BY <3>1, <3>2 DEF Telling, Sound, InTurn, Routing
    <3> QED BY <3>1, <3>2, <3>3 DEF Telling, Sound, InTurn, Speaks, Others, Phased, Registered
  <2> QED BY <2>1, <2>2, <2>3
<1>2. AppearsConnected <=> [][Step]_vars
  BY DEF AppearsConnected
<1> QED BY <1>1, <1>2, TellingInit, TellingKeeps, Inductive, PTL DEF Spec
=============================================================================
