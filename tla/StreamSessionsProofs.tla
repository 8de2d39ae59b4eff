------------------------ MODULE StreamSessionsProofs ------------------------
(***************************************************************************)
(* A withdrawal that is done leaves open only the connections that were      *)
(* being admitted while it was written, for any number of attempts,          *)
(* certificates and concurrent requests.                                    *)
(***************************************************************************)
EXTENDS StreamSessions, TLAPS

\* An attempt that is past a right which is withdrawn was there when it was.
Admitting(s) ==
    /\ phase[s] \in Past.certificate /\ cert[s] \in revokedRows => "certificate" \in crossed[s]
    /\ phase[s] \in Past.account /\ disabled => "account" \in crossed[s]

\* A revocation under way has written its row.
Written(c) == revoking[c] # "idle" => c \in revokedRows

IInv ==
    /\ TypeOK
    /\ \A s \in Sessions : Admitting(s)
    /\ \A c \in Certs : Written(c)
    /\ RevokedIsClosed /\ DisabledIsClosed

(* Marking the attempts a withdrawal crossed keeps every earlier mark, and      *)
(* marks all that are past the right.                                        *)
LEMMA CrossingMarks ==
    ASSUME NEW right \in Rights, NEW some \in SUBSET Sessions,
           crossed \in [Sessions -> SUBSET Rights]
    PROVE  LET marked == Crossing(right, some) IN
           /\ marked \in [Sessions -> SUBSET Rights]
           /\ \A s \in Sessions : crossed[s] \subseteq marked[s]
           /\ \A s \in some : phase[s] \in Past[right] => right \in marked[s]
  BY DEF Crossing, Rights

(* A change of channels marks whoever is past reading them, and whoever an earlier *)
(* answer is still on its way to.                                             *)
LEMMA ChangeMarks ==
    ASSUME NEW a \in Admins, ChangeChannels(a), crossed \in [Sessions -> SUBSET Rights]
    PROVE  /\ crossed' \in [Sessions -> SUBSET Rights]
           /\ \A s \in Sessions : crossed[s] \subseteq crossed'[s]
           /\ \A s \in Sessions :
                 phase[s] = "granted" \/ s \in Answered => "channels" \in crossed'[s]
<1> DEFINE marked == Crossing("channels", Sessions)
<1>1. /\ marked \in [Sessions -> SUBSET Rights]
      /\ \A s \in Sessions : crossed[s] \subseteq marked[s]
      /\ \A s \in Sessions : phase[s] = "granted" => "channels" \in marked[s]
  BY CrossingMarks DEF Rights, Past
<1>2. crossed' = [s \in Sessions |-> IF s \in Answered THEN crossed[s] \cup {"channels"}
                                    ELSE marked[s]]
  BY DEF ChangeChannels
<1> HIDE DEF marked
<1> QED
  BY <1>1, <1>2 DEF Rights

(* Closing connections changes the phase of open ones alone (subscription.rs     *)
(* close).                                                                   *)
LEMMA ClosingTyped ==
    ASSUME TypeOK, NEW some \in SUBSET Sessions
    PROVE  /\ Closing(some) \in [Sessions -> {"new", "shaken", "certified", "admitted",
                                              "granted", "open", "closing", "gone"}]
           /\ \A s \in Sessions :
                 /\ Closing(some)[s] = "open" => phase[s] = "open" /\ s \notin some
                 /\ Closing(some)[s] \in Past.certificate => phase[s] = Closing(some)[s]
  BY DEF Closing, TypeOK, Past

(* An attempt that ends is gone, and the others are as they were (hub.rs            *)
(* unregister).                                                              *)
LEMMA EndingEndsThese ==
    ASSUME TypeOK, NEW some \in SUBSET Sessions, End(some)
    PROVE  /\ phase' \in [Sessions -> {"new", "shaken", "certified", "admitted", "granted",
                                       "open", "closing", "gone"}]
           /\ cert' \in [Sessions -> Certs \cup {NoCert}]
           /\ held' \in [Sessions -> Selections]
           /\ crossed' \in [Sessions -> SUBSET Rights]
           /\ \A s \in Sessions :
                 IF s \in some THEN phase'[s] = "gone"
                 ELSE /\ phase'[s] = phase[s] /\ cert'[s] = cert[s]
                      /\ held'[s] = held[s] /\ crossed'[s] = crossed[s]
<1>1. 0 \in Selections
  BY SessionConstants DEF Selections
<1> QED
  BY <1>1 DEF End, TypeOK, Rights

(* The invariant holds where the server starts.                              *)
LEMMA InitHolds == Init => IInv
<1> SUFFICES ASSUME Init PROVE IInv
    OBVIOUS
<1>1. Nothing \in Request /\ 0 \in Selections
  BY SessionConstants DEF Nothing, Request, Selections
<1>2. TypeOK
  BY <1>1 DEF Init, TypeOK, Rights
<1> QED
  BY <1>2 DEF Init, IInv, Admitting, Written, Past, RevokedIsClosed, DisabledIsClosed

(* An attempt moves on or ends: nothing is withdrawn.                          *)
LEMMA AttemptsKeep ==
    ASSUME IInv, NEW s \in Sessions, Admission(s) \/ Leave(s)
    PROVE  IInv'
<1> USE DEF IInv
<1>1. ASSUME NEW c \in Certs, Handshake(s, c) PROVE IInv'
  BY <1>1, SessionConstants
  DEF Handshake, Move, rows, TypeOK, Admitting, Written, Past, RevokedIsClosed, DisabledIsClosed, Doing
<1>2. CASE ReadCertificate(s)
  <2>1. CASE End({s})
    BY <1>2, <2>1, EndingEndsThese
    DEF ReadCertificate, rows, TypeOK, Admitting, Written, Past, RevokedIsClosed, DisabledIsClosed, Doing
  <2>2. CASE ~End({s})
    BY <1>2, <2>2
    DEF ReadCertificate, Move, rows, TypeOK, Admitting, Written, Past, RevokedIsClosed, DisabledIsClosed, Doing
  <2> QED BY <2>1, <2>2
<1>3. CASE ReadAccount(s)
  <2>1. CASE End({s})
    BY <1>3, <2>1, EndingEndsThese
    DEF ReadAccount, rows, TypeOK, Admitting, Written, Past, RevokedIsClosed, DisabledIsClosed, Doing
  <2>2. CASE ~End({s})
    BY <1>3, <2>2
    DEF ReadAccount, Move, rows, TypeOK, Admitting, Written, Past, RevokedIsClosed, DisabledIsClosed, Doing
  <2> QED BY <2>1, <2>2
<1>4. CASE ReadChannels(s)
  BY <1>4
  DEF ReadChannels, Move, rows, TypeOK, Admitting, Written, Past, RevokedIsClosed, DisabledIsClosed, Doing
<1>5. CASE Refuse(s)
  BY <1>5, EndingEndsThese
  DEF Refuse, rows, TypeOK, Admitting, Written, Past, RevokedIsClosed, DisabledIsClosed, Doing
<1>6. CASE Register(s)
  BY <1>6
  DEF Register, Move, rows, TypeOK, Admitting, Written, Past, RevokedIsClosed, DisabledIsClosed, Doing
<1>7. CASE Leave(s)
  BY <1>7, EndingEndsThese
  DEF Leave, rows, TypeOK, Admitting, Written, Past, RevokedIsClosed, DisabledIsClosed, Doing
<1> QED
  BY <1>1, <1>2, <1>3, <1>4, <1>5, <1>6, <1>7 DEF Admission

(* A revocation marks whom it crosses when it writes the row, and closes the      *)
(* rest before it is done.                                                    *)
LEMMA RevocationKeeps ==
    ASSUME IInv, NEW c \in Certs, WriteRevocation(c) \/ Revocation(c)
    PROVE  IInv'
<1> USE DEF IInv
<1>1. CASE WriteRevocation(c)
  <2> DEFINE its == {s \in Sessions : cert[s] = c}
  <2>1. /\ revoking' = [revoking EXCEPT ![c] = "written"]
        /\ revokedRows' = revokedRows \cup {c}
        /\ crossed' = IF c \in revokedRows THEN crossed ELSE Crossing("certificate", its)
        /\ UNCHANGED <<cache, disabled, channels, phase, cert, held, request>>
    BY <1>1 DEF WriteRevocation, attempts
  <2>2. /\ crossed' \in [Sessions -> SUBSET Rights]
        /\ \A s \in Sessions : crossed[s] \subseteq crossed'[s]
        /\ c \notin revokedRows =>
              \A s \in its : phase[s] \in Past.certificate => "certificate" \in crossed'[s]
    BY <2>1, CrossingMarks DEF TypeOK, Rights
  <2>3. TypeOK'
    BY <2>1, <2>2 DEF TypeOK
  <2>4. \A s \in Sessions : Admitting(s)'
    BY <2>1, <2>2 DEF Admitting
  <2>5. RevokedIsClosed' /\ DisabledIsClosed'
    BY <2>1, <2>2 DEF TypeOK, Written, RevokedIsClosed, DisabledIsClosed, Doing
  <2>6. \A d \in Certs : Written(d)'
    BY <2>1 DEF TypeOK, Written
  <2> QED BY <2>3, <2>4, <2>5, <2>6
<1>2. CASE NoteRevoked(c)
  <2>1. c \in revokedRows
    BY <1>2 DEF NoteRevoked, Written
  <2> QED
    BY <1>2, <2>1
    DEF NoteRevoked, attempts, TypeOK, Admitting, Written, Past, RevokedIsClosed, DisabledIsClosed, Doing
<1>3. CASE CloseSessions(c)
  <2> DEFINE its == {s \in Sessions : cert[s] = c}
  <2>1. /\ revoking' = [revoking EXCEPT ![c] = "idle"]
        /\ phase' = Closing(its)
        /\ UNCHANGED <<revokedRows, cache, disabled, channels, cert, held, request, crossed>>
    BY <1>3 DEF CloseSessions, rows
  <2>2. TypeOK'
    BY <2>1, ClosingTyped DEF TypeOK
  <2>3. \A s \in Sessions : phase'[s] = "open" => phase[s] = "open" /\ cert[s] # c
    BY <2>1, ClosingTyped
  <2>4. \A s \in Sessions : phase'[s] \in Past.certificate => phase'[s] = phase[s]
    BY <2>1, ClosingTyped
  <2>5. \A s \in Sessions : Admitting(s)'
    BY <2>1, <2>4 DEF Admitting, Past
  <2>6. RevokedIsClosed' /\ DisabledIsClosed'
    BY <2>1, <2>3 DEF TypeOK, RevokedIsClosed, DisabledIsClosed, Doing
  <2>7. \A d \in Certs : Written(d)'
    BY <2>1 DEF TypeOK, Written
  <2> QED BY <2>2, <2>5, <2>6, <2>7
<1> QED
  BY <1>1, <1>2, <1>3 DEF Revocation

(* What one request does to itself leaves the rest of what requests do typed.     *)
LEMMA BecomeTyped ==
    ASSUME TypeOK, NEW a \in Admins, NEW what \in {"nothing", "ending", "listing", "visiting"},
           NEW left \in SUBSET Sessions, NEW at \in Sessions \cup {Nobody},
           NEW answer \in Selections, Become(a, what, left, at, answer)
    PROVE  /\ request' \in [Admins -> Request]
           /\ \A b \in Admins : request'[b].doing = IF b = a THEN what ELSE request[b].doing
  BY DEF Become, TypeOK, Request

(* A request marks whom it crosses when it writes, and closes the rest before it is*)
(* done (identity/sessions.rs end_all).                                      *)
LEMMA RequestsKeep ==
    ASSUME IInv, NEW a \in Admins,
           Disable(a) \/ EndAll(a) \/ Enable(a) \/ ChangeChannels(a) \/ Visiting(a)
    PROVE  IInv'
<1> USE DEF IInv
<1>0. 0 \in Selections
  BY SessionConstants DEF Selections
<1>1. CASE Disable(a)
  <2>1. /\ Become(a, "ending", {}, Nobody, 0)
        /\ disabled' = TRUE
        /\ crossed' = IF disabled THEN crossed ELSE Crossing("account", Sessions)
        /\ UNCHANGED <<revokedRows, cache, channels, phase, cert, held, revoking>>
    BY <1>1 DEF Disable, attempts
  <2>2. /\ request' \in [Admins -> Request] /\ request'[a].doing = "ending"
    BY <1>0, <2>1, BecomeTyped
  <2>3. /\ crossed' \in [Sessions -> SUBSET Rights]
        /\ \A s \in Sessions : crossed[s] \subseteq crossed'[s]
        /\ ~disabled =>
              \A s \in Sessions : phase[s] \in Past.account => "account" \in crossed'[s]
    BY <2>1, CrossingMarks DEF TypeOK, Rights
  <2>4. TypeOK'
    BY <2>1, <2>2, <2>3 DEF TypeOK
  <2>5. \A s \in Sessions : Admitting(s)'
    BY <2>1, <2>3 DEF Admitting
  <2>6. RevokedIsClosed' /\ DisabledIsClosed'
    BY <2>1, <2>2, <2>3 DEF RevokedIsClosed, DisabledIsClosed, Doing
  <2>7. \A d \in Certs : Written(d)'
    BY <2>1 DEF Written
  <2> QED BY <2>4, <2>5, <2>6, <2>7
<1>2. CASE EndAll(a)
  <2>1. /\ Become(a, "nothing", {}, Nobody, 0)
        /\ phase' = Closing(Sessions)
        /\ UNCHANGED <<revokedRows, cache, disabled, channels, cert, held, revoking, crossed>>
    BY <1>2 DEF EndAll, rows
  <2>2. request' \in [Admins -> Request]
    BY <1>0, <2>1, BecomeTyped
  <2>3. TypeOK'
    BY <2>1, <2>2, ClosingTyped DEF TypeOK
  <2>4. \A s \in Sessions : phase'[s] # "open"
    BY <2>1, ClosingTyped
  <2>5. \A s \in Sessions : phase'[s] \in Past.certificate => phase'[s] = phase[s]
    BY <2>1, ClosingTyped
  <2>6. \A s \in Sessions : Admitting(s)'
    BY <2>1, <2>5 DEF Admitting, Past
  <2>7. \A d \in Certs : Written(d)'
    BY <2>1 DEF Written
  <2> QED BY <2>3, <2>4, <2>6, <2>7 DEF RevokedIsClosed, DisabledIsClosed
<1>3. CASE Enable(a)
  BY <1>3 DEF Enable, attempts, TypeOK, Admitting, Written, RevokedIsClosed, DisabledIsClosed, Doing
<1>4. CASE ChangeChannels(a)
  <2>1. /\ Become(a, "listing", {}, Nobody, 0)
        /\ channels < MaxChanges /\ channels' = channels + 1
        /\ UNCHANGED <<revokedRows, cache, disabled, phase, cert, held, revoking>>
        /\ request[a].doing = "nothing"
    BY <1>4 DEF ChangeChannels, attempts, Doing
  <2>2. /\ request' \in [Admins -> Request]
        /\ \A b \in Admins : request'[b].doing = "ending" <=> request[b].doing = "ending"
    BY <1>0, <2>1, BecomeTyped
  <2>3. /\ crossed' \in [Sessions -> SUBSET Rights]
        /\ \A s \in Sessions : crossed[s] \subseteq crossed'[s]
    BY <1>4, ChangeMarks DEF TypeOK
  <2>4. channels' \in Selections
    BY <2>1, SessionConstants DEF TypeOK, Selections
  <2> QED
    BY <2>1, <2>2, <2>3, <2>4
    DEF TypeOK, Admitting, Written, RevokedIsClosed, DisabledIsClosed, Doing
<1>5. CASE Visiting(a)
  <2>1. PICK left \in SUBSET Sessions, at \in Sessions \cup {Nobody}, answer \in Selections,
             what \in {"nothing", "visiting"} : Become(a, what, left, at, answer)
    <3>1. request[a] \in Request
      BY DEF TypeOK
    <3>2. CASE ListSessions(a)
      BY <1>0, <3>2 DEF ListSessions
    <3>3. CASE Reauth(a)
      BY <1>0, <3>1, <3>3 DEF Reauth, Request
    <3>4. CASE Visited(a)
      BY <1>0, <3>4 DEF Visited
    <3>5. ASSUME NEW s \in Sessions, ReadAgain(a, s) \/ ReadFails(a, s)
          PROVE  \E l \in SUBSET Sessions, t \in Sessions \cup {Nobody}, n \in Selections :
                    Become(a, "visiting", l, t, n)
      BY <1>0, <3>1, <3>5 DEF ReadAgain, ReadFails, Request, TypeOK
    <3> QED BY <1>5, <3>2, <3>3, <3>4, <3>5 DEF Visiting
  <2>2. request[a].doing \in {"listing", "visiting"}
    BY <1>5 DEF Visiting, ListSessions, Reauth, Visited, ReadAgain, ReadFails, Doing
  <2>3. /\ request' \in [Admins -> Request]
        /\ \A b \in Admins : request'[b].doing = "ending" <=> request[b].doing = "ending"
    BY <2>1, <2>2, BecomeTyped
  <2>4. UNCHANGED <<revokedRows, cache, disabled, channels, phase, cert, revoking>>
    BY <1>5 DEF Visiting, ListSessions, Reauth, Visited, ReadAgain, ReadFails, rows, attempts
  <2>5. /\ crossed' \in [Sessions -> SUBSET Rights]
        /\ \A s \in Sessions : crossed[s] \subseteq crossed'[s]
    <3>1. ASSUME NEW s \in Sessions, ReadFails(a, s)
          PROVE  /\ crossed' \in [Sessions -> SUBSET Rights]
                 /\ \A t \in Sessions : crossed[t] \subseteq crossed'[t]
      BY <3>1 DEF ReadFails, TypeOK, Rights
    <3>2. CASE UNCHANGED crossed
      BY <3>2 DEF TypeOK
    <3> QED
      BY <1>5, <3>1, <3>2 DEF Visiting, ListSessions, Reauth, Visited, ReadAgain
  <2>6. held' \in [Sessions -> Selections]
    BY <1>5
    DEF Visiting, ListSessions, Reauth, Visited, ReadAgain, ReadFails, attempts, TypeOK, Request
  <2> QED
    BY <2>3, <2>4, <2>5, <2>6
    DEF TypeOK, Admitting, Written, RevokedIsClosed, DisabledIsClosed, Doing
<1> QED
  BY <1>1, <1>2, <1>3, <1>4, <1>5

(* Every step keeps the invariant: one case per action.                      *)
LEMMA NextKeeps == IInv /\ [Next]_vars => IInv'
<1> SUFFICES ASSUME IInv, [Next]_vars PROVE IInv'
    OBVIOUS
<1>1. CASE UNCHANGED vars
  BY <1>1
  DEF vars, rows, attempts, IInv, TypeOK, Admitting, Written, RevokedIsClosed, DisabledIsClosed, Doing
<1>2. CASE \E s \in Sessions : Admission(s) \/ Leave(s)
  BY <1>2, AttemptsKeep
<1>3. CASE \E c \in Certs : WriteRevocation(c) \/ Revocation(c)
  BY <1>3, RevocationKeeps
<1>4. CASE \E a \in Admins :
              Disable(a) \/ EndAll(a) \/ Enable(a) \/ ChangeChannels(a) \/ Visiting(a)
  BY <1>4, RequestsKeep
<1>5. CASE Restart
  <2>1. Nothing \in Request
    BY SessionConstants DEF Nothing, Request, Selections
  <2>2. End({s \in Sessions : phase[s] # "new"})
    BY <1>5 DEF Restart
  <2>3. \A s \in Sessions : phase'[s] \in {"new", "gone"}
    BY <2>2, EndingEndsThese DEF IInv
  <2>4. TypeOK'
    BY <1>5, <2>1, <2>2, EndingEndsThese DEF Restart, IInv, TypeOK
  <2> QED
    BY <1>5, <2>3, <2>4
    DEF Restart, IInv, Admitting, Written, Past, RevokedIsClosed, DisabledIsClosed
<1> QED
  BY <1>1, <1>2, <1>3, <1>4, <1>5 DEF Next

(* The invariant holds in every reachable state.                             *)
LEMMA Inductive == Spec => []IInv
<1> QED BY InitHolds, NextKeeps, PTL DEF Spec

-----------------------------------------------------------------------------
(* Rows, cache, attempts and requests are well typed, and the cache refuses       *)
(* nothing the rows do not revoke (pki/revoke.rs), for any number of each.      *)
THEOREM TypeCorrect == Spec => []TypeOK
<1>1. IInv => TypeOK
  BY DEF IInv
<1> QED BY <1>1, Inductive, PTL

(* A revocation that is done leaves open only a connection that had read its       *)
(* certificate's row, and was not registered, when the row was written           *)
(* (pki/revoke.rs revoke, resolver.rs resolve).                                *)
THEOREM RevocationCloses == Spec => []RevokedIsClosed
<1>1. IInv => RevokedIsClosed
  BY DEF IInv
<1> QED BY <1>1, Inductive, PTL

(* An account that is switched off leaves open only a connection that had read     *)
(* the account, and was not registered, when it was written (identity/sessions.rs  *)
(* end_all, web/api/users.rs patch), whatever other requests do meanwhile.       *)
THEOREM DisablingCloses == Spec => []DisabledIsClosed
<1>1. IInv => DisabledIsClosed
  BY DEF IInv
<1> QED BY <1>1, Inductive, PTL

-----------------------------------------------------------------------------
(* A change of channels that is under way owes a visit to the connections it has   *)
(* not looked at, and to the one whose answer it holds.                        *)
Owes(a, s) ==
    \/ Doing(a, "listing")
    \/ Doing(a, "visiting") /\ (s \in request[a].left \/ request[a].at = s)

\* Either a connection is routed by the selection in force, or it is one of the
\* exceptions, or somebody owes it a visit.
Routed(s) ==
    \/ held[s] = channels
    \/ "channels" \in crossed[s]
    \/ phase[s] = "open" /\ \E a \in Admins : Owes(a, s)

\* An answer on its way to a connection is today's, or came before a change.
Fresh(a, s) ==
    phase[s] = "open" /\ request[a].at = s =>
        request[a].answer = channels \/ "channels" \in crossed[s]

\* A change only visits connections that were registered.
Listed(a, s) ==
    s \in request[a].left \/ request[a].at = s => phase[s] \in {"open", "closing", "gone"}

Settled ==
    /\ \A s \in Sessions : phase[s] \in {"granted", "open"} => Routed(s)
    /\ \A a \in Admins, s \in Sessions : Fresh(a, s) /\ Listed(a, s)

(* Nobody is connected at the start.                                         *)
LEMMA InitSettled == Init => Settled
  BY SessionConstants DEF Init, Settled, Fresh, Listed, Nothing

(* Where neither the channels nor a request change, and a connection that is         *)
(* granted or open now was so before, with the same rights and marks, it is still    *)
(* settled: what most steps leave to show.                                     *)
LEMMA OthersSettle ==
    ASSUME Settled, UNCHANGED <<channels, request>>,
           \A s \in Sessions :
              /\ phase'[s] \in {"granted", "open"} =>
                    /\ phase[s] = phase'[s] /\ held'[s] = held[s]
                    /\ crossed[s] \subseteq crossed'[s]
              /\ phase[s] \in {"open", "closing", "gone"} =>
                    phase'[s] \in {"open", "closing", "gone"}
    PROVE  Settled'
  BY DEF Settled, Routed, Fresh, Listed, Owes, Doing

(* A connection is registered with what it read, and an attempt that reads reads     *)
(* the selection in force (resolver.rs resolve).                               *)
LEMMA AttemptsSettle ==
    ASSUME IInv, Settled, NEW s \in Sessions, Admission(s) \/ Leave(s)
    PROVE  Settled'
<1> USE DEF IInv
<1>1. UNCHANGED <<channels, request>>
  BY DEF Admission, Handshake, ReadCertificate, ReadAccount, ReadChannels, Refuse, Register,
         Leave, rows
<1>2. CASE End({s})
  BY <1>1, <1>2, EndingEndsThese, OthersSettle
<1>3. CASE ReadChannels(s)
  <2>1. /\ phase' = [phase EXCEPT ![s] = "granted"] /\ phase[s] = "admitted"
        /\ held' = [held EXCEPT ![s] = channels]
        /\ crossed' = crossed
    BY <1>3 DEF ReadChannels, Move
  <2>2. \A t \in Sessions : t # s => phase'[t] = phase[t] /\ held'[t] = held[t]
    BY <2>1 DEF TypeOK
  <2>3. phase'[s] = "granted" /\ held'[s] = channels
    BY <2>1 DEF TypeOK
  <2> QED
    BY <1>1, <2>1, <2>2, <2>3 DEF Settled, Routed, Fresh, Listed, Owes, Doing
<1>4. CASE Register(s)
  <2>1. /\ phase' = [phase EXCEPT ![s] = "open"] /\ phase[s] = "granted"
        /\ UNCHANGED <<held, crossed>>
    BY <1>4 DEF Register, Move
  <2>2. \A t \in Sessions : t # s => phase'[t] = phase[t]
    BY <2>1 DEF TypeOK
  <2>3. phase'[s] = "open" /\ (held[s] = channels \/ "channels" \in crossed[s])
    BY <2>1 DEF TypeOK, Settled, Routed
  <2>4. \A a \in Admins : Fresh(a, s)'
    BY <1>1, <2>1 DEF Settled, Fresh, Listed
  <2> QED
    BY <1>1, <2>1, <2>2, <2>3, <2>4 DEF Settled, Routed, Fresh, Listed, Owes, Doing
<1>5. CASE (\E c \in Certs : Handshake(s, c)) \/ ((ReadCertificate(s) \/ ReadAccount(s)) /\ ~End({s}))
  <2>1. /\ \A t \in Sessions : t # s => phase'[t] = phase[t]
        /\ phase[s] \in {"new", "shaken", "certified"} /\ phase'[s] \in {"shaken", "certified", "admitted"}
        /\ UNCHANGED <<held, crossed>>
    BY <1>5 DEF Handshake, ReadCertificate, ReadAccount, Move, TypeOK
  <2> QED
    BY <1>1, <2>1, OthersSettle
<1> QED
  BY <1>2, <1>3, <1>4, <1>5 DEF Admission, Refuse, Leave

(* Taking a certificate back changes no channels and opens nothing.              *)
LEMMA RevocationSettles ==
    ASSUME IInv, Settled, NEW c \in Certs, WriteRevocation(c) \/ Revocation(c)
    PROVE  Settled'
<1> USE DEF IInv
<1>1. CASE WriteRevocation(c)
  <2>1. \A s \in Sessions : crossed[s] \subseteq crossed'[s]
    BY <1>1, CrossingMarks DEF WriteRevocation, TypeOK, Rights
  <2> QED
    BY <1>1, <2>1, OthersSettle DEF WriteRevocation, attempts
<1>2. CASE NoteRevoked(c)
  BY <1>2, OthersSettle DEF NoteRevoked, attempts
<1>3. CASE CloseSessions(c)
  <2>1. UNCHANGED <<channels, request, held, crossed>> /\ phase' = Closing({s \in Sessions : cert[s] = c})
    BY <1>3 DEF CloseSessions, rows
  <2>2. \A s \in Sessions : phase'[s] = phase[s] \/ (phase[s] = "open" /\ phase'[s] = "closing")
    BY <2>1 DEF Closing
  <2> QED
    BY <2>1, <2>2, OthersSettle
<1> QED
  BY <1>1, <1>2, <1>3 DEF Revocation

(* A request that only switches the account off or on owes nobody a visit, before    *)
(* or after.                                                                 *)
LEMMA SwitchingSettles ==
    ASSUME IInv, Settled, NEW a \in Admins, Disable(a) \/ EndAll(a) \/ Enable(a)
    PROVE  Settled'
<1> USE DEF IInv
<1>1. channels' = channels /\ held' = held
  BY DEF Disable, EndAll, Enable, rows, attempts
<1>2. \A s \in Sessions : crossed[s] \subseteq crossed'[s]
  BY CrossingMarks DEF Disable, EndAll, Enable, TypeOK, Rights
<1>3. \A s \in Sessions : phase'[s] = phase[s] \/ (phase[s] = "open" /\ phase'[s] = "closing")
  BY DEF Disable, EndAll, Enable, attempts, Closing, TypeOK
<1>4. CASE Enable(a)
  BY <1>1, <1>2, <1>3, <1>4, OthersSettle DEF Enable
<1>5. CASE Disable(a) \/ EndAll(a)
  <2>1. request[a].doing \notin {"listing", "visiting"}
    BY <1>5 DEF Disable, EndAll, Doing
  <2>2. /\ request'[a].doing \notin {"listing", "visiting"}
        /\ request'[a].left = {} /\ request'[a].at = Nobody
        /\ \A b \in Admins : b # a => request'[b] = request[b]
    BY <1>5 DEF Disable, EndAll, Become, TypeOK
  <2>3. \A b \in Admins, s \in Sessions : Owes(b, s)' <=> Owes(b, s)
    BY <2>1, <2>2 DEF Owes, Doing
  <2>4. \A s \in Sessions : phase'[s] \in {"granted", "open"} => Routed(s)'
    BY <1>1, <1>2, <1>3, <2>3 DEF Settled, Routed
  <2>5. \A b \in Admins, s \in Sessions : Fresh(b, s)' /\ Listed(b, s)'
    BY <1>1, <1>2, <1>3, <2>2, SessionConstants DEF Settled, Fresh, Listed
  <2> QED BY <2>4, <2>5 DEF Settled
<1> QED BY <1>4, <1>5

(* A change owes every connection a visit, and marks those that are beyond its       *)
(* reach (identity/members.rs channels_changed).                               *)
LEMMA ChangeSettles ==
    ASSUME IInv, Settled, NEW a \in Admins, ChangeChannels(a)
    PROVE  Settled'
<1> USE DEF IInv
<1>1. /\ request'[a].doing = "listing" /\ request'[a].left = {} /\ request'[a].at = Nobody
      /\ \A b \in Admins : b # a => request'[b] = request[b]
      /\ UNCHANGED <<phase, held>>
  BY DEF ChangeChannels, attempts, Become, TypeOK
<1>2. \A s \in Sessions : phase[s] = "granted" \/ s \in Answered => "channels" \in crossed'[s]
  BY ChangeMarks DEF TypeOK
<1>3. \A s \in Sessions : phase'[s] \in {"granted", "open"} => Routed(s)'
  BY <1>1, <1>2 DEF Routed, Owes, Doing
<1>4. \A b \in Admins, s \in Sessions : Fresh(b, s)'
  <2> SUFFICES ASSUME NEW b \in Admins, NEW s \in Sessions, request'[b].at = s
               PROVE  "channels" \in crossed'[s]
    BY DEF Fresh
  <2>1. b # a /\ request[b].at = s /\ s # Nobody
    BY <1>1, SessionConstants
  <2>2. s \in Answered
    BY <2>1 DEF Answered
  <2> QED BY <1>2, <2>2
<1>5. \A b \in Admins, s \in Sessions : Listed(b, s)'
  BY <1>1, SessionConstants DEF Settled, Listed
<1> QED BY <1>3, <1>4, <1>5 DEF Settled

(* A visit pays what is owed: the list names every open connection, and each is       *)
(* given an answer that is today's, or is marked (hub.rs reauth).                *)
LEMMA VisitsSettle ==
    ASSUME IInv, Settled, NEW a \in Admins, Visiting(a)
    PROVE  Settled'
<1> USE DEF IInv
<1>0. UNCHANGED <<channels, phase>>
  BY DEF Visiting, ListSessions, Reauth, Visited, ReadAgain, ReadFails, rows, attempts
<1>1. CASE ListSessions(a)
  <2>1. /\ request'[a].doing = "visiting" /\ request'[a].at = Nobody
        /\ request'[a].left = {s \in Sessions : Registered(s)}
        /\ \A b \in Admins : b # a => request'[b] = request[b]
        /\ UNCHANGED <<held, crossed>>
    BY <1>1 DEF ListSessions, attempts, Become, TypeOK
  <2>2. \A b \in Admins, s \in Sessions : phase[s] = "open" /\ Owes(b, s) => Owes(b, s)'
    BY <2>1 DEF Owes, Doing, Registered
  <2>3. \A s \in Sessions : phase'[s] \in {"granted", "open"} => Routed(s)'
    BY <1>0, <2>1, <2>2 DEF Settled, Routed
  <2>4. \A b \in Admins, s \in Sessions : Fresh(b, s)' /\ Listed(b, s)'
    BY <1>0, <2>1, SessionConstants DEF Settled, Fresh, Listed, Registered
  <2> QED BY <2>3, <2>4 DEF Settled
<1>2. ASSUME NEW s \in Sessions, ReadAgain(a, s) PROVE Settled'
  <2>1. /\ request'[a].doing = "visiting" /\ request'[a].at = s
        /\ request'[a].left = request[a].left \ {s} /\ request'[a].answer = channels
        /\ \A b \in Admins : b # a => request'[b] = request[b]
        /\ request[a].doing = "visiting" /\ request[a].at = Nobody /\ s \in request[a].left
        /\ UNCHANGED <<held, crossed>>
    BY <1>2 DEF ReadAgain, attempts, Doing, Become, TypeOK
  <2>2. \A b \in Admins, t \in Sessions : Owes(b, t) => Owes(b, t)'
    BY <2>1, SessionConstants DEF Owes, Doing
  <2>3. \A t \in Sessions : phase'[t] \in {"granted", "open"} => Routed(t)'
    BY <1>0, <2>1, <2>2 DEF Settled, Routed
  <2>4. \A b \in Admins, t \in Sessions : Fresh(b, t)' /\ Listed(b, t)'
    BY <1>0, <2>1 DEF Settled, Fresh, Listed
  <2> QED BY <2>3, <2>4 DEF Settled
<1>3. ASSUME NEW s \in Sessions, ReadFails(a, s) PROVE Settled'
  <2>1. /\ request'[a].doing = "visiting" /\ request'[a].at = Nobody
        /\ request'[a].left = request[a].left \ {s}
        /\ \A b \in Admins : b # a => request'[b] = request[b]
        /\ request[a].doing = "visiting" /\ request[a].at = Nobody
        /\ held' = held
    BY <1>3 DEF ReadFails, attempts, Doing, Become, TypeOK
  <2>2. /\ "channels" \in crossed'[s]
        /\ \A t \in Sessions : crossed[t] \subseteq crossed'[t]
    BY <1>3 DEF ReadFails, TypeOK
  <2>3. \A b \in Admins, t \in Sessions : t # s /\ Owes(b, t) => Owes(b, t)'
    BY <2>1, SessionConstants DEF Owes, Doing
  <2>4. \A t \in Sessions : phase'[t] \in {"granted", "open"} => Routed(t)'
    BY <1>0, <2>1, <2>2, <2>3 DEF Settled, Routed
  <2>5. \A b \in Admins, t \in Sessions : Fresh(b, t)' /\ Listed(b, t)'
    BY <1>0, <2>1, <2>2, SessionConstants DEF Settled, Fresh, Listed
  <2> QED BY <2>4, <2>5 DEF Settled
<1>4. CASE Reauth(a)
  <2> DEFINE s == request[a].at
  <2>1. /\ request'[a].doing = "visiting" /\ request'[a].at = Nobody
        /\ request'[a].left = request[a].left
        /\ \A b \in Admins : b # a => request'[b] = request[b]
        /\ request[a].doing = "visiting" /\ s # Nobody
        /\ held' = IF Registered(s) THEN [held EXCEPT ![s] = request[a].answer] ELSE held
        /\ UNCHANGED crossed
    BY <1>4 DEF Reauth, Doing, Become, TypeOK
  <2>2. s \in Sessions
    BY <2>1 DEF TypeOK, Request
  <2>3. \A t \in Sessions : t # s => held'[t] = held[t]
    BY <2>1, <2>2 DEF TypeOK
  <2>4. phase[s] = "open" => held'[s] = channels \/ "channels" \in crossed[s]
    BY <2>1, <2>2 DEF TypeOK, Settled, Fresh, Registered
  <2>5. phase[s] # "granted"
    BY <2>2 DEF Settled, Listed
  <2>6. \A b \in Admins, t \in Sessions : t # s /\ Owes(b, t) => Owes(b, t)'
    BY <2>1 DEF Owes, Doing
  <2>7. \A t \in Sessions : phase'[t] \in {"granted", "open"} => Routed(t)'
    BY <1>0, <2>1, <2>3, <2>4, <2>5, <2>6 DEF Settled, Routed
  <2>8. \A b \in Admins, t \in Sessions : Fresh(b, t)' /\ Listed(b, t)'
    BY <1>0, <2>1, SessionConstants DEF Settled, Fresh, Listed
  <2> QED BY <2>7, <2>8 DEF Settled
<1>5. CASE Visited(a)
  <2>1. /\ request'[a].left = {} /\ request'[a].at = Nobody
        /\ \A b \in Admins : b # a => request'[b] = request[b]
        /\ request[a].doing = "visiting" /\ request[a].at = Nobody /\ request[a].left = {}
        /\ UNCHANGED <<held, crossed>>
    BY <1>5 DEF Visited, attempts, Doing, Become, TypeOK
  <2>2. \A b \in Admins, t \in Sessions : Owes(b, t) => Owes(b, t)'
    BY <2>1, SessionConstants DEF Owes, Doing
  <2>3. \A t \in Sessions : phase'[t] \in {"granted", "open"} => Routed(t)'
    BY <1>0, <2>1, <2>2 DEF Settled, Routed
  <2>4. \A b \in Admins, t \in Sessions : Fresh(b, t)' /\ Listed(b, t)'
    BY <1>0, <2>1, SessionConstants DEF Settled, Fresh, Listed
  <2> QED BY <2>3, <2>4 DEF Settled
<1> QED
  BY <1>1, <1>2, <1>3, <1>4, <1>5 DEF Visiting

(* Every step keeps connections settled: one lemma per kind of step.         *)
LEMMA NextSettles == IInv /\ Settled /\ [Next]_vars => Settled'
<1> SUFFICES ASSUME IInv, Settled, [Next]_vars PROVE Settled'
    OBVIOUS
<1>1. CASE UNCHANGED vars
  BY <1>1, OthersSettle DEF vars, rows, attempts
<1>2. CASE Restart
  <2>1. TypeOK /\ End({s \in Sessions : phase[s] # "new"})
    BY <1>2 DEF Restart, IInv
  <2>2. \A s \in Sessions : phase'[s] \in {"new", "gone"}
    BY <2>1, EndingEndsThese
  <2>3. \A a \in Admins : request'[a].at = Nobody /\ request'[a].left = {}
    BY <1>2 DEF Restart, Nothing
  <2> QED
    BY <2>2, <2>3, SessionConstants DEF Settled, Fresh, Listed
<1> QED
  BY <1>1, <1>2, AttemptsSettle, RevocationSettles, SwitchingSettles, ChangeSettles, VisitsSettle
  DEF Next

(* A change of channels reaches every connection that is in the registry              *)
(* (identity/members.rs channels_changed), for any number of connections and of       *)
(* changes at once, but for one that was being admitted, whose rights could not be    *)
(* read, or that an earlier answer was on its way to.                           *)
THEOREM ChangesReach == Spec => []ChannelsSettle
<1>1. Settled => ChannelsSettle
  BY DEF Settled, Routed, Owes, ChannelsSettle
<1> QED BY <1>1, InitSettled, NextSettles, Inductive, PTL DEF Spec
=============================================================================
