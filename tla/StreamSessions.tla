--------------------------- MODULE StreamSessions ---------------------------
(***************************************************************************)
(* The rights of the stream's connections, and taking them back             *)
(* (rustak-server/src/stream: listener_tls.rs, resolver.rs, hub.rs;          *)
(* pki/revoke.rs, identity/sessions.rs, identity/members.rs).  A connection  *)
(* reads its certificate's row, its account and its channels one after the   *)
(* other, and only then registers; whoever withdraws one of them writes the  *)
(* row first and then visits the connections that are registered.            *)
(*                                                                         *)
(* Everything belongs to one account.  A channel selection is its number: a  *)
(* change makes the next one.                                               *)
(***************************************************************************)
EXTENDS Naturals, FiniteSets

CONSTANTS
    Sessions,      \* connection attempts
    Certs,         \* the account's certificates
    Admins,        \* requests that change the account, each one at a time
    MaxChanges,    \* bound: channel changes
    NoCert, Nobody

ASSUME SessionConstants ==
    MaxChanges \in Nat /\ NoCert \notin Certs /\ Nobody \notin Sessions

VARIABLES
    revokedRows,   \* certificates whose row says revoked
    cache,         \* certificates the listener refuses at the handshake
    disabled,      \* the account's row
    channels,      \* the selection in force
    phase, cert,   \* how far each attempt has come, and with which certificate
    held,          \* the selection a connection is routed by
    revoking,      \* how far the revocation of a certificate has come
    request,       \* what each administrator's request is doing
    crossed        \* history: what was withdrawn while an attempt was admitted

rows == <<revokedRows, cache, disabled, channels>>
attempts == <<phase, cert, held>>
vars == <<rows, attempts, revoking, request, crossed>>

Selections == 0..MaxChanges
Rights == {"certificate", "account", "channels"}

Request == [doing: {"nothing", "ending", "listing", "visiting"},
            left: SUBSET Sessions, at: Sessions \cup {Nobody}, answer: Selections]

TypeOK ==
    /\ revokedRows \subseteq Certs /\ cache \subseteq revokedRows
    /\ disabled \in BOOLEAN /\ channels \in Selections
    /\ phase \in [Sessions -> {"new", "shaken", "certified", "admitted", "granted",
                               "open", "closing", "gone"}]
    /\ cert \in [Sessions -> Certs \cup {NoCert}]
    /\ held \in [Sessions -> Selections]
    /\ revoking \in [Certs -> {"idle", "written", "noted"}]
    /\ request \in [Admins -> Request]
    /\ crossed \in [Sessions -> SUBSET Rights]

Nothing == [doing |-> "nothing", left |-> {}, at |-> Nobody, answer |-> 0]

Init ==
    /\ revokedRows = {} /\ cache = {} /\ disabled = FALSE /\ channels = 0
    /\ phase = [s \in Sessions |-> "new"]
    /\ cert = [s \in Sessions |-> NoCert]
    /\ held = [s \in Sessions |-> 0]
    /\ revoking = [c \in Certs |-> "idle"]
    /\ request = [a \in Admins |-> Nothing]
    /\ crossed = [s \in Sessions |-> {}]

\* What the registry lists: a connection that is closing is still in it.
Registered(s) == phase[s] \in {"open", "closing"}

\* Where an attempt is that has read a right and is not in the registry yet.
Past == [certificate |-> {"certified", "admitted", "granted"},
         account     |-> {"admitted", "granted"},
         channels    |-> {"granted"}]

Crossing(right, some) ==
    [s \in Sessions |->
        IF s \in some /\ phase[s] \in Past[right] THEN crossed[s] \cup {right} ELSE crossed[s]]

-----------------------------------------------------------------------------
(* Admission.                                                               *)

Move(s, from, to) == phase[s] = from /\ phase' = [phase EXCEPT ![s] = to]

\* An attempt that ends leaves nothing behind, refused or taken off the registry.
End(some) ==
    /\ phase' = [s \in Sessions |-> IF s \in some THEN "gone" ELSE phase[s]]
    /\ cert' = [s \in Sessions |-> IF s \in some THEN NoCert ELSE cert[s]]
    /\ held' = [s \in Sessions |-> IF s \in some THEN 0 ELSE held[s]]
    /\ crossed' = [s \in Sessions |-> IF s \in some THEN {} ELSE crossed[s]]

Handshake(s, c) ==
    /\ c \notin cache
    /\ Move(s, "new", "shaken")
    /\ cert' = [cert EXCEPT ![s] = c]
    /\ UNCHANGED <<rows, held, revoking, request, crossed>>

\* Mutant: what the handshake has checked is not checked again.
TrustHandshake(s) ==
    /\ Move(s, "shaken", "certified")
    /\ UNCHANGED <<rows, cert, held, revoking, request, crossed>>

ReadCertificate(s) ==
    /\ phase[s] = "shaken"
    /\ \/ cert[s] \in revokedRows /\ End({s})
       \/ /\ cert[s] \notin revokedRows /\ Move(s, "shaken", "certified")
          /\ UNCHANGED <<cert, held, crossed>>
    /\ UNCHANGED <<rows, revoking, request>>

\* Mutant: a good certificate is enough.
TrustCertificate(s) ==
    /\ Move(s, "certified", "admitted")
    /\ UNCHANGED <<rows, cert, held, revoking, request, crossed>>

ReadAccount(s) ==
    /\ phase[s] = "certified"
    /\ \/ disabled /\ End({s})
       \/ /\ ~disabled /\ Move(s, "certified", "admitted")
          /\ UNCHANGED <<cert, held, crossed>>
    /\ UNCHANGED <<rows, revoking, request>>

ReadChannels(s) ==
    /\ Move(s, "admitted", "granted")
    /\ held' = [held EXCEPT ![s] = channels]
    /\ UNCHANGED <<rows, cert, revoking, request, crossed>>

\* A read fails, or what was read does not agree.
Refuse(s) ==
    /\ phase[s] \in {"shaken", "certified", "admitted"}
    /\ End({s})
    /\ UNCHANGED <<rows, revoking, request>>

Register(s) ==
    /\ Move(s, "granted", "open")
    /\ UNCHANGED <<rows, cert, held, revoking, request, crossed>>

\* The client goes, or the connection's own task is done.
Leave(s) ==
    /\ Registered(s)
    /\ End({s})
    /\ UNCHANGED <<rows, revoking, request>>

Closing(some) == [s \in Sessions |-> IF s \in some /\ phase[s] = "open" THEN "closing" ELSE phase[s]]

-----------------------------------------------------------------------------
(* Taking a certificate back: the row, the cache, the hook.                  *)

WriteRevocation(c) ==
    /\ revoking[c] = "idle"
    /\ revoking' = [revoking EXCEPT ![c] = "written"]
    /\ revokedRows' = revokedRows \cup {c}
    /\ crossed' = IF c \in revokedRows THEN crossed
                  ELSE Crossing("certificate", {s \in Sessions : cert[s] = c})
    /\ UNCHANGED <<cache, disabled, channels, attempts, request>>

NoteRevoked(c) ==
    /\ revoking[c] = "written"
    /\ revoking' = [revoking EXCEPT ![c] = "noted"]
    /\ cache' = cache \cup {c}
    /\ UNCHANGED <<revokedRows, disabled, channels, attempts, request, crossed>>

\* Mutant: one connection per certificate is closed.
CloseOne(c) ==
    /\ revoking[c] = "noted"
    /\ revoking' = [revoking EXCEPT ![c] = "idle"]
    /\ LET its == {s \in Sessions : Registered(s) /\ cert[s] = c} IN
          IF its = {} THEN UNCHANGED phase ELSE \E s \in its : phase' = Closing({s})
    /\ UNCHANGED <<rows, cert, held, request, crossed>>

CloseSessions(c) ==
    /\ revoking[c] = "noted"
    /\ revoking' = [revoking EXCEPT ![c] = "idle"]
    /\ phase' = Closing({s \in Sessions : cert[s] = c})
    /\ UNCHANGED <<rows, cert, held, request, crossed>>

-----------------------------------------------------------------------------
(* Switching the account off, and on again.                                 *)

Doing(a, what) == request[a].doing = what

Become(a, what, left, at, answer) ==
    request' = [request EXCEPT ![a] = [doing |-> what, left |-> left,
                                       at |-> at, answer |-> answer]]

Disable(a) ==
    /\ Doing(a, "nothing") /\ Become(a, "ending", {}, Nobody, 0)
    /\ disabled' = TRUE
    /\ crossed' = IF disabled THEN crossed ELSE Crossing("account", Sessions)
    /\ UNCHANGED <<revokedRows, cache, channels, attempts, revoking>>

EndAll(a) ==
    /\ Doing(a, "ending") /\ Become(a, "nothing", {}, Nobody, 0)
    /\ phase' = Closing(Sessions)
    /\ UNCHANGED <<rows, cert, held, revoking, crossed>>

Enable(a) ==
    /\ Doing(a, "nothing") /\ disabled /\ disabled' = FALSE
    /\ UNCHANGED <<revokedRows, cache, channels, attempts, revoking, request, crossed>>

-----------------------------------------------------------------------------
(* Changing the account's channels: the rows, then one connection at a time.  *)

\* Connections whose rights some request has read and not put in place yet.
Answered == {request[a].at : a \in Admins} \ {Nobody}

ChangeChannels(a) ==
    /\ Doing(a, "nothing") /\ Become(a, "listing", {}, Nobody, 0)
    /\ channels < MaxChanges /\ channels' = channels + 1
    /\ crossed' = [s \in Sessions |-> IF s \in Answered
                                       THEN crossed[s] \cup {"channels"}
                                       ELSE Crossing("channels", Sessions)[s]]
    /\ UNCHANGED <<revokedRows, cache, disabled, attempts, revoking>>

\* Mutant: only one of the account's connections is visited.
ListOneConnection(a) ==
    /\ Doing(a, "listing")
    /\ \E s \in Sessions : Become(a, "visiting", {s}, Nobody, 0)
    /\ UNCHANGED <<rows, attempts, revoking, crossed>>

ListSessions(a) ==
    /\ Doing(a, "listing")
    /\ Become(a, "visiting", {s \in Sessions : Registered(s)}, Nobody, 0)
    /\ UNCHANGED <<rows, attempts, revoking, crossed>>

ReadAgain(a, s) ==
    /\ Doing(a, "visiting") /\ request[a].at = Nobody /\ s \in request[a].left
    /\ Become(a, "visiting", request[a].left \ {s}, s, channels)
    /\ UNCHANGED <<rows, attempts, revoking, crossed>>

\* A read that fails is logged, and the connection keeps what it has.
ReadFails(a, s) ==
    /\ Doing(a, "visiting") /\ request[a].at = Nobody /\ s \in request[a].left
    /\ Become(a, "visiting", request[a].left \ {s}, Nobody, 0)
    /\ crossed' = [crossed EXCEPT ![s] = crossed[s] \cup {"channels"}]
    /\ UNCHANGED <<rows, attempts, revoking>>

Reauth(a) ==
    /\ Doing(a, "visiting") /\ request[a].at # Nobody
    /\ LET s == request[a].at IN
          held' = IF Registered(s) THEN [held EXCEPT ![s] = request[a].answer] ELSE held
    /\ Become(a, "visiting", request[a].left, Nobody, 0)
    /\ UNCHANGED <<rows, phase, cert, revoking, crossed>>

Visited(a) ==
    /\ Doing(a, "visiting") /\ request[a].at = Nobody /\ request[a].left = {}
    /\ Become(a, "nothing", {}, Nobody, 0)
    /\ UNCHANGED <<rows, attempts, revoking, crossed>>

-----------------------------------------------------------------------------
\* Every connection and every request dies; the cache is read from the rows.
Restart ==
    /\ End({s \in Sessions : phase[s] # "new"})
    /\ revoking' = [c \in Certs |-> "idle"]
    /\ request' = [a \in Admins |-> Nothing]
    /\ cache' = revokedRows
    /\ UNCHANGED <<revokedRows, disabled, channels>>

Admission(s) ==
    \/ \E c \in Certs : Handshake(s, c)
    \/ ReadCertificate(s) \/ ReadAccount(s) \/ ReadChannels(s) \/ Refuse(s) \/ Register(s)

Revocation(c) == NoteRevoked(c) \/ CloseSessions(c)

Visiting(a) ==
    \/ ListSessions(a) \/ Reauth(a) \/ Visited(a)
    \/ \E s \in Sessions : ReadAgain(a, s) \/ ReadFails(a, s)

Next ==
    \/ \E s \in Sessions : Admission(s) \/ Leave(s)
    \/ \E c \in Certs : WriteRevocation(c) \/ Revocation(c)
    \/ \E a \in Admins :
          Disable(a) \/ EndAll(a) \/ Enable(a) \/ ChangeChannels(a) \/ Visiting(a)
    \/ Restart

Spec == Init /\ [][Next]_vars

(* A revocation and a connection that is closing are carried on by the server; *)
(* nobody has to connect, to leave, or to withdraw anything.                  *)
Fairness ==
    /\ \A c \in Certs : WF_vars(Revocation(c))
    /\ \A s \in Sessions : WF_vars(phase[s] = "closing" /\ Leave(s))

FairSpec == Spec /\ Fairness

-----------------------------------------------------------------------------
(* Once a revocation is done, no connection that its certificate bought is      *)
(* served (pki/revoke.rs revoke, hub.rs handles_for_fingerprint), but for one    *)
(* that had read the row, and was not registered yet, when it was written.      *)
RevokedIsClosed ==
    \A s \in Sessions :
        phase[s] = "open" /\ cert[s] \in revokedRows /\ revoking[cert[s]] = "idle" =>
            "certificate" \in crossed[s]

(* Nor is one of an account that is switched off (identity/sessions.rs end_all), *)
(* whoever switches it off and on again meanwhile.                             *)
DisabledIsClosed ==
    \A s \in Sessions :
        phase[s] = "open" /\ disabled /\ (\A a \in Admins : ~Doing(a, "ending")) =>
            "account" \in crossed[s]

(* A connection is routed by the selection in force once the change is applied   *)
(* (identity/members.rs channels_changed), however many changes overlap, but for  *)
(* one that was being admitted meanwhile, whose rights could not be read, or      *)
(* whose answer to an earlier change had been read and was not in place yet.      *)
ChannelsSettle ==
    (\A a \in Admins : ~Doing(a, "listing") /\ ~Doing(a, "visiting")) =>
        \A s \in Sessions :
            phase[s] = "open" /\ "channels" \notin crossed[s] => held[s] = channels

(* A withdrawn certificate's connections do end, through restarts between any     *)
(* two steps of the revocation (pki/revoke.rs, pki/facade.rs load).             *)
WithdrawalLands ==
    \A s \in Sessions :
        phase[s] = "open" /\ cert[s] \in revokedRows /\ "certificate" \notin crossed[s]
            ~> phase[s] = "gone"

-----------------------------------------------------------------------------
(* "a certificate that has been taken back must not leave a session open that it *)
(* bought" (hub.rs): once the revocation is done, no session is.                *)
RevokedLeavesNone ==
    \A s \in Sessions :
        phase[s] = "open" /\ cert[s] \in revokedRows => revoking[cert[s]] # "idle"
=============================================================================
