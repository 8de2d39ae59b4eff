--------------------------- MODULE RefreshTokens ---------------------------
(***************************************************************************)
(* The sessions of one account (rustak-server/src: auth/tokens.rs, db/repos/   *)
(* refresh_tokens.rs, auth/oauth_server/codes.rs and code_grant.rs,           *)
(* identity/sessions.rs). A refresh token is spent in one transaction and its   *)
(* successor, of the same family, is written in a later one; the account is     *)
(* read in between. A token presented after it was spent ends its family; a     *)
(* sign-out, a revoked credential and switching the account off end them all.   *)
(* Every request may fail, and the process stop, between any two of its steps.  *)
(***************************************************************************)
EXTENDS Naturals

CONSTANTS
    Requests,   \* requests, each one at a time
    Codes,      \* authorization codes, each issued once
    MaxRow,     \* bound: rows of the table
    NoRow, NoCode

ASSUME TokenConstants == MaxRow \in Nat /\ NoCode \notin Codes

VARIABLES
    disabled,   \* the account is switched off
    rows,       \* refresh_tokens: any of them may be presented, by anybody, any number of times
    codes,      \* oauth_codes
    request,    \* what each request is doing
    ended       \* history: all sessions were ended after the account was switched off

vars == <<disabled, rows, codes, request, ended>>

Ids == 1..MaxRow
Row == [family: Ids, from: 0..MaxRow, code: Codes \cup {NoCode}, admin: BOOLEAN,
        used: BOOLEAN, revoked: BOOLEAN,
        stray: BOOLEAN,   \* history: of a request that its family's end did not reach
        lost: BOOLEAN]    \* history: spent by a request that failed

ASSUME NoRowIsNoRow == NoRow \notin Row

Code == [state: {"none", "live", "spent"}, admin: BOOLEAN]
Request == [at: {"idle", "read", "mint", "refuse", "end"},
            from: 0..MaxRow, code: Codes \cup {NoCode}, admin: BOOLEAN,
            cut: BOOLEAN]   \* history: its family was ended meanwhile

Idle == [at |-> "idle", from |-> 0, code |-> NoCode, admin |-> FALSE, cut |-> FALSE]

Stored(i) == rows[i] # NoRow
Live(i) == Stored(i) /\ ~rows[i].used /\ ~rows[i].revoked

TypeOK ==
    /\ disabled \in BOOLEAN
    /\ rows \in [Ids -> Row \cup {NoRow}]
    /\ \A i \in Ids : Stored(i) =>
          /\ Stored(rows[i].family) /\ rows[rows[i].family].from = 0
          /\ rows[i].from # 0 => Stored(rows[i].from)
    /\ codes \in [Codes -> Code]
    /\ request \in [Requests -> Request]
    /\ \A r \in Requests : request[r].from # 0 =>
          Stored(request[r].from) /\ (request[r].at \in {"read", "mint", "refuse"} =>
                                          rows[request[r].from].used)
    /\ ended \in BOOLEAN

Init ==
    /\ disabled = FALSE
    /\ rows = [i \in Ids |-> NoRow]
    /\ codes = [c \in Codes |-> [state |-> "none", admin |-> FALSE]]
    /\ request = [r \in Requests |-> Idle]
    /\ ended = FALSE

FamilyOf(r) == IF request[r].from = 0 THEN 0 ELSE rows[request[r].from].family

\* A token is spent, or a code, or somebody has signed in, and no row written yet.
InFlight(r) == request[r].at \in {"read", "mint"}

NewFamily(r) == request[r].from = 0

-----------------------------------------------------------------------------
(* Ending families: rows are marked, requests under way are not told.         *)

Revoked(S) ==
    [i \in Ids |-> IF Stored(i) /\ rows[i].family \in S
                   THEN [rows[i] EXCEPT !.revoked = TRUE] ELSE rows[i]]

Cut(S) ==
    [r \in Requests |-> IF InFlight(r) /\ FamilyOf(r) \in S
                        THEN [request[r] EXCEPT !.cut = TRUE] ELSE request[r]]

\* Sign-ins that have read the account are under way too when all is ended.
CutAll ==
    [r \in Requests |-> IF request[r].at = "mint" \/ (InFlight(r) /\ ~NewFamily(r))
                        THEN [request[r] EXCEPT !.cut = TRUE] ELSE request[r]]

EndAll(r) ==
    /\ request[r].at = "end"
    /\ rows' = Revoked(Ids)
    /\ request' = [CutAll EXCEPT ![r] = Idle]
    /\ ended' = disabled
    /\ UNCHANGED <<disabled, codes>>

\* The account is found switched off after its token was spent.
Refuse(r) ==
    /\ request[r].at = "refuse"
    /\ rows' = Revoked({FamilyOf(r)})
    /\ request' = [Cut({FamilyOf(r)}) EXCEPT ![r] = Idle]
    /\ UNCHANGED <<disabled, codes, ended>>

-----------------------------------------------------------------------------
(* Renewing a session.                                                       *)

Spend(r, i) ==
    /\ Live(i)
    /\ rows' = [rows EXCEPT ![i].used = TRUE]
    /\ request' = [request EXCEPT ![r] = [at |-> "read", from |-> i, code |-> NoCode,
                                          admin |-> rows[i].admin, cut |-> FALSE]]

Replay(i) ==
    /\ ~Live(i)
    /\ rows' = Revoked({rows[i].family})
    /\ request' = Cut({rows[i].family})

\* Mutant: a token that was spent is spent again.
SpendAgain(r, i) ==
    /\ request[r].at = "idle" /\ Stored(i)
    /\ \/ /\ ~rows[i].revoked
          /\ rows' = [rows EXCEPT ![i].used = TRUE]
          /\ request' = [request EXCEPT ![r] =
                 [at |-> "read", from |-> i, code |-> NoCode,
                  admin |-> rows[i].admin, cut |-> FALSE]]
       \/ rows[i].revoked /\ Replay(i)
    /\ UNCHANGED <<disabled, codes, ended>>

\* Mutant: a replay ends the token that was replayed, not its family.
ReplayOne(r, i) ==
    /\ request[r].at = "idle" /\ Stored(i)
    /\ \/ Spend(r, i)
       \/ /\ ~Live(i)
          /\ rows' = [rows EXCEPT ![i].revoked = TRUE] /\ UNCHANGED request
    /\ UNCHANGED <<disabled, codes, ended>>

\* An expired token is refused and nothing written: as one that is never presented.
Exchange(r, i) ==
    /\ request[r].at = "idle" /\ Stored(i)
    /\ Spend(r, i) \/ Replay(i)
    /\ UNCHANGED <<disabled, codes, ended>>

\* Mutant: the scope is the account's, whatever the session began with.
ReadScope(r, is_admin) ==
    /\ request[r].at = "read"
    /\ request' = [request EXCEPT ![r] =
           IF disabled
           THEN IF NewFamily(r) THEN Idle ELSE [@ EXCEPT !.at = "refuse"]
           ELSE [@ EXCEPT !.at = "mint", !.admin = is_admin]]
    /\ UNCHANGED <<disabled, rows, codes, ended>>

\* Mutant: a session of an account that is switched off is refused, and no more.
ReadAndRefuse(r, is_admin) ==
    /\ request[r].at = "read"
    /\ request' = [request EXCEPT ![r] =
           IF disabled THEN Idle ELSE [request[r] EXCEPT !.at = "mint", !.admin = @ /\ is_admin]]
    /\ UNCHANGED <<disabled, rows, codes, ended>>

\* The row's scope is a ceiling, the account's of now what it may reach.
ReadUser(r, is_admin) ==
    /\ request[r].at = "read"
    /\ request' = [request EXCEPT ![r] =
           IF disabled
           THEN IF NewFamily(r) THEN Idle ELSE [@ EXCEPT !.at = "refuse"]
           ELSE [request[r] EXCEPT !.at = "mint", !.admin = @ /\ is_admin]]
    /\ UNCHANGED <<disabled, rows, codes, ended>>

NextId(i) == ~Stored(i) /\ \A j \in 1..(i - 1) : Stored(j)

NewRow(r, i) ==
    [family |-> IF NewFamily(r) THEN i ELSE FamilyOf(r),
     from |-> request[r].from, code |-> request[r].code, admin |-> request[r].admin,
     used |-> FALSE, revoked |-> FALSE,
     stray |-> request[r].cut \/ (~NewFamily(r) /\ rows[request[r].from].stray),
     lost |-> FALSE]

Mint(r) ==
    /\ request[r].at = "mint"
    /\ \E i \in Ids :
          /\ NextId(i)
          /\ rows' = [rows EXCEPT ![i] = NewRow(r, i)]
          /\ request' = [request EXCEPT ![r] = Idle]
    /\ UNCHANGED <<disabled, codes, ended>>

\* A read or a write fails, or the process stops.
Fail(r) ==
    /\ request[r].at # "idle"
    /\ rows' = IF request[r].at \in {"read", "mint", "refuse"} /\ ~NewFamily(r)
               THEN [rows EXCEPT ![request[r].from].lost = TRUE] ELSE rows
    /\ request' = [request EXCEPT ![r] = Idle]
    /\ UNCHANGED <<disabled, codes, ended>>

-----------------------------------------------------------------------------
(* Beginning a session.                                                      *)

\* Mutant: whoever can sign in may.
SignInAnyway(r, is_admin) ==
    /\ request[r].at = "idle"
    /\ request' = [request EXCEPT ![r] =
           [Idle EXCEPT !.at = "mint", !.admin = is_admin]]
    /\ UNCHANGED <<disabled, rows, codes, ended>>

SignIn(r, is_admin) ==
    /\ request[r].at = "idle" /\ ~disabled
    /\ request' = [request EXCEPT ![r] =
           [Idle EXCEPT !.at = "mint", !.admin = is_admin]]
    /\ UNCHANGED <<disabled, rows, codes, ended>>

IssueCode(c, is_admin) ==
    /\ codes[c].state = "none" /\ ~disabled
    /\ codes' = [codes EXCEPT ![c] = [state |-> "live", admin |-> is_admin]]
    /\ UNCHANGED <<disabled, rows, request, ended>>

\* Mutant: the code is checked and not marked.
RedeemUnmarked(r, c) ==
    /\ request[r].at = "idle" /\ codes[c].state = "live"
    /\ request' = [request EXCEPT ![r] =
           [Idle EXCEPT !.at = "read", !.code = c, !.admin = codes[c].admin]]
    /\ UNCHANGED <<disabled, rows, codes, ended>>

Redeem(r, c) ==
    /\ request[r].at = "idle" /\ codes[c].state = "live"
    /\ codes' = [codes EXCEPT ![c].state = "spent"]
    /\ request' = [request EXCEPT ![r] =
           [Idle EXCEPT !.at = "read", !.code = c, !.admin = codes[c].admin]]
    /\ UNCHANGED <<disabled, rows, ended>>

-----------------------------------------------------------------------------
(* Ending sessions.                                                          *)

\* By a form that signs out everywhere, or with a credential that is revoked.
EndSessions(r) ==
    /\ request[r].at = "idle"
    /\ request' = [request EXCEPT ![r] = [Idle EXCEPT !.at = "end"]]
    /\ UNCHANGED <<disabled, rows, codes, ended>>

SwitchOff(r) ==
    /\ request[r].at = "idle"
    /\ disabled' = TRUE
    /\ request' = [request EXCEPT ![r] = [Idle EXCEPT !.at = "end"]]
    /\ UNCHANGED <<rows, codes, ended>>

SwitchOn ==
    /\ disabled
    /\ disabled' = FALSE
    /\ ended' = FALSE
    /\ UNCHANGED <<rows, codes, request>>

Serve(r) ==
    \/ \E i \in Ids : Exchange(r, i)
    \/ \E c \in Codes : Redeem(r, c)
    \/ \E b \in BOOLEAN : SignIn(r, b) \/ ReadUser(r, b)
    \/ Refuse(r) \/ Mint(r) \/ Fail(r)
    \/ EndSessions(r) \/ SwitchOff(r) \/ EndAll(r)

Next ==
    \/ \E r \in Requests : Serve(r)
    \/ \E c \in Codes, b \in BOOLEAN : IssueCode(c, b)
    \/ SwitchOn

Spec == Init /\ [][Next]_vars

-----------------------------------------------------------------------------
(* A family has one token that can be exchanged, or one exchange under way,     *)
(* never two: of two exchanges at once one is a replay (refresh_tokens.rs        *)
(* exchange).                                                               *)
OneLiveMember ==
    /\ \A i, j \in Ids : Live(i) /\ Live(j) /\ rows[i].family = rows[j].family => i = j
    /\ \A r \in Requests : InFlight(r) /\ ~NewFamily(r) =>
          /\ \A i \in Ids : Live(i) => rows[i].family # FamilyOf(r)
          /\ \A s \in Requests : InFlight(s) /\ FamilyOf(s) = FamilyOf(r) => s = r

(* A family that was ended, by a replay, a sign-out or an operator, has no token    *)
(* that can be exchanged (tokens.rs: "a stolen token buys nothing"), but what an     *)
(* exchange writes that had spent its token before the end, and what follows it.   *)
EndedStaysEnded ==
    \A i, j \in Ids :
        Live(i) /\ Stored(j) /\ rows[j].family = rows[i].family /\ rows[j].revoked =>
            rows[i].stray

(* Once an account is switched off and its sessions are ended, it has none but      *)
(* those of requests that had read it before (users.rs patch, sessions.rs end_all). *)
SwitchedOffHasNoSession ==
    disabled /\ ended => \A i \in Ids : Live(i) => rows[i].stray

(* A session goes on until somebody ends it: a spent token has a successor, or is   *)
(* about to have one, if the request that spent it did not fail on the way          *)
(* (tokens.rs rotate, code_grant.rs).                                          *)
SpentIsAccountedFor ==
    \A i \in Ids : Stored(i) /\ rows[i].used /\ ~rows[i].revoked /\ ~rows[i].lost =>
        \/ \E j \in Ids : Stored(j) /\ rows[j].from = i
        \/ \E r \in Requests : request[r].from = i /\ request[r].at \in {"read", "mint", "refuse"}

(* An authorization code begins at most one session (codes.rs redeem).          *)
CodeBuysOneSession ==
    /\ \A i, j \in Ids :
          Stored(i) /\ Stored(j) /\ rows[i].code = rows[j].code /\ rows[i].code # NoCode =>
              i = j
    /\ \A c \in Codes : codes[c].state = "live" =>
          \A i \in Ids : Stored(i) => rows[i].code # c

(* A session never gains rights it was not begun with, whatever the account gains   *)
(* while it lasts, nor regains what it lost (tokens.rs rotate).                 *)
NeverWidens ==
    \A i \in Ids : Stored(i) /\ rows[i].admin =>
        /\ rows[i].from # 0 => rows[rows[i].from].admin
        /\ rows[i].code # NoCode => codes[rows[i].code].admin
=============================================================================
