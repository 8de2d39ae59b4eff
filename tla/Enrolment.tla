----------------------------- MODULE Enrolment -----------------------------
(***************************************************************************)
(* Buying a certificate with a credential (rustak-server/src: marti/enroll,  *)
(* identity/credentials, identity/verify, db/repos/credentials, pki/facade,  *)
(* pki/revoke).  A one-time token is claimed before anything is signed and   *)
(* put back when the issuance fails; a password is reusable and has nothing  *)
(* to claim; a workload presents no credential, and its new certificate      *)
(* supersedes the ones the account holds from that path.  Meanwhile the      *)
(* credential may be taken back, and with it the certificates it bought.     *)
(*                                                                         *)
(* All requests are one account's.  A request buys one certificate at most,  *)
(* so a certificate goes by the request that asked for it.                   *)
(***************************************************************************)
EXTENDS Naturals, FiniteSets

CONSTANTS
    Tokens,        \* one-time enrolment tokens
    Passwords,     \* reusable credentials
    Workload,      \* what a workload identity presents: no credential at all
    Enrolments,
    Devices,
    NoDevice       \* a request that names no clientUid

Credentials == Tokens \cup Passwords

ASSUME EnrolmentConstants ==
    /\ Tokens \cap Passwords = {} /\ Workload \notin Credentials
    /\ NoDevice \notin Devices

VARIABLES
    live,          \* the credentials whose row is not revoked
    used,          \* the tokens whose row counts its one use
    spender,       \* spent_uid: the device that spent the token, if it counts still
    phase,         \* how far each request has come
    via, device,   \* what it presents, and the device it names
    row,           \* the row of each request's certificate
    known,         \* the certificates RevocationCache was told of
    barred,        \* the certificates it refuses
    listed,        \* what each workload request is still to supersede
    revoking,      \* how far the withdrawal of each credential has come
    taken,         \* history: the credentials an administrator has taken back
    swept,         \* history: those whose certificates were taken back as well
    crossed        \* history: requests that had passed the gate when it was done

credentials == <<live, used, spender>>
certificates == <<row, known, barred>>
withdrawals == <<revoking, taken, swept, crossed>>
enrolmentVars == <<credentials, phase, via, device, certificates, listed, withdrawals>>

Ends == {"refused", "failed", "delivered", "superseded", "dropped"}

EnrolmentTypeOK ==
    /\ live \subseteq Credentials /\ used \subseteq Tokens
    /\ spender \in [Tokens -> Devices \cup {NoDevice}]
    /\ phase \in [Enrolments -> {"new", "verified", "claimed", "recorded", "noted",
                               "issued", "listed", "releasing"} \cup Ends]
    /\ via \in [Enrolments -> Credentials \cup {Workload}]
    /\ device \in [Enrolments -> Devices \cup {NoDevice}]
    /\ row \in [Enrolments -> {"none", "live", "revoked"}]
    /\ known \subseteq {r \in Enrolments : row[r] # "none"}
    /\ barred \subseteq {r \in Enrolments : row[r] = "revoked"}
    /\ listed \in [Enrolments -> SUBSET Enrolments]
    /\ revoking \in [Credentials -> {"no", "row"}]
    /\ taken \subseteq Credentials /\ swept \subseteq taken /\ crossed \subseteq Enrolments

EnrolmentInit ==
    /\ live = Credentials /\ used = {} /\ spender = [t \in Tokens |-> NoDevice]
    /\ phase = [r \in Enrolments |-> "new"]
    /\ via = [r \in Enrolments |-> Workload] /\ device = [r \in Enrolments |-> NoDevice]
    /\ row = [r \in Enrolments |-> "none"] /\ known = {} /\ barred = {}
    /\ listed = [r \in Enrolments |-> {}]
    /\ revoking = [c \in Credentials |-> "no"]
    /\ taken = {} /\ swept = {} /\ crossed = {}

Go(r, p) == phase' = [phase EXCEPT ![r] = p]

-----------------------------------------------------------------------------
(* One request.                                                              *)

\* A credential is found by its secret while its row is live.  The device a
\* request names counts only with a token.
Verify(r, c, d) ==
    /\ phase[r] = "new"
    /\ c \in live \cup {Workload} /\ (c \in Tokens \/ d = NoDevice)
    /\ Go(r, "verified")
    /\ via' = [via EXCEPT ![r] = c] /\ device' = [device EXCEPT ![r] = d]
    /\ UNCHANGED <<credentials, certificates, listed, withdrawals>>

Claimable(t) == t \in live /\ t \notin used

\* Mutant: the gate trusts what the verification read.
ClaimVerified(r) ==
    /\ phase[r] = "verified"
    /\ Go(r, "claimed")
    /\ live' = live \ ({via[r]} \cap Tokens)
    /\ used' = used \cup ({via[r]} \cap Tokens)
    /\ spender' = [t \in Tokens |-> IF t = via[r] THEN device[r] ELSE spender[t]]
    /\ UNCHANGED <<via, device, certificates, listed, withdrawals>>

\* The gate and the spend are one write; only a token has anything to claim.
Claim(r) ==
    /\ phase[r] = "verified"
    /\ via[r] \in Tokens => Claimable(via[r])
    /\ Go(r, "claimed")
    /\ live' = live \ ({via[r]} \cap Tokens)
    /\ used' = used \cup ({via[r]} \cap Tokens)
    /\ spender' = [t \in Tokens |-> IF t = via[r] THEN device[r] ELSE spender[t]]
    /\ UNCHANGED <<via, device, certificates, listed, withdrawals>>

RefuseEnrolment(r) ==
    /\ phase[r] = "verified"
    /\ via[r] \in Tokens /\ ~Claimable(via[r])
    /\ Go(r, "refused")
    /\ UNCHANGED <<credentials, via, device, certificates, listed, withdrawals>>

\* The certificate is signed and its row written.
Record(r) ==
    /\ phase[r] = "claimed"
    /\ Go(r, "recorded")
    /\ row' = [row EXCEPT ![r] = "live"]
    /\ UNCHANGED <<credentials, via, device, known, barred, listed, withdrawals>>

NoteIssued(r) ==
    /\ phase[r] = "recorded"
    /\ Go(r, "noted")
    /\ known' = known \cup {r}
    /\ UNCHANGED <<credentials, via, device, row, barred, listed, withdrawals>>

\* The audit entry is written; a request with a credential is done.
Audit(r) ==
    /\ phase[r] = "noted"
    /\ Go(r, IF via[r] = Workload THEN "issued" ELSE "delivered")
    /\ UNCHANGED <<credentials, via, device, certificates, listed, withdrawals>>

\* The device is somebody else's, the signature, the row or the audit entry
\* cannot be made: the claim is put back.
Fails(r) ==
    /\ phase[r] \in {"claimed", "noted"}
    /\ Go(r, IF via[r] \in Tokens THEN "releasing" ELSE "failed")
    /\ UNCHANGED <<credentials, via, device, certificates, listed, withdrawals>>

Release(r) ==
    /\ phase[r] = "releasing"
    /\ Go(r, "failed")
    /\ IF via[r] \notin live /\ via[r] \in used
       THEN /\ live' = live \cup {via[r]} /\ used' = used \ {via[r]}
            /\ spender' = [spender EXCEPT ![via[r]] = NoDevice]
       ELSE UNCHANGED credentials
    /\ UNCHANGED <<via, device, certificates, listed, withdrawals>>

\* The write of the release fails, which is only logged.
ReleaseFails(r) ==
    /\ phase[r] = "releasing"
    /\ Go(r, "failed")
    /\ UNCHANGED <<credentials, via, device, certificates, listed, withdrawals>>

\* The client goes away, or the process: a handler ends at any await.
Drop(r) ==
    /\ phase[r] \notin {"new"} \cup Ends
    /\ Go(r, "dropped")
    /\ UNCHANGED <<credentials, via, device, certificates, listed, withdrawals>>

-----------------------------------------------------------------------------
(* A new workload certificate supersedes the account's others.               *)

OtherWorkloads(r) == {q \in Enrolments \ {r} : row[q] = "live" /\ via[q] = Workload}

\* Mutant: the others are listed before the new certificate has its row.
ListOthersFirst(r) ==
    \/ /\ phase[r] = "claimed" /\ via[r] = Workload
       /\ listed' = [listed EXCEPT ![r] = OtherWorkloads(r)]
       /\ row' = [row EXCEPT ![r] = "live"] /\ Go(r, "issued")
       /\ UNCHANGED <<credentials, via, device, known, barred, withdrawals>>
    \/ /\ phase[r] = "issued"
       /\ Go(r, "listed")
       /\ UNCHANGED <<credentials, via, device, certificates, listed, withdrawals>>

ListOthers(r) ==
    /\ phase[r] = "issued"
    /\ Go(r, "listed")
    /\ listed' = [listed EXCEPT ![r] = OtherWorkloads(r)]
    /\ UNCHANGED <<credentials, via, device, certificates, withdrawals>>

\* One of them: the row, then the cache and its hooks.
Supersede(r, q) ==
    /\ phase[r] = "listed" /\ q \in listed[r]
    /\ IF row[q] = "live"
       THEN /\ row' = [row EXCEPT ![q] = "revoked"]
            /\ UNCHANGED <<barred, listed>>
       ELSE /\ barred' = barred \cup {q}
            /\ listed' = [listed EXCEPT ![r] = listed[r] \ {q}]
            /\ UNCHANGED row
    /\ UNCHANGED <<credentials, phase, via, device, known, withdrawals>>

Superseded(r) ==
    /\ phase[r] = "listed" /\ listed[r] = {}
    /\ Go(r, "superseded")
    /\ UNCHANGED <<credentials, via, device, certificates, listed, withdrawals>>

\* A read or a revocation fails, which is only logged.
SupersedeFails(r) ==
    /\ phase[r] \in {"issued", "listed"}
    /\ Go(r, "delivered")
    /\ UNCHANGED <<credentials, via, device, certificates, listed, withdrawals>>

-----------------------------------------------------------------------------
(* An administrator takes a credential back.                                 *)

\* Requests whose certificate this withdrawal no longer keeps from being issued.
PastGate(c) ==
    {r \in Enrolments : via[r] = c /\ phase[r] \in
        {"claimed", "recorded", "noted", "releasing"}
        \cup (IF c \in Passwords THEN {"verified"} ELSE {})}

\* Mutant: a token that was spent already is left as it is.
TakeBackLive(c) ==
    /\ revoking[c] = "no"
    /\ revoking' = [revoking EXCEPT ![c] = "row"]
    /\ live' = live \ {c}
    /\ spender' = [t \in Tokens |-> IF t = c /\ c \in live THEN NoDevice ELSE spender[t]]
    /\ taken' = taken \cup {c} /\ crossed' = crossed \cup PastGate(c)
    /\ UNCHANGED <<used, phase, via, device, certificates, listed, swept>>

TakeBack(c) ==
    /\ revoking[c] = "no"
    /\ revoking' = [revoking EXCEPT ![c] = "row"]
    /\ live' = live \ {c}
    /\ spender' = [t \in Tokens |-> IF t = c THEN NoDevice ELSE spender[t]]
    /\ taken' = taken \cup {c} /\ crossed' = crossed \cup PastGate(c)
    /\ UNCHANGED <<used, phase, via, device, certificates, listed, swept>>

\* The certificates that have a row by then, in a second transaction.
TakeCertificates(c) ==
    /\ revoking[c] = "row"
    /\ revoking' = [revoking EXCEPT ![c] = "no"]
    /\ row' = [r \in Enrolments |->
                  IF via[r] = c /\ row[r] = "live" THEN "revoked" ELSE row[r]]
    /\ swept' = swept \cup {c}
    /\ UNCHANGED <<credentials, phase, via, device, known, barred, listed, taken, crossed>>

\* It fails, or the process stops between the two: the credential is revoked,
\* and the administrator may ask again.
TakingStops(c) ==
    /\ revoking[c] = "row"
    /\ revoking' = [revoking EXCEPT ![c] = "no"]
    /\ UNCHANGED <<credentials, phase, via, device, certificates, listed, taken, swept, crossed>>

-----------------------------------------------------------------------------
Enrol(r) ==
    \/ \E c \in Credentials \cup {Workload}, d \in Devices \cup {NoDevice} : Verify(r, c, d)
    \/ Claim(r) \/ RefuseEnrolment(r) \/ Record(r) \/ NoteIssued(r) \/ Audit(r)
    \/ Fails(r) \/ Release(r) \/ ReleaseFails(r) \/ Drop(r)
    \/ ListOthers(r) \/ Superseded(r) \/ SupersedeFails(r)
    \/ \E q \in Enrolments : Supersede(r, q)

Withdraw(c) == TakeBack(c) \/ TakeCertificates(c) \/ TakingStops(c)

EnrolmentNext == (\E r \in Enrolments : Enrol(r)) \/ (\E c \in Credentials : Withdraw(c))

EnrolmentSpec == EnrolmentInit /\ [][EnrolmentNext]_enrolmentVars

-----------------------------------------------------------------------------
Keeps(r) == phase[r] \in {"claimed", "recorded", "noted", "delivered"}

\* A token that a failed enrolment put back although it had been taken back.
Revived(t) ==
    t \in Tokens /\ \E q \in crossed : via[q] = t /\ phase[q] = "failed"

(* A one-time token buys one certificate (spend.rs claim_single_use): of the     *)
(* requests that present it at once, one passes the gate, and the next only when *)
(* that one has failed and put its claim back.                                *)
TokenBuysOnce ==
    \A r, q \in Enrolments :
        r # q /\ via[r] \in Tokens /\ via[r] = via[q] => ~(Keeps(r) /\ Keeps(q))

\* The profile is fetched with a spent token by nobody but the device that spent
\* it (verify.rs Grace::covers), and not once an administrator has taken it back
\* (spend.rs clear).
GraceIsSpenders ==
    \A t \in Tokens : spender[t] # NoDevice =>
        /\ t \notin live /\ (t \in taken => Revived(t))
        /\ \E r \in Enrolments : /\ via[r] = t /\ device[r] = spender[t]
                              /\ phase[r] \notin {"new", "verified", "refused"}

\* The certificates a credential bought go with it (credentials.rs revoke), except
\* those of requests that were past the gate and wrote their row later.
CertificatesGo ==
    \A r \in Enrolments :
        via[r] \in swept /\ row[r] = "live" => r \in crossed \/ Revived(via[r])

(* A credential that was taken back buys nothing any more (web/api/credentials.rs *)
(* remove), except where a request had claimed it by then and failed: its release *)
(* (spend.rs release_single_use) makes the token live again.  The profile is not   *)
(* fetched with it, and the certificates it bought go with it.                 *)
TakenBackStays ==
    /\ \A c \in taken : c \in live => Revived(c)
    /\ GraceIsSpenders /\ CertificatesGo

(* When two enrolments of a workload are done, one of their certificates at most   *)
(* is still good (pki/revoke.rs supersede_workload): of two that overlap, the one  *)
(* that was recorded later has listed the other.  Both may be gone.            *)
OneWorkloadLeft ==
    \A r, q \in Enrolments :
        r # q /\ phase[r] = "superseded" /\ phase[q] = "superseded" =>
            ~(row[r] = "live" /\ row[q] = "live")
=============================================================================
