-------------------------- MODULE CredentialProofs --------------------------
(***************************************************************************)
(* Proofs about what lets a client in: the one-time credentials and the      *)
(* certificates they buy (Enrolment), and the sessions of the web interface    *)
(* (RefreshTokens).  What a credential buys and what is left of it once it was  *)
(* taken back, for any number of credentials, requests and devices; what ends   *)
(* a session and what does not, for any number of requests, tokens and codes.   *)
(***************************************************************************)
EXTENDS Enrolment, RefreshTokens, TLAPS

-----------------------------------------------------------------------------
(* Enrolment.                                                               *)

\* Where a request stands, against what it presented and the row it wrote.
Phased ==
    /\ \A r \in Enrolments :
          /\ phase[r] \in {"new", "verified", "claimed"} => row[r] = "none"
          /\ phase[r] \in {"recorded", "noted", "issued", "listed", "superseded"} => row[r] # "none"
          /\ phase[r] \in {"issued", "listed", "superseded"} => via[r] = Workload
          /\ phase[r] = "releasing" => via[r] \in Tokens
          /\ \A q \in listed[r] : row[q] # "none"
    /\ \A c \in Credentials : revoking[c] = "row" => c \in taken

\* A request that has claimed its token and has not put the claim back.
Holding(r) == phase[r] \in {"claimed", "recorded", "noted", "releasing", "delivered"}

\* What is held counts as used, and is held by one request.
HeldOnce ==
    \A r \in Enrolments : Holding(r) /\ via[r] \in Tokens =>
        /\ via[r] \in used
        /\ \A q \in Enrolments : Holding(q) /\ via[q] = via[r] => q = r

\* A request past the gate of a credential that was taken back was past it then,
\* unless the credential had been made good again in between.
AtTheGate ==
    \A r \in Enrolments, c \in taken :
        /\ via[r] = c
        /\ \/ phase[r] \in {"claimed", "recorded", "noted", "releasing"}
           \/ phase[r] = "verified" /\ c \in Passwords
        => r \in crossed \/ Revived(c)

\* The parts of TakenBackStays, by credential.
TakenIsDead == \A c \in taken : c \in live => Revived(c)

CertificatesGone ==
    \A r \in Enrolments, c \in swept :
        via[r] = c /\ row[r] = "live" => r \in crossed \/ Revived(c)

\* Of two workload requests that have listed the others, one is still to be
\* superseded by the other, or one of the certificates is gone already.
Succession ==
    /\ \A r \in Enrolments : phase[r] = "superseded" => listed[r] = {}
    /\ \A r, q \in Enrolments :
          /\ r # q /\ row[r] = "live" /\ row[q] = "live"
          /\ phase[r] \in {"listed", "superseded"} /\ phase[q] \in {"listed", "superseded"}
          => r \in listed[q] \/ q \in listed[r]

EnrolmentIInv == EnrolmentTypeOK /\ Phased /\ HeldOnce /\ AtTheGate /\ TakenIsDead
                 /\ GraceIsSpenders /\ CertificatesGone /\ Succession

-----------------------------------------------------------------------------
(* The types are kept: a row is written once and never taken away. *)
LEMMA TypeStep ==
    ASSUME EnrolmentTypeOK, Phased, [EnrolmentNext]_enrolmentVars
    PROVE  EnrolmentTypeOK'
<1> USE EnrolmentConstants
    DEF EnrolmentTypeOK, Ends, Phased, Credentials,
        Go, certificates, credentials, withdrawals
<1>1. ASSUME NEW r \in Enrolments, NEW c \in Credentials \cup {Workload},
             NEW d \in Devices \cup {NoDevice}, Verify(r, c, d)
      PROVE  EnrolmentTypeOK'
  BY <1>1 DEF Verify
<1>2. ASSUME NEW r \in Enrolments, Claim(r) PROVE EnrolmentTypeOK'
  BY <1>2 DEF Claim
<1>3. ASSUME NEW r \in Enrolments, RefuseEnrolment(r) PROVE EnrolmentTypeOK'
  BY <1>3 DEF RefuseEnrolment
<1>4. ASSUME NEW r \in Enrolments, Record(r) PROVE EnrolmentTypeOK'
  BY <1>4 DEF Record
<1>5. ASSUME NEW r \in Enrolments, NoteIssued(r) PROVE EnrolmentTypeOK'
  BY <1>5 DEF NoteIssued
<1>6. ASSUME NEW r \in Enrolments, Audit(r) PROVE EnrolmentTypeOK'
  BY <1>6 DEF Audit
<1>7. ASSUME NEW r \in Enrolments, Fails(r) PROVE EnrolmentTypeOK'
  BY <1>7 DEF Fails
<1>8. ASSUME NEW r \in Enrolments, Release(r) PROVE EnrolmentTypeOK'
  BY <1>8 DEF Release
<1>9. ASSUME NEW r \in Enrolments, ReleaseFails(r) PROVE EnrolmentTypeOK'
  BY <1>9 DEF ReleaseFails
<1>10. ASSUME NEW r \in Enrolments, Drop(r) PROVE EnrolmentTypeOK'
  BY <1>10 DEF Drop
<1>11. ASSUME NEW r \in Enrolments, ListOthers(r) PROVE EnrolmentTypeOK'
  BY <1>11 DEF ListOthers, OtherWorkloads
<1>12. ASSUME NEW r \in Enrolments, Superseded(r) PROVE EnrolmentTypeOK'
  BY <1>12 DEF Superseded
<1>13. ASSUME NEW r \in Enrolments, SupersedeFails(r) PROVE EnrolmentTypeOK'
  BY <1>13 DEF SupersedeFails
<1>14. ASSUME NEW r \in Enrolments, NEW q \in Enrolments, Supersede(r, q) PROVE EnrolmentTypeOK'
  BY <1>14 DEF Supersede
<1>15. ASSUME NEW c \in Credentials, TakeBack(c) PROVE EnrolmentTypeOK'
  BY <1>15 DEF TakeBack, PastGate
<1>16. ASSUME NEW c \in Credentials, TakeCertificates(c) PROVE EnrolmentTypeOK'
  BY <1>16 DEF TakeCertificates
<1>17. ASSUME NEW c \in Credentials, TakingStops(c) PROVE EnrolmentTypeOK'
  BY <1>17 DEF TakingStops
<1>18. CASE UNCHANGED enrolmentVars
  BY <1>18 DEF enrolmentVars
<1> QED
  BY <1>1, <1>2, <1>3, <1>4, <1>5, <1>6, <1>7, <1>8, <1>9,
     <1>10, <1>11, <1>12, <1>13, <1>14, <1>15, <1>16, <1>17, <1>18
     DEF EnrolmentNext, Enrol, Withdraw

(* What a request stands at says what it presented and whether it has a row. *)
LEMMA PhasedStep ==
    ASSUME EnrolmentTypeOK, Phased, [EnrolmentNext]_enrolmentVars
    PROVE  Phased'
<1> USE EnrolmentConstants
    DEF EnrolmentTypeOK, Ends, Phased,
        Go, certificates, credentials, withdrawals
<1>1. ASSUME NEW r \in Enrolments, NEW c \in Credentials \cup {Workload},
             NEW d \in Devices \cup {NoDevice}, Verify(r, c, d)
      PROVE  Phased'
  BY <1>1 DEF Verify
<1>2. ASSUME NEW r \in Enrolments, Claim(r) PROVE Phased'
  BY <1>2 DEF Claim
<1>3. ASSUME NEW r \in Enrolments, RefuseEnrolment(r) PROVE Phased'
  BY <1>3 DEF RefuseEnrolment
<1>4. ASSUME NEW r \in Enrolments, Record(r) PROVE Phased'
  BY <1>4 DEF Record
<1>5. ASSUME NEW r \in Enrolments, NoteIssued(r) PROVE Phased'
  BY <1>5 DEF NoteIssued
<1>6. ASSUME NEW r \in Enrolments, Audit(r) PROVE Phased'
  BY <1>6 DEF Audit
<1>7. ASSUME NEW r \in Enrolments, Fails(r) PROVE Phased'
  BY <1>7 DEF Fails
<1>8. ASSUME NEW r \in Enrolments, Release(r) PROVE Phased'
  BY <1>8 DEF Release
<1>9. ASSUME NEW r \in Enrolments, ReleaseFails(r) PROVE Phased'
  BY <1>9 DEF ReleaseFails
<1>10. ASSUME NEW r \in Enrolments, Drop(r) PROVE Phased'
  BY <1>10 DEF Drop
<1>11. ASSUME NEW r \in Enrolments, ListOthers(r) PROVE Phased'
  BY <1>11 DEF ListOthers, OtherWorkloads
<1>12. ASSUME NEW r \in Enrolments, Superseded(r) PROVE Phased'
  BY <1>12 DEF Superseded
<1>13. ASSUME NEW r \in Enrolments, SupersedeFails(r) PROVE Phased'
  BY <1>13 DEF SupersedeFails
<1>14. ASSUME NEW r \in Enrolments, NEW q \in Enrolments, Supersede(r, q) PROVE Phased'
  BY <1>14 DEF Supersede
<1>15. ASSUME NEW c \in Credentials, TakeBack(c) PROVE Phased'
  BY <1>15 DEF TakeBack
<1>16. ASSUME NEW c \in Credentials, TakeCertificates(c) PROVE Phased'
  BY <1>16 DEF TakeCertificates
<1>17. ASSUME NEW c \in Credentials, TakingStops(c) PROVE Phased'
  BY <1>17 DEF TakingStops
<1>18. CASE UNCHANGED enrolmentVars
  BY <1>18 DEF enrolmentVars
<1> QED
  BY <1>1, <1>2, <1>3, <1>4, <1>5, <1>6, <1>7, <1>8, <1>9,
     <1>10, <1>11, <1>12, <1>13, <1>14, <1>15, <1>16, <1>17, <1>18
     DEF EnrolmentNext, Enrol, Withdraw

(* A claim is made of what nobody holds, and put back by the one that holds it
   (spend.rs claim_single_use, release_single_use). *)
LEMMA HeldStep ==
    ASSUME EnrolmentTypeOK, Phased, HeldOnce, [EnrolmentNext]_enrolmentVars
    PROVE  HeldOnce'
<1> USE EnrolmentConstants
    DEF EnrolmentTypeOK, Ends, Phased, HeldOnce, Holding,
        Go, certificates, credentials, withdrawals
<1>1. ASSUME NEW r \in Enrolments, NEW c \in Credentials \cup {Workload},
             NEW d \in Devices \cup {NoDevice}, Verify(r, c, d)
      PROVE  HeldOnce'
  BY <1>1 DEF Verify
<1>2. ASSUME NEW r \in Enrolments, Claim(r) PROVE HeldOnce'
  BY <1>2 DEF Claim, Claimable
<1>3. ASSUME NEW r \in Enrolments, RefuseEnrolment(r) PROVE HeldOnce'
  BY <1>3 DEF RefuseEnrolment
<1>4. ASSUME NEW r \in Enrolments, Record(r) PROVE HeldOnce'
  BY <1>4 DEF Record
<1>5. ASSUME NEW r \in Enrolments, NoteIssued(r) PROVE HeldOnce'
  BY <1>5 DEF NoteIssued
<1>6. ASSUME NEW r \in Enrolments, Audit(r) PROVE HeldOnce'
  BY <1>6 DEF Audit
<1>7. ASSUME NEW r \in Enrolments, Fails(r) PROVE HeldOnce'
  BY <1>7 DEF Fails
<1>8. ASSUME NEW r \in Enrolments, Release(r) PROVE HeldOnce'
  BY <1>8 DEF Release
<1>9. ASSUME NEW r \in Enrolments, ReleaseFails(r) PROVE HeldOnce'
  BY <1>9 DEF ReleaseFails
<1>10. ASSUME NEW r \in Enrolments, Drop(r) PROVE HeldOnce'
  BY <1>10 DEF Drop
<1>11. ASSUME NEW r \in Enrolments, ListOthers(r) PROVE HeldOnce'
  BY <1>11 DEF ListOthers
<1>12. ASSUME NEW r \in Enrolments, Superseded(r) PROVE HeldOnce'
  BY <1>12 DEF Superseded
<1>13. ASSUME NEW r \in Enrolments, SupersedeFails(r) PROVE HeldOnce'
  BY <1>13 DEF SupersedeFails, Credentials
<1>14. ASSUME NEW r \in Enrolments, NEW q \in Enrolments, Supersede(r, q) PROVE HeldOnce'
  BY <1>14 DEF Supersede
<1>15. ASSUME NEW c \in Credentials, TakeBack(c) PROVE HeldOnce'
  BY <1>15 DEF TakeBack
<1>16. ASSUME NEW c \in Credentials, TakeCertificates(c) PROVE HeldOnce'
  BY <1>16 DEF TakeCertificates
<1>17. ASSUME NEW c \in Credentials, TakingStops(c) PROVE HeldOnce'
  BY <1>17 DEF TakingStops
<1>18. CASE UNCHANGED enrolmentVars
  BY <1>18 DEF enrolmentVars
<1> QED
  BY <1>1, <1>2, <1>3, <1>4, <1>5, <1>6, <1>7, <1>8, <1>9,
     <1>10, <1>11, <1>12, <1>13, <1>14, <1>15, <1>16, <1>17, <1>18
     DEF EnrolmentNext, Enrol, Withdraw

(* Who lists second finds the row of who listed first (pki/revoke.rs
   supersede_workload). *)
LEMMA SuccessionStep ==
    ASSUME EnrolmentTypeOK, Phased, Succession, [EnrolmentNext]_enrolmentVars
    PROVE  Succession'
<1> USE EnrolmentConstants
    DEF EnrolmentTypeOK, Ends, Phased, Succession,
        Go, certificates, credentials, withdrawals
<1>1. ASSUME NEW r \in Enrolments, NEW c \in Credentials \cup {Workload},
             NEW d \in Devices \cup {NoDevice}, Verify(r, c, d)
      PROVE  Succession'
  BY <1>1 DEF Verify
<1>2. ASSUME NEW r \in Enrolments, Claim(r) PROVE Succession'
  BY <1>2 DEF Claim
<1>3. ASSUME NEW r \in Enrolments, RefuseEnrolment(r) PROVE Succession'
  BY <1>3 DEF RefuseEnrolment
<1>4. ASSUME NEW r \in Enrolments, Record(r) PROVE Succession'
  BY <1>4 DEF Record
<1>5. ASSUME NEW r \in Enrolments, NoteIssued(r) PROVE Succession'
  BY <1>5 DEF NoteIssued
<1>6. ASSUME NEW r \in Enrolments, Audit(r) PROVE Succession'
  BY <1>6 DEF Audit
<1>7. ASSUME NEW r \in Enrolments, Fails(r) PROVE Succession'
  BY <1>7 DEF Fails
<1>8. ASSUME NEW r \in Enrolments, Release(r) PROVE Succession'
  BY <1>8 DEF Release
<1>9. ASSUME NEW r \in Enrolments, ReleaseFails(r) PROVE Succession'
  BY <1>9 DEF ReleaseFails
<1>10. ASSUME NEW r \in Enrolments, Drop(r) PROVE Succession'
  BY <1>10 DEF Drop
<1>11. ASSUME NEW r \in Enrolments, ListOthers(r) PROVE Succession'
  BY <1>11 DEF ListOthers, OtherWorkloads
<1>12. ASSUME NEW r \in Enrolments, Superseded(r) PROVE Succession'
  BY <1>12 DEF Superseded
<1>13. ASSUME NEW r \in Enrolments, SupersedeFails(r) PROVE Succession'
  BY <1>13 DEF SupersedeFails
<1>14. ASSUME NEW r \in Enrolments, NEW q \in Enrolments, Supersede(r, q) PROVE Succession'
  BY <1>14 DEF Supersede
<1>15. ASSUME NEW c \in Credentials, TakeBack(c) PROVE Succession'
  BY <1>15 DEF TakeBack
<1>16. ASSUME NEW c \in Credentials, TakeCertificates(c) PROVE Succession'
  BY <1>16 DEF TakeCertificates
<1>17. ASSUME NEW c \in Credentials, TakingStops(c) PROVE Succession'
  BY <1>17 DEF TakingStops
<1>18. CASE UNCHANGED enrolmentVars
  BY <1>18 DEF enrolmentVars
<1> QED
  BY <1>1, <1>2, <1>3, <1>4, <1>5, <1>6, <1>7, <1>8, <1>9,
     <1>10, <1>11, <1>12, <1>13, <1>14, <1>15, <1>16, <1>17, <1>18
     DEF EnrolmentNext, Enrol, Withdraw

(* A request that failed after its credential was taken back stays so. *)
RevivalsStay == \A x \in Credentials : Revived(x) => Revived(x)'

(* A credential that was made good again stays known as such.                *)
LEMMA RevivalStays ==
    ASSUME EnrolmentTypeOK, [EnrolmentNext]_enrolmentVars
    PROVE  RevivalsStay
<1> USE EnrolmentConstants
    DEF EnrolmentTypeOK, Ends, RevivalsStay, Revived,
        Go, certificates, credentials, withdrawals
<1>1. ASSUME NEW r \in Enrolments, NEW c \in Credentials \cup {Workload},
             NEW d \in Devices \cup {NoDevice}, Verify(r, c, d)
      PROVE  RevivalsStay
  BY <1>1 DEF Verify
<1>2. ASSUME NEW r \in Enrolments, Claim(r) PROVE RevivalsStay
  BY <1>2 DEF Claim
<1>3. ASSUME NEW r \in Enrolments, RefuseEnrolment(r) PROVE RevivalsStay
  BY <1>3 DEF RefuseEnrolment
<1>4. ASSUME NEW r \in Enrolments, Record(r) PROVE RevivalsStay
  BY <1>4 DEF Record
<1>5. ASSUME NEW r \in Enrolments, NoteIssued(r) PROVE RevivalsStay
  BY <1>5 DEF NoteIssued
<1>6. ASSUME NEW r \in Enrolments, Audit(r) PROVE RevivalsStay
  BY <1>6 DEF Audit
<1>7. ASSUME NEW r \in Enrolments, Fails(r) PROVE RevivalsStay
  BY <1>7 DEF Fails
<1>8. ASSUME NEW r \in Enrolments, Release(r) PROVE RevivalsStay
  BY <1>8 DEF Release
<1>9. ASSUME NEW r \in Enrolments, ReleaseFails(r) PROVE RevivalsStay
  BY <1>9 DEF ReleaseFails
<1>10. ASSUME NEW r \in Enrolments, Drop(r) PROVE RevivalsStay
  BY <1>10 DEF Drop
<1>11. ASSUME NEW r \in Enrolments, ListOthers(r) PROVE RevivalsStay
  BY <1>11 DEF ListOthers
<1>12. ASSUME NEW r \in Enrolments, Superseded(r) PROVE RevivalsStay
  BY <1>12 DEF Superseded
<1>13. ASSUME NEW r \in Enrolments, SupersedeFails(r) PROVE RevivalsStay
  BY <1>13 DEF SupersedeFails
<1>14. ASSUME NEW r \in Enrolments, NEW q \in Enrolments, Supersede(r, q) PROVE RevivalsStay
  BY <1>14 DEF Supersede
<1>15. ASSUME NEW c \in Credentials, TakeBack(c) PROVE RevivalsStay
  BY <1>15 DEF TakeBack, PastGate
<1>16. ASSUME NEW c \in Credentials, TakeCertificates(c) PROVE RevivalsStay
  BY <1>16 DEF TakeCertificates
<1>17. ASSUME NEW c \in Credentials, TakingStops(c) PROVE RevivalsStay
  BY <1>17 DEF TakingStops
<1>18. CASE UNCHANGED enrolmentVars
  BY <1>18 DEF enrolmentVars
<1> QED
  BY <1>1, <1>2, <1>3, <1>4, <1>5, <1>6, <1>7, <1>8, <1>9,
     <1>10, <1>11, <1>12, <1>13, <1>14, <1>15, <1>16, <1>17, <1>18
     DEF EnrolmentNext, Enrol, Withdraw

(* Nobody passes the gate of a credential that was taken back, but of a token made
   good again. *)
LEMMA GateStep ==
    ASSUME EnrolmentTypeOK, Phased, AtTheGate, TakenIsDead, [EnrolmentNext]_enrolmentVars,
           RevivalsStay
    PROVE  AtTheGate'
<1> USE EnrolmentConstants
    DEF EnrolmentTypeOK, Ends, Phased, AtTheGate, RevivalsStay,
        Go, certificates, credentials, withdrawals
<1>1. ASSUME NEW r \in Enrolments, NEW c \in Credentials \cup {Workload},
             NEW d \in Devices \cup {NoDevice}, Verify(r, c, d)
      PROVE  AtTheGate'
  BY <1>1 DEF Verify, TakenIsDead, Credentials, Revived
<1>2. ASSUME NEW r \in Enrolments, Claim(r) PROVE AtTheGate'
  BY <1>2 DEF Claim, Claimable, TakenIsDead, Credentials
<1>3. ASSUME NEW r \in Enrolments, RefuseEnrolment(r) PROVE AtTheGate'
  BY <1>3 DEF RefuseEnrolment
<1>4. ASSUME NEW r \in Enrolments, Record(r) PROVE AtTheGate'
  BY <1>4 DEF Record
<1>5. ASSUME NEW r \in Enrolments, NoteIssued(r) PROVE AtTheGate'
  BY <1>5 DEF NoteIssued
<1>6. ASSUME NEW r \in Enrolments, Audit(r) PROVE AtTheGate'
  BY <1>6 DEF Audit
<1>7. ASSUME NEW r \in Enrolments, Fails(r) PROVE AtTheGate'
  BY <1>7 DEF Fails
<1>8. ASSUME NEW r \in Enrolments, Release(r) PROVE AtTheGate'
  BY <1>8 DEF Release
<1>9. ASSUME NEW r \in Enrolments, ReleaseFails(r) PROVE AtTheGate'
  BY <1>9 DEF ReleaseFails
<1>10. ASSUME NEW r \in Enrolments, Drop(r) PROVE AtTheGate'
  BY <1>10 DEF Drop
<1>11. ASSUME NEW r \in Enrolments, ListOthers(r) PROVE AtTheGate'
  BY <1>11 DEF ListOthers
<1>12. ASSUME NEW r \in Enrolments, Superseded(r) PROVE AtTheGate'
  BY <1>12 DEF Superseded
<1>13. ASSUME NEW r \in Enrolments, SupersedeFails(r) PROVE AtTheGate'
  BY <1>13 DEF SupersedeFails
<1>14. ASSUME NEW r \in Enrolments, NEW q \in Enrolments, Supersede(r, q) PROVE AtTheGate'
  BY <1>14 DEF Supersede
<1>15. ASSUME NEW c \in Credentials, TakeBack(c) PROVE AtTheGate'
  BY <1>15 DEF TakeBack, PastGate
<1>16. ASSUME NEW c \in Credentials, TakeCertificates(c) PROVE AtTheGate'
  BY <1>16 DEF TakeCertificates
<1>17. ASSUME NEW c \in Credentials, TakingStops(c) PROVE AtTheGate'
  BY <1>17 DEF TakingStops
<1>18. CASE UNCHANGED enrolmentVars
  BY <1>18 DEF enrolmentVars, Revived
<1> QED
  BY <1>1, <1>2, <1>3, <1>4, <1>5, <1>6, <1>7, <1>8, <1>9,
     <1>10, <1>11, <1>12, <1>13, <1>14, <1>15, <1>16, <1>17, <1>18
     DEF EnrolmentNext, Enrol, Withdraw

(* Only the release of a claim made before makes it good again. *)
LEMMA LiveStep ==
    ASSUME EnrolmentTypeOK, Phased, AtTheGate, TakenIsDead, [EnrolmentNext]_enrolmentVars,
           RevivalsStay
    PROVE  TakenIsDead'
<1> USE EnrolmentConstants
    DEF EnrolmentTypeOK, Ends, Phased, TakenIsDead, RevivalsStay,
        Go, certificates, credentials, withdrawals
<1>1. ASSUME NEW r \in Enrolments, NEW c \in Credentials \cup {Workload},
             NEW d \in Devices \cup {NoDevice}, Verify(r, c, d)
      PROVE  TakenIsDead'
  BY <1>1 DEF Verify
<1>2. ASSUME NEW r \in Enrolments, Claim(r) PROVE TakenIsDead'
  BY <1>2 DEF Claim
<1>3. ASSUME NEW r \in Enrolments, RefuseEnrolment(r) PROVE TakenIsDead'
  BY <1>3 DEF RefuseEnrolment
<1>4. ASSUME NEW r \in Enrolments, Record(r) PROVE TakenIsDead'
  BY <1>4 DEF Record
<1>5. ASSUME NEW r \in Enrolments, NoteIssued(r) PROVE TakenIsDead'
  BY <1>5 DEF NoteIssued
<1>6. ASSUME NEW r \in Enrolments, Audit(r) PROVE TakenIsDead'
  BY <1>6 DEF Audit
<1>7. ASSUME NEW r \in Enrolments, Fails(r) PROVE TakenIsDead'
  BY <1>7 DEF Fails
<1>8. ASSUME NEW r \in Enrolments, Release(r) PROVE TakenIsDead'
  BY <1>8 DEF Release, AtTheGate, Revived, Credentials
<1>9. ASSUME NEW r \in Enrolments, ReleaseFails(r) PROVE TakenIsDead'
  BY <1>9 DEF ReleaseFails
<1>10. ASSUME NEW r \in Enrolments, Drop(r) PROVE TakenIsDead'
  BY <1>10 DEF Drop
<1>11. ASSUME NEW r \in Enrolments, ListOthers(r) PROVE TakenIsDead'
  BY <1>11 DEF ListOthers
<1>12. ASSUME NEW r \in Enrolments, Superseded(r) PROVE TakenIsDead'
  BY <1>12 DEF Superseded
<1>13. ASSUME NEW r \in Enrolments, SupersedeFails(r) PROVE TakenIsDead'
  BY <1>13 DEF SupersedeFails
<1>14. ASSUME NEW r \in Enrolments, NEW q \in Enrolments, Supersede(r, q) PROVE TakenIsDead'
  BY <1>14 DEF Supersede
<1>15. ASSUME NEW c \in Credentials, TakeBack(c) PROVE TakenIsDead'
  BY <1>15 DEF TakeBack
<1>16. ASSUME NEW c \in Credentials, TakeCertificates(c) PROVE TakenIsDead'
  BY <1>16 DEF TakeCertificates
<1>17. ASSUME NEW c \in Credentials, TakingStops(c) PROVE TakenIsDead'
  BY <1>17 DEF TakingStops
<1>18. CASE UNCHANGED enrolmentVars
  BY <1>18 DEF enrolmentVars, Revived
<1> QED
  BY <1>1, <1>2, <1>3, <1>4, <1>5, <1>6, <1>7, <1>8, <1>9,
     <1>10, <1>11, <1>12, <1>13, <1>14, <1>15, <1>16, <1>17, <1>18
     DEF EnrolmentNext, Enrol, Withdraw

(* The device that spent a token is named until the token is good or taken back. *)
LEMMA GraceStep ==
    ASSUME EnrolmentTypeOK, Phased, TakenIsDead, GraceIsSpenders, [EnrolmentNext]_enrolmentVars,
           RevivalsStay
    PROVE  GraceIsSpenders'
<1> USE EnrolmentConstants
    DEF EnrolmentTypeOK, Ends, Phased, GraceIsSpenders, RevivalsStay,
        Go, certificates, credentials, withdrawals
<1>1. ASSUME NEW r \in Enrolments, NEW c \in Credentials \cup {Workload},
             NEW d \in Devices \cup {NoDevice}, Verify(r, c, d)
      PROVE  GraceIsSpenders'
  BY <1>1 DEF Verify
<1>2. ASSUME NEW r \in Enrolments, Claim(r) PROVE GraceIsSpenders'
  BY <1>2 DEF Claim, Claimable, TakenIsDead, Credentials
<1>3. ASSUME NEW r \in Enrolments, RefuseEnrolment(r) PROVE GraceIsSpenders'
  BY <1>3 DEF RefuseEnrolment
<1>4. ASSUME NEW r \in Enrolments, Record(r) PROVE GraceIsSpenders'
  BY <1>4 DEF Record
<1>5. ASSUME NEW r \in Enrolments, NoteIssued(r) PROVE GraceIsSpenders'
  BY <1>5 DEF NoteIssued
<1>6. ASSUME NEW r \in Enrolments, Audit(r) PROVE GraceIsSpenders'
  BY <1>6 DEF Audit
<1>7. ASSUME NEW r \in Enrolments, Fails(r) PROVE GraceIsSpenders'
  BY <1>7 DEF Fails
<1>8. ASSUME NEW r \in Enrolments, Release(r) PROVE GraceIsSpenders'
  BY <1>8 DEF Release
<1>9. ASSUME NEW r \in Enrolments, ReleaseFails(r) PROVE GraceIsSpenders'
  BY <1>9 DEF ReleaseFails
<1>10. ASSUME NEW r \in Enrolments, Drop(r) PROVE GraceIsSpenders'
  BY <1>10 DEF Drop
<1>11. ASSUME NEW r \in Enrolments, ListOthers(r) PROVE GraceIsSpenders'
  BY <1>11 DEF ListOthers
<1>12. ASSUME NEW r \in Enrolments, Superseded(r) PROVE GraceIsSpenders'
  BY <1>12 DEF Superseded
<1>13. ASSUME NEW r \in Enrolments, SupersedeFails(r) PROVE GraceIsSpenders'
  BY <1>13 DEF SupersedeFails
<1>14. ASSUME NEW r \in Enrolments, NEW q \in Enrolments, Supersede(r, q)
      PROVE  GraceIsSpenders'
  BY <1>14 DEF Supersede
<1>15. ASSUME NEW c \in Credentials, TakeBack(c) PROVE GraceIsSpenders'
  BY <1>15 DEF TakeBack
<1>16. ASSUME NEW c \in Credentials, TakeCertificates(c) PROVE GraceIsSpenders'
  BY <1>16 DEF TakeCertificates
<1>17. ASSUME NEW c \in Credentials, TakingStops(c) PROVE GraceIsSpenders'
  BY <1>17 DEF TakingStops
<1>18. CASE UNCHANGED enrolmentVars
  BY <1>18 DEF enrolmentVars, Revived
<1> QED
  BY <1>1, <1>2, <1>3, <1>4, <1>5, <1>6, <1>7, <1>8, <1>9,
     <1>10, <1>11, <1>12, <1>13, <1>14, <1>15, <1>16, <1>17, <1>18
     DEF EnrolmentNext, Enrol, Withdraw

(* A row written after the certificates were taken back is that of a request past
   the gate. *)
LEMMA CertificatesStep ==
    ASSUME EnrolmentTypeOK, Phased, AtTheGate, CertificatesGone, [EnrolmentNext]_enrolmentVars,
           RevivalsStay
    PROVE  CertificatesGone'
<1> USE EnrolmentConstants
    DEF EnrolmentTypeOK, Ends, Phased, CertificatesGone, RevivalsStay,
        Go, certificates, credentials, withdrawals
<1>1. ASSUME NEW r \in Enrolments, NEW c \in Credentials \cup {Workload},
             NEW d \in Devices \cup {NoDevice}, Verify(r, c, d)
      PROVE  CertificatesGone'
  BY <1>1 DEF Verify
<1>2. ASSUME NEW r \in Enrolments, Claim(r) PROVE CertificatesGone'
  BY <1>2 DEF Claim
<1>3. ASSUME NEW r \in Enrolments, RefuseEnrolment(r) PROVE CertificatesGone'
  BY <1>3 DEF RefuseEnrolment
<1>4. ASSUME NEW r \in Enrolments, Record(r) PROVE CertificatesGone'
  BY <1>4 DEF Record, AtTheGate
<1>5. ASSUME NEW r \in Enrolments, NoteIssued(r) PROVE CertificatesGone'
  BY <1>5 DEF NoteIssued
<1>6. ASSUME NEW r \in Enrolments, Audit(r) PROVE CertificatesGone'
  BY <1>6 DEF Audit
<1>7. ASSUME NEW r \in Enrolments, Fails(r) PROVE CertificatesGone'
  BY <1>7 DEF Fails
<1>8. ASSUME NEW r \in Enrolments, Release(r) PROVE CertificatesGone'
  BY <1>8 DEF Release
<1>9. ASSUME NEW r \in Enrolments, ReleaseFails(r) PROVE CertificatesGone'
  BY <1>9 DEF ReleaseFails
<1>10. ASSUME NEW r \in Enrolments, Drop(r) PROVE CertificatesGone'
  BY <1>10 DEF Drop
<1>11. ASSUME NEW r \in Enrolments, ListOthers(r) PROVE CertificatesGone'
  BY <1>11 DEF ListOthers
<1>12. ASSUME NEW r \in Enrolments, Superseded(r) PROVE CertificatesGone'
  BY <1>12 DEF Superseded
<1>13. ASSUME NEW r \in Enrolments, SupersedeFails(r) PROVE CertificatesGone'
  BY <1>13 DEF SupersedeFails
<1>14. ASSUME NEW r \in Enrolments, NEW q \in Enrolments, Supersede(r, q)
      PROVE  CertificatesGone'
  BY <1>14 DEF Supersede
<1>15. ASSUME NEW c \in Credentials, TakeBack(c) PROVE CertificatesGone'
  BY <1>15 DEF TakeBack
<1>16. ASSUME NEW c \in Credentials, TakeCertificates(c) PROVE CertificatesGone'
  BY <1>16 DEF TakeCertificates
<1>17. ASSUME NEW c \in Credentials, TakingStops(c) PROVE CertificatesGone'
  BY <1>17 DEF TakingStops
<1>18. CASE UNCHANGED enrolmentVars
  BY <1>18 DEF enrolmentVars, Revived
<1> QED
  BY <1>1, <1>2, <1>3, <1>4, <1>5, <1>6, <1>7, <1>8, <1>9,
     <1>10, <1>11, <1>12, <1>13, <1>14, <1>15, <1>16, <1>17, <1>18
     DEF EnrolmentNext, Enrol, Withdraw

-----------------------------------------------------------------------------
(* The invariant holds where the server starts.                              *)
LEMMA Initially == EnrolmentInit => EnrolmentIInv
BY EnrolmentConstants
   DEF EnrolmentInit, EnrolmentIInv, EnrolmentTypeOK, Ends, Phased, HeldOnce, Holding,
       AtTheGate, TakenIsDead,
       GraceIsSpenders, CertificatesGone, Succession, Credentials

(* Every step keeps the invariant: one case per action.                      *)
LEMMA Kept == EnrolmentIInv /\ [EnrolmentNext]_enrolmentVars => EnrolmentIInv'
<1> SUFFICES ASSUME EnrolmentIInv, [EnrolmentNext]_enrolmentVars PROVE EnrolmentIInv'
  OBVIOUS
<1>1. RevivalsStay
  BY RevivalStays DEF EnrolmentIInv
<1>2. EnrolmentTypeOK' /\ Phased' /\ HeldOnce' /\ Succession'
  BY TypeStep, PhasedStep, HeldStep, SuccessionStep DEF EnrolmentIInv
<1>3. AtTheGate' /\ TakenIsDead' /\ GraceIsSpenders' /\ CertificatesGone'
  BY <1>1, GateStep, LiveStep, GraceStep, CertificatesStep DEF EnrolmentIInv
<1> QED
  BY <1>2, <1>3 DEF EnrolmentIInv

(* The invariant holds in every reachable state.                             *)
LEMMA EnrolmentAlways == EnrolmentSpec => []EnrolmentIInv
BY Initially, Kept, PTL DEF EnrolmentSpec

(* The types of every row and of every request (Enrolment.EnrolmentTypeOK).               *)
THEOREM EnrolmentTyped == EnrolmentSpec => []EnrolmentTypeOK
<1>1. EnrolmentIInv => EnrolmentTypeOK
  BY DEF EnrolmentIInv
<1> QED
  BY <1>1, EnrolmentAlways, PTL

(* However many requests present a one-time token at once, and whichever of them  *)
(* fail, one holds a certificate for it (spend.rs claim_single_use).             *)
THEOREM OneCertificateAToken == EnrolmentSpec => []TokenBuysOnce
<1>1. EnrolmentIInv => TokenBuysOnce
  BY DEF EnrolmentIInv, HeldOnce, Holding, TokenBuysOnce, Keeps
<1> QED
  BY <1>1, EnrolmentAlways, PTL

(* What an administrator took back buys nothing, fetches no profile and leaves no  *)
(* certificate behind, except as TakenBackStays says (credentials.rs revoke).     *)
THEOREM TakenBackForGood == EnrolmentSpec => []TakenBackStays
<1>1. EnrolmentIInv => CertificatesGo
  BY DEF EnrolmentIInv, CertificatesGone, CertificatesGo
<1>2. EnrolmentIInv => TakenBackStays
  BY <1>1 DEF EnrolmentIInv, TakenIsDead, TakenBackStays
<1> QED
  BY <1>2, EnrolmentAlways, PTL

(* However many enrolments of a workload overlap, once all are done one of their  *)
(* certificates at most is good (pki/revoke.rs supersede_workload).              *)
THEOREM OneWorkload == EnrolmentSpec => []OneWorkloadLeft
<1>1. EnrolmentIInv => OneWorkloadLeft
  BY DEF EnrolmentIInv, Succession, OneWorkloadLeft
<1> QED
  BY <1>1, EnrolmentAlways, PTL

-----------------------------------------------------------------------------
(* Refresh tokens.                                                           *)

\* What a request under way will write is a stray if its family was ended.
FlightsMarked ==
    \A r \in Requests : InFlight(r) /\ ~NewFamily(r) =>
        \A j \in Ids : Stored(j) /\ rows[j].family = FamilyOf(r) /\ rows[j].revoked =>
            request[r].cut \/ rows[request[r].from].stray

\* So it is once all sessions of an account that is switched off were ended.
MintsMarked ==
    /\ ended => disabled
    /\ ended => \A r \in Requests : request[r].at = "mint" =>
          request[r].cut \/ (~NewFamily(r) /\ rows[request[r].from].stray)

\* A code is with one request, or has begun one session, or with nobody.
CodesApart ==
    /\ \A c \in Codes : codes[c].state # "spent" =>
          /\ \A i \in Ids : Stored(i) => rows[i].code # c
          /\ \A r \in Requests : request[r].code # c
    /\ \A r, s \in Requests :
          request[r].code = request[s].code /\ request[r].code # NoCode => r = s
    /\ \A r \in Requests, i \in Ids :
          Stored(i) /\ rows[i].code = request[r].code => request[r].code = NoCode

\* What a request will write is no wider than what it was begun with.
FlightsNarrow ==
    \A r \in Requests : request[r].admin =>
        /\ ~NewFamily(r) => rows[request[r].from].admin
        /\ request[r].code # NoCode => codes[request[r].code].admin

EndsHold == EndedStaysEnded /\ FlightsMarked /\ SwitchedOffHasNoSession /\ MintsMarked
Origins == CodesApart /\ CodeBuysOneSession /\ FlightsNarrow /\ NeverWidens
IInv == TypeOK /\ OneLiveMember /\ EndsHold /\ SpentIsAccountedFor /\ Origins

-----------------------------------------------------------------------------
(* Ending families marks their rows and changes nothing else of any row          *)
(* (refresh_tokens.rs revoke_family, revoke_all_for_user).                       *)
LEMMA RevokedRows ==
    ASSUME TypeOK, NEW S
    PROVE  /\ Revoked(S) \in [Ids -> Row \cup {NoRow}]
           /\ \A i \in Ids :
                 /\ Revoked(S)[i] # NoRow <=> Stored(i)
                 /\ Stored(i) =>
                       /\ Revoked(S)[i].family = rows[i].family
                       /\ Revoked(S)[i].from = rows[i].from
                       /\ Revoked(S)[i].code = rows[i].code
                       /\ Revoked(S)[i].admin = rows[i].admin
                       /\ Revoked(S)[i].used = rows[i].used
                       /\ Revoked(S)[i].stray = rows[i].stray
                       /\ Revoked(S)[i].lost = rows[i].lost
                       /\ Revoked(S)[i].revoked <=> rows[i].revoked \/ rows[i].family \in S
<1>1. rows \in [Ids -> Row \cup {NoRow}]
  BY DEF TypeOK
<1>2. \A i \in Ids : Stored(i) => rows[i] \in Row
  BY <1>1 DEF Stored
<1>3. \A w \in Row : [w EXCEPT !.revoked = TRUE] \in Row \ {NoRow}
  BY NoRowIsNoRow DEF Row
<1>4. \A i \in Ids : Revoked(S)[i] =
          IF Stored(i) /\ rows[i].family \in S
          THEN [rows[i] EXCEPT !.revoked = TRUE] ELSE rows[i]
  BY DEF Revoked
<1>5. Revoked(S) \in [Ids -> Row \cup {NoRow}]
  BY <1>1, <1>2, <1>3 DEF Revoked
<1>6. ASSUME NEW i \in Ids
      PROVE  /\ Revoked(S)[i] # NoRow <=> Stored(i)
             /\ Stored(i) =>
                   /\ Revoked(S)[i].family = rows[i].family
                   /\ Revoked(S)[i].from = rows[i].from
                   /\ Revoked(S)[i].code = rows[i].code
                   /\ Revoked(S)[i].admin = rows[i].admin
                   /\ Revoked(S)[i].used = rows[i].used
                   /\ Revoked(S)[i].stray = rows[i].stray
                   /\ Revoked(S)[i].lost = rows[i].lost
                   /\ Revoked(S)[i].revoked <=> rows[i].revoked \/ rows[i].family \in S
  <2>1. CASE Stored(i) /\ rows[i].family \in S
    <3>1. /\ Revoked(S)[i] = [rows[i] EXCEPT !.revoked = TRUE] /\ rows[i] \in Row
          /\ Revoked(S)[i] \in Row \ {NoRow}
      BY <1>2, <1>3, <1>4, <2>1
    <3> QED BY <2>1, <3>1 DEF Row
  <2>2. CASE ~(Stored(i) /\ rows[i].family \in S)
    BY <1>2, <1>4, <2>2 DEF Row, Stored
  <2> QED BY <2>1, <2>2
<1> QED
  BY <1>5, <1>6

(* Marking the requests under way changes nothing else of any request.           *)
LEMMA CutRequests ==
    ASSUME TypeOK, NEW S
    PROVE  /\ Cut(S) \in [Requests -> Request]
           /\ \A r \in Requests :
                 /\ Cut(S)[r].at = request[r].at /\ Cut(S)[r].from = request[r].from
                 /\ Cut(S)[r].code = request[r].code /\ Cut(S)[r].admin = request[r].admin
                 /\ Cut(S)[r].cut <=> request[r].cut \/ (InFlight(r) /\ FamilyOf(r) \in S)
  BY DEF Cut, TypeOK, Request, InFlight

(* An end of every session marks the requests in flight and changes nothing else*)
(* of any request.                                                           *)
LEMMA CutAllRequests ==
    ASSUME TypeOK
    PROVE  /\ CutAll \in [Requests -> Request]
           /\ \A r \in Requests :
                 /\ CutAll[r].at = request[r].at /\ CutAll[r].from = request[r].from
                 /\ CutAll[r].code = request[r].code /\ CutAll[r].admin = request[r].admin
                 /\ CutAll[r].cut <=> (request[r].cut \/ request[r].at = "mint"
                                         \/ (InFlight(r) /\ ~NewFamily(r)))
<1>1. request \in [Requests -> Request]
  BY DEF TypeOK
<1>2. \A q \in Request : /\ [q EXCEPT !.cut = TRUE] \in Request
                         /\ [q EXCEPT !.cut = TRUE].at = q.at
                         /\ [q EXCEPT !.cut = TRUE].from = q.from
                         /\ [q EXCEPT !.cut = TRUE].code = q.code
                         /\ [q EXCEPT !.cut = TRUE].admin = q.admin
                         /\ [q EXCEPT !.cut = TRUE].cut
  BY DEF Request
<1>3. \A r \in Requests : CutAll[r] =
          IF request[r].at = "mint" \/ (InFlight(r) /\ ~NewFamily(r))
          THEN [request[r] EXCEPT !.cut = TRUE] ELSE request[r]
  BY DEF CutAll
<1>4. CutAll \in [Requests -> Request]
  BY <1>1, <1>2 DEF CutAll
<1>5. ASSUME NEW r \in Requests
      PROVE  /\ CutAll[r].at = request[r].at /\ CutAll[r].from = request[r].from
             /\ CutAll[r].code = request[r].code /\ CutAll[r].admin = request[r].admin
             /\ CutAll[r].cut <=> (request[r].cut \/ request[r].at = "mint"
                                         \/ (InFlight(r) /\ ~NewFamily(r)))
  <2>1. request[r] \in Request
    BY <1>1
  <2>2. CASE request[r].at = "mint" \/ (InFlight(r) /\ ~NewFamily(r))
    <3>1. CutAll[r] = [request[r] EXCEPT !.cut = TRUE]
      BY <1>3, <2>2
    <3>2. /\ CutAll[r].at = request[r].at /\ CutAll[r].from = request[r].from
          /\ CutAll[r].code = request[r].code /\ CutAll[r].admin = request[r].admin
          /\ CutAll[r].cut = TRUE
      BY <2>1, <3>1 DEF Request
    <3> QED BY <2>2, <3>2
  <2>3. CASE ~(request[r].at = "mint" \/ (InFlight(r) /\ ~NewFamily(r)))
    <3>1. CutAll[r] = request[r]
      BY <1>3, <2>3
    <3>2. request[r].cut \in BOOLEAN
      BY <2>1 DEF Request
    <3> QED BY <2>3, <3>1, <3>2
  <2> QED BY <2>2, <2>3
<1> QED
  BY <1>4, <1>5

-----------------------------------------------------------------------------
(* The invariant holds where the server starts.                              *)
LEMMA InitHolds == Init => IInv
<1> SUFFICES ASSUME Init PROVE IInv
    OBVIOUS
<1>1. /\ \A i \in Ids : ~Stored(i)
      /\ \A r \in Requests : request[r] = Idle
      /\ \A c \in Codes : codes[c] = [state |-> "none", admin |-> FALSE]
      /\ ~disabled /\ ~ended
  BY DEF Init, Stored
<1>2. /\ Idle \in Request
      /\ Idle.at = "idle" /\ Idle.from = 0 /\ Idle.code = NoCode /\ ~Idle.admin
  BY TokenConstants DEF Idle, Request
<1>3. TypeOK
  <2>1. [state |-> "none", admin |-> FALSE] \in Code
    BY DEF Code
  <2> QED
    BY <1>1, <1>2, <2>1 DEF Init, TypeOK
<1>4. OneLiveMember /\ EndsHold /\ SpentIsAccountedFor
  BY <1>1, <1>2
  DEF OneLiveMember, Live, InFlight, EndsHold, EndedStaysEnded, FlightsMarked,
      SwitchedOffHasNoSession, MintsMarked, SpentIsAccountedFor
<1>5. Origins
  BY <1>1, <1>2, TokenConstants
  DEF Origins, CodesApart, CodeBuysOneSession, FlightsNarrow, NeverWidens
<1> QED
  BY <1>3, <1>4, <1>5 DEF IInv

(* Rows are marked as revoked, of requests under way nothing is changed but marks,   *)
(* and those of D become idle: what the steps that end families have in common.      *)
Ending(D, S) ==
    /\ rows' = Revoked(S)
    /\ request' \in [Requests -> Request]
    /\ \A s \in D : request'[s] = Idle
    /\ \A s \in Requests \ D :
          /\ request'[s].at = request[s].at /\ request'[s].from = request[s].from
          /\ request'[s].code = request[s].code /\ request'[s].admin = request[s].admin
          /\ request[s].cut => request'[s].cut
          /\ InFlight(s) /\ ~NewFamily(s) /\ FamilyOf(s) \in S => request'[s].cut
    /\ UNCHANGED <<disabled, codes>>

(* A request that has nothing to do carries no code and no rights.           *)
LEMMA IdleIs ==
    /\ Idle \in Request
    /\ Idle.at = "idle" /\ Idle.from = 0 /\ Idle.code = NoCode /\ ~Idle.admin
  BY TokenConstants DEF Idle, Request

(* An end of some sessions keeps the types.                                  *)
LEMMA EndingTyped ==
    ASSUME TypeOK, ended' \in BOOLEAN, NEW D, NEW S, Ending(D, S)
    PROVE  TypeOK'
<1>1. /\ rows' \in [Ids -> Row \cup {NoRow}]
      /\ \A i \in Ids : /\ Stored(i)' <=> Stored(i)
                        /\ Stored(i) => /\ rows'[i].family = rows[i].family
                                        /\ rows'[i].from = rows[i].from
                                        /\ rows'[i].used = rows[i].used
  BY RevokedRows DEF Ending, Stored
<1>2. \A i \in Ids : Stored(i) => rows[i].family \in Ids
  BY DEF TypeOK, Stored, Row
<1>3. \A i \in Ids : Stored(i)' =>
          /\ Stored(rows[i].family)' /\ rows'[rows'[i].family].from = 0
          /\ rows'[i].from # 0 => Stored(rows[i].from)'
  <2>1. \A i \in Ids : Stored(i) => rows[i] \in Row
    BY DEF TypeOK, Stored
  <2>2. \A i \in Ids : Stored(i) /\ rows[i].from # 0 => rows[i].from \in Ids
    BY <2>1 DEF Row, Ids
  <2>3. \A i \in Ids : Stored(i) =>
            /\ Stored(rows[i].family) /\ rows[rows[i].family].from = 0
            /\ rows[i].from # 0 => Stored(rows[i].from)
    BY DEF TypeOK
  <2> QED BY <1>1, <1>2, <2>2, <2>3 DEF Stored
<1>4. \A s \in Requests : request'[s].from # 0 =>
          Stored(request[s].from)' /\ request'[s].from = request[s].from
          /\ (request'[s].at \in {"read", "mint", "refuse"} => rows'[request[s].from].used)
  <2> SUFFICES ASSUME NEW s \in Requests, request'[s].from # 0
               PROVE  /\ Stored(request[s].from)' /\ request'[s].from = request[s].from
                      /\ (request'[s].at \in {"read", "mint", "refuse"}
                             => rows'[request[s].from].used)
      OBVIOUS
  <2>1. s \notin D /\ request'[s].from = request[s].from /\ request'[s].at = request[s].at
    BY IdleIs DEF Ending
  <2>2. request[s].from \in Ids
    BY <2>1 DEF TypeOK, Request, Ids
  <2> QED
    BY <1>1, <2>1, <2>2 DEF TypeOK
<1>5. /\ request' \in [Requests -> Request] /\ disabled' \in BOOLEAN
      /\ codes' \in [Codes -> Code] /\ ended' \in BOOLEAN
  BY DEF TypeOK, Ending
<1> QED
  BY <1>1, <1>3, <1>4, <1>5 DEF TypeOK, Stored

(* An end of some sessions keeps the invariant, given that it marks who may still*)
(* write a row (identity/sessions.rs, refresh_tokens.rs).                    *)
LEMMA EndingKeeps ==
    ASSUME IInv, ended' \in BOOLEAN, NEW D, NEW S, Ending(D, S),
           \/ ended' = ended
           \/ /\ S = Ids /\ ended' = disabled
              /\ \A s \in Requests \ D : request[s].at = "mint" => request'[s].cut,
           \A r \in Requests \cap D :
               ~InFlight(r) /\ (request[r].at = "refuse" => FamilyOf(r) \in S)
    PROVE  IInv'
<1> USE DEF IInv, EndsHold, Origins
<1>1. TypeOK'
  BY EndingTyped
<1>2. \A i \in Ids :
          /\ Stored(i)' <=> Stored(i)
          /\ Stored(i) => /\ rows'[i].family = rows[i].family /\ rows'[i].from = rows[i].from
                          /\ rows'[i].code = rows[i].code /\ rows'[i].admin = rows[i].admin
                          /\ rows'[i].used = rows[i].used /\ rows'[i].stray = rows[i].stray
                          /\ rows'[i].lost = rows[i].lost
                          /\ (rows'[i].revoked <=> rows[i].revoked \/ rows[i].family \in S)
  BY RevokedRows DEF Ending, Stored
<1>3. \A i \in Ids : Live(i)' <=> Live(i) /\ rows[i].family \notin S
  BY <1>2 DEF Live
<1>4. \A s \in Requests :
          /\ InFlight(s)' <=> InFlight(s) /\ s \notin D
          /\ InFlight(s)' => (NewFamily(s)' <=> NewFamily(s)) /\ request'[s].from = request[s].from
  BY IdleIs DEF Ending, InFlight, NewFamily
<1>5. \A s \in Requests : InFlight(s) /\ ~NewFamily(s) =>
          request[s].from \in Ids /\ Stored(request[s].from)
  BY DEF TypeOK, Request, Ids, NewFamily
<1>6. \A s \in Requests : InFlight(s)' => FamilyOf(s)' = FamilyOf(s)
  BY <1>2, <1>4, <1>5 DEF FamilyOf, NewFamily
<1>7. OneLiveMember'
  BY <1>2, <1>3, <1>4, <1>6 DEF OneLiveMember, Live
<1>8. EndedStaysEnded'
  BY <1>2, <1>3 DEF EndedStaysEnded, Live
<1>9. FlightsMarked'
  <2> SUFFICES ASSUME NEW s \in Requests, InFlight(s)', ~NewFamily(s)', NEW j \in Ids,
                      Stored(j)', rows'[j].family = FamilyOf(s)', rows'[j].revoked
               PROVE  request'[s].cut \/ rows'[request'[s].from].stray
      BY DEF FlightsMarked
  <2>1. /\ InFlight(s) /\ ~NewFamily(s) /\ s \notin D /\ FamilyOf(s)' = FamilyOf(s)
        /\ Stored(j) /\ rows[j].family = FamilyOf(s)
        /\ rows[j].revoked \/ FamilyOf(s) \in S
        /\ request'[s].from = request[s].from
    BY <1>2, <1>4, <1>6
  <2>2. CASE FamilyOf(s) \in S
    BY <2>1, <2>2 DEF Ending
  <2>3. CASE rows[j].revoked
    <3>1. request[s].cut \/ rows[request[s].from].stray
      BY <2>1, <2>3 DEF FlightsMarked
    <3> QED BY <1>2, <1>5, <2>1, <3>1 DEF Ending
  <2> QED BY <2>1, <2>2, <2>3
<1>10. SwitchedOffHasNoSession'
  <2>1. CASE ended' = ended
    BY <1>2, <1>3, <2>1 DEF SwitchedOffHasNoSession, Ending, Live
  <2>2. CASE S = Ids
    BY <1>2, <1>3, <2>2 DEF SwitchedOffHasNoSession, Live, TypeOK, Row, Stored
  <2> QED BY <2>1, <2>2
<1>11. MintsMarked'
  <2> DEFINE mints == {s \in Requests \ D : request[s].at = "mint"}
  <2>1. \A s \in Requests : request'[s].at = "mint" => s \in mints
    BY IdleIs DEF Ending
  <2>2. CASE ended' = ended
    BY <1>2, <1>4, <1>5, <2>1, <2>2 DEF MintsMarked, Ending, InFlight
  <2>3. CASE ended' = disabled /\ \A s \in mints : request'[s].cut
    BY <2>1, <2>3 DEF MintsMarked, Ending
  <2> QED BY <2>2, <2>3
<1>12. SpentIsAccountedFor'
  <2> SUFFICES ASSUME NEW i \in Ids, Stored(i)', rows'[i].used, ~rows'[i].revoked, ~rows'[i].lost
               PROVE  \/ \E j \in Ids : Stored(j)' /\ rows'[j].from = i
                      \/ \E s \in Requests : request'[s].from = i
                                              /\ request'[s].at \in {"read", "mint", "refuse"}
      BY DEF SpentIsAccountedFor
  <2>1. Stored(i) /\ rows[i].used /\ ~rows[i].revoked /\ ~rows[i].lost /\ rows[i].family \notin S
    BY <1>2
  <2>2. CASE \E j \in Ids : Stored(j) /\ rows[j].from = i
    BY <1>2, <2>2
  <2>3. ASSUME NEW s \in Requests, request[s].from = i, request[s].at \in {"read", "mint", "refuse"}
        PROVE  request'[s].from = i /\ request'[s].at \in {"read", "mint", "refuse"}
    <3>1. s \notin D
      BY <2>1, <2>3 DEF FamilyOf, InFlight, Ids
    <3> QED BY <2>3, <3>1 DEF Ending
  <2> QED BY <2>1, <2>2, <2>3 DEF SpentIsAccountedFor
<1>13. \A s \in Requests : \/ request'[s].code = NoCode /\ ~request'[s].admin
                          \/ /\ request'[s].code = request[s].code
                             /\ request'[s].admin = request[s].admin
                             /\ request'[s].from = request[s].from
  BY IdleIs DEF Ending
<1>14. CodesApart' /\ CodeBuysOneSession'
  BY <1>2, <1>13, TokenConstants, IdleIs DEF CodesApart, CodeBuysOneSession, Ending
<1>15. FlightsNarrow'
  <2>1. \A s \in Requests : ~NewFamily(s) => request[s].from \in Ids /\ Stored(request[s].from)
    BY DEF TypeOK, Request, Ids, NewFamily
  <2> QED BY <1>2, <1>13, <2>1 DEF FlightsNarrow, NewFamily, Ending
<1>16. NeverWidens'
  <2> SUFFICES ASSUME NEW i \in Ids, Stored(i)', rows'[i].admin
               PROVE  /\ rows'[i].from # 0 => rows'[rows'[i].from].admin
                      /\ rows'[i].code # NoCode => codes'[rows'[i].code].admin
    BY DEF NeverWidens
  <2>1. /\ Stored(i) /\ rows[i].admin
        /\ rows'[i].from = rows[i].from /\ rows'[i].code = rows[i].code
    BY <1>2
  <2>2. /\ rows[i].from # 0 => rows[rows[i].from].admin
        /\ rows[i].code # NoCode => codes[rows[i].code].admin
    BY <2>1 DEF NeverWidens
  <2>3. rows[i].from # 0 => rows[i].from \in Ids /\ Stored(rows[i].from)
    <3>1. rows[i] \in Row
      BY <2>1 DEF TypeOK, Stored
    <3>2. rows[i].from \in 0..MaxRow
      BY <3>1 DEF Row
    <3> QED BY <2>1, <3>2, TokenConstants DEF TypeOK, Ids
  <2>4. codes' = codes
    BY DEF Ending
  <2> QED BY <1>2, <2>1, <2>2, <2>3, <2>4
<1> QED
  BY <1>1, <1>7, <1>8, <1>9, <1>10, <1>11, <1>12, <1>14, <1>15, <1>16

(* The steps that end families: a sign-out, a refusal and a replay.               *)
LEMMA EndAllKeeps ==
    ASSUME IInv, NEW r \in Requests, EndAll(r)
    PROVE  IInv'
<1>1. TypeOK
  BY DEF IInv
<1>2. /\ request[r].at = "end" /\ rows' = Revoked(Ids) /\ ended' = disabled
      /\ request' = [CutAll EXCEPT ![r] = Idle] /\ UNCHANGED <<disabled, codes>>
  BY DEF EndAll
<1>3. /\ request' \in [Requests -> Request] /\ request'[r] = Idle
      /\ \A s \in Requests \ {r} : request'[s] = CutAll[s]
  BY <1>1, <1>2, CutAllRequests, IdleIs
<1>4. \A s \in Requests \ {r} :
          /\ request'[s].at = request[s].at /\ request'[s].from = request[s].from
          /\ request'[s].code = request[s].code /\ request'[s].admin = request[s].admin
  BY <1>1, <1>3, CutAllRequests
<1>5. \A s \in Requests \ {r} :
          /\ request[s].cut => request'[s].cut
          /\ request[s].at = "mint" => request'[s].cut
          /\ InFlight(s) /\ ~NewFamily(s) => request'[s].cut
  BY <1>1, <1>3, CutAllRequests
<1>6. Ending({r}, Ids)
  BY <1>2, <1>3, <1>4, <1>5 DEF Ending
<1>7. ended' \in BOOLEAN /\ ~InFlight(r) /\ request[r].at # "refuse"
  BY <1>1, <1>2 DEF TypeOK, InFlight
<1> QED
  BY <1>2, <1>5, <1>6, <1>7, EndingKeeps

(* A refusal ends the family of the token it refuses.                        *)
LEMMA RefuseKeeps ==
    ASSUME IInv, NEW r \in Requests, Refuse(r)
    PROVE  IInv'
<1>1. TypeOK
  BY DEF IInv
<1> DEFINE S == {FamilyOf(r)}
<1>2. /\ request[r].at = "refuse" /\ rows' = Revoked(S)
      /\ request' = [Cut(S) EXCEPT ![r] = Idle] /\ UNCHANGED <<disabled, codes, ended>>
  BY DEF Refuse
<1>3. /\ request' \in [Requests -> Request] /\ request'[r] = Idle
      /\ \A s \in Requests \ {r} : request'[s] = Cut(S)[s]
  BY <1>1, <1>2, CutRequests, IdleIs
<1>4. Ending({r}, S)
  BY <1>1, <1>2, <1>3, CutRequests DEF Ending
<1>5. ended' \in BOOLEAN /\ ~InFlight(r)
  BY <1>1, <1>2 DEF TypeOK, InFlight
<1> QED
  BY <1>2, <1>4, <1>5, EndingKeeps

(* A token that was spent before ends its family (refresh_tokens.rs).        *)
LEMMA ReplayKeeps ==
    ASSUME IInv, NEW i \in Ids, Replay(i), UNCHANGED <<disabled, codes, ended>>
    PROVE  IInv'
<1>1. TypeOK
  BY DEF IInv
<1> DEFINE S == {rows[i].family}
<1>2. rows' = Revoked(S) /\ request' = Cut(S)
  BY DEF Replay
<1>3. ended' \in BOOLEAN
  BY <1>1 DEF TypeOK
<1>4. Ending({}, S)
  BY <1>1, <1>2, CutRequests DEF Ending
<1> QED
  BY <1>3, <1>4, EndingKeeps

-----------------------------------------------------------------------------
(* One request goes on or is given up, and of rows nothing changes but that a       *)
(* token may be lost: what the steps between spending and writing have in common.    *)
Turning(r, q) ==
    /\ rows' \in [Ids -> Row \cup {NoRow}]
    /\ \A i \in Ids :
          /\ rows'[i] # NoRow <=> rows[i] # NoRow
          /\ rows[i] # NoRow =>
                /\ rows'[i].family = rows[i].family /\ rows'[i].from = rows[i].from
                /\ rows'[i].code = rows[i].code /\ rows'[i].admin = rows[i].admin
                /\ rows'[i].used = rows[i].used /\ rows'[i].revoked = rows[i].revoked
                /\ rows'[i].stray = rows[i].stray
                /\ rows[i].lost => rows'[i].lost
    /\ q \in Request /\ request' = [request EXCEPT ![r] = q]
    /\ disabled' \in BOOLEAN /\ codes' \in [Codes -> Code] /\ ended' \in BOOLEAN

Going(r, q) ==
    /\ request[r].at = "read" /\ q.at \in {"mint", "refuse"}
    /\ q.from = request[r].from /\ q.code = request[r].code /\ q.cut = request[r].cut
    /\ q.admin => request[r].admin

Leaving(r, q) ==
    /\ q.from = 0
    /\ \/ request[r].from = 0 \/ request[r].at \notin {"read", "mint", "refuse"}
       \/ rows'[request[r].from].lost

(* A request that goes on, or is done, keeps the invariant: what every step of an*)
(* exchange or a redemption has in common.                                   *)
LEMMA TurningKeeps ==
    ASSUME IInv, NEW r \in Requests, NEW q, Turning(r, q), Going(r, q) \/ Leaving(r, q),
           ended' => ended /\ disabled' /\ q.at # "mint",
           \/ codes' = codes /\ q.code \in {NoCode, request[r].code}
           \/ /\ q.code \in Codes /\ codes[q.code].state = "live"
              /\ codes'[q.code].state = "spent"
              /\ \A c \in Codes : codes'[c].admin = codes[c].admin
              /\ \A c \in Codes \ {q.code} : codes'[c] = codes[c],
           q.admin /\ q.code # NoCode => codes'[q.code].admin
    PROVE  IInv'
<1> USE DEF IInv, EndsHold, Origins
<1>1. /\ \A i \in Ids :
            /\ Stored(i)' <=> Stored(i)
            /\ Stored(i) =>
                  /\ rows'[i].family = rows[i].family /\ rows'[i].from = rows[i].from
                  /\ rows'[i].code = rows[i].code /\ rows'[i].admin = rows[i].admin
                  /\ rows'[i].used = rows[i].used /\ rows'[i].revoked = rows[i].revoked
                  /\ rows'[i].stray = rows[i].stray
                  /\ rows[i].lost => rows'[i].lost
  BY DEF Turning, Stored
<1>2. /\ request'[r] = q /\ \A s \in Requests \ {r} : request'[s] = request[s]
      /\ request' \in [Requests -> Request]
  BY DEF Turning, TypeOK
<1>3. \A i \in Ids : Live(i)' <=> Live(i)
  BY <1>1 DEF Live
<1>4. \A s \in Requests : request[s].from # 0 =>
          /\ request[s].from \in Ids /\ Stored(request[s].from)
          /\ rows[request[s].from].family \in Ids
  <2>1. \A s \in Requests : request[s].from # 0 => request[s].from \in Ids
    BY DEF TypeOK, Request, Ids
  <2>2. \A i \in Ids : Stored(i) => rows[i].family \in Ids
    BY DEF TypeOK, Stored, Row
  <2> QED BY <2>1, <2>2 DEF TypeOK
<1>5. \A s \in Requests :
          InFlight(s)' /\ ~NewFamily(s)' =>
              /\ InFlight(s) /\ ~NewFamily(s) /\ request'[s].from = request[s].from
              /\ request'[s].cut = request[s].cut /\ FamilyOf(s)' = FamilyOf(s)
              /\ FamilyOf(s) \in Ids
  BY <1>1, <1>2, <1>4 DEF InFlight, NewFamily, FamilyOf, Going, Leaving
<1>6. \A s \in Requests : InFlight(s)' /\ NewFamily(s)' => FamilyOf(s)' \notin Ids
  BY DEF FamilyOf, NewFamily, Ids
<1>7. TypeOK'
  <2>1. \A i \in Ids : Stored(i)' =>
            /\ Stored(rows[i].family)' /\ rows'[rows'[i].family].from = 0
            /\ rows'[i].from # 0 => Stored(rows[i].from)'
    <3>1. \A i \in Ids : Stored(i) =>
              rows[i].family \in Ids /\ (rows[i].from # 0 => rows[i].from \in Ids)
      BY DEF TypeOK, Stored, Row, Ids
    <3>2. \A i \in Ids : Stored(i) =>
              /\ Stored(rows[i].family) /\ rows[rows[i].family].from = 0
              /\ rows[i].from # 0 => Stored(rows[i].from)
      BY DEF TypeOK
    <3> QED BY <1>1, <3>1, <3>2
  <2>2. \A s \in Requests : request'[s].from # 0 =>
            /\ Stored(request[s].from)' /\ request'[s].from = request[s].from
            /\ request'[s].at \in {"read", "mint", "refuse"} => rows'[request[s].from].used
    BY <1>1, <1>2, <1>4 DEF TypeOK, Going, Leaving
  <2> QED
    BY <1>1, <1>2, <2>1, <2>2 DEF TypeOK, Turning, Stored
<1>8. OneLiveMember'
  BY <1>1, <1>3, <1>5, <1>6 DEF OneLiveMember, Live
<1>9. EndedStaysEnded' /\ SwitchedOffHasNoSession'
  BY <1>1, <1>3 DEF EndedStaysEnded, SwitchedOffHasNoSession, Live, MintsMarked
<1>10. FlightsMarked'
  <2> SUFFICES ASSUME NEW s \in Requests, InFlight(s)', ~NewFamily(s)', NEW j \in Ids,
                      Stored(j)', rows'[j].family = FamilyOf(s)', rows'[j].revoked
               PROVE  request'[s].cut \/ rows'[request'[s].from].stray
      BY DEF FlightsMarked
  <2>1. /\ InFlight(s) /\ ~NewFamily(s) /\ request'[s].from = request[s].from
        /\ request'[s].cut = request[s].cut
        /\ Stored(j) /\ rows[j].family = FamilyOf(s) /\ rows[j].revoked
    BY <1>1, <1>5
  <2>2. request[s].cut \/ rows[request[s].from].stray
    BY <2>1 DEF FlightsMarked
  <2> QED BY <1>1, <1>4, <2>1, <2>2 DEF NewFamily
<1>11. MintsMarked'
  BY <1>1, <1>2, <1>4 DEF MintsMarked, NewFamily
<1>12. SpentIsAccountedFor'
  <2> SUFFICES ASSUME NEW i \in Ids, Stored(i)', rows'[i].used, ~rows'[i].revoked, ~rows'[i].lost
               PROVE  \/ \E j \in Ids : Stored(j)' /\ rows'[j].from = i
                      \/ \E s \in Requests : request'[s].from = i
                                              /\ request'[s].at \in {"read", "mint", "refuse"}
      BY DEF SpentIsAccountedFor
  <2>1. Stored(i) /\ rows[i].used /\ ~rows[i].revoked /\ ~rows[i].lost
    BY <1>1
  <2>2. CASE \E j \in Ids : Stored(j) /\ rows[j].from = i
    BY <1>1, <2>2
  <2>3. ASSUME NEW s \in Requests, request[s].from = i, request[s].at \in {"read", "mint", "refuse"}
        PROVE  request'[s].from = i /\ request'[s].at \in {"read", "mint", "refuse"}
    BY <1>2, <2>3 DEF Going, Leaving, Ids
  <2> QED BY <2>1, <2>2, <2>3 DEF SpentIsAccountedFor
<1>13. CodesApart'
  <2>1. \A i \in Ids : Stored(i) => rows'[i].code = rows[i].code
    BY <1>1
  <2>2. CASE codes' = codes /\ q.code \in {NoCode, request[r].code}
    BY <1>1, <1>2, <2>2, TokenConstants DEF CodesApart
  <2>3. CASE /\ q.code \in Codes /\ codes[q.code].state = "live"
             /\ codes'[q.code].state = "spent"
             /\ \A c \in Codes \ {q.code} : codes'[c] = codes[c]
    BY <1>1, <1>2, <2>3, TokenConstants DEF CodesApart
  <2> QED BY <2>2, <2>3
<1>14. \A c \in Codes : codes'[c].admin = codes[c].admin
                        /\ (codes'[c].state = "live" => codes[c].state = "live")
  OBVIOUS
<1>15. CodeBuysOneSession'
  BY <1>1, <1>14 DEF CodeBuysOneSession
<1>16. FlightsNarrow'
  <2>1. \A s \in Requests : request[s].code \in Codes \cup {NoCode}
    BY DEF TypeOK, Request
  <2>2. \A s \in Requests \ {r} : request'[s].admin =>
            /\ ~NewFamily(s)' => rows'[request'[s].from].admin
            /\ request'[s].code # NoCode => codes'[request'[s].code].admin
    BY <1>1, <1>2, <1>4, <1>14, <2>1 DEF FlightsNarrow, NewFamily
  <2>3. request'[r].admin =>
            /\ ~NewFamily(r)' => rows'[request'[r].from].admin
            /\ request'[r].code # NoCode => codes'[request'[r].code].admin
    BY <1>1, <1>2, <1>4 DEF FlightsNarrow, NewFamily, Going, Leaving
  <2> QED BY <2>2, <2>3 DEF FlightsNarrow
<1>17. NeverWidens'
  <2>1. \A i \in Ids : Stored(i) => /\ rows[i].code \in Codes \cup {NoCode}
                                    /\ rows[i].from # 0 => rows[i].from \in Ids /\ Stored(rows[i].from)
    BY DEF TypeOK, Stored, Row, Ids
  <2> QED BY <1>1, <1>14, <2>1 DEF NeverWidens
<1> QED
  BY <1>7, <1>8, <1>9, <1>10, <1>11, <1>12, <1>13, <1>15, <1>16, <1>17

(* Reading the account goes on to a token, or to a refusal.                  *)
LEMMA ReadUserKeeps ==
    ASSUME IInv, NEW r \in Requests, NEW b \in BOOLEAN, ReadUser(r, b)
    PROVE  IInv'
<1>1. /\ TypeOK /\ request[r] \in Request /\ request[r].at = "read"
      /\ ended => disabled
  BY DEF IInv, EndsHold, MintsMarked, TypeOK, ReadUser
<1> DEFINE gone == [request[r] EXCEPT !.at = "refuse"]
           on == [request[r] EXCEPT !.at = "mint", !.admin = @ /\ b]
<1>2. /\ gone \in Request /\ on \in Request
      /\ gone.at = "refuse" /\ on.at = "mint"
      /\ gone.from = request[r].from /\ on.from = request[r].from
      /\ gone.code = request[r].code /\ on.code = request[r].code
      /\ gone.cut = request[r].cut /\ on.cut = request[r].cut
      /\ gone.admin = request[r].admin /\ (on.admin => request[r].admin)
  BY <1>1 DEF Request
<1>3. UNCHANGED <<disabled, rows, codes, ended>>
  BY DEF ReadUser
<1>0. request' = [request EXCEPT ![r] =
          IF disabled THEN IF NewFamily(r) THEN Idle ELSE gone ELSE on]
  BY DEF ReadUser
<1>4. \A q \in Request : request' = [request EXCEPT ![r] = q] => Turning(r, q)
  BY <1>1, <1>3 DEF Turning, TypeOK
<1>5. \A q : q.admin /\ q.code # NoCode /\ (q.admin => request[r].admin)
                 /\ q.code = request[r].code => codes'[q.code].admin
  BY <1>3 DEF IInv, Origins, FlightsNarrow
<1>6. CASE disabled /\ NewFamily(r)
  <2>1. request' = [request EXCEPT ![r] = Idle]
    BY <1>6 DEF ReadUser
  <2>2. Turning(r, Idle) /\ Leaving(r, Idle)
    BY <1>4, <1>6, <2>1, IdleIs DEF Leaving, NewFamily
  <2> QED BY <1>3, <1>6, <2>2, IdleIs, TurningKeeps
<1>7. CASE disabled /\ ~NewFamily(r)
  <2>1. request' = [request EXCEPT ![r] = gone]
    BY <1>7 DEF ReadUser
  <2>2. Turning(r, gone) /\ Going(r, gone)
    BY <1>1, <1>2, <1>4, <2>1 DEF Going
  <2> HIDE DEF gone
  <2> QED BY <1>2, <1>3, <1>5, <1>7, <2>2, TurningKeeps
<1>8. CASE ~disabled
  <2>1. request' = [request EXCEPT ![r] = on]
    <3> HIDE DEF on
    <3> QED BY <1>8, <1>0
  <2>2. Turning(r, on) /\ Going(r, on)
    BY <1>1, <1>2, <1>4, <2>1 DEF Going
  <2> HIDE DEF on
  <2> QED BY <1>1, <1>2, <1>3, <1>5, <1>8, <2>2, TurningKeeps
<1> QED
  BY <1>6, <1>7, <1>8

(* A request may fail between any two of its steps.                          *)
LEMMA FailKeeps ==
    ASSUME IInv, NEW r \in Requests, Fail(r)
    PROVE  IInv'
<1>1. TypeOK /\ (ended => disabled) /\ UNCHANGED <<disabled, codes, ended>>
      /\ request' = [request EXCEPT ![r] = Idle]
  BY DEF IInv, EndsHold, MintsMarked, Fail
<1> DEFINE spent == request[r].at \in {"read", "mint", "refuse"} /\ ~NewFamily(r)
           k == request[r].from
<1>2. CASE ~spent
  <2>1. rows' = rows
    BY <1>2 DEF Fail
  <2>2. Turning(r, Idle) /\ Leaving(r, Idle)
    BY <1>1, <1>2, <2>1, IdleIs DEF Turning, Leaving, NewFamily, TypeOK
  <2> QED BY <1>1, <2>2, IdleIs, TurningKeeps
<1>3. CASE spent
  <2>1. k \in Ids /\ rows[k] \in Row /\ rows[k] # NoRow
    BY <1>1, <1>3 DEF TypeOK, Request, Ids, NewFamily, Stored
  <2>2. rows' = [rows EXCEPT ![k].lost = TRUE]
    BY <1>3 DEF Fail
  <2>3. [rows[k] EXCEPT !.lost = TRUE] \in Row \ {NoRow}
    BY <2>1, NoRowIsNoRow DEF Row
  <2>4. rows' \in [Ids -> Row \cup {NoRow}] /\ rows'[k] = [rows[k] EXCEPT !.lost = TRUE]
        /\ \A i \in Ids \ {k} : rows'[i] = rows[i]
    BY <1>1, <2>1, <2>2, <2>3 DEF TypeOK
  <2>5. Turning(r, Idle) /\ Leaving(r, Idle)
    BY <1>1, <2>1, <2>3, <2>4, IdleIs DEF Turning, Leaving, TypeOK, Row
  <2> QED BY <1>1, <2>5, IdleIs, TurningKeeps
<1> QED
  BY <1>2, <1>3

(* A sign-in, a sign-out and switching the account off keep the invariant.   *)
LEMMA BeginKeeps ==
    ASSUME IInv, NEW r \in Requests,
           \/ \E b \in BOOLEAN : SignIn(r, b)
           \/ EndSessions(r) \/ SwitchOff(r)
    PROVE  IInv'
<1> DEFINE sign(b) == [Idle EXCEPT !.at = "mint", !.admin = b]
           end == [Idle EXCEPT !.at = "end"]
<1>1. /\ end \in Request /\ end.from = 0 /\ end.code = NoCode /\ ~end.admin /\ end.at = "end"
      /\ \A b \in BOOLEAN : sign(b) \in Request /\ sign(b).from = 0 /\ sign(b).code = NoCode
  BY IdleIs DEF Request
<1>2. TypeOK /\ (ended => disabled)
  BY DEF IInv, EndsHold, MintsMarked
<1>3. request[r].at = "idle" /\ UNCHANGED <<rows, codes, ended>>
  BY DEF SignIn, EndSessions, SwitchOff
<1>4. \A q \in Request : disabled' \in BOOLEAN /\ q.from = 0
              /\ request' = [request EXCEPT ![r] = q] => Turning(r, q) /\ Leaving(r, q)
  BY <1>2, <1>3 DEF Turning, Leaving, TypeOK
<1>5. ASSUME NEW b \in BOOLEAN, SignIn(r, b)
      PROVE  IInv'
  <2>1. request' = [request EXCEPT ![r] = sign(b)] /\ ~disabled /\ disabled' = disabled
    BY <1>5 DEF SignIn
  <2>2. Turning(r, sign(b)) /\ Leaving(r, sign(b))
    <3> HIDE DEF sign
    <3> QED BY <1>1, <1>2, <1>4, <2>1 DEF TypeOK
  <2> HIDE DEF sign
  <2> QED BY <1>1, <1>2, <1>3, <2>1, <2>2, TurningKeeps
<1>6. ASSUME EndSessions(r) \/ SwitchOff(r)
      PROVE  IInv'
  <2>1. request' = [request EXCEPT ![r] = end] /\ disabled' \in {disabled, TRUE}
    BY <1>6 DEF EndSessions, SwitchOff
  <2>2. Turning(r, end) /\ Leaving(r, end)
    BY <1>1, <1>2, <1>4, <2>1 DEF TypeOK
  <2> HIDE DEF end
  <2> QED BY <1>1, <1>2, <1>3, <2>1, <2>2, TurningKeeps
<1> QED
  BY <1>5, <1>6

(* Redeeming a code spends it, once.                                         *)
LEMMA RedeemKeeps ==
    ASSUME IInv, NEW r \in Requests, NEW c \in Codes, Redeem(r, c)
    PROVE  IInv'
<1> DEFINE q == [Idle EXCEPT !.at = "read", !.code = c, !.admin = codes[c].admin]
<1>1. TypeOK /\ (ended => disabled) /\ codes[c] \in Code /\ codes[c].state = "live"
  BY DEF IInv, EndsHold, MintsMarked, TypeOK, Redeem
<1>2. /\ q \in Request /\ q.from = 0 /\ q.code = c /\ q.at = "read"
      /\ q.admin = codes[c].admin
  <2>1. codes[c].admin \in BOOLEAN
    BY <1>1 DEF Code
  <2> QED BY <2>1, IdleIs DEF Request
<1>3. request[r].at = "idle" /\ UNCHANGED <<disabled, rows, ended>>
      /\ request' = [request EXCEPT ![r] = q] /\ codes' = [codes EXCEPT ![c].state = "spent"]
  BY DEF Redeem
<1>4. [codes[c] EXCEPT !.state = "spent"] \in Code
  BY <1>1 DEF Code
<1>5. /\ codes' \in [Codes -> Code] /\ codes'[c].state = "spent"
      /\ codes'[c].admin = codes[c].admin /\ \A d \in Codes \ {c} : codes'[d] = codes[d]
  BY <1>1, <1>3, <1>4 DEF TypeOK, Code
<1>6. Turning(r, q) /\ Leaving(r, q)
  BY <1>1, <1>2, <1>3, <1>5 DEF Turning, Leaving, TypeOK
<1> HIDE DEF q
<1> QED
  BY <1>1, <1>2, <1>3, <1>5, <1>6, TurningKeeps

-----------------------------------------------------------------------------
(* Where rows and requests point.                                            *)
LEMMA Pointing ==
    ASSUME TypeOK
    PROVE  /\ 0 \notin Ids
           /\ \A i \in Ids : Stored(i) =>
                 /\ rows[i] \in Row /\ rows[i].family \in Ids /\ Stored(rows[i].family)
                 /\ rows[rows[i].family].from = 0
                 /\ rows[i].from # 0 => rows[i].from \in Ids /\ Stored(rows[i].from)
                 /\ rows[i].code \in Codes \cup {NoCode}
           /\ \A r \in Requests :
                 /\ request[r] \in Request /\ request[r].code \in Codes \cup {NoCode}
                 /\ request[r].from # 0 =>
                       /\ request[r].from \in Ids /\ Stored(request[r].from)
                       /\ FamilyOf(r) = rows[request[r].from].family /\ FamilyOf(r) \in Ids
                       /\ Stored(FamilyOf(r))
                 /\ request[r].from = 0 => FamilyOf(r) = 0
<1>1. \A i \in Ids : Stored(i) => rows[i] \in Row
  BY DEF TypeOK, Stored
<1>2. \A i \in Ids : Stored(i) =>
          /\ Stored(rows[i].family) /\ rows[rows[i].family].from = 0
          /\ rows[i].from # 0 => Stored(rows[i].from)
  BY DEF TypeOK
<1>3. \A i \in Ids : Stored(i) =>
          /\ rows[i].family \in Ids /\ rows[i].code \in Codes \cup {NoCode}
          /\ rows[i].from # 0 => rows[i].from \in Ids
  BY <1>1 DEF Row, Ids
<1>4. \A r \in Requests : request[r] \in Request
  BY DEF TypeOK
<1>5. \A r \in Requests :
          /\ request[r].code \in Codes \cup {NoCode}
          /\ request[r].from # 0 => request[r].from \in Ids /\ Stored(request[r].from)
  <2>1. \A q \in Request : q.code \in Codes \cup {NoCode} /\ (q.from # 0 => q.from \in Ids)
    BY TokenConstants DEF Request, Ids
  <2>2. \A r \in Requests : request[r].from # 0 => Stored(request[r].from)
    BY DEF TypeOK
  <2> QED BY <1>4, <2>1, <2>2
<1> QED
  BY <1>1, <1>2, <1>3, <1>4, <1>5 DEF FamilyOf, Ids

(* The row a request writes is marked if its session was ended meanwhile.    *)
LEMMA MintKeeps ==
    ASSUME IInv, NEW r \in Requests, Mint(r)
    PROVE  IInv'
<1> USE DEF IInv, EndsHold, Origins
<1>1. PICK i \in Ids : /\ NextId(i) /\ rows' = [rows EXCEPT ![i] = NewRow(r, i)]
                       /\ request' = [request EXCEPT ![r] = Idle]
  BY DEF Mint
<1>2. request[r].at = "mint" /\ UNCHANGED <<disabled, codes, ended>> /\ ~Stored(i)
      /\ InFlight(r)
  BY <1>1 DEF Mint, NextId, InFlight
<1> DEFINE k == request[r].from
           f == IF NewFamily(r) THEN i ELSE FamilyOf(r)
           x == NewRow(r, i)
<1>3. /\ request[r] \in Request /\ f \in Ids /\ k \in 0..MaxRow
      /\ ~NewFamily(r) => k \in Ids /\ Stored(k) /\ rows[k] \in Row /\ k # i
                          /\ f = rows[k].family /\ Stored(f) /\ rows[f].from = 0 /\ f # i
  BY <1>2, Pointing DEF Request, NewFamily, Ids
<1>4. /\ x \in Row /\ x # NoRow /\ x.family = f /\ x.from = k /\ x.code = request[r].code
      /\ x.admin = request[r].admin /\ ~x.used /\ ~x.revoked
      /\ x.stray <=> (request[r].cut \/ (~NewFamily(r) /\ rows[k].stray))
  <2>1. x \in Row
    BY <1>3 DEF NewRow, Row, Request
  <2> QED BY <2>1, NoRowIsNoRow DEF NewRow
<1>5. /\ rows' \in [Ids -> Row \cup {NoRow}] /\ rows'[i] = x
      /\ \A j \in Ids \ {i} : rows'[j] = rows[j]
  BY <1>1, <1>4 DEF TypeOK
<1>6. /\ Stored(i)' /\ \A j \in Ids \ {i} : Stored(j)' <=> Stored(j)
      /\ \A j \in Ids : Stored(j) => j # i /\ Stored(j)' /\ rows'[j] = rows[j]
      /\ \A j \in Ids : Stored(j) => rows[j].family # i
  BY <1>2, <1>4, <1>5, Pointing DEF Stored
<1>7. /\ request' \in [Requests -> Request] /\ request'[r] = Idle
      /\ \A s \in Requests \ {r} : request'[s] = request[s]
  BY <1>1, IdleIs DEF TypeOK
<1>8. Live(i)' /\ \A j \in Ids \ {i} : Live(j)' <=> Live(j)
  BY <1>4, <1>5, <1>6 DEF Live
<1>9. \A s \in Requests : InFlight(s)' =>
          /\ s # r /\ InFlight(s) /\ (NewFamily(s)' <=> NewFamily(s))
          /\ FamilyOf(s)' = FamilyOf(s) /\ request'[s] = request[s] /\ FamilyOf(s) # i
  BY <1>2, <1>6, <1>7, IdleIs, Pointing DEF InFlight, NewFamily, FamilyOf
<1>10. TypeOK'
  <2>1. \A j \in Ids : Stored(j)' =>
            /\ rows'[rows'[j].family] # NoRow /\ rows'[rows'[j].family].from = 0
            /\ rows'[j].from # 0 => rows'[rows'[j].from] # NoRow
    <3>1. CASE NewFamily(r)
      BY <1>4, <1>5, <1>6, <3>1, Pointing DEF NewFamily, Stored
    <3>2. CASE ~NewFamily(r)
      BY <1>3, <1>4, <1>5, <1>6, <3>2, Pointing DEF Stored
    <3> QED BY <3>1, <3>2
  <2>2. \A s \in Requests : request'[s].from # 0 =>
            /\ rows'[request'[s].from] # NoRow
            /\ request'[s].at \in {"read", "mint", "refuse"} => rows'[request'[s].from].used
    <3>1. \A s \in Requests : request[s].from # 0 /\ request[s].at \in {"read", "mint", "refuse"}
              => rows[request[s].from].used
      BY DEF TypeOK
    <3> QED BY <1>6, <1>7, <3>1, IdleIs, Pointing DEF Stored
  <2> QED
    BY <1>2, <1>5, <1>7, <2>1, <2>2 DEF TypeOK, Stored
<1>11. OneLiveMember'
  <2>1. \A j \in Ids : Live(j) => rows[j].family # f /\ rows'[j] = rows[j]
    BY <1>2, <1>6, <1>3, Pointing DEF OneLiveMember, NewFamily, Live
  <2>2. \A j, l \in Ids : Live(j)' /\ Live(l)' /\ rows'[j].family = rows'[l].family => j = l
    BY <1>4, <1>5, <1>8, <2>1 DEF OneLiveMember
  <2>3. \A s \in Requests \ {r} : InFlight(s) /\ ~NewFamily(s) => FamilyOf(s) # f
    BY <1>2, <1>6, Pointing DEF OneLiveMember, NewFamily
  <2>4. \A s \in Requests : InFlight(s)' /\ ~NewFamily(s)' =>
            /\ \A j \in Ids : Live(j)' => rows'[j].family # FamilyOf(s)'
            /\ \A t \in Requests : InFlight(t)' /\ FamilyOf(t)' = FamilyOf(s)' => t = s
    BY <1>4, <1>5, <1>8, <1>9, <2>1, <2>3 DEF OneLiveMember
  <2> QED BY <2>2, <2>4 DEF OneLiveMember
<1>12. EndedStaysEnded'
  <2> SUFFICES ASSUME NEW j \in Ids, NEW l \in Ids, Live(j)', Stored(l)',
                      rows'[l].family = rows'[j].family, rows'[l].revoked
               PROVE  rows'[j].stray
      BY DEF EndedStaysEnded
  <2>1. l # i /\ Stored(l) /\ rows[l].family = rows'[j].family /\ rows[l].revoked
    BY <1>4, <1>5, <1>6
  <2>2. CASE j = i
    <3>1. ~NewFamily(r) /\ rows[l].family = FamilyOf(r)
      BY <1>4, <1>5, <1>6, <2>1, <2>2
    <3> QED BY <1>2, <1>4, <1>5, <2>1, <2>2, <3>1 DEF FlightsMarked
  <2>3. CASE j # i
    BY <1>5, <1>8, <2>1, <2>3 DEF EndedStaysEnded
  <2> QED BY <2>2, <2>3
<1>13. FlightsMarked'
  <2> SUFFICES ASSUME NEW s \in Requests, InFlight(s)', ~NewFamily(s)', NEW j \in Ids,
                      Stored(j)', rows'[j].family = FamilyOf(s)', rows'[j].revoked
               PROVE  request'[s].cut \/ rows'[request'[s].from].stray
      BY DEF FlightsMarked
  <2>1. /\ Stored(j) /\ rows[j].family = FamilyOf(s) /\ rows[j].revoked
        /\ InFlight(s) /\ ~NewFamily(s) /\ request'[s] = request[s]
    BY <1>4, <1>5, <1>6, <1>9
  <2>2. request[s].cut \/ rows[request[s].from].stray
    BY <2>1 DEF FlightsMarked
  <2> QED BY <1>6, <2>1, <2>2, Pointing DEF NewFamily
<1>14. SwitchedOffHasNoSession'
  BY <1>2, <1>4, <1>5, <1>8 DEF SwitchedOffHasNoSession, MintsMarked
<1>15. MintsMarked'
  <2> SUFFICES ASSUME ended, NEW s \in Requests, request'[s].at = "mint"
               PROVE  request'[s].cut \/ (~NewFamily(s)' /\ rows'[request'[s].from].stray)
      BY <1>2 DEF MintsMarked
  <2>1. s # r /\ request'[s] = request[s] /\ (NewFamily(s)' <=> NewFamily(s))
    BY <1>7, IdleIs DEF NewFamily
  <2> QED BY <1>6, <2>1, Pointing DEF MintsMarked, NewFamily
<1>16. SpentIsAccountedFor'
  <2> SUFFICES ASSUME NEW j \in Ids, Stored(j)', rows'[j].used, ~rows'[j].revoked, ~rows'[j].lost
               PROVE  \/ \E l \in Ids : Stored(l)' /\ rows'[l].from = j
                      \/ \E s \in Requests : request'[s].from = j
                                              /\ request'[s].at \in {"read", "mint", "refuse"}
      BY DEF SpentIsAccountedFor
  <2>1. Stored(j) /\ rows[j].used /\ ~rows[j].revoked /\ ~rows[j].lost
    BY <1>4, <1>5, <1>6
  <2>2. CASE \E l \in Ids : Stored(l) /\ rows[l].from = j
    BY <1>6, <2>2
  <2>3. ASSUME NEW s \in Requests, request[s].from = j, request[s].at \in {"read", "mint", "refuse"}
        PROVE  \/ \E l \in Ids : Stored(l)' /\ rows'[l].from = j
               \/ request'[s].from = j /\ request'[s].at \in {"read", "mint", "refuse"}
    BY <1>4, <1>5, <1>6, <1>7, <2>3
  <2> QED BY <2>1, <2>2, <2>3 DEF SpentIsAccountedFor
<1>17. \A j \in Ids : Stored(j)' => (j = i /\ rows'[j] = x) \/ (Stored(j) /\ rows'[j] = rows[j])
  BY <1>5, <1>6
<1>18. CodesApart' /\ CodeBuysOneSession'
  BY <1>2, <1>4, <1>17, <1>7, IdleIs, TokenConstants DEF CodesApart, CodeBuysOneSession
<1>19. FlightsNarrow'
  <2> SUFFICES ASSUME NEW s \in Requests, request'[s].admin
               PROVE  /\ ~NewFamily(s)' => rows'[request'[s].from].admin
                      /\ request'[s].code # NoCode => codes'[request'[s].code].admin
      BY DEF FlightsNarrow
  <2>1. s # r /\ request'[s] = request[s]
    BY <1>7, IdleIs
  <2> QED BY <1>2, <1>6, <2>1, Pointing DEF FlightsNarrow, NewFamily
<1>20. NeverWidens'
  <2> SUFFICES ASSUME NEW j \in Ids, Stored(j)', rows'[j].admin
               PROVE  /\ rows'[j].from # 0 => rows'[rows'[j].from].admin
                      /\ rows'[j].code # NoCode => codes'[rows'[j].code].admin
      BY DEF NeverWidens
  <2>1. CASE j = i
    BY <1>2, <1>3, <1>4, <1>5, <1>6, <2>1 DEF FlightsNarrow, NewFamily
  <2>2. CASE j # i
    BY <1>2, <1>6, <2>2, Pointing DEF NeverWidens
  <2> QED BY <2>1, <2>2
<1> QED
  BY <1>10, <1>11, <1>12, <1>13, <1>14, <1>15, <1>16, <1>18, <1>19, <1>20

(* Spending a token and starting its successor keep the invariant.           *)
LEMMA SpendKeeps ==
    ASSUME IInv, NEW r \in Requests, NEW i \in Ids, request[r].at = "idle",
           Spend(r, i), UNCHANGED <<disabled, codes, ended>>
    PROVE  IInv'
<1> USE DEF IInv, EndsHold, Origins
<1> DEFINE q == [at |-> "read", from |-> i, code |-> NoCode,
                 admin |-> rows[i].admin, cut |-> FALSE]
           f == rows[i].family
<1>1. Live(i) /\ Stored(i) /\ rows[i] \in Row /\ f \in Ids
  BY Pointing DEF Spend, Live
<1>2. [rows[i] EXCEPT !.used = TRUE] \in Row \ {NoRow}
  BY <1>1, NoRowIsNoRow DEF Row
<1>3. /\ rows' \in [Ids -> Row \cup {NoRow}]
      /\ rows'[i] = [rows[i] EXCEPT !.used = TRUE]
      /\ \A j \in Ids \ {i} : rows'[j] = rows[j]
  BY <1>1, <1>2 DEF Spend, TypeOK
<1>4. \A j \in Ids :
          /\ Stored(j)' <=> Stored(j)
          /\ Stored(j) =>
                /\ rows'[j].family = rows[j].family /\ rows'[j].from = rows[j].from
                /\ rows'[j].code = rows[j].code /\ rows'[j].admin = rows[j].admin
                /\ rows'[j].revoked = rows[j].revoked /\ rows'[j].stray = rows[j].stray
                /\ rows'[j].lost = rows[j].lost
                /\ (j = i => rows'[j].used) /\ (j # i => rows'[j].used = rows[j].used)
  BY <1>1, <1>2, <1>3 DEF Row, Stored
<1>5. /\ q \in Request /\ request' \in [Requests -> Request] /\ request'[r] = q
      /\ \A s \in Requests \ {r} : request'[s] = request[s]
  <2>1. q \in Request
    BY <1>1, TokenConstants DEF Request, Row, Ids
  <2> QED BY <2>1 DEF Spend, TypeOK
<1>6. \A j \in Ids : Live(j)' <=> Live(j) /\ j # i
  BY <1>1, <1>4 DEF Live
<1>7. \A s \in Requests \ {r} :
          /\ (InFlight(s)' <=> InFlight(s)) /\ (NewFamily(s)' <=> NewFamily(s))
          /\ FamilyOf(s)' = FamilyOf(s)
  BY <1>4, <1>5, Pointing DEF InFlight, NewFamily, FamilyOf
<1>8. InFlight(r)' /\ ~NewFamily(r)' /\ FamilyOf(r)' = f /\ ~InFlight(r)
  BY <1>4, <1>5, Pointing, <1>1 DEF InFlight, NewFamily, FamilyOf
<1>9. \A s \in Requests \ {r} : InFlight(s) => FamilyOf(s) # f
  BY <1>1, Pointing DEF OneLiveMember, NewFamily
<1>10. TypeOK'
  <2>1. \A j \in Ids : Stored(j)' =>
            /\ Stored(rows[j].family)' /\ rows'[rows'[j].family].from = 0
            /\ rows'[j].from # 0 => Stored(rows[j].from)'
    BY <1>4, Pointing
  <2>2. \A s \in Requests : request'[s].from # 0 =>
            /\ rows'[request'[s].from] # NoRow
            /\ request'[s].at \in {"read", "mint", "refuse"} => rows'[request'[s].from].used
    <3>1. \A s \in Requests : request[s].from # 0 /\ request[s].at \in {"read", "mint", "refuse"}
              => rows[request[s].from].used
      BY DEF TypeOK
    <3> QED BY <1>1, <1>4, <1>5, <3>1, Pointing DEF Stored
  <2> QED
    BY <1>3, <1>4, <1>5, <2>1, <2>2 DEF TypeOK, Stored
<1>11. OneLiveMember'
  <2>1. \A j, k \in Ids : Live(j)' /\ Live(k)' /\ rows'[j].family = rows'[k].family => j = k
    BY <1>4, <1>6 DEF OneLiveMember, Live
  <2>2. \A s \in Requests : InFlight(s)' /\ ~NewFamily(s)' =>
            \A j \in Ids : Live(j)' => rows'[j].family # FamilyOf(s)'
    BY <1>1, <1>4, <1>6, <1>7, <1>8 DEF OneLiveMember, Live
  <2>3. \A s, t \in Requests : InFlight(s)' /\ ~NewFamily(s)' /\ InFlight(t)'
                               /\ FamilyOf(t)' = FamilyOf(s)' => t = s
    BY <1>7, <1>8, <1>9 DEF OneLiveMember
  <2> QED BY <2>1, <2>2, <2>3 DEF OneLiveMember
<1>12. EndedStaysEnded' /\ SwitchedOffHasNoSession'
  BY <1>4, <1>6 DEF EndedStaysEnded, SwitchedOffHasNoSession, Live
<1>13. FlightsMarked'
  <2> SUFFICES ASSUME NEW s \in Requests, InFlight(s)', ~NewFamily(s)', NEW j \in Ids,
                      Stored(j)', rows'[j].family = FamilyOf(s)', rows'[j].revoked
               PROVE  request'[s].cut \/ rows'[request'[s].from].stray
      BY DEF FlightsMarked
  <2>1. Stored(j) /\ rows[j].family = FamilyOf(s)' /\ rows[j].revoked
    BY <1>4
  <2>2. CASE s = r
    BY <1>1, <1>4, <1>5, <1>8, <2>1, <2>2 DEF EndedStaysEnded
  <2>3. CASE s # r
    <3>1. InFlight(s) /\ ~NewFamily(s) /\ request'[s] = request[s]
          /\ rows[j].family = FamilyOf(s)
      BY <1>5, <1>7, <2>1, <2>3
    <3>2. request[s].cut \/ rows[request[s].from].stray
      BY <2>1, <3>1 DEF FlightsMarked
    <3> QED BY <1>4, <3>1, <3>2, Pointing DEF NewFamily
  <2> QED BY <2>2, <2>3
<1>14. MintsMarked'
  <2>1. \A s \in Requests : request'[s].at = "mint" => s # r /\ request'[s] = request[s]
    BY <1>5
  <2>2. \A s \in Requests \ {r} : ~NewFamily(s) =>
            rows'[request[s].from].stray = rows[request[s].from].stray
    BY <1>4, Pointing DEF NewFamily
  <2> QED BY <1>7, <2>1, <2>2 DEF MintsMarked
<1>15. SpentIsAccountedFor'
  <2> SUFFICES ASSUME NEW j \in Ids, Stored(j)', rows'[j].used, ~rows'[j].revoked, ~rows'[j].lost
               PROVE  \/ \E k \in Ids : Stored(k)' /\ rows'[k].from = j
                      \/ \E s \in Requests : request'[s].from = j
                                              /\ request'[s].at \in {"read", "mint", "refuse"}
      BY DEF SpentIsAccountedFor
  <2>1. CASE j = i
    BY <1>5, <2>1
  <2>2. CASE j # i
    <3>1. Stored(j) /\ rows[j].used /\ ~rows[j].revoked /\ ~rows[j].lost
      BY <1>4, <2>2
    <3>2. CASE \E k \in Ids : Stored(k) /\ rows[k].from = j
      BY <1>4, <3>2
    <3>3. ASSUME NEW s \in Requests, request[s].from = j, request[s].at \in {"read", "mint", "refuse"}
          PROVE  request'[s].from = j /\ request'[s].at \in {"read", "mint", "refuse"}
      BY <1>5, <3>3
    <3> QED BY <3>1, <3>2, <3>3 DEF SpentIsAccountedFor
  <2> QED BY <2>1, <2>2
<1>16. \A s \in Requests :
          \/ s # r /\ request'[s] = request[s]
          \/ s = r /\ request'[s].code = NoCode /\ request'[s].from = i
             /\ request'[s].admin = rows[i].admin
  BY <1>5
<1>17. CodesApart' /\ CodeBuysOneSession'
  BY <1>4, <1>16, TokenConstants DEF CodesApart, CodeBuysOneSession
<1>18. FlightsNarrow'
  BY <1>1, <1>4, <1>16, Pointing DEF FlightsNarrow, NewFamily
<1>19. NeverWidens'
  BY <1>4, Pointing DEF NeverWidens
<1> QED
  BY <1>10, <1>11, <1>12, <1>13, <1>14, <1>15, <1>17, <1>18, <1>19

(* A new code, and switching the account on, end and start no session.       *)
LEMMA CodesAndSwitchKeep ==
    ASSUME IInv, (\E c \in Codes, b \in BOOLEAN : IssueCode(c, b)) \/ SwitchOn
    PROVE  IInv'
<1> USE DEF IInv, EndsHold, Origins
<1>1. UNCHANGED <<rows, request>> /\ (ended' => ended /\ disabled')
      /\ disabled' \in BOOLEAN /\ ended' \in BOOLEAN
  <2>1. (ended => disabled) /\ disabled \in BOOLEAN /\ ended \in BOOLEAN
    BY DEF MintsMarked, TypeOK
  <2>2. ASSUME NEW c \in Codes, NEW b \in BOOLEAN, IssueCode(c, b)
        PROVE  UNCHANGED <<rows, request, disabled, ended>>
    BY <2>2 DEF IssueCode
  <2>3. ASSUME SwitchOn
        PROVE  UNCHANGED <<rows, request>> /\ disabled' = FALSE /\ ended' = FALSE
    BY <2>3 DEF SwitchOn
  <2> QED BY <2>1, <2>2, <2>3
<1>2. codes' \in [Codes -> Code]
  <2>1. \A b \in BOOLEAN : [state |-> "live", admin |-> b] \in Code
    BY DEF Code
  <2> QED BY <2>1 DEF IssueCode, SwitchOn, TypeOK
<1>3. \A c \in Codes : codes'[c] = codes[c] \/ codes[c].state = "none"
  BY DEF IssueCode, SwitchOn, TypeOK
<1>4. TypeOK' /\ OneLiveMember' /\ SpentIsAccountedFor'
  BY <1>1, <1>2
  DEF TypeOK, OneLiveMember, SpentIsAccountedFor, Live, Stored, InFlight, NewFamily, FamilyOf
<1>5. EndsHold'
  BY <1>1
  DEF EndedStaysEnded, FlightsMarked, SwitchedOffHasNoSession, MintsMarked, Live, Stored,
      InFlight, NewFamily, FamilyOf
<1>6. CodesApart' /\ CodeBuysOneSession'
  <2>1. \A c \in Codes : codes'[c].state # "spent" => codes[c].state # "spent"
    BY <1>3
  <2> QED BY <1>1, <2>1 DEF CodesApart, CodeBuysOneSession, Stored
<1>7. FlightsNarrow' /\ NeverWidens'
  BY <1>1, <1>3, Pointing DEF FlightsNarrow, NeverWidens, CodesApart, Stored, NewFamily
<1> QED
  BY <1>4, <1>5, <1>6, <1>7

(* Every step keeps the invariant: one case per action.                      *)
LEMMA NextKeeps ==
    ASSUME IInv, [Next]_vars
    PROVE  IInv'
<1>1. ASSUME NEW r \in Requests, NEW i \in Ids, Exchange(r, i)
      PROVE  IInv'
  BY <1>1, SpendKeeps, ReplayKeeps DEF Exchange
<1>2. ASSUME NEW r \in Requests, Serve(r)
      PROVE  IInv'
  BY <1>1, <1>2, RedeemKeeps, BeginKeeps, ReadUserKeeps, RefuseKeeps, MintKeeps, FailKeeps,
     EndAllKeeps DEF Serve
<1>3. ASSUME UNCHANGED vars
      PROVE  IInv'
  BY <1>3
  DEF vars, IInv, TypeOK, OneLiveMember, SpentIsAccountedFor, Live, Stored, InFlight,
      NewFamily, FamilyOf, EndsHold, EndedStaysEnded, FlightsMarked, SwitchedOffHasNoSession,
      MintsMarked, Origins, CodesApart, CodeBuysOneSession, FlightsNarrow, NeverWidens
<1> QED
  BY <1>2, <1>3, CodesAndSwitchKeep DEF Next

(* No sequence of requests, failures and withdrawals leaves the invariant.        *)
THEOREM Invariance == Spec => []IInv
<1>1. Init => IInv
  BY InitHolds
<1>2. IInv /\ [Next]_vars => IInv'
  BY NextKeeps
<1> QED
  BY <1>1, <1>2, PTL DEF Spec

(* Rows, codes and requests hold what they may, and a row that another names is there. *)
THEOREM Typed == Spec => []TypeOK
<1>1. IInv => TypeOK
  BY DEF IInv
<1> QED
  BY <1>1, Invariance, PTL

(* Of two exchanges of a token one is a replay, however their steps interleave.    *)
THEOREM OneMember == Spec => []OneLiveMember
<1>1. IInv => OneLiveMember
  BY DEF IInv
<1> QED
  BY <1>1, Invariance, PTL

(* A family that was ended has only what was under way to be written then.         *)
THEOREM EndIsTheEnd == Spec => []EndedStaysEnded
<1>1. IInv => EndedStaysEnded
  BY DEF IInv, EndsHold
<1> QED
  BY <1>1, Invariance, PTL

(* So has an account that was switched off.                                    *)
THEOREM OffIsOff == Spec => []SwitchedOffHasNoSession
<1>1. IInv => SwitchedOffHasNoSession
  BY DEF IInv, EndsHold
<1> QED
  BY <1>1, Invariance, PTL

(* A session that nobody ended and no failure broke has a token or is being renewed. *)
THEOREM NothingSpentForNothing == Spec => []SpentIsAccountedFor
<1>1. IInv => SpentIsAccountedFor
  BY DEF IInv
<1> QED
  BY <1>1, Invariance, PTL

(* No two sessions are of one code.                                            *)
THEOREM OneSessionACode == Spec => []CodeBuysOneSession
<1>1. IInv => CodeBuysOneSession
  BY DEF IInv, Origins
<1> QED
  BY <1>1, Invariance, PTL

(* No renewal of a session has a right its first token had not.                   *)
THEOREM RightsOnlyShrink == Spec => []NeverWidens
<1>1. IInv => NeverWidens
  BY DEF IInv, Origins
<1> QED
  BY <1>1, Invariance, PTL
=============================================================================
