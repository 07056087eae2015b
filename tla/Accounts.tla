------------------------------ MODULE Accounts ------------------------------
(***************************************************************************)
(* Authentication, referral and compliance at work on one database: they   *)
(* share the users, and the session check admits the guarded requests.     *)
(***************************************************************************)
EXTENDS Sessions, Referral, Compliance

vars == <<requestVars, sessionVars, referralVars, status>>

TypeOK == RequestTypeOK /\ SessionTypeOK /\ ReferralTypeOK /\ ComplianceTypeOK

Init == RequestInit /\ SessionInit /\ ReferralInit /\ ComplianceInit

Tick == /\ clock < MaxTime
        /\ clock' = clock + 1
        /\ UNCHANGED <<users, request, started, aborts>>
        /\ UNCHANGED <<sessionVars, referralVars, status>>

(* A statement throws or the replica dies; what was written stays. *)
Abort(r) == /\ ~Free(r)
            /\ aborts < MaxAborts /\ aborts' = aborts + 1
            /\ Done(r)
            /\ UNCHANGED <<clock, users, started>>
            /\ UNCHANGED <<sessionVars, referralVars, status>>

Step(r) == \/ SessionStep(r) /\ UNCHANGED <<referralVars, status>>
           \/ ReferralStep(r) /\ UNCHANGED <<sessionVars, status>>
           \/ ComplianceStep(r) /\ UNCHANGED <<sessionVars, referralVars>>
           \/ Abort(r)

Next == Tick \/ \E r \in Requests : Step(r)

Spec == Init /\ [][Next]_vars

=============================================================================
