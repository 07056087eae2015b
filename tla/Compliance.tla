----------------------------- MODULE Compliance -----------------------------
(***************************************************************************)
(* compliance.service.ts: the allowlist and the denylist are one table.    *)
(* No other service asks it (validateWallet has no caller).                *)
(***************************************************************************)
EXTENDS Requests

VARIABLE status  \* compliance_status by wallet; UNKNOWN is a missing row

Statuses == {"APPROVED", "DENIED", "UNKNOWN"}

ComplianceTypeOK == status \in [Wallets -> Statuses]

ComplianceInit == status = [w \in Wallets |-> "UNKNOWN"]

Approved(w) == status' = [status EXCEPT ![w] = "APPROVED"]

(* MUTANT of AllowFind: the denylist is not looked at. *)
AllowFind_Unchecked(r, w) ==
    /\ Admitted(r)
    /\ Put(r, [Idle EXCEPT !.pc = "allow", !.wallet = w])
    /\ UNCHANGED <<clock, users, started, aborts, status>>

(* addToAllowlist: look, then upsert. *)
AllowFind(r, w) ==
    /\ Admitted(r)
    /\ IF status[w] = "DENIED" THEN Done(r)
       ELSE Put(r, [Idle EXCEPT !.pc = "allow", !.wallet = w])
    /\ UNCHANGED <<clock, users, started, aborts, status>>

AllowUpsert(r) ==
    /\ At(r, "allow")
    /\ Approved(request[r].wallet)
    /\ Done(r)
    /\ UNCHANGED <<clock, users, started, aborts>>

(* addToDenylist.  Those that are about to allow the wallet do not notice. *)
Deny(r, w) ==
    /\ Admitted(r)
    /\ status' = [status EXCEPT ![w] = "DENIED"]
    /\ request' = [p \in Requests |->
           IF p = r THEN Idle
           ELSE IF At(p, "allow") /\ request[p].wallet = w
           THEN [request[p] EXCEPT !.overtaken = TRUE] ELSE request[p]]
    /\ UNCHANGED <<clock, users, started, aborts>>

(* removeFromList.  Without a row it is refused. *)
Remove(r, w) ==
    /\ Admitted(r)
    /\ status' = [status EXCEPT ![w] = "UNKNOWN"]
    /\ Done(r)
    /\ UNCHANGED <<clock, users, started, aborts>>

(* syncAllowlist: one upsert after the other, denied or not. *)
SyncBegin(r, ws) ==
    /\ Admitted(r)
    /\ Put(r, [Idle EXCEPT !.pc = "sync", !.wallets = ws])
    /\ UNCHANGED <<clock, users, started, aborts, status>>

Synced(r, w) ==
    LET rest == request[r].wallets \ {w}
    IN  IF rest = {} THEN Done(r) ELSE Put(r, [request[r] EXCEPT !.wallets = rest])

SyncUpsert(r, w) ==
    /\ At(r, "sync") /\ w \in request[r].wallets
    /\ Approved(w)
    /\ Synced(r, w)
    /\ UNCHANGED <<clock, users, started, aborts>>

(* An upsert that fails is caught, and the next wallet has its turn. *)
SyncSkip(r, w) ==
    /\ At(r, "sync") /\ w \in request[r].wallets
    /\ aborts < MaxAborts /\ aborts' = aborts + 1
    /\ Synced(r, w)
    /\ UNCHANGED <<clock, users, started, status>>

ComplianceStep(r) ==
    \/ \E w \in Wallets : AllowFind(r, w) \/ Deny(r, w) \/ Remove(r, w)
    \/ AllowUpsert(r)
    \/ \E ws \in SUBSET Wallets \ {{}} : SyncBegin(r, ws)
    \/ \E w \in Wallets : SyncUpsert(r, w) \/ SyncSkip(r, w)

(* A denied wallet becomes an approved one only by the bulk import, or by  *)
(* a call that looked before the denial and was overtaken by it: no call   *)
(* that begins after a denial undoes it (compliance.service.ts:46-65,      *)
(* :156-169).                                                              *)
DenialHolds ==
    [][\A w \in Wallets :
           status[w] = "DENIED" /\ status'[w] = "APPROVED" =>
               \E r \in Requests :
                   \/ At(r, "sync") /\ w \in request[r].wallets
                   \/ At(r, "allow") /\ request[r].wallet = w /\ request[r].overtaken
      ]_<<requestVars, status>>

=============================================================================
