------------------------------ MODULE Sessions ------------------------------
(***************************************************************************)
(* auth.service.ts and jwt.strategy.ts.  A login finds or creates its user *)
(* and stores a session under the id of the token that it hands out; every *)
(* guarded request looks its session up.  A login that is refused before   *)
(* it reaches the database changes nothing and is left out.                *)
(***************************************************************************)
EXTENDS Requests

CONSTANTS SessionLife,  \* from calculateExpirationDate
          TokenLife     \* expiresIn as the JWT library understands it

ASSUME LifeAssumption == SessionLife \in Nat /\ TokenLife \in Nat

VARIABLES issued,    \* when the token with this id was drawn up
          sessions,  \* the ids in the sessions table
          revoked    \* history: ids of the logouts that went through

sessionVars == <<issued, sessions, revoked>>

SessionTypeOK == /\ issued \in [Tokens -> Nat \union {Null}]
                 /\ sessions \in SUBSET Tokens
                 /\ revoked \in SUBSET Tokens

SessionInit == /\ issued = [t \in Tokens |-> Null]
               /\ sessions = {}
               /\ revoked = {}

(***************************************************************************)
(* verify                                                                  *)
(***************************************************************************)

(* The user is there or is to be created.  In the first case the token is  *)
(* drawn up at once.                                                       *)
LoginFind(r, w) ==
    /\ Begin(r)
    /\ Put(r, [Idle EXCEPT !.pc = IF w \in users THEN "session" ELSE "user",
                           !.wallet = w, !.since = clock])
    /\ UNCHANGED <<clock, users, aborts, sessionVars>>

(* The unique wallet refuses the second of two first logins. *)
LoginCreate(r) ==
    LET w == request[r].wallet
    IN  /\ At(r, "user")
        /\ IF w \in users THEN Done(r)
           ELSE Put(r, [request[r] EXCEPT !.pc = "session", !.since = clock])
        /\ users' = users \union {w}
        /\ UNCHANGED <<clock, started, aborts, sessionVars>>

LoginSession(r, t) ==
    /\ At(r, "session")
    /\ issued[t] = Null
    /\ issued' = [issued EXCEPT ![t] = request[r].since]
    /\ sessions' = sessions \union {t}
    /\ Done(r)
    /\ UNCHANGED <<clock, users, started, aborts, revoked>>

(***************************************************************************)
(* JwtAuthGuard: the token's own expiry, then validateSession              *)
(***************************************************************************)

Presentable(t) == issued[t] # Null /\ clock < issued[t] + TokenLife

Check(r, t) ==
    /\ Begin(r)
    /\ Presentable(t)
    /\ t \in sessions
    /\ Put(r, [Idle EXCEPT !.token = t,
                           !.pc = IF issued[t] + SessionLife < clock
                                  THEN "expire" ELSE "admitted"])
    /\ UNCHANGED <<clock, users, aborts, sessionVars>>

(* Refused, by a 401 or, when the row has gone meanwhile, by the throw. *)
Expire(r) ==
    /\ At(r, "expire")
    /\ sessions' = sessions \ {request[r].token}
    /\ Done(r)
    /\ UNCHANGED <<clock, users, started, aborts, issued, revoked>>

(* MUTANT of Logout: the answer does not wait for the delete, which fails. *)
Logout_Unawaited(r) ==
    /\ Admitted(r)
    /\ revoked' = revoked \union {request[r].token}
    /\ Done(r)
    /\ UNCHANGED <<clock, users, started, aborts, issued, sessions>>

(* revokeSession.  A delete that fails is swallowed: the answer is the     *)
(* same and the session stays, which is what Abort comes to.               *)
Logout(r) ==
    /\ Admitted(r)
    /\ sessions' = sessions \ {request[r].token}
    /\ revoked' = revoked \union {request[r].token}
    /\ Done(r)
    /\ UNCHANGED <<clock, users, started, aborts, issued>>

SessionStep(r) ==
    \/ \E w \in Wallets : LoginFind(r, w)
    \/ LoginCreate(r)
    \/ \E t \in Tokens : LoginSession(r, t)
    \/ \E t \in Tokens : Check(r, t)
    \/ Expire(r)
    \/ Logout(r)

(* A logout that went through is final: no request that is checked later   *)
(* gets past the guard with that token, whatever logins, other checks and  *)
(* expiries are between their statements (auth.service.ts:149-168,         *)
(* jwt.strategy.ts:20-25).                                                 *)
LogoutIsFinal ==
    [][\A r \in Requests :
           Free(r) /\ request'[r].pc = "admitted" => request'[r].token \notin revoked
      ]_<<requestVars, sessionVars>>

=============================================================================
