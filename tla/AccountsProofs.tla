--------------------------- MODULE AccountsProofs ---------------------------
(***************************************************************************)
(* Theorems about Accounts: a logout is final, a denial is not undone by   *)
(* who looks after it, a referrer stays, and the welcome bonus is promised *)
(* no more often than calls can overlap.  The argument is IInv; most steps *)
(* move one request on and leave the tables alone (Quiet), and each table  *)
(* is left to the few actions that write it.                               *)
(***************************************************************************)
EXTENDS Accounts, FiniteSetTheorems, TLAPS

(***************************************************************************)
(* The inductive invariant                                                 *)
(***************************************************************************)

(* What a handler needs for its next statement is there. *)
Kept(q) ==
    /\ q.pc \in {"admitted", "expire"} => q.token \in Tokens /\ issued[q.token] # Null
    /\ q.pc \in {"user", "session", "devices", "refer", "fingerprint",
                 "pay", "allow"} => q.wallet \in Wallets
    /\ q.pc \in {"devices", "refer"} => q.referrer \in Wallets
    /\ q.pc \in {"devices", "fingerprint"} => q.device \in Devices
    /\ q.pc = "pay" => referral[q.wallet] # Null

(* A session comes with a new id, so a deleted one does not come back. *)
SessionInv == /\ revoked \intersect sessions = {}
              /\ \A t \in sessions \union revoked : issued[t] # Null

(* Those who may still promise the wallet its bonus. *)
Payers(w) == {r \in Requests : At(r, "pay") /\ request[r].wallet = w}

Paid(w) == referral[w] # Null /\ referral[w].paid

BonusInv(w) ==
    /\ ~Paid(w) => bonuses[w] = 0
    /\ Paid(w) => bonuses[w] + Cardinality(Payers(w)) <= Cardinality(Requests)

(* Who goes on to allow a denied wallet was overtaken by the denial. *)
Warned(q) == q.pc = "allow" /\ status[q.wallet] = "DENIED" => q.overtaken

IInv == /\ TypeOK
        /\ SessionInv
        /\ \A r \in Requests : Kept(request[r]) /\ Warned(request[r])
        /\ \A w \in Wallets : BonusInv(w)

-----------------------------------------------------------------------------
(***************************************************************************)
(* One request                                                             *)
(***************************************************************************)

LEMMA PutEffect ==
    ASSUME TypeOK, NEW r \in Requests, NEW q \in Request, Put(r, q)
    PROVE  /\ request' \in [Requests -> Request]
           /\ request'[r] = q
           /\ \A s \in Requests \ {r} : request'[s] = request[s]
  BY DEF TypeOK, RequestTypeOK, Put

LEMMA IdleRequest ==
    /\ Idle \in Request
    /\ \A t \in Tokens : [Idle EXCEPT !.token = t, !.pc = "expire"] \in Request
    /\ \A t \in Tokens : [Idle EXCEPT !.token = t, !.pc = "admitted"] \in Request
    /\ \A w \in Wallets : [Idle EXCEPT !.pc = "pay", !.wallet = w] \in Request
    /\ \A w \in Wallets : [Idle EXCEPT !.pc = "allow", !.wallet = w] \in Request
    /\ \A ws \in SUBSET Wallets : [Idle EXCEPT !.pc = "sync", !.wallets = ws] \in Request
  BY DEF Idle, Request

(* The payers of a wallet are some of the requests. *)
LEMMA PayerCount ==
    ASSUME NEW w
    PROVE  /\ IsFiniteSet(Payers(w))
           /\ Cardinality(Payers(w)) \in Nat
           /\ Cardinality(Requests) \in Nat
           /\ Cardinality(Payers(w)) <= Cardinality(Requests)
<1>1. Payers(w) \subseteq Requests
  BY DEF Payers
<1> QED
  BY <1>1, RequestAssumption, FS_Subset, FS_CardinalityType

LEMMA PayerCountNext ==
    ASSUME NEW w
    PROVE  /\ IsFiniteSet(Payers(w)')
           /\ Cardinality(Payers(w)') \in Nat
           /\ Cardinality(Requests) \in Nat
           /\ Cardinality(Payers(w)') <= Cardinality(Requests)
<1>1. Payers(w)' \subseteq Requests
  BY DEF Payers
<1> QED
  BY <1>1, RequestAssumption, FS_Subset, FS_CardinalityType

(* A step after which no more of them are about to pay. *)
LEMMA NoMorePayers ==
    ASSUME IInv, TypeOK', UNCHANGED <<referral, bonuses>>,
           NEW w \in Wallets, Payers(w)' \subseteq Payers(w)
    PROVE  BonusInv(w)'
<1>1. Cardinality(Payers(w)') <= Cardinality(Payers(w))
  BY PayerCount, FS_Subset
<1>2. Paid(w)' <=> Paid(w)
  BY DEF Paid
<1>3. bonuses[w] \in Nat /\ bonuses'[w] = bonuses[w]
  BY DEF IInv, TypeOK, ReferralTypeOK
<1> QED
  BY <1>1, <1>2, <1>3, PayerCount, PayerCountNext DEF IInv, BonusInv

(* The request goes on to q, which is not a payment. *)
LEMMA PayersAfter ==
    ASSUME IInv, NEW r \in Requests, NEW q \in Request, Put(r, q), q.pc # "pay",
           NEW w
    PROVE  Payers(w)' \subseteq Payers(w)
  BY PutEffect DEF IInv, Payers, At

(* A request goes on to q, and what the other ones count on stays. *)
LEMMA Moves ==
    ASSUME IInv, NEW r \in Requests, NEW q \in Request, Put(r, q),
           Kept(q), Warned(q), TypeOK', SessionInv',
           \A t \in Tokens : issued[t] # Null => issued'[t] # Null,
           \A w \in Wallets : referral[w] # Null => referral'[w] # Null,
           \A w \in Wallets : status'[w] = "DENIED" => status[w] = "DENIED",
           \A w \in Wallets : BonusInv(w)'
    PROVE  IInv'
<1>1. ASSUME NEW s \in Requests PROVE Kept(request[s])' /\ Warned(request[s])'
  <2>1. request'[s] = q \/ request'[s] = request[s]
    BY PutEffect DEF IInv
  <2>2. Kept(request[s]) /\ Warned(request[s])
    BY DEF IInv
  <2>3. PICK p \in Request : /\ request'[s] = p /\ Kept(p) /\ Warned(p)
    BY <2>1, <2>2 DEF IInv, TypeOK, RequestTypeOK
  <2>4. Kept(request[s])'
    BY <2>3 DEF Kept
  <2>5. p.pc = "allow" => p.wallet \in Wallets
    BY <2>3 DEF Kept
  <2>6. Warned(request[s])'
    BY <2>3, <2>5 DEF Warned
  <2> QED
    BY <2>4, <2>6
<1> QED
  BY <1>1 DEF IInv

(* The same when the tables stay as they are. *)
LEMMA Quiet ==
    ASSUME IInv, NEW r \in Requests, NEW q \in Request, Put(r, q), Kept(q),
           q.pc # "pay", Warned(q),
           users' \in SUBSET Wallets, clock' \in Nat,
           started' \in Nat, aborts' \in Nat,
           UNCHANGED <<sessionVars, referralVars, status>>
    PROVE  IInv'
<1>1. TypeOK /\ TypeOK'
  BY PutEffect DEF IInv, TypeOK, RequestTypeOK, SessionTypeOK, ReferralTypeOK,
     ComplianceTypeOK, sessionVars, referralVars
<1>2. SessionInv'
  BY DEF IInv, SessionInv, sessionVars
<1>3. ASSUME NEW w \in Wallets PROVE BonusInv(w)'
  BY <1>1, PayersAfter, NoMorePayers DEF referralVars
<1> QED
  BY <1>1, <1>2, <1>3, Moves DEF sessionVars, referralVars

(* A request ends. *)
LEMMA DoneQuiet ==
    ASSUME IInv, NEW r \in Requests, Done(r),
           users' \in SUBSET Wallets, clock' \in Nat,
           started' \in Nat, aborts' \in Nat,
           UNCHANGED <<sessionVars, referralVars, status>>
    PROVE  IInv'
<1>1. Kept(Idle) /\ Warned(Idle) /\ Idle.pc # "pay"
  BY DEF Kept, Warned, Idle
<1> QED
  BY <1>1, IdleRequest, Quiet DEF Done

(* What a request at its next statement is known to carry. *)
LEMMA Carried ==
    ASSUME IInv, NEW r \in Requests
    PROVE  /\ request[r] \in Request
           /\ Kept(request[r]) /\ Warned(request[r])
           /\ clock \in Nat /\ started \in Nat /\ aborts \in Nat
           /\ users \in SUBSET Wallets
  BY DEF IInv, TypeOK, RequestTypeOK

(***************************************************************************)
(* Sessions                                                                *)
(***************************************************************************)

(* A statement that ends a request and writes no table but the sessions. *)
LEMMA SessionsMove ==
    ASSUME IInv, NEW r \in Requests, Done(r), SessionTypeOK', SessionInv',
           \A t \in Tokens : issued[t] # Null => issued'[t] # Null,
           UNCHANGED <<clock, users, started, aborts, referralVars, status>>
    PROVE  IInv'
<1>1. Kept(Idle) /\ Warned(Idle) /\ Idle.pc # "pay" /\ Idle \in Request
  BY IdleRequest DEF Kept, Warned, Idle
<1>2. TypeOK'
  BY <1>1, PutEffect DEF IInv, TypeOK, RequestTypeOK, ReferralTypeOK,
     ComplianceTypeOK, referralVars, Done
<1>3. ASSUME NEW w \in Wallets PROVE BonusInv(w)'
  BY <1>1, <1>2, PayersAfter, NoMorePayers DEF referralVars, Done
<1> QED
  BY <1>1, <1>2, <1>3, Moves DEF Done, referralVars

LEMMA SessionPreserves ==
    ASSUME IInv, NEW r \in Requests, SessionStep(r), UNCHANGED <<referralVars, status>>
    PROVE  IInv'
<1>1. ASSUME NEW w \in Wallets, LoginFind(r, w) PROVE IInv'
  <2> DEFINE q == [Idle EXCEPT !.pc = IF w \in users THEN "session" ELSE "user",
                               !.wallet = w, !.since = clock]
  <2>1. q \in Request /\ Kept(q) /\ Warned(q) /\ q.pc # "pay"
    BY Carried DEF Idle, Request, Kept, Warned
  <2>2. Put(r, q) /\ started' \in Nat /\ UNCHANGED <<clock, users, aborts, sessionVars>>
    BY <1>1, Carried DEF LoginFind, Begin
  <2> HIDE DEF q
  <2> QED
    BY <2>1, <2>2, Quiet, Carried
<1>2. CASE LoginCreate(r)
  <2>1. request[r].wallet \in Wallets
    BY <1>2, Carried DEF LoginCreate, At, Kept
  <2>2. users' \in SUBSET Wallets /\ UNCHANGED <<clock, started, aborts, sessionVars>>
    BY <1>2, <2>1, Carried DEF LoginCreate
  <2>3. CASE Done(r)
    BY <2>2, <2>3, DoneQuiet, Carried
  <2>4. CASE Put(r, [request[r] EXCEPT !.pc = "session", !.since = clock])
    <3> DEFINE q == [request[r] EXCEPT !.pc = "session", !.since = clock]
    <3>1. q \in Request /\ Kept(q) /\ Warned(q) /\ q.pc # "pay"
      BY <2>1, Carried DEF Request, Kept, Warned
    <3> HIDE DEF q
    <3>2. Put(r, q)
      BY <2>4 DEF q
    <3> QED
      BY <2>2, <3>1, <3>2, Quiet, Carried
  <2> QED
    BY <1>2, <2>3, <2>4 DEF LoginCreate
<1>3. ASSUME NEW t \in Tokens, LoginSession(r, t) PROVE IInv'
  <2>1. /\ SessionTypeOK /\ SessionInv /\ issued[t] = Null
        /\ request[r].since \in Nat /\ request[r].since # Null
    BY <1>3, Carried, NullAssumption DEF IInv, TypeOK, LoginSession, Request
  <2>2. PICK n \in Nat : n # Null /\ issued' = [issued EXCEPT ![t] = n]
    BY <1>3, <2>1 DEF LoginSession
  <2>3. SessionTypeOK'
    BY <1>3, <2>1, <2>2 DEF LoginSession, SessionTypeOK
  <2>4. SessionInv'
    BY <1>3, <2>1, <2>2 DEF LoginSession, SessionTypeOK, SessionInv
  <2>5. \A u \in Tokens : issued[u] # Null => issued'[u] # Null
    BY <2>1, <2>2 DEF SessionTypeOK
  <2> QED
    BY <1>3, <2>3, <2>4, <2>5, SessionsMove DEF LoginSession
<1>4. ASSUME NEW t \in Tokens, Check(r, t) PROVE IInv'
  <2> DEFINE q == [Idle EXCEPT !.token = t,
                               !.pc = IF issued[t] + SessionLife < clock
                                      THEN "expire" ELSE "admitted"]
  <2>1. issued[t] # Null
    BY <1>4 DEF Check, Presentable
  <2>2. q \in Request /\ Kept(q) /\ Warned(q) /\ q.pc # "pay"
    BY <2>1 DEF Idle, Request, Kept, Warned
  <2>3. Put(r, q) /\ started' \in Nat /\ UNCHANGED <<clock, users, aborts, sessionVars>>
    BY <1>4, Carried DEF Check, Begin
  <2> HIDE DEF q
  <2> QED
    BY <2>2, <2>3, Quiet, Carried
<1>5. CASE Expire(r)
  <2>1. SessionTypeOK /\ SessionInv
    BY DEF IInv, TypeOK
  <2>2. SessionTypeOK' /\ SessionInv'
    BY <1>5, <2>1 DEF Expire, SessionTypeOK, SessionInv
  <2> QED
    BY <1>5, <2>2, SessionsMove DEF Expire
<1>6. CASE Logout(r)
  <2>1. SessionTypeOK /\ SessionInv
    BY DEF IInv, TypeOK
  <2>2. request[r].token \in Tokens /\ issued[request[r].token] # Null
    BY <1>6, Carried DEF Logout, Admitted, At, Kept
  <2>3. SessionTypeOK' /\ SessionInv'
    BY <1>6, <2>1, <2>2 DEF Logout, SessionTypeOK, SessionInv
  <2> QED
    BY <1>6, <2>3, SessionsMove DEF Logout
<1> QED
  BY <1>1, <1>2, <1>3, <1>4, <1>5, <1>6 DEF SessionStep

(***************************************************************************)
(* Referrals                                                               *)
(***************************************************************************)

(* A statement that may write the referrals and the devices, and promises  *)
(* nothing.                                                                *)
LEMMA ReferralsMove ==
    ASSUME IInv, NEW r \in Requests, NEW q \in Request, Put(r, q),
           Kept(q), Warned(q), q.pc # "pay", ReferralTypeOK',
           \A w \in Wallets : referral[w] # Null => referral'[w] # Null,
           \A w \in Wallets : Paid(w)' <=> Paid(w),
           UNCHANGED <<clock, users, started, aborts, bonuses, sessionVars, status>>
    PROVE  IInv'
<1>1. TypeOK'
  BY PutEffect DEF IInv, TypeOK, RequestTypeOK, SessionTypeOK,
     ComplianceTypeOK, sessionVars
<1>2. SessionInv'
  BY DEF IInv, SessionInv, sessionVars
<1>3. ASSUME NEW w \in Wallets PROVE BonusInv(w)'
  <2>1. Cardinality(Payers(w)') <= Cardinality(Payers(w))
    BY PayersAfter, PayerCount, FS_Subset
  <2>2. bonuses[w] \in Nat /\ bonuses'[w] = bonuses[w] /\ BonusInv(w)
    BY DEF IInv, TypeOK, ReferralTypeOK
  <2>3. Paid(w)' <=> Paid(w)
    OBVIOUS
  <2> QED
    BY <2>1, <2>2, <2>3, PayerCount, PayerCountNext DEF BonusInv
<1> QED
  BY <1>1, <1>2, <1>3, Moves DEF sessionVars

LEMMA IdleIsQuiet ==
    ASSUME NEW r, Done(r)
    PROVE  /\ Idle \in Request /\ Kept(Idle) /\ Warned(Idle)
           /\ Idle.pc # "pay" /\ Put(r, Idle)
  BY IdleRequest DEF Kept, Warned, Idle, Done

LEMMA ReferralPreserves ==
    ASSUME IInv, NEW r \in Requests, ReferralStep(r), UNCHANGED <<sessionVars, status>>
    PROVE  IInv'
<1>1. ASSUME NEW by \in Wallets, NEW w \in Wallets, NEW d \in Devices \union {Null},
             ReferFind(r, by, w, d)
      PROVE  IInv'
  <2> DEFINE q == [Idle EXCEPT !.pc = IF d = Null THEN "refer" ELSE "devices",
                               !.referrer = by, !.wallet = w, !.device = d]
  <2>1. q \in Request /\ Kept(q) /\ Warned(q) /\ q.pc # "pay"
    BY DEF Idle, Request, Kept, Warned
  <2>2. Put(r, q) /\ started' \in Nat /\ UNCHANGED <<clock, users, aborts, referralVars>>
    BY <1>1, Carried DEF ReferFind, Begin
  <2> HIDE DEF q
  <2> QED
    BY <2>1, <2>2, Quiet, Carried
<1>2. CASE ReferDevices(r)
  <2>1. CASE Done(r)
    BY <1>2, <2>1, DoneQuiet, Carried DEF ReferDevices
  <2>2. CASE Goto(r, "refer")
    <3> DEFINE q == [request[r] EXCEPT !.pc = "refer"]
    <3>1. q \in Request /\ Kept(q) /\ Warned(q) /\ q.pc # "pay"
      BY <1>2, Carried DEF ReferDevices, At, Request, Kept, Warned
    <3>2. Put(r, q)
      BY <2>2 DEF Goto
    <3> HIDE DEF q
    <3> QED
      BY <1>2, <3>1, <3>2, Quiet, Carried DEF ReferDevices
  <2> QED
    BY <1>2, <2>1, <2>2 DEF ReferDevices
<1>3. CASE ReferCreate(r)
  <2>1. /\ request[r].wallet \in Wallets /\ request[r].referrer \in Wallets
        /\ request[r].device \in Devices \union {Null}
    BY <1>3, Carried DEF ReferCreate, At, Kept, Request
  <2>2. CASE referral[request[r].wallet] # Null
    BY <1>3, <2>2, DoneQuiet, Carried DEF ReferCreate, referralVars
  <2>3. CASE referral[request[r].wallet] = Null
    <3>1. PICK row \in ReferralRow :
              /\ row = [referrer |-> request[r].referrer, paid |-> FALSE]
              /\ row # Null /\ ~row.paid
      <4>1. /\ [referrer |-> request[r].referrer, paid |-> FALSE] \in ReferralRow
            /\ ~[referrer |-> request[r].referrer, paid |-> FALSE].paid
        BY <2>1 DEF ReferralRow
      <4> QED
        BY <4>1, RowAssumption
    <3>2. /\ referral' = [referral EXCEPT ![request[r].wallet] = row]
          /\ UNCHANGED <<clock, users, started, aborts, devices, bonuses>>
          /\ Done(r) \/ (request[r].device # Null /\ Goto(r, "fingerprint"))
      BY <1>3, <2>3, <3>1 DEF ReferCreate
    <3>3. ReferralTypeOK /\ ReferralTypeOK'
      BY <2>1, <3>1, <3>2 DEF IInv, TypeOK, ReferralTypeOK
    <3>4. \A w \in Wallets : referral[w] # Null => referral'[w] # Null
      BY <3>1, <3>2, <3>3 DEF ReferralTypeOK
    <3>5. \A w \in Wallets : Paid(w)' <=> Paid(w)
      BY <2>1, <2>3, <3>1, <3>2, <3>3 DEF ReferralTypeOK, Paid
    <3>6. CASE Done(r)
      BY <3>2, <3>3, <3>4, <3>5, <3>6, IdleIsQuiet, ReferralsMove
    <3>7. CASE request[r].device # Null /\ Goto(r, "fingerprint")
      <4> DEFINE q == [request[r] EXCEPT !.pc = "fingerprint"]
      <4>1. q \in Request /\ Kept(q) /\ Warned(q) /\ q.pc # "pay"
        BY <2>1, <3>7, Carried DEF Request, Kept, Warned
      <4>2. Put(r, q)
        BY <3>7 DEF Goto
      <4> HIDE DEF q
      <4> QED
        BY <3>2, <3>3, <3>4, <3>5, <4>1, <4>2, ReferralsMove
    <3> QED
      BY <3>2, <3>6, <3>7
  <2> QED
    BY <2>2, <2>3
<1>4. CASE ReferFingerprint(r)
  <2>1. request[r].wallet \in Wallets /\ request[r].device \in Devices
    BY <1>4, Carried DEF ReferFingerprint, At, Kept
  <2>2. ReferralTypeOK /\ ReferralTypeOK'
    BY <1>4, <2>1 DEF IInv, TypeOK, ReferralTypeOK, ReferFingerprint
  <2>3. \A w \in Wallets : Paid(w)' <=> Paid(w)
    BY <1>4 DEF ReferFingerprint, Paid
  <2> QED
    BY <1>4, <2>2, <2>3, IdleIsQuiet, ReferralsMove DEF ReferFingerprint
<1>5. ASSUME NEW w \in Wallets, BonusFind(r, w) PROVE IInv'
  <2>1. CASE Done(r)
    BY <1>5, <2>1, DoneQuiet, Carried DEF BonusFind
  <2>2. CASE referral[w] # Null /\ ~referral[w].paid
             /\ Put(r, [Idle EXCEPT !.pc = "pay", !.wallet = w])
    <3> DEFINE q == [Idle EXCEPT !.pc = "pay", !.wallet = w]
    <3>1. q \in Request /\ Kept(q) /\ Warned(q) /\ q.wallet = w
      BY <2>2, IdleRequest DEF Idle, Kept, Warned
    <3>2. /\ Put(r, q)
          /\ UNCHANGED <<clock, users, started, aborts, referralVars>>
      BY <1>5, <2>2 DEF BonusFind
    <3> HIDE DEF q
    <3>3. TypeOK'
      BY <3>1, <3>2, PutEffect DEF IInv, TypeOK, RequestTypeOK, SessionTypeOK,
         ReferralTypeOK, ComplianceTypeOK, sessionVars, referralVars
    <3>4. SessionInv'
      BY DEF IInv, SessionInv, sessionVars
    <3>5. ASSUME NEW v \in Wallets PROVE BonusInv(v)'
      <4>1. CASE v = w
        BY <2>2, <3>2, <4>1 DEF IInv, BonusInv, Paid, referralVars
      <4>2. CASE v # w
        <5>1. Payers(v)' \subseteq Payers(v)
          BY <3>1, <3>2, <4>2, PutEffect DEF IInv, Payers, At
        <5> QED
          BY <3>2, <3>3, <5>1, NoMorePayers DEF referralVars
      <4> QED
        BY <4>1, <4>2
    <3> QED
      BY <3>1, <3>2, <3>3, <3>4, <3>5, Moves DEF sessionVars, referralVars
  <2> QED
    BY <1>5, <2>1, <2>2 DEF BonusFind
<1>6. CASE BonusPay(r)
  <2>1. PICK w \in Wallets : /\ w = request[r].wallet /\ referral[w] # Null
                             /\ r \in Payers(w) /\ ReferralTypeOK
    BY <1>6, Carried DEF BonusPay, At, Kept, Payers, IInv, TypeOK
  <2>2. /\ referral' = [referral EXCEPT ![w] = [@ EXCEPT !.paid = TRUE]]
        /\ bonuses' = [bonuses EXCEPT ![w] = @ + 1]
        /\ Done(r) /\ UNCHANGED <<clock, users, started, aborts, devices>>
    BY <1>6, <2>1 DEF BonusPay
  <2>3. w \in Wallets /\ referral[w] \in ReferralRow
    BY <2>1 DEF ReferralTypeOK
  <2>4. PICK row \in ReferralRow : /\ row.paid /\ row # Null
                                   /\ referral' = [referral EXCEPT ![w] = row]
    BY <2>2, <2>3, RowAssumption DEF ReferralRow
  <2>5. PICK n \in Nat : bonuses[w] = n /\ bonuses' = [bonuses EXCEPT ![w] = n + 1]
    BY <2>1, <2>2 DEF ReferralTypeOK
  <2>6. ReferralTypeOK'
    BY <2>1, <2>2, <2>4, <2>5 DEF ReferralTypeOK
  <2>7. TypeOK'
    BY <2>2, <2>6, PutEffect, IdleIsQuiet DEF IInv, TypeOK, RequestTypeOK,
       SessionTypeOK, ComplianceTypeOK, sessionVars
  <2>8. SessionInv'
    BY DEF IInv, SessionInv, sessionVars
  <2>9. ASSUME NEW v \in Wallets PROVE BonusInv(v)'
    <3>1. CASE v # w
      <4>1. Cardinality(Payers(v)') <= Cardinality(Payers(v))
        BY <2>2, IdleIsQuiet, PayersAfter, PayerCount, FS_Subset
      <4>2. bonuses[v] \in Nat /\ bonuses'[v] = bonuses[v] /\ BonusInv(v)
        BY <2>1, <2>5, <3>1 DEF IInv, ReferralTypeOK
      <4>3. Paid(v)' <=> Paid(v)
        BY <2>1, <2>4, <3>1 DEF Paid, ReferralTypeOK
      <4> QED
        BY <4>1, <4>2, <4>3, PayerCount, PayerCountNext DEF BonusInv
    <3>2. CASE v = w
      <4>1. Payers(w)' \subseteq Payers(w) \ {r}
        BY <2>2, IdleIsQuiet, PutEffect DEF IInv, Payers, At
      <4>2. /\ Cardinality(Payers(w)') <= Cardinality(Payers(w) \ {r})
            /\ Cardinality(Payers(w) \ {r}) = Cardinality(Payers(w)) - 1
        BY <2>1, <4>1, PayerCount, FS_Subset, FS_RemoveElement
      <4>3. Paid(w)' /\ bonuses'[w] = n + 1 /\ bonuses[w] = n
        BY <2>1, <2>3, <2>4, <2>5 DEF Paid, ReferralTypeOK
      <4>4. n + Cardinality(Payers(w)) <= Cardinality(Requests)
        BY <2>3, <2>5, PayerCount DEF IInv, BonusInv
      <4>5. bonuses'[w] + Cardinality(Payers(w)') <= Cardinality(Requests)
        BY <4>2, <4>3, <4>4, PayerCount, PayerCountNext
      <4> QED
        BY <3>2, <4>3, <4>5 DEF BonusInv
    <3> QED
      BY <3>1, <3>2
  <2>10. \A v \in Wallets : referral[v] # Null => referral'[v] # Null
    BY <2>1, <2>4 DEF ReferralTypeOK
  <2> QED
    BY <2>2, <2>7, <2>8, <2>9, <2>10, IdleIsQuiet, Moves DEF sessionVars
<1> QED
  BY <1>1, <1>2, <1>3, <1>4, <1>5, <1>6 DEF ReferralStep

(***************************************************************************)
(* Compliance                                                              *)
(***************************************************************************)

(* A statement after which no more wallets are denied. *)
LEMMA StatusMove ==
    ASSUME IInv, NEW r \in Requests, NEW q \in Request, Put(r, q),
           Kept(q), Warned(q), q.pc # "pay", ComplianceTypeOK', aborts' \in Nat,
           \A w \in Wallets : status'[w] = "DENIED" => status[w] = "DENIED",
           UNCHANGED <<clock, users, started, sessionVars, referralVars>>
    PROVE  IInv'
<1>1. TypeOK'
  BY PutEffect DEF IInv, TypeOK, RequestTypeOK, SessionTypeOK, ReferralTypeOK,
     sessionVars, referralVars
<1>2. SessionInv'
  BY DEF IInv, SessionInv, sessionVars
<1>3. ASSUME NEW w \in Wallets PROVE BonusInv(w)'
  BY <1>1, PayersAfter, NoMorePayers DEF referralVars
<1> QED
  BY <1>1, <1>2, <1>3, Moves DEF sessionVars, referralVars

(* One wallet of a bulk import has had its turn. *)
LEMMA SyncedTo ==
    ASSUME IInv, NEW r \in Requests, At(r, "sync"), NEW w, Synced(r, w)
    PROVE  \E q \in Request : Put(r, q) /\ Kept(q) /\ Warned(q) /\ q.pc # "pay"
<1>1. CASE Done(r)
  BY <1>1, IdleIsQuiet
<1>2. CASE Put(r, [request[r] EXCEPT !.wallets = request[r].wallets \ {w}])
  <2> DEFINE q == [request[r] EXCEPT !.wallets = request[r].wallets \ {w}]
  <2>1. q \in Request /\ Kept(q) /\ Warned(q) /\ q.pc # "pay"
    BY Carried DEF Request, At, Kept, Warned
  <2> QED
    BY <1>2, <2>1
<1> QED
  BY <1>1, <1>2 DEF Synced

LEMMA StatusIs ==
    ASSUME ComplianceTypeOK, NEW w \in Wallets, NEW s \in Statuses, s # "DENIED",
           status' = [status EXCEPT ![w] = s]
    PROVE  /\ ComplianceTypeOK'
           /\ \A v \in Wallets : status'[v] = "DENIED" => status[v] = "DENIED"
  BY DEF ComplianceTypeOK

LEMMA DenyPreserves ==
    ASSUME IInv, NEW r \in Requests, NEW w \in Wallets, Deny(r, w),
           UNCHANGED <<sessionVars, referralVars>>
    PROVE  IInv'
<1>1. /\ request \in [Requests -> Request] /\ status \in [Wallets -> Statuses]
      /\ status' = [status EXCEPT ![w] = "DENIED"]
      /\ UNCHANGED <<clock, users, started, aborts>>
  BY DEF IInv, TypeOK, RequestTypeOK, ComplianceTypeOK, Deny
<1>2. ASSUME NEW p \in Requests
      PROVE  \/ request'[p] = Idle
             \/ /\ At(p, "allow") /\ request[p].wallet = w
                /\ request'[p] = [request[p] EXCEPT !.overtaken = TRUE]
             \/ /\ ~(At(p, "allow") /\ request[p].wallet = w)
                /\ request'[p] = request[p]
  BY DEF Deny
<1>3. ASSUME NEW p \in Requests
      PROVE  request'[p] \in Request /\ (request'[p].pc = "pay" => request'[p] = request[p])
  <2>1. request[p] \in Request
    BY <1>1
  <2>2. CASE request'[p] = Idle
    <3>1. Idle.pc # "pay"
      BY DEF Idle
    <3> QED
      BY <2>2, <3>1, IdleRequest
  <2>3. CASE At(p, "allow") /\ request'[p] = [request[p] EXCEPT !.overtaken = TRUE]
    BY <2>1, <2>3 DEF Request, At
  <2>4. CASE request'[p] = request[p]
    BY <2>1, <2>4
  <2> QED
    BY <1>2, <2>2, <2>3, <2>4
<1>4. TypeOK'
  <2>1. request' \in [Requests -> Request]
    BY <1>3 DEF Deny
  <2>2. status' \in [Wallets -> Statuses]
    BY <1>1 DEF Statuses
  <2> QED
    BY <1>1, <2>1, <2>2 DEF IInv, TypeOK, RequestTypeOK, SessionTypeOK,
       ReferralTypeOK, ComplianceTypeOK, sessionVars, referralVars
<1>5. SessionInv'
  BY DEF IInv, SessionInv, sessionVars
<1>6. ASSUME NEW p \in Requests PROVE Kept(request[p])' /\ Warned(request[p])'
  <2>1. Kept(request[p]) /\ Warned(request[p]) /\ request[p] \in Request
    BY Carried
  <2>2. CASE request'[p] = Idle
    BY <2>2 DEF Kept, Warned, Idle
  <2>3. CASE /\ At(p, "allow") /\ request[p].wallet = w
             /\ request'[p] = [request[p] EXCEPT !.overtaken = TRUE]
    <3>1. /\ request'[p].pc = "allow" /\ request'[p].wallet = w
          /\ request'[p].overtaken
      BY <2>1, <2>3 DEF At, Request
    <3> QED
      BY <3>1 DEF Kept, Warned
  <2>4. CASE /\ ~(At(p, "allow") /\ request[p].wallet = w)
             /\ request'[p] = request[p]
    <3>1. Kept(request[p])'
      BY <2>1, <2>4 DEF Kept, sessionVars, referralVars
    <3>2. request[p].pc = "allow" => request[p].wallet \in Wallets \ {w}
      BY <2>1, <2>4 DEF Kept, At
    <3>3. Warned(request[p])'
      BY <1>1, <2>1, <2>4, <3>2 DEF Warned
    <3> QED
      BY <3>1, <3>3
  <2> QED
    BY <1>2, <2>2, <2>3, <2>4
<1>7. ASSUME NEW v \in Wallets PROVE BonusInv(v)'
  <2>1. Payers(v)' \subseteq Payers(v)
    BY <1>3 DEF Payers, At
  <2> QED
    BY <1>4, <2>1, NoMorePayers DEF referralVars
<1> QED
  BY <1>4, <1>5, <1>6, <1>7 DEF IInv

LEMMA CompliancePreserves ==
    ASSUME IInv, NEW r \in Requests, ComplianceStep(r),
           UNCHANGED <<sessionVars, referralVars>>
    PROVE  IInv'
<1>0. /\ ComplianceTypeOK /\ "APPROVED" \in Statuses /\ "UNKNOWN" \in Statuses
      /\ "APPROVED" # "DENIED" /\ "UNKNOWN" # "DENIED"
  BY DEF IInv, TypeOK, Statuses
<1>1. ASSUME NEW w \in Wallets, AllowFind(r, w) PROVE IInv'
  <2>1. CASE Done(r)
    BY <1>1, <2>1, DoneQuiet, Carried DEF AllowFind
  <2>2. CASE status[w] # "DENIED" /\ Put(r, [Idle EXCEPT !.pc = "allow", !.wallet = w])
    <3> DEFINE q == [Idle EXCEPT !.pc = "allow", !.wallet = w]
    <3>1. q \in Request /\ Kept(q) /\ Warned(q) /\ q.pc # "pay"
      BY <2>2, IdleRequest DEF Idle, Kept, Warned
    <3>2. Put(r, q)
      BY <2>2
    <3> HIDE DEF q
    <3> QED
      BY <1>1, <3>1, <3>2, Quiet, Carried DEF AllowFind
  <2> QED
    BY <1>1, <2>1, <2>2 DEF AllowFind
<1>2. ASSUME NEW w \in Wallets, Deny(r, w) PROVE IInv'
  BY <1>2, DenyPreserves
<1>3. ASSUME NEW w \in Wallets, Remove(r, w) PROVE IInv'
  BY <1>0, <1>3, StatusIs, StatusMove, IdleIsQuiet, Carried DEF Remove
<1>4. CASE AllowUpsert(r)
  <2>1. request[r].wallet \in Wallets
    BY <1>4, Carried DEF AllowUpsert, At, Kept
  <2> QED
    BY <1>0, <1>4, <2>1, StatusIs, StatusMove, IdleIsQuiet, Carried DEF AllowUpsert, Approved
<1>5. ASSUME NEW ws \in SUBSET Wallets, SyncBegin(r, ws) PROVE IInv'
  <2> DEFINE q == [Idle EXCEPT !.pc = "sync", !.wallets = ws]
  <2>1. q \in Request /\ Kept(q) /\ Warned(q) /\ q.pc # "pay"
    BY IdleRequest DEF Idle, Kept, Warned
  <2>2. Put(r, q)
    BY <1>5 DEF SyncBegin
  <2> HIDE DEF q
  <2> QED
    BY <1>5, <2>1, <2>2, Quiet, Carried DEF SyncBegin
<1>6. ASSUME NEW w \in Wallets, SyncUpsert(r, w) PROVE IInv'
  BY <1>0, <1>6, StatusIs, StatusMove, SyncedTo, Carried DEF SyncUpsert, Approved
<1>7. ASSUME NEW w \in Wallets, SyncSkip(r, w) PROVE IInv'
  <2>1. PICK q \in Request : Put(r, q) /\ Kept(q) /\ Warned(q) /\ q.pc # "pay"
    BY <1>7, SyncedTo DEF SyncSkip
  <2> QED
    BY <1>7, <2>1, Quiet, Carried DEF SyncSkip
<1> QED
  BY <1>1, <1>2, <1>3, <1>4, <1>5, <1>6, <1>7 DEF ComplianceStep

(***************************************************************************)
(* The invariant                                                           *)
(***************************************************************************)

LEMMA InitIInv == Init => IInv
<1> SUFFICES ASSUME Init PROVE IInv
  OBVIOUS
<1> USE DEF Init, RequestInit, SessionInit, ReferralInit, ComplianceInit
<1>1. TypeOK
  BY IdleRequest DEF TypeOK, RequestTypeOK, SessionTypeOK, ReferralTypeOK,
     ComplianceTypeOK, Statuses
<1>2. SessionInv
  BY DEF SessionInv
<1>3. \A r \in Requests : Kept(request[r]) /\ Warned(request[r])
  BY DEF Kept, Warned, Idle
<1>4. ASSUME NEW w \in Wallets PROVE BonusInv(w)
  BY DEF BonusInv, Paid
<1> QED
  BY <1>1, <1>2, <1>3, <1>4 DEF IInv

LEMMA NextIInv == IInv /\ [Next]_vars => IInv'
<1> SUFFICES ASSUME IInv, [Next]_vars PROVE IInv'
  OBVIOUS
<1>1. ASSUME UNCHANGED <<users, request, started, aborts, sessionVars, referralVars, status>>,
             clock' \in Nat
      PROVE  IInv'
  <2>1. TypeOK'
    BY <1>1 DEF IInv, TypeOK, RequestTypeOK, SessionTypeOK, ReferralTypeOK,
       ComplianceTypeOK, sessionVars, referralVars
  <2>2. SessionInv'
    BY <1>1 DEF IInv, SessionInv, sessionVars
  <2>3. ASSUME NEW r \in Requests PROVE Kept(request[r])' /\ Warned(request[r])'
    BY <1>1, Carried DEF Kept, Warned, sessionVars, referralVars
  <2>4. ASSUME NEW w \in Wallets PROVE BonusInv(w)'
    <3>1. Payers(w)' \subseteq Payers(w)
      BY <1>1 DEF Payers, At
    <3> QED
      BY <1>1, <2>1, <3>1, NoMorePayers DEF referralVars
  <2> QED
    BY <2>1, <2>2, <2>3, <2>4 DEF IInv
<1>2. CASE Tick
  <2>1. clock' \in Nat
    BY <1>2 DEF Tick, IInv, TypeOK, RequestTypeOK
  <2> QED
    BY <1>1, <1>2, <2>1 DEF Tick
<1>3. CASE UNCHANGED vars
  <2>1. clock' \in Nat
    BY <1>3 DEF vars, requestVars, IInv, TypeOK, RequestTypeOK
  <2> QED
    BY <1>1, <1>3, <2>1 DEF vars, requestVars
<1>4. ASSUME NEW r \in Requests, Abort(r) PROVE IInv'
  BY <1>4, DoneQuiet, Carried DEF Abort
<1>5. ASSUME NEW r \in Requests, Step(r) PROVE IInv'
  BY <1>4, <1>5, SessionPreserves, ReferralPreserves, CompliancePreserves DEF Step
<1> QED
  BY <1>2, <1>3, <1>5 DEF Next

(* The invariant holds in every state: what a handler found is still there *)
(* for its next statement, revoked tokens have no session, and the calls   *)
(* that may still pay leave room for the bonuses they promise.             *)
THEOREM InductiveInvariant == Spec => []IInv
<1> QED
  BY InitIInv, NextIInv, PTL DEF Spec

(* Every variable of authentication, referral and compliance has its type. *)
THEOREM TypeCorrect == Spec => []TypeOK
<1>1. IInv => TypeOK
  BY DEF IInv
<1> QED
  BY <1>1, InductiveInvariant, PTL

(* However many calls of payWelcomeBonus overlap and repeat, a wallet is   *)
(* promised its bonus at most once for every call that can be in flight    *)
(* (referral.service.ts:91-108).                                           *)
THEOREM BonusIsBounded == Spec => []BonusBounded
<1>1. IInv => BonusBounded
  <2> SUFFICES ASSUME IInv, NEW w \in Wallets
               PROVE  bonuses[w] <= Cardinality(Requests)
    BY DEF BonusBounded
  <2>1. BonusInv(w) /\ bonuses[w] \in Nat
    BY DEF IInv, TypeOK, ReferralTypeOK
  <2> QED
    BY <2>1, PayerCount DEF BonusInv
<1> QED
  BY <1>1, InductiveInvariant, PTL

(***************************************************************************)
(* Who passes the guard, and who writes which table                        *)
(***************************************************************************)

(* A step of one request leaves the others where they are. *)
LEMMA OthersStay ==
    ASSUME IInv, NEW s \in Requests, Step(s), NEW r \in Requests \ {s}
    PROVE  request'[r].pc = request[r].pc
<1>0. request \in [Requests -> Request]
  BY DEF IInv, TypeOK, RequestTypeOK
<1>1. ASSUME NEW q, Put(s, q) PROVE request'[r] = request[r]
  BY <1>0, <1>1 DEF Put
<1>2. Done(s) => request'[r] = request[r]
  BY <1>1 DEF Done
<1>3. \A pc : Goto(s, pc) => request'[r] = request[r]
  BY <1>1 DEF Goto
<1>4. CASE SessionStep(s)
  BY <1>1, <1>2, <1>4 DEF SessionStep, LoginFind, LoginCreate, LoginSession, Check,
     Expire, Logout
<1>5. CASE ReferralStep(s)
  BY <1>1, <1>2, <1>3, <1>5 DEF ReferralStep, ReferFind, ReferDevices, ReferCreate,
     ReferFingerprint, BonusFind, BonusPay
<1>6. CASE ComplianceStep(s)
  <2>1. ASSUME NEW w \in Wallets, Deny(s, w) PROVE request'[r].pc = request[r].pc
    <3>1. \/ request'[r] = [request[r] EXCEPT !.overtaken = TRUE]
          \/ request'[r] = request[r]
      BY <2>1 DEF Deny
    <3>2. request[r] \in Request
      BY <1>0
    <3> QED
      BY <3>1, <3>2 DEF Request
  <2> QED
    BY <1>1, <1>2, <1>6, <2>1 DEF ComplianceStep, AllowFind, AllowUpsert, Remove,
       SyncBegin, SyncUpsert, SyncSkip, Synced
<1>7. CASE Abort(s)
  BY <1>2, <1>7 DEF Abort
<1> QED
  BY <1>4, <1>5, <1>6, <1>7 DEF Step

LEMMA AdmittedByCheck ==
    ASSUME IInv, [Next]_vars, NEW r \in Requests,
           Free(r), request'[r].pc = "admitted"
    PROVE  \E t \in Tokens : Check(r, t) /\ request'[r].token = t
<1>0. request[r].pc = "idle" /\ request \in [Requests -> Request]
  BY DEF Free, IInv, TypeOK, RequestTypeOK
<1>1. PICK s \in Requests : Step(s)
  BY <1>0 DEF Next, Tick, vars, requestVars
<1>2. s = r
  BY <1>0, <1>1, OthersStay
<1>3. ASSUME NEW q \in Request, Put(r, q) PROVE request'[r] = q
  BY <1>0, <1>3 DEF Put
<1>4. ~ReferralStep(r)
  <2>1. ASSUME NEW by \in Wallets, NEW w \in Wallets, NEW d \in Devices \union {Null},
               ReferFind(r, by, w, d)
        PROVE  FALSE
    BY <1>0, <2>1 DEF ReferFind, Put, Idle
  <2> QED
    BY <1>0, <2>1 DEF ReferralStep, ReferDevices, ReferCreate, ReferFingerprint,
       BonusFind, BonusPay, At, Admitted
<1>5. ~ComplianceStep(r) /\ ~Abort(r)
  BY <1>0 DEF ComplianceStep, AllowFind, AllowUpsert, Deny, Remove, SyncBegin,
     SyncUpsert, SyncSkip, Abort, At, Admitted, Free
<1>6. SessionStep(r)
  BY <1>1, <1>2, <1>4, <1>5 DEF Step
<1>7. ASSUME NEW w \in Wallets, LoginFind(r, w) PROVE FALSE
  BY <1>0, <1>7 DEF LoginFind, Put, Idle
<1>8. PICK t \in Tokens : Check(r, t)
  BY <1>0, <1>6, <1>7 DEF SessionStep, LoginCreate, LoginSession, Expire, Logout,
     At, Admitted
<1>9. request'[r].token = t
  BY <1>0, <1>8 DEF Check, Put, Idle
<1> QED
  BY <1>8, <1>9

(***************************************************************************)
(* What the steps never do                                                 *)
(***************************************************************************)

(* No token passes the guard after its logout went through, whatever other *)
(* requests do meanwhile (auth.service.ts:149-168).                        *)
THEOREM LogoutsAreFinal == Spec => LogoutIsFinal
<1>1. IInv /\ [Next]_vars =>
        [\A r \in Requests :
            Free(r) /\ request'[r].pc = "admitted" => request'[r].token \notin revoked
        ]_<<requestVars, sessionVars>>
  <2> SUFFICES ASSUME IInv, [Next]_vars, NEW r \in Requests,
                      Free(r), request'[r].pc = "admitted"
               PROVE  request'[r].token \notin revoked
    OBVIOUS
  <2>1. PICK t \in Tokens : Check(r, t) /\ request'[r].token = t
    BY AdmittedByCheck
  <2>2. t \in sessions
    BY <2>1 DEF Check
  <2> QED
    BY <2>1, <2>2 DEF IInv, SessionInv
<1> QED
  BY <1>1, InductiveInvariant, PTL DEF Spec, LogoutIsFinal

(* A denied wallet is approved only by a bulk import, or by a call of      *)
(* addToAllowlist that looked before the denial                            *)
(* (compliance.service.ts:46-65, :156-169).                                *)
THEOREM DenialsHold == Spec => DenialHolds
<1>1. IInv /\ [Next]_vars =>
        [\A w \in Wallets :
            status[w] = "DENIED" /\ status'[w] = "APPROVED" =>
                \E r \in Requests :
                    \/ At(r, "sync") /\ w \in request[r].wallets
                    \/ At(r, "allow") /\ request[r].wallet = w /\ request[r].overtaken
        ]_<<requestVars, status>>
  <2> SUFFICES ASSUME IInv, [Next]_vars, NEW w \in Wallets,
                      status[w] = "DENIED", status'[w] = "APPROVED"
               PROVE  \E r \in Requests :
                          \/ At(r, "sync") /\ w \in request[r].wallets
                          \/ At(r, "allow") /\ request[r].wallet = w /\ request[r].overtaken
    OBVIOUS
  <2>1. status \in [Wallets -> Statuses]
    BY DEF IInv, TypeOK, ComplianceTypeOK
  <2>2. PICK r \in Requests : ComplianceStep(r)
    BY DEF Next, Tick, Step, Abort, vars
  <2>3. ASSUME NEW v \in Wallets, AllowFind(r, v) PROVE FALSE
    BY <2>3 DEF AllowFind
  <2>4. ASSUME NEW v \in Wallets, Deny(r, v) PROVE FALSE
    BY <2>1, <2>4 DEF Deny
  <2>5. ASSUME NEW v \in Wallets, Remove(r, v) PROVE FALSE
    BY <2>1, <2>5 DEF Remove
  <2>6. ASSUME NEW ws \in SUBSET Wallets, SyncBegin(r, ws) PROVE FALSE
    BY <2>6 DEF SyncBegin
  <2>7. ASSUME NEW v \in Wallets, SyncSkip(r, v) PROVE FALSE
    BY <2>7 DEF SyncSkip
  <2>8. ASSUME NEW v \in Wallets, SyncUpsert(r, v)
        PROVE  At(r, "sync") /\ w \in request[r].wallets
    BY <2>1, <2>8 DEF SyncUpsert, Approved
  <2>9. CASE AllowUpsert(r)
    <3>1. At(r, "allow") /\ request[r].wallet = w
      BY <2>1, <2>9 DEF AllowUpsert, Approved
    <3>2. request[r].overtaken
      BY <3>1, Carried DEF Warned, At
    <3> QED
      BY <3>1, <3>2
  <2> QED
    BY <2>2, <2>3, <2>4, <2>5, <2>6, <2>7, <2>8, <2>9 DEF ComplianceStep
<1> QED
  BY <1>1, InductiveInvariant, PTL DEF Spec, DenialHolds

(* The first referrer of a wallet stays its referrer, and the mark of its  *)
(* bonus is not reset (referral.service.ts:29-60, :106-109).               *)
THEOREM ReferrersAreFinal == Spec => ReferrerIsFinal
<1>1. IInv /\ [Next]_vars =>
        [\A w \in Wallets : referral[w] # Null =>
            /\ referral'[w] # Null
            /\ referral'[w].referrer = referral[w].referrer
            /\ referral[w].paid => referral'[w].paid
        ]_<<requestVars, referralVars>>
  <2> SUFFICES ASSUME IInv, [Next]_vars, NEW w \in Wallets, referral[w] # Null
               PROVE  /\ referral'[w] # Null
                      /\ referral'[w].referrer = referral[w].referrer
                      /\ referral[w].paid => referral'[w].paid
    OBVIOUS
  <2>1. referral \in [Wallets -> ReferralRow \union {Null}]
    BY DEF IInv, TypeOK, ReferralTypeOK
  <2>2. CASE UNCHANGED referral
    BY <2>2
  <2>3. ASSUME NEW r \in Requests, ReferralStep(r)
        PROVE  \/ UNCHANGED referral
               \/ /\ referral[request[r].wallet] = Null
                  /\ \E row : referral' = [referral EXCEPT ![request[r].wallet] = row]
               \/ BonusPay(r)
    BY <2>3 DEF ReferralStep, ReferFind, ReferDevices, ReferCreate, ReferFingerprint,
       BonusFind, referralVars
  <2>4. ASSUME NEW r \in Requests, referral[request[r].wallet] = Null,
               NEW row, referral' = [referral EXCEPT ![request[r].wallet] = row]
        PROVE  referral'[w] = referral[w]
    BY <2>1, <2>4
  <2>5. ASSUME NEW r \in Requests, BonusPay(r)
        PROVE  \/ referral'[w] = referral[w]
               \/ referral'[w] = [referral[w] EXCEPT !.paid = TRUE]
    BY <2>1, <2>5 DEF BonusPay
  <2>6. /\ [referral[w] EXCEPT !.paid = TRUE] \in ReferralRow
        /\ [referral[w] EXCEPT !.paid = TRUE].referrer = referral[w].referrer
        /\ [referral[w] EXCEPT !.paid = TRUE].paid
    BY <2>1 DEF ReferralRow
  <2>7. \/ UNCHANGED referral
        \/ \E r \in Requests : ReferralStep(r)
    BY DEF Next, Tick, Step, Abort, vars, referralVars
  <2> QED
    <3>1. CASE referral'[w] = referral[w]
      BY <3>1
    <3>2. CASE referral'[w] = [referral[w] EXCEPT !.paid = TRUE]
      BY <2>6, <3>2, RowAssumption
    <3>3. referral'[w] = referral[w] \/ referral'[w] = [referral[w] EXCEPT !.paid = TRUE]
      BY <2>3, <2>4, <2>5, <2>7
    <3> QED
      BY <3>1, <3>2, <3>3
<1> QED
  BY <1>1, InductiveInvariant, PTL DEF Spec, ReferrerIsFinal

=============================================================================
