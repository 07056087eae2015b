------------------------------ MODULE Referral ------------------------------
(***************************************************************************)
(* referral.service.ts: who referred whom, the devices that were seen, and *)
(* the welcome bonus.  createReferral is the one endpoint without a guard. *)
(* distributeReferralRewards has no caller and is left out.                *)
(***************************************************************************)
EXTENDS Requests

VARIABLES referral,  \* the row of a referred wallet
          devices,   \* the rows of device_fingerprints
          bonuses    \* history: answers that promised the wallet its bonus

referralVars == <<referral, devices, bonuses>>

ReferralRow == [referrer : Wallets, paid : BOOLEAN]

ReferralTypeOK == /\ referral \in [Wallets -> ReferralRow \union {Null}]
                  /\ devices \in SUBSET (Wallets \X Devices)
                  /\ bonuses \in [Wallets -> Nat]

ASSUME RowAssumption == Null \notin ReferralRow

ReferralInit == /\ referral = [w \in Wallets |-> Null]
                /\ devices = {}
                /\ bonuses = [w \in Wallets |-> 0]

(***************************************************************************)
(* createReferral                                                          *)
(***************************************************************************)

ReferFind(r, by, w, d) ==
    /\ by # w
    /\ Begin(r)
    /\ referral[w] = Null
    /\ Put(r, [Idle EXCEPT !.pc = IF d = Null THEN "refer" ELSE "devices",
                           !.referrer = by, !.wallet = w, !.device = d])
    /\ UNCHANGED <<clock, users, aborts, referralVars>>

(* checkDeviceFingerprint looks at the referrer's devices. *)
ReferDevices(r) ==
    LET q == request[r]
    IN  /\ At(r, "devices")
        /\ IF <<q.referrer, q.device>> \in devices THEN Done(r) ELSE Goto(r, "refer")
        /\ UNCHANGED <<clock, users, started, aborts, referralVars>>

(* MUTANT of ReferCreate: an upsert. *)
ReferCreate_Upsert(r) ==
    LET q == request[r]
    IN  /\ At(r, "refer")
        /\ referral' = [referral EXCEPT ![q.wallet] =
               [referrer |-> q.referrer, paid |-> FALSE]]
        /\ IF q.device = Null THEN Done(r) ELSE Goto(r, "fingerprint")
        /\ UNCHANGED <<clock, users, started, aborts, devices, bonuses>>

(* The unique referredWallet makes the second of two creates throw. *)
ReferCreate(r) ==
    LET q == request[r]
    IN  /\ At(r, "refer")
        /\ IF referral[q.wallet] # Null THEN Done(r) /\ UNCHANGED referral
           ELSE /\ referral' = [referral EXCEPT ![q.wallet] =
                       [referrer |-> q.referrer, paid |-> FALSE]]
                /\ IF q.device = Null THEN Done(r) ELSE Goto(r, "fingerprint")
        /\ UNCHANGED <<clock, users, started, aborts, devices, bonuses>>

(* The row refers to a user; without one the create throws, and the        *)
(* referral stays without its device.                                      *)
ReferFingerprint(r) ==
    LET q == request[r]
    IN  /\ At(r, "fingerprint")
        /\ devices' = IF q.wallet \in users
                      THEN devices \union {<<q.wallet, q.device>>} ELSE devices
        /\ Done(r)
        /\ UNCHANGED <<clock, users, started, aborts, referral, bonuses>>

(***************************************************************************)
(* payWelcomeBonus                                                         *)
(***************************************************************************)

(* MUTANT of BonusFind: welcomeBonusPaid is not looked at. *)
BonusFind_Unchecked(r, w) ==
    /\ Admitted(r)
    /\ referral[w] # Null
    /\ Put(r, [Idle EXCEPT !.pc = "pay", !.wallet = w])
    /\ UNCHANGED <<clock, users, started, aborts, referralVars>>

BonusFind(r, w) ==
    /\ Admitted(r)
    /\ IF referral[w] = Null THEN Done(r)
       ELSE IF referral[w].paid THEN Done(r)
       ELSE Put(r, [Idle EXCEPT !.pc = "pay", !.wallet = w])
    /\ UNCHANGED <<clock, users, started, aborts, referralVars>>

BonusPay(r) ==
    LET w == request[r].wallet
    IN  /\ At(r, "pay")
        /\ referral' = [referral EXCEPT ![w] = [@ EXCEPT !.paid = TRUE]]
        /\ bonuses' = [bonuses EXCEPT ![w] = @ + 1]
        /\ Done(r)
        /\ UNCHANGED <<clock, users, started, aborts, devices>>

ReferralStep(r) ==
    \/ \E by \in Wallets, w \in Wallets, d \in Devices \union {Null} : ReferFind(r, by, w, d)
    \/ ReferDevices(r)
    \/ ReferCreate(r)
    \/ ReferFingerprint(r)
    \/ \E w \in Wallets : BonusFind(r, w)
    \/ BonusPay(r)

(* However many calls for a wallet overlap, and however often they are     *)
(* repeated, it is promised its bonus no more often than there can be      *)
(* calls in flight at a time: once paid, only those that looked before go  *)
(* on (referral.service.ts:91-108).                                        *)
BonusBounded == \A w \in Wallets : bonuses[w] <= Cardinality(Requests)

(* A wallet's first referrer is its referrer for good, and its bonus mark  *)
(* is not reset: two calls that both found no referral leave one           *)
(* (referral.service.ts:29-60, :106-109).                                  *)
ReferrerIsFinal ==
    [][\A w \in Wallets : referral[w] # Null =>
           /\ referral'[w] # Null
           /\ referral'[w].referrer = referral[w].referrer
           /\ referral[w].paid => referral'[w].paid
      ]_<<requestVars, referralVars>>

=============================================================================
