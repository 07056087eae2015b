------------------------------ MODULE Rewards ------------------------------
(***************************************************************************)
(* rewards.service.ts composed with the weekly distribution: claims pay    *)
(* for the weeks since lastRewardTs with an NFT, vesting releases it, and  *)
(* the distribution moves lastRewardTs under the claims.  As in the other  *)
(* modules a Prisma call is one step, a request may end after any of them, *)
(* and refused requests are not steps.                                     *)
(***************************************************************************)
EXTENDS Distribution

CONSTANTS Nfts,           \* NFT addresses: one per owner and seed
          Claims,         \* slots for claim and vest requests
          VestingPeriod,  \* ticks until an NFT can be vested
          MaxAborts       \* bound of the model: requests cut short

ASSUME VestingAssumption == VestingPeriod \in Nat /\ MaxAborts \in Nat
ASSUME NftAssumption == IsFiniteSet(Nfts) /\ IsFiniteSet(Claims)

(* A handler does not live for half a week.                                *)
ASSUME WaitAssumption == 2 * RequestLifetime < Week

VARIABLES nft,     \* reward_nfts: a row or Null for each address
          claim,   \* the handlers in flight
          unsettled, \* history: NFTs whose claim ended before its update
          aborts   \* requests cut short so far

rewardVars == <<nft, claim, unsettled, aborts>>
vars == <<distributionVars, rewardVars>>

(* weeks is not a column, it is what the reply of the claim says. *)
NftRow == [position : Positions, rewardAmount : Nat, vestTs : Nat,
           isActive : BOOLEAN, weeks : Nat]

ASSUME NftNullAssumption == Null \notin NftRow /\ Null \notin Positions

(* pc names the next statement: "state" reads the program's row, "create"  *)
(* and "update" write the NFT and the position, "vest" the NFT again.      *)
Claim == [pc : {"idle", "state", "create", "update", "vest"},
          position : Positions \union {Null}, nft : Nfts \union {Null},
          now : Nat, lastRewardTs : Int, weeks : Nat, reward : Nat]

IdleClaim == [pc |-> "idle", position |-> Null, nft |-> Null, now |-> 0,
              lastRewardTs |-> 0, weeks |-> 0, reward |-> 0]

ClaimFree(c) == claim[c].pc = "idle"
ClaimAt(c, s) == claim[c].pc = s
Reply(c) == claim' = [claim EXCEPT ![c] = IdleClaim]

TypeOK ==
    /\ DistributionTypeOK
    /\ nft \in [Nfts -> NftRow \union {Null}]
    /\ claim \in [Claims -> Claim]
    /\ unsettled \in SUBSET Nfts
    /\ aborts \in Nat

Init ==
    /\ DistributionInit
    /\ nft = [n \in Nfts |-> Null]
    /\ claim = [c \in Claims |-> IdleClaim]
    /\ unsettled = {}
    /\ aborts = 0

(***************************************************************************)
(* claimRewards                                                            *)
(***************************************************************************)

Waited(row, now) == now >= row.lastClaimTs + Week

(* MUTANT of ClaimRead: the time is taken some statements before the row. *)
ClaimRead_TimeFirst(c, p, n) ==
    \E now \in 0..clock :
        /\ clock <= now + RequestLifetime
        /\ ClaimFree(c)
        /\ Active(p)
        /\ Waited(position[p], now)
        /\ claim' = [claim EXCEPT ![c] =
               [IdleClaim EXCEPT !.pc = "state", !.position = p, !.nft = n,
                                 !.now = now,
                                 !.lastRewardTs = position[p].lastRewardTs]]
        /\ UNCHANGED <<distributionVars, nft, unsettled, aborts>>

(* The position's row is read first, the time after it. *)
ClaimRead(c, p, n) ==
    /\ ClaimFree(c)
    /\ Active(p)
    /\ Waited(position[p], clock)
    /\ claim' = [claim EXCEPT ![c] =
           [IdleClaim EXCEPT !.pc = "state", !.position = p, !.nft = n,
                             !.now = clock,
                             !.lastRewardTs = position[p].lastRewardTs]]
    /\ UNCHANGED <<distributionVars, nft, unsettled, aborts>>

WeeksElapsed(q) == (q.now - q.lastRewardTs) \div Week

(* What a number of weeks is worth for a position, by the program's row.   *)
Worth(p, weeks) == ProRataReward(Power[p], program.totalStakingPower,
                                 program.totalRewardPool, weeks)

(* The program's row, with the pool as it is now.  The claim ends here     *)
(* without a state row, a whole week or a reward.                          *)
ClaimState(c) ==
    LET q == claim[c]
        weeks == WeeksElapsed(q)
        reward == IF program = Null THEN 0 ELSE Worth(q.position, weeks)
    IN  /\ ClaimAt(c, "state")
        /\ IF weeks = 0 \/ reward = 0
           THEN Reply(c)
           ELSE claim' = [claim EXCEPT ![c].pc = "create", ![c].weeks = weeks,
                                       ![c].reward = reward]
        /\ UNCHANGED <<distributionVars, nft, unsettled, aborts>>

Minted(q) == [position |-> q.position, rewardAmount |-> q.reward,
              vestTs |-> q.now + VestingPeriod, isActive |-> TRUE,
              weeks |-> q.weeks]

(* MUTANT of ClaimCreate: an NFT of the same seed is written over. *)
ClaimCreate_Upsert(c) ==
    LET q == claim[c]
    IN  /\ ClaimAt(c, "create")
        /\ nft' = [nft EXCEPT ![q.nft] = Minted(q)]
        /\ claim' = [claim EXCEPT ![c].pc = "update"]
        /\ UNCHANGED <<distributionVars, unsettled, aborts>>

(* The unique pda makes the create fail when the seed was used before. *)
ClaimCreate(c) ==
    LET q == claim[c]
    IN  /\ ClaimAt(c, "create")
        /\ IF nft[q.nft] = Null
           THEN /\ nft' = [nft EXCEPT ![q.nft] = Minted(q)]
                /\ claim' = [claim EXCEPT ![c].pc = "update"]
           ELSE Reply(c) /\ UNCHANGED nft
        /\ UNCHANGED <<distributionVars, unsettled, aborts>>

(* MUTANT of ClaimUpdate: only the claim's own timestamp is written. *)
ClaimUpdate_ClaimOnly(c) ==
    LET q == claim[c]
    IN  /\ ClaimAt(c, "update")
        /\ position' = [position EXCEPT ![q.position].lastClaimTs = q.now]
        /\ Reply(c)
        /\ UNCHANGED <<clock, program, queueVars, worker, admin, bookVars,
                       nft, unsettled, aborts>>

(* MUTANT of ClaimUpdate: an updateMany that matches no row. *)
ClaimUpdate_NoRow(c) ==
    /\ ClaimAt(c, "update")
    /\ Reply(c)
    /\ UNCHANGED <<distributionVars, nft, unsettled, aborts>>

(* Both timestamps, of the row as it is now. *)
ClaimUpdate(c) ==
    LET q == claim[c]
    IN  /\ ClaimAt(c, "update")
        /\ position' = [position EXCEPT ![q.position].lastRewardTs = q.now,
                                        ![q.position].lastClaimTs = q.now]
        /\ Reply(c)
        /\ UNCHANGED <<clock, program, queueVars, worker, admin, bookVars,
                       nft, unsettled, aborts>>

(***************************************************************************)
(* vestReward                                                              *)
(***************************************************************************)

VestRead(c, n) ==
    /\ ClaimFree(c)
    /\ nft[n] # Null
    /\ nft[n].isActive
    /\ clock >= nft[n].vestTs
    /\ claim' = [claim EXCEPT ![c] =
           [IdleClaim EXCEPT !.pc = "vest", !.nft = n, !.now = clock]]
    /\ UNCHANGED <<distributionVars, nft, unsettled, aborts>>

VestWrite(c) ==
    LET n == claim[c].nft
    IN  /\ ClaimAt(c, "vest")
        /\ nft' = [nft EXCEPT ![n].isActive = FALSE]
        /\ Reply(c)
        /\ UNCHANGED <<distributionVars, unsettled, aborts>>

(***************************************************************************)
(* The environment                                                         *)
(***************************************************************************)

ClaimAbort(c) ==
    /\ ~ClaimFree(c) /\ aborts < MaxAborts
    /\ aborts' = aborts + 1
    /\ unsettled' = IF ClaimAt(c, "update") THEN unsettled \union {claim[c].nft}
                     ELSE unsettled
    /\ Reply(c)
    /\ UNCHANGED <<distributionVars, nft>>

Tick ==
    /\ DistributionTick
    /\ \A c \in Claims : ClaimFree(c) \/ Young(claim[c].now)
    /\ UNCHANGED rewardVars

ClaimStep(c) ==
    \/ \E p \in Positions, n \in Nfts : ClaimRead(c, p, n)
    \/ ClaimState(c)
    \/ ClaimCreate(c)
    \/ ClaimUpdate(c)
    \/ \E n \in Nfts : VestRead(c, n)
    \/ VestWrite(c)
    \/ ClaimAbort(c)

Next == \/ DistributionStep /\ UNCHANGED rewardVars
        \/ Tick
        \/ \E c \in Claims : ClaimStep(c)

Spec == Init /\ [][Next]_vars

-----------------------------------------------------------------------------
(***************************************************************************)
(* Properties                                                              *)
(***************************************************************************)

(* No NFT is worth nothing or less: no order of claims and distributions   *)
(* puts lastRewardTs ahead of the time a claim computes with, which would  *)
(* pass the tests for zero with a negative number of weeks                 *)
(* (rewards.service.ts:41, :64-80).                                        *)
ClaimsPay == \A n \in Nfts : nft[n] # Null =>
                 nft[n].weeks >= 1 /\ nft[n].rewardAmount >= 1

(* No rounding gets a claim past the cap: an NFT for any number of weeks   *)
(* pays less than 75.01 per cent of the power a year                       *)
(* (rewards.service.ts:291-305).                                           *)
CapHolds ==
    \A n \in Nfts : nft[n] # Null =>
        nft[n].rewardAmount * YearBp
            < (MaxApyBp + 1) * Power[nft[n].position] * nft[n].weeks

(* A staker gains nothing by claiming the same weeks in two parts: the     *)
(* floors and the cap never favour the smaller claims                      *)
(* (rewards.service.ts:281-304).                                           *)
SplittingNeverPays ==
    program # Null => \A p \in Positions : \A some, more \in 1..(MaxTime \div Week) :
        Worth(p, some) + Worth(p, more) <= Worth(p, some + more)

(* What the preview shows when a claim is computed is no less than what    *)
(* the claim then pays, whatever the two services round where: the preview *)
(* is of the whole emission and knows no cap (insights.service.ts:148-161, *)
(* rewards.service.ts:270-305).                                            *)
PreviewCoversClaim ==
    [][\A c \in Claims : ClaimAt(c, "state") /\ ClaimAt(c, "create")' =>
           LET q == claim'[c]
           IN  q.reward <= RewardPreview(Power[q.position], program.totalStakingPower,
                                         program.totalRewardPool, q.weeks)]_vars

(* An NFT is a receipt with fixed terms: claims that reuse its seed and    *)
(* vests that overlap never change its amount, its position or its vesting *)
(* time, and never make it active again (rewards.service.ts:92-104, :171). *)
NftKeepsTerms ==
    [][\A n \in Nfts : nft[n] # Null =>
           \E active \in BOOLEAN :
               /\ nft'[n] = [nft[n] EXCEPT !.isActive = active]
               /\ active => nft[n].isActive]_vars

Paid(p) == {n \in Nfts : nft[n] # Null /\ nft[n].position = p}

(* The time a claim computed with, and the time from which it paid.        *)
ClaimedAt(n) == nft[n].vestTs - VestingPeriod
PaidFrom(n) == ClaimedAt(n) - nft[n].weeks * Week

(* Two claims of a position are paid for the same weeks, by more than a    *)
(* lifetime, only if they ran at the same time or if the first was cut     *)
(* short between its NFT and its timestamps: later claims, distributions   *)
(* and late writes of other claims in any order do not make it so.  No     *)
(* claim is paid for a time before the stake                               *)
(* (rewards.service.ts:64-65, :106-112,                                    *)
(* reward-distribution.processor.ts:67-70).                                *)
WeeksPaidOnce ==
    \A p \in Positions : \A n \in Paid(p) :
        /\ position[p].startTs <= PaidFrom(n)
        /\ \A m \in Paid(p) \ unsettled :
              ClaimedAt(m) + RequestLifetime < ClaimedAt(n) =>
                  ClaimedAt(m) <= PaidFrom(n) + RequestLifetime

(* The claims of a position that run at the same time can each be paid,    *)
(* since the wait is tested on a row that was read; but there are no more  *)
(* of them than handlers can be in flight, however long they go on: the    *)
(* first to write its timestamps makes all that come after it wait         *)
(* (rewards.service.ts:47-52, :106-112).                                   *)
DoublePayBounded ==
    \A p \in Positions : \A n \in Paid(p) \ unsettled :
        Cardinality({m \in Paid(p) \ unsettled :
                         /\ ClaimedAt(n) <= ClaimedAt(m)
                         /\ ClaimedAt(m) <= ClaimedAt(n) + RequestLifetime})
            <= Cardinality(Claims)

(* rewards.e2e.spec.ts:116 "should reject claim before 7-day cooldown":    *)
(* claims of one position, none of which was cut short, are a week apart.  *)
ClaimsAWeekApart ==
    \A p \in Positions : \A m, n \in Paid(p) \ unsettled :
        m # n => \/ ClaimedAt(m) + Week <= ClaimedAt(n)
                 \/ ClaimedAt(n) + Week <= ClaimedAt(m)

(* README.md:9 "Pro-rata reward distribution with 0.21% weekly emission":  *)
(* when a whole week is taken off what a position can still claim, it has  *)
(* been paid for with an NFT.                                              *)
WeeksAreCredited ==
    [][\A p \in Positions :
           (/\ Exists(p)
            /\ position'[p].lastRewardTs >= position[p].lastRewardTs + Week
            /\ program # Null
            /\ Worth(p, 1) > 0)
           => \E n \in Nfts : /\ nft[n] # Null
                              /\ nft[n].position = p
                              /\ nft[n].vestTs = position'[p].lastRewardTs
                                                     + VestingPeriod]_vars

=============================================================================
