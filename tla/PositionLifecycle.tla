------------------------- MODULE PositionLifecycle -------------------------
(***************************************************************************)
(* What a stake position promises its owner, without requests, statements  *)
(* or clocks.  A position is opened once with a principal, is unstaked     *)
(* once, is settled once, and no step leads backwards.  The principal      *)
(* stays what it was at the opening until the settlement takes it to zero. *)
(*                                                                         *)
(* The rows of the stake_positions table, as the staking handlers write    *)
(* them, implement this specification: see Staking!RefinesLifecycle.       *)
(***************************************************************************)
EXTENDS Naturals

CONSTANTS Pdas,      \* the addresses a position can be derived to
          Amounts    \* the amounts a staker can deposit

VARIABLES phase,     \* where each position stands
          principal  \* what each position holds

lifecycleVars == <<phase, principal>>

Phases == {"none", "active", "cooling", "withdrawn"}

Init == /\ phase = [p \in Pdas |-> "none"]
        /\ principal = [p \in Pdas |-> 0]

(* A deposit opens a position at an address that has none. *)
Open(p, a) == /\ phase[p] = "none"
              /\ phase' = [phase EXCEPT ![p] = "active"]
              /\ principal' = [principal EXCEPT ![p] = a]

(* Unstaking starts the cooldown and leaves the principal in place. *)
Unstake(p) == /\ phase[p] = "active"
              /\ phase' = [phase EXCEPT ![p] = "cooling"]
              /\ UNCHANGED principal

(* Settling a cooled position releases all of it. *)
Withdraw(p) == /\ phase[p] = "cooling"
               /\ phase' = [phase EXCEPT ![p] = "withdrawn"]
               /\ principal' = [principal EXCEPT ![p] = 0]

Next == \E p \in Pdas : \/ \E a \in Amounts : Open(p, a)
                        \/ Unstake(p)
                        \/ Withdraw(p)

Spec == Init /\ [][Next]_lifecycleVars

=============================================================================
