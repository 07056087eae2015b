------------------------------ MODULE EventLog ------------------------------
(***************************************************************************)
(* What the events table promises its readers, whoever fills it: a         *)
(* transaction has at most one event, which appears after the transaction  *)
(* has, never disappears, and is finalized once and only after the chain.  *)
(***************************************************************************)
CONSTANT Signatures

VARIABLES ledger,  \* how far the chain is with a transaction
          log      \* the event of a transaction

logVars == <<ledger, log>>

LogInit == /\ ledger = [s \in Signatures |-> "absent"]
           /\ log = [s \in Signatures |-> "none"]

(* The chain moves on its own. *)
Confirm(s) == /\ ledger[s] = "absent"
              /\ ledger' = [ledger EXCEPT ![s] = "confirmed"]
              /\ UNCHANGED log

Root(s) == /\ ledger[s] = "confirmed"
           /\ ledger' = [ledger EXCEPT ![s] = "finalized"]
           /\ UNCHANGED log

Store(s) == /\ ledger[s] # "absent" /\ log[s] = "none"
            /\ log' = [log EXCEPT ![s] = "confirmed"]
            /\ UNCHANGED ledger

Mark(s) == /\ ledger[s] = "finalized" /\ log[s] = "confirmed"
           /\ log' = [log EXCEPT ![s] = "finalized"]
           /\ UNCHANGED ledger

LogNext == \E s \in Signatures : Confirm(s) \/ Root(s) \/ Store(s) \/ Mark(s)

LogSpec == LogInit /\ [][LogNext]_logVars
=============================================================================
