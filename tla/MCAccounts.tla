----------------------------- MODULE MCAccounts -----------------------------
(* An instance of Accounts for TLC.  The token of this instance outlives   *)
(* its session by a tick, so that sessions do expire under requests.       *)
EXTENDS Accounts, TLC

MCSymmetry == Permutations(Requests) \union Permutations(Wallets)
                  \union Permutations(Tokens)
=============================================================================
