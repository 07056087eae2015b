------------------------------ MODULE Requests ------------------------------
(***************************************************************************)
(* What the endpoints of authentication, referral and compliance share:    *)
(* the users table, the session check in front of them, and the requests   *)
(* in flight.  A statement of a handler is one step, and a request may end *)
(* after any of them; what was written until then stays.                   *)
(***************************************************************************)
EXTENDS Integers, FiniteSets

CONSTANTS Requests,    \* request slots
          Wallets,     \* wallet addresses
          Devices,     \* device ids that clients send
          Tokens,      \* JWT ids that logins may draw
          MaxStarted,  \* bound of the model: requests begun
          MaxAborts,   \* bound of the model: requests cut short
          MaxTime,     \* bound of the model: the clock
          Null         \* a missing value

ASSUME RequestAssumption == IsFiniteSet(Requests) /\ Requests # {}
ASSUME NullAssumption ==
    /\ Null \notin Wallets /\ Null \notin Devices
    /\ Null \notin Tokens /\ Null \notin Nat
ASSUME BoundAssumption == MaxStarted \in Nat /\ MaxAborts \in Nat /\ MaxTime \in Nat

VARIABLES clock, users, request, started, aborts

requestVars == <<clock, users, request, started, aborts>>

(* What a handler keeps between its statements; pc names the next one.     *)
(* since is when a login drew up its token; overtaken is history: the      *)
(* wallet was denied after the request looked at it.                       *)
Request == [pc : {"idle", "admitted",
                  "user", "session", "expire",                \* auth
                  "devices", "refer", "fingerprint", "pay",   \* referral
                  "allow", "sync"},                           \* compliance
            token : Tokens \union {Null}, since : Nat,
            wallet : Wallets \union {Null}, referrer : Wallets \union {Null},
            device : Devices \union {Null},
            wallets : SUBSET Wallets, overtaken : BOOLEAN]

Idle == [pc |-> "idle", token |-> Null, since |-> 0, wallet |-> Null,
         referrer |-> Null, device |-> Null, wallets |-> {}, overtaken |-> FALSE]

RequestTypeOK == /\ clock \in Nat
                 /\ users \in SUBSET Wallets
                 /\ request \in [Requests -> Request]
                 /\ started \in Nat /\ aborts \in Nat

RequestInit == /\ clock = 0
               /\ users = {}
               /\ request = [r \in Requests |-> Idle]
               /\ started = 0 /\ aborts = 0

Free(r) == request[r].pc = "idle"
At(r, s) == request[r].pc = s
Put(r, q) == request' = [request EXCEPT ![r] = q]
Goto(r, s) == Put(r, [request[r] EXCEPT !.pc = s])
Done(r) == Put(r, Idle)

Begin(r) == /\ Free(r)
            /\ started < MaxStarted
            /\ started' = started + 1

(* The guard has let the request through, and its handler begins. *)
Admitted(r) == At(r, "admitted")

=============================================================================
