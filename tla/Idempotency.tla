---------------------------- MODULE Idempotency ----------------------------
(***************************************************************************)
(* idempotency.middleware.ts: requests that carry an Idempotency-Key, on   *)
(* several replicas over the table idempotency_records, each with the      *)
(* endpoint's handler behind it.                                           *)
(*                                                                         *)
(* Every Prisma call is one step.  It may throw, and the middleware then   *)
(* lets the request through; or the replica may die, and the request is    *)
(* never answered.  A request without a key never meets the table and is   *)
(* left out, as are GET requests.                                          *)
(***************************************************************************)
EXTENDS Naturals, FiniteSets

CONSTANTS Requests,     \* HTTP requests, each sent once; a retry is another
          Keys,         \* values of the Idempotency-Key header
          Endpoints,    \* paths
          Bodies,       \* normalised request bodies
          Placeholder,  \* the response {} of a record just created
          MaxFaults,    \* bound of the model: statements that throw
          MaxCrashes,   \* bound of the model: requests that die
          Null          \* a missing row, no reply yet

ASSUME PlaceholderAssumption == Placeholder \notin Requests
ASSUME BoundAssumption == MaxFaults \in Nat /\ MaxCrashes \in Nat

VARIABLES record,  \* idempotency_records, by key
          request, \* the requests and where they are
          store,   \* the update of the stored response, res.json's promise
          ran,     \* requests whose handler has run
          faults, crashes

vars == <<record, request, store, ran, faults, crashes>>

(* The response of a run is named by the request that made the run.        *)
Content == Requests \union {Placeholder}

(* id is the row's uuid: it names the request that created the row.        *)
Record == [id : Requests, endpoint : Endpoints, body : Bodies,
           response : Content]

ASSUME NullAssumption == Null \notin Record

(* pc names the next statement; "handler" and "respond" are the endpoint's *)
(* handler and its res.json.  owner: the request has created its record;   *)
(* wrapped: res.json has been overridden.                                  *)
Request == [pc : {"new", "lookup", "create", "refind", "handler", "respond",
                  "answered", "dead"},
            key : Keys, endpoint : Endpoints, body : Bodies,
            owner : BOOLEAN, wrapped : BOOLEAN,
            reply : {"none", "own", "conflict", "replay"},
            content : Content]

At(r, s) == request[r].pc = s
KeyOf(r) == request[r].key
Goto(r, s) == request' = [request EXCEPT ![r].pc = s]
Seen(r) == record[KeyOf(r)]

Answer(r, kind, content) ==
    request' = [request EXCEPT ![r].pc = "answered", ![r].reply = kind,
                               ![r].content = content]

TypeOK ==
    /\ record \in [Keys -> Record \union {Null}]
    /\ request \in [Requests -> Request]
    /\ store \in [Requests -> {"none", "pending", "over"}]
    /\ ran \in SUBSET Requests
    /\ faults \in Nat /\ crashes \in Nat

Init ==
    /\ record = [k \in Keys |-> Null]
    /\ request \in [Requests ->
           [pc : {"new"}, key : Keys, endpoint : Endpoints, body : Bodies,
            owner : {FALSE}, wrapped : {FALSE}, reply : {"none"},
            content : {Placeholder}]]
    /\ store = [r \in Requests |-> "none"]
    /\ ran = {} /\ faults = 0 /\ crashes = 0

Arrive(r) ==
    /\ At(r, "new")
    /\ Goto(r, "lookup")
    /\ UNCHANGED <<record, store, ran, faults, crashes>>

(***************************************************************************)
(* The middleware                                                          *)
(***************************************************************************)

(* MUTANT of Replayed: a record answers whatever body was sent. *)
Replayed_AnyBody(r) == Answer(r, "replay", Seen(r).response)

(* A record answers the same body with its response as it stands, and      *)
(* another body with a conflict.  The endpoint is not compared.            *)
Replayed(r) ==
    IF Seen(r).body = request[r].body
    THEN Answer(r, "replay", Seen(r).response)
    ELSE Answer(r, "conflict", Placeholder)

Lookup(r) ==
    /\ At(r, "lookup")
    /\ IF Seen(r) = Null THEN Goto(r, "create") ELSE Replayed(r)
    /\ UNCHANGED <<record, store, ran, faults, crashes>>

(* MUTANT of Create: a record that has appeared meanwhile is written over. *)
Create_Upsert(r) ==
    LET q == request[r]
    IN  /\ At(r, "create")
        /\ record' = [record EXCEPT ![q.key] =
               [id |-> r, endpoint |-> q.endpoint, body |-> q.body,
                response |-> Placeholder]]
        /\ request' = [request EXCEPT ![r].pc = "handler",
                                      ![r].owner = TRUE, ![r].wrapped = TRUE]
        /\ UNCHANGED <<store, ran, faults, crashes>>

(* The unique key makes the create of a second request fail (P2002). *)
Create(r) ==
    LET q == request[r]
    IN  /\ At(r, "create")
        /\ IF Seen(r) = Null
           THEN /\ record' = [record EXCEPT ![q.key] =
                       [id |-> r, endpoint |-> q.endpoint, body |-> q.body,
                        response |-> Placeholder]]
                /\ request' = [request EXCEPT ![r].pc = "handler",
                                   ![r].owner = TRUE, ![r].wrapped = TRUE]
           ELSE Goto(r, "refind") /\ UNCHANGED record
        /\ UNCHANGED <<store, ran, faults, crashes>>

(* MUTANT of Refind: wait for the response of the request that was first. *)
Refind_Waits(r) ==
    /\ At(r, "refind")
    /\ Seen(r).response # Placeholder
    /\ Replayed(r)
    /\ UNCHANGED <<record, store, ran, faults, crashes>>

(* MUTANT of Refind: the request goes on as after any other error. *)
Refind_RunsOn(r) ==
    /\ At(r, "refind")
    /\ request' = [request EXCEPT ![r].pc = "handler", ![r].wrapped = TRUE]
    /\ UNCHANGED <<record, store, ran, faults, crashes>>

(* Nothing deletes a record, so it is there. *)
Refind(r) ==
    /\ At(r, "refind")
    /\ Replayed(r)
    /\ UNCHANGED <<record, store, ran, faults, crashes>>

Fault == /\ faults < MaxFaults
         /\ faults' = faults + 1

(* A find throws: the outer catch calls next() and protects nothing. *)
FindFails(r) ==
    /\ At(r, "lookup") \/ At(r, "refind")
    /\ Fault
    /\ Goto(r, "handler")
    /\ UNCHANGED <<record, store, ran, crashes>>

(* The create throws something other than P2002: the request goes on with  *)
(* no record of its own, and res.json is overridden all the same.          *)
CreateFails(r) ==
    /\ At(r, "create")
    /\ Fault
    /\ request' = [request EXCEPT ![r].pc = "handler", ![r].wrapped = TRUE]
    /\ UNCHANGED <<record, store, ran, crashes>>

(***************************************************************************)
(* The handler behind it, and the response                                 *)
(***************************************************************************)

(* All that the handler does to the database. *)
RunHandler(r) ==
    /\ At(r, "handler")
    /\ ran' = ran \union {r}
    /\ Goto(r, "respond")
    /\ UNCHANGED <<record, store, faults, crashes>>

(* res.json: the override starts the update and does not wait for it. *)
Respond(r) ==
    /\ At(r, "respond")
    /\ Answer(r, "own", r)
    /\ store' = IF request[r].wrapped THEN [store EXCEPT ![r] = "pending"]
                ELSE store
    /\ UNCHANGED <<record, ran, faults, crashes>>

(* MUTANT of StoreResponse: the record that is updated is created anew. *)
StoreResponse_Upsert(r) ==
    LET q == request[r]
    IN  /\ store[r] = "pending"
        /\ record' = [record EXCEPT ![q.key] =
               [id |-> r, endpoint |-> q.endpoint, body |-> q.body,
                response |-> r]]
        /\ store' = [store EXCEPT ![r] = "over"]
        /\ UNCHANGED <<request, ran, faults, crashes>>

(* The update goes by the key: whoever created the row, it is written.     *)
StoreResponse(r) ==
    /\ store[r] = "pending"
    /\ record' = IF Seen(r) = Null THEN record
                 ELSE [record EXCEPT ![KeyOf(r)].response = r]
    /\ store' = [store EXCEPT ![r] = "over"]
    /\ UNCHANGED <<request, ran, faults, crashes>>

(* The update throws and the error is only logged. *)
StoreFails(r) ==
    /\ store[r] = "pending"
    /\ Fault
    /\ store' = [store EXCEPT ![r] = "over"]
    /\ UNCHANGED <<record, request, ran, crashes>>

(* The replica dies with the request and with the update in flight. *)
Crash(r) ==
    /\ crashes < MaxCrashes
    /\ crashes' = crashes + 1
    /\ \/ /\ request[r].pc \notin {"new", "answered", "dead"}
          /\ Goto(r, "dead")
          /\ UNCHANGED store
       \/ /\ store[r] = "pending"
          /\ store' = [store EXCEPT ![r] = "over"]
          /\ UNCHANGED request
    /\ UNCHANGED <<record, ran, faults>>

Progress(r) == \/ Lookup(r)
               \/ Create(r)
               \/ Refind(r)
               \/ RunHandler(r)
               \/ Respond(r)
               \/ StoreResponse(r)

Next == \E r \in Requests :
            \/ Arrive(r) \/ Progress(r) \/ Crash(r)
            \/ FindFails(r) \/ CreateFails(r) \/ StoreFails(r)

Spec == Init /\ [][Next]_vars

(* The event loop resumes a request whose statement has returned. *)
FairSpec == Spec /\ \A r \in Requests : WF_vars(Progress(r))

-----------------------------------------------------------------------------
(***************************************************************************)
(* Properties                                                              *)
(***************************************************************************)

SameKey(r, s) == KeyOf(r) = KeyOf(s)

(* The purpose of the middleware: of all requests with one key, retried,   *)
(* concurrent or after a crash, the handler runs for one, apart from those *)
(* that went past a table that did not answer (idempotency.middleware.ts:  *)
(* 55-92; the exceptions are :94-97 and :121-124).                         *)
AtMostOneRun ==
    \A r, s \in Requests :
        (/\ SameKey(r, s) /\ {r, s} \subseteq ran
         /\ request[r].owner /\ request[s].owner) => r = s

(* Who runs without owning the record has met a failing statement: the     *)
(* runs beyond the first are not more than the faults, however the         *)
(* requests overlap (idempotency.middleware.ts:94-97, :121-124).           *)
ExtraRunsAreFaults == Cardinality({r \in ran : ~request[r].owner}) <= faults

(* What a request is answered from the table was made for the same key and *)
(* the same body, unless the run that made it went past the table itself:  *)
(* the update by key alone lets such a run replace the response of another *)
(* one (idempotency.middleware.ts:40-52, :104-113).                        *)
ReplayFitsBody ==
    \A r \in Requests :
        LET s == request[r].content
        IN  (request[r].reply = "replay" /\ s # Placeholder) =>
                /\ SameKey(r, s) /\ s \in ran
                /\ request[s].body = request[r].body \/ ~request[s].owner

(* The same key never answers with one run and then with another, but for  *)
(* runs that went past the table (idempotency.middleware.ts:104-113).      *)
StoredIsFinal ==
    [][\A k \in Keys :
           (record[k] # Null /\ record[k].response # Placeholder) =>
               /\ record'[k].id = record[k].id
               /\ record'[k].response # record[k].response =>
                      \E s \in {record[k].response, record'[k].response} :
                          ~request[s].owner]_vars

(* No request waits for ever for another one with its key, not even for    *)
(* one that died after it had created the record                           *)
(* (idempotency.middleware.ts:52, :90).                                    *)
EveryRequestIsAnswered ==
    \A r \in Requests : At(r, "lookup") ~> (At(r, "answered") \/ At(r, "dead"))

=============================================================================
