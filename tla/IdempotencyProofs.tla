------------------------- MODULE IdempotencyProofs -------------------------
(***************************************************************************)
(* Theorems about Idempotency, for any set of requests, keys and bodies    *)
(* and any number of faults and crashes.                                   *)
(***************************************************************************)
EXTENDS Idempotency, FiniteSetTheorems, TLAPS

(***************************************************************************)
(* The inductive invariant: an owner's row is still its own, and a stored  *)
(* response is that of a run with the row's key.                           *)
(***************************************************************************)

Passing == {"new", "lookup", "create", "refind"}

OwnerInv ==
    \A r \in Requests : request[r].owner =>
        Seen(r) # Null /\ Seen(r).id = r /\ Seen(r).body = request[r].body

ResponseInv ==
    \A k \in Keys :
        (record[k] # Null /\ record[k].response # Placeholder) =>
            record[k].response \in {s \in ran : KeyOf(s) = k}

StageInv ==
    \A r \in Requests :
        /\ request[r].pc \in Passing => ~request[r].owner
        /\ request[r].pc \in Passing \union {"handler"} =>
               r \notin ran /\ store[r] = "none"
        /\ request[r].pc \in Passing \union {"handler", "respond"} =>
               request[r].reply = "none"
        /\ At(r, "respond") \/ store[r] = "pending" => r \in ran
        /\ At(r, "refind") => Seen(r) # Null

IInv == TypeOK /\ OwnerInv /\ ResponseInv /\ StageInv /\ ReplayFitsBody

(* Those whose handler runs, or is about to, without a row of their own.   *)
Bypassing == {r \in Requests : /\ ~request[r].owner
                               /\ At(r, "handler") \/ r \in ran}

FaultInv == IsFiniteSet(Bypassing) /\ Cardinality(Bypassing) <= faults

-----------------------------------------------------------------------------
(* The initial states satisfy the invariant: no request has begun.         *)
LEMMA InitInv == Init => IInv
<1> SUFFICES ASSUME Init PROVE IInv
  OBVIOUS
<1>1. TypeOK
  BY DEF Init, TypeOK, Request, Content
<1>2. OwnerInv /\ ResponseInv /\ StageInv /\ ReplayFitsBody
  BY DEF Init, OwnerInv, ResponseInv, StageInv, ReplayFitsBody, At, Passing
<1> QED
  BY <1>1, <1>2 DEF IInv

(* A request only moves on: all but the place it is at stays as it was.    *)
LEMMA MoveInv ==
    ASSUME IInv, NEW r \in Requests,
           NEW s \in {"lookup", "create", "handler", "dead"},
           Goto(r, s), UNCHANGED <<record, store, ran>>,
           faults' \in Nat, crashes' \in Nat,
           request[r].pc \notin {"answered", "dead"},
           s \in {"lookup", "create", "handler"} =>
               request[r].pc \in Passing,
           s = "dead" => request[r].pc # "new"
    PROVE  IInv'
<1> USE DEF Goto, At, KeyOf, Seen, Passing
<1>1. TypeOK'
  BY DEF IInv, TypeOK, Request
<1>2. /\ \A q \in Requests : q # r => request'[q] = request[q]
      /\ request'[r].pc = s
      /\ request'[r].key = request[r].key /\ request'[r].body = request[r].body
      /\ request'[r].owner = request[r].owner
      /\ request'[r].reply = request[r].reply
      /\ request'[r].content = request[r].content
  BY DEF IInv, TypeOK, Request
<1>3. OwnerInv' /\ ResponseInv'
  BY <1>2 DEF IInv, OwnerInv, ResponseInv
<1>4. StageInv'
  BY <1>2 DEF IInv, StageInv
<1>5. ReplayFitsBody'
  BY <1>1, <1>2 DEF IInv, ReplayFitsBody, SameKey, TypeOK, Request, Content
<1> QED
  BY <1>1, <1>3, <1>4, <1>5 DEF IInv

(* A request that finds a record is answered from it.                      *)
LEMMA ReplayInv ==
    ASSUME IInv, NEW r \in Requests, request[r].pc \in Passing, Seen(r) # Null,
           Replayed(r), UNCHANGED <<record, store, ran, faults, crashes>>
    PROVE  IInv'
<1> USE DEF At, KeyOf, Seen, Passing
<1>1. PICK kind \in {"replay", "conflict"}, content \in Content :
          /\ Answer(r, kind, content)
          /\ kind = "replay" => /\ content = record[request[r].key].response
                               /\ record[request[r].key].body = request[r].body
  BY DEF Replayed, IInv, TypeOK, Record, Request, Content
<1> DEFINE q0 == [request[r] EXCEPT !.pc = "answered", !.reply = kind,
                                    !.content = content]
<1>a. request[r] \in Request /\ q0 \in Request
  BY DEF IInv, TypeOK, Request
<1>b. request' = [request EXCEPT ![r] = q0]
  BY <1>1 DEF Answer, IInv, TypeOK
<1>2. TypeOK'
  BY <1>a, <1>b DEF IInv, TypeOK
<1>3. /\ \A q \in Requests : q # r => request'[q] = request[q]
      /\ request'[r].pc = "answered"
      /\ request'[r].key = request[r].key /\ request'[r].body = request[r].body
      /\ request'[r].owner = request[r].owner
      /\ request'[r].reply = kind /\ request'[r].content = content
  BY <1>a, <1>b DEF IInv, TypeOK, Request
<1>4. /\ OwnerInv'
      /\ ResponseInv'
  <2>1. \A q \in Requests : /\ request'[q].key = request[q].key
                            /\ request'[q].body = request[q].body
                            /\ request'[q].owner = request[q].owner
    BY <1>3
  <2>2. OwnerInv'
    BY <2>1 DEF IInv, OwnerInv
  <2>3. ResponseInv'
    BY <2>1 DEF IInv, TypeOK, ResponseInv
  <2> QED
    BY <2>2, <2>3
<1>5. StageInv'
  BY <1>3 DEF IInv, StageInv
<1>6. ReplayFitsBody'
  <2>1. ASSUME kind = "replay", content # Placeholder
        PROVE  /\ content \in ran /\ request[content].key = request[r].key
               /\ request[content].body = request[r].body \/ ~request[content].owner
    <3>1. content \in ran /\ content \in Requests
                /\ request[content].key = request[r].key
      BY <1>1, <2>1 DEF IInv, TypeOK, ResponseInv, Request, Content
    <3>2. request[content].owner => request[content].body = request[r].body
      BY <1>1, <2>1, <3>1 DEF IInv, OwnerInv
    <3> QED
      BY <3>1, <3>2
  <2>2. ASSUME kind = "replay", content # Placeholder PROVE content # r
    BY <2>1, <2>2 DEF IInv, StageInv
  <2> QED
    BY <1>1, <1>3, <2>1, <2>2 DEF IInv, TypeOK, ReplayFitsBody, SameKey, Request, Content
<1> QED
  BY <1>2, <1>4, <1>5, <1>6 DEF IInv

(* The first create of a key makes its request the owner of the row.       *)
LEMMA CreateInv ==
    ASSUME IInv, NEW r \in Requests, Create(r) \/ CreateFails(r) PROVE IInv'
<1> USE DEF At, KeyOf, Seen, Passing
<1>1. request[r].pc = "create" /\ request[r] \in Request
  BY DEF Create, CreateFails, IInv, TypeOK
<1>2. CASE Create(r) /\ Seen(r) # Null
  <2>1. /\ \A q \in Requests : q # r => request'[q] = request[q]
        /\ request'[r].pc = "refind"
        /\ request'[r].key = request[r].key /\ request'[r].body = request[r].body
        /\ request'[r].owner = request[r].owner
        /\ request'[r].reply = request[r].reply
        /\ request'[r].content = request[r].content
        /\ UNCHANGED <<record, store, ran, faults, crashes>>
    BY <1>1, <1>2 DEF Create, Goto, IInv, TypeOK, Request
  <2>2. TypeOK'
    BY <1>2 DEF Create, Goto, IInv, TypeOK, Request
  <2>3. OwnerInv' /\ ResponseInv' /\ StageInv'
    <3>1. \A q \in Requests : /\ request'[q].key = request[q].key
                              /\ request'[q].body = request[q].body
                              /\ request'[q].owner = request[q].owner
      BY <2>1
    <3>2. OwnerInv'
      BY <2>1, <3>1 DEF IInv, OwnerInv
    <3>3. ResponseInv'
      BY <2>1, <3>1 DEF IInv, TypeOK, ResponseInv
    <3>4. StageInv'
      BY <1>1, <1>2, <2>1 DEF IInv, StageInv
    <3> QED
      BY <3>2, <3>3, <3>4
  <2>4. ReplayFitsBody'
    BY <1>1, <2>1 DEF IInv, TypeOK, ReplayFitsBody, SameKey, Request, Content
  <2> QED
    BY <2>2, <2>3, <2>4 DEF IInv
<1>3. CASE Create(r) /\ Seen(r) = Null
  <2> DEFINE row == [id |-> r, endpoint |-> request[r].endpoint,
                     body |-> request[r].body, response |-> Placeholder]
  <2>1. /\ \A q \in Requests : q # r => request'[q] = request[q]
        /\ request'[r].pc = "handler"
        /\ request'[r].key = request[r].key /\ request'[r].body = request[r].body
        /\ request'[r].owner = TRUE
        /\ request'[r].reply = request[r].reply
        /\ request'[r].content = request[r].content
        /\ \A k \in Keys : k # request[r].key => record'[k] = record[k]
        /\ record'[request[r].key] = row
        /\ UNCHANGED <<store, ran, faults, crashes>>
    <3> DEFINE q0 == [request[r] EXCEPT !.pc = "handler", !.owner = TRUE,
                                        !.wrapped = TRUE]
    <3>1. request' = [request EXCEPT ![r] = q0]
      BY <1>3 DEF Create, IInv, TypeOK
    <3>2. request[r].key \in Keys
      BY <1>1 DEF Request
    <3> QED
      BY <1>1, <1>3, <3>1, <3>2 DEF Create, IInv, TypeOK, Request
  <2>2. TypeOK'
    <3>1. row \in Record
      BY <1>1 DEF Record, Request, Content
    <3>2. record' \in [Keys -> Record \union {Null}]
      BY <1>3, <3>1 DEF Create, IInv, TypeOK
    <3>3. request' \in [Requests -> Request]
      <4> DEFINE q0 == [request[r] EXCEPT !.pc = "handler", !.owner = TRUE,
                                          !.wrapped = TRUE]
      <4>1. request' = [request EXCEPT ![r] = q0] /\ q0 \in Request
        BY <1>1, <1>3 DEF Create, IInv, TypeOK, Request
      <4> QED
        BY <4>1 DEF IInv, TypeOK
    <3> QED
      BY <2>1, <3>2, <3>3 DEF IInv, TypeOK
  <2>3. row # Null
    BY <1>1, NullAssumption DEF Record, Request, Content
  <2>4. OwnerInv'
    BY <1>1, <1>3, <2>1, <2>3 DEF IInv, TypeOK, OwnerInv, Request
  <2>5. ResponseInv'
    BY <1>1, <2>1 DEF IInv, TypeOK, ResponseInv, Request
  <2>6. StageInv'
    BY <1>1, <2>1, <2>3 DEF IInv, TypeOK, StageInv, Request
  <2>7. r \notin ran
    BY <1>1 DEF IInv, StageInv
  <2>8. ReplayFitsBody'
    BY <1>1, <2>1, <2>7 DEF IInv, TypeOK, ReplayFitsBody, SameKey, Request, Content
  <2> QED
    BY <2>2, <2>4, <2>5, <2>6, <2>8 DEF IInv
<1>4. CASE CreateFails(r)
  <2>1. /\ \A q \in Requests : q # r => request'[q] = request[q]
        /\ request'[r].pc = "handler"
        /\ request'[r].key = request[r].key /\ request'[r].body = request[r].body
        /\ request'[r].owner = request[r].owner
        /\ request'[r].reply = request[r].reply
        /\ request'[r].content = request[r].content
        /\ UNCHANGED <<record, store, ran, crashes>> /\ faults' \in Nat
    BY <1>1, <1>4 DEF CreateFails, Fault, IInv, TypeOK, Request
  <2>2. TypeOK'
    <3> DEFINE q0 == [request[r] EXCEPT !.pc = "handler", !.wrapped = TRUE]
    <3>1. request' = [request EXCEPT ![r] = q0] /\ q0 \in Request
      BY <1>1, <1>4 DEF CreateFails, IInv, TypeOK, Request
    <3> QED
      BY <2>1, <3>1 DEF IInv, TypeOK
  <2>3. OwnerInv' /\ ResponseInv' /\ StageInv'
    <3>1. \A q \in Requests : /\ request'[q].key = request[q].key
                              /\ request'[q].body = request[q].body
                              /\ request'[q].owner = request[q].owner
      BY <2>1
    <3>2. OwnerInv'
      BY <2>1, <3>1 DEF IInv, OwnerInv
    <3>3. ResponseInv'
      BY <2>1, <3>1 DEF IInv, TypeOK, ResponseInv
    <3>4. StageInv'
      BY <1>1, <2>1 DEF IInv, StageInv
    <3> QED
      BY <3>2, <3>3, <3>4
  <2>4. ReplayFitsBody'
    BY <1>1, <2>1 DEF IInv, TypeOK, ReplayFitsBody, SameKey, Request, Content
  <2> QED
    BY <2>2, <2>3, <2>4 DEF IInv
<1> QED
  BY <1>2, <1>3, <1>4

(* The handler runs and replies.                                           *)
LEMMA HandlerInv ==
    ASSUME IInv, NEW r \in Requests, RunHandler(r) \/ Respond(r) PROVE IInv'
<1> USE DEF At, KeyOf, Seen, Passing
<1>1. request[r] \in Request
  BY DEF IInv, TypeOK
<1>2. CASE RunHandler(r)
  <2>1. /\ \A q \in Requests : q # r => request'[q] = request[q]
        /\ request'[r].pc = "respond"
        /\ request'[r].key = request[r].key /\ request'[r].body = request[r].body
        /\ request'[r].owner = request[r].owner
        /\ request'[r].reply = request[r].reply
        /\ request'[r].content = request[r].content
        /\ request[r].pc = "handler" /\ ran' = ran \union {r}
        /\ UNCHANGED <<record, store, faults, crashes>>
    BY <1>1, <1>2 DEF RunHandler, Goto, IInv, TypeOK, Request
  <2>2. TypeOK'
    BY <1>1, <1>2 DEF RunHandler, Goto, IInv, TypeOK, Request
  <2>3. OwnerInv' /\ ResponseInv' /\ StageInv'
    BY <1>1, <2>1 DEF IInv, TypeOK, OwnerInv, ResponseInv, StageInv, Request
  <2>4. ReplayFitsBody'
    BY <1>1, <2>1 DEF IInv, TypeOK, ReplayFitsBody, SameKey, Request, Content
  <2> QED
    BY <2>2, <2>3, <2>4 DEF IInv
<1>3. CASE Respond(r)
  <2> DEFINE q0 == [request[r] EXCEPT !.pc = "answered", !.reply = "own",
                                      !.content = r]
  <2>0. request' = [request EXCEPT ![r] = q0] /\ q0 \in Request
    BY <1>1, <1>3 DEF Respond, Answer, IInv, TypeOK, Request, Content
  <2>1. /\ \A q \in Requests : q # r => request'[q] = request[q]
        /\ request'[r].pc = "answered"
        /\ request'[r].key = request[r].key /\ request'[r].body = request[r].body
        /\ request'[r].owner = request[r].owner
        /\ request'[r].reply = "own"
        /\ request'[r].content = r
        /\ \A q \in Requests : q # r => store'[q] = store[q]
        /\ request[r].pc = "respond" /\ r \in ran
        /\ UNCHANGED <<record, ran, faults, crashes>>
    BY <1>1, <1>3, <2>0 DEF Respond, IInv, TypeOK, StageInv, Request
  <2>2. TypeOK'
    BY <1>3, <2>0 DEF Respond, IInv, TypeOK
  <2>3. OwnerInv' /\ ResponseInv' /\ StageInv'
    BY <1>1, <2>1 DEF IInv, TypeOK, OwnerInv, ResponseInv, StageInv, Request
  <2>4. ReplayFitsBody'
    BY <1>1, <2>1 DEF IInv, TypeOK, ReplayFitsBody, SameKey, Request, Content
  <2> QED
    BY <2>2, <2>3, <2>4 DEF IInv
<1> QED
  BY <1>2, <1>3

(* The update of the stored response ends, one way or another.             *)
LEMMA StoreInv ==
    ASSUME IInv, NEW r \in Requests, store[r] = "pending",
           store' = [store EXCEPT ![r] = "over"],
           UNCHANGED <<request, ran>>, faults' \in Nat, crashes' \in Nat,
           \/ UNCHANGED record
           \/ /\ Seen(r) # Null
              /\ record' = [record EXCEPT ![KeyOf(r)].response = r]
    PROVE  IInv'
<1> USE DEF At, KeyOf, Seen, Passing
<1>1. request[r].key \in Keys /\ r \in ran
  BY DEF IInv, TypeOK, Request, StageInv
<1>2. /\ \A k \in Keys : k # request[r].key => record'[k] = record[k]
      /\ \/ record'[request[r].key] = record[request[r].key]
         \/ /\ record[request[r].key] # Null
            /\ record'[request[r].key] = [record[request[r].key] EXCEPT !.response = r]
  BY <1>1 DEF IInv, TypeOK
<1>3. \A k \in Keys :
          (record[k] = Null /\ record'[k] = Null)
          \/ /\ record[k] # Null /\ record'[k] # Null /\ record'[k] \in Record
             /\ record'[k].id = record[k].id /\ record'[k].body = record[k].body
             /\ \/ record'[k].response = record[k].response
                \/ record'[k].response = r /\ k = request[r].key
  <2> SUFFICES ASSUME NEW k \in Keys, record[k] # Null
               PROVE  /\ record'[k] # Null /\ record'[k] \in Record
                      /\ record'[k].id = record[k].id
                      /\ record'[k].body = record[k].body
                      /\ \/ record'[k].response = record[k].response
                         \/ record'[k].response = r /\ k = request[r].key
    BY <1>2
  <2>1. record[k] \in Record
    BY DEF IInv, TypeOK
  <2>2. [record[k] EXCEPT !.response = r] \in Record
    BY <2>1 DEF Record, Content
  <2>3. record'[k] = record[k] \/ (/\ k = request[r].key
                                  /\ record'[k] = [record[k] EXCEPT !.response = r])
    BY <1>2
  <2> QED
    BY <2>1, <2>2, <2>3, NullAssumption DEF Record
<1>4. TypeOK'
  <2>1. record' \in [Keys -> Record \union {Null}]
    BY <1>3 DEF IInv, TypeOK
  <2> QED
    BY <2>1 DEF IInv, TypeOK
<1>5. OwnerInv'
  BY <1>3 DEF IInv, TypeOK, OwnerInv, Request
<1>6. ResponseInv'
  BY <1>1, <1>3 DEF IInv, TypeOK, ResponseInv
<1>7. StageInv'
  BY <1>3 DEF IInv, TypeOK, StageInv, Request
<1>8. ReplayFitsBody'
  BY DEF IInv, ReplayFitsBody, SameKey
<1> QED
  BY <1>4, <1>5, <1>6, <1>7, <1>8 DEF IInv

LEMMA NextInv == IInv /\ [Next]_vars => IInv'
<1> SUFFICES ASSUME IInv, [Next]_vars PROVE IInv'
  OBVIOUS
<1>1. CASE UNCHANGED vars
  BY <1>1 DEF vars, IInv, TypeOK, OwnerInv, ResponseInv, StageInv,
              ReplayFitsBody, SameKey, At, KeyOf, Seen
<1>2. ASSUME NEW r \in Requests,
             Arrive(r) \/ Progress(r) \/ Crash(r)
                 \/ FindFails(r) \/ CreateFails(r) \/ StoreFails(r)
      PROVE  IInv'
  <2>0. faults \in Nat /\ crashes \in Nat
    BY DEF IInv, TypeOK
  <2>1. CASE Arrive(r)
    BY <2>0, <2>1, MoveInv DEF Arrive, At, Passing
  <2>2. CASE Lookup(r)
    <3>1. CASE Seen(r) = Null
      BY <2>0, <2>2, <3>1, MoveInv DEF Lookup, At, Passing
    <3>2. CASE Seen(r) # Null
      BY <2>2, <3>2, ReplayInv DEF Lookup, At, Passing
    <3> QED
      BY <3>1, <3>2
  <2>3. CASE Create(r) \/ CreateFails(r)
    BY <2>3, CreateInv
  <2>4. CASE Refind(r)
    <3>1. Seen(r) # Null /\ request[r].pc \in Passing
      BY <2>4 DEF Refind, IInv, StageInv, At, Passing
    <3> QED
      BY <2>4, <3>1, ReplayInv DEF Refind
  <2>5. CASE RunHandler(r) \/ Respond(r)
    BY <2>5, HandlerInv
  <2>6. CASE StoreResponse(r) \/ StoreFails(r)
    BY <2>0, <2>6, StoreInv DEF StoreResponse, StoreFails, Fault
  <2>7. CASE FindFails(r)
    BY <2>0, <2>7, MoveInv DEF FindFails, Fault, At, Passing
  <2>8. CASE Crash(r)
    <3>1. CASE store[r] = "pending" /\ store' = [store EXCEPT ![r] = "over"]
                   /\ UNCHANGED request
      <4>1. UNCHANGED <<record, request, ran, faults>> /\ crashes' \in Nat
        BY <2>0, <2>8, <3>1 DEF Crash
      <4> QED
        BY <2>0, <3>1, <4>1, StoreInv
    <3>2. CASE request[r].pc \notin {"new", "answered", "dead"} /\ Goto(r, "dead")
                   /\ UNCHANGED store
      BY <2>0, <2>8, <3>2, MoveInv DEF Crash
    <3> QED
      BY <2>8, <3>1, <3>2 DEF Crash
  <2> QED
    BY <1>2, <2>1, <2>2, <2>3, <2>4, <2>5, <2>6, <2>7, <2>8 DEF Progress
<1> QED
  BY <1>1, <1>2 DEF Next

LEMMA InductiveInvariant == Spec => []IInv
  BY InitInv, NextInv, PTL DEF Spec

(* Every variable keeps the type that TypeOK gives it.                     *)
THEOREM TypeCorrect == Spec => []TypeOK
<1>1. IInv => TypeOK
  BY DEF IInv
<1> QED
  BY <1>1, InductiveInvariant, PTL

(* However many requests with one key arrive, on however many replicas,    *)
(* and whatever fails or crashes: the handler runs for one of those that   *)
(* the table let through (idempotency.middleware.ts:55-92).                *)
THEOREM RunsOnce == Spec => []AtMostOneRun
<1>1. IInv => AtMostOneRun
  BY DEF IInv, OwnerInv, AtMostOneRun, SameKey, Seen
<1> QED
  BY <1>1, InductiveInvariant, PTL

(* A replayed response was made for the same key and, unless its run went  *)
(* past the table, for the same body (idempotency.middleware.ts:40-52).    *)
THEOREM ReplaysFit == Spec => []ReplayFitsBody
<1>1. IInv => ReplayFitsBody
  BY DEF IInv
<1> QED
  BY <1>1, InductiveInvariant, PTL

(* A stored response is only replaced by, or replaces, that of a run which *)
(* went past the table (idempotency.middleware.ts:104-113).                *)
THEOREM ResponsesAreFinal == Spec => StoredIsFinal
<1> DEFINE Final == \A k \in Keys :
              (record[k] # Null /\ record[k].response # Placeholder) =>
                  /\ record'[k].id = record[k].id
                  /\ record'[k].response # record[k].response =>
                         \E s \in {record[k].response, record'[k].response} :
                             ~request[s].owner
<1>1. IInv /\ [Next]_vars => [Final]_vars
  <2> SUFFICES ASSUME IInv, Next, NEW k \in Keys, record[k] # Null,
                      record[k].response # Placeholder
               PROVE  /\ record'[k].id = record[k].id
                      /\ record'[k].response # record[k].response =>
                             \E s \in {record[k].response, record'[k].response} :
                                 ~request[s].owner
    OBVIOUS
  <2>1. PICK r \in Requests :
            Arrive(r) \/ Progress(r) \/ Crash(r)
                \/ FindFails(r) \/ CreateFails(r) \/ StoreFails(r)
    BY DEF Next
  <2>2. \/ record'[k] = record[k]
        \/ /\ store[r] = "pending" /\ k = request[r].key
           /\ record' = [record EXCEPT ![k].response = r]
    <3>1. CASE Create(r)
      BY <3>1 DEF Create, IInv, TypeOK, Request, Seen, KeyOf
    <3>2. CASE StoreResponse(r)
      BY <3>2 DEF StoreResponse, IInv, TypeOK, Request, Seen, KeyOf
    <3> QED
      BY <2>1, <3>1, <3>2 DEF Arrive, Progress, Crash, FindFails, CreateFails,
                              StoreFails, Lookup, Refind, RunHandler, Respond
  <2>3. ASSUME store[r] = "pending", k = request[r].key,
               record' = [record EXCEPT ![k].response = r]
        PROVE  /\ record'[k].id = record[k].id
               /\ record'[k].response # record[k].response =>
                      \E s \in {record[k].response, record'[k].response} :
                          ~request[s].owner
    <3>1. record'[k].id = record[k].id /\ record'[k].response = r
      BY <2>3 DEF IInv, TypeOK, Record
    <3>2. PICK s \in Requests : s = record[k].response /\ request[s].key = k
      BY DEF IInv, TypeOK, ResponseInv, KeyOf
    <3>3. request[r].owner /\ request[s].owner => r = s
      BY <2>3, <3>2 DEF IInv, OwnerInv, Seen, KeyOf
    <3> QED
      BY <3>1, <3>2, <3>3
  <2> QED
    BY <2>2, <2>3
<1> QED
  BY <1>1, InductiveInvariant, PTL DEF Spec, StoredIsFinal

(* A step lets at most one more request past the table, and then only by a *)
(* statement that throws.                                                  *)
LEMMA BypassStep ==
    ASSUME IInv, IInv', [Next]_vars
    PROVE  \/ Bypassing' \subseteq Bypassing /\ faults' \in {faults, faults + 1}
           \/ \E r \in Requests : /\ Bypassing' = Bypassing \union {r}
                                  /\ faults' = faults + 1
<1> USE DEF At, Passing
<1>1. CASE UNCHANGED vars
  BY <1>1 DEF vars, Bypassing
<1>2. ASSUME NEW r \in Requests,
             Arrive(r) \/ Progress(r) \/ Crash(r)
                 \/ FindFails(r) \/ CreateFails(r) \/ StoreFails(r)
      PROVE  \/ Bypassing' \subseteq Bypassing /\ faults' \in {faults, faults + 1}
             \/ \E q \in Requests : /\ Bypassing' = Bypassing \union {q}
                                    /\ faults' = faults + 1
  <2>0. request[r] \in Request /\ request \in [Requests -> Request]
    BY DEF IInv, TypeOK
  <2>1. CASE FindFails(r) \/ CreateFails(r)
    <3>1. /\ \A q \in Requests : q # r => request'[q] = request[q]
          /\ request'[r].pc = "handler"
          /\ request'[r].owner = request[r].owner
      BY <2>0, <2>1 DEF FindFails, CreateFails, Goto, Request
    <3>2. ~request[r].owner /\ ran' = ran /\ faults' = faults + 1
      BY <2>1 DEF FindFails, CreateFails, Fault, IInv, StageInv
    <3>3. Bypassing' = Bypassing \union {r}
      BY <3>1, <3>2 DEF Bypassing
    <3> QED
      BY <3>2, <3>3
  <2>2. CASE Create(r)
    <3>1. /\ \A q \in Requests : q # r => request'[q] = request[q]
          /\ request'[r].pc = "handler" => request'[r].owner
          /\ request'[r].owner \/ ~request[r].owner
          /\ ran' = ran /\ faults' = faults
      <4>1. CASE Seen(r) = Null
        <5>1. PICK q0 : q0 = [request[r] EXCEPT !.pc = "handler", !.owner = TRUE,
                                                !.wrapped = TRUE]
          OBVIOUS
        <5>2. request' = [request EXCEPT ![r] = q0]
          BY <2>0, <2>2, <4>1, <5>1 DEF Create
        <5>3. q0.pc = "handler" /\ q0.owner
          BY <2>0, <5>1 DEF Request
        <5> QED
          BY <2>0, <2>2, <5>2, <5>3 DEF Create
      <4>2. CASE Seen(r) # Null
        BY <2>0, <2>2, <4>2 DEF Create, Goto, Request
      <4> QED
        BY <4>1, <4>2
    <3>2. r \notin ran
      BY <2>2 DEF Create, IInv, StageInv
    <3>3. Bypassing' \subseteq Bypassing
      BY <3>1, <3>2 DEF Bypassing
    <3> QED
      BY <3>1, <3>3
  <2>3. CASE RunHandler(r)
    <3>1. /\ \A q \in Requests : request'[q].owner = request[q].owner
          /\ \A q \in Requests : q # r => request'[q] = request[q]
          /\ request[r].pc = "handler" /\ request'[r].pc = "respond"
          /\ ran' = ran \union {r} /\ faults' = faults
      BY <2>0, <2>3 DEF RunHandler, Goto, Request
    <3>2. Bypassing' \subseteq Bypassing
      BY <3>1 DEF Bypassing
    <3> QED
      BY <3>1, <3>2
  <2>4. CASE StoreResponse(r) \/ StoreFails(r)
    BY <2>4 DEF StoreResponse, StoreFails, Fault, Bypassing
  <2>5. CASE Arrive(r) \/ Lookup(r) \/ Refind(r) \/ Respond(r) \/ Crash(r)
    <3>1. /\ \A q \in Requests : q # r => request'[q] = request[q]
          /\ request'[r].pc # "handler" \/ request'[r] = request[r]
          /\ request'[r].owner = request[r].owner
          /\ ran' = ran /\ faults' = faults
      <4>1. CASE Arrive(r)
        BY <2>0, <4>1 DEF Arrive, Goto, Request
      <4>2. CASE Lookup(r)
        BY <2>0, <4>2 DEF Lookup, Goto, Replayed, Answer, Request
      <4>3. CASE Refind(r)
        BY <2>0, <4>3 DEF Refind, Replayed, Answer, Request
      <4>4. CASE Respond(r)
        BY <2>0, <4>4 DEF Respond, Answer, Request
      <4>5. CASE Crash(r)
        BY <2>0, <4>5 DEF Crash, Goto, Request
      <4> QED
        BY <2>5, <4>1, <4>2, <4>3, <4>4, <4>5
    <3>2. Bypassing' \subseteq Bypassing
      BY <3>1 DEF Bypassing
    <3> QED
      BY <3>1, <3>2
  <2> QED
    BY <1>2, <2>1, <2>2, <2>3, <2>4, <2>5 DEF Progress
<1> QED
  BY <1>1, <1>2 DEF Next

LEMMA FaultStep == IInv /\ IInv' /\ FaultInv /\ [Next]_vars => FaultInv'
<1> SUFFICES ASSUME IInv, IInv', FaultInv, [Next]_vars PROVE FaultInv'
  OBVIOUS
<1>1. PICK B, C : B = Bypassing /\ C = Bypassing'
  OBVIOUS
<1>2. /\ IsFiniteSet(B) /\ Cardinality(B) <= faults
      /\ faults \in Nat /\ faults' \in Nat
  BY <1>1 DEF FaultInv, IInv, TypeOK
<1>3. \/ C \subseteq B /\ faults' \in {faults, faults + 1}
      \/ \E r \in Requests : C = B \union {r} /\ faults' = faults + 1
  BY <1>1, BypassStep
<1>4. CASE C \subseteq B /\ faults' \in {faults, faults + 1}
  <2>1. IsFiniteSet(C) /\ Cardinality(C) <= Cardinality(B)
    BY <1>2, <1>4, FS_Subset
  <2>2. Cardinality(B) \in Nat /\ Cardinality(C) \in Nat
    BY <1>2, <2>1, FS_CardinalityType
  <2> QED
    BY <1>1, <1>2, <1>4, <2>1, <2>2 DEF FaultInv
<1>5. ASSUME NEW r \in Requests, C = B \union {r}, faults' = faults + 1
      PROVE  FaultInv'
  <2>1. /\ IsFiniteSet(C)
        /\ Cardinality(C) = IF r \in B THEN Cardinality(B) ELSE Cardinality(B) + 1
    BY <1>2, <1>5, FS_AddElement
  <2>2. Cardinality(B) \in Nat
    BY <1>2, FS_CardinalityType
  <2> QED
    BY <1>1, <1>2, <1>5, <2>1, <2>2 DEF FaultInv
<1> QED
  BY <1>3, <1>4, <1>5

(* Every run without a row of its own is paid for by a statement that      *)
(* threw: whatever else overlaps, crashes or is retried, the handler runs  *)
(* no more than once beyond its faults (idempotency.middleware.ts:94-97,   *)
(* :121-124).                                                              *)
THEOREM ExtraRunsNeedFaults == Spec => []ExtraRunsAreFaults
<1>1. Init => FaultInv
  <2> SUFFICES ASSUME Init PROVE FaultInv
    OBVIOUS
  <2>1. Bypassing = {}
    BY DEF Init, Bypassing, At
  <2> QED
    BY <2>1, FS_EmptySet DEF FaultInv, Init
<1>2. TypeOK /\ FaultInv => ExtraRunsAreFaults
  <2> SUFFICES ASSUME TypeOK, FaultInv PROVE ExtraRunsAreFaults
    OBVIOUS
  <2>1. PICK A, B : A = {r \in ran : ~request[r].owner} /\ B = Bypassing
    OBVIOUS
  <2>2. A \subseteq B /\ IsFiniteSet(B) /\ Cardinality(B) <= faults /\ faults \in Nat
    BY <2>1 DEF TypeOK, FaultInv, Bypassing
  <2>3. IsFiniteSet(A) /\ Cardinality(A) <= Cardinality(B)
    BY <2>2, FS_Subset
  <2>4. Cardinality(A) \in Nat /\ Cardinality(B) \in Nat
    BY <2>2, <2>3, FS_CardinalityType
  <2> QED
    BY <2>1, <2>2, <2>3, <2>4 DEF ExtraRunsAreFaults
<1> QED
  BY <1>1, <1>2, FaultStep, InductiveInvariant, TypeCorrect, PTL DEF Spec

=============================================================================
