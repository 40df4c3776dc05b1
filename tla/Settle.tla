------------------------------- MODULE Settle -------------------------------
(***************************************************************************)
(* POST /settle of the facilitator (src/src/app.js) with everything it     *)
(* shares: the settlement records (src/src/store), the idempotency claims  *)
(* (src/src/idempotency.js), the per-payment lock, the ledger, and the     *)
(* reconciliation sweep (src/src/store/reconciliation.js).                 *)
(*                                                                         *)
(* A request is two processes. Its HANDLER reads the record, saves it,     *)
(* claims the idempotency key and then waits for the first of two: the     *)
(* settleOnce closure, which is the request's WORKER, and the request      *)
(* timer. Promise.race cancels nothing, so a worker whose handler already  *)
(* answered keeps running. Every await is the end of an action.            *)
(***************************************************************************)
EXTENDS Naturals, FiniteSets

CONSTANTS
    Request,      \* the POST /settle calls; a client retry is another request
    Key,          \* storeKey values: Idempotency-Key or derived, per API key
    IdemKey,      \* idempotency.keyFor values
    Payment,      \* signed payment authorisations, each good for one transfer
    Pod,          \* facilitator processes
    Inputs,       \* what a request may carry
    Null,         \* a column that is NULL
    Empty,        \* the empty string '' as a transaction hash
    Postgres,     \* DATABASE_URL is set
    Replica,      \* a read replica is configured
    UseLock,      \* REDIS_NODES is set
    MaxDegrades,  \* bound: store failures that degrade a pod to memory
    MaxCrashes,   \* bound: process crashes
    MaxLockLosses \* bound: lock extensions that fail while the lock is held

Tx == Payment \cup {Null, Empty}

ASSUME InputsAssumption ==
    Inputs \subseteq [key : Key, idem : IdemKey, pay : Payment,
                      hash : BOOLEAN, pod : Pod]

ASSUME ConstantsAssumption ==
    /\ Null \notin Payment /\ Empty \notin Payment /\ Null # Empty
    /\ {"db", "none", "redis"} \intersect Pod = {} /\ "free" \notin Request
    /\ Postgres \in BOOLEAN /\ Replica \in BOOLEAN /\ UseLock \in BOOLEAN
    /\ Replica => Postgres
    /\ MaxDegrades \in Nat /\ MaxCrashes \in Nat /\ MaxLockLosses \in Nat

VARIABLES
    input,     \* request -> what it carries; fixed at Init
    hpc,       \* request -> where its handler is
    wpc,       \* request -> where its settleOnce worker is
    err,       \* request -> errorReason of the catch block, or "none"
    result,    \* request -> what facilitator.settle returned
    direct,    \* request -> ~atomicallyEnqueued: the caller must notify
    reply,     \* request -> the HTTP answer
    claim,     \* request -> table that holds its idempotency claim
    db,        \* settlement_projections on the primary
    replica,   \* settlement_projections as the read replica has them
    mem,       \* pod -> in-memory settlement records
    row,       \* idempotency_keys table
    imem,      \* pod -> in-memory idempotency records
    degraded,  \* pod -> what fell back to memory: "store", "idem", "lock"
    outbox,    \* outbox_events, written with the record they announce
    webhooks,  \* notifications handed to the dispatcher directly
    lock,      \* Redis, or a pod's mutex -> payment -> who holds its lock there
    sub,       \* request -> fate of the transaction it broadcast
    ledger,    \* payments whose transfer the chain has executed
    todo,      \* pod -> unknown records the sweep still has to poll
    polled,    \* pod -> the sweep's last getTransaction answer
    faults     \* how many faults of each kind have happened

handlerVars == <<hpc, err, reply, claim>>
workerVars  == <<wpc, result, direct, webhooks>>
storeVars   == <<db, replica, mem, outbox>>
idemVars    == <<row, imem>>
chainVars   == <<sub, ledger>>
sweepVars   == <<todo, polled>>
vars == <<input, handlerVars, workerVars, storeVars, idemVars, degraded,
          lock, chainVars, sweepVars, faults>>

-----------------------------------------------------------------------------
(* Data. *)

Response == [kind : {"none", "ok", "fail", "unknown", "conflict", "limited",
                     "error"},
             tx : Tx]
Resp(kind, tx) == [kind |-> kind, tx |-> tx]
NoResp == Resp("none", Null)

Reason == {"none", "request_timeout", "lock_timeout",
           "soroban_rpc_unreachable", "unsupported_scheme_network",
           "facilitator_error", "submitted_outcome_unknown",
           "transaction_failed"}

\* The failures a later request under the same key may try again.
RETRYABLE == {"soroban_rpc_unreachable", "lock_timeout", "request_timeout"}

Record == [state : {"absent", "submitted", "settled", "failed", "unknown"},
           tx : Tx, reason : Reason, response : Response]
NoRecord == [state |-> "absent", tx |-> Null, reason |-> "none",
             response |-> NoResp]

\* An idempotency row: absent, claimed (response NULL) or completed.
IdemRow == [state : {"absent", "claimed", "completed"}, response : Response]
NoRow   == [state |-> "absent", response |-> NoResp]
Claimed == [state |-> "claimed", response |-> NoResp]
Completed(resp) == [state |-> "completed", response |-> resp]

KeyOf(r)  == input[r].key
IdemOf(r) == input[r].idem
PayOf(r)  == input[r].pay
PodOf(r)  == input[r].pod

HandlerStates == {"new", "get", "save", "begin", "insert", "poll", "race",
                  "release", "record", "done", "crashed"}
WorkerStates  == {"off", "lock", "mutex", "build", "confirm", "settled",
                  "catalog", "complete", "failed", "returned", "threw"}

\* Where a lock may be held: on the Redis masters, or in one pod's own mutex.
Guard == {"redis"} \cup Pod

\* requestState.submitted: the worker reached sendTransaction.
Submitted(r) == sub[r] # "no"

-----------------------------------------------------------------------------
(* The two stores. A pod without Postgres, or degraded, uses its memory.   *)

StoreInMemory(p) == ~Postgres \/ "store" \in degraded[p]
IdemInMemory(p)  == ~Postgres \/ "idem" \in degraded[p]

\* projectSettlement of one more SettlementInitiated event.
Initiated == [state |-> "submitted", tx |-> Null, reason |-> "none",
              response |-> NoResp]

\* applyEvent of a later event: given columns win, NULL keeps the old value.
\* Without a record there is nothing to update.
Applied(rec, state, tx, reason, response) ==
    IF rec.state = "absent" THEN rec
    ELSE [state    |-> state,
          tx       |-> IF tx = Null THEN rec.tx ELSE tx,
          reason   |-> IF reason = "none" THEN rec.reason ELSE reason,
          response |-> IF response.kind = "none" THEN rec.response
                       ELSE response]

\* settlementStore.get / listUnknown: replica reads when there is a replica.
View(p) == IF StoreInMemory(p) THEN mem[p]
           ELSE IF Replica THEN replica ELSE db

\* settlementStore.save
SaveRecord(p, k) ==
    /\ mem' = [mem EXCEPT ![p][k] = Initiated]
    /\ db'  = IF StoreInMemory(p) THEN db ELSE [db EXCEPT ![k] = Initiated]
    /\ UNCHANGED <<replica, outbox>>

\* settlementStore.updateState
WriteRecord(p, k, state, tx, reason, response) ==
    /\ db' = IF StoreInMemory(p) THEN db
             ELSE [db EXCEPT ![k] = Applied(@, state, tx, reason, response)]
    /\ mem' = IF StoreInMemory(p) \/ db[k].state # "absent"
              THEN [mem EXCEPT ![p][k] = Applied(@, state, tx, reason, response)]
              ELSE mem

\* settlementStore.updateState, which writes no notification.
UpdateState(p, k, state, tx, reason, response) ==
    /\ WriteRecord(p, k, state, tx, reason, response)
    /\ UNCHANGED <<replica, outbox>>

\* Mutant: the outbox row is left to a later statement.
SettleWithoutEnqueue(p, k, tx, response) ==
    /\ WriteRecord(p, k, "settled", tx, "none", response)
    /\ UNCHANGED <<replica, outbox>>

\* settlementStore.settleAndEnqueue: record and outbox row in one transaction.
SettleAndEnqueue(p, k, tx, response) ==
    /\ WriteRecord(p, k, "settled", tx, "none", response)
    /\ outbox' = IF ~StoreInMemory(p) /\ db[k].state # "absent"
                 THEN outbox \cup {[key |-> k, tx |-> tx]}
                 ELSE outbox
    /\ UNCHANGED replica

\* idempotency.complete: the memory store writes, Postgres updates a row.
CompleteIdem(p, i, resp) ==
    IF IdemInMemory(p)
    THEN /\ imem' = [imem EXCEPT ![p][i] = Completed(resp)]
         /\ UNCHANGED row
    ELSE /\ row' = IF row[i].state = "absent" THEN row
                   ELSE [row EXCEPT ![i] = Completed(resp)]
         /\ UNCHANGED imem

\* idempotency.fail: deletes a claim that has no response.
FailIdem(p, i) ==
    IF IdemInMemory(p)
    THEN /\ imem' = IF imem[p][i].state = "claimed"
                    THEN [imem EXCEPT ![p][i] = NoRow] ELSE imem
         /\ UNCHANGED row
    ELSE /\ row' = IF row[i].state = "claimed"
                   THEN [row EXCEPT ![i] = NoRow] ELSE row
         /\ UNCHANGED imem

-----------------------------------------------------------------------------
(* The handler, up to the race. *)

Answer(r, resp) == /\ reply' = [reply EXCEPT ![r] = resp]
                   /\ hpc' = [hpc EXCEPT ![r] = "done"]

Goto(r, label) == hpc' = [hpc EXCEPT ![r] = label]

\* readPaymentBody and rateLimiter.checkSettle; a refusal is a 429.
Arrive(r) ==
    /\ hpc[r] = "new"
    /\ \/ Goto(r, "get") /\ UNCHANGED reply
       \/ Answer(r, Resp("limited", Null))
    /\ UNCHANGED <<input, err, claim, workerVars, storeVars, idemVars,
                   degraded, lock, chainVars, sweepVars, faults>>

\* Mutant: a record that has a transaction hash is replayed as a success.
ReplayAnyHash(rec) ==
    IF rec.tx \in Payment THEN Resp("ok", rec.tx) ELSE NoResp

\* What an existing record answers; "none" lets the request go on.
ReplayOf(rec) ==
    CASE rec.state = "settled" ->
            IF rec.response.kind # "none" THEN rec.response
            ELSE Resp("ok", rec.tx)
      [] rec.state \in {"submitted", "unknown"} -> Resp("unknown", rec.tx)
      [] rec.state = "failed" /\ rec.reason \notin RETRYABLE ->
            IF rec.response.kind # "none" THEN rec.response
            ELSE Resp("fail", rec.tx)
      [] OTHER -> NoResp

Get(r) ==
    /\ hpc[r] = "get"
    /\ LET replay == ReplayOf(View(PodOf(r))[KeyOf(r)])
       IN  IF replay.kind = "none"
           THEN Goto(r, "save") /\ UNCHANGED reply
           ELSE Answer(r, replay)
    /\ UNCHANGED <<input, err, claim, workerVars, storeVars, idemVars,
                   degraded, lock, chainVars, sweepVars, faults>>

Save(r) ==
    /\ hpc[r] = "save"
    /\ SaveRecord(PodOf(r), KeyOf(r))
    /\ Goto(r, "begin")
    /\ UNCHANGED <<input, err, reply, claim, workerVars, idemVars, degraded,
                   lock, chainVars, sweepVars, faults>>

\* The claim is ours: settleOnce starts, behind the lock if there is one, or the
\* mutex of a pod that has given Redis up.
Owned(r, table) ==
    /\ claim' = [claim EXCEPT ![r] = table]
    /\ Goto(r, "race")
    /\ wpc' = [wpc EXCEPT ![r] =
                  CASE ~UseLock -> "build"
                    [] UseLock /\ "lock" \in degraded[PodOf(r)] -> "mutex"
                    [] OTHER -> "lock"]
    /\ UNCHANGED reply

NotOwned == UNCHANGED <<claim, wpc, row, imem>>

\* MemoryIdempotencyStore.begin, also where a Postgres store whose query failed
\* at any stage of its own begin lands.
BeginMemory(r) ==
    LET p == PodOf(r)
        i == IdemOf(r)
    IN  /\ hpc[r] \in {"begin", "insert", "poll"}
        /\ IdemInMemory(p)
        /\ \/ /\ imem[p][i].state = "completed"
              /\ Answer(r, imem[p][i].response) /\ NotOwned
           \/ /\ imem[p][i].state = "claimed"
              /\ Answer(r, Resp("conflict", Null)) /\ NotOwned
           \/ /\ imem[p][i].state = "absent"
              /\ imem' = [imem EXCEPT ![p][i] = Claimed]
              /\ UNCHANGED row
              /\ Owned(r, p)
        /\ UNCHANGED <<input, err, result, direct, webhooks, storeVars,
                       degraded, lock, chainVars, sweepVars, faults>>

\* PostgresIdempotencyStore.begin, SELECT: any row counts as a replay. For a
\* row that is still claimed the replayed status is NULL, which is no status
\* Fastify can send.
BeginSelect(r) ==
    LET found == row[IdemOf(r)]
    IN  /\ hpc[r] = "begin"
        /\ ~IdemInMemory(PodOf(r))
        /\ \/ found.state = "completed" /\ Answer(r, found.response)
           \/ found.state = "claimed" /\ Answer(r, Resp("error", Null))
           \/ found.state = "absent" /\ Goto(r, "insert") /\ UNCHANGED reply
        /\ UNCHANGED <<input, err, claim, workerVars, storeVars, idemVars,
                       degraded, lock, chainVars, sweepVars, faults>>

\* Mutant: ON CONFLICT DO UPDATE, so every INSERT returns a row.
BeginUpsert(r) ==
    /\ hpc[r] = "insert"
    /\ row' = [row EXCEPT ![IdemOf(r)] = Claimed]
    /\ UNCHANGED imem
    /\ Owned(r, "db")
    /\ UNCHANGED <<input, err, result, direct, webhooks, storeVars,
                   degraded, lock, chainVars, sweepVars, faults>>

\* ... INSERT ... ON CONFLICT DO NOTHING: the unique key picks one owner.
BeginInsert(r) ==
    LET i == IdemOf(r)
    IN  /\ hpc[r] = "insert"
        /\ \/ /\ row[i].state = "absent"
              /\ row' = [row EXCEPT ![i] = Claimed]
              /\ UNCHANGED imem
              /\ Owned(r, "db")
           \/ /\ row[i].state # "absent"
              /\ Goto(r, "poll") /\ UNCHANGED reply /\ NotOwned
        /\ UNCHANGED <<input, err, result, direct, webhooks, storeVars,
                       degraded, lock, chainVars, sweepVars, faults>>

\* ... and the loser polls for the winner's response until its deadline.
BeginPoll(r) ==
    /\ hpc[r] = "poll"
    /\ \/ /\ row[IdemOf(r)].state = "completed"
          /\ Answer(r, row[IdemOf(r)].response)
       \/ /\ row[IdemOf(r)].state # "completed"
          /\ Answer(r, Resp("conflict", Null))
    /\ UNCHANGED <<input, err, claim, workerVars, storeVars, idemVars,
                   degraded, lock, chainVars, sweepVars, faults>>

-----------------------------------------------------------------------------
(* settleOnce: the worker. *)

Work(r, label) == wpc' = [wpc EXCEPT ![r] = label]

\* Mutant: the lock is set without NX.
TakeAnyway(r, g) ==
    /\ lock' = [lock EXCEPT ![g][PayOf(r)] = r]
    /\ Work(r, "build")

\* The lock of r's payment is taken at guard g when it is free there.
Take(r, g) ==
    /\ lock[g][PayOf(r)] = "free"
    /\ lock' = [lock EXCEPT ![g][PayOf(r)] = r]
    /\ Work(r, "build")

\* withRedlock, or memoryFallback.withLock of the pod, lets the worker in ...
AcquireLock(r) ==
    /\ \/ wpc[r] = "lock" /\ Take(r, "redis")
       \/ wpc[r] = "mutex" /\ Take(r, PodOf(r))
    /\ UNCHANGED <<input, handlerVars, result, direct, webhooks, storeVars,
                   idemVars, degraded, chainVars, sweepVars, faults>>

\* ... or the acquire window runs out while some Redis node is ready: the call
\* throws, and only a handler that still waits hears of it ...
LockTimeout(r) ==
    /\ wpc[r] = "lock"
    /\ Work(r, "threw")
    /\ err' = [err EXCEPT ![r] = IF hpc[r] = "race" THEN "lock_timeout" ELSE @]
    /\ UNCHANGED <<input, hpc, reply, claim, result, direct, webhooks,
                   storeVars, idemVars, degraded, lock, chainVars, sweepVars,
                   faults>>

\* ... or while none is: the pod goes over to its in-process mutex for good.
LockDegrade(r) ==
    /\ wpc[r] = "lock"
    /\ Work(r, "mutex")
    /\ degraded' = [degraded EXCEPT ![PodOf(r)] = @ \cup {"lock"}]
    /\ UNCHANGED <<input, handlerVars, result, direct, webhooks, storeVars,
                   idemVars, lock, chainVars, sweepVars, faults>>

\* fn is over: its lock is released where it is still held.
Unlocked(r) ==
    [g \in Guard |-> [x \in Payment |-> IF lock[g][x] = r THEN "free" ELSE lock[g][x]]]

\* An extension fails: the TTL frees the lock. settleOnce takes no signal, so
\* the worker that held it runs on.
LoseLock(r) ==
    /\ faults.lock < MaxLockLosses
    /\ lock["redis"][PayOf(r)] = r
    /\ lock' = [lock EXCEPT !["redis"][PayOf(r)] = "free"]
    /\ faults' = [faults EXCEPT !.lock = @ + 1]
    /\ UNCHANGED <<input, handlerVars, workerVars, storeVars, idemVars,
                   degraded, chainVars, sweepVars>>

\* facilitator.settle refuses before it broadcasts anything.
SchemeRefuses(r) ==
    /\ wpc[r] = "build"
    /\ Work(r, "failed")
    /\ result' = [result EXCEPT ![r] = Resp("fail", Null)]
    /\ UNCHANGED <<input, handlerVars, direct, webhooks, storeVars, idemVars,
                   degraded, lock, chainVars, sweepVars, faults>>

\* facilitator.settle throws: no scheme for the network, breaker open, other.
SchemeThrows(r) ==
    /\ wpc[r] = "build"
    /\ Work(r, "threw")
    /\ \E e \in {"soroban_rpc_unreachable", "unsupported_scheme_network",
                 "facilitator_error"} :
          err' = [err EXCEPT ![r] = IF hpc[r] = "race" THEN e ELSE @]
    /\ lock' = Unlocked(r)
    /\ UNCHANGED <<input, hpc, reply, claim, result, direct, webhooks,
                   storeVars, idemVars, degraded, chainVars, sweepVars, faults>>

\* sendTransaction: retryingFetch sets requestState.submitted and broadcasts.
Submit(r) ==
    /\ wpc[r] = "build"
    /\ Work(r, "confirm")
    /\ sub' = [sub EXCEPT ![r] = "pending"]
    /\ UNCHANGED <<input, handlerVars, result, direct, webhooks, storeVars,
                   idemVars, degraded, lock, ledger, sweepVars, faults>>

\* getTransaction answered SUCCESS.
Confirm(r) ==
    /\ wpc[r] = "confirm"
    /\ sub[r] = "landed"
    /\ Work(r, "settled")
    /\ result' = [result EXCEPT ![r] = Resp("ok", PayOf(r))]
    /\ UNCHANGED <<input, handlerVars, direct, webhooks, storeVars, idemVars,
                   degraded, lock, chainVars, sweepVars, faults>>

\* getTransaction answered FAILED, the polls ran out before any answer (the
\* transaction may still land), or sendTransaction itself failed (no hash).
GiveUp(r) ==
    /\ wpc[r] = "confirm"
    /\ Work(r, "failed")
    /\ \E tx \in {PayOf(r), Null} :
          result' = [result EXCEPT ![r] = Resp("fail", tx)]
    /\ UNCHANGED <<input, handlerVars, direct, webhooks, storeVars, idemVars,
                   degraded, lock, chainVars, sweepVars, faults>>

\* recordSettle, then settleAndEnqueue.
StoreSettled(r) ==
    /\ wpc[r] = "settled"
    /\ SettleAndEnqueue(PodOf(r), KeyOf(r), PayOf(r), result[r])
    /\ direct' = [direct EXCEPT ![r] = StoreInMemory(PodOf(r))]
    /\ Work(r, "catalog")
    /\ UNCHANGED <<input, handlerVars, result, webhooks, idemVars, degraded,
                   lock, chainVars, sweepVars, faults>>

\* processCataloging, then webhooks.enqueue when the outbox has no row for it.
Notify(r) ==
    /\ wpc[r] = "catalog"
    /\ webhooks' = IF direct[r] THEN webhooks \cup {PayOf(r)} ELSE webhooks
    /\ Work(r, "complete")
    /\ UNCHANGED <<input, handlerVars, result, direct, storeVars, idemVars,
                   degraded, lock, chainVars, sweepVars, faults>>

\* A failure result is recorded with its response.
StoreFailed(r) ==
    /\ wpc[r] = "failed"
    /\ UpdateState(PodOf(r), KeyOf(r), "failed", result[r].tx,
                   "transaction_failed", result[r])
    /\ Work(r, "complete")
    /\ UNCHANGED <<input, handlerVars, result, direct, webhooks, idemVars,
                   degraded, lock, chainVars, sweepVars, faults>>

\* idempotency.complete, audit, and the lock released on the way out.
Complete(r) ==
    /\ wpc[r] = "complete"
    /\ CompleteIdem(PodOf(r), IdemOf(r), result[r])
    /\ lock' = Unlocked(r)
    /\ Work(r, "returned")
    /\ UNCHANGED <<input, handlerVars, result, direct, webhooks, storeVars,
                   degraded, chainVars, sweepVars, faults>>

-----------------------------------------------------------------------------
(* The handler, from the race on. *)

\* The worker won: its result is the answer.
Respond(r) ==
    /\ hpc[r] = "race"
    /\ wpc[r] = "returned"
    /\ Answer(r, result[r])
    /\ UNCHANGED <<input, err, claim, workerVars, storeVars, idemVars,
                   degraded, lock, chainVars, sweepVars, faults>>

\* The worker threw: the catch block starts with its reason.
Rethrow(r) ==
    /\ hpc[r] = "race"
    /\ wpc[r] = "threw"
    /\ Goto(r, "release")
    /\ UNCHANGED <<input, err, reply, claim, workerVars, storeVars, idemVars,
                   degraded, lock, chainVars, sweepVars, faults>>

\* Mutant: the timer is cleared when the transaction goes out.
TimeoutBeforeSubmit(r) ==
    /\ hpc[r] = "race"
    /\ wpc[r] \notin {"returned", "threw"}
    /\ ~Submitted(r)
    /\ err' = [err EXCEPT ![r] = "request_timeout"]
    /\ Goto(r, "release")
    /\ UNCHANGED <<input, reply, claim, workerVars, storeVars, idemVars,
                   degraded, lock, chainVars, sweepVars, faults>>

\* The timer won: the reason depends on whether a broadcast went out.
Timeout(r) ==
    /\ hpc[r] = "race"
    /\ wpc[r] \notin {"returned", "threw"}
    /\ err' = [err EXCEPT ![r] = IF Submitted(r)
                                 THEN "submitted_outcome_unknown"
                                 ELSE "request_timeout"]
    /\ Goto(r, "release")
    /\ UNCHANGED <<input, reply, claim, workerVars, storeVars, idemVars,
                   degraded, lock, chainVars, sweepVars, faults>>

\* Mutant: the catch block releases the claim whatever the reason.
ReleaseAlways(r) ==
    /\ hpc[r] = "release"
    /\ FailIdem(PodOf(r), IdemOf(r))
    /\ claim' = [claim EXCEPT ![r] = "none"]
    /\ Goto(r, "record")
    /\ UNCHANGED <<input, err, reply, workerVars, storeVars, degraded, lock,
                   chainVars, sweepVars, faults>>

\* idempotency.fail, unless the outcome is unknown.
ReleaseClaim(r) ==
    /\ hpc[r] = "release"
    /\ IF err[r] = "submitted_outcome_unknown"
       THEN UNCHANGED <<row, imem, claim>>
       ELSE /\ FailIdem(PodOf(r), IdemOf(r))
            /\ claim' = [claim EXCEPT ![r] = "none"]
    /\ Goto(r, "record")
    /\ UNCHANGED <<input, err, reply, workerVars, storeVars, degraded, lock,
                   chainVars, sweepVars, faults>>

\* The transaction the catch block reports is the one the client sent along.
ClientTx(r) == IF input[r].hash THEN PayOf(r) ELSE Empty

\* updateState and the failure answer end the catch block.
RecordError(r) ==
    LET unknown == err[r] = "submitted_outcome_unknown"
    IN  /\ hpc[r] = "record"
        /\ UpdateState(PodOf(r), KeyOf(r),
                       IF unknown THEN "unknown" ELSE "failed",
                       ClientTx(r), err[r], NoResp)
        /\ Answer(r, Resp(IF unknown THEN "unknown" ELSE "fail", ClientTx(r)))
        /\ UNCHANGED <<input, err, claim, workerVars, idemVars, degraded,
                       lock, chainVars, sweepVars, faults>>

-----------------------------------------------------------------------------
(* The ledger. A payment's authorisation nonce can be consumed once.       *)

Include(r) ==
    /\ sub[r] = "pending"
    /\ IF PayOf(r) \in ledger
       THEN sub' = [sub EXCEPT ![r] = "rejected"] /\ UNCHANGED ledger
       ELSE /\ sub' = [sub EXCEPT ![r] = "landed"]
            /\ ledger' = ledger \cup {PayOf(r)}
    /\ UNCHANGED <<input, handlerVars, workerVars, storeVars, idemVars,
                   degraded, lock, sweepVars, faults>>

\* The transaction fails on chain, or its time bounds pass unseen.
Drop(r) ==
    /\ sub[r] = "pending"
    /\ \E fate \in {"rejected", "expired"} :
          sub' = [sub EXCEPT ![r] = fate]
    /\ UNCHANGED <<input, handlerVars, workerVars, storeVars, idemVars,
                   degraded, lock, ledger, sweepVars, faults>>

\* RPC getTransaction for the transaction hash of a payment.
GetTransaction(tx) ==
    IF tx \in ledger THEN "SUCCESS"
    ELSE IF /\ \E r \in Request : PayOf(r) = tx /\ sub[r] = "rejected"
            /\ \A r \in Request : PayOf(r) = tx => sub[r] # "pending"
         THEN "FAILED" ELSE "NOT_FOUND"

-----------------------------------------------------------------------------
(* reconcileUnknownSettlements, one sweep at a time per pod. *)

NothingPolled == [key |-> Null, tx |-> Null, status |-> "none"]

\* Mutant: the query asks for the wrong state.
ListSubmitted(p) ==
    LET submitted == {k \in Key : View(p)[k].state = "submitted"}
    IN  /\ todo[p] = {} /\ polled[p] = NothingPolled
        /\ todo' = [todo EXCEPT ![p] =
                      {[key |-> k, tx |-> View(p)[k].tx] :
                         k \in {u \in submitted : View(p)[u].tx \in Payment}}]
        /\ UNCHANGED <<input, handlerVars, workerVars, storeVars, idemVars,
                       degraded, lock, chainVars, polled, faults>>

\* listUnknown; a record with an empty tx_hash is skipped.
ListUnknown(p) ==
    LET unknown == {k \in Key : View(p)[k].state = "unknown"}
    IN  /\ todo[p] = {} /\ polled[p] = NothingPolled
        /\ todo' = [todo EXCEPT ![p] =
                      {[key |-> k, tx |-> View(p)[k].tx] :
                         k \in {u \in unknown : View(p)[u].tx \in Payment}}]
        /\ UNCHANGED <<input, handlerVars, workerVars, storeVars, idemVars,
                       degraded, lock, chainVars, polled, faults>>

\* One getTransaction call. An error, or no verdict yet, moves on.
PollRecord(p) ==
    /\ polled[p] = NothingPolled
    /\ \E u \in todo[p] :
          /\ todo' = [todo EXCEPT ![p] = @ \ {u}]
          /\ polled' = [polled EXCEPT ![p] =
                IF GetTransaction(u.tx) \in {"SUCCESS", "FAILED"}
                THEN [key |-> u.key, tx |-> u.tx,
                      status |-> GetTransaction(u.tx)]
                ELSE NothingPolled]
    /\ UNCHANGED <<input, handlerVars, workerVars, storeVars, idemVars,
                   degraded, lock, chainVars, faults>>

\* The RPC endpoint fails or times out: a warning, next record.
PollError(p) ==
    /\ polled[p] = NothingPolled
    /\ \E u \in todo[p] : todo' = [todo EXCEPT ![p] = @ \ {u}]
    /\ UNCHANGED <<input, handlerVars, workerVars, storeVars, idemVars,
                   degraded, lock, chainVars, polled, faults>>

\* Mutant: any verdict settles the record.
WriteAnyVerdict(p) ==
    /\ polled[p].status \in {"SUCCESS", "FAILED"}
    /\ SettleAndEnqueue(p, polled[p].key, polled[p].tx, NoResp)
    /\ polled' = [polled EXCEPT ![p] = NothingPolled]
    /\ UNCHANGED <<input, handlerVars, workerVars, idemVars, degraded, lock,
                   chainVars, todo, faults>>

\* The verdict is written to the record, whatever the record is by now.
WriteReconciled(p) ==
    /\ \/ /\ polled[p].status = "SUCCESS"
          /\ SettleAndEnqueue(p, polled[p].key, polled[p].tx, NoResp)
       \/ /\ polled[p].status = "FAILED"
          /\ UpdateState(p, polled[p].key, "failed", polled[p].tx,
                         "transaction_failed", NoResp)
    /\ polled' = [polled EXCEPT ![p] = NothingPolled]
    /\ UNCHANGED <<input, handlerVars, workerVars, idemVars, degraded, lock,
                   chainVars, todo, faults>>

-----------------------------------------------------------------------------
(* Faults. *)

\* A failed query or a pool error: from here on the store is process-local.
Degrade(p, store) ==
    /\ Postgres /\ faults.degrade < MaxDegrades
    /\ store \notin degraded[p]
    /\ degraded' = [degraded EXCEPT ![p] = @ \cup {store}]
    /\ faults' = [faults EXCEPT !.degrade = @ + 1]
    /\ UNCHANGED <<input, handlerVars, workerVars, storeVars, idemVars, lock,
                   chainVars, sweepVars>>

\* The primary streams its records to the replica.
Replicate ==
    /\ Replica /\ replica # db
    /\ replica' = db
    /\ UNCHANGED <<input, handlerVars, workerVars, db, mem, outbox, idemVars,
                   degraded, lock, chainVars, sweepVars, faults>>

\* A pod dies and restarts: its requests, memory and locks (by TTL) are gone.
Crash(p) ==
    LET here == {r \in Request : PodOf(r) = p}
        lost == {r \in here : hpc[r] \notin {"new", "done"}}
    IN  /\ faults.crash < MaxCrashes
        /\ faults' = [faults EXCEPT !.crash = @ + 1]
        /\ hpc' = [r \in Request |-> IF r \in lost THEN "crashed" ELSE hpc[r]]
        /\ wpc' = [r \in Request |-> IF r \in here THEN "off" ELSE wpc[r]]
        /\ claim' = [r \in Request |->
                       IF claim[r] = p THEN "none" ELSE claim[r]]
        /\ lock' = [g \in Guard |-> [x \in Payment |->
                       IF lock[g][x] \in here THEN "free" ELSE lock[g][x]]]
        /\ mem' = [mem EXCEPT ![p] = [k \in Key |-> NoRecord]]
        /\ imem' = [imem EXCEPT ![p] = [i \in IdemKey |-> NoRow]]
        /\ degraded' = [degraded EXCEPT ![p] = {}]
        /\ todo' = [todo EXCEPT ![p] = {}]
        /\ polled' = [polled EXCEPT ![p] = NothingPolled]
        /\ UNCHANGED <<input, err, reply, result, direct, webhooks, db,
                       replica, outbox, row, chainVars>>

-----------------------------------------------------------------------------
Init ==
    /\ input \in [Request -> Inputs]
    /\ hpc = [r \in Request |-> "new"]
    /\ wpc = [r \in Request |-> "off"]
    /\ err = [r \in Request |-> "none"]
    /\ result = [r \in Request |-> NoResp]
    /\ direct = [r \in Request |-> FALSE]
    /\ reply = [r \in Request |-> NoResp]
    /\ claim = [r \in Request |-> "none"]
    /\ db = [k \in Key |-> NoRecord]
    /\ replica = db
    /\ mem = [p \in Pod |-> [k \in Key |-> NoRecord]]
    /\ row = [i \in IdemKey |-> NoRow]
    /\ imem = [p \in Pod |-> [i \in IdemKey |-> NoRow]]
    /\ degraded = [p \in Pod |-> {}]
    /\ outbox = {}
    /\ webhooks = {}
    /\ lock = [g \in Guard |-> [x \in Payment |-> "free"]]
    /\ sub = [r \in Request |-> "no"]
    /\ ledger = {}
    /\ todo = [p \in Pod |-> {}]
    /\ polled = [p \in Pod |-> NothingPolled]
    /\ faults = [degrade |-> 0, crash |-> 0, lock |-> 0]

Handler(r) == \/ Arrive(r) \/ Get(r) \/ Save(r)
              \/ BeginMemory(r) \/ BeginSelect(r) \/ BeginInsert(r)
              \/ BeginPoll(r) \/ Respond(r) \/ Rethrow(r) \/ Timeout(r)
              \/ ReleaseClaim(r) \/ RecordError(r)

Worker(r) == \/ AcquireLock(r) \/ LockTimeout(r) \/ LockDegrade(r)
             \/ SchemeRefuses(r) \/ SchemeThrows(r) \/ Submit(r) \/ Confirm(r) \/ GiveUp(r)
             \/ StoreSettled(r) \/ Notify(r) \/ StoreFailed(r) \/ Complete(r)

Chain(r) == Include(r) \/ Drop(r)

Sweep(p) == ListUnknown(p) \/ PollRecord(p) \/ PollError(p) \/ WriteReconciled(p)

Next == \/ \E r \in Request : Handler(r) \/ Worker(r) \/ Chain(r) \/ LoseLock(r)
        \/ \E p \in Pod : Sweep(p) \/ Crash(p)
        \/ \E p \in Pod, s \in {"store", "idem"} : Degrade(p, s)
        \/ Replicate

Spec == Init /\ [][Next]_vars

-----------------------------------------------------------------------------
(* Safety. *)

TypeOK ==
    /\ input \in [Request -> Inputs]
    /\ hpc \in [Request -> HandlerStates]
    /\ wpc \in [Request -> WorkerStates]
    /\ err \in [Request -> Reason]
    /\ result \in [Request -> Response]
    /\ direct \in [Request -> BOOLEAN]
    /\ reply \in [Request -> Response]
    /\ claim \in [Request -> {"none", "db"} \cup Pod]
    /\ db \in [Key -> Record]
    /\ replica \in [Key -> Record]
    /\ mem \in [Pod -> [Key -> Record]]
    /\ row \in [IdemKey -> IdemRow]
    /\ imem \in [Pod -> [IdemKey -> IdemRow]]
    /\ degraded \in [Pod -> SUBSET {"store", "idem", "lock"}]
    /\ outbox \subseteq [key : Key, tx : Payment]
    /\ webhooks \subseteq Payment
    /\ lock \in [Guard -> [Payment -> Request \cup {"free"}]]
    /\ sub \in [Request -> {"no", "pending", "landed", "rejected", "expired"}]
    /\ ledger \subseteq Payment
    /\ todo \in [Pod -> SUBSET [key : Key, tx : Payment]]
    /\ polled \in [Pod -> [key : Key, tx : Payment,
                            status : {"SUCCESS", "FAILED"}]
                          \cup {NothingPolled}]
    /\ faults \in [degrade : Nat, crash : Nat, lock : Nat]

\* Whoever is told "success" - by the worker, a replayed record, a replayed
\* idempotency response or a reconciled record - names a transaction the chain
\* has executed. No timeout, crash, degraded store or stale replica breaks it.
SuccessMeansLanded ==
    \A r \in Request : reply[r].kind = "ok" => reply[r].tx \in ledger

\* A settlement record in state 'settled', in any table or pod memory, carries
\* the hash of a transaction that is on chain, although timed-out workers,
\* concurrent requests and the reconciliation sweep all write that record.
SettledMeansLanded ==
    \A k \in Key :
        \A rec \in {db[k], replica[k]} \cup {mem[p][k] : p \in Pod} :
            rec.state = "settled" => rec.tx \in ledger

\* Why the two hold: every place that can hold evidence of success only holds
\* evidence of an executed transaction. Each part feeds the next: the chain
\* feeds the worker and the sweep, these feed records and idempotency rows, and
\* all of them feed replies.
GoodResponse(resp) == resp.kind = "ok" => resp.tx \in ledger
GoodRecord(rec) == /\ rec.state = "settled" => rec.tx \in ledger
                   /\ GoodResponse(rec.response)

RepliesGood == \A r \in Request : GoodResponse(reply[r])
WorkersGood ==
    \A r \in Request : /\ sub[r] = "landed" => PayOf(r) \in ledger
                       /\ wpc[r] = "settled" => PayOf(r) \in ledger
                       /\ GoodResponse(result[r])
RecordsGood ==
    \A k \in Key : /\ GoodRecord(db[k]) /\ GoodRecord(replica[k])
                   /\ \A p \in Pod : GoodRecord(mem[p][k])
IdemGood ==
    \A i \in IdemKey : /\ GoodResponse(row[i].response)
                       /\ \A p \in Pod : GoodResponse(imem[p][i].response)
SweepGood ==
    \A p \in Pod : polled[p].status = "SUCCESS" => polled[p].tx \in ledger

LandedInv == /\ RepliesGood /\ WorkersGood /\ RecordsGood /\ IdemGood
             /\ SweepGood

\* Every durable 'settled' record has its notification in the outbox, written
\* by the worker or by the sweep, however often the record is overwritten.
SettledNotified ==
    \A k \in Key : db[k].state = "settled" =>
                       [key |-> k, tx |-> db[k].tx] \in outbox

\* The table the deployment is configured with gives an idempotency key to one
\* request at a time: no second owner while the first runs, is timed out with
\* an unknown outcome, has crashed, or has its response recorded.
ClaimExclusive ==
    \A r, q \in Request :
        /\ claim[r] = claim[q] /\ IdemOf(r) = IdemOf(q)
        /\ claim[r] \in IF Postgres THEN {"db"} ELSE Pod
        => r = q

\* Why it holds: a claim is backed by a row of its table, a memory claim is of
\* the request's own pod, a handler that may still release has a claim, and
\* only a Postgres store inserts rows.
ClaimBacked ==
    \A r \in Request :
        /\ claim[r] = "db" => Postgres /\ row[IdemOf(r)].state # "absent"
        /\ claim[r] \in Pod => /\ claim[r] = PodOf(r)
                               /\ IdemInMemory(PodOf(r))
        /\ (claim[r] \in Pod /\ ~Postgres) =>
              imem[PodOf(r)][IdemOf(r)].state # "absent"
        /\ hpc[r] \in {"race", "release"} => claim[r] # "none"
        /\ hpc[r] = "insert" => Postgres

ClaimInv == ClaimExclusive /\ ClaimBacked

\* Where settleOnce is inside withLock.
Running(r) == wpc[r] \notin {"off", "lock", "mutex", "returned", "threw"}

\* As long as no extension fails, two workers have the same payment in hand only
\* if the pod of one of them has given Redis up ("cross-replica serialization is
\* NOT guaranteed", distributed-lock.js): otherwise a retry's worker waits for the
\* abandoned worker of the timed-out request, whatever became of the claim in
\* between. And a pod has two at most, one that Redis let in before and one that
\* the mutex did.
OneWorkerPerPayment ==
    UseLock /\ faults.lock = 0 =>
        \A r, q \in Request :
            PayOf(r) = PayOf(q) /\ Running(r) /\ Running(q) /\ r # q =>
                /\ "lock" \in degraded[PodOf(r)] \cup degraded[PodOf(q)]
                /\ \A s \in Request \ {r, q} :
                     Running(s) /\ PayOf(s) = PayOf(r) =>
                         ~(PodOf(r) = PodOf(q) /\ PodOf(s) = PodOf(r))

\* Why it holds: a worker has the lock somewhere until it is done or dead, and
\* only a pod that gave Redis up uses its mutex.
Alone(p)  == "lock" \in degraded[p]
Locked(r) == \/ lock["redis"][PayOf(r)] = r
             \/ lock[PodOf(r)][PayOf(r)] = r /\ Alone(PodOf(r))
LockInv ==
    UseLock =>
        \A r \in Request : /\ wpc[r] = "mutex" => Alone(PodOf(r))
                           /\ faults.lock = 0 /\ Running(r) => Locked(r)

-----------------------------------------------------------------------------
(* Action properties. *)

\* A request that timed out after its broadcast leaves its claim in place: no
\* later step makes that key claimable ("an outcome-unknown claim stays held
\* until completion").
UnknownClaimHeld ==
    [][\A r \in Request :
         /\ Postgres /\ claim[r] = "db"
         /\ err[r] = "submitted_outcome_unknown"
         => row'[IdemOf(r)].state # "absent"]_vars

\* The #344 comment in the settle path: a failing side effect must not
\* "overwrite the durable 'settled' record with 'failed'".
SettledNotFailed ==
    [][\A k \in Key : db[k].state = "settled" => db'[k].state # "failed"]_vars

\* The catch block: "Release our claim only when we know no transaction was
\* submitted". A request that gave its claim back never has a broadcast out.
\* Refuted: Promise.race leaves the worker running, and it broadcasts afterwards.
ReleasedNotSubmitted ==
    \A r \in Request :
        hpc[r] \in {"record", "done"} /\ wpc[r] # "off" /\ claim[r] = "none"
        => ~Submitted(r)

-----------------------------------------------------------------------------
(* Liveness. The handler's awaits before the race are database calls that   *)
(* return; the timer fires; the sweep runs on an interval and its RPC does  *)
(* not fail every time. Nothing is assumed of the worker or of the chain.   *)

Fairness ==
    /\ \A r \in Request : WF_vars(Handler(r))
    /\ \A p \in Pod : WF_vars(Sweep(p)) /\ SF_vars(PollRecord(p))
    /\ WF_vars(Replicate)

FairSpec == Spec /\ Fairness

\* Also the worker runs until its process dies, and the chain decides.
FairWorkerSpec ==
    FairSpec /\ \A r \in Request : WF_vars(Worker(r)) /\ WF_vars(Chain(r))

\* Every request that arrives is answered (or its process crashed), even when
\* facilitator.settle never returns or its lock is never free.
EveryRequestAnswered ==
    \A r \in Request : hpc[r] = "get" ~> hpc[r] \in {"done", "crashed"}

\* An outcome-unknown record whose transaction hash is that of an executed
\* transaction does not stay unknown: the sweep finds it.
UnknownLandedResolves ==
    \A k \in Key :
        db[k].state = "unknown" /\ db[k].tx \in ledger
        ~> db[k].state # "unknown"

\* What the reconciliation module says it does: resolve the settlements
\* recorded in 'unknown' state, once their transaction is on chain. Refuted for
\* requests without a transaction hash: their empty tx_hash is skipped.
UnknownResolves ==
    \A r \in Request :
        db[KeyOf(r)].state = "unknown" /\ sub[r] = "landed"
        ~> db[KeyOf(r)].state # "unknown"
=============================================================================
