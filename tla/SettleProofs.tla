---------------------------- MODULE SettleProofs ----------------------------
(* Theorems about Settle, for every set of requests, keys, payments and     *)
(* pods, every bound on faults and every deployment.                        *)
EXTENDS Settle, TLAPS

\* What a request carries has the types its fields promise.
LEMMA InputTypes ==
    ASSUME TypeOK, NEW r \in Request
    PROVE  /\ KeyOf(r) \in Key /\ IdemOf(r) \in IdemKey
           /\ PayOf(r) \in Payment /\ PodOf(r) \in Pod
           /\ ClientTx(r) \in Tx /\ PayOf(r) \in Tx
  BY InputsAssumption DEF TypeOK, KeyOf, IdemOf, PayOf, PodOf, ClientTx, Tx

\* The values the actions store are of their types.
LEMMA DataTypes ==
    /\ NoResp \in Response /\ NoRecord \in Record /\ Initiated \in Record
    /\ NoRow \in IdemRow /\ Claimed \in IdemRow
    /\ \A resp \in Response : Completed(resp) \in IdemRow
    /\ \A tx \in Tx : \A kind \in {"none", "ok", "fail", "unknown", "conflict",
                                   "limited", "error"} :
          Resp(kind, tx) \in Response
  BY DEF NoResp, Resp, Response, NoRecord, Record, Initiated, NoRow, IdemRow,
         Claimed, Completed, Tx, Reason

LEMMA AppliedType ==
    ASSUME NEW rec \in Record, NEW tx \in Tx, NEW reason \in Reason,
           NEW response \in Response,
           NEW state \in {"submitted", "settled", "failed", "unknown"}
    PROVE  Applied(rec, state, tx, reason, response) \in Record
  BY DEF Applied, Record

LEMMA ReplayType ==
    ASSUME NEW rec \in Record
    PROVE  ReplayOf(rec) \in Response
  BY DEF ReplayOf, Record, Response, Resp, NoResp, Tx

LEMMA ViewType ==
    ASSUME TypeOK, NEW p \in Pod
    PROVE  View(p) \in [Key -> Record]
  BY DEF TypeOK, View

LEMMA SaveType ==
    ASSUME TypeOK, NEW p \in Pod, NEW k \in Key, SaveRecord(p, k)
    PROVE  db' \in [Key -> Record] /\ mem' \in [Pod -> [Key -> Record]]
  BY DataTypes DEF TypeOK, SaveRecord

LEMMA WriteType ==
    ASSUME TypeOK, NEW p \in Pod, NEW k \in Key, NEW tx \in Tx,
           NEW reason \in Reason, NEW response \in Response,
           NEW state \in {"submitted", "settled", "failed", "unknown"},
           WriteRecord(p, k, state, tx, reason, response)
    PROVE  db' \in [Key -> Record] /\ mem' \in [Pod -> [Key -> Record]]
<1>1. db[k] \in Record /\ mem[p][k] \in Record
  BY DEF TypeOK
<1>2. /\ Applied(db[k], state, tx, reason, response) \in Record
      /\ Applied(mem[p][k], state, tx, reason, response) \in Record
  BY <1>1, AppliedType
<1>3. db' \in [Key -> Record]
  BY <1>2 DEF TypeOK, WriteRecord
<1>4. mem' \in [Pod -> [Key -> Record]]
  BY <1>2 DEF TypeOK, WriteRecord
<1> QED BY <1>3, <1>4

LEMMA IdemTypes ==
    ASSUME TypeOK, NEW p \in Pod, NEW i \in IdemKey, NEW resp \in Response,
           CompleteIdem(p, i, resp) \/ FailIdem(p, i)
    PROVE  row' \in [IdemKey -> IdemRow] /\ imem' \in [Pod -> [IdemKey -> IdemRow]]
<1>1. NoRow \in IdemRow /\ Completed(resp) \in IdemRow
  BY DataTypes
<1>2. row \in [IdemKey -> IdemRow] /\ imem \in [Pod -> [IdemKey -> IdemRow]]
  BY DEF TypeOK
<1>3. \/ imem' = imem
      \/ imem' = [imem EXCEPT ![p][i] = Completed(resp)]
      \/ imem' = [imem EXCEPT ![p][i] = NoRow]
  BY DEF CompleteIdem, FailIdem
<1>4. \/ row' = row
      \/ row' = [row EXCEPT ![i] = Completed(resp)]
      \/ row' = [row EXCEPT ![i] = NoRow]
  BY DEF CompleteIdem, FailIdem
<1>5. row' \in [IdemKey -> IdemRow]
  BY <1>1, <1>2, <1>4
<1>6. imem' \in [Pod -> [IdemKey -> IdemRow]]
  BY <1>1, <1>2, <1>3
<1> QED BY <1>5, <1>6

USE DEF handlerVars, workerVars, storeVars, idemVars, chainVars, sweepVars

\* Every step of a handler keeps the types.
LEMMA HandlerType ==
    ASSUME TypeOK, NEW r \in Request, Handler(r)
    PROVE  TypeOK'
<1>1. /\ KeyOf(r) \in Key /\ IdemOf(r) \in IdemKey /\ PayOf(r) \in Payment
      /\ PodOf(r) \in Pod /\ ClientTx(r) \in Tx
  BY InputTypes
<1>2. \A tx \in Tx : \A kind \in {"limited", "conflict", "error", "unknown", "fail"} :
         Resp(kind, tx) \in Response
  BY DataTypes
<1>3. NoResp \in Response /\ Claimed \in IdemRow /\ Null \in Tx
  BY DataTypes DEF Tx
<1>0. hpc \in [Request -> HandlerStates] /\ reply \in [Request -> Response]
  BY DEF TypeOK
<1>4. CASE Arrive(r)
  <2>1. hpc' \in [Request -> HandlerStates] /\ reply' \in [Request -> Response]
    BY <1>0, <1>2, <1>3, <1>4 DEF Arrive, Goto, Answer, HandlerStates
  <2> QED BY <1>4, <2>1 DEF TypeOK, Arrive
<1>5. CASE Get(r)
  <2>1. ReplayOf(View(PodOf(r))[KeyOf(r)]) \in Response
    BY <1>1, ViewType, ReplayType
  <2>2. hpc' \in [Request -> HandlerStates] /\ reply' \in [Request -> Response]
    BY <1>0, <1>5, <2>1 DEF Get, Goto, Answer, HandlerStates
  <2> QED BY <1>5, <2>2 DEF TypeOK, Get
<1>6. CASE Save(r)
  <2>1. db' \in [Key -> Record] /\ mem' \in [Pod -> [Key -> Record]]
    BY <1>1, <1>6, SaveType DEF Save
  <2> QED BY <1>6, <2>1 DEF TypeOK, Save, SaveRecord, Goto, HandlerStates
<1>7. CASE BeginMemory(r)
  <2>1. imem[PodOf(r)][IdemOf(r)].response \in Response
    BY <1>1 DEF TypeOK, IdemRow
  <2>2. imem' \in [Pod -> [IdemKey -> IdemRow]] /\ row' = row
    <3>1. /\ row' = row
          /\ imem' = imem \/ imem' = [imem EXCEPT ![PodOf(r)][IdemOf(r)] = Claimed]
      BY <1>7 DEF BeginMemory, NotOwned
    <3>2. row \in [IdemKey -> IdemRow] /\ imem \in [Pod -> [IdemKey -> IdemRow]]
      BY DEF TypeOK
    <3> QED BY <1>1, <1>3, <3>1, <3>2
  <2>3. reply' \in [Request -> Response]
    <3>1. \/ reply' = reply
          \/ \E resp \in Response : reply' = [reply EXCEPT ![r] = resp]
      BY <1>2, <1>3, <1>7, <2>1 DEF BeginMemory, Answer, Owned
    <3>2. reply \in [Request -> Response]
      BY DEF TypeOK
    <3> QED BY <3>1, <3>2
  <2>4. hpc' \in [Request -> HandlerStates] /\ wpc' \in [Request -> WorkerStates]
    BY <1>7 DEF TypeOK, BeginMemory, Answer, Owned, NotOwned, Goto,
                HandlerStates, WorkerStates
  <2>5. claim' \in [Request -> {"none", "db"} \cup Pod]
    BY <1>1, <1>7 DEF TypeOK, BeginMemory, Owned, NotOwned
  <2> QED BY <1>7, <2>2, <2>3, <2>4, <2>5 DEF TypeOK, BeginMemory
<1>8. CASE BeginSelect(r)
  <2>1. row[IdemOf(r)].response \in Response
    BY <1>1 DEF TypeOK, IdemRow
  <2>2. hpc' \in [Request -> HandlerStates] /\ reply' \in [Request -> Response]
    BY <1>0, <1>2, <1>3, <1>8, <2>1
       DEF BeginSelect, Goto, Answer, HandlerStates
  <2> QED BY <1>8, <2>2 DEF TypeOK, BeginSelect
<1>9. CASE BeginInsert(r)
  <2>1. row' \in [IdemKey -> IdemRow] /\ imem' = imem
    <3>1. /\ imem' = imem
          /\ row' = row \/ row' = [row EXCEPT ![IdemOf(r)] = Claimed]
      BY <1>9 DEF BeginInsert, NotOwned
    <3>2. row \in [IdemKey -> IdemRow] /\ imem \in [Pod -> [IdemKey -> IdemRow]]
      BY DEF TypeOK
    <3> QED BY <1>1, <1>3, <3>1, <3>2
  <2>2. hpc' \in [Request -> HandlerStates] /\ wpc' \in [Request -> WorkerStates]
    BY <1>9 DEF TypeOK, BeginInsert, Owned, NotOwned, Goto,
                HandlerStates, WorkerStates
  <2>3. claim' \in [Request -> {"none", "db"} \cup Pod] /\ reply' = reply
    BY <1>9 DEF TypeOK, BeginInsert, Owned, NotOwned
  <2> QED BY <1>9, <2>1, <2>2, <2>3 DEF TypeOK, BeginInsert
<1>10. CASE BeginPoll(r)
  <2>1. row[IdemOf(r)].response \in Response
    BY <1>1 DEF TypeOK, IdemRow
  <2>2. hpc' \in [Request -> HandlerStates] /\ reply' \in [Request -> Response]
    BY <1>0, <1>2, <1>3, <1>10, <2>1 DEF BeginPoll, Answer, HandlerStates
  <2> QED BY <1>10, <2>2 DEF TypeOK, BeginPoll
<1>11. CASE Respond(r)
  BY <1>11 DEF TypeOK, Respond, Answer, HandlerStates
<1>12. CASE Rethrow(r)
  BY <1>12 DEF TypeOK, Rethrow, Goto, HandlerStates
<1>13. CASE Timeout(r)
  BY <1>13 DEF TypeOK, Timeout, Goto, HandlerStates, Reason
<1>14. CASE ReleaseClaim(r)
  <2>1. row' \in [IdemKey -> IdemRow] /\ imem' \in [Pod -> [IdemKey -> IdemRow]]
    BY <1>1, <1>3, <1>14, IdemTypes DEF ReleaseClaim, TypeOK
  <2> QED BY <1>14, <2>1 DEF TypeOK, ReleaseClaim, Goto, HandlerStates
<1>15. CASE RecordError(r)
  <2>1. err[r] \in Reason
    BY DEF TypeOK
  <2>2. db' \in [Key -> Record] /\ mem' \in [Pod -> [Key -> Record]]
    BY <1>1, <1>3, <1>15, <2>1, WriteType DEF RecordError, UpdateState
  <2> QED BY <1>1, <1>2, <1>15, <2>2
          DEF TypeOK, RecordError, UpdateState, Answer, HandlerStates
<1> QED BY <1>4, <1>5, <1>6, <1>7, <1>8, <1>9, <1>10, <1>11, <1>12, <1>13,
           <1>14, <1>15 DEF Handler

\* Every step of a worker keeps the types.
LEMMA WorkerType ==
    ASSUME TypeOK, NEW r \in Request, Worker(r)
    PROVE  TypeOK'
<1>0. /\ wpc \in [Request -> WorkerStates] /\ err \in [Request -> Reason]
      /\ result \in [Request -> Response] /\ result[r] \in Response
      /\ lock \in [Guard -> [Payment -> Request \cup {"free"}]]
      /\ webhooks \subseteq Payment /\ outbox \subseteq [key : Key, tx : Payment]
  BY DEF TypeOK
<1>1. /\ KeyOf(r) \in Key /\ IdemOf(r) \in IdemKey /\ PayOf(r) \in Payment
      /\ PodOf(r) \in Pod
  BY InputTypes
<1>2. PayOf(r) \in Tx /\ Null \in Tx /\ result[r].tx \in Tx
  BY <1>0, <1>1 DEF Tx, Response
<1>3. /\ Resp("fail", Null) \in Response /\ Resp("fail", PayOf(r)) \in Response
      /\ Resp("ok", PayOf(r)) \in Response
  BY <1>2, DataTypes
<1>4. Unlocked(r) \in [Guard -> [Payment -> Request \cup {"free"}]]
  BY <1>0, <1>1 DEF Unlocked
<1>5. CASE AcquireLock(r)
  <2>1. wpc' \in [Request -> WorkerStates]
    BY <1>0, <1>5 DEF AcquireLock, Take, Work, WorkerStates
  <2>2. PICK g \in Guard : Take(r, g)
    BY <1>1, <1>5 DEF AcquireLock, Guard
  <2>3. lock' \in [Guard -> [Payment -> Request \cup {"free"}]]
    BY <1>0, <1>1, <2>2 DEF Take
  <2> QED BY <1>5, <2>1, <2>3 DEF TypeOK, AcquireLock
<1>6. CASE LockTimeout(r)
  <2>1. wpc' \in [Request -> WorkerStates] /\ err' \in [Request -> Reason]
    BY <1>0, <1>6 DEF LockTimeout, Work, WorkerStates, Reason
  <2> QED BY <1>6, <2>1 DEF TypeOK, LockTimeout
<1>16. CASE LockDegrade(r)
  <2>1. wpc' \in [Request -> WorkerStates]
    BY <1>0, <1>16 DEF LockDegrade, Work, WorkerStates
  <2>2. degraded' \in [Pod -> SUBSET {"store", "idem", "lock"}]
    BY <1>1, <1>16 DEF TypeOK, LockDegrade
  <2> QED BY <1>16, <2>1, <2>2 DEF TypeOK, LockDegrade
<1>7. CASE SchemeRefuses(r)
  <2>1. wpc' \in [Request -> WorkerStates] /\ result' \in [Request -> Response]
    BY <1>0, <1>3, <1>7 DEF SchemeRefuses, Work, WorkerStates
  <2> QED BY <1>7, <2>1 DEF TypeOK, SchemeRefuses
<1>8. CASE SchemeThrows(r)
  <2>1. wpc' \in [Request -> WorkerStates]
    BY <1>0, <1>8 DEF SchemeThrows, Work, WorkerStates
  <2>2. err' \in [Request -> Reason]
    BY <1>0, <1>8 DEF SchemeThrows, Reason
  <2> QED BY <1>4, <1>8, <2>1, <2>2 DEF TypeOK, SchemeThrows
<1>9. CASE Submit(r)
  BY <1>9 DEF TypeOK, Submit, Work, WorkerStates
<1>10. CASE Confirm(r)
  <2>1. wpc' \in [Request -> WorkerStates] /\ result' \in [Request -> Response]
    BY <1>0, <1>3, <1>10 DEF Confirm, Work, WorkerStates
  <2> QED BY <1>10, <2>1 DEF TypeOK, Confirm
<1>11. CASE GiveUp(r)
  <2>1. wpc' \in [Request -> WorkerStates] /\ result' \in [Request -> Response]
    BY <1>0, <1>3, <1>11 DEF GiveUp, Work, WorkerStates
  <2> QED BY <1>11, <2>1 DEF TypeOK, GiveUp
<1>12. CASE StoreSettled(r)
  <2>1. WriteRecord(PodOf(r), KeyOf(r), "settled", PayOf(r), "none", result[r])
    BY <1>12 DEF StoreSettled, SettleAndEnqueue
  <2>2. db' \in [Key -> Record] /\ mem' \in [Pod -> [Key -> Record]]
    <3>1. "none" \in Reason
      BY DEF Reason
    <3> QED BY <1>0, <1>1, <1>2, <2>1, <3>1, WriteType
  <2>3. outbox' \subseteq [key : Key, tx : Payment]
    BY <1>0, <1>1, <1>12 DEF StoreSettled, SettleAndEnqueue
  <2>4. wpc' \in [Request -> WorkerStates] /\ direct' \in [Request -> BOOLEAN]
    <3>1. StoreInMemory(PodOf(r)) \in BOOLEAN
      BY DEF StoreInMemory
    <3>2. direct \in [Request -> BOOLEAN]
      BY DEF TypeOK
    <3> QED BY <1>0, <1>12, <3>1, <3>2 DEF StoreSettled, Work, WorkerStates
  <2> QED BY <1>12, <2>2, <2>3, <2>4 DEF TypeOK, StoreSettled, SettleAndEnqueue
<1>13. CASE Notify(r)
  <2>1. webhooks' \subseteq Payment
    BY <1>0, <1>1, <1>13 DEF Notify
  <2> QED BY <1>13, <2>1 DEF TypeOK, Notify, Work, WorkerStates
<1>14. CASE StoreFailed(r)
  <2>1. db' \in [Key -> Record] /\ mem' \in [Pod -> [Key -> Record]]
    <3>1. "transaction_failed" \in Reason
      BY DEF Reason
    <3> QED BY <1>0, <1>1, <1>2, <1>14, <3>1, WriteType DEF StoreFailed, UpdateState
  <2> QED BY <1>14, <2>1 DEF TypeOK, StoreFailed, UpdateState, Work, WorkerStates
<1>15. CASE Complete(r)
  <2>1. row' \in [IdemKey -> IdemRow] /\ imem' \in [Pod -> [IdemKey -> IdemRow]]
    BY <1>0, <1>1, <1>15, IdemTypes DEF Complete
  <2> QED BY <1>4, <1>15, <2>1 DEF TypeOK, Complete, Work, WorkerStates
<1> QED BY <1>5, <1>6, <1>7, <1>8, <1>9, <1>10, <1>11, <1>12, <1>13, <1>14,
           <1>15, <1>16 DEF Worker

\* Every step of the sweep keeps the types.
LEMMA SweepType ==
    ASSUME TypeOK, NEW p \in Pod, Sweep(p)
    PROVE  TypeOK'
<1> DEFINE Polled == [key : Key, tx : Payment, status : {"SUCCESS", "FAILED"}]
<1>0. /\ todo \in [Pod -> SUBSET [key : Key, tx : Payment]]
      /\ polled \in [Pod -> Polled \cup {NothingPolled}]
      /\ outbox \subseteq [key : Key, tx : Payment]
  BY DEF TypeOK
<1>1. CASE ListUnknown(p)
  <2>1. todo' \in [Pod -> SUBSET [key : Key, tx : Payment]]
    BY <1>0, <1>1 DEF ListUnknown
  <2> QED BY <1>1, <2>1 DEF TypeOK, ListUnknown
<1>2. CASE PollRecord(p)
  <2>1. PICK u \in todo[p] :
          /\ todo' = [todo EXCEPT ![p] = @ \ {u}]
          /\ polled' = [polled EXCEPT ![p] =
                IF GetTransaction(u.tx) \in {"SUCCESS", "FAILED"}
                THEN [key |-> u.key, tx |-> u.tx,
                      status |-> GetTransaction(u.tx)]
                ELSE NothingPolled]
    BY <1>2 DEF PollRecord
  <2>2. u.key \in Key /\ u.tx \in Payment
    BY <1>0, <2>1
  <2>3. todo' \in [Pod -> SUBSET [key : Key, tx : Payment]]
    BY <1>0, <2>1
  <2>4. polled' \in [Pod -> Polled \cup {NothingPolled}]
    BY <1>0, <2>1, <2>2
  <2> QED BY <1>2, <2>3, <2>4 DEF TypeOK, PollRecord
<1>3. CASE PollError(p)
  <2>1. todo' \in [Pod -> SUBSET [key : Key, tx : Payment]]
    BY <1>0, <1>3 DEF PollError
  <2> QED BY <1>3, <2>1 DEF TypeOK, PollError
<1>4. CASE WriteReconciled(p)
  <2>1. polled[p] \in Polled
    BY <1>0, <1>4 DEF WriteReconciled, NothingPolled
  <2>2. /\ polled[p].key \in Key /\ polled[p].tx \in Payment
        /\ polled[p].tx \in Tx /\ NoResp \in Response
        /\ "none" \in Reason /\ "transaction_failed" \in Reason
    BY <2>1, DataTypes DEF Tx, Reason
  <2>3. db' \in [Key -> Record] /\ mem' \in [Pod -> [Key -> Record]]
    <3>1. CASE polled[p].status = "SUCCESS"
      BY <1>4, <2>2, <3>1, WriteType DEF WriteReconciled, SettleAndEnqueue
    <3>2. CASE polled[p].status = "FAILED"
      BY <1>4, <2>2, <3>2, WriteType DEF WriteReconciled, UpdateState
    <3> QED BY <1>4, <3>1, <3>2 DEF WriteReconciled
  <2>4. outbox' \subseteq [key : Key, tx : Payment] /\ replica' = replica
    BY <1>0, <1>4, <2>2 DEF WriteReconciled, SettleAndEnqueue, UpdateState
  <2>5. polled' \in [Pod -> Polled \cup {NothingPolled}]
    BY <1>0, <1>4 DEF WriteReconciled
  <2> QED BY <1>4, <2>3, <2>4, <2>5 DEF TypeOK, WriteReconciled
<1> QED BY <1>1, <1>2, <1>3, <1>4 DEF Sweep

\* Ledger steps and faults keep the types.
LEMMA EnvironmentType ==
    ASSUME TypeOK,
           \/ \E r \in Request : Chain(r) \/ LoseLock(r)
           \/ \E p \in Pod : Crash(p) \/ Degrade(p, "store") \/ Degrade(p, "idem")
           \/ Replicate
    PROVE  TypeOK'
<1>0. faults \in [degrade : Nat, crash : Nat, lock : Nat]
  BY DEF TypeOK
<1>1. CASE \E r \in Request : Chain(r)
  <2>1. PICK r \in Request : Chain(r)
    BY <1>1
  <2>2. PayOf(r) \in Payment
    BY InputTypes
  <2>3. /\ sub \in [Request -> {"no", "pending", "landed", "rejected", "expired"}]
        /\ ledger \subseteq Payment
    BY DEF TypeOK
  <2>4. /\ sub' \in [Request -> {"no", "pending", "landed", "rejected", "expired"}]
        /\ ledger' \subseteq Payment
    BY <2>1, <2>2, <2>3 DEF Chain, Include, Drop
  <2> QED BY <2>1, <2>4 DEF TypeOK, Chain, Include, Drop
<1>2. CASE \E r \in Request : LoseLock(r)
  <2>1. PICK r \in Request : LoseLock(r)
    BY <1>2
  <2>2. PayOf(r) \in Payment
    BY InputTypes
  <2>3. faults' \in [degrade : Nat, crash : Nat, lock : Nat]
    BY <1>0, <2>1 DEF LoseLock
  <2>4. lock' \in [Guard -> [Payment -> Request \cup {"free"}]]
    BY <2>1, <2>2 DEF LoseLock, TypeOK, Guard
  <2> QED BY <2>1, <2>3, <2>4 DEF TypeOK, LoseLock
<1>3. CASE \E p \in Pod : Crash(p)
  <2>1. PICK p \in Pod : Crash(p)
    BY <1>3
  <2>2. NoRecord \in Record /\ NoRow \in IdemRow
    BY DataTypes
  <2>3. hpc' \in [Request -> HandlerStates] /\ wpc' \in [Request -> WorkerStates]
    BY <2>1 DEF TypeOK, Crash, HandlerStates, WorkerStates
  <2>4. /\ claim' \in [Request -> {"none", "db"} \cup Pod]
        /\ lock' \in [Guard -> [Payment -> Request \cup {"free"}]]
    BY <2>1 DEF TypeOK, Crash
  <2>5. /\ mem' \in [Pod -> [Key -> Record]]
        /\ imem' \in [Pod -> [IdemKey -> IdemRow]]
    BY <2>1, <2>2 DEF TypeOK, Crash
  <2>6. faults' \in [degrade : Nat, crash : Nat, lock : Nat]
    BY <1>0, <2>1 DEF Crash
  <2>7. /\ degraded' \in [Pod -> SUBSET {"store", "idem", "lock"}]
        /\ todo' \in [Pod -> SUBSET [key : Key, tx : Payment]]
    BY <2>1 DEF TypeOK, Crash
  <2>8. polled' \in [Pod -> [key : Key, tx : Payment,
                             status : {"SUCCESS", "FAILED"}]
                           \cup {NothingPolled}]
    BY <2>1 DEF TypeOK, Crash
  <2> QED BY <2>1, <2>3, <2>4, <2>5, <2>6, <2>7, <2>8 DEF TypeOK, Crash
<1>4. CASE \E p \in Pod : Degrade(p, "store") \/ Degrade(p, "idem")
  <2>1. PICK p \in Pod, store \in {"store", "idem"} : Degrade(p, store)
    BY <1>4
  <2>2. faults' \in [degrade : Nat, crash : Nat, lock : Nat]
    BY <1>0, <2>1 DEF Degrade
  <2>3. degraded' \in [Pod -> SUBSET {"store", "idem", "lock"}]
    BY <2>1 DEF Degrade, TypeOK
  <2> QED BY <2>1, <2>2, <2>3 DEF TypeOK, Degrade
<1>5. CASE Replicate
  BY <1>5 DEF TypeOK, Replicate
<1> QED BY <1>1, <1>2, <1>3, <1>4, <1>5

LEMMA InitType == Init => TypeOK
<1> SUFFICES ASSUME Init PROVE TypeOK
  OBVIOUS
<1>1. NoRecord \in Record /\ NoRow \in IdemRow /\ NoResp \in Response
  BY DataTypes
<1> QED BY <1>1 DEF Init, TypeOK, HandlerStates, WorkerStates, Reason

LEMMA NextType == TypeOK /\ [Next]_vars => TypeOK'
<1> SUFFICES ASSUME TypeOK, [Next]_vars PROVE TypeOK'
  OBVIOUS
<1>1. CASE UNCHANGED vars
  BY <1>1 DEF TypeOK, vars
<1>2. CASE Next
  BY <1>2, HandlerType, WorkerType, SweepType, EnvironmentType DEF Next
<1> QED BY <1>1, <1>2

\* The types of the settle path hold in every reachable state.
THEOREM TypeCorrect == Spec => []TypeOK
  BY InitType, NextType, PTL DEF Spec
=============================================================================
