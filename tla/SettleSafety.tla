---------------------------- MODULE SettleSafety ----------------------------
(* The safety theorems of Settle: success is only ever reported of executed *)
(* transactions, settled records are announced, and an idempotency key has  *)
(* one owner. Each rests on an inductive invariant stated in Settle.        *)
EXTENDS SettleProofs

USE DEF handlerVars, workerVars, storeVars, idemVars, chainVars, sweepVars

-----------------------------------------------------------------------------
(* Success means landed. *)

\* What is executed stays executed, and a request never changes what it asks.
LEMMA LedgerGrows == [Next]_vars => ledger \subseteq ledger' /\ input' = input
<1> SUFFICES ASSUME [Next]_vars PROVE ledger \subseteq ledger' /\ input' = input
  OBVIOUS
<1>1. CASE UNCHANGED vars
  BY <1>1 DEF vars
<1>2. ASSUME NEW r \in Request, Handler(r) PROVE ledger' = ledger /\ input' = input
  BY <1>2 DEF Handler, Arrive, Get, Save, BeginMemory, BeginSelect, BeginInsert,
              BeginPoll, Respond, Rethrow, Timeout, ReleaseClaim, RecordError
<1>3. ASSUME NEW r \in Request, Worker(r) PROVE ledger' = ledger /\ input' = input
  BY <1>3 DEF Worker, AcquireLock, Take, LockTimeout, LockDegrade, SchemeRefuses, SchemeThrows,
              Submit, Confirm, GiveUp, StoreSettled, Notify, StoreFailed, Complete
<1>4. ASSUME NEW p \in Pod, Sweep(p) \/ Crash(p)
      PROVE  ledger' = ledger /\ input' = input
  BY <1>4 DEF Sweep, ListUnknown, PollRecord, PollError, WriteReconciled, Crash
<1>5. ASSUME NEW r \in Request, Chain(r) \/ LoseLock(r)
      PROVE  ledger \subseteq ledger' /\ input' = input
  BY <1>5 DEF Chain, Include, Drop, LoseLock
<1>6. ASSUME NEW p \in Pod, NEW s, Degrade(p, s)
      PROVE  ledger' = ledger /\ input' = input
  BY <1>6 DEF Degrade
<1>7. CASE Replicate
  BY <1>7 DEF Replicate
<1> QED BY <1>1, <1>2, <1>3, <1>4, <1>5, <1>6, <1>7 DEF Next

\* The parts of LandedInv a step leaves alone survive a growing ledger.
LEMMA RepliesFrame ==
    ASSUME RepliesGood, ledger \subseteq ledger', reply' = reply
    PROVE  RepliesGood'
  BY DEF RepliesGood, GoodResponse

LEMMA WorkersFrame ==
    ASSUME WorkersGood, ledger \subseteq ledger', input' = input,
           sub' = sub, wpc' = wpc, result' = result
    PROVE  WorkersGood'
  BY DEF WorkersGood, GoodResponse, PayOf

LEMMA RecordsFrame ==
    ASSUME RecordsGood, ledger \subseteq ledger', db' = db, replica' = replica,
           mem' = mem
    PROVE  RecordsGood'
  BY DEF RecordsGood, GoodRecord, GoodResponse

LEMMA IdemFrame ==
    ASSUME IdemGood, ledger \subseteq ledger', row' = row, imem' = imem
    PROVE  IdemGood'
  BY DEF IdemGood, GoodResponse

LEMMA SweepFrame ==
    ASSUME SweepGood, ledger \subseteq ledger', polled' = polled
    PROVE  SweepGood'
  BY DEF SweepGood

\* Only "ok" responses carry an obligation.
LEMMA OtherResponses ==
    ASSUME NEW kind, NEW tx, kind # "ok"
    PROVE  GoodResponse(Resp(kind, tx)) /\ GoodResponse(NoResp)
  BY DEF GoodResponse, Resp, NoResp

\* An applied event keeps a record good when the evidence it brings is good.
LEMMA GoodApplied ==
    ASSUME TypeOK, NEW rec \in Record, GoodRecord(rec),
           NEW state, NEW tx, NEW reason, NEW response, GoodResponse(response),
           state = "settled" => tx \in ledger
    PROVE  GoodRecord(Applied(rec, state, tx, reason, response))
  BY ConstantsAssumption DEF TypeOK, GoodRecord, GoodResponse, Applied, Record

\* A good record replays a good answer.
LEMMA GoodReplay ==
    ASSUME NEW rec \in Record, GoodRecord(rec)
    PROVE  GoodResponse(ReplayOf(rec))
  BY DEF GoodRecord, GoodResponse, ReplayOf, Resp, NoResp, Record

\* Whichever table a pod reads, the record is good.
LEMMA GoodView ==
    ASSUME TypeOK, RecordsGood, NEW p \in Pod, NEW k \in Key
    PROVE  View(p)[k] \in Record /\ GoodRecord(View(p)[k])
<1>1. View(p)[k] \in Record
  BY ViewType
<1>2. View(p)[k] \in {mem[p][k], replica[k], db[k]}
  BY DEF View
<1> QED BY <1>1, <1>2 DEF RecordsGood

\* A write with good evidence keeps every table good.
LEMMA GoodWrite ==
    ASSUME TypeOK, RecordsGood, NEW p \in Pod, NEW k \in Key,
           NEW state, NEW tx, NEW reason, NEW response,
           WriteRecord(p, k, state, tx, reason, response),
           GoodResponse(response), state = "settled" => tx \in ledger,
           replica' = replica, ledger' = ledger
    PROVE  RecordsGood'
<1> DEFINE A(rec) == Applied(rec, state, tx, reason, response)
<1>1. db \in [Key -> Record] /\ mem \in [Pod -> [Key -> Record]]
  BY DEF TypeOK
<1>2. GoodRecord(A(db[k])) /\ GoodRecord(A(mem[p][k]))
  BY <1>1, GoodApplied DEF RecordsGood
<1>3. db' = db \/ db' = [db EXCEPT ![k] = A(db[k])]
  BY DEF WriteRecord
<1>4. mem' = mem \/ mem' = [mem EXCEPT ![p][k] = A(mem[p][k])]
  BY DEF WriteRecord
<1> HIDE DEF A
<1>5. ASSUME NEW j \in Key PROVE GoodRecord(db'[j])
  <2>1. db'[j] = db[j] \/ (db'[j] = A(db[k]))
    BY <1>1, <1>3
  <2> QED BY <1>2, <2>1 DEF RecordsGood
<1>6. ASSUME NEW j \in Key, NEW q \in Pod PROVE GoodRecord(mem'[q][j])
  <2>1. mem'[q][j] = mem[q][j] \/ mem'[q][j] = A(mem[p][k])
    BY <1>1, <1>4
  <2> QED BY <1>2, <2>1 DEF RecordsGood
<1> QED BY <1>5, <1>6 DEF RecordsGood, GoodRecord, GoodResponse

\* Completing or releasing a claim keeps the idempotency tables good.
LEMMA GoodIdem ==
    ASSUME TypeOK, IdemGood, NEW p \in Pod, NEW i \in IdemKey,
           NEW resp, GoodResponse(resp),
           CompleteIdem(p, i, resp) \/ FailIdem(p, i),
           ledger' = ledger
    PROVE  IdemGood'
<1>1. row \in [IdemKey -> IdemRow] /\ imem \in [Pod -> [IdemKey -> IdemRow]]
  BY DEF TypeOK
<1>2. \/ imem' = imem
      \/ imem' = [imem EXCEPT ![p][i] = Completed(resp)]
      \/ imem' = [imem EXCEPT ![p][i] = NoRow]
  BY DEF CompleteIdem, FailIdem
<1>3. \/ row' = row
      \/ row' = [row EXCEPT ![i] = Completed(resp)]
      \/ row' = [row EXCEPT ![i] = NoRow]
  BY DEF CompleteIdem, FailIdem
<1>4. GoodResponse(Completed(resp).response) /\ GoodResponse(NoRow.response)
  BY DEF Completed, NoRow, NoResp, Resp, GoodResponse
<1>5. ASSUME NEW j \in IdemKey PROVE GoodResponse(row'[j].response)
  <2>1. row'[j] = row[j] \/ row'[j] = Completed(resp) \/ row'[j] = NoRow
    BY <1>1, <1>3
  <2> QED BY <1>4, <2>1 DEF IdemGood
<1>6. ASSUME NEW j \in IdemKey, NEW q \in Pod
      PROVE  GoodResponse(imem'[q][j].response)
  <2>1. \/ imem'[q][j] = imem[q][j] \/ imem'[q][j] = Completed(resp)
        \/ imem'[q][j] = NoRow
    BY <1>1, <1>2
  <2> QED BY <1>4, <2>1 DEF IdemGood
<1> QED BY <1>5, <1>6 DEF IdemGood, GoodResponse

\* A good answer keeps the replies good.
LEMMA GoodAnswer ==
    ASSUME TypeOK, RepliesGood, ledger' = ledger, NEW r \in Request, NEW resp,
           GoodResponse(resp), reply' = [reply EXCEPT ![r] = resp]
    PROVE  RepliesGood'
<1>1. reply \in [Request -> Response]
  BY DEF TypeOK
<1> QED BY <1>1 DEF RepliesGood, GoodResponse

\* A worker may move on without evidence, except to "settled".
LEMMA GoodWork ==
    ASSUME TypeOK, WorkersGood, ledger' = ledger, input' = input, sub' = sub,
           result' = result, NEW r \in Request, NEW label, label # "settled",
           wpc' = [wpc EXCEPT ![r] = label]
    PROVE  WorkersGood'
<1>1. wpc \in [Request -> WorkerStates]
  BY DEF TypeOK
<1> QED BY <1>1 DEF WorkersGood, GoodResponse, PayOf

\* Every step of a handler keeps the evidence good.
LEMMA HandlerLanded ==
    ASSUME TypeOK, LandedInv, NEW r \in Request, Handler(r)
    PROVE  LandedInv'
<1>0. /\ RepliesGood /\ WorkersGood /\ RecordsGood /\ IdemGood /\ SweepGood
      /\ ledger \subseteq ledger' /\ ledger' = ledger /\ input' = input
  <2>1. ledger' = ledger /\ input' = input
    BY DEF Handler, Arrive, Get, Save, BeginMemory, BeginSelect, BeginInsert,
           BeginPoll, Respond, Rethrow, Timeout, ReleaseClaim, RecordError
  <2> QED BY <2>1 DEF LandedInv
<1>1. KeyOf(r) \in Key /\ IdemOf(r) \in IdemKey /\ PodOf(r) \in Pod
  BY InputTypes
<1>2. /\ GoodResponse(NoResp)
      /\ \A kind \in {"limited", "conflict", "error", "unknown", "fail"} :
            \A tx : GoodResponse(Resp(kind, tx))
  BY OtherResponses
<1>3. /\ GoodResponse(row[IdemOf(r)].response)
      /\ GoodResponse(imem[PodOf(r)][IdemOf(r)].response)
      /\ GoodResponse(result[r])
  BY <1>0, <1>1 DEF IdemGood, WorkersGood
<1>4. CASE Arrive(r)
  <2>1. RepliesGood'
    BY <1>0, <1>2, <1>4, GoodAnswer, RepliesFrame DEF Arrive, Answer
  <2> QED BY <1>0, <1>4, <2>1, WorkersFrame, RecordsFrame, IdemFrame, SweepFrame
          DEF Arrive, LandedInv
<1>5. CASE Get(r)
  <2>1. GoodResponse(ReplayOf(View(PodOf(r))[KeyOf(r)]))
    BY <1>0, <1>1, GoodView, GoodReplay
  <2>2. RepliesGood'
    BY <1>0, <1>5, <2>1, GoodAnswer, RepliesFrame DEF Get, Answer
  <2> QED BY <1>0, <1>5, <2>2, WorkersFrame, RecordsFrame, IdemFrame, SweepFrame
          DEF Get, LandedInv
<1>6. CASE Save(r)
  <2>1. /\ db \in [Key -> Record] /\ mem \in [Pod -> [Key -> Record]]
        /\ replica' = replica
    BY <1>6 DEF TypeOK, Save, SaveRecord
  <2>2. GoodRecord(Initiated)
    BY <1>2 DEF GoodRecord, Initiated
  <2>3. ASSUME NEW k \in Key PROVE GoodRecord(db'[k])
    <3>1. db'[k] = db[k] \/ db'[k] = Initiated
      BY <1>6, <2>1 DEF Save, SaveRecord
    <3> QED BY <1>0, <2>2, <3>1 DEF RecordsGood
  <2>4. ASSUME NEW k \in Key, NEW p \in Pod PROVE GoodRecord(mem'[p][k])
    <3>1. mem'[p][k] = mem[p][k] \/ mem'[p][k] = Initiated
      BY <1>6, <2>1 DEF Save, SaveRecord
    <3> QED BY <1>0, <2>2, <3>1 DEF RecordsGood
  <2>5. RecordsGood'
    BY <1>0, <2>1, <2>3, <2>4 DEF RecordsGood, GoodRecord, GoodResponse
  <2> QED BY <1>0, <1>6, <2>5, RepliesFrame, WorkersFrame, IdemFrame, SweepFrame
          DEF Save, LandedInv
<1>7. CASE BeginMemory(r)
  <2>1. RepliesGood'
    BY <1>0, <1>2, <1>3, <1>7, GoodAnswer, RepliesFrame
       DEF BeginMemory, Answer, Owned
  <2>2. WorkersGood'
    <3>1. \/ wpc' = wpc
          \/ \E label \in {"lock", "mutex", "build"} : wpc' = [wpc EXCEPT ![r] = label]
      BY <1>7 DEF BeginMemory, Owned, NotOwned
    <3>2. sub' = sub /\ result' = result
      BY <1>7 DEF BeginMemory
    <3> QED BY <1>0, <3>1, <3>2, GoodWork, WorkersFrame
  <2>3. IdemGood'
    <3>1. /\ row' = row
          /\ imem' = imem \/ imem' = [imem EXCEPT ![PodOf(r)][IdemOf(r)] = Claimed]
      BY <1>7 DEF BeginMemory, NotOwned
    <3>2. imem \in [Pod -> [IdemKey -> IdemRow]]
      BY DEF TypeOK
    <3>3. ASSUME NEW i \in IdemKey, NEW p \in Pod
          PROVE  GoodResponse(imem'[p][i].response)
      <4>1. imem'[p][i] = imem[p][i] \/ imem'[p][i] = Claimed
        BY <3>1, <3>2
      <4> QED BY <1>0, <1>2, <4>1 DEF IdemGood, Claimed
    <3> QED BY <1>0, <3>1, <3>3 DEF IdemGood, GoodResponse
  <2> QED BY <1>0, <1>7, <2>1, <2>2, <2>3, RecordsFrame, SweepFrame
          DEF BeginMemory, LandedInv
<1>8. CASE BeginSelect(r)
  <2>1. RepliesGood'
    BY <1>0, <1>2, <1>3, <1>8, GoodAnswer, RepliesFrame DEF BeginSelect, Answer
  <2> QED BY <1>0, <1>8, <2>1, WorkersFrame, RecordsFrame, IdemFrame, SweepFrame
          DEF BeginSelect, LandedInv
<1>9. CASE BeginInsert(r)
  <2>1. RepliesGood'
    BY <1>0, <1>9, RepliesFrame DEF BeginInsert, Owned
  <2>2. WorkersGood'
    <3>1. \/ wpc' = wpc
          \/ \E label \in {"lock", "mutex", "build"} : wpc' = [wpc EXCEPT ![r] = label]
      BY <1>9 DEF BeginInsert, Owned, NotOwned
    <3>2. sub' = sub /\ result' = result
      BY <1>9 DEF BeginInsert
    <3> QED BY <1>0, <3>1, <3>2, GoodWork, WorkersFrame
  <2>3. IdemGood'
    <3>1. /\ imem' = imem
          /\ row' = row \/ row' = [row EXCEPT ![IdemOf(r)] = Claimed]
      BY <1>9 DEF BeginInsert, NotOwned
    <3>2. row \in [IdemKey -> IdemRow]
      BY DEF TypeOK
    <3>3. ASSUME NEW i \in IdemKey PROVE GoodResponse(row'[i].response)
      <4>1. row'[i] = row[i] \/ row'[i] = Claimed
        BY <3>1, <3>2
      <4> QED BY <1>0, <1>2, <4>1 DEF IdemGood, Claimed
    <3> QED BY <1>0, <3>1, <3>3 DEF IdemGood, GoodResponse
  <2> QED BY <1>0, <1>9, <2>1, <2>2, <2>3, RecordsFrame, SweepFrame
          DEF BeginInsert, LandedInv
<1>10. CASE BeginPoll(r)
  <2>1. RepliesGood'
    BY <1>0, <1>2, <1>3, <1>10, GoodAnswer DEF BeginPoll, Answer
  <2> QED BY <1>0, <1>10, <2>1, WorkersFrame, RecordsFrame, IdemFrame, SweepFrame
          DEF BeginPoll, LandedInv
<1>11. CASE Respond(r)
  <2>1. RepliesGood'
    BY <1>0, <1>3, <1>11, GoodAnswer DEF Respond, Answer
  <2> QED BY <1>0, <1>11, <2>1, WorkersFrame, RecordsFrame, IdemFrame, SweepFrame
          DEF Respond, LandedInv
<1>12. CASE Rethrow(r) \/ Timeout(r)
  BY <1>0, <1>12, RepliesFrame, WorkersFrame, RecordsFrame, IdemFrame, SweepFrame
     DEF Rethrow, Timeout, LandedInv
<1>13. CASE ReleaseClaim(r)
  <2>1. IdemGood'
    BY <1>0, <1>1, <1>2, <1>13, GoodIdem, IdemFrame DEF ReleaseClaim
  <2> QED BY <1>0, <1>13, <2>1, RepliesFrame, WorkersFrame, RecordsFrame, SweepFrame
          DEF ReleaseClaim, LandedInv
<1>14. CASE RecordError(r)
  <2>1. RepliesGood'
    BY <1>0, <1>2, <1>14, GoodAnswer DEF RecordError, Answer
  <2>2. RecordsGood'
    BY <1>0, <1>1, <1>2, <1>14, GoodWrite DEF RecordError, UpdateState
  <2> QED BY <1>0, <1>14, <2>1, <2>2, WorkersFrame, IdemFrame, SweepFrame
          DEF RecordError, LandedInv
<1> QED BY <1>4, <1>5, <1>6, <1>7, <1>8, <1>9, <1>10, <1>11, <1>12, <1>13,
           <1>14 DEF Handler

\* Every step of a worker keeps the evidence good.
LEMMA WorkerLanded ==
    ASSUME TypeOK, LandedInv, NEW r \in Request, Worker(r)
    PROVE  LandedInv'
<1>0. /\ RepliesGood /\ WorkersGood /\ RecordsGood /\ IdemGood /\ SweepGood
      /\ ledger \subseteq ledger' /\ ledger' = ledger /\ input' = input
  <2>1. ledger' = ledger /\ input' = input
    BY DEF Worker, AcquireLock, Take, LockTimeout, LockDegrade, SchemeRefuses, SchemeThrows,
           Submit, Confirm, GiveUp, StoreSettled, Notify, StoreFailed, Complete
  <2> QED BY <2>1 DEF LandedInv
<1>1. /\ KeyOf(r) \in Key /\ IdemOf(r) \in IdemKey /\ PodOf(r) \in Pod
      /\ wpc \in [Request -> WorkerStates] /\ result \in [Request -> Response]
      /\ sub \in [Request -> {"no", "pending", "landed", "rejected", "expired"}]
  BY InputTypes DEF TypeOK
<1>2. GoodResponse(result[r])
  BY <1>0 DEF WorkersGood
<1>3. CASE AcquireLock(r) \/ LockTimeout(r) \/ LockDegrade(r) \/ SchemeThrows(r) \/ Notify(r)
  <2>1. PICK label \in {"build", "threw", "mutex", "complete"} : Work(r, label)
    BY <1>3 DEF AcquireLock, Take, LockTimeout, LockDegrade, SchemeThrows, Notify
  <2>2. /\ sub' = sub /\ result' = result /\ reply' = reply /\ db' = db
        /\ replica' = replica /\ mem' = mem /\ row' = row /\ imem' = imem
        /\ polled' = polled
    BY <1>3 DEF AcquireLock, LockTimeout, LockDegrade, SchemeThrows, Notify
  <2>3. WorkersGood'
    BY <1>0, <2>1, <2>2, GoodWork DEF Work
  <2> QED BY <1>0, <2>2, <2>3, RepliesFrame, RecordsFrame, IdemFrame, SweepFrame
          DEF LandedInv
<1>4. CASE SchemeRefuses(r) \/ GiveUp(r)
  <2>1. PICK tx : result' = [result EXCEPT ![r] = Resp("fail", tx)]
    BY <1>4 DEF SchemeRefuses, GiveUp
  <2>2. /\ wpc' = [wpc EXCEPT ![r] = "failed"]
        /\ sub' = sub /\ reply' = reply /\ db' = db /\ replica' = replica
        /\ mem' = mem /\ row' = row /\ imem' = imem /\ polled' = polled
    BY <1>4 DEF SchemeRefuses, GiveUp, Work
  <2>3. WorkersGood'
    BY <1>0, <1>1, <2>1, <2>2 DEF WorkersGood, GoodResponse, Resp, PayOf
  <2> QED BY <1>0, <2>2, <2>3, RepliesFrame, RecordsFrame, IdemFrame, SweepFrame
          DEF LandedInv
<1>5. CASE Submit(r)
  <2>1. WorkersGood'
    BY <1>0, <1>1, <1>5 DEF Submit, Work, WorkersGood, GoodResponse, PayOf
  <2> QED BY <1>0, <1>5, <2>1, RepliesFrame, RecordsFrame, IdemFrame, SweepFrame
          DEF Submit, LandedInv
<1>6. CASE Confirm(r)
  \* The only place a worker gains evidence: its own transaction has landed.
  <2>1. PayOf(r) \in ledger
    BY <1>0, <1>6 DEF Confirm, WorkersGood
  <2>2. WorkersGood'
    BY <1>0, <1>1, <1>6, <2>1
       DEF Confirm, Work, WorkersGood, GoodResponse, Resp, PayOf
  <2> QED BY <1>0, <1>6, <2>2, RepliesFrame, RecordsFrame, IdemFrame, SweepFrame
          DEF Confirm, LandedInv
<1>7. CASE StoreSettled(r)
  <2>1. PayOf(r) \in ledger
    BY <1>0, <1>7 DEF StoreSettled, WorkersGood
  <2>2. RecordsGood'
    BY <1>0, <1>1, <1>2, <1>7, <2>1, GoodWrite DEF StoreSettled, SettleAndEnqueue
  <2>3. WorkersGood'
    BY <1>0, <1>7, GoodWork DEF StoreSettled, Work
  <2> QED BY <1>0, <1>7, <2>2, <2>3, RepliesFrame, IdemFrame, SweepFrame
          DEF StoreSettled, LandedInv
<1>8. CASE StoreFailed(r)
  <2>1. RecordsGood'
    BY <1>0, <1>1, <1>2, <1>8, GoodWrite DEF StoreFailed, UpdateState
  <2>2. WorkersGood'
    BY <1>0, <1>8, GoodWork DEF StoreFailed, Work
  <2> QED BY <1>0, <1>8, <2>1, <2>2, RepliesFrame, IdemFrame, SweepFrame
          DEF StoreFailed, LandedInv
<1>9. CASE Complete(r)
  <2>1. IdemGood'
    BY <1>0, <1>1, <1>2, <1>9, GoodIdem DEF Complete
  <2>2. WorkersGood'
    BY <1>0, <1>9, GoodWork DEF Complete, Work
  <2> QED BY <1>0, <1>9, <2>1, <2>2, RepliesFrame, RecordsFrame, SweepFrame
          DEF Complete, LandedInv
<1> QED BY <1>3, <1>4, <1>5, <1>6, <1>7, <1>8, <1>9 DEF Worker

\* Every step of the sweep keeps the evidence good.
LEMMA SweepLanded ==
    ASSUME TypeOK, LandedInv, NEW p \in Pod, Sweep(p)
    PROVE  LandedInv'
<1>0. /\ RepliesGood /\ WorkersGood /\ RecordsGood /\ IdemGood /\ SweepGood
      /\ ledger \subseteq ledger' /\ ledger' = ledger /\ input' = input
  <2>1. ledger' = ledger /\ input' = input
    BY DEF Sweep, ListUnknown, PollRecord, PollError, WriteReconciled
  <2> QED BY <2>1 DEF LandedInv
<1>1. polled \in [Pod -> [key : Key, tx : Payment, status : {"SUCCESS", "FAILED"}]
                         \cup {NothingPolled}]
  BY DEF TypeOK
<1>2. NothingPolled.status = "none"
  BY DEF NothingPolled
<1>3. CASE ListUnknown(p) \/ PollError(p)
  BY <1>0, <1>3, RepliesFrame, WorkersFrame, RecordsFrame, IdemFrame, SweepFrame
     DEF ListUnknown, PollError, LandedInv
<1>4. CASE PollRecord(p)
  \* The only place the sweep gains evidence: the RPC said SUCCESS.
  <2>1. PICK u \in todo[p] :
          polled' = [polled EXCEPT ![p] =
                IF GetTransaction(u.tx) \in {"SUCCESS", "FAILED"}
                THEN [key |-> u.key, tx |-> u.tx,
                      status |-> GetTransaction(u.tx)]
                ELSE NothingPolled]
    BY <1>4 DEF PollRecord
  <2>2. GetTransaction(u.tx) = "SUCCESS" => u.tx \in ledger
    BY DEF GetTransaction
  <2>3. SweepGood'
    BY <1>0, <1>1, <1>2, <2>1, <2>2 DEF SweepGood
  <2> QED BY <1>0, <1>4, <2>3, RepliesFrame, WorkersFrame, RecordsFrame, IdemFrame
          DEF PollRecord, LandedInv
<1>5. CASE WriteReconciled(p)
  <2>1. polled[p].status = "SUCCESS" => polled[p].tx \in ledger
    BY <1>0 DEF SweepGood
  <2>2. polled[p].key \in Key
    BY <1>1, <1>2, <1>5 DEF WriteReconciled
  <2>3. GoodResponse(NoResp)
    BY OtherResponses
  <2>4. RecordsGood'
    <3>1. CASE polled[p].status = "SUCCESS"
      BY <1>0, <1>5, <2>1, <2>2, <2>3, <3>1, GoodWrite
         DEF WriteReconciled, SettleAndEnqueue
    <3>2. CASE polled[p].status = "FAILED"
      BY <1>0, <1>5, <2>2, <2>3, <3>2, GoodWrite DEF WriteReconciled, UpdateState
    <3> QED BY <1>5, <3>1, <3>2 DEF WriteReconciled
  <2>5. SweepGood'
    BY <1>0, <1>1, <1>2, <1>5 DEF WriteReconciled, SweepGood
  <2> QED BY <1>0, <1>5, <2>4, <2>5, RepliesFrame, WorkersFrame, IdemFrame
          DEF WriteReconciled, LandedInv
<1> QED BY <1>3, <1>4, <1>5 DEF Sweep

\* Ledger steps and faults keep the evidence good.
LEMMA EnvironmentLanded ==
    ASSUME TypeOK, LandedInv, [Next]_vars,
           \/ \E r \in Request : Chain(r) \/ LoseLock(r)
           \/ \E p \in Pod : Crash(p) \/ Degrade(p, "store") \/ Degrade(p, "idem")
           \/ Replicate
    PROVE  LandedInv'
<1>0. /\ RepliesGood /\ WorkersGood /\ RecordsGood /\ IdemGood /\ SweepGood
      /\ ledger \subseteq ledger' /\ input' = input
  BY LedgerGrows DEF LandedInv
<1>1. CASE \E r \in Request : Chain(r)
  <2>1. PICK r \in Request : Chain(r)
    BY <1>1
  <2>2. sub \in [Request -> {"no", "pending", "landed", "rejected", "expired"}]
    BY DEF TypeOK
  <2>3. wpc' = wpc /\ result' = result
    BY <2>1 DEF Chain, Include, Drop
  <2>4. \A q \in Request : sub'[q] = "landed" => sub[q] = "landed" \/ PayOf(q) \in ledger'
    BY <2>1, <2>2 DEF Chain, Include, Drop
  <2>5. WorkersGood'
    BY <1>0, <2>3, <2>4 DEF WorkersGood, GoodResponse, PayOf
  <2> QED BY <1>0, <2>1, <2>5, RepliesFrame, RecordsFrame, IdemFrame, SweepFrame
          DEF Chain, Include, Drop, LandedInv
<1>2. CASE \/ \E r \in Request : LoseLock(r)
           \/ \E p \in Pod : Degrade(p, "store") \/ Degrade(p, "idem")
  <2>1. /\ reply' = reply /\ sub' = sub /\ wpc' = wpc /\ result' = result
        /\ db' = db /\ replica' = replica /\ mem' = mem /\ row' = row
        /\ imem' = imem /\ polled' = polled
    BY <1>2 DEF LoseLock, Degrade
  <2> QED BY <1>0, <2>1, RepliesFrame, WorkersFrame, RecordsFrame, IdemFrame,
             SweepFrame DEF LandedInv
<1>3. CASE \E p \in Pod : Crash(p)
  <2>1. PICK p \in Pod : Crash(p)
    BY <1>3
  <2>2. /\ reply' = reply /\ sub' = sub /\ result' = result /\ db' = db
        /\ replica' = replica /\ row' = row
    BY <2>1 DEF Crash
  <2>3. GoodRecord(NoRecord) /\ GoodResponse(NoRow.response)
    BY OtherResponses DEF GoodRecord, NoRecord, NoRow, NoResp, Resp, GoodResponse
  <2>4. ASSUME NEW q \in Pod, NEW k \in Key PROVE GoodRecord(mem'[q][k])
    <3>1. mem'[q][k] = mem[q][k] \/ mem'[q][k] = NoRecord
      BY <2>1 DEF Crash, TypeOK
    <3> QED BY <1>0, <2>3, <3>1 DEF RecordsGood
  <2>5. ASSUME NEW q \in Pod, NEW i \in IdemKey
        PROVE  GoodResponse(imem'[q][i].response)
    <3>1. imem'[q][i] = imem[q][i] \/ imem'[q][i] = NoRow
      BY <2>1 DEF Crash, TypeOK
    <3> QED BY <1>0, <2>3, <3>1 DEF IdemGood
  <2>6. RecordsGood'
    BY <1>0, <2>2, <2>4 DEF RecordsGood, GoodRecord, GoodResponse
  <2>7. IdemGood'
    BY <1>0, <2>2, <2>5 DEF IdemGood, GoodResponse
  <2>8. WorkersGood'
    <3>1. \A q \in Request : wpc'[q] = wpc[q] \/ wpc'[q] = "off"
      BY <2>1 DEF Crash
    <3> QED BY <1>0, <2>2, <3>1 DEF WorkersGood, GoodResponse, PayOf
  <2>9. SweepGood'
    BY <1>0, <2>1 DEF Crash, TypeOK, SweepGood, NothingPolled
  <2> QED BY <1>0, <2>2, <2>6, <2>7, <2>8, <2>9, RepliesFrame DEF LandedInv
<1>4. CASE Replicate
  <2>1. RecordsGood'
    BY <1>0, <1>4 DEF Replicate, RecordsGood, GoodRecord, GoodResponse
  <2> QED BY <1>0, <1>4, <2>1, RepliesFrame, WorkersFrame, IdemFrame, SweepFrame
          DEF Replicate, LandedInv
<1> QED BY <1>1, <1>2, <1>3, <1>4

LEMMA InitLanded == Init => LandedInv
<1> SUFFICES ASSUME Init PROVE LandedInv
  OBVIOUS
<1>1. RepliesGood /\ WorkersGood
  BY DEF Init, RepliesGood, WorkersGood, GoodResponse, NoResp, Resp
<1>2. RecordsGood
  BY DEF Init, RecordsGood, GoodRecord, GoodResponse, NoRecord, NoResp, Resp
<1>3. IdemGood /\ SweepGood
  BY DEF Init, IdemGood, SweepGood, GoodResponse, NoRow, NoResp, Resp, NothingPolled
<1> QED BY <1>1, <1>2, <1>3 DEF LandedInv

LEMMA NextLanded == TypeOK /\ LandedInv /\ [Next]_vars => LandedInv'
<1> SUFFICES ASSUME TypeOK, LandedInv, [Next]_vars PROVE LandedInv'
  OBVIOUS
<1>1. CASE UNCHANGED vars
  <2>1. /\ RepliesGood /\ WorkersGood /\ RecordsGood /\ IdemGood /\ SweepGood
        /\ ledger \subseteq ledger'
    BY <1>1 DEF LandedInv, vars
  <2> QED BY <1>1, <2>1, RepliesFrame, WorkersFrame, RecordsFrame, IdemFrame,
             SweepFrame DEF LandedInv, vars
<1>2. CASE Next
  BY <1>2, HandlerLanded, WorkerLanded, SweepLanded, EnvironmentLanded DEF Next
<1> QED BY <1>1, <1>2

THEOREM LandedCorrect == Spec => []LandedInv
  BY TypeCorrect, InitLanded, NextLanded, PTL DEF Spec

\* No client is told "success" of a transaction the chain has not executed,
\* whatever number of requests, pods, crashes and degraded stores.
THEOREM SuccessMeansLandedTheorem == Spec => []SuccessMeansLanded
<1>1. LandedInv => SuccessMeansLanded
  BY DEF LandedInv, RepliesGood, GoodResponse, SuccessMeansLanded
<1> QED BY <1>1, LandedCorrect, PTL

\* No record of any table or pod memory is 'settled' for a transaction the
\* chain has not executed.
THEOREM SettledMeansLandedTheorem == Spec => []SettledMeansLanded
<1>1. LandedInv => SettledMeansLanded
  BY DEF LandedInv, RecordsGood, GoodRecord, SettledMeansLanded
<1> QED BY <1>1, LandedCorrect, PTL

-----------------------------------------------------------------------------
(* Settled means notified. *)

\* A write that does not settle leaves the settled records it does not touch.
LEMMA UpdateNotified ==
    ASSUME TypeOK, SettledNotified, NEW p \in Pod, NEW k \in Key, NEW state,
           NEW tx, NEW reason, NEW response, state # "settled",
           UpdateState(p, k, state, tx, reason, response)
    PROVE  SettledNotified'
<1>1. db \in [Key -> Record] /\ outbox' = outbox
  BY DEF TypeOK, UpdateState
<1>2. \/ db' = db
      \/ db' = [db EXCEPT ![k] = Applied(db[k], state, tx, reason, response)]
  BY DEF UpdateState, WriteRecord
<1>3. Applied(db[k], state, tx, reason, response).state # "settled"
         \/ Applied(db[k], state, tx, reason, response) = db[k]
  BY DEF Applied
<1> QED BY <1>1, <1>2, <1>3 DEF SettledNotified

\* A write that settles a durable record enqueues its notification with it.
LEMMA EnqueueNotified ==
    ASSUME TypeOK, SettledNotified, NEW p \in Pod, NEW k \in Key,
           NEW tx \in Payment, NEW response, SettleAndEnqueue(p, k, tx, response)
    PROVE  SettledNotified'
<1> DEFINE new == Applied(db[k], "settled", tx, "none", response)
<1>1. db \in [Key -> Record]
  BY DEF TypeOK
<1>2. CASE ~StoreInMemory(p) /\ db[k].state # "absent"
  <2>1. /\ db' = [db EXCEPT ![k] = new]
        /\ outbox' = outbox \cup {[key |-> k, tx |-> tx]}
    BY <1>2 DEF SettleAndEnqueue, WriteRecord
  <2>2. new.tx = tx
    BY <1>2, ConstantsAssumption DEF Applied
  <2> HIDE DEF new
  <2> QED BY <1>1, <2>1, <2>2 DEF SettledNotified
<1>3. CASE StoreInMemory(p) \/ db[k].state = "absent"
  <2>1. outbox' = outbox
    BY <1>3 DEF SettleAndEnqueue
  <2>2. \/ db' = db
        \/ db' = [db EXCEPT ![k] = db[k]]
    BY <1>3 DEF SettleAndEnqueue, WriteRecord, Applied
  <2>3. \A j \in Key : db'[j] = db[j]
    BY <1>1, <2>2
  <2> QED BY <2>1, <2>3 DEF SettledNotified
<1> QED BY <1>2, <1>3

LEMMA NextNotified == TypeOK /\ SettledNotified /\ [Next]_vars => SettledNotified'
<1> SUFFICES ASSUME TypeOK, SettledNotified, [Next]_vars PROVE SettledNotified'
  OBVIOUS
<1>1. ASSUME db' = db, outbox' = outbox PROVE SettledNotified'
  BY <1>1 DEF SettledNotified
<1>2. CASE UNCHANGED vars
  BY <1>1, <1>2 DEF vars
<1>3. ASSUME NEW r \in Request, Handler(r) PROVE SettledNotified'
  <2>1. KeyOf(r) \in Key /\ PodOf(r) \in Pod
    BY InputTypes
  <2>2. CASE Save(r)
    <3>1. db \in [Key -> Record] /\ outbox' = outbox
      BY <2>2 DEF TypeOK, Save, SaveRecord
    <3>2. \A k \in Key : db'[k] = db[k] \/ db'[k] = Initiated
      BY <2>2, <3>1 DEF Save, SaveRecord
    <3> QED BY <3>1, <3>2 DEF SettledNotified, Initiated
  <2>3. CASE RecordError(r)
    BY <2>1, <2>3, UpdateNotified DEF RecordError
  <2>4. CASE ~Save(r) /\ ~RecordError(r)
    BY <1>1, <1>3, <2>4 DEF Handler, Arrive, Get, BeginMemory, BeginSelect,
       BeginInsert, BeginPoll, Respond, Rethrow, Timeout, ReleaseClaim
  <2> QED BY <2>2, <2>3, <2>4
<1>4. ASSUME NEW r \in Request, Worker(r) PROVE SettledNotified'
  <2>1. KeyOf(r) \in Key /\ PodOf(r) \in Pod /\ PayOf(r) \in Payment
    BY InputTypes
  <2>2. CASE StoreSettled(r)
    BY <2>1, <2>2, EnqueueNotified DEF StoreSettled
  <2>3. CASE StoreFailed(r)
    BY <2>1, <2>3, UpdateNotified DEF StoreFailed
  <2>4. CASE ~StoreSettled(r) /\ ~StoreFailed(r)
    BY <1>1, <1>4, <2>4 DEF Worker, AcquireLock, Take, LockTimeout, LockDegrade, SchemeRefuses,
       SchemeThrows, Submit, Confirm, GiveUp, Notify, Complete
  <2> QED BY <2>2, <2>3, <2>4
<1>5. ASSUME NEW p \in Pod, Sweep(p) PROVE SettledNotified'
  <2>1. CASE WriteReconciled(p)
    <3>1. polled[p] \in [key : Key, tx : Payment, status : {"SUCCESS", "FAILED"}]
      BY <2>1 DEF TypeOK, WriteReconciled, NothingPolled
    <3>2. polled[p].key \in Key /\ polled[p].tx \in Payment
      BY <3>1
    <3>3. CASE polled[p].status = "SUCCESS"
      BY <2>1, <3>2, <3>3, EnqueueNotified DEF WriteReconciled
    <3>4. CASE polled[p].status = "FAILED"
      BY <2>1, <3>2, <3>4, UpdateNotified DEF WriteReconciled
    <3> QED BY <2>1, <3>3, <3>4 DEF WriteReconciled
  <2>2. CASE ListUnknown(p) \/ PollRecord(p) \/ PollError(p)
    BY <1>1, <2>2 DEF ListUnknown, PollRecord, PollError
  <2> QED BY <1>5, <2>1, <2>2 DEF Sweep
<1>6. ASSUME NEW r \in Request, Chain(r) \/ LoseLock(r) PROVE SettledNotified'
  BY <1>1, <1>6 DEF Chain, Include, Drop, LoseLock
<1>7. ASSUME NEW p \in Pod, NEW s, Crash(p) \/ Degrade(p, s) PROVE SettledNotified'
  BY <1>1, <1>7 DEF Crash, Degrade
<1>8. CASE Replicate
  BY <1>1, <1>8 DEF Replicate
<1> QED BY <1>2, <1>3, <1>4, <1>5, <1>6, <1>7, <1>8 DEF Next

\* Every durable settled record has its outbox row: settleAndEnqueue is the one
\* way to 'settled', for the worker and for the sweep.
THEOREM SettledNotifiedTheorem == Spec => []SettledNotified
<1>1. Init => SettledNotified
  BY DEF Init, SettledNotified, NoRecord
<1> QED BY <1>1, TypeCorrect, NextNotified, PTL DEF Spec

-----------------------------------------------------------------------------
(* One owner per idempotency key. *)

\* The claims and the handlers that hold them survive a step that moves neither
\* and empties no row.
LEMMA ClaimFrame ==
    ASSUME ClaimInv, input' = input, claim' = claim, degraded' = degraded,
           \A r \in Request : \/ hpc'[r] = hpc[r]
                              \/ hpc'[r] \notin {"race", "release", "insert"}
                              \/ hpc[r] = "race" /\ hpc'[r] = "release"
                              \/ Postgres /\ hpc'[r] = "insert",
           \A i \in IdemKey : row[i].state # "absent" => row'[i].state # "absent",
           \A p \in Pod, i \in IdemKey :
              imem[p][i].state # "absent" => imem'[p][i].state # "absent",
           \A r \in Request : IdemOf(r) \in IdemKey /\ PodOf(r) \in Pod
    PROVE  ClaimInv'
<1>1. ClaimExclusive'
  BY DEF ClaimInv, ClaimExclusive, IdemOf
<1>2. ClaimBacked'
  BY DEF ClaimInv, ClaimBacked, IdemOf, PodOf, IdemInMemory
<1> QED BY <1>1, <1>2 DEF ClaimInv

\* Taking a row that was absent makes its taker the one owner.
LEMMA ClaimTaken ==
    ASSUME TypeOK, ClaimInv, NEW r \in Request, NEW table,
           \/ /\ Postgres /\ table = "db" /\ row[IdemOf(r)].state = "absent"
              /\ row' = [row EXCEPT ![IdemOf(r)] = Claimed] /\ imem' = imem
           \/ /\ table = PodOf(r) /\ IdemInMemory(PodOf(r))
              /\ imem[PodOf(r)][IdemOf(r)].state = "absent"
              /\ imem' = [imem EXCEPT ![PodOf(r)][IdemOf(r)] = Claimed]
              /\ row' = row,
           claim' = [claim EXCEPT ![r] = table],
           hpc' = [hpc EXCEPT ![r] = "race"],
           input' = input, degraded' = degraded
    PROVE  ClaimInv'
<1>1. /\ claim \in [Request -> {"none", "db"} \cup Pod]
      /\ hpc \in [Request -> HandlerStates]
      /\ row \in [IdemKey -> IdemRow] /\ imem \in [Pod -> [IdemKey -> IdemRow]]
  BY DEF TypeOK
<1>2. \A q \in Request : IdemOf(q) \in IdemKey /\ PodOf(q) \in Pod
  BY InputTypes
<1>3. Claimed.state # "absent"
  BY DEF Claimed
<1>4. /\ \A i \in IdemKey : row[i].state # "absent" => row'[i].state # "absent"
      /\ \A p \in Pod, i \in IdemKey :
            imem[p][i].state # "absent" => imem'[p][i].state # "absent"
  <2>1. \A i \in IdemKey : row'[i] \in {row[i], Claimed}
    BY <1>1, <1>2
  <2>2. \A p \in Pod, i \in IdemKey : imem'[p][i] \in {imem[p][i], Claimed}
    <3>1. \/ imem' = imem
          \/ imem' = [imem EXCEPT ![PodOf(r)][IdemOf(r)] = Claimed]
      OBVIOUS
    <3> QED BY <1>1, <1>2, <3>1
  <2> QED BY <1>3, <2>1, <2>2
<1>5. ClaimExclusive'
  <2>1. ASSUME NEW q \in Request, q # r, IdemOf(q) = IdemOf(r),
               table \in IF Postgres THEN {"db"} ELSE Pod
        PROVE  claim[q] # table
    <3>1. SUFFICES ASSUME claim[q] = table PROVE FALSE
      OBVIOUS
    <3>2. /\ claim[q] = "db" => row[IdemOf(q)].state # "absent"
          /\ claim[q] \in Pod => claim[q] = PodOf(q)
          /\ (claim[q] \in Pod /\ ~Postgres) =>
                imem[PodOf(q)][IdemOf(q)].state # "absent"
      BY DEF ClaimInv, ClaimBacked
    <3>3. CASE Postgres
      BY <1>2, <2>1, <3>1, <3>2, <3>3, ConstantsAssumption
    <3>4. CASE ~Postgres
      BY <1>2, <2>1, <3>1, <3>2, <3>4, ConstantsAssumption
    <3> QED BY <3>3, <3>4
  <2>2. ASSUME NEW q \in Request, q # r PROVE claim'[q] = claim[q]
    BY <1>1, <2>2
  <2>3. claim'[r] = table
    BY <1>1
  <2>4. ASSUME NEW q \in Request, NEW s \in Request, claim'[q] = claim'[s],
               IdemOf(q) = IdemOf(s),
               claim'[q] \in IF Postgres THEN {"db"} ELSE Pod
        PROVE  q = s
    BY <2>1, <2>2, <2>3, <2>4 DEF ClaimInv, ClaimExclusive
  <2> QED BY <2>4 DEF ClaimExclusive, IdemOf
<1>6. ASSUME NEW q \in Request
      PROVE  /\ claim'[q] = "db" => Postgres /\ row'[IdemOf(q)].state # "absent"
             /\ claim'[q] \in Pod => /\ claim'[q] = PodOf(q)
                                     /\ IdemInMemory(PodOf(q))
             /\ (claim'[q] \in Pod /\ ~Postgres) =>
                   imem'[PodOf(q)][IdemOf(q)].state # "absent"
             /\ hpc'[q] \in {"race", "release"} => claim'[q] # "none"
             /\ hpc'[q] = "insert" => Postgres
  <2>1. CASE q = r
    BY <1>1, <1>2, <1>3, <2>1, ConstantsAssumption
  <2>2. CASE q # r
    <3>1. claim'[q] = claim[q] /\ hpc'[q] = hpc[q]
      BY <1>1, <2>2
    <3> QED BY <1>2, <1>4, <3>1 DEF ClaimInv, ClaimBacked
  <2> QED BY <2>1, <2>2
<1>7. ClaimBacked'
  BY <1>6 DEF ClaimBacked, IdemOf, PodOf, IdemInMemory
<1> QED BY <1>5, <1>7 DEF ClaimInv

\* Every step of a handler keeps the claims exclusive.
LEMMA HandlerClaims ==
    ASSUME TypeOK, ClaimInv, NEW r \in Request, Handler(r)
    PROVE  ClaimInv'
<1>0. \A q \in Request : IdemOf(q) \in IdemKey /\ PodOf(q) \in Pod
  BY InputTypes
<1>1. /\ hpc \in [Request -> HandlerStates]
      /\ claim \in [Request -> {"none", "db"} \cup Pod]
      /\ row \in [IdemKey -> IdemRow] /\ imem \in [Pod -> [IdemKey -> IdemRow]]
  BY DEF TypeOK
<1>2. input' = input /\ degraded' = degraded
  BY DEF Handler, Arrive, Get, Save, BeginMemory, BeginSelect, BeginInsert,
         BeginPoll, Respond, Rethrow, Timeout, ReleaseClaim, RecordError
<1>3. CASE \/ Arrive(r) \/ Get(r) \/ Save(r) \/ BeginSelect(r) \/ BeginPoll(r)
           \/ Respond(r) \/ Rethrow(r) \/ Timeout(r) \/ RecordError(r)
  <2>1. claim' = claim /\ row' = row /\ imem' = imem
    BY <1>3 DEF Arrive, Get, Save, BeginSelect, BeginPoll, Respond, Rethrow,
                Timeout, RecordError
  <2>2. \E label : /\ hpc' = [hpc EXCEPT ![r] = label]
                   /\ \/ label \notin {"race", "release", "insert"}
                      \/ hpc[r] = "race" /\ label = "release"
                      \/ Postgres /\ label = "insert"
    <3>1. CASE Arrive(r) \/ Get(r) \/ Save(r)
      BY <3>1 DEF Arrive, Get, Save, Goto, Answer
    <3>2. CASE BeginSelect(r)
      BY <3>2 DEF BeginSelect, Goto, Answer, IdemInMemory
    <3>3. CASE BeginPoll(r) \/ Respond(r) \/ RecordError(r)
      BY <3>3 DEF BeginPoll, Respond, RecordError, Answer
    <3>4. CASE Rethrow(r) \/ Timeout(r)
      BY <3>4 DEF Rethrow, Timeout, Goto
    <3> QED BY <1>3, <3>1, <3>2, <3>3, <3>4
  <2>3. \A q \in Request : \/ hpc'[q] = hpc[q]
                           \/ hpc'[q] \notin {"race", "release", "insert"}
                           \/ hpc[q] = "race" /\ hpc'[q] = "release"
                           \/ Postgres /\ hpc'[q] = "insert"
    BY <1>1, <2>2
  <2> QED BY <1>0, <1>2, <2>1, <2>3, ClaimFrame
<1>4. CASE BeginMemory(r)
  <2>1. CASE imem[PodOf(r)][IdemOf(r)].state = "absent"
    <3>1. /\ claim' = [claim EXCEPT ![r] = PodOf(r)]
          /\ hpc' = [hpc EXCEPT ![r] = "race"]
          /\ imem' = [imem EXCEPT ![PodOf(r)][IdemOf(r)] = Claimed]
          /\ row' = row /\ IdemInMemory(PodOf(r))
      BY <1>4, <2>1 DEF BeginMemory, Owned, Goto
    <3> QED BY <1>2, <2>1, <3>1, ClaimTaken
  <2>2. CASE imem[PodOf(r)][IdemOf(r)].state # "absent"
    <3>1. /\ claim' = claim /\ row' = row /\ imem' = imem
          /\ hpc' = [hpc EXCEPT ![r] = "done"]
      BY <1>4, <2>2 DEF BeginMemory, NotOwned, Answer
    <3>2. \A q \in Request : hpc'[q] \in {hpc[q], "done"}
      BY <1>1, <3>1
    <3> QED BY <1>0, <1>2, <3>1, <3>2, ClaimFrame
  <2> QED BY <2>1, <2>2
<1>5. CASE BeginInsert(r)
  <2>1. CASE row[IdemOf(r)].state = "absent"
    <3>1. /\ claim' = [claim EXCEPT ![r] = "db"]
          /\ hpc' = [hpc EXCEPT ![r] = "race"]
          /\ row' = [row EXCEPT ![IdemOf(r)] = Claimed] /\ imem' = imem
      BY <1>5, <2>1 DEF BeginInsert, Owned, Goto
    <3>2. Postgres
      BY <1>5 DEF BeginInsert, ClaimInv, ClaimBacked
    <3> QED BY <1>2, <2>1, <3>1, <3>2, ClaimTaken
  <2>2. CASE row[IdemOf(r)].state # "absent"
    <3>1. /\ claim' = claim /\ row' = row /\ imem' = imem
          /\ hpc' = [hpc EXCEPT ![r] = "poll"]
      BY <1>5, <2>2 DEF BeginInsert, NotOwned, Goto
    <3>2. \A q \in Request : hpc'[q] \in {hpc[q], "poll"}
      BY <1>1, <3>1
    <3> QED BY <1>0, <1>2, <3>1, <3>2, ClaimFrame
  <2> QED BY <2>1, <2>2
<1>6. CASE ReleaseClaim(r)
  \* Only the owner deletes the row, and gives up its claim with it.
  <2>1. /\ hpc[r] = "release" /\ hpc' = [hpc EXCEPT ![r] = "record"]
        /\ claim[r] # "none"
    BY <1>6 DEF ReleaseClaim, Goto, ClaimInv, ClaimBacked
  <2>2. \A q \in Request : hpc'[q] \in {hpc[q], "record"}
    BY <1>1, <2>1
  <2>3. CASE err[r] = "submitted_outcome_unknown"
    BY <1>0, <1>2, <1>6, <2>2, <2>3, ClaimFrame DEF ReleaseClaim
  <2>4. CASE err[r] # "submitted_outcome_unknown"
    <3>1. /\ FailIdem(PodOf(r), IdemOf(r))
          /\ claim' = [claim EXCEPT ![r] = "none"]
      BY <1>6, <2>4 DEF ReleaseClaim
    <3>2. /\ claim'[r] = "none"
          /\ \A q \in Request : q # r => claim'[q] = claim[q]
      BY <1>1, <3>1
    <3>3. ClaimExclusive'
      <4>1. ASSUME NEW q \in Request, NEW s \in Request, claim'[q] = claim'[s],
                   IdemOf(q) = IdemOf(s),
                   claim'[q] \in IF Postgres THEN {"db"} ELSE Pod
            PROVE  q = s
        BY <3>2, <4>1, ConstantsAssumption DEF ClaimInv, ClaimExclusive
      <4> QED BY <1>2, <4>1 DEF ClaimExclusive, IdemOf
    <3>4. ASSUME NEW i \in IdemKey, row'[i] # row[i]
          PROVE  i = IdemOf(r) /\ Postgres /\ claim[r] = "db"
      <4>1. row' = [row EXCEPT ![IdemOf(r)] = NoRow] /\ ~IdemInMemory(PodOf(r))
        BY <3>1, <3>4 DEF FailIdem
      <4>2. claim[r] \notin Pod
        BY <4>1 DEF ClaimInv, ClaimBacked
      <4> QED BY <1>1, <2>1, <3>4, <4>1, <4>2 DEF IdemInMemory
    <3>5. ASSUME NEW p \in Pod, NEW i \in IdemKey, imem'[p][i] # imem[p][i]
          PROVE  p = PodOf(r) /\ i = IdemOf(r)
      <4>1. imem' = [imem EXCEPT ![PodOf(r)][IdemOf(r)] = NoRow]
        BY <3>1, <3>5 DEF FailIdem
      <4> QED BY <1>1, <3>5, <4>1
    <3>6. ASSUME NEW q \in Request
          PROVE  /\ claim'[q] = "db" => Postgres /\ row'[IdemOf(q)].state # "absent"
                 /\ claim'[q] \in Pod => /\ claim'[q] = PodOf(q)
                                         /\ IdemInMemory(PodOf(q))
                 /\ (claim'[q] \in Pod /\ ~Postgres) =>
                       imem'[PodOf(q)][IdemOf(q)].state # "absent"
                 /\ hpc'[q] \in {"race", "release"} => claim'[q] # "none"
                 /\ hpc'[q] = "insert" => Postgres
      <4>1. CASE q = r
        BY <1>1, <2>1, <3>2, <4>1, ConstantsAssumption
      <4>2. CASE q # r
        <5>1. claim'[q] = claim[q] /\ hpc'[q] = hpc[q]
          BY <1>1, <2>1, <3>2, <4>2
        <5>2. claim[q] = "db" => row'[IdemOf(q)] = row[IdemOf(q)]
          <6>1. SUFFICES ASSUME claim[q] = "db", row'[IdemOf(q)] # row[IdemOf(q)]
                         PROVE  FALSE
            OBVIOUS
          <6>2. IdemOf(q) = IdemOf(r) /\ Postgres /\ claim[r] = "db"
            BY <1>0, <3>4, <6>1
          <6> QED BY <4>2, <6>1, <6>2 DEF ClaimInv, ClaimExclusive
        <5>3. claim[q] \in Pod /\ ~Postgres =>
                 imem'[PodOf(q)][IdemOf(q)] = imem[PodOf(q)][IdemOf(q)]
          <6>1. SUFFICES ASSUME claim[q] \in Pod, ~Postgres,
                                imem'[PodOf(q)][IdemOf(q)] # imem[PodOf(q)][IdemOf(q)]
                         PROVE  FALSE
            OBVIOUS
          <6>2. PodOf(q) = PodOf(r) /\ IdemOf(q) = IdemOf(r)
            BY <1>0, <3>5, <6>1
          <6>3. claim[q] = PodOf(q) /\ claim[r] = PodOf(r)
            BY <1>1, <2>1, <6>1 DEF ClaimInv, ClaimBacked
          <6> QED BY <4>2, <6>1, <6>2, <6>3 DEF ClaimInv, ClaimExclusive
        <5> QED BY <5>1, <5>2, <5>3 DEF ClaimInv, ClaimBacked
      <4> QED BY <4>1, <4>2
    <3>7. ClaimBacked'
      BY <1>2, <3>6 DEF ClaimBacked, IdemOf, PodOf, IdemInMemory
    <3> QED BY <3>3, <3>7 DEF ClaimInv
  <2> QED BY <2>3, <2>4
<1> QED BY <1>3, <1>4, <1>5, <1>6 DEF Handler

\* So do the steps of everybody else.
LEMMA OtherClaims ==
    ASSUME TypeOK, ClaimInv,
           \/ \E r \in Request : Worker(r) \/ Chain(r) \/ LoseLock(r)
           \/ \E p \in Pod : \/ Sweep(p) \/ Crash(p)
                             \/ Degrade(p, "store") \/ Degrade(p, "idem")
           \/ Replicate
    PROVE  ClaimInv'
<1>0. \A q \in Request : IdemOf(q) \in IdemKey /\ PodOf(q) \in Pod
  BY InputTypes
<1>1. /\ row \in [IdemKey -> IdemRow] /\ imem \in [Pod -> [IdemKey -> IdemRow]]
      /\ claim \in [Request -> {"none", "db"} \cup Pod]
      /\ hpc \in [Request -> HandlerStates]
      /\ degraded \in [Pod -> SUBSET {"store", "idem", "lock"}]
  BY DEF TypeOK
<1>2. ASSUME NEW r \in Request, Worker(r), ~LockDegrade(r) PROVE ClaimInv'
  <2>1. input' = input /\ claim' = claim /\ degraded' = degraded /\ hpc' = hpc
    BY <1>2 DEF Worker, AcquireLock, Take, LockTimeout, LockDegrade, SchemeRefuses, SchemeThrows,
       Submit, Confirm, GiveUp, StoreSettled, Notify, StoreFailed, Complete
  <2>2. CASE Complete(r)
    <3>1. /\ row' = row \/ row' = [row EXCEPT ![IdemOf(r)] = Completed(result[r])]
          /\ \/ imem' = imem
             \/ imem' = [imem EXCEPT ![PodOf(r)][IdemOf(r)] = Completed(result[r])]
      BY <2>2 DEF Complete, CompleteIdem
    <3>2. Completed(result[r]).state # "absent"
      BY DEF Completed
    <3>3. \A i \in IdemKey : row[i].state # "absent" => row'[i].state # "absent"
      BY <1>1, <3>1, <3>2
    <3>4. \A p \in Pod, i \in IdemKey : imem'[p][i] \in {imem[p][i], Completed(result[r])}
      BY <1>1, <3>1
    <3> QED BY <1>0, <2>1, <3>2, <3>3, <3>4, ClaimFrame
  <2>3. CASE ~Complete(r)
    <3>1. row' = row /\ imem' = imem
      BY <1>2, <2>3 DEF Worker, AcquireLock, Take, LockTimeout, LockDegrade, SchemeRefuses,
         SchemeThrows, Submit, Confirm, GiveUp, StoreSettled, Notify, StoreFailed
    <3> QED BY <1>0, <2>1, <3>1, ClaimFrame
  <2> QED BY <2>2, <2>3
<1>3. ASSUME \/ \E r \in Request : Chain(r) \/ LoseLock(r)
             \/ \E p \in Pod : Sweep(p)
             \/ Replicate
      PROVE  ClaimInv'
  <2>1. /\ input' = input /\ claim' = claim /\ degraded' = degraded /\ hpc' = hpc
        /\ row' = row /\ imem' = imem
    BY <1>3 DEF Chain, Include, Drop, LoseLock, Sweep, ListUnknown, PollRecord,
       PollError, WriteReconciled, Replicate
  <2> QED BY <1>0, <2>1, ClaimFrame
<1>4. ASSUME \/ \E p \in Pod, s \in {"store", "idem"} : Degrade(p, s)
             \/ \E r \in Request : LockDegrade(r)
      PROVE  ClaimInv'
  <2>1. /\ input' = input /\ claim' = claim /\ hpc' = hpc /\ row' = row
        /\ imem' = imem
    BY <1>4 DEF Degrade, LockDegrade
  <2>2. \A q \in Pod : degraded[q] \subseteq degraded'[q]
    BY <1>1, <1>4 DEF Degrade, LockDegrade
  <2>3. ClaimExclusive'
    BY <2>1 DEF ClaimInv, ClaimExclusive, IdemOf
  <2>4. ClaimBacked'
    BY <1>0, <2>1, <2>2 DEF ClaimInv, ClaimBacked, IdemOf, PodOf, IdemInMemory
  <2> QED BY <2>3, <2>4 DEF ClaimInv
<1>5. ASSUME NEW p \in Pod, Crash(p) PROVE ClaimInv'
  <2>1. input' = input /\ row' = row
    BY <1>5 DEF Crash
  <2>2. ASSUME NEW q \in Request
        PROVE  /\ claim'[q] = IF claim[q] = p THEN "none" ELSE claim[q]
               /\ hpc'[q] \in {hpc[q], "crashed"}
               /\ PodOf(q) = p => hpc'[q] \in {"new", "done", "crashed"}
    BY <1>5 DEF Crash
  <2>3. ASSUME NEW q \in Pod, q # p
        PROVE  imem'[q] = imem[q] /\ degraded'[q] = degraded[q]
    BY <1>1, <1>5, <2>3 DEF Crash
  <2>4. ClaimExclusive'
    <3>1. ASSUME NEW q \in Request, NEW s \in Request, claim'[q] = claim'[s],
                 IdemOf(q) = IdemOf(s),
                 claim'[q] \in IF Postgres THEN {"db"} ELSE Pod
          PROVE  q = s
      <4>1. claim'[q] = claim[q] /\ claim'[s] = claim[s]
        BY <2>2, <3>1, ConstantsAssumption
      <4> QED BY <3>1, <4>1 DEF ClaimInv, ClaimExclusive
    <3> QED BY <2>1, <3>1 DEF ClaimExclusive, IdemOf
  <2>5. ASSUME NEW q \in Request
        PROVE  /\ claim'[q] = "db" => Postgres /\ row'[IdemOf(q)].state # "absent"
               /\ claim'[q] \in Pod => /\ claim'[q] = PodOf(q)
                                       /\ ~Postgres \/ "idem" \in degraded'[PodOf(q)]
               /\ (claim'[q] \in Pod /\ ~Postgres) =>
                     imem'[PodOf(q)][IdemOf(q)].state # "absent"
               /\ hpc'[q] \in {"race", "release"} => claim'[q] # "none"
               /\ hpc'[q] = "insert" => Postgres
    <3>1. /\ claim[q] = "db" => Postgres /\ row[IdemOf(q)].state # "absent"
          /\ claim[q] \in Pod => /\ claim[q] = PodOf(q)
                                 /\ ~Postgres \/ "idem" \in degraded[PodOf(q)]
          /\ (claim[q] \in Pod /\ ~Postgres) =>
                imem[PodOf(q)][IdemOf(q)].state # "absent"
          /\ hpc[q] \in {"race", "release"} => claim[q] # "none"
          /\ hpc[q] = "insert" => Postgres
      BY DEF ClaimInv, ClaimBacked, IdemInMemory
    <3>2. CASE claim[q] = p
      BY <1>0, <2>2, <3>1, <3>2, ConstantsAssumption
    <3>3. CASE claim[q] # p
      <4>1. claim'[q] = claim[q]
        BY <2>2, <3>3
      <4>2. claim[q] \in Pod => PodOf(q) # p
        BY <3>1, <3>3
      <4>3. claim[q] \in Pod => /\ imem'[PodOf(q)] = imem[PodOf(q)]
                                /\ degraded'[PodOf(q)] = degraded[PodOf(q)]
        BY <1>0, <2>3, <4>2
      <4> QED BY <2>1, <2>2, <3>1, <4>1, <4>3
    <3> QED BY <3>2, <3>3
  <2>6. ClaimBacked'
    BY <2>1, <2>5 DEF ClaimBacked, IdemOf, PodOf, IdemInMemory
  <2> QED BY <2>4, <2>6 DEF ClaimInv
<1> QED BY <1>2, <1>3, <1>4, <1>5

LEMMA NextClaims == TypeOK /\ ClaimInv /\ [Next]_vars => ClaimInv'
<1> SUFFICES ASSUME TypeOK, ClaimInv, [Next]_vars PROVE ClaimInv'
  OBVIOUS
<1>1. CASE UNCHANGED vars
  <2>1. /\ input' = input /\ claim' = claim /\ degraded' = degraded /\ hpc' = hpc
        /\ row' = row /\ imem' = imem
    BY <1>1 DEF vars
  <2>2. \A q \in Request : IdemOf(q) \in IdemKey /\ PodOf(q) \in Pod
    BY InputTypes
  <2> QED BY <2>1, <2>2, ClaimFrame
<1>2. CASE Next
  BY <1>2, HandlerClaims, OtherClaims DEF Next
<1> QED BY <1>1, <1>2

LEMMA ClaimsCorrect == Spec => []ClaimInv
<1>1. Init => ClaimInv
  BY ConstantsAssumption DEF Init, ClaimInv, ClaimExclusive, ClaimBacked
<1> QED BY <1>1, TypeCorrect, NextClaims, PTL DEF Spec

\* The configured idempotency table never gives one key to two requests at a
\* time, in any deployment and after any crash or degradation.
THEOREM ClaimExclusiveTheorem == Spec => []ClaimExclusive
<1>1. ClaimInv => ClaimExclusive
  BY DEF ClaimInv
<1> QED BY <1>1, ClaimsCorrect, PTL

\* The claim of a request whose broadcast has an unknown outcome is not freed
\* by any step: only an owner deletes a row, and this owner does not.
THEOREM UnknownClaimHeldTheorem == Spec => UnknownClaimHeld
<1> DEFINE Held == \A r \in Request :
                      /\ Postgres /\ claim[r] = "db"
                      /\ err[r] = "submitted_outcome_unknown"
                      => row'[IdemOf(r)].state # "absent"
<1>1. ASSUME TypeOK, ClaimInv, [Next]_vars PROVE Held
  <2>1. SUFFICES ASSUME NEW r \in Request, Postgres, claim[r] = "db",
                        err[r] = "submitted_outcome_unknown"
                 PROVE  row'[IdemOf(r)].state # "absent"
    OBVIOUS
  <2>2. row[IdemOf(r)].state # "absent" /\ IdemOf(r) \in IdemKey
    BY <1>1, <2>1, InputTypes DEF ClaimInv, ClaimBacked
  <2>3. row \in [IdemKey -> IdemRow]
    BY <1>1 DEF TypeOK
  <2>4. ASSUME NEW q \in Request, Handler(q) PROVE row'[IdemOf(r)].state # "absent"
    <3>1. CASE ReleaseClaim(q)
      <4>1. SUFFICES ASSUME row'[IdemOf(r)].state = "absent" PROVE FALSE
        OBVIOUS
      <4>2. /\ err[q] # "submitted_outcome_unknown" /\ FailIdem(PodOf(q), IdemOf(q))
            /\ row' # row /\ claim[q] # "none"
        BY <1>1, <2>2, <3>1, <4>1 DEF ReleaseClaim, ClaimInv, ClaimBacked
      <4>3. row' = [row EXCEPT ![IdemOf(q)] = NoRow] /\ ~IdemInMemory(PodOf(q))
        BY <4>2 DEF FailIdem
      <4>4. IdemOf(q) = IdemOf(r)
        BY <2>2, <2>3, <4>1, <4>3
      <4>5. claim[q] = "db"
        BY <1>1, <4>2, <4>3 DEF ClaimInv, ClaimBacked, TypeOK
      <4> QED BY <1>1, <2>1, <4>2, <4>4, <4>5 DEF ClaimInv, ClaimExclusive
    <3>2. CASE BeginInsert(q)
      <4>1. row' = row \/ row' = [row EXCEPT ![IdemOf(q)] = Claimed]
        BY <3>2 DEF BeginInsert, NotOwned
      <4> QED BY <2>2, <2>3, <4>1 DEF Claimed
    <3>3. CASE ~ReleaseClaim(q) /\ ~BeginInsert(q)
      <4>1. row' = row
        BY <2>4, <3>3 DEF Handler, Arrive, Get, Save, BeginMemory, NotOwned,
           BeginSelect, BeginPoll, Respond, Rethrow, Timeout, RecordError
      <4> QED BY <2>2, <4>1
    <3> QED BY <3>1, <3>2, <3>3
  <2>5. ASSUME NEW q \in Request, Worker(q) PROVE row'[IdemOf(r)].state # "absent"
    <3>1. CASE Complete(q)
      <4>1. row' = row \/ row' = [row EXCEPT ![IdemOf(q)] = Completed(result[q])]
        BY <3>1 DEF Complete, CompleteIdem
      <4> QED BY <2>2, <2>3, <4>1 DEF Completed
    <3>2. CASE ~Complete(q)
      <4>1. row' = row
        BY <2>5, <3>2 DEF Worker, AcquireLock, Take, LockTimeout, LockDegrade, SchemeRefuses,
           SchemeThrows, Submit, Confirm, GiveUp, StoreSettled, Notify, StoreFailed
      <4> QED BY <2>2, <4>1
    <3> QED BY <3>1, <3>2
  <2>6. ASSUME \/ \E q \in Request : Chain(q) \/ LoseLock(q)
               \/ \E p \in Pod : \/ Sweep(p) \/ Crash(p)
                                 \/ Degrade(p, "store") \/ Degrade(p, "idem")
               \/ Replicate \/ UNCHANGED vars
        PROVE  row'[IdemOf(r)].state # "absent"
    <3>1. row' = row
      BY <2>6 DEF Chain, Include, Drop, LoseLock, Sweep, ListUnknown, PollRecord,
         PollError, WriteReconciled, Crash, Degrade, Replicate, vars
    <3> QED BY <2>2, <3>1
  <2> QED BY <1>1, <2>4, <2>5, <2>6 DEF Next
<1>2. TypeOK /\ ClaimInv /\ [Next]_vars => [Held]_vars
  BY <1>1
<1> QED BY <1>2, TypeCorrect, ClaimsCorrect, PTL DEF Spec, UnknownClaimHeld

-----------------------------------------------------------------------------
(* One worker per payment. *)

\* A step that lets no worker in, and takes no lock from a running one, keeps
\* LockInv.
LEMMA LockFrame ==
    ASSUME LockInv, input' = input, faults'.lock = 0 => faults.lock = 0,
           UseLock =>
              \A r \in Request :
                 /\ wpc'[r] = "mutex" => Alone(PodOf(r))'
                 /\ faults.lock = 0 /\ Running(r)' => Running(r) /\ (Locked(r) => Locked(r)')
    PROVE  LockInv'
  BY DEF LockInv

LEMMA HandlerLocks ==
    ASSUME TypeOK, LockInv, NEW r \in Request, Handler(r)
    PROVE  LockInv'
<1>1. input' = input /\ lock' = lock /\ faults' = faults /\ degraded' = degraded
  BY DEF Handler, Arrive, Get, Save, BeginMemory, BeginSelect, BeginInsert,
         BeginPoll, Respond, Rethrow, Timeout, ReleaseClaim, RecordError
<1>2. wpc' = wpc \/ \E table : Owned(r, table)
  BY DEF Handler, Arrive, Get, Save, BeginMemory, BeginSelect, BeginInsert,
         BeginPoll, Respond, Rethrow, Timeout, ReleaseClaim, RecordError, NotOwned
<1>3. ASSUME UseLock, NEW q \in Request
      PROVE  /\ Running(q)' => Running(q)
             /\ wpc'[q] = "mutex" => wpc[q] = "mutex" \/ Alone(PodOf(q))
  BY <1>2, <1>3 DEF Running, TypeOK, Owned, Alone
<1>4. ASSUME UseLock, NEW q \in Request
      PROVE  /\ Alone(PodOf(q))' = Alone(PodOf(q))
             /\ Locked(q)' = Locked(q)
  BY <1>1 DEF Alone, Locked, PodOf, PayOf
<1> QED BY <1>1, <1>3, <1>4, LockFrame DEF LockInv

\* A worker is let in: the lock was free there, so it was nobody's.
LEMMA AcquireLocks ==
    ASSUME TypeOK, LockInv, NEW r \in Request, AcquireLock(r)
    PROVE  LockInv'
<1>0. /\ wpc \in [Request -> WorkerStates]
      /\ lock \in [Guard -> [Payment -> Request \cup {"free"}]]
  BY DEF TypeOK
<1>1. input' = input /\ faults' = faults /\ degraded' = degraded
  BY DEF AcquireLock
<1>2. /\ PayOf(r) \in Payment /\ \A q \in Request : PodOf(q) \in Guard
      /\ \A q \in Request : PayOf(q)' = PayOf(q) /\ PodOf(q)' = PodOf(q)
      /\ \A q \in Request : Alone(PodOf(q))' = Alone(PodOf(q))
  BY <1>1, InputTypes DEF Guard, PayOf, PodOf, Alone
<1>3. PICK g \in Guard : /\ Take(r, g)
                         /\ \/ wpc[r] = "lock" /\ g = "redis"
                            \/ wpc[r] = "mutex" /\ g = PodOf(r)
  BY <1>2 DEF AcquireLock, Guard
<1>4. wpc' = [wpc EXCEPT ![r] = "build"]
  BY <1>3 DEF Take, Work
<1>5. ASSUME NEW q \in Request, NEW h \in Guard, lock[h][PayOf(q)] = q, q # r
      PROVE  lock'[h][PayOf(q)] = q
  <2>1. h # g \/ PayOf(q) # PayOf(r)
    BY <1>3, <1>5, ConstantsAssumption DEF Take
  <2> QED BY <1>0, <1>3, <1>5, <2>1 DEF Take
<1>6. ASSUME UseLock, NEW q \in Request
      PROVE  /\ wpc'[q] = "mutex" => Alone(PodOf(q))
             /\ faults.lock = 0 /\ Running(q)' => Locked(q)'
  <2>1. CASE q = r
    <3>1. lock'[g][PayOf(r)] = r
      BY <1>0, <1>2, <1>3 DEF Take
    <3>2. g = "redis" \/ (g = PodOf(r) /\ Alone(PodOf(r)))
      BY <1>3, <1>6 DEF LockInv
    <3> QED BY <1>0, <1>2, <1>4, <2>1, <3>1, <3>2 DEF Locked
  <2>2. CASE q # r
    <3>1. wpc'[q] = wpc[q]
      BY <1>0, <1>4, <2>2
    <3>2. wpc[q] = "mutex" => Alone(PodOf(q))
      BY <1>6 DEF LockInv
    <3>3. faults.lock = 0 /\ Running(q)' => Locked(q)
      BY <1>6, <3>1 DEF LockInv, Running
    <3>4. Locked(q) => Locked(q)'
      BY <1>2, <1>5, <2>2 DEF Locked, Guard
    <3> QED BY <3>1, <3>2, <3>3, <3>4
  <2> QED BY <2>1, <2>2
<1> QED BY <1>1, <1>2, <1>6 DEF LockInv

LEMMA WorkerLocks ==
    ASSUME TypeOK, LockInv, NEW r \in Request, Worker(r)
    PROVE  LockInv'
<1>0. /\ wpc \in [Request -> WorkerStates]
      /\ lock \in [Guard -> [Payment -> Request \cup {"free"}]]
      /\ degraded \in [Pod -> SUBSET {"store", "idem", "lock"}]
  BY DEF TypeOK
<1>1. input' = input /\ faults' = faults
  BY DEF Worker, AcquireLock, LockTimeout, LockDegrade, SchemeRefuses, SchemeThrows,
         Submit, Confirm, GiveUp, StoreSettled, Notify, StoreFailed, Complete
<1>2. /\ PodOf(r) \in Pod
      /\ \A q \in Request : PayOf(q) \in Payment /\ PodOf(q) \in Pod /\ PodOf(q) \in Guard
      /\ \A q \in Request : PayOf(q)' = PayOf(q) /\ PodOf(q)' = PodOf(q)
  BY <1>1, InputTypes DEF Guard, PayOf, PodOf
<1>3. CASE AcquireLock(r)
  BY <1>3, AcquireLocks
<1>4. CASE SchemeThrows(r) \/ Complete(r)
  <2>1. lock' = Unlocked(r) /\ degraded' = degraded
    BY <1>4 DEF SchemeThrows, Complete
  <2>2. ASSUME NEW q \in Request
        PROVE  /\ Running(q)' => Running(q) /\ q # r
               /\ wpc'[q] = "mutex" => wpc[q] = "mutex"
    BY <1>0, <1>4 DEF SchemeThrows, Complete, Work, Running
  <2>3. ASSUME NEW q \in Request, q # r, Locked(q) PROVE Locked(q)'
    BY <1>2, <2>1, <2>3 DEF Unlocked, Locked, Alone, Guard
  <2>4. \A q \in Request : Alone(PodOf(q))' = Alone(PodOf(q))
    BY <1>2, <2>1 DEF Alone
  <2> QED BY <1>1, <2>2, <2>3, <2>4, LockFrame DEF LockInv
<1>5. CASE LockDegrade(r)
  <2>1. lock' = lock /\ wpc' = [wpc EXCEPT ![r] = "mutex"]
    BY <1>5 DEF LockDegrade, Work
  <2>2. ASSUME NEW q \in Request
        PROVE  /\ Alone(PodOf(q)) => Alone(PodOf(q))'
               /\ q = r => Alone(PodOf(q))'
    BY <1>0, <1>2, <1>5 DEF LockDegrade, Alone
  <2>3. ASSUME NEW q \in Request
        PROVE  /\ Running(q)' => Running(q)
               /\ wpc'[q] = "mutex" => q = r \/ wpc[q] = "mutex"
    BY <1>0, <2>1 DEF Running
  <2>4. ASSUME NEW q \in Request, Locked(q) PROVE Locked(q)'
    BY <1>2, <2>1, <2>2, <2>4 DEF Locked
  <2> QED BY <1>1, <2>2, <2>3, <2>4, LockFrame DEF LockInv
<1>6. CASE ~AcquireLock(r) /\ ~LockDegrade(r) /\ ~SchemeThrows(r) /\ ~Complete(r)
  <2>1. lock' = lock /\ degraded' = degraded
    BY <1>6 DEF Worker, LockTimeout, SchemeRefuses, Submit, Confirm, GiveUp,
       StoreSettled, Notify, StoreFailed
  <2>2. \/ wpc' = [wpc EXCEPT ![r] = "threw"]
        \/ Running(r) /\ \E s : s # "mutex" /\ Work(r, s)
    BY <1>6 DEF Worker, LockTimeout, SchemeRefuses, Submit, Confirm, GiveUp,
       StoreSettled, Notify, StoreFailed, Work, Running
  <2>3. ASSUME NEW q \in Request
        PROVE  /\ Running(q)' => Running(q)
               /\ wpc'[q] = "mutex" => wpc[q] = "mutex"
    BY <1>0, <2>2 DEF Running, Work
  <2>4. ASSUME NEW q \in Request
        PROVE  Locked(q)' = Locked(q) /\ Alone(PodOf(q))' = Alone(PodOf(q))
    BY <1>2, <2>1 DEF Locked, Alone
  <2> QED BY <1>1, <2>3, <2>4, LockFrame DEF LockInv
<1> QED BY <1>3, <1>4, <1>5, <1>6

LEMMA OtherLocks ==
    ASSUME TypeOK, LockInv, NEW p \in Pod,
           \/ \E r \in Request : Chain(r) \/ LoseLock(r)
           \/ Sweep(p) \/ Crash(p) \/ Degrade(p, "store") \/ Degrade(p, "idem")
           \/ Replicate \/ UNCHANGED vars
    PROVE  LockInv'
<1>0. /\ faults \in [degrade : Nat, crash : Nat, lock : Nat]
      /\ degraded \in [Pod -> SUBSET {"store", "idem", "lock"}]
      /\ \A q \in Request : PayOf(q) \in Payment /\ PodOf(q) \in Pod /\ PodOf(q) \in Guard
  BY InputTypes DEF TypeOK, Guard
<1>1. CASE \E r \in Request : LoseLock(r)
  <2>1. faults'.lock = faults.lock + 1 /\ input' = input
    BY <1>0, <1>1 DEF LoseLock
  <2>2. wpc' = wpc /\ degraded' = degraded
    BY <1>1 DEF LoseLock, workerVars
  <2>3. faults'.lock # 0
    BY <1>0, <2>1
  <2> QED BY <2>1, <2>2, <2>3 DEF LockInv, Alone, PodOf
<1>2. CASE Crash(p)
  <2>1. input' = input /\ faults'.lock = faults.lock
    BY <1>0, <1>2 DEF Crash
  <2>2. \A q \in Request : PayOf(q)' = PayOf(q) /\ PodOf(q)' = PodOf(q)
    BY <2>1 DEF PayOf, PodOf
  <2>3. ASSUME NEW q \in Request
        PROVE  /\ Running(q)' => Running(q) /\ PodOf(q) # p
               /\ wpc'[q] = "mutex" => wpc[q] = "mutex" /\ PodOf(q) # p
    BY <1>2 DEF Crash, Running
  <2>4. ASSUME NEW q \in Request, PodOf(q) # p PROVE Alone(PodOf(q))' = Alone(PodOf(q))
    BY <1>0, <1>2, <2>2, <2>4 DEF Crash, Alone
  <2>5. ASSUME NEW q \in Request, PodOf(q) # p, NEW g \in Guard, lock[g][PayOf(q)] = q
        PROVE  lock'[g][PayOf(q)] = q
    BY <1>0, <1>2, <2>5 DEF Crash
  <2>6. ASSUME NEW q \in Request, PodOf(q) # p, Locked(q) PROVE Locked(q)'
    BY <1>0, <2>2, <2>4, <2>5, <2>6 DEF Locked, Guard
  <2> QED BY <2>1, <2>3, <2>4, <2>6, LockFrame DEF LockInv
<1>3. CASE \/ \E r \in Request : Chain(r)
           \/ Sweep(p) \/ Degrade(p, "store") \/ Degrade(p, "idem")
           \/ Replicate \/ UNCHANGED vars
  <2>1. input' = input /\ wpc' = wpc /\ lock' = lock /\ faults'.lock = faults.lock
    BY <1>0, <1>3 DEF Chain, Include, Drop, Sweep, ListUnknown, PollRecord,
       PollError, WriteReconciled, Degrade, Replicate, vars
  <2>2. \A q \in Pod : degraded[q] \subseteq degraded'[q]
    BY <1>0, <1>3 DEF Chain, Include, Drop, Sweep, ListUnknown, PollRecord,
       PollError, WriteReconciled, Degrade, Replicate, vars
  <2>3. ASSUME NEW q \in Request
        PROVE  /\ Alone(PodOf(q)) => Alone(PodOf(q))'
               /\ Locked(q) => Locked(q)'
    BY <1>0, <2>1, <2>2 DEF Alone, Locked, PodOf, PayOf
  <2> QED BY <2>1, <2>3, LockFrame DEF LockInv, Running
<1> QED BY <1>1, <1>2, <1>3

\* A payment has one worker as long as no lock is lost under its holder and no
\* pod gives Redis up: a retry's worker waits for the one the timed-out request
\* left running. A pod that does give it up has a second one at most.
THEOREM OneWorkerTheorem == Spec => []OneWorkerPerPayment
<1>1. Init => LockInv
  BY DEF Init, LockInv, Running
<1>2. TypeOK /\ LockInv /\ [Next]_vars => LockInv'
  <2> SUFFICES ASSUME TypeOK, LockInv, [Next]_vars PROVE LockInv'
    OBVIOUS
  <2>1. CASE \E r \in Request : Handler(r) \/ Worker(r)
    BY <2>1, HandlerLocks, WorkerLocks
  <2>2. CASE Pod = {}
    <3>1. Request = {}
      BY <2>2, InputTypes
    <3> QED BY <3>1 DEF LockInv
  <2>3. CASE Pod # {}
    BY <2>1, <2>3, OtherLocks DEF Next
  <2> QED BY <2>2, <2>3
<1>3. LockInv => OneWorkerPerPayment
  <2> SUFFICES ASSUME LockInv, UseLock, faults.lock = 0, NEW r \in Request,
                      NEW q \in Request, PayOf(r) = PayOf(q), Running(r), Running(q), r # q
               PROVE  /\ Alone(PodOf(r)) \/ Alone(PodOf(q))
                      /\ \A s \in Request \ {r, q} :
                           Running(s) /\ PayOf(s) = PayOf(r) =>
                               ~(PodOf(r) = PodOf(q) /\ PodOf(s) = PodOf(r))
    BY DEF OneWorkerPerPayment, Alone
  <2>1. \A s \in Request : Running(s) => Locked(s)
    BY DEF LockInv
  <2> QED BY <2>1 DEF Locked
<1> QED BY <1>1, <1>2, <1>3, TypeCorrect, PTL DEF Spec
=============================================================================
