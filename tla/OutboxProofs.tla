---------------------------- MODULE OutboxProofs ----------------------------
(* Theorems about Outbox, for every set of events and overlapping cycles.  *)
EXTENDS Outbox, TLAPS

LEMMA RowTypes ==
    ASSUME NEW row \in Row
    PROVE  /\ Published(row) \in Row /\ Failed(row) \in Row
           /\ [row EXCEPT !.status = "pending"] \in Row
           /\ [row EXCEPT !.status = "claimed", !.expired = FALSE] \in Row
           /\ [row EXCEPT !.expired = TRUE] \in Row
<1>1. row.attempts + 1 \in Nat
  BY DEF Row
<1>2. Failed(row) \in Row
  BY <1>1 DEF Failed, Row
<1>3. Published(row) \in Row
  BY DEF Published, Row
<1>4. /\ [row EXCEPT !.status = "pending"] \in Row
      /\ [row EXCEPT !.expired = TRUE] \in Row
  BY DEF Row
<1>5. [row EXCEPT !.status = "claimed", !.expired = FALSE] \in Row
  BY DEF Row
<1> QED BY <1>2, <1>3, <1>4, <1>5

LEMMA FaultType == faults \in Nat /\ (Fault \/ UNCHANGED faults) => faults' \in Nat
  BY DEF Fault

\* Table steps keep the types.
LEMMA TableType ==
    ASSUME TypeOK, NEW e \in Event, InsertEvent(e) \/ ExpireLease(e)
    PROVE  TypeOK'
<1>1. rows \in [Event -> Row]
  BY DEF TypeOK
<1>2. rows' \in [Event -> Row]
  <2>1. rows' = [rows EXCEPT ![e] = [rows[e] EXCEPT !.status = "pending"]]
        \/ rows' = [rows EXCEPT ![e] = [rows[e] EXCEPT !.expired = TRUE]]
    BY DEF InsertEvent, ExpireLease
  <2> QED BY <1>1, <2>1, RowTypes
<1>3. CASE InsertEvent(e)
  BY <1>2, <1>3 DEF InsertEvent, TypeOK
<1>4. CASE ExpireLease(e)
  BY <1>2, <1>4 DEF ExpireLease, TypeOK
<1> QED BY <1>3, <1>4

\* Every step of a cycle keeps the types.
LEMMA CycleType ==
    ASSUME TypeOK, NEW w \in Worker, Cycle(w) \/ CrashWorker(w)
    PROVE  TypeOK'
<1>0. /\ rows \in [Event -> Row] /\ batch \in [Worker -> SUBSET Snapshot]
      /\ cur \in [Worker -> Snapshot \cup {Nobody}]
      /\ pc \in [Worker -> {"idle", "next", "publish", "mark", "fail", "dead"}]
      /\ \A v \in Worker : pc[v] \in {"publish", "mark", "fail", "dead"}
                           <=> cur[v] # Nobody
      /\ Nobody \notin Snapshot
      /\ faults \in Nat /\ letters \in [Event -> Nat] /\ accepted \subseteq Event
  BY OutboxAssumption DEF TypeOK, Snapshot
<1>1. cur[w] # Nobody => cur[w] \in Snapshot /\ cur[w].ev \in Event
  BY <1>0 DEF Snapshot
<1>2. CASE ClaimBatch(w)
  <2>1. PICK taken \in SUBSET Claimable :
          /\ rows' = [e \in Event |->
                        IF e \in taken
                        THEN [rows[e] EXCEPT !.status = "claimed", !.expired = FALSE]
                        ELSE rows[e]]
          /\ batch' = [batch EXCEPT ![w] =
                         {[ev |-> e, attempts |-> rows[e].attempts] : e \in taken}]
    BY <1>2 DEF ClaimBatch
  <2>2. taken \subseteq Event
    BY DEF Claimable
  <2>3. rows' \in [Event -> Row]
    BY <1>0, <2>1, RowTypes
  <2>4. \A e \in taken : [ev |-> e, attempts |-> rows[e].attempts] \in Snapshot
    BY <1>0, <2>2 DEF Snapshot, Row
  <2>5. batch' \in [Worker -> SUBSET Snapshot]
    <3>1. {[ev |-> e, attempts |-> rows[e].attempts] : e \in taken} \in SUBSET Snapshot
      BY <2>4
    <3> QED BY <1>0, <2>1, <3>1
  <2> QED BY <1>0, <1>2, <2>3, <2>5 DEF ClaimBatch, TypeOK
<1>3. CASE NextRow(w)
  <2>1. CASE batch[w] = {} /\ pc' = [pc EXCEPT ![w] = "idle"] /\ UNCHANGED <<batch, cur>>
    BY <1>0, <1>3, <2>1 DEF NextRow, TypeOK
  <2>2. CASE \E s \in batch[w] : /\ cur' = [cur EXCEPT ![w] = s]
                                 /\ batch' = [batch EXCEPT ![w] = @ \ {s}]
                                 /\ pc' = [pc EXCEPT ![w] = "publish"]
    BY <1>0, <1>3, <2>2 DEF NextRow, TypeOK
  <2> QED BY <1>3, <2>1, <2>2 DEF NextRow
<1>4. CASE Publish(w)
  BY <1>0, <1>1, <1>4 DEF Publish, TypeOK
<1>5. CASE MarkPublished(w)
  <2>1. rows' \in [Event -> Row]
    <3>1. \/ rows' = rows
          \/ rows' = [rows EXCEPT ![cur[w].ev] = Published(rows[cur[w].ev])]
      BY <1>5 DEF MarkPublished
    <3>2. cur[w].ev \in Event
      BY <1>0, <1>1, <1>5 DEF MarkPublished
    <3>3. Published(rows[cur[w].ev]) \in Row
      BY <1>0, <3>2, RowTypes
    <3> QED BY <1>0, <3>1, <3>3
  <2>2. faults' \in Nat
    BY <1>0, <1>5, FaultType DEF MarkPublished
  <2>3. /\ cur' \in [Worker -> Snapshot \cup {Nobody}]
        /\ pc' \in [Worker -> {"idle", "next", "publish", "mark", "fail", "dead"}]
        /\ \A v \in Worker : pc'[v] \in {"publish", "mark", "fail", "dead"}
                             <=> cur'[v] # Nobody
    BY <1>0, <1>5 DEF MarkPublished
  <2> QED BY <1>5, <2>1, <2>2, <2>3 DEF MarkPublished, TypeOK
<1>6. CASE MarkFailed(w)
  <2>1. rows' \in [Event -> Row]
    <3>1. \/ rows' = rows
          \/ rows' = [rows EXCEPT ![cur[w].ev] = Failed(rows[cur[w].ev])]
      BY <1>6 DEF MarkFailed
    <3>2. cur[w].ev \in Event
      BY <1>0, <1>1, <1>6 DEF MarkFailed
    <3>3. Failed(rows[cur[w].ev]) \in Row
      BY <1>0, <3>2, RowTypes
    <3> QED BY <1>0, <3>1, <3>3
  <2>2. faults' \in Nat
    BY <1>0, <1>6, FaultType DEF MarkFailed
  <2>3. /\ cur' \in [Worker -> Snapshot \cup {Nobody}]
        /\ pc' \in [Worker -> {"idle", "next", "publish", "mark", "fail", "dead"}]
        /\ \A v \in Worker : pc'[v] \in {"publish", "mark", "fail", "dead"}
                             <=> cur'[v] # Nobody
    BY <1>0, <1>6 DEF MarkFailed
  <2> QED BY <1>6, <2>1, <2>2, <2>3 DEF MarkFailed, TypeOK
<1>7. CASE InsertDeadLetter(w)
  <2>1. letters' \in [Event -> Nat]
    BY <1>0, <1>1, <1>7 DEF InsertDeadLetter
  <2>2. faults' \in Nat
    BY <1>0, <1>7, FaultType DEF InsertDeadLetter
  <2> QED BY <1>0, <1>7, <2>1, <2>2 DEF InsertDeadLetter, TypeOK
<1>8. CASE CrashWorker(w)
  <2>1. faults' \in Nat
    BY <1>0, <1>8, FaultType DEF CrashWorker
  <2> QED BY <1>0, <1>8, <2>1 DEF CrashWorker, TypeOK
<1> QED BY <1>2, <1>3, <1>4, <1>5, <1>6, <1>7, <1>8 DEF Cycle

\* The types of the outbox hold in every reachable state.
THEOREM OutboxTypeCorrect == Spec => []TypeOK
<1>1. Init => TypeOK
  BY DEF Init, TypeOK, Row
<1>2. TypeOK /\ [Next]_vars => TypeOK'
  <2> SUFFICES ASSUME TypeOK, [Next]_vars PROVE TypeOK'
    OBVIOUS
  <2>1. CASE UNCHANGED vars
    BY <2>1 DEF vars, TypeOK
  <2> QED BY <2>1, TableType, CycleType DEF Next
<1> QED BY <1>1, <1>2, PTL DEF Spec

\* A row reads 'published' only when the sink accepted its event.
THEOREM PublishedMeansAcceptedTheorem == Spec => []PublishedMeansAccepted
<1>1. Init => PublishedInv
  BY DEF Init, PublishedInv, PublishedMeansAccepted, MarksAccepted
<1>2. TypeOK /\ PublishedInv /\ [Next]_vars => PublishedInv'
  <2> SUFFICES ASSUME TypeOK, PublishedInv, [Next]_vars PROVE PublishedInv'
    OBVIOUS
  <2>0. /\ rows \in [Event -> Row]
        /\ pc \in [Worker -> {"idle", "next", "publish", "mark", "fail", "dead"}]
        /\ cur \in [Worker -> Snapshot \cup {Nobody}]
        /\ \A e \in Event : rows[e].status = "published" => e \in accepted
        /\ \A w \in Worker : pc[w] = "mark" => cur[w].ev \in accepted
    BY DEF TypeOK, PublishedInv, PublishedMeansAccepted, MarksAccepted
  <2> USE DEF PublishedInv, PublishedMeansAccepted, MarksAccepted
  <2>1. CASE UNCHANGED vars
    BY <2>0, <2>1 DEF vars
  <2>2. ASSUME NEW e \in Event, InsertEvent(e) \/ ExpireLease(e) PROVE PublishedInv'
    <3>1. \A f \in Event : rows'[f].status = "published" => rows[f].status = "published"
      BY <2>0, <2>2 DEF InsertEvent, ExpireLease, Row
    <3> QED BY <2>0, <2>2, <3>1 DEF InsertEvent, ExpireLease
  <2>3. ASSUME NEW w \in Worker, ClaimBatch(w) PROVE PublishedInv'
    <3>1. \A f \in Event : rows'[f].status = "published" => rows[f].status = "published"
      <4>1. PICK taken \in SUBSET Claimable :
               rows' = [e \in Event |->
                          IF e \in taken
                          THEN [rows[e] EXCEPT !.status = "claimed", !.expired = FALSE]
                          ELSE rows[e]]
        BY <2>3 DEF ClaimBatch
      <4>2. \A row \in Row :
               [row EXCEPT !.status = "claimed", !.expired = FALSE].status = "claimed"
        BY DEF Row
      <4> QED BY <2>0, <4>1, <4>2
    <3> QED BY <2>0, <2>3, <3>1 DEF ClaimBatch
  <2>4. ASSUME NEW w \in Worker, NextRow(w) \/ InsertDeadLetter(w) \/ CrashWorker(w)
        PROVE  PublishedInv'
    BY <2>0, <2>4 DEF NextRow, InsertDeadLetter, CrashWorker
  <2>5. ASSUME NEW w \in Worker, Publish(w) PROVE PublishedInv'
    BY <2>0, <2>5 DEF Publish
  <2>6. ASSUME NEW w \in Worker, MarkPublished(w) PROVE PublishedInv'
    <3>1. cur[w].ev \in accepted
      BY <2>0, <2>6 DEF MarkPublished
    <3>2. \A f \in Event : \/ rows'[f] = rows[f]
                           \/ f = cur[w].ev
      BY <2>0, <2>6 DEF MarkPublished
    <3>3. \A v \in Worker : pc'[v] = "mark" => pc[v] = "mark" /\ cur'[v] = cur[v]
      BY <2>0, <2>6 DEF MarkPublished
    <3> QED BY <2>0, <2>6, <3>1, <3>2, <3>3 DEF MarkPublished
  <2>7. ASSUME NEW w \in Worker, MarkFailed(w) PROVE PublishedInv'
    <3>1. \A f \in Event : rows'[f] = rows[f] \/ rows'[f] = Failed(rows[f])
      BY <2>0, <2>7 DEF MarkFailed
    <3>2. \A f \in Event : Failed(rows[f]).status # "published"
      BY DEF Failed
    <3>3. \A v \in Worker : pc'[v] = "mark" => pc[v] = "mark" /\ cur'[v] = cur[v]
      BY <2>0, <2>7 DEF MarkFailed
    <3> QED BY <2>0, <2>7, <3>1, <3>2, <3>3 DEF MarkFailed
  <2> QED BY <2>1, <2>2, <2>3, <2>4, <2>5, <2>6, <2>7 DEF Next, Cycle
<1>3. PublishedInv => PublishedMeansAccepted
  BY DEF PublishedInv
<1> QED BY <1>1, <1>2, <1>3, OutboxTypeCorrect, PTL DEF Spec

\* Rows that can be claimed have attempts left, rows given up have none.
THEOREM BudgetKeptTheorem == Spec => []BudgetKept
<1> DEFINE Fine(row) ==
      /\ row.status \in {"pending", "claimed"} => row.attempts < MaxAttempts
      /\ row.status = "failed" => row.attempts >= MaxAttempts
      /\ row.status = "absent" => row.attempts = 0
<1>1. Init => BudgetInv
  BY OutboxAssumption DEF Init, BudgetInv, BudgetKept
<1>2. TypeOK /\ BudgetInv /\ [Next]_vars => BudgetInv'
  <2> SUFFICES ASSUME TypeOK, BudgetInv, [Next]_vars PROVE BudgetInv'
    OBVIOUS
  <2>0. rows \in [Event -> Row] /\ \A e \in Event : Fine(rows[e])
    BY DEF TypeOK, BudgetInv, BudgetKept
  <2>1. \A row \in Row : Fine(row) =>
           /\ Fine(Published(row)) /\ Fine(Failed(row))
           /\ row.status = "absent" => Fine([row EXCEPT !.status = "pending"])
           /\ Fine([row EXCEPT !.expired = TRUE])
           /\ row.status \in {"pending", "claimed"} =>
                 Fine([row EXCEPT !.status = "claimed", !.expired = FALSE])
    BY OutboxAssumption DEF Row, Published, Failed
  <2>2. SUFFICES \A e \in Event : Fine(rows'[e])
    BY DEF BudgetInv, BudgetKept
  <2> HIDE DEF Fine
  <2>3. CASE UNCHANGED vars
    BY <2>0, <2>3 DEF vars
  <2>4. ASSUME NEW e \in Event, InsertEvent(e) \/ ExpireLease(e)
        PROVE  \A f \in Event : Fine(rows'[f])
    <3>1. \/ /\ rows[e].status = "absent"
             /\ rows' = [rows EXCEPT ![e] = [rows[e] EXCEPT !.status = "pending"]]
          \/ rows' = [rows EXCEPT ![e] = [rows[e] EXCEPT !.expired = TRUE]]
      BY <2>4 DEF InsertEvent, ExpireLease
    <3>2. /\ Fine(rows[e]) /\ rows[e] \in Row /\ Fine([rows[e] EXCEPT !.expired = TRUE])
          /\ rows[e].status = "absent" => Fine([rows[e] EXCEPT !.status = "pending"])
      BY <2>0, <2>1
    <3>3. \A f \in Event : rows'[f] = rows[f] \/ (f = e /\ Fine(rows'[e]))
      BY <2>0, <3>1, <3>2
    <3> QED BY <2>0, <3>3
  <2>5. ASSUME NEW w \in Worker, ClaimBatch(w) PROVE \A f \in Event : Fine(rows'[f])
    <3>1. PICK taken \in SUBSET Claimable :
             rows' = [e \in Event |->
                        IF e \in taken
                        THEN [rows[e] EXCEPT !.status = "claimed", !.expired = FALSE]
                        ELSE rows[e]]
      BY <2>5 DEF ClaimBatch
    <3>2. \A e \in taken : rows[e].status \in {"pending", "claimed"}
      BY DEF Claimable
    <3> QED BY <2>0, <2>1, <3>1, <3>2
  <2>6. ASSUME NEW w \in Worker, MarkPublished(w) \/ MarkFailed(w)
        PROVE  \A f \in Event : Fine(rows'[f])
    <3>1. \A f \in Event : rows'[f] \in {rows[f], Published(rows[f]), Failed(rows[f])}
      BY <2>0, <2>6 DEF MarkPublished, MarkFailed
    <3> QED BY <2>0, <2>1, <3>1
  <2>7. ASSUME NEW w \in Worker,
               NextRow(w) \/ Publish(w) \/ InsertDeadLetter(w) \/ CrashWorker(w)
        PROVE  \A f \in Event : Fine(rows'[f])
    BY <2>0, <2>7 DEF NextRow, Publish, InsertDeadLetter, CrashWorker
  <2> QED BY <2>3, <2>4, <2>5, <2>6, <2>7 DEF Next, Cycle
<1>3. BudgetInv => BudgetKept
  BY DEF BudgetInv
<1> QED BY <1>1, <1>2, <1>3, OutboxTypeCorrect, PTL DEF Spec
=============================================================================
