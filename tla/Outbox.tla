------------------------------- MODULE Outbox -------------------------------
(***************************************************************************)
(* The transactional outbox: the outbox_events table (src/src/outbox/      *)
(* store.js) and the poll cycles that publish its rows (outbox/worker.js). *)
(* A Worker is one poll cycle in flight. The interval does not wait for    *)
(* the cycle before it, and every pod has its own, so cycles overlap; a    *)
(* claim is only as good as its lease.                                     *)
(***************************************************************************)
EXTENDS Naturals, FiniteSets

CONSTANTS
    Event,        \* event_id values, one per settlement announced
    Worker,       \* poll cycles that can be in flight together
    Limit,        \* batchSize
    MaxAttempts,  \* publish attempts before a row is given up
    MaxFaults,    \* bound: crashed cycles and failed statements
    Nobody        \* no current row

ASSUME OutboxAssumption ==
    /\ Limit \in Nat \ {0} /\ MaxAttempts \in Nat \ {0} /\ MaxFaults \in Nat
    /\ Nobody \notin [ev : Event, attempts : Nat]

VARIABLES
    rows,      \* outbox_events: event -> status, attempts, is the lease over
    pc,        \* worker -> where its cycle is
    batch,     \* worker -> claimed rows, as RETURNING gave them, still to do
    cur,       \* worker -> the row it is publishing
    accepted,  \* events the sink has accepted at least once
    letters,   \* event -> dead letters inserted for it
    faults     \* faults so far

vars == <<rows, pc, batch, cur, accepted, letters, faults>>

Row == [status : {"absent", "pending", "claimed", "published", "failed"},
        attempts : Nat, expired : BOOLEAN]

\* A claimed row as the worker remembers it.
Snapshot == [ev : Event, attempts : Nat]

\* The rows a cycle has in hand.
Holds(w) == {s.ev : s \in (batch[w] \cup {cur[w]}) \ {Nobody}}

Fault == faults < MaxFaults /\ faults' = faults + 1

-----------------------------------------------------------------------------
(* The table. *)

\* insertEvent, in the settlement's transaction: ON CONFLICT DO NOTHING.
InsertEvent(e) ==
    /\ rows[e].status = "absent"
    /\ rows' = [rows EXCEPT ![e].status = "pending"]
    /\ UNCHANGED <<pc, batch, cur, accepted, letters, faults>>

\* Mutant: a claim never comes back.
ClaimablePending == {e \in Event : rows[e].status = "pending"}

Claimable == {e \in Event : \/ rows[e].status = "pending"
                            \/ rows[e].status = "claimed" /\ rows[e].expired}

\* NOW() passes claimed_at + leaseMs.
ExpireLease(e) ==
    /\ rows[e].status = "claimed" /\ ~rows[e].expired
    /\ rows' = [rows EXCEPT ![e].expired = TRUE]
    /\ UNCHANGED <<pc, batch, cur, accepted, letters, faults>>

\* markPublished: by id, whatever the row has become.
Published(row) == [row EXCEPT !.status = "published", !.expired = FALSE]

\* Mutant: the limit is compared with the count before this failure.
FailedLate(row) ==
    [status   |-> IF row.attempts >= MaxAttempts THEN "failed" ELSE "pending",
     attempts |-> row.attempts + 1, expired |-> FALSE]

\* markFailed: by id too; the count is the table's own.
Failed(row) ==
    [status   |-> IF row.attempts + 1 >= MaxAttempts THEN "failed" ELSE "pending",
     attempts |-> row.attempts + 1, expired |-> FALSE]

-----------------------------------------------------------------------------
(* pollOutboxOnce. *)

\* claimBatch: one UPDATE claims the batch, often an empty one.
ClaimBatch(w) ==
    /\ pc[w] = "idle"
    /\ \E taken \in SUBSET Claimable :
          /\ \/ Cardinality(taken) = Limit
             \/ taken = Claimable /\ Cardinality(taken) < Limit
          /\ rows' = [e \in Event |->
                        IF e \in taken
                        THEN [rows[e] EXCEPT !.status = "claimed", !.expired = FALSE]
                        ELSE rows[e]]
          /\ batch' = [batch EXCEPT ![w] =
                         {[ev |-> e, attempts |-> rows[e].attempts] : e \in taken}]
    /\ pc' = [pc EXCEPT ![w] = "next"]
    /\ UNCHANGED <<cur, accepted, letters, faults>>

\* for (const row of rows)
NextRow(w) ==
    /\ pc[w] = "next"
    /\ \/ /\ batch[w] = {}
          /\ pc' = [pc EXCEPT ![w] = "idle"]
          /\ UNCHANGED <<batch, cur>>
       \/ \E s \in batch[w] :
             /\ cur' = [cur EXCEPT ![w] = s]
             /\ batch' = [batch EXCEPT ![w] = @ \ {s}]
             /\ pc' = [pc EXCEPT ![w] = "publish"]
    /\ UNCHANGED <<rows, accepted, letters, faults>>

\* Mutant: the publish is not awaited.
PublishUnawaited(w) ==
    /\ pc[w] = "publish"
    /\ pc' = [pc EXCEPT ![w] = "mark"]
    /\ UNCHANGED <<rows, batch, cur, accepted, letters, faults>>

\* publish(record): accepted and resolved, or thrown - and a thrown publish may
\* have reached the sink all the same.
Publish(w) ==
    /\ pc[w] = "publish"
    /\ \/ /\ accepted' = accepted \cup {cur[w].ev}
          /\ pc' = [pc EXCEPT ![w] = "mark"]
       \/ /\ accepted' \in {accepted, accepted \cup {cur[w].ev}}
          /\ pc' = [pc EXCEPT ![w] = "fail"]
    /\ UNCHANGED <<rows, batch, cur, letters, faults>>

\* markPublished; when the statement fails the row goes through the catch block.
MarkPublished(w) ==
    /\ pc[w] = "mark"
    /\ \/ /\ rows' = [rows EXCEPT ![cur[w].ev] = Published(@)]
          /\ pc' = [pc EXCEPT ![w] = "next"]
          /\ cur' = [cur EXCEPT ![w] = Nobody]
          /\ UNCHANGED faults
       \/ /\ Fault
          /\ pc' = [pc EXCEPT ![w] = "fail"]
          /\ UNCHANGED <<rows, cur>>
    /\ UNCHANGED <<batch, accepted, letters>>

\* Whether the row is given up is decided from the claimed copy.
Exhausted(snap) == snap.attempts + 1 >= MaxAttempts

\* markFailed, or its own failure, which is logged.
MarkFailed(w) ==
    /\ pc[w] = "fail"
    /\ \/ rows' = [rows EXCEPT ![cur[w].ev] = Failed(@)] /\ UNCHANGED faults
       \/ Fault /\ UNCHANGED rows
    /\ IF Exhausted(cur[w])
       THEN pc' = [pc EXCEPT ![w] = "dead"] /\ UNCHANGED cur
       ELSE pc' = [pc EXCEPT ![w] = "next"] /\ cur' = [cur EXCEPT ![w] = Nobody]
    /\ UNCHANGED <<batch, accepted, letters>>

\* dlq.insert, or its failure, which is logged.
InsertDeadLetter(w) ==
    /\ pc[w] = "dead"
    /\ \/ letters' = [letters EXCEPT ![cur[w].ev] = @ + 1] /\ UNCHANGED faults
       \/ Fault /\ UNCHANGED letters
    /\ pc' = [pc EXCEPT ![w] = "next"]
    /\ cur' = [cur EXCEPT ![w] = Nobody]
    /\ UNCHANGED <<rows, batch, accepted>>

\* The process of the cycle dies; its rows stay claimed.
CrashWorker(w) ==
    /\ pc[w] # "idle" /\ Fault
    /\ pc' = [pc EXCEPT ![w] = "idle"]
    /\ batch' = [batch EXCEPT ![w] = {}]
    /\ cur' = [cur EXCEPT ![w] = Nobody]
    /\ UNCHANGED <<rows, accepted, letters>>

-----------------------------------------------------------------------------
Init ==
    /\ rows = [e \in Event |-> [status |-> "absent", attempts |-> 0,
                                expired |-> FALSE]]
    /\ pc = [w \in Worker |-> "idle"]
    /\ batch = [w \in Worker |-> {}]
    /\ cur = [w \in Worker |-> Nobody]
    /\ accepted = {}
    /\ letters = [e \in Event |-> 0]
    /\ faults = 0

Cycle(w) == \/ ClaimBatch(w) \/ NextRow(w) \/ Publish(w) \/ MarkPublished(w)
            \/ MarkFailed(w) \/ InsertDeadLetter(w)

Next == \/ \E e \in Event : InsertEvent(e) \/ ExpireLease(e)
        \/ \E w \in Worker : Cycle(w) \/ CrashWorker(w)

Spec == Init /\ [][Next]_vars

\* The interval keeps starting cycles, a cycle's statements and publishes come
\* back one way or the other, and time passes.
FairSpec == /\ Spec
            /\ \A w \in Worker : WF_vars(Cycle(w))
            /\ \A e \in Event : WF_vars(ExpireLease(e))

-----------------------------------------------------------------------------
TypeOK ==
    /\ rows \in [Event -> Row]
    /\ pc \in [Worker -> {"idle", "next", "publish", "mark", "fail", "dead"}]
    /\ batch \in [Worker -> SUBSET Snapshot]
    /\ cur \in [Worker -> Snapshot \cup {Nobody}]
    /\ \A w \in Worker : pc[w] \in {"publish", "mark", "fail", "dead"}
                         <=> cur[w] # Nobody
    /\ accepted \subseteq Event
    /\ letters \in [Event -> Nat]
    /\ faults \in Nat

\* A row reads 'published' only when the sink accepted its event, although the
\* cycle that marks it may have lost the row to another one long before.
PublishedMeansAccepted ==
    \A e \in Event : rows[e].status = "published" => e \in accepted

\* A row that can still be claimed has attempts left, and a row is given up
\* only when it has none, however many overlapping cycles count its failures.
BudgetKept ==
    \A e \in Event :
        /\ rows[e].status \in {"pending", "claimed"} => rows[e].attempts < MaxAttempts
        /\ rows[e].status = "failed" => rows[e].attempts >= MaxAttempts

\* Why the first holds: a cycle that is about to mark has published.
MarksAccepted ==
    \A w \in Worker : pc[w] = "mark" => cur[w].ev \in accepted

\* Why the second holds: a row has no attempts before it is inserted.
BudgetInv ==
    BudgetKept /\ \A e \in Event : rows[e].status = "absent" => rows[e].attempts = 0

PublishedInv == PublishedMeansAccepted /\ MarksAccepted

\* At-least-once: no row stays pending or claimed for ever. Crashed cycles,
\* failed statements and expired leases delay it and do not lose it.
EveryEventEnds ==
    \A e \in Event :
        rows[e].status \in {"pending", "claimed"}
        ~> rows[e].status \in {"published", "failed"}

\* The worker's dlq option: a row that exhausts maxAttempts "is also recorded as
\* a dead letter (DLQ) so it surfaces in the operator API instead of sitting
\* unreachable as `failed`" (once its cycle is done with it).
FailedHasLetter ==
    \A e \in Event :
        /\ rows[e].status = "failed"
        /\ \A w \in Worker : e \notin Holds(w)
        => letters[e] > 0
=============================================================================
