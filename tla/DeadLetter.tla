----------------------------- MODULE DeadLetter -----------------------------
(***************************************************************************)
(* The dead-letter queue: the dead_letters table (src/src/dlq/store.js),   *)
(* its retry cycles (dlq/worker.js), the operator's replay, discard and    *)
(* purge (dlq/routes.js, dlq/manager.js) and the depth alert. Retry cycles *)
(* overlap, as the interval waits for none; a replay reads a row without   *)
(* claiming it; every mark updates by id, whatever the row is by then.     *)
(***************************************************************************)
EXTENDS Naturals, FiniteSets

CONSTANTS
    Letter,          \* dead_letters rows
    Worker,          \* retry cycles that can be in flight together
    Replay,          \* replay requests of operators
    Pod,             \* facilitator processes
    Host,            \* retry cycle or replay request -> its process
    MaxDlqAttempts,  \* retries before a letter is exhausted
    Threshold,       \* alertThreshold
    MaxFaults,       \* bound: crashes and failed statements
    Nobody           \* no current row

ASSUME DeadLetterAssumption ==
    /\ MaxDlqAttempts \in Nat \ {0} /\ Threshold \in Nat /\ MaxFaults \in Nat
    /\ Nobody \notin Letter /\ Worker \cap Replay = {}
    /\ Host \in [Worker \cup Replay -> Pod] /\ IsFiniteSet(Letter)

\* attemptRedelivery is run by both.
Attempter == Worker \cup Replay

VARIABLES
    rows,      \* dead_letters: letter -> status, attempts, lease, due
    pc,        \* attempter -> where it is
    batch,     \* worker -> claimed letters still to do
    cur,       \* attempter -> the letter it is redelivering
    accepted,  \* letters the sink has accepted at least once
    depth,     \* worker -> pending + exhausted, as it counted them
    alerting,  \* pod -> its alert flag
    faults     \* faults so far

vars == <<rows, pc, batch, cur, accepted, depth, alerting, faults>>

Row == [status : {"absent", "pending", "exhausted", "resolved", "discarded",
                  "purged"},
        attempts : Nat,
        lease : {"none", "live", "expired"},
        due : BOOLEAN]

Exists(l) == rows[l].status \notin {"absent", "purged"}

Fault == faults < MaxFaults /\ faults' = faults + 1

Goto(a, label) == pc' = [pc EXCEPT ![a] = label]

-----------------------------------------------------------------------------
(* The table, and time. *)

\* insert: pending and due at once.
Insert(l) ==
    /\ rows[l].status = "absent"
    /\ rows' = [rows EXCEPT ![l].status = "pending", ![l].due = TRUE]
    /\ UNCHANGED <<pc, batch, cur, accepted, depth, alerting, faults>>

\* NOW() passes next_retry_at, or claimed_at + leaseMs.
Elapse(l) ==
    /\ \/ ~rows[l].due /\ rows[l].status = "pending"
          /\ rows' = [rows EXCEPT ![l].due = TRUE]
       \/ rows[l].lease = "live" /\ rows[l].status = "pending"
          /\ rows' = [rows EXCEPT ![l].lease = "expired"]
    /\ UNCHANGED <<pc, batch, cur, accepted, depth, alerting, faults>>

\* Mutant: a claim never comes back.
DueUnclaimed == {l \in Letter : /\ rows[l].status = "pending" /\ rows[l].due
                                /\ rows[l].lease = "none"}

Due == {l \in Letter : /\ rows[l].status = "pending" /\ rows[l].due
                       /\ rows[l].lease # "live"}

\* markResolved and markRetryFailed update by id; a purged row is gone.
Resolved(row) ==
    IF row.status = "purged" THEN row
    ELSE [row EXCEPT !.status = "resolved", !.lease = "none"]

\* Mutant: the limit is compared with the count before this failure.
RetryFailedLate(row) ==
    IF row.status = "purged" THEN row
    ELSE [status   |-> IF row.attempts >= MaxDlqAttempts THEN "exhausted"
                       ELSE "pending",
          attempts |-> row.attempts + 1, lease |-> "none", due |-> FALSE]

RetryFailed(row) ==
    IF row.status = "purged" THEN row
    ELSE [status   |-> IF row.attempts + 1 >= MaxDlqAttempts THEN "exhausted"
                       ELSE "pending",
          attempts |-> row.attempts + 1, lease |-> "none", due |-> FALSE]

-----------------------------------------------------------------------------
(* pollDlqOnce. *)

ClaimDue(w) ==
    /\ pc[w] = "idle"
    /\ rows' = [l \in Letter |-> IF l \in Due THEN [rows[l] EXCEPT !.lease = "live"]
                                 ELSE rows[l]]
    /\ batch' = [batch EXCEPT ![w] = Due]
    /\ Goto(w, "next")
    /\ UNCHANGED <<cur, accepted, depth, alerting, faults>>

NextLetter(w) ==
    /\ pc[w] = "next"
    /\ \/ batch[w] = {} /\ Goto(w, "count") /\ UNCHANGED <<batch, cur>>
       \/ \E l \in batch[w] : /\ cur' = [cur EXCEPT ![w] = l]
                              /\ batch' = [batch EXCEPT ![w] = @ \ {l}]
                              /\ Goto(w, "publish")
    /\ UNCHANGED <<rows, accepted, depth, alerting, faults>>

\* countByStatus; a failed count ends the cycle without a look at the alert.
CountDepth(w) ==
    /\ pc[w] = "count"
    /\ \/ /\ depth' = [depth EXCEPT ![w] = Cardinality(
                {l \in Letter : rows[l].status \in {"pending", "exhausted"}})]
          /\ Goto(w, "alert") /\ UNCHANGED faults
       \/ Fault /\ Goto(w, "idle") /\ UNCHANGED depth
    /\ UNCHANGED <<rows, batch, cur, accepted, alerting>>

\* Mutant: once up, the flag stays up.
CheckAlertLatched(w) ==
    /\ pc[w] = "alert"
    /\ alerting' = [alerting EXCEPT ![Host[w]] =
                      @ \/ (Threshold > 0 /\ depth[w] > Threshold)]
    /\ depth' = [depth EXCEPT ![w] = 0]
    /\ Goto(w, "idle")
    /\ UNCHANGED <<rows, batch, cur, accepted, faults>>

\* onAlert fires when the flag goes up.
CheckAlert(w) ==
    /\ pc[w] = "alert"
    /\ alerting' = [alerting EXCEPT ![Host[w]] = Threshold > 0 /\ depth[w] > Threshold]
    /\ depth' = [depth EXCEPT ![w] = 0]
    /\ Goto(w, "idle")
    /\ UNCHANGED <<rows, batch, cur, accepted, faults>>

\* A process dies: its cycles and replays are gone, their letters stay claimed.
Crash(p) ==
    LET here == {a \in Attempter : Host[a] = p}
    IN  /\ Fault
        /\ pc' = [a \in Attempter |-> IF a \notin here THEN pc[a]
                                     ELSE IF a \in Worker THEN "idle" ELSE "done"]
        /\ batch' = [w \in Worker |-> IF w \in here THEN {} ELSE batch[w]]
        /\ cur' = [a \in Attempter |-> IF a \in here THEN Nobody ELSE cur[a]]
        /\ depth' = [w \in Worker |-> IF w \in here THEN 0 ELSE depth[w]]
        /\ alerting' = [alerting EXCEPT ![p] = FALSE]
        /\ UNCHANGED <<rows, accepted>>

-----------------------------------------------------------------------------
(* attemptRedelivery. *)

\* A retry cycle goes on with its batch; a replay answers its operator.
After(a) == IF a \in Worker THEN "next" ELSE "done"

\* Mutant: resolved before the receiver answers.
PublishUnawaited(a) ==
    /\ pc[a] = "publish"
    /\ Goto(a, "resolve")
    /\ UNCHANGED <<rows, batch, cur, accepted, depth, alerting, faults>>

\* A thrown publish may have reached the sink all the same.
Publish(a) ==
    /\ pc[a] = "publish"
    /\ \/ accepted' = accepted \cup {cur[a]} /\ Goto(a, "resolve")
       \/ accepted' \in {accepted, accepted \cup {cur[a]}} /\ Goto(a, "fail")
    /\ UNCHANGED <<rows, batch, cur, depth, alerting, faults>>

MarkResolved(a) ==
    /\ pc[a] = "resolve"
    /\ \/ /\ rows' = [rows EXCEPT ![cur[a]] = Resolved(@)]
          /\ cur' = [cur EXCEPT ![a] = Nobody]
          /\ Goto(a, After(a)) /\ UNCHANGED faults
       \/ Fault /\ Goto(a, "fail") /\ UNCHANGED <<rows, cur>>
    /\ UNCHANGED <<batch, accepted, depth, alerting>>

\* When even this statement fails, the whole cycle is abandoned.
MarkRetryFailed(a) ==
    /\ pc[a] = "fail"
    /\ cur' = [cur EXCEPT ![a] = Nobody]
    /\ \/ /\ rows' = [rows EXCEPT ![cur[a]] = RetryFailed(@)]
          /\ Goto(a, After(a)) /\ UNCHANGED <<batch, faults>>
       \/ /\ Fault /\ UNCHANGED rows
          /\ Goto(a, IF a \in Worker THEN "idle" ELSE "done")
          /\ batch' = IF a \in Worker THEN [batch EXCEPT ![a] = {}] ELSE batch
    /\ UNCHANGED <<accepted, depth, alerting>>

-----------------------------------------------------------------------------
(* The operator. *)

\* POST /admin/dlq/:id/replay: 404 and 409, else a redelivery of the row read.
ReplayLetter(o, l) ==
    /\ pc[o] = "idle"
    /\ IF Exists(l) /\ rows[l].status \notin {"discarded", "resolved"}
       THEN cur' = [cur EXCEPT ![o] = l] /\ Goto(o, "publish")
       ELSE UNCHANGED cur /\ Goto(o, "done")
    /\ UNCHANGED <<rows, batch, accepted, depth, alerting, faults>>

\* DELETE /admin/dlq/:id
Discard(l) ==
    /\ Exists(l) /\ rows[l].status # "discarded"
    /\ rows' = [rows EXCEPT ![l].status = "discarded"]
    /\ UNCHANGED <<pc, batch, cur, accepted, depth, alerting, faults>>

\* DeadLetterManager.purge: the rows of a status, of an age, or of both.
Purge(gone) ==
    /\ \A l \in gone : Exists(l)
    /\ rows' = [l \in Letter |->
                  IF l \in gone
                  THEN [status |-> "purged", attempts |-> 0, lease |-> "none",
                        due |-> FALSE]
                  ELSE rows[l]]
    /\ UNCHANGED <<pc, batch, cur, accepted, depth, alerting, faults>>

-----------------------------------------------------------------------------
Init ==
    /\ rows = [l \in Letter |-> [status |-> "absent", attempts |-> 0,
                                 lease |-> "none", due |-> FALSE]]
    /\ pc = [a \in Attempter |-> "idle"]
    /\ batch = [w \in Worker |-> {}]
    /\ cur = [a \in Attempter |-> Nobody]
    /\ accepted = {}
    /\ depth = [w \in Worker |-> 0]
    /\ alerting = [p \in Pod |-> FALSE]
    /\ faults = 0

Redelivery(a) == Publish(a) \/ MarkResolved(a) \/ MarkRetryFailed(a)

Cycle(w) == \/ ClaimDue(w) \/ NextLetter(w) \/ CountDepth(w) \/ CheckAlert(w)
            \/ Redelivery(w)

Next == \/ \E l \in Letter : Insert(l) \/ Elapse(l) \/ Discard(l)
        \/ \E w \in Worker : Cycle(w)
        \/ \E p \in Pod : Crash(p)
        \/ \E o \in Replay : Redelivery(o) \/ \E l \in Letter : ReplayLetter(o, l)
        \/ \E gone \in SUBSET Letter \ {{}} : Purge(gone)

Spec == Init /\ [][Next]_vars

\* The interval keeps starting cycles, statements and publishes come back one
\* way or the other, and time passes. Operators owe nothing.
FairSpec == /\ Spec
            /\ \A w \in Worker : WF_vars(Cycle(w))
            /\ \A l \in Letter : WF_vars(Elapse(l))

-----------------------------------------------------------------------------
TypeOK ==
    /\ rows \in [Letter -> Row]
    /\ pc \in [Attempter -> {"idle", "next", "publish", "resolve", "fail",
                             "count", "alert", "done"}]
    /\ batch \in [Worker -> SUBSET Letter]
    /\ cur \in [Attempter -> Letter \cup {Nobody}]
    /\ \A a \in Attempter : pc[a] \in {"publish", "resolve", "fail"}
                            <=> cur[a] # Nobody
    /\ accepted \subseteq Letter
    /\ depth \in [Worker -> Nat]
    /\ alerting \in [Pod -> BOOLEAN]
    /\ faults \in Nat

\* A letter reads 'resolved' only when the receiver accepted it, whichever of
\* the overlapping cycles and replays wrote it last.
ResolvedMeansAccepted ==
    \A l \in Letter : rows[l].status = "resolved" => l \in accepted

\* A letter the worker may retry has retries left; one that waits for an
\* operator has none. Concurrent failures of one letter are all counted.
DlqBudgetKept ==
    \A l \in Letter :
        /\ rows[l].status = "pending" => rows[l].attempts < MaxDlqAttempts
        /\ rows[l].status = "exhausted" => rows[l].attempts >= MaxDlqAttempts

\* Why the first holds: who is about to resolve has delivered.
ResolvesAccepted ==
    \A a \in Attempter : pc[a] = "resolve" => cur[a] \in accepted

\* Why the second holds: a row has no attempts before it is inserted.
DlqBudgetInv ==
    DlqBudgetKept /\ \A l \in Letter : rows[l].status = "absent" => rows[l].attempts = 0

ResolvedInv == ResolvedMeansAccepted /\ ResolvesAccepted

\* No letter is retried for ever: it ends resolved, exhausted or removed by an
\* operator, although cycles crash while they hold it.
EveryLetterEnds ==
    \A l \in Letter : rows[l].status = "pending" ~> rows[l].status # "pending"

\* A backlog that stays over the threshold keeps the alert up, and one that
\* stays under it takes the alert down, whatever stale counts overlapping
\* cycles of the process apply in between.
Actionable == Cardinality({l \in Letter : rows[l].status \in {"pending", "exhausted"}})
AlertFollowsDepth ==
    \A p \in {Host[w] : w \in Worker} :
        /\ <>[](Actionable > Threshold /\ Threshold > 0) => <>[]alerting[p]
        /\ <>[](Actionable <= Threshold) => <>[]~alerting[p]
=============================================================================
