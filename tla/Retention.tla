----------------------------- MODULE Retention -----------------------------
(***************************************************************************)
(* The retention job (src/scripts/data_retention_job.js): one task per     *)
(* table, each in batches. A batch is selected and handed to the archiver, *)
(* then a DELETE selects again, while the service goes on changing rows.   *)
(* The archive is closed, which for S3 is the one upload, after the last   *)
(* task. A row is what a WHERE clause can tell of it.                      *)
(***************************************************************************)
EXTENDS Naturals, FiniteSets, Sequences

CONSTANTS
    Row,           \* rows of all tables
    RetentionBatch,\* --batch-size
    MaxTouches,    \* bound: changes the service makes
    MaxJobFaults   \* bound: statements that fail

ASSUME RetentionAssumption == RetentionBatch \in Nat \ {0}

\* The tasks, in order. "events" stands for the tables purged by age alone whose
\* rows do not change (settlement_events, legacy settlements, idempotency keys,
\* rate-limit buckets); the outbox and the dead letters keep what is not final.
Tables == <<"events", "projections", "outbox", "letters">>
Table == {Tables[i] : i \in DOMAIN Tables}
Keeps(table) == table \in {"outbox", "letters"}

VARIABLES
    stored,    \* row -> [table, old, closed, version], NoStored once deleted
    task,      \* index of the task in Tables
    jobAt,     \* "select", "delete", "close", "done", "failed", "killed"
    batch,     \* rows of the batch, as selected
    buffer,    \* rows handed to the archiver
    archive,   \* rows in the closed archive
    mode,      \* [dryRun, s3]
    errors, touches

retVars == <<stored, task, jobAt, batch, buffer, archive, mode, errors, touches>>
NoStored == [table |-> "none", old |-> FALSE, closed |-> FALSE, version |-> 0]

-----------------------------------------------------------------------------
\* The WHERE clauses: older than the cutoff, and for the outbox and the dead
\* letters in a final status.
Due(x) == x.table = Tables[task] /\ x.old /\ (Keeps(x.table) => x.closed)
DueRows == {r \in Row : Due(stored[r])}

\* LIMIT without ORDER BY: any rows of that number.
Limited(rows) == {b \in SUBSET rows :
    Cardinality(b) = IF Cardinality(rows) < RetentionBatch THEN Cardinality(rows) ELSE RetentionBatch}

NextTask == IF task < Len(Tables) THEN task' = task + 1 /\ jobAt' = "select"
            ELSE task' = task /\ jobAt' = "close"

\* The batch is read and written to the archiver; an empty one ends the task.
SelectBatch(b) ==
    /\ jobAt = "select" /\ b \in Limited(DueRows)
    /\ IF b = {} THEN NextTask /\ UNCHANGED <<batch, buffer>>
       ELSE /\ batch' = {<<r, stored[r]>> : r \in b} /\ buffer' = buffer \cup batch'
            /\ jobAt' = "delete" /\ UNCHANGED task
    /\ UNCHANGED <<stored, archive, mode, errors, touches>>

\* A short batch was the last one of its table.
AfterBatch ==
    IF Cardinality(batch) < RetentionBatch THEN NextTask
    ELSE jobAt' = "select" /\ UNCHANGED task

\* Mutant: what was selected is deleted.
DeletableSelected == {x[1] : x \in batch}

\* The DELETE has the WHERE clause of the SELECT, and looks again.
Deletable == DueRows

DeleteBatch(d) ==
    /\ jobAt = "delete" /\ ~mode.dryRun /\ d \in Limited(Deletable)
    /\ stored' = [r \in Row |-> IF r \in d THEN NoStored ELSE stored[r]]
    /\ batch' = {} /\ AfterBatch
    /\ UNCHANGED <<buffer, archive, mode, errors, touches>>

\* A dry run deletes nothing.
SkipDelete ==
    /\ jobAt = "delete" /\ mode.dryRun
    /\ batch' = {} /\ AfterBatch
    /\ UNCHANGED <<stored, buffer, archive, mode, errors, touches>>

\* A statement fails: the error is kept and the next table is processed.
TaskFails ==
    /\ jobAt \in {"select", "delete"} /\ errors < MaxJobFaults
    /\ errors' = errors + 1 /\ batch' = {}
    /\ NextTask
    /\ UNCHANGED <<stored, buffer, archive, mode, touches>>

\* close(): the file is flushed. The S3 client is a promise that nobody awaited,
\* so the upload throws. Errors of tasks make the exit code 1 too.
CloseArchive ==
    /\ jobAt = "close"
    /\ jobAt' = IF (mode.s3 /\ buffer # {}) \/ errors > 0 THEN "failed" ELSE "done"
    /\ archive' = IF mode.s3 THEN archive ELSE buffer
    /\ UNCHANGED <<stored, task, batch, buffer, mode, errors, touches>>

\* The job is killed: what the archiver holds is lost.
KillJob ==
    /\ jobAt \in {"select", "delete", "close"}
    /\ jobAt' = "killed"
    /\ UNCHANGED <<stored, task, batch, buffer, archive, mode, errors, touches>>

-----------------------------------------------------------------------------
\* The service updates a row that is old, which makes it young (updated_at), or
\* settles what was owed (an outbox event is published, a letter resolved). A
\* letter becomes owed again when a retry that fails ends late.
Touch(r) ==
    /\ stored[r] # NoStored /\ touches < MaxTouches
    /\ touches' = touches + 1
    /\ \/ /\ stored[r].table = "projections"
          /\ stored' = [stored EXCEPT ![r].old = FALSE, ![r].version = @ + 1]
       \/ /\ stored[r].table = "outbox" /\ ~stored[r].closed
          /\ stored' = [stored EXCEPT ![r].closed = TRUE, ![r].version = @ + 1]
       \/ /\ stored[r].table = "letters"
          /\ stored' = [stored EXCEPT ![r].closed = ~@, ![r].version = @ + 1]
    /\ UNCHANGED <<task, jobAt, batch, buffer, archive, mode, errors>>

RetInit ==
    /\ stored \in [Row -> {[table |-> t, old |-> o, closed |-> c, version |-> 0] :
                             t \in Table, o \in BOOLEAN, c \in BOOLEAN}]
    /\ task = 1 /\ jobAt = "select" /\ batch = {} /\ buffer = {} /\ archive = {}
    /\ mode \in [dryRun : BOOLEAN, s3 : BOOLEAN]
    /\ errors = 0 /\ touches = 0

RetNext ==
    \/ \E b \in SUBSET Row : SelectBatch(b) \/ DeleteBatch(b)
    \/ SkipDelete \/ TaskFails \/ CloseArchive \/ KillJob
    \/ \E r \in Row : Touch(r)

RetSpec == RetInit /\ [][RetNext]_retVars

-----------------------------------------------------------------------------
\* Whatever happens between the SELECT and the DELETE of a batch, a row goes only
\* if it is due when it goes: an event that is still to be published, a letter
\* that is owed again and a settlement touched meanwhile stay.
OnlyDueDeleted ==
    [][\A r \in Row : stored[r] # NoStored /\ stored'[r] = NoStored => Due(stored[r])]_retVars

\* "It can archive purged records to local JSONL or S3 before deletion". With S3
\* the upload comes last and fails; with a file the two batches may differ.
DeletedIsArchived ==
    jobAt \in {"done", "failed"} =>
        \A r \in Row : stored[r] = NoStored => \E x \in archive : x[1] = r
=============================================================================
