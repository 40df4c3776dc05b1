----------------------------- MODULE Projection -----------------------------
(***************************************************************************)
(* The streaming pipeline of the settlement read model                     *)
(* (src/src/settlement-cqrs.js, run by eventstore/projection-worker.js): a  *)
(* worker that reads the event log after its offset, replays every          *)
(* settlement it meets into a read table and then moves its checkpoint.    *)
(* seq counts within a settlement, while the offset is one number for all. *)
(* A row is modelled by how many events of its settlement it reflects.     *)
(***************************************************************************)
EXTENDS Naturals, FiniteSetsExt

CONSTANTS
    Settlement,
    BatchSize,   \* batchSize
    MaxEvents,   \* bound: events of one settlement
    MaxCrash,    \* bound: times the worker process dies
    MaxErrors    \* bound: statements that fail

VARIABLES
    appended,   \* settlement -> events in the log (their seqs are 1..)
    readModel,  \* settlement -> events its row reflects, 0 for no row
    checkpoint, \* last_seq of the checkpoint table
    offset,     \* currentOffset of the running worker
    todo,       \* settlement -> its highest seq in the batch, 0 when not in it
    fetched,    \* the settlement in work and how much of its log was read, or NoFetch
    lastSeq,    \* lastSeq of processBatch
    phase,      \* "poll", "project", "checkpoint", "down"
    crashes, errors

projVars == <<appended, readModel, checkpoint, offset, todo, fetched, lastSeq,
              phase, crashes, errors>>

NoFetch == <<"none", 0>>

-----------------------------------------------------------------------------
\* Another event is recorded; the log is the settlement store's.
AppendEvent(s) ==
    /\ appended[s] < MaxEvents
    /\ appended' = [appended EXCEPT ![s] = @ + 1]
    /\ UNCHANGED <<readModel, checkpoint, offset, todo, fetched, lastSeq, phase,
                   crashes, errors>>

\* The events after the offset.
EventsAfter(o) == {<<s, n>> \in Settlement \X (1..MaxEvents) : n <= appended[s] /\ n > o}

\* A possible answer of the SELECT: the lowest seqs, ties in any order.
Batches(o) ==
    LET all  == EventsAfter(o)
        size == IF Cardinality(all) < BatchSize THEN Cardinality(all) ELSE BatchSize
    IN {b \in kSubset(size, all) :
          \A x \in b, y \in all \ b : x[2] <= y[2]}

\* Mutant: starts at the offset instead of after it, and skips what it has seen.
ReadBatchFrom ==
    /\ phase = "poll"
    /\ \E b \in Batches(offset + 1) :
         todo' = [s \in Settlement |-> Max({0} \cup {x[2] : x \in {y \in b : y[1] = s}})]
    /\ lastSeq' = offset
    /\ phase' = "project"
    /\ UNCHANGED <<appended, readModel, checkpoint, offset, fetched, crashes, errors>>

\* readBatch, and the grouping by settlement.
ReadBatch ==
    /\ phase = "poll" /\ EventsAfter(offset) # {}
    /\ \E b \in Batches(offset) :
         todo' = [s \in Settlement |-> Max({0} \cup {x[2] : x \in {y \in b : y[1] = s}})]
    /\ lastSeq' = offset
    /\ phase' = "project"
    /\ UNCHANGED <<appended, readModel, checkpoint, offset, fetched, crashes, errors>>

\* fetchAllEventsForKey: the whole log of one of the batch's settlements.
FetchEvents(s) ==
    /\ phase = "project" /\ fetched = NoFetch /\ todo[s] > 0
    /\ fetched' = <<s, appended[s]>>
    /\ UNCHANGED <<appended, readModel, checkpoint, offset, todo, lastSeq, phase,
                   crashes, errors>>

\* writeProjection: the row gets what was read, which may be behind the log by now.
WriteProjection(s) ==
    /\ phase = "project" /\ fetched[1] = s
    /\ readModel' = [readModel EXCEPT ![s] = fetched[2]]
    /\ lastSeq' = Max({lastSeq, todo[s]})
    /\ todo' = [todo EXCEPT ![s] = 0]
    /\ fetched' = NoFetch
    /\ UNCHANGED <<appended, checkpoint, offset, phase, crashes, errors>>

\* One of the two fails: the settlement is passed over.
ProjectError(s) ==
    /\ phase = "project" /\ todo[s] > 0 /\ fetched[1] \in {s, NoFetch[1]}
    /\ errors < MaxErrors
    /\ errors' = errors + 1
    /\ todo' = [todo EXCEPT ![s] = 0]
    /\ fetched' = NoFetch
    /\ UNCHANGED <<appended, readModel, checkpoint, offset, lastSeq, phase, crashes>>

\* updateCheckpoint, when something was processed; the table first.
SaveCheckpoint ==
    /\ phase = "project" /\ \A s \in Settlement : todo[s] = 0
    /\ IF lastSeq > offset
       THEN checkpoint' = lastSeq /\ phase' = "checkpoint"
       ELSE phase' = "poll" /\ UNCHANGED checkpoint
    /\ UNCHANGED <<appended, readModel, offset, todo, fetched, lastSeq, crashes, errors>>

\* The UPDATE returns, and the worker's own offset follows.
AdoptCheckpoint ==
    /\ phase = "checkpoint"
    /\ offset' = checkpoint
    /\ phase' = "poll"
    /\ UNCHANGED <<appended, readModel, checkpoint, todo, fetched, lastSeq, crashes,
                   errors>>

\* The SELECT or the UPDATE fails: the loop goes on with the offset it has.
BatchError ==
    /\ phase = "project" /\ errors < MaxErrors
    /\ \A s \in Settlement : todo[s] = 0
    /\ errors' = errors + 1 /\ phase' = "poll"
    /\ UNCHANGED <<appended, readModel, checkpoint, offset, todo, fetched, lastSeq,
                   crashes>>

CrashWorker ==
    /\ phase # "down" /\ crashes < MaxCrash
    /\ crashes' = crashes + 1 /\ phase' = "down"
    /\ todo' = [s \in Settlement |-> 0] /\ fetched' = NoFetch
    /\ UNCHANGED <<appended, readModel, checkpoint, offset, lastSeq, errors>>

\* initialize of CheckpointManager.
RestartWorker ==
    /\ phase = "down" /\ phase' = "poll"
    /\ offset' = checkpoint
    /\ UNCHANGED <<appended, readModel, checkpoint, todo, fetched, lastSeq, crashes,
                   errors>>

-----------------------------------------------------------------------------
ProjInit ==
    /\ appended = [s \in Settlement |-> 0] /\ readModel = [s \in Settlement |-> 0]
    /\ checkpoint = 0 /\ offset = 0 /\ lastSeq = 0
    /\ todo = [s \in Settlement |-> 0] /\ fetched = NoFetch
    /\ phase = "poll" /\ crashes = 0 /\ errors = 0

WorkerStep == ReadBatch \/ (\E s \in Settlement : FetchEvents(s) \/ WriteProjection(s))
              \/ SaveCheckpoint \/ AdoptCheckpoint \/ RestartWorker

ProjNext == WorkerStep \/ BatchError \/ CrashWorker
            \/ \E s \in Settlement : AppendEvent(s) \/ ProjectError(s)

ProjSpec == ProjInit /\ [][ProjNext]_projVars

-----------------------------------------------------------------------------
\* Recovery: the settlement with more events than any other is caught up with in
\* the end, through crashes and failing statements.
LongestCatchesUp ==
    <>[](\A s \in Settlement :
           (\A q \in Settlement \ {s} : appended[q] < appended[s])
           => readModel[s] = appended[s])

\* "Out-of-order events across settlements: Each settlement is projected
\* independently, order doesn't matter": every settlement is caught up with.
\* Refuted: the offset of a long settlement passes the first events of a new one.
EveryoneCatchesUp ==
    <>[](\A s \in Settlement : readModel[s] = appended[s])
=============================================================================
