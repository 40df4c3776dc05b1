----------------------------- MODULE EventStore -----------------------------
(***************************************************************************)
(* The event-sourced settlement store (src/src/store/postgres.js over      *)
(* store/memory.js and eventstore/): an append-only log per settlement, the *)
(* projection table that the write statements keep beside it, a replica of *)
(* the table, the copy every pod keeps of its own writes, the consistency- *)
(* aware read of the status route, and the repair that replays a log. A    *)
(* read takes several awaits, and writes, repairs, a lagging replica and   *)
(* the loss of Postgres come between them.                                 *)
(* Settle has the same table without its log; here the question is whether *)
(* the table, the copies and the log tell the same story.                  *)
(***************************************************************************)
EXTENDS Naturals, SequencesExt

CONSTANTS
    StoreKey, StorePod,
    ReadingPod,    \* bound: the pods that serve the status route
    Nil,           \* SQL NULL, JavaScript null
    MaxLog,        \* bound: events of one settlement
    MaxOffline,    \* bound: events of one in a degraded pod's memory
    MaxRebuilds,   \* bound: repairs started
    MaxDrops,      \* bound: projection rows deleted for repair
    MaxStoreFaults \* bound: pods that degrade

VARIABLES
    events,     \* key -> settlement_events of the key, by seq
    projections,\* key -> row of settlement_projections
    replicated, \* key -> the row as the replica has it
    ownWrites,  \* pod -> key -> the events in the pod's memory
    unacked,    \* pod -> a write whose answer has not come back, or NoWrite
    offline,    \* pod -> degraded
    rebuilding, \* key -> the log a repair has read, or NoReplay
    lookup,     \* the getConsistent under way, or the last answer
    raced,      \* history: key -> an event came between a repair's read and write
    author,     \* history: key -> the pod whose write the row is, or Nil
    rebuilds, drops

storeVars == <<events, projections, replicated, ownWrites, unacked, offline,
               rebuilding, lookup, raced, author, rebuilds, drops>>

NoRow   == [state |-> "none", tx |-> Nil, reason |-> Nil]
NoReplay == <<>>
NoWrite == [key |-> Nil, event |-> Nil]
\* "kept" and "still" are history: the row has been in the primary since the read
\* began; nothing that the read may look at has changed since. An answer is looked
\* at as it is given, and forgotten with the next change.
NoLookup  == [at |-> "none", pod |-> Nil, key |-> Nil, row |-> NoRow,
            kept |-> FALSE, still |-> FALSE]

\* createSettlementEvent: the types, with the columns that differ between them.
EventOf == {[type |-> "initiated", tx |-> t, reason |-> Nil] : t \in {Nil, "hash"}}
      \cup {[type |-> "settled", tx |-> "hash", reason |-> Nil],
            [type |-> "failed", tx |-> Nil, reason |-> "reason"],
            [type |-> "unknown", tx |-> Nil, reason |-> "reason"]}

\* STATE_BY_EVENT_TYPE
StateOf(type) == IF type = "initiated" THEN "submitted" ELSE type

Coalesce(a, b) == IF a = Nil THEN b ELSE a

\* applyEvent, the canonical fold: Initiated starts over, the others build on
\* what there is, or on a seed.
ApplyEvent(p, e) ==
    IF e.type = "initiated"
    THEN [state |-> "submitted", tx |-> e.tx, reason |-> Nil]
    ELSE [state |-> StateOf(e.type), tx |-> Coalesce(e.tx, p.tx),
          reason |-> Coalesce(e.reason, p.reason)]

\* projectSettlement
Fold[log \in Seq(EventOf)] ==
    IF log = <<>> THEN NoRow ELSE ApplyEvent(Fold[Front(log)], Last(log))

\* Mutant: the upsert keeps the columns it is not given.
SqlSavedKeeping(row, e) ==
    [state |-> "submitted", tx |-> Coalesce(e.tx, row.tx), reason |-> row.reason]

\* The upsert of save.
SqlSaved(row, e) == [state |-> "submitted", tx |-> e.tx, reason |-> Nil]

\* The UPDATE of updateState and settleAndEnqueue.
SqlUpdated(row, e) == [state |-> e.type, tx |-> Coalesce(e.tx, row.tx),
                       reason |-> Coalesce(e.reason, row.reason)]

\* MemoryStore's save and updateState: an update of an unknown key does nothing.
Remembered(log, e) ==
    IF e.type = "initiated" \/ log # <<>> THEN Append(log, e) ELSE log

-----------------------------------------------------------------------------
\* A read under way may see k otherwise from now on.
Disturb(k) ==
    lookup' = IF lookup.at = "answered" THEN NoLookup
              ELSE IF lookup.key # k THEN lookup
              ELSE [lookup EXCEPT !.still = FALSE,
                                  !.kept = lookup.kept /\ projections'[k] # NoRow]

\* save, updateState and settleAndEnqueue: event and projection in one statement,
\* and nothing for an update of a missing row.
WriteEvent(p, k, e) ==
    /\ ~offline[p] /\ unacked[p] = NoWrite /\ Len(events[k]) < MaxLog
    /\ e.type = "initiated" \/ projections[k] # NoRow
    /\ events' = [events EXCEPT ![k] = Append(@, e)]
    /\ projections' = [projections EXCEPT ![k] =
                         IF e.type = "initiated" THEN SqlSaved(@, e)
                         ELSE SqlUpdated(@, e)]
    /\ unacked' = [unacked EXCEPT ![p] = [key |-> k, event |-> e]]
    /\ raced' = [raced EXCEPT ![k] = @ \/ rebuilding[k] # NoReplay]
    /\ author' = [author EXCEPT ![k] = p] /\ Disturb(k)
    /\ UNCHANGED <<replicated, ownWrites, offline, rebuilding, rebuilds, drops>>

\* The answer arrives; the pod's copy follows.
Acknowledge(p) ==
    /\ unacked[p] # NoWrite
    /\ ownWrites' = [ownWrites EXCEPT ![p][unacked[p].key] =
                       Remembered(@, unacked[p].event)]
    /\ unacked' = [unacked EXCEPT ![p] = NoWrite]
    /\ UNCHANGED <<events, projections, replicated, offline, rebuilding, raced,
                   author, rebuilds, drops>>
    /\ Disturb(unacked[p].key)

\* A statement fails, also with the unique violation of two appends that
\* computed one seq: the pod writes its memory from now on.
GoOffline(p) ==
    /\ ~offline[p] /\ Cardinality({q \in StorePod : offline[q]}) < MaxStoreFaults
    /\ offline' = [offline EXCEPT ![p] = TRUE]
    /\ UNCHANGED <<events, projections, replicated, ownWrites, unacked,
                   rebuilding, lookup, raced, author, rebuilds, drops>>

\* The process restarts, with an empty memory.
RestartPod(p) ==
    /\ ownWrites' = [ownWrites EXCEPT ![p] = [k \in StoreKey |-> <<>>]]
    /\ unacked' = [unacked EXCEPT ![p] = NoWrite]
    /\ offline' = [offline EXCEPT ![p] = FALSE]
    /\ lookup' = IF lookup.pod = p THEN NoLookup ELSE lookup
    /\ UNCHANGED <<events, projections, replicated, rebuilding, raced, author,
                   rebuilds, drops>>

\* The write of a degraded pod.
WriteOffline(p, k, e) ==
    /\ offline[p] /\ unacked[p] = NoWrite /\ Len(ownWrites[p][k]) < MaxOffline
    /\ ownWrites' = [ownWrites EXCEPT ![p][k] = Remembered(@, e)]
    /\ UNCHANGED <<events, projections, replicated, unacked, offline, rebuilding,
                   raced, author, rebuilds, drops>>
    /\ Disturb(k)

ReplicateRow(k) ==
    /\ replicated[k] # projections[k]
    /\ replicated' = [replicated EXCEPT ![k] = projections[k]]
    /\ UNCHANGED <<events, projections, ownWrites, unacked, offline, rebuilding,
                   raced, author, rebuilds, drops>>
    /\ Disturb(k)

\* An operator deletes a read-model row that is to be rebuilt.
DropProjection(k) ==
    /\ drops < MaxDrops /\ projections[k] # NoRow
    /\ drops' = drops + 1
    /\ projections' = [projections EXCEPT ![k] = NoRow]
    /\ author' = [author EXCEPT ![k] = Nil] /\ Disturb(k)
    /\ UNCHANGED <<events, replicated, ownWrites, unacked, offline, rebuilding,
                   raced, rebuilds>>

\* rebuildProjection reads the log ...
RebuildRead(k) ==
    /\ rebuilds < MaxRebuilds /\ rebuilding[k] = NoReplay /\ events[k] # <<>>
    /\ rebuilds' = rebuilds + 1
    /\ rebuilding' = [rebuilding EXCEPT ![k] = events[k]]
    /\ UNCHANGED <<events, projections, replicated, ownWrites, unacked, offline,
                   lookup, raced, author, drops>>

\* ... and overwrites the row with its fold, whatever came in between.
RebuildWrite(k) ==
    /\ rebuilding[k] # NoReplay
    /\ projections' = [projections EXCEPT ![k] = Fold[rebuilding[k]]]
    /\ rebuilding' = [rebuilding EXCEPT ![k] = NoReplay]
    /\ author' = [author EXCEPT ![k] = Nil] /\ Disturb(k)
    /\ UNCHANGED <<events, replicated, ownWrites, unacked, offline, raced,
                   rebuilds, drops>>

-----------------------------------------------------------------------------
(* getConsistent. One read is followed at a time, by any pod: reads change       *)
(* nothing but, when the primary fails one, the pod's mode.                      *)

dataVars == <<events, projections, replicated, ownWrites, unacked, rebuilding, raced,
              author, rebuilds, drops>>

Answer(row) == [lookup EXCEPT !.at = "answered", !.row = row]

\* The pod's own copy first; a degraded pod has nothing else.
ReadOwn(p, k) ==
    /\ p \in ReadingPod /\ lookup.at \in {"none", "answered"}
    /\ LET own == Fold[ownWrites[p][k]]
       IN lookup' = [at |-> IF own # NoRow \/ offline[p] THEN "answered" ELSE "replica",
                   pod |-> p, key |-> k, row |-> own,
                   kept |-> projections[k] # NoRow, still |-> TRUE]
    /\ UNCHANGED <<dataVars, offline>>

\* Mutant: the replica has the last word.
ReadReplicaOnly ==
    /\ lookup.at = "replica"
    /\ lookup' = Answer(replicated[lookup.key])
    /\ UNCHANGED <<dataVars, offline>>

\* The replica's row. A missing one is asked for again until replicaLagMs are over,
\* and then, or when the replica refuses or there is none, the primary is.
ReadReplica ==
    /\ lookup.at = "replica"
    /\ \/ replicated[lookup.key] # NoRow /\ lookup' = Answer(replicated[lookup.key])
       \/ lookup' = [lookup EXCEPT !.at = "primary"]
    /\ UNCHANGED <<dataVars, offline>>

ReadPrimary ==
    /\ lookup.at = "primary"
    /\ lookup' = Answer(projections[lookup.key])
    /\ UNCHANGED <<dataVars, offline>>

\* The statement fails: the pod degrades, and what its memory has by now is the answer.
ReadFails ==
    /\ lookup.at = "primary"
    /\ offline[lookup.pod] \/ Cardinality({q \in StorePod : offline[q]}) < MaxStoreFaults
    /\ offline' = [offline EXCEPT ![lookup.pod] = TRUE]
    /\ lookup' = Answer(Fold[ownWrites[lookup.pod][lookup.key]])
    /\ UNCHANGED dataVars

-----------------------------------------------------------------------------
StoreInit ==
    /\ events = [k \in StoreKey |-> <<>>]
    /\ projections = [k \in StoreKey |-> NoRow]
    /\ replicated = [k \in StoreKey |-> NoRow]
    /\ ownWrites = [p \in StorePod |-> [k \in StoreKey |-> <<>>]]
    /\ unacked = [p \in StorePod |-> NoWrite]
    /\ offline = [p \in StorePod |-> FALSE]
    /\ rebuilding = [k \in StoreKey |-> NoReplay]
    /\ raced = [k \in StoreKey |-> FALSE] /\ author = [k \in StoreKey |-> Nil]
    /\ lookup = NoLookup
    /\ rebuilds = 0 /\ drops = 0

StoreNext ==
    \/ \E p \in StorePod :
          \/ Acknowledge(p) \/ GoOffline(p) \/ RestartPod(p)
          \/ \E k \in StoreKey : ReadOwn(p, k)
          \/ \E k \in StoreKey, e \in EventOf :
                WriteEvent(p, k, e) \/ WriteOffline(p, k, e)
    \/ \E k \in StoreKey : ReplicateRow(k) \/ DropProjection(k)
                           \/ RebuildRead(k) \/ RebuildWrite(k)
    \/ ReadReplica \/ ReadPrimary \/ ReadFails

StoreSpec == StoreInit /\ [][StoreNext]_storeVars

-----------------------------------------------------------------------------
\* "If a store's read model disagrees with this fold, the read model is wrong":
\* the columns the write statements compute with COALESCE are those of the fold
\* of the log, through retries, repairs and deleted rows - unless an event was
\* appended while a repair of the same settlement was under way.
ProjectionIsFold ==
    \A k \in StoreKey :
        ~raced[k] /\ projections[k] # NoRow => projections[k] = Fold[events[k]]

\* The status route answers 404 only for a settlement that is not there: when the
\* read began the row was not in the primary, or a repair deleted it before the answer,
\* or Postgres failed this pod. A row written by another pod that the replica has not
\* got, or has lost, is found, whatever is written between the lookup's awaits.
NoFalseMiss ==
    lookup.at = "answered" /\ lookup.kept /\ ~offline[lookup.pod] => lookup.row # NoRow

\* docs/DEPLOYMENT.md: "A row this process just wrote is always served from that
\* process's in-memory copy - a replica read never touches our own fresh write."
\* Refuted: MemorySettlementStore.updateState does nothing for a row that another
\* process, or this one before its restart, had saved, so the process that settles it
\* has no copy of its own and is served the replica's row from before.
OwnWriteServed ==
    lookup.at = "answered" /\ lookup.still /\ ~offline[lookup.pod]
      /\ author[lookup.key] = lookup.pod /\ unacked[lookup.pod] = NoWrite
        => lookup.row = projections[lookup.key]

\* docs/DEPLOYMENT.md, of no replica: "single pool, reads and writes on the primary -
\* this is the zero-config default and always correct". With a replica that has caught
\* up, or none, and no write during the read, it is the row. Refuted: a pod's own copy,
\* which comes first, knows nothing of what the other pods wrote after it, for as long as
\* the process lives.
ReadsAreCurrent ==
    lookup.at = "answered" /\ lookup.still /\ ~offline[lookup.pod]
      /\ author[lookup.key] # Nil /\ replicated[lookup.key] = projections[lookup.key]
      /\ unacked[lookup.pod] = NoWrite
        => lookup.row = projections[lookup.key]
=============================================================================
