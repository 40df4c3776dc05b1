------------------------------ MODULE MCLoops ------------------------------
(***************************************************************************)
(* What a process does over time: the regions' count, the projection       *)
(* worker, an agent's MCP session, the alert on the dead-letter backlog,   *)
(* and the process's own life. The parts share no state, so a behaviour    *)
(* moves one of them and the others stay as they start.                    *)
(***************************************************************************)
EXTENDS CrdtCounter, Projection, Mcp, Lifecycle, DeadLetter

CONSTANTS l1, l2, w1, w2, p1

VARIABLE part

Single(kind) == [batch |-> FALSE, members |-> <<kind>>]
Batch(kinds) == [batch |-> TRUE, members |-> kinds]

\* A payment and a batch of them; a batch with a fault and a notification; lines
\* that are refused, invalid or ask for nothing; and an oversized batch.
Sessions ==
    {<<Single("paid"), Batch(<<"paid", "paid", "paid">>)>>,
     <<Batch(<<"paid", "fault", "note">>), Single("unknown")>>,
     <<Batch(<<>>), Single("bad"), Single("note")>>,
     <<Batch(<<"call", "call", "call", "call">>), Single("call")>>}

\* Overlapping retry cycles of one process.
OneHost == [a \in Worker \cup Replay |-> p1]

Parts == {"regions", "worker", "agent", "process", "alert"}

LoopsInit ==
    /\ part \in Parts
    /\ CrdtInit /\ ProjInit /\ McpInit /\ LifeInit /\ Init
    /\ part # "agent" => Connected(<<Single("paid"), Batch(<<"paid", "paid", "paid">>)>>)

LoopsNext ==
    /\ UNCHANGED part
    /\ IF part = "regions" THEN CrdtNext ELSE UNCHANGED crdtVars
    /\ IF part = "worker" THEN ProjNext ELSE UNCHANGED projVars
    /\ IF part = "agent" THEN McpNext ELSE UNCHANGED mcpVars
    /\ IF part = "process" THEN LifeNext ELSE UNCHANGED lifeVars
    /\ IF part = "alert" THEN Next ELSE UNCHANGED vars

\* The sync interval fires and statements return.
RegionsFair == \A r \in Region, k \in SyncRun :
    WF_crdtVars(part = "regions" /\ SyncStep(r, k))

\* The loop goes on, and the worker's process is restarted when it dies.
WorkerFair == WF_projVars(part = "worker" /\ WorkerStep)

\* Promises settle (every fetch has a deadline), and a client that is connected
\* reads its pipe.
AgentFair ==
    /\ WF_mcpVars(part = "agent" /\ \E i \in Lines : Step(i))
    /\ WF_mcpVars(part = "agent" /\ \E full \in BOOLEAN : Write(full))
    /\ WF_mcpVars(part = "agent" /\ Drain)

\* The event loop runs its timers and what is ready. A handler may never answer.
ProcessFair ==
    \A s \in Signals : /\ WF_lifeVars(part = "process" /\ DrainStep(s))
                       /\ WF_lifeVars(part = "process" /\ Exit(s))
                       /\ WF_lifeVars(part = "process" /\ Deadline(s))

\* Retry cycles start and their statements and publishes return; backoffs elapse.
AlertFair ==
    /\ \A w \in Worker : WF_vars(part = "alert" /\ Cycle(w))
    /\ \A l \in Letter : WF_vars(part = "alert" /\ Elapse(l))

LoopsSpec ==
    /\ LoopsInit
    /\ [][LoopsNext]_<<part, crdtVars, projVars, mcpVars, lifeVars, vars>>
    /\ RegionsFair /\ WorkerFair /\ AgentFair /\ ProcessFair /\ AlertFair
=============================================================================
