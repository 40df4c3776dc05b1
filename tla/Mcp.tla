-------------------------------- MODULE Mcp --------------------------------
(***************************************************************************)
(* The MCP server of an agent (src/src/mcp/): the stdio transport with one *)
(* line in work at a time and one write in flight, JSON-RPC batches whose  *)
(* members run concurrently, and call_paid_resource, which asks the spend  *)
(* caps, pays, and records what it paid (src/src/mcp/cli.js).              *)
(* A request is named by its line and its place in the line's batch.       *)
(***************************************************************************)
EXTENDS Naturals, Sequences, SequencesExt

CONSTANTS
    Dialogues,   \* what a client may send: sequences of lines
    MaxBatch,    \* maxBatchSize
    CallCap,     \* MAX_FEE_PER_CALL_STROOPS
    SessionCap,  \* MAX_SESSION_SPEND_STROOPS
    Prices,      \* amounts a 402 answer may ask for
    MaxPipe      \* bound: times stdout buffers

\* What a request may be; a line that is no batch holds one.
RequestKind == {"call", "paid", "fault", "unknown", "bad", "note"}

ASSUME McpAssumption ==
    /\ MaxBatch \in Nat \ {0} /\ CallCap \in Nat /\ SessionCap \in Nat /\ Prices \subseteq Nat
    /\ \A d \in Dialogues : /\ d \in Seq([batch : BOOLEAN, members : Seq(RequestKind)])
                            /\ \A i \in DOMAIN d : ~d[i].batch => Len(d[i].members) = 1

VARIABLES
    dialogue,   \* the lines of this connection
    received,   \* lines readline has handed over
    stage,      \* stage[i]: "waiting", "running", "answered" line
    member,     \* member[i][p]: where request p of line i is
    frame,      \* frame[i][p]: the frame it emitted, NoFrame before
    amount,     \* amount[i][p]: what it was asked to pay
    writeQueue, parked, pipe,
    open,       \* _open
    wire,       \* frames on stdout: [line, ids]
    spent       \* sessionSpendStroops

mcpVars == <<dialogue, received, stage, member, frame, amount, writeQueue, parked,
             pipe, open, wire, spent>>
work == <<stage, member, frame, amount, spent>>
output == <<writeQueue, parked, pipe, open, wire>>

NoFrame == "none"
Lines == 1..Len(dialogue)
Members(i) == DOMAIN dialogue[i].members
Kind(i, p) == dialogue[i].members[p]

\* processBatch refuses an empty and an oversized batch as a whole.
Refused(i) == dialogue[i].batch /\ (Members(i) = {} \/ Len(dialogue[i].members) > MaxBatch)

-----------------------------------------------------------------------------
\* rl.on('line').
Receive ==
    /\ open /\ received < Len(dialogue)
    /\ received' = received + 1
    /\ UNCHANGED <<dialogue, work, output>>

\* Mutant: lines are worked on as they come.
TurnAny(i) == i <= received

\* tail: a line starts when the ones before it are done.
Turn(i) == i <= received /\ \A j \in 1..(i - 1) : stage[j] = "answered"

\* _processLine: the whole batch is dispatched at once.
Start(i) ==
    /\ stage[i] = "waiting" /\ Turn(i)
    /\ stage' = [stage EXCEPT ![i] = "running"]
    /\ member' = [member EXCEPT ![i] =
         [p \in Members(i) |-> IF Refused(i) THEN "done" ELSE "dispatched"]]
    /\ UNCHANGED <<dialogue, received, frame, amount, spent, output>>

\* _sendResult and _sendError refuse a frame without an id.
Emitted(i, p, f) == [frame EXCEPT ![i][p] = IF Kind(i, p) = "note" THEN NoFrame ELSE f]

\* Everything _handleRequest answers without waiting for the network: initialize,
\* tools/list, ping, prompts and resources lists, an unknown tool or method, an
\* invalid request; the work of a notification; a resource that asks for no payment.
Handle(i, p) ==
    /\ member[i][p] = "dispatched" /\ Kind(i, p) # "fault"
    /\ member' = [member EXCEPT ![i][p] = "done"]
    /\ frame' = Emitted(i, p, IF Kind(i, p) \in {"call", "paid"} THEN "result" ELSE "error")
    /\ UNCHANGED <<dialogue, received, stage, amount, spent, output>>

\* Mutant: one member that rejects takes the batch with it.
FailsTogether(i, p) ==
    /\ member' = [member EXCEPT ![i] = [q \in Members(i) |-> "done"]]
    /\ frame' = [frame EXCEPT ![i] = [q \in Members(i) |-> NoFrame]]

\* A handler that throws: caught per member, answered with -32603.
Fails(i, p) ==
    /\ member' = [member EXCEPT ![i][p] = "done"]
    /\ frame' = Emitted(i, p, "error")

\* A paid call may fail too: the fetch, the 402 answer, the caller's own maximum.
CallFault(i, p) ==
    /\ member[i][p] = "dispatched" /\ Kind(i, p) \in {"fault", "paid"}
    /\ Fails(i, p)
    /\ UNCHANGED <<dialogue, received, stage, amount, spent, output>>

-----------------------------------------------------------------------------
\* Mutant: only the cap of one call is asked.
CanSpendCall(a) == a <= CallCap

\* assertCanSpend.
CanSpend(a) == a <= CallCap /\ spent + a <= SessionCap

\* call_paid_resource: the unpaid request came back with a price.
Quote(i, p, a) ==
    /\ member[i][p] = "dispatched" /\ Kind(i, p) = "paid" /\ a \in Prices
    /\ IF CanSpend(a)
       THEN /\ member' = [member EXCEPT ![i][p] = "paying"]
            /\ amount' = [amount EXCEPT ![i][p] = a]
            /\ UNCHANGED frame
       ELSE Fails(i, p) /\ UNCHANGED amount
    /\ UNCHANGED <<dialogue, received, stage, spent, output>>

\* The paid request is answered with 200 and the spend is recorded.
Paid(i, p) ==
    /\ member[i][p] = "paying"
    /\ member' = [member EXCEPT ![i][p] = "done"]
    /\ frame' = Emitted(i, p, "result")
    /\ spent' = spent + amount[i][p]
    /\ UNCHANGED <<dialogue, received, stage, amount, output>>

\* Another status, or the deadline of fetchWithTimeout: nothing is recorded.
PaidFails(i, p) ==
    /\ member[i][p] = "paying"
    /\ Fails(i, p)
    /\ UNCHANGED <<dialogue, received, stage, amount, spent, output>>

-----------------------------------------------------------------------------
\* Requests of a line, in the order of its batch.
InOrder(all, some) == SelectSeq([p \in all |-> p], LAMBDA p : p \in some)

Frames(i) == IF Refused(i) THEN <<0>>
             ELSE InOrder(Members(i), {p \in Members(i) : frame[i][p] # NoFrame})

\* Every member settled: the answer goes to the write queue, if there is one.
Answer(i) ==
    /\ stage[i] = "running" /\ \A p \in Members(i) : member[i][p] = "done"
    /\ stage' = [stage EXCEPT ![i] = "answered"]
    /\ writeQueue' = IF Frames(i) = <<>> THEN writeQueue
                     ELSE Append(writeQueue, [line |-> i, ids |-> Frames(i)])
    /\ UNCHANGED <<dialogue, received, member, frame, amount, spent, parked, pipe, open, wire>>

\* One write, the oldest: dropped when the connection is closed, else on the wire; a stream
\* that buffers parks the queue.
Write(full) ==
    /\ writeQueue # <<>> /\ ~parked /\ (full => open /\ pipe < MaxPipe)
    /\ writeQueue' = Tail(writeQueue)
    /\ wire' = IF open THEN Append(wire, Head(writeQueue)) ELSE wire
    /\ parked' = full /\ pipe' = pipe + (IF full THEN 1 ELSE 0)
    /\ UNCHANGED <<dialogue, received, work, open>>

\* Mutant: a parked write is never released.
DrainedNever == parked

\* 'drain' releases the parked write.
Drained == FALSE

Drain ==
    /\ parked
    /\ parked' = Drained
    /\ UNCHANGED <<dialogue, received, work, writeQueue, pipe, open, wire>>

\* EPIPE: the client is gone. The error releases the parked write too.
Disconnect ==
    /\ open
    /\ open' = FALSE /\ parked' = FALSE
    /\ UNCHANGED <<dialogue, received, work, writeQueue, pipe, wire>>

\* rl.on('close'): stdin ended.
StdinEnds ==
    /\ open /\ received = Len(dialogue)
    /\ open' = FALSE
    /\ UNCHANGED <<dialogue, received, work, writeQueue, parked, pipe, wire>>

-----------------------------------------------------------------------------
\* The state of a new connection that is going to send d.
Connected(d) ==
    /\ dialogue = d /\ received = 0 /\ stage = [i \in DOMAIN d |-> "waiting"]
    /\ member = [i \in DOMAIN d |-> [p \in DOMAIN d[i].members |-> "new"]]
    /\ frame = [i \in DOMAIN d |-> [p \in DOMAIN d[i].members |-> NoFrame]]
    /\ amount = [i \in DOMAIN d |-> [p \in DOMAIN d[i].members |-> 0]]
    /\ writeQueue = <<>> /\ parked = FALSE /\ pipe = 0 /\ open = TRUE /\ wire = <<>>
    /\ spent = 0

McpInit == \E d \in Dialogues : Connected(d)

Step(i) ==
    \/ Start(i) \/ Answer(i)
    \/ \E p \in Members(i) :
         Handle(i, p) \/ CallFault(i, p) \/ Paid(i, p) \/ PaidFails(i, p)
         \/ \E a \in Prices : Quote(i, p, a)

McpNext ==
    \/ Receive \/ Drain \/ Disconnect \/ StdinEnds
    \/ \E full \in BOOLEAN : Write(full)
    \/ \E i \in Lines : Step(i)

McpSpec == McpInit /\ [][McpNext]_mcpVars

-----------------------------------------------------------------------------
\* Responses leave in the order of the requests: lines in the order they came,
\* each answered once, and in a batch every member that is not a notification,
\* in the order of the batch, however its calls interleaved. And the spend that
\* is recorded passes the session budget only by what was under way when it was
\* asked: the other members of the batch, one call cap each. (What a paid call
\* that was answered with another status than 200 cost is not recorded.)
SessionKept ==
    /\ \A j, k \in DOMAIN wire : j < k => wire[j].line < wire[k].line
    /\ \A k \in DOMAIN wire : LET i == wire[k].line IN
         ~Refused(i) => wire[k].ids = InOrder(Members(i), {p \in Members(i) : Kind(i, p) # "note"})
    /\ spent <= SessionCap + (MaxBatch - 1) * CallCap

\* Every line that asks for an answer gets one while the client stays: a member
\* that fails, a parked write or a refused batch stops nothing.
EveryLineAnswered ==
    \A n \in UNION {DOMAIN d : d \in Dialogues} :
      (n \in Lines /\ received >= n
         /\ (Refused(n) \/ \E p \in Members(n) : Kind(n, p) # "note"))
        ~> (~open \/ \E k \in DOMAIN wire : wire[k].line = n)

\* cli.js: "assertCanSpend refuses before any money moves". The members of a batch
\* all ask before the first of them records.
SessionCapKept == spent <= SessionCap

\* server.js: at the end of stdin "responses already handed to _write keep the
\* event loop alive until the stream drains". A parked queue drops them.
HandedOverIsWritten ==
    \A i \in Lines : stage[i] = "answered" /\ ~Refused(i) /\ Frames(i) # <<>>
       /\ writeQueue = <<>> => \E k \in DOMAIN wire : wire[k].line = i
=============================================================================
