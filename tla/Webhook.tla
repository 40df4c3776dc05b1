------------------------------ MODULE Webhook ------------------------------
(***************************************************************************)
(* The webhook dispatcher (src/src/webhooks/dispatcher.js) with its client *)
(* certificates (src/src/webhooks/mtls.js). A message is enqueued by the   *)
(* request path or published by the outbox worker; it is delivered by this *)
(* process ("direct"), or put on a Kafka topic and delivered by the        *)
(* consumer group ("kafka"). Every delivery authenticates once, then sends *)
(* with a bounded number of attempts, and gives up into the dead-letter    *)
(* store, where there is one: without DATABASE_URL there is neither that   *)
(* store nor an outbox. Credentials are identified by their generation in  *)
(* the vault.                                                              *)
(***************************************************************************)
EXTENDS Naturals, Sequences, FiniteSets

CONSTANTS
    Msg,          \* messages
    MtlsMsg,      \* the ones whose endpoint has a credential ref (mtls.ref)
    NowhereMsg,   \* messages with no receiver: no url of their own and no default
                  \* one, or something another producer wrote that is no record
    MaxAttempts,  \* maxAttempts of deliverWebhook
    HookKinds,    \* subset of {"direct", "kafka"}
    MaxRotations, \* bound: rotations of the certificate in the vault
    MaxHookFaults \* bound: crashes, stops, broker, vault and insert failures

VARIABLES
    hookKind,
    hasDlq,     \* dlq: there is a dead-letter store
    job,        \* message -> [at, path, tries, pool]
    topic,      \* the Kafka log
    group,      \* the consumer group: committed offset, whether it ever joined
    connected,  \* producer.connect was done
    running,    \* consumer.run was done
    answered,   \* messages a receiver answered with a status below 500
    letters,    \* messages in the dead-letter store
    dropped,    \* history: lost to a crash or to a failed dead-letter insert
    vaultGen,   \* generation of the certificate in the vault
    cached,     \* _cache: [gen, fresh], gen 0 for none
    pools,      \* _agents: generations with a live connection pool
    loading,    \* _inFlight has the ref
    hookFaults

hookVars == <<hookKind, hasDlq, job, topic, group, connected, running, answered, letters,
              dropped, vaultGen, cached, pools, loading, hookFaults>>
setupVars  == <<hookKind, hasDlq>>
brokerVars == <<setupVars, topic, group, connected, running>>
credVars   == <<vaultGen, cached, pools, loading>>
endVars    == <<answered, letters, dropped>>

NoPool == 0
Unsent   == [at |-> "new", path |-> "enqueue", tries |-> 0, pool |-> NoPool]
Deliver(path) == [at |-> "auth", path |-> path, tries |-> 0, pool |-> NoPool]

-----------------------------------------------------------------------------
(* Handing a message over *)

\* Delivery by this process. Without a url, enqueue returns and that is the end;
\* publish throws, and the outbox keeps the row.
Direct(m, path) ==
    CASE m \notin NowhereMsg -> Deliver(path)
      [] m \in NowhereMsg /\ path = "enqueue" -> [Unsent EXCEPT !.at = "done"]
      [] m \in NowhereMsg /\ path = "publish" -> Unsent

\* enqueue (fire and forget) or publish (awaited by the outbox worker, which there
\* is with the same database as the dead-letter store).
Hand(m, path) ==
    /\ job[m].at = "new" /\ (path = "publish" => hasDlq)
    /\ job' = [job EXCEPT ![m] = IF hookKind = "direct" THEN Direct(m, path)
                                 ELSE [Deliver(path) EXCEPT !.at = "broker"]]
    /\ UNCHANGED <<brokerVars, endVars, credVars, hookFaults>>

\* Another producer writes to the topic what the consumer cannot parse or send.
ForeignMessage(m) ==
    /\ hookKind = "kafka" /\ m \in NowhereMsg /\ job[m].at = "new"
    /\ topic' = Append(topic, m)
    /\ job' = [job EXCEPT ![m].at = "queued"]
    /\ UNCHANGED <<setupVars, group, connected, running, endVars, credVars, hookFaults>>

\* producer.send is acknowledged.
BrokerAck(m) ==
    /\ job[m].at = "broker" /\ connected
    /\ topic' = Append(topic, m)
    /\ job' = [job EXCEPT ![m].at = "queued"]
    /\ UNCHANGED <<setupVars, group, connected, running, endVars, credVars, hookFaults>>

\* producer.send fails, as it does before connect: enqueue delivers directly,
\* publish throws and the outbox keeps the row for its next cycle.
BrokerFail(m) ==
    /\ job[m].at = "broker"
    /\ \/ ~connected /\ UNCHANGED hookFaults
       \/ hookFaults < MaxHookFaults /\ hookFaults' = hookFaults + 1
    /\ job' = [job EXCEPT ![m] = IF @.path = "enqueue" THEN Direct(m, "enqueue") ELSE Unsent]
    /\ UNCHANGED <<brokerVars, endVars, credVars>>

\* start: producer.connect, then subscribe and run. The subscription says
\* fromBeginning: false, so a group without a committed offset starts at the end.
Connect ==
    /\ hookKind = "kafka" /\ ~connected
    /\ connected' = TRUE
    /\ UNCHANGED <<setupVars, job, topic, group, running, endVars, credVars, hookFaults>>

\* Mutant: the group starts at the end on every join.
JoinAtEnd ==
    /\ connected /\ ~running
    /\ running' = TRUE
    /\ group' = [known |-> TRUE, offset |-> Len(topic)]
    /\ UNCHANGED <<setupVars, job, topic, connected, endVars, credVars, hookFaults>>

Join ==
    /\ connected /\ ~running
    /\ running' = TRUE
    /\ group' = IF group.known THEN group ELSE [known |-> TRUE, offset |-> Len(topic)]
    /\ UNCHANGED <<setupVars, job, topic, connected, endVars, credVars, hookFaults>>

\* eachMessage: one message at a time, its offset resolved when it returns.
Polls ==
    /\ running /\ group.offset < Len(topic)
    /\ \A m \in Msg : job[m].path = "consumer" => job[m].at = "done"

EachMessage ==
    /\ Polls /\ topic[group.offset + 1] \notin NowhereMsg
    /\ job' = [job EXCEPT ![topic[group.offset + 1]] = Deliver("consumer")]
    /\ UNCHANGED <<brokerVars, endVars, credVars, hookFaults>>

\* A record that is malformed or has no url: it returns at once, and that is all
\* that is ever known of the message.
SkipMessage ==
    /\ Polls /\ topic[group.offset + 1] \in NowhereMsg
    /\ job' = [job EXCEPT ![topic[group.offset + 1]].at = "done"]
    /\ group' = [group EXCEPT !.offset = @ + 1]
    /\ UNCHANGED <<setupVars, topic, connected, running, endVars, credVars, hookFaults>>

-----------------------------------------------------------------------------
(* Authentication: createDeliveryAuthenticator and MtlsCredentialProvider *)

\* getAgent: one pool for an identity, built at its first use.
GetAgent(kept, gen) == kept \cup {gen}

\* _closeAgent: the pool of an identity is destroyed.
CloseAgent(gen) == pools \ {gen}

\* authenticate: no credential ref, a fresh cached credential, or a wait for the
\* one load in flight.
Authenticate(m) ==
    /\ job[m].at = "auth"
    /\ \/ /\ m \notin MtlsMsg
          /\ job' = [job EXCEPT ![m].at = "send"]
          /\ UNCHANGED <<pools, loading>>
       \/ /\ m \in MtlsMsg /\ cached.fresh
          /\ job' = [job EXCEPT ![m].at = "send", ![m].pool = cached.gen]
          /\ pools' = GetAgent(pools, cached.gen)
          /\ UNCHANGED loading
       \/ /\ m \in MtlsMsg /\ ~cached.fresh
          /\ job' = [job EXCEPT ![m].at = "resolve"]
          /\ loading' = TRUE
          /\ UNCHANGED pools
    /\ UNCHANGED <<brokerVars, endVars, vaultGen, cached, hookFaults>>

\* The waiting deliveries go on with one pool, or with none.
Resume(pool) ==
    [m \in Msg |-> IF job[m].at = "resolve"
                   THEN [job[m] EXCEPT !.at = "send", !.pool = pool] ELSE job[m]]

\* Mutant: the pool of the identity before is left open.
LoadedKeeping ==
    /\ loading
    /\ cached' = [gen |-> vaultGen, fresh |-> TRUE]
    /\ pools' = GetAgent(pools, vaultGen)
    /\ job' = Resume(vaultGen) /\ loading' = FALSE
    /\ UNCHANGED <<brokerVars, endVars, vaultGen, hookFaults>>

\* _loadCredentials returns: cached, the pool of the identity before is closed,
\* and getAgent builds the new one.
Loaded ==
    /\ loading
    /\ cached' = [gen |-> vaultGen, fresh |-> TRUE]
    /\ pools' = GetAgent(IF cached.gen # vaultGen THEN CloseAgent(cached.gen) ELSE pools, vaultGen)
    /\ job' = Resume(vaultGen) /\ loading' = FALSE
    /\ UNCHANGED <<brokerVars, endVars, vaultGen, hookFaults>>

\* It throws: signature-only delivery, and nothing is cached.
LoadFails ==
    /\ loading /\ hookFaults < MaxHookFaults
    /\ hookFaults' = hookFaults + 1
    /\ job' = Resume(NoPool) /\ loading' = FALSE
    /\ UNCHANGED <<brokerVars, endVars, vaultGen, cached, pools>>

\* credentialTtlMs passes.
CredentialStale ==
    /\ cached.fresh
    /\ cached' = [cached EXCEPT !.fresh = FALSE]
    /\ UNCHANGED <<brokerVars, endVars, job, vaultGen, pools, loading, hookFaults>>

RotateCertificate ==
    /\ vaultGen <= MaxRotations
    /\ vaultGen' = vaultGen + 1
    /\ UNCHANGED <<brokerVars, endVars, job, cached, pools, loading, hookFaults>>

-----------------------------------------------------------------------------
(* deliverWebhook *)

\* The message is finished; the consumer resolves its offset.
Finish(m) ==
    /\ job' = [job EXCEPT ![m].at = "done"]
    /\ group' = IF job[m].path = "consumer" THEN [group EXCEPT !.offset = @ + 1] ELSE group

\* An answer below 500. A pool closed by a rotation cannot send any more.
AttemptAnswered(m) ==
    /\ job[m].at = "send" /\ job[m].pool \in pools \cup {NoPool}
    /\ answered' = answered \cup {m}
    /\ Finish(m)
    /\ UNCHANGED <<setupVars, topic, connected, running, letters, dropped, credVars, hookFaults>>

\* Mutant: only the last attempt of the consumer is dead-lettered.
GivenUpQuietly(j) ==
    IF j.path = "publish" THEN Unsent
    ELSE [j EXCEPT !.at = IF j.path = "enqueue" THEN "done" ELSE "letter"]

\* After the last attempt: publish throws and the outbox tries again later, the
\* other paths dead-letter.
GivenUp(j) == IF j.path = "publish" THEN Unsent ELSE [j EXCEPT !.at = "letter"]

Tried(j) == [j EXCEPT !.tries = @ + 1]

\* A 5xx or a transport failure: back off and try again while attempts are left.
AttemptFails(m) ==
    /\ job[m].at = "send"
    /\ job' = [job EXCEPT ![m] = LET j == Tried(job[m])
                                 IN IF j.tries < MaxAttempts THEN j ELSE GivenUp(j)]
    /\ UNCHANGED <<brokerVars, endVars, credVars, hookFaults>>

\* isCertificateRejection: gives up at once.
AttemptRejected(m) ==
    /\ job[m].at = "send"
    /\ job' = [job EXCEPT ![m] = GivenUp(Tried(job[m]))]
    /\ UNCHANGED <<brokerVars, endVars, credVars, hookFaults>>

\* recordDeadLetter: nothing without a store, and a failed insert is only logged.
\* (The dead-letter topic is written as well when it is configured; nothing here
\* reads it.)
RecordDeadLetter(m) ==
    /\ job[m].at = "letter"
    /\ \/ ~hasDlq /\ UNCHANGED <<letters, dropped, hookFaults>>
       \/ hasDlq /\ letters' = letters \cup {m} /\ UNCHANGED <<dropped, hookFaults>>
       \/ /\ hasDlq /\ hookFaults < MaxHookFaults
          /\ hookFaults' = hookFaults + 1
          /\ dropped' = dropped \cup {m} /\ UNCHANGED letters
    /\ Finish(m)
    /\ UNCHANGED <<setupVars, topic, connected, running, answered, credVars>>

-----------------------------------------------------------------------------
\* The process dies: what the request path handed over is gone, a published
\* message is still in the outbox, a consumed one is after the group's offset.
HookCrash ==
    /\ hookFaults < MaxHookFaults
    /\ hookFaults' = hookFaults + 1
    /\ LET lost == {m \in Msg : job[m].path = "enqueue"
                                /\ job[m].at \notin {"new", "queued", "done"}}
       IN /\ dropped' = dropped \cup lost
          /\ job' = [m \in Msg |->
               IF job[m].at \in {"new", "queued", "done"} THEN job[m]
               ELSE CASE job[m].path = "enqueue"  -> [job[m] EXCEPT !.at = "done"]
                      [] job[m].path = "publish"  -> Unsent
                      [] job[m].path = "consumer" -> [Unsent EXCEPT !.at = "queued"]]
    /\ connected' = FALSE /\ running' = FALSE
    /\ cached' = [gen |-> 0, fresh |-> FALSE] /\ pools' = {} /\ loading' = FALSE
    /\ UNCHANGED <<setupVars, topic, group, answered, letters, vaultGen>>

\* stop: the consumer finishes its message, then the producer disconnects and the
\* provider drops its credentials and pools. Direct deliveries are not waited for.
HookStop ==
    /\ hookKind = "kafka" => connected
    /\ running => \A m \in Msg : job[m].path = "consumer" => job[m].at = "done"
    /\ hookFaults < MaxHookFaults /\ hookFaults' = hookFaults + 1
    /\ connected' = FALSE /\ running' = FALSE
    /\ cached' = [gen |-> 0, fresh |-> FALSE] /\ pools' = {}
    /\ UNCHANGED <<setupVars, job, topic, group, endVars, vaultGen, loading>>

HookInit ==
    /\ hookKind \in HookKinds /\ hasDlq \in BOOLEAN
    /\ job = [m \in Msg |-> Unsent] /\ topic = <<>>
    /\ group \in [known : BOOLEAN, offset : {0}]
    /\ connected = FALSE /\ running = FALSE
    /\ answered = {} /\ letters = {} /\ dropped = {}
    /\ vaultGen = 1 /\ cached = [gen |-> 0, fresh |-> FALSE]
    /\ pools = {} /\ loading = FALSE /\ hookFaults = 0

HookStep(m) ==
    \/ BrokerAck(m) \/ BrokerFail(m) \/ Authenticate(m) \/ AttemptAnswered(m)
    \/ AttemptFails(m) \/ AttemptRejected(m) \/ RecordDeadLetter(m)

HookNext ==
    \/ \E m \in Msg : \/ Hand(m, "enqueue") \/ Hand(m, "publish") \/ ForeignMessage(m)
                     \/ HookStep(m)
    \/ Connect \/ Join \/ EachMessage \/ SkipMessage \/ Loaded \/ LoadFails \/ CredentialStale
    \/ RotateCertificate \/ HookCrash \/ HookStop

HookSpec == HookInit /\ [][HookNext]_hookVars

-----------------------------------------------------------------------------
\* A message ends where it can be found: a receiver answered it or it is a dead letter.
Found(m) == m \in answered \cup letters

\* Where one may end and leave no trace: a crash of the request path or a failed
\* insert; a deployment without a dead-letter store, after it was tried; and, with
\* nothing to deliver to, any deployment.
Excused(m) ==
    \/ m \in dropped
    \/ ~hasDlq /\ job[m].tries > 0
    \/ m \in NowhereMsg

\* What the dispatcher is done with is found, or excused: with a dead-letter store
\* and no fault, every message that has a receiver is answered or is a dead letter,
\* whichever of the three paths it took. And at most one identity is held for it:
\* whatever order deliveries, expiry and rotations come in, a pool of a certificate
\* that was rotated out is not kept.
HookKept ==
    /\ \A m \in Msg : job[m].at = "done" => Found(m) \/ Excused(m)
    /\ dropped # {} => hookFaults > 0
    /\ pools \subseteq {cached.gen}

Ahead(m) == \E i \in DOMAIN topic : i > group.offset /\ topic[i] = m

\* What the broker acknowledged after the group first had an offset is answered,
\* dead-lettered or lost to a failed insert, across crashes of the consumer and
\* whatever other producers put before it; without a dead-letter store it is at
\* least tried to the end.
AckedIsDelivered ==
    \A m \in Msg \ NowhereMsg :
        (job[m].at = "queued" /\ group.known /\ Ahead(m))
        ~> (Found(m) \/ m \in dropped \/ (~hasDlq /\ job[m].at = "done" /\ job[m].tries > 0))

\* "at-least-once semantics from Kafka offsets": what the broker acknowledged is
\* ahead of the group's offset until it is delivered. Refuted: a group that joins
\* for the first time starts after what was acknowledged before.
AckedIsAhead ==
    \A m \in Msg : job[m].at = "queued" /\ running => Ahead(m)
=============================================================================
