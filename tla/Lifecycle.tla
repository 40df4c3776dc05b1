----------------------------- MODULE Lifecycle -----------------------------
(***************************************************************************)
(* The life of one process: boot and listen (src/src/server.js), requests  *)
(* in flight and the /readyz probe (src/src/app.js, src/src/readiness.js), *)
(* the drain a signal starts with its grace deadline, and the fatal        *)
(* handlers (src/src/process-handlers.js). A signal may come again while   *)
(* the first drain runs: shutdown() is not guarded, so the drains race and *)
(* the first to end calls process.exit.                                    *)
(***************************************************************************)
EXTENDS Naturals, Sequences

CONSTANTS
    Dep,          \* what readiness asks: RPC, signers, database, the catalogue
    Fatal,        \* those whose trouble makes the instance not ready
    Signals,      \* the signals the process may get: 1..n
    MaxRequests,  \* bound: requests in flight at a time
    MaxOutages    \* bound: times a dependency goes down

ASSUME LifeAssumption == Fatal \subseteq Dep /\ MaxRequests \in Nat

VARIABLES
    process,   \* "booting", "up", "exit0", "exit1"
    drain,     \* drain[s]: step of shutdown(s), 0 before it
    ended,     \* resources that are closed
    active,    \* activeRequestCount
    timedOut,  \* the exit came from the deadline
    downDeps, downs,
    cached,    \* readiness cache: "none", "ok", "bad"
    shutting,  \* isShuttingDown
    probe      \* the probe: where it is, what it found, whether it came after a signal

lifeVars == <<process, drain, ended, active, timedOut, downDeps, downs, cached,
              shutting, probe>>

\* The awaits of the drain, in order. Steps that repeat an idempotent close are
\* kept: the drain passes through them before it would flush the audit log.
Steps == <<"timers", "app", "webhooks", "lock", "crdt", "workers", "dlqPool",
           "vaultPool", "app", "tracing", "metrics", "webhooks", "lock", "crdt",
           "searchCache", "rateLimiter", "audit", "fetch">>

\* `rateLimiter?.close?.().catch(...)`: close is not async and returns undefined,
\* so once it has run the chained call throws a TypeError.
Throws(step) == step = "rateLimiter"

IdleProbe == [pc |-> "idle", left |-> {}, sawBad |-> FALSE, late |-> FALSE, down |-> {}]
Closing == \E s \in Signals : drain[s] >= 2
Draining(s) == process = "up" /\ drain[s] \in DOMAIN Steps

-----------------------------------------------------------------------------
\* app.listen: a port that cannot be bound exits with 1.
Listen(bound) ==
    /\ process = "booting"
    /\ process' = IF bound THEN "up" ELSE "exit1"
    /\ UNCHANGED <<drain, ended, active, timedOut, downDeps, downs, cached, shutting, probe>>

\* onRequest and onResponse count what is in flight; once app.close is called no
\* connection is accepted any more.
Request ==
    /\ process = "up" /\ ~Closing /\ active < MaxRequests
    /\ active' = active + 1
    /\ UNCHANGED <<process, drain, ended, timedOut, downDeps, downs, cached, shutting, probe>>

Response ==
    /\ process = "up" /\ active > 0
    /\ active' = active - 1
    /\ UNCHANGED <<process, drain, ended, timedOut, downDeps, downs, cached, shutting, probe>>

-----------------------------------------------------------------------------
\* SIGTERM, SIGINT: setShuttingDown, then the drain.
Signal(s) ==
    /\ process = "up" /\ drain[s] = 0 /\ \A t \in Signals : t < s => drain[t] > 0
    /\ drain' = [drain EXCEPT ![s] = 1]
    /\ shutting' = TRUE /\ cached' = "none"
    /\ UNCHANGED <<process, ended, active, timedOut, downDeps, downs, probe>>

\* Mutant: the drain does not wait for requests in flight.
ResolvesAtOnce(s) == TRUE

\* app.close resolves when the requests in flight are answered; the other steps
\* wait for nothing the process itself has to do.
Resolves(s) == Steps[drain[s]] = "app" => active = 0 /\ probe.pc = "idle"

\* What throws is logged by the drain's own catch, and the drain is over.
NextStep(s) == IF Throws(Steps[drain[s]]) THEN Len(Steps) + 1 ELSE drain[s] + 1

\* One step of a drain ends.
DrainStep(s) ==
    /\ Draining(s) /\ Resolves(s)
    /\ ended' = ended \union {Steps[drain[s]]}
    /\ drain' = [drain EXCEPT ![s] = NextStep(s)]
    /\ UNCHANGED <<process, active, timedOut, downDeps, downs, cached, shutting, probe>>

\* The race is over: shutdownPromise has resolved.
Exit(s) ==
    /\ process = "up" /\ drain[s] > Len(Steps)
    /\ process' = "exit0"
    /\ UNCHANGED <<drain, ended, active, timedOut, downDeps, downs, cached, shutting, probe>>

\* Mutant: the timer only logs, the drain is awaited without it.
DeadlineLogs(s) == FALSE /\ UNCHANGED lifeVars

\* The grace timer fires first: exit with requests still in flight.
Deadline(s) ==
    /\ process = "up" /\ drain[s] > 0
    /\ process' = "exit0" /\ timedOut' = TRUE
    /\ UNCHANGED <<drain, ended, active, downDeps, downs, cached, shutting, probe>>

\* unhandledRejection, uncaughtException, the metrics listener's error event.
FatalError ==
    /\ process = "up"
    /\ process' = "exit1"
    /\ UNCHANGED <<drain, ended, active, timedOut, downDeps, downs, cached, shutting, probe>>

-----------------------------------------------------------------------------
DepDown(d) ==
    /\ process = "up" /\ d \notin downDeps /\ downs < MaxOutages
    /\ downDeps' = downDeps \union {d} /\ downs' = downs + 1
    /\ UNCHANGED <<process, drain, ended, active, timedOut, cached, shutting, probe>>

DepUp(d) ==
    /\ process = "up" /\ d \in downDeps
    /\ downDeps' = downDeps \ {d}
    /\ probe' = [probe EXCEPT !.down = @ \ {d}]
    /\ UNCHANGED <<process, drain, ended, active, timedOut, downs, cached, shutting>>

\* Mutant: the cache is read before the flag.
AnsweredCacheFirst ==
    IF cached # "none" THEN cached ELSE IF shutting THEN "bad" ELSE "none"

\* check() answers without dialling: not ready in a drain, else a fresh snapshot.
Answered == IF shutting THEN "bad" ELSE cached

\* GET /readyz begins, a request like any other.
Probe ==
    /\ process = "up" /\ ~Closing /\ probe.pc = "idle"
    /\ probe' = IF Answered # "none"
                THEN [IdleProbe EXCEPT !.pc = Answered, !.late = shutting]
                ELSE [pc |-> "checking", left |-> Dep, sawBad |-> FALSE,
                      late |-> shutting, down |-> downDeps]
    /\ UNCHANGED <<process, drain, ended, active, timedOut, downDeps, downs, cached, shutting>>

\* Mutant: infrastructure is reported but does not count.
CountsNone(d) == FALSE

\* rpc, signers, database, redis and the limiter backend count; the catalogue
\* is reported only.
Counts(d) == d \in Fatal

\* One dependency is asked, under its own timeout; an error is a bad result.
Ask(d) ==
    /\ process = "up" /\ probe.pc = "checking" /\ d \in probe.left
    /\ probe' = [probe EXCEPT !.left = @ \ {d},
                              !.sawBad = @ \/ (d \in downDeps /\ Counts(d))]
    /\ UNCHANGED <<process, drain, ended, active, timedOut, downDeps, downs, cached, shutting>>

\* The snapshot is cached and returned, whatever happened since the check began.
Snapshot ==
    /\ process = "up" /\ probe.pc = "checking" /\ probe.left = {}
    /\ LET r == IF probe.sawBad THEN "bad" ELSE "ok" IN
         /\ probe' = [probe EXCEPT !.pc = r]
         /\ cached' = r
    /\ UNCHANGED <<process, drain, ended, active, timedOut, downDeps, downs, shutting>>

ProbeDone ==
    /\ probe.pc \in {"ok", "bad"} /\ process = "up"
    /\ probe' = IdleProbe
    /\ UNCHANGED <<process, drain, ended, active, timedOut, downDeps, downs, cached, shutting>>

CacheExpires ==
    /\ process = "up" /\ cached # "none"
    /\ cached' = "none"
    /\ UNCHANGED <<process, drain, ended, active, timedOut, downDeps, downs, shutting, probe>>

-----------------------------------------------------------------------------
LifeInit ==
    /\ process = "booting" /\ drain = [s \in Signals |-> 0] /\ ended = {}
    /\ active = 0 /\ timedOut = FALSE /\ downDeps = {} /\ downs = 0
    /\ cached = "none" /\ shutting = FALSE /\ probe = IdleProbe

LifeNext ==
    \/ \E bound \in BOOLEAN : Listen(bound)
    \/ Request \/ Response \/ FatalError \/ Probe \/ Snapshot \/ ProbeDone \/ CacheExpires
    \/ \E s \in Signals : Signal(s) \/ DrainStep(s) \/ Exit(s) \/ Deadline(s)
    \/ \E d \in Dep : DepDown(d) \/ DepUp(d) \/ Ask(d)

LifeSpec == LifeInit /\ [][LifeNext]_lifeVars

-----------------------------------------------------------------------------
\* What a handler works with (pools, dispatcher, lock) is closed only after every
\* request in flight was answered, in one drain and in two that race. A probe that
\* arrives after a signal is never told that the instance is ready, even when a
\* check begun before the signal caches its result after it; and a ready answer
\* that was checked for is one where no dependency that counts was down from the
\* check's beginning to its end.
DrainKept ==
    /\ ended \intersect {"webhooks", "lock", "workers", "dlqPool", "vaultPool"} # {}
         => active = 0
    /\ probe.late => probe.pc # "ok"
    /\ probe.pc = "ok" => probe.down \intersect Fatal = {}

\* Once a signal arrived the process exits, although a handler may hang.
SignalExits == (\E s \in Signals : drain[s] > 0) ~> process \in {"exit0", "exit1"}

\* A graceful stop that the deadline did not cut short has flushed the audit sink:
\* audit.js says that awaiting close() in shutdown() "is what guarantees a record
\* written immediately before a graceful stop reaches the file". Refuted: the
\* limiter's close returns nothing to chain a catch on, so every drain ends with
\* the TypeError, before audit.close and horizon.restore.
AuditFlushed == process = "exit0" /\ ~timedOut => "audit" \in ended
=============================================================================
