-------------------------- MODULE DistributedLock --------------------------
(***************************************************************************)
(* The lock around a settlement (src/src/distributed-lock.js), for one     *)
(* key: Redlock over independent Redis masters, whose keys run out unless  *)
(* their holder extends them, and the in-process mutex a pod falls back to *)
(* when it reaches no master. Redlock itself is a library: an acquisition  *)
(* sets the key on the masters that are reached and have it free.          *)
(***************************************************************************)
EXTENDS Naturals, FiniteSets, Sequences

CONSTANTS
    LockPod,
    Master,      \* the Redis masters of REDLOCK_NODES, {} for none
    Caller,      \* calls of withLock
    PodOf,       \* caller -> its pod
    Views,       \* sets of masters that a pod may come to reach
    MaxTroubles  \* bound: changes of the network, pauses and crashes

ASSUME LockAssumption ==
    /\ IsFiniteSet(Master) /\ "free" \notin Caller
    /\ PodOf \in [Caller -> LockPod] /\ Views \subseteq SUBSET Master

VARIABLES
    call,         \* caller -> "idle", "acquire", "redlock", "memory", "done", "refused"
    granted,      \* master -> the caller its key names, or Free
    reach,        \* pod -> masters whose client is ready
    tails,        \* pod -> holder of the in-process mutex, and who waits for it
    lockDegraded, \* pod -> degraded, or no master was configured
    aborted,      \* callers whose cancel signal has fired
    exposed,      \* history: callers that held through a pause or a lost majority
    troubles

lockVars == <<call, granted, reach, tails, lockDegraded, aborted, exposed, troubles>>

Free == "free"

-----------------------------------------------------------------------------
\* Mutant: a third of the masters will do.
QuorumThird(nodes) == 3 * Cardinality(nodes) >= Cardinality(Master)

\* What Redlock asks for: more than half of the masters.
Quorum(nodes) == 2 * Cardinality(nodes) > Cardinality(Master)

KeysOf(c)   == {n \in Master : granted[n] = c}
FreeFor(c)  == {n \in reach[PodOf[c]] : granted[n] = Free}
OfPod(p)    == {c \in Caller : PodOf[c] = p}

\* The mutex: a caller chains behind the tail that is there when it comes.
Chained(c) == [tails EXCEPT ![PodOf[c]] = Append(@, c)]

\* The wrapped operation is running.
Holds(c) == \/ call[c] = "redlock"
            \/ call[c] = "memory" /\ Head(tails[PodOf[c]]) = c

-----------------------------------------------------------------------------
\* withLock: a degraded pod goes to its own mutex at once.
WithLock(c) ==
    /\ call[c] = "idle"
    /\ IF lockDegraded[PodOf[c]]
       THEN call' = [call EXCEPT ![c] = "memory"] /\ tails' = Chained(c)
       ELSE call' = [call EXCEPT ![c] = "acquire"] /\ UNCHANGED tails
    /\ UNCHANGED <<granted, reach, lockDegraded, aborted, exposed, troubles>>

\* An attempt of withRedlock succeeds, even if another call has degraded the pod.
RedlockAcquire(c) ==
    /\ call[c] = "acquire" /\ Quorum(FreeFor(c))
    /\ granted' = [n \in Master |-> IF n \in FreeFor(c) THEN c ELSE granted[n]]
    /\ call' = [call EXCEPT ![c] = "redlock"]
    /\ UNCHANGED <<reach, tails, lockDegraded, aborted, exposed, troubles>>

\* Attempts failed up to the deadline. With a client that is ready the call is
\* refused; with none the pod degrades, for good, and the call takes the mutex.
AcquireTimeout(c) ==
    /\ call[c] = "acquire" /\ ~Quorum(FreeFor(c))
    /\ IF reach[PodOf[c]] # {}
       THEN call' = [call EXCEPT ![c] = "refused"] /\ UNCHANGED <<tails, lockDegraded>>
       ELSE /\ lockDegraded' = [lockDegraded EXCEPT ![PodOf[c]] = TRUE]
            /\ call' = [call EXCEPT ![c] = "memory"] /\ tails' = Chained(c)
    /\ UNCHANGED <<granted, reach, aborted, exposed, troubles>>

\* The timer's extension finds no majority that it can reach and that still has the
\* key: the signal fires. The settlement was not given it and runs on.
ExtendFails(c) ==
    /\ call[c] = "redlock" /\ c \notin aborted
    /\ ~Quorum(KeysOf(c) \intersect reach[PodOf[c]])
    /\ aborted' = aborted \cup {c}
    /\ UNCHANGED <<call, granted, reach, tails, lockDegraded, exposed, troubles>>

\* A key runs out that nobody extends: its call is over, does not reach the master,
\* or has lost the lock.
KeyExpires(n) ==
    /\ granted[n] # Free
    /\ LET c == granted[n] IN
         call[c] # "redlock" \/ n \notin reach[PodOf[c]] \/ c \in aborted
    /\ granted' = [granted EXCEPT ![n] = Free]
    /\ UNCHANGED <<call, reach, tails, lockDegraded, aborted, exposed, troubles>>

\* Mutant: whatever key is there is deleted.
ReleasedAny(c) == [n \in Master |-> IF n \in reach[PodOf[c]] THEN Free ELSE granted[n]]

\* lock.release deletes the keys that name the caller, where it reaches them.
Released(c) == [n \in Master |-> IF n \in KeysOf(c) \intersect reach[PodOf[c]]
                                 THEN Free ELSE granted[n]]

\* Mutant: the mutex is not released.
HandOverNothing(c) == tails

\* handle.release lets the next in the chain run.
HandOver(c) == [tails EXCEPT ![PodOf[c]] = Tail(@)]

\* The operation returns or throws: the finally blocks release what it held.
EndWork(c) ==
    /\ Holds(c)
    /\ call' = [call EXCEPT ![c] = "done"]
    /\ IF call[c] = "redlock"
       THEN granted' = Released(c) /\ UNCHANGED tails
       ELSE tails' = HandOver(c) /\ UNCHANGED granted
    /\ UNCHANGED <<reach, lockDegraded, aborted, exposed, troubles>>

-----------------------------------------------------------------------------
Trouble == troubles < MaxTroubles /\ troubles' = troubles + 1

\* What a pod reaches changes.
Network(p, view) ==
    /\ Trouble /\ view # reach[p]
    /\ reach' = [reach EXCEPT ![p] = view]
    /\ exposed' = exposed \cup {c \in OfPod(p) : call[c] = "redlock"
                                                 /\ ~Quorum(KeysOf(c) \intersect view)}
    /\ UNCHANGED <<call, granted, tails, lockDegraded, aborted>>

\* A process stands still for longer than ttlMs, and its keys run out.
PauseProcess(p) ==
    /\ Trouble
    /\ granted' = [n \in Master |-> IF granted[n] \in OfPod(p) THEN Free ELSE granted[n]]
    /\ exposed' = exposed \cup {c \in OfPod(p) : call[c] = "redlock"}
    /\ UNCHANGED <<call, reach, tails, lockDegraded, aborted>>

\* A process dies with its calls and is started again; its keys stay.
LockCrash(p) ==
    /\ Trouble
    /\ call' = [c \in Caller |-> IF PodOf[c] = p /\ call[c] \in {"acquire", "redlock", "memory"}
                                 THEN "done" ELSE call[c]]
    /\ tails' = [tails EXCEPT ![p] = <<>>]
    /\ lockDegraded' = [lockDegraded EXCEPT ![p] = Master = {}]
    /\ UNCHANGED <<granted, reach, aborted, exposed>>

-----------------------------------------------------------------------------
\* createDistributedLock: without masters it is the mutex alone.
LockInit ==
    /\ call = [c \in Caller |-> "idle"]
    /\ granted = [n \in Master |-> Free]
    /\ reach = [p \in LockPod |-> Master]
    /\ tails = [p \in LockPod |-> <<>>]
    /\ lockDegraded = [p \in LockPod |-> Master = {}]
    /\ aborted = {} /\ exposed = {} /\ troubles = 0

LockNext ==
    \/ \E c \in Caller : \/ WithLock(c) \/ RedlockAcquire(c) \/ AcquireTimeout(c)
                         \/ ExtendFails(c) \/ EndWork(c)
    \/ \E n \in Master : KeyExpires(n)
    \/ \E p \in LockPod : \/ PauseProcess(p) \/ LockCrash(p)
                          \/ \E view \in Views : Network(p, view)

LockSpec == LockInit /\ [][LockNext]_lockVars

-----------------------------------------------------------------------------
\* Two operations of one payment run together in only three cases: a holder was cut
\* off from its majority or paused past its TTL, or one of the two has the mutex of
\* a degraded pod. In particular a holder that lost its lock does not, when it ends,
\* take away the lock of the one that has it now.
RedlockExclusive ==
    \A c, d \in Caller : c # d /\ Holds(c) /\ Holds(d) =>
        (call[c] = "redlock" /\ call[d] = "redlock" => {c, d} \intersect exposed # {})

\* And the mutex of a pod never lets two in.
MutexExclusive ==
    \A c, d \in Caller : c # d /\ Holds(c) /\ Holds(d) =>
        (call[c] = "memory" /\ call[d] = "memory" => PodOf[c] # PodOf[d])

\* The lock is exclusive, and every call ends: acquired, refused, or after those it
\* waited for.
LockServes ==
    /\ [](RedlockExclusive /\ MutexExclusive)
    /\ \A c \in Caller : call[c] # "idle" ~> call[c] \in {"done", "refused"}

\* "If extension fails, the operation is cancelled rather than allowed to continue
\* unprotected". Refuted: settleOnce does not take the signal.
CancelledWhenLost == \A c \in Caller : c \in aborted => ~Holds(c)

\* The event loop "serializes requests within one process", and the mutex is there
\* for what the masters no longer decide: one pod runs a payment once at a time.
\* Refuted: the mutex knows nothing of an operation that Redlock let in before the
\* pod degraded.
InProcessSerial ==
    \A c, d \in Caller : c # d /\ PodOf[c] = PodOf[d] => ~(Holds(c) /\ Holds(d))
=============================================================================
