------------------------------ MODULE MCCalls -------------------------------
(***************************************************************************)
(* What a settlement's calls go through: the lock of its payment and the   *)
(* breaker of its RPC host. The two share no state, so a behaviour moves   *)
(* one of them and the other stays as it starts.                           *)
(***************************************************************************)
EXTENDS RpcBreaker, DistributedLock

CONSTANTS
    c1, c2, c3,
    Parts          \* the parts this run moves

VARIABLE part

\* Two calls of one pod and one of another, which reach all masters, all but one,
\* or none.
CallerPods == [c \in Caller |-> IF c = "z" THEN "q" ELSE "p"]
MasterViews == {Master, {2, 3}, {}}

CallsInit == part \in Parts /\ Init /\ LockInit

CallsNext ==
    /\ UNCHANGED part
    /\ IF part = "rpc" THEN Next ELSE UNCHANGED vars
    /\ IF part = "lock" THEN LockNext ELSE UNCHANGED lockVars

\* Dials end one way or another, sleeps and cooldowns pass, and ordinary calls
\* keep coming. Nothing is assumed of the host or of settlements.
RpcFair ==
    /\ WF_vars(part = "rpc" /\ CoolDown)
    /\ \A c \in Call : /\ WF_vars(part = "rpc" /\ Dial(c))
                       /\ WF_vars(part = "rpc" /\ Start(c))

\* Attempts are repeated up to the deadline; a settlement's calls have deadlines.
LockFair == \A c \in Caller :
    /\ WF_lockVars(part = "lock" /\ (RedlockAcquire(c) \/ AcquireTimeout(c)))
    /\ WF_lockVars(part = "lock" /\ EndWork(c))

CallsSpec ==
    /\ CallsInit /\ [][CallsNext]_<<part, vars, lockVars>>
    /\ RpcFair /\ LockFair
=============================================================================
