----------------------------- MODULE RpcBreaker -----------------------------
(***************************************************************************)
(* The retrying fetch and the circuit breaker of one RPC host              *)
(* (src/src/rpc-retry.js; breakers of different hosts share nothing). A    *)
(* Call is one retryingFetch in flight: it passes the gate once and then   *)
(* dials up to Attempts times, so calls admitted in one state of the       *)
(* breaker report to it in another. A refused call throws and changes      *)
(* nothing. A protected call carries a sendTransaction and is never gated. *)
(***************************************************************************)
EXTENDS Naturals

CONSTANTS
    Call,       \* calls that can be in flight together
    Attempts,   \* attempts: dials of one call
    Threshold,  \* threshold: consecutive failures that open the breaker
    MaxOther,   \* bound: dials that end in an error outside RETRYABLE
    MaxOutages, \* bound: times the host goes down
    Nobody      \* no call

ASSUME BreakerAssumption ==
    /\ Attempts \in Nat \ {0} /\ Threshold \in Nat \ {0}
    /\ MaxOther \in Nat /\ MaxOutages \in Nat /\ Nobody \notin Call

VARIABLES
    up,            \* whether the host answers
    outages,       \* outages so far
    state,         \* b.state
    fails,         \* b.consecutiveFailures, counted up to Threshold: all that
                   \* is ever asked of it is whether Threshold is reached
    probeInFlight, \* b.probeInFlight
    cooled,        \* Date.now() - b.openedAt >= cooldownMs
    pc,            \* call -> idle, dialling, or asleep between two dials
    prot,          \* call -> protectedCall
    attempt,       \* call -> attempt
    probe,         \* history: the call that was made the half-open probe
    lost,          \* history: that probe ended without telling the breaker
    others         \* errors outside RETRYABLE so far

breakerVars == <<state, fails, probeInFlight, cooled>>
callVars    == <<pc, prot, attempt>>
vars == <<up, outages, breakerVars, callVars, probe, lost, others>>

-----------------------------------------------------------------------------
(* The breaker. *)

\* Mutant: the limit is passed, not reached.
RecordFailureLate ==
    /\ fails' = IF fails < Threshold THEN fails + 1 ELSE fails
    /\ IF fails >= Threshold /\ state # "open"
       THEN state' = "open" /\ cooled' = FALSE
       ELSE UNCHANGED <<state, cooled>>
    /\ UNCHANGED probeInFlight

\* recordFailure: an open breaker keeps its openedAt.
RecordFailure ==
    /\ fails' = IF fails < Threshold THEN fails + 1 ELSE fails
    /\ IF (state = "half-open" \/ fails + 1 >= Threshold) /\ state # "open"
       THEN state' = "open" /\ cooled' = FALSE
       ELSE UNCHANGED <<state, cooled>>
    /\ UNCHANGED probeInFlight

\* Mutant: a success only counts for the breaker that is open.
RecordSuccessOpen ==
    /\ state' = IF state = "open" THEN "closed" ELSE state
    /\ fails' = 0 /\ probeInFlight' = FALSE
    /\ UNCHANGED cooled

\* recordSuccess: whoever gets through closes the breaker.
RecordSuccess ==
    /\ state' = "closed" /\ fails' = 0 /\ probeInFlight' = FALSE
    /\ UNCHANGED cooled

Admitted(c, protected) ==
    /\ pc' = [pc EXCEPT ![c] = "dial"]
    /\ prot' = [prot EXCEPT ![c] = protected]
    /\ attempt' = [attempt EXCEPT ![c] = 1]

\* The call that ends the cooldown becomes the probe.
HalfOpen(c) ==
    /\ state = "open" /\ cooled
    /\ state' = "half-open" /\ probeInFlight' = TRUE
    /\ probe' = c /\ lost' = FALSE
    /\ UNCHANGED <<fails, cooled>>

\* Any other call, unless the breaker is open or its probe is out.
PassGate ==
    /\ state # "open" /\ ~(state = "half-open" /\ probeInFlight)
    /\ UNCHANGED <<breakerVars, probe, lost>>

\* Mutant: the call that half-opens the breaker is refused like any other.
GateRefusingProbe(c) ==
    \/ HalfOpen(c) /\ UNCHANGED callVars
    \/ PassGate /\ Admitted(c, FALSE)

\* Mutant: the cooldown ends the outage.
GateReset(c) ==
    /\ IF state = "open"
       THEN /\ cooled /\ state' = "closed" /\ fails' = 0
            /\ UNCHANGED <<probeInFlight, cooled>>
       ELSE UNCHANGED breakerVars
    /\ Admitted(c, FALSE)
    /\ UNCHANGED <<probe, lost>>

\* gate
Gate(c) == (HalfOpen(c) \/ PassGate) /\ Admitted(c, FALSE)

-----------------------------------------------------------------------------
(* retryingFetch. *)

\* A call that is not a sendTransaction has to pass the gate.
Start(c) ==
    /\ pc[c] = "idle"
    /\ Gate(c)
    /\ UNCHANGED <<up, outages, others>>

\* A sendTransaction always gets its dial.
StartProtected(c) ==
    /\ pc[c] = "idle"
    /\ Admitted(c, TRUE)
    /\ UNCHANGED <<up, outages, breakerVars, probe, lost, others>>

\* A response of any kind.
Answered(c) ==
    /\ pc[c] = "dial" /\ up
    /\ RecordSuccess
    /\ pc' = [pc EXCEPT ![c] = "idle"]
    /\ UNCHANGED <<up, outages, prot, attempt, probe, lost, others>>

\* A connection-level failure: retried while attempts and the deadline last.
FailedDial(c) ==
    /\ pc[c] = "dial" /\ ~up
    /\ RecordFailure
    /\ \/ attempt[c] < Attempts /\ pc' = [pc EXCEPT ![c] = "sleep"]
       \/ pc' = [pc EXCEPT ![c] = "idle"]
    /\ UNCHANGED <<up, outages, prot, attempt, probe, lost, others>>

\* The backoff is over; the deadline may be too.
Wake(c) ==
    /\ pc[c] = "sleep"
    /\ \/ /\ pc' = [pc EXCEPT ![c] = "dial"]
          /\ attempt' = [attempt EXCEPT ![c] = @ + 1]
       \/ /\ pc' = [pc EXCEPT ![c] = "idle"]
          /\ UNCHANGED attempt
    /\ UNCHANGED <<up, outages, breakerVars, prot, probe, lost, others>>

\* The dial ends in an error outside RETRYABLE - the deadline's abort signal, a
\* name or certificate error: the loop breaks and the breaker hears nothing.
OtherError(c) ==
    /\ pc[c] = "dial" /\ others < MaxOther
    /\ others' = others + 1
    /\ pc' = [pc EXCEPT ![c] = "idle"]
    /\ lost' = (lost \/ (state = "half-open" /\ probe = c))
    /\ UNCHANGED <<up, outages, breakerVars, prot, attempt, probe>>

\* Date.now() passes openedAt + cooldownMs.
CoolDown ==
    /\ state = "open" /\ ~cooled
    /\ cooled' = TRUE
    /\ UNCHANGED <<up, outages, state, fails, probeInFlight, callVars, probe,
                   lost, others>>

\* The host.
GoDown == /\ up /\ outages < MaxOutages
          /\ up' = FALSE /\ outages' = outages + 1
          /\ UNCHANGED <<breakerVars, callVars, probe, lost, others>>
GoUp == /\ ~up /\ up' = TRUE
        /\ UNCHANGED <<outages, breakerVars, callVars, probe, lost, others>>

-----------------------------------------------------------------------------
Init ==
    /\ up = TRUE /\ outages = 0
    /\ state = "closed" /\ fails = 0 /\ probeInFlight = FALSE /\ cooled = FALSE
    /\ pc = [c \in Call |-> "idle"]
    /\ prot = [c \in Call |-> FALSE]
    /\ attempt = [c \in Call |-> 0]
    /\ probe = Nobody /\ lost = FALSE /\ others = 0

Dial(c) == Answered(c) \/ FailedDial(c) \/ Wake(c) \/ OtherError(c)

Next == \/ \E c \in Call : Start(c) \/ StartProtected(c) \/ Dial(c)
        \/ CoolDown \/ GoDown \/ GoUp

Spec == Init /\ [][Next]_vars

-----------------------------------------------------------------------------
TypeOK ==
    /\ up \in BOOLEAN /\ outages \in Nat
    /\ state \in {"closed", "open", "half-open"}
    /\ fails \in 0..Threshold
    /\ probeInFlight \in BOOLEAN /\ cooled \in BOOLEAN
    /\ pc \in [Call -> {"idle", "dial", "sleep"}]
    /\ prot \in [Call -> BOOLEAN]
    /\ attempt \in [Call -> 0..Attempts]
    /\ probe \in Call \cup {Nobody} /\ lost \in BOOLEAN /\ others \in Nat
    /\ \A c \in Call : pc[c] = "sleep" => attempt[c] < Attempts

\* The breaker refuses calls exactly while Threshold failures have been counted
\* with no answer in between, although the calls that fail and succeed were
\* admitted in other states of the breaker, or not gated at all.
TripsExactly == state = "closed" <=> fails < Threshold

\* While the breaker is half-open its probe is dialling and will report - unless
\* that call ended in an error the breaker does not hear of. Late reports of the
\* outage's other calls do not leave a half-open breaker without its probe.
ProbePending ==
    state = "half-open" =>
        probe \in Call /\ probeInFlight
        /\ (lost \/ (pc[probe] = "dial" /\ ~prot[probe]))

\* An outage that lasts opens the breaker, and it does not close again.
OutageTrips == <>[]~up => <>[](state # "closed")

\* Once the host is back for good the breaker closes and stays closed, whatever
\* retries and protected calls of the outage report late - unless a probe was
\* lost.
Recovers == <>[]up => <>[](state = "closed") \/ <>[](state = "half-open" /\ lost)

\* The operator's guide: "the breaker half-opens probes and closes once the
\* backend heals".
Heals == <>[]up => <>[](state = "closed")
=============================================================================
