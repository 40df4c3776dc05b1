-------------------------- MODULE RpcBreakerProofs --------------------------
(* The breaker counts exactly and a half-open breaker has its probe, for any *)
(* number of calls, attempts and failures that open it. The inductive        *)
(* invariant is the conjunction of the three: the probe's state is read from *)
(* typed functions, and who half-opens comes from "open".                    *)
EXTENDS RpcBreaker, TLAPS

BreakerInv == TypeOK /\ TripsExactly /\ ProbePending

USE DEF breakerVars, callVars

\* recordFailure keeps the count exact, and leaves no half-open breaker.
LEMMA FailureExact ==
    ASSUME TypeOK, TripsExactly, RecordFailure
    PROVE  /\ state' \in {"closed", "open"} /\ fails' \in 0..Threshold
           /\ cooled' \in BOOLEAN /\ probeInFlight' = probeInFlight
           /\ state' = "closed" <=> fails' < Threshold
<1>1. cooled' \in BOOLEAN /\ probeInFlight' = probeInFlight
  BY DEF TypeOK, RecordFailure
<1>2. /\ state' \in {"closed", "open"} /\ fails' \in 0..Threshold
      /\ state' = "closed" <=> fails' < Threshold
  <2>1. fails \in 0..Threshold /\ state \in {"closed", "open", "half-open"}
    BY DEF TypeOK
  <2>2. state = "closed" <=> fails < Threshold
    BY DEF TripsExactly
  <2>3. CASE state = "open"
    <3>1. state' = "open" /\ fails' = fails
      BY <2>1, <2>2, <2>3, BreakerAssumption DEF RecordFailure
    <3> QED BY <2>1, <2>2, <2>3, <3>1
  <2>4. CASE state = "half-open"
    <3>1. state' = "open" /\ fails' = fails
      BY <2>1, <2>2, <2>4, BreakerAssumption DEF RecordFailure
    <3> QED BY <2>1, <2>2, <2>4, <3>1
  <2>5. CASE state = "closed"
    <3>1. fails' = fails + 1 /\ fails + 1 \in 0..Threshold
      BY <2>1, <2>2, <2>5, BreakerAssumption DEF RecordFailure
    <3>2. state' = IF fails + 1 >= Threshold THEN "open" ELSE "closed"
      BY <2>5 DEF RecordFailure
    <3> QED BY <3>1, <3>2, BreakerAssumption
  <2> QED BY <2>1, <2>3, <2>4, <2>5
<1> QED BY <1>1, <1>2

\* An admitted call is dialling for the first time; the others are as before.
LEMMA AdmittedType ==
    ASSUME TypeOK, NEW c \in Call, NEW b \in BOOLEAN, Admitted(c, b)
    PROVE  /\ pc' \in [Call -> {"idle", "dial", "sleep"}]
           /\ prot' \in [Call -> BOOLEAN]
           /\ attempt' \in [Call -> 0..Attempts]
           /\ \A d \in Call : pc'[d] = "sleep" => attempt'[d] < Attempts
           /\ pc'[c] = "dial" /\ prot'[c] = b
           /\ \A d \in Call \ {c} : pc'[d] = pc[d] /\ prot'[d] = prot[d]
  BY BreakerAssumption DEF TypeOK, Admitted

LEMMA StartKeeps ==
    ASSUME BreakerInv, NEW c \in Call, Start(c)
    PROVE  BreakerInv'
<1>1. Admitted(c, FALSE) /\ (HalfOpen(c) \/ PassGate)
  BY DEF Start, Gate
<1>2. CASE HalfOpen(c)
  <2>1. TypeOK'
    BY <1>1, <1>2, AdmittedType DEF BreakerInv, TypeOK, HalfOpen, Start
  <2>2. TripsExactly'
    BY <1>2 DEF BreakerInv, TripsExactly, HalfOpen
  <2>3. ProbePending'
    BY <1>1, <1>2, AdmittedType DEF BreakerInv, ProbePending, HalfOpen
  <2> QED BY <2>1, <2>2, <2>3 DEF BreakerInv
<1>3. CASE PassGate
  <2>1. TypeOK'
    BY <1>1, <1>3, AdmittedType DEF BreakerInv, TypeOK, PassGate, Start
  <2>2. TripsExactly'
    BY <1>3 DEF BreakerInv, TripsExactly, PassGate
  <2>3. state' # "half-open"
    BY <1>3 DEF BreakerInv, ProbePending, PassGate
  <2> QED BY <2>1, <2>2, <2>3 DEF BreakerInv, ProbePending
<1> QED BY <1>1, <1>2, <1>3

LEMMA StartProtectedKeeps ==
    ASSUME BreakerInv, NEW c \in Call, StartProtected(c)
    PROVE  BreakerInv'
<1>1. TypeOK'
  BY AdmittedType DEF BreakerInv, TypeOK, StartProtected
<1>2. TripsExactly'
  BY DEF BreakerInv, TripsExactly, StartProtected
<1>3. ProbePending'
  BY AdmittedType DEF BreakerInv, ProbePending, StartProtected
<1> QED BY <1>1, <1>2, <1>3 DEF BreakerInv

LEMMA DialKeeps ==
    ASSUME BreakerInv, NEW c \in Call, Dial(c)
    PROVE  BreakerInv'
<1>1. CASE Answered(c)
  <2>1. TypeOK'
    <3>1. fails' \in 0..Threshold
      BY <1>1, BreakerAssumption DEF Answered, RecordSuccess
    <3>2. probeInFlight' \in BOOLEAN /\ cooled' \in BOOLEAN /\ up' \in BOOLEAN
      BY <1>1 DEF BreakerInv, TypeOK, Answered, RecordSuccess
    <3> QED BY <1>1, <3>1, <3>2 DEF BreakerInv, TypeOK, Answered, RecordSuccess
  <2>2. TripsExactly' /\ ProbePending'
    BY <1>1, BreakerAssumption DEF TripsExactly, ProbePending, Answered, RecordSuccess
  <2> QED BY <2>1, <2>2 DEF BreakerInv
<1>2. CASE FailedDial(c)
  <2>1. /\ state' \in {"closed", "open"} /\ fails' \in 0..Threshold
        /\ cooled' \in BOOLEAN /\ probeInFlight' = probeInFlight
        /\ state' = "closed" <=> fails' < Threshold
    BY <1>2, FailureExact DEF BreakerInv, FailedDial
  <2>2. TypeOK'
    BY <1>2, <2>1 DEF BreakerInv, TypeOK, FailedDial
  <2> QED BY <2>1, <2>2 DEF BreakerInv, TripsExactly, ProbePending
<1>3. CASE Wake(c)
  <2>1. TypeOK'
    BY <1>3, BreakerAssumption DEF BreakerInv, TypeOK, Wake
  <2>2. TripsExactly'
    BY <1>3 DEF BreakerInv, TripsExactly, Wake
  <2>3. ProbePending'
    BY <1>3 DEF BreakerInv, TypeOK, ProbePending, Wake
  <2> QED BY <2>1, <2>2, <2>3 DEF BreakerInv
<1>4. CASE OtherError(c)
  <2>1. TypeOK'
    <3>1. lost' \in BOOLEAN
      BY <1>4 DEF OtherError
    <3>2. others' \in Nat
      BY <1>4 DEF BreakerInv, TypeOK, OtherError
    <3> QED BY <1>4, <3>1, <3>2 DEF BreakerInv, TypeOK, OtherError
  <2>2. TripsExactly'
    BY <1>4 DEF BreakerInv, TripsExactly, OtherError
  <2>3. ProbePending'
    BY <1>4 DEF BreakerInv, TypeOK, ProbePending, OtherError
  <2> QED BY <2>1, <2>2, <2>3 DEF BreakerInv
<1> QED BY <1>1, <1>2, <1>3, <1>4 DEF Dial

LEMMA HostKeeps ==
    ASSUME BreakerInv, CoolDown \/ GoDown \/ GoUp \/ UNCHANGED vars
    PROVE  BreakerInv'
<1>1. TypeOK'
  <2>1. up' \in BOOLEAN /\ cooled' \in BOOLEAN
    BY DEF BreakerInv, TypeOK, CoolDown, GoDown, GoUp, vars
  <2>2. outages' \in Nat
    BY DEF BreakerInv, TypeOK, CoolDown, GoDown, GoUp, vars
  <2> QED BY <2>1, <2>2 DEF BreakerInv, TypeOK, CoolDown, GoDown, GoUp, vars
<1>2. TripsExactly'
  BY DEF BreakerInv, TripsExactly, CoolDown, GoDown, GoUp, vars
<1>3. ProbePending'
  BY DEF BreakerInv, ProbePending, CoolDown, GoDown, GoUp, vars
<1> QED BY <1>1, <1>2, <1>3 DEF BreakerInv

LEMMA BreakerCorrect == Spec => []BreakerInv
<1>1. Init => BreakerInv
  <2> SUFFICES ASSUME Init PROVE BreakerInv
    OBVIOUS
  <2>1. up \in BOOLEAN /\ probeInFlight \in BOOLEAN /\ cooled \in BOOLEAN
        /\ lost \in BOOLEAN /\ prot \in [Call -> BOOLEAN]
    BY DEF Init
  <2>2. TripsExactly /\ ProbePending
    BY BreakerAssumption DEF Init, TripsExactly, ProbePending
  <2>3. TypeOK
    BY <2>1, BreakerAssumption DEF Init, TypeOK
  <2> QED BY <2>2, <2>3 DEF BreakerInv
<1>2. BreakerInv /\ [Next]_vars => BreakerInv'
  BY StartKeeps, StartProtectedKeeps, DialKeeps, HostKeeps DEF Next
<1> QED BY <1>1, <1>2, PTL DEF Spec

\* The breaker refuses calls exactly while Threshold failures have been counted
\* with no answer in between, whatever calls of earlier states report late.
THEOREM TripsExactlyTheorem == Spec => []TripsExactly
  BY BreakerCorrect, PTL DEF BreakerInv

\* A half-open breaker has its probe dialling, or lost it to an error outside
\* RETRYABLE: no interleaving of retries and protected calls takes it away.
THEOREM ProbePendingTheorem == Spec => []ProbePending
  BY BreakerCorrect, PTL DEF BreakerInv
=============================================================================
