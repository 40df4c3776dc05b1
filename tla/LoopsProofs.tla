---------------------------- MODULE LoopsProofs ----------------------------
(***************************************************************************)
(* Theorems about what a process does over time: the count its regions     *)
(* share, the drain a signal starts, and an agent's MCP session.           *)
(***************************************************************************)
EXTENDS CrdtCounter, Mcp, Lifecycle, FiniteSetTheorems, TLAPS

-----------------------------------------------------------------------------
(* The regions' count. A sync's answer is a count that was published, and    *)
(* nothing published or kept passes what was admitted.                       *)

LEMMA MergedIsMax ==
    ASSUME NEW a \in Nat, NEW b \in Nat
    PROVE  Merged(a, b) = IF a >= b THEN a ELSE b
<1>1. \E m \in {a, b} : \A y \in {a, b} : m >= y
  OBVIOUS
<1> DEFINE m == CHOOSE x \in {a, b} : \A y \in {a, b} : x >= y
<1>2. m \in {a, b} /\ m >= a /\ m >= b
  BY <1>1
<1>3. Merged(a, b) = m
  BY DEF Merged, Max
<1> HIDE DEF m
<1> QED BY <1>2, <1>3

CrdtInv ==
    /\ admissions \in Nat /\ row \in 0..admissions
    /\ local \in [Region -> 0..admissions]
    /\ syncs \in [Region -> [SyncRun ->
            [at : {"off", "on", "sent"}, ahead : BOOLEAN, got : 0..row]]]

\* The store implements the shared counter: its count only grows, never counts a
\* request twice, and no check refuses for what was not asked, for any number of
\* regions, overlapping syncs, increments, failures and recoveries.
THEOREM CrdtIsCounterTheorem == CrdtSpec => CrdtIsCounter
<1> DEFINE Sync(n) == [at : {"off", "on", "sent"}, ahead : BOOLEAN, got : 0..n]
<1>1. CrdtInit => CrdtInv /\ Shared!CountInit
  BY DEF CrdtInit, CrdtInv, Off, Shared!CountInit
<1>2. CrdtInv /\ [CrdtNext]_crdtVars => CrdtInv' /\ [Shared!CountNext]_(Shared!countVars)
  <2> SUFFICES ASSUME CrdtInv, [CrdtNext]_crdtVars
               PROVE  CrdtInv' /\ [Shared!CountNext]_(Shared!countVars)
    OBVIOUS
  <2> USE DEF CrdtInv
  <2>0. Off \in Sync(row) /\ 0 \in 0..row
    BY DEF Off
  <2>1. ASSUME NEW r \in Region, CountLocal(r) PROVE CrdtInv' /\ Shared!Admit(r)
    BY <2>1 DEF CountLocal, Shared!Admit
  <2>2. ASSUME NEW r \in Region, Shed(r) PROVE CrdtInv' /\ Shared!Adopt(r)
    <3>1. 0 \in 0..row /\ local' = [local EXCEPT ![r] = 0]
      BY <2>2 DEF Shed
    <3>2. ASSUME NEW k \in SyncRun PROVE [syncs[r][k] EXCEPT !.ahead = TRUE] \in Sync(row)
      <4>1. syncs[r][k] \in Sync(row)
        OBVIOUS
      <4> QED BY ONLY <4>1
    <3>3. syncs' \in [Region -> [SyncRun -> Sync(row)]]
      BY <2>2, <3>2, <2>0 DEF Shed
    <3>4. CrdtInv'
      BY <2>2, <3>1, <3>3 DEF Shed
    <3> QED BY <2>2, <3>1, <3>4 DEF Shed, Shared!Adopt
  <2>3. ASSUME NEW r \in Region, CrdtDegrade(r) PROVE CrdtInv' /\ UNCHANGED Shared!countVars
    BY <2>3 DEF CrdtDegrade, StatementFails, Shared!countVars
  <2>4. ASSUME NEW r \in Region, NEW k \in SyncRun, SyncUpsert(r, k)
        PROVE  CrdtInv' /\ Shared!Publish(r)
    <3>1. row \in Nat /\ local[r] \in Nat /\ local[r] <= admissions /\ row <= admissions
      OBVIOUS
    <3>2. row' \in row..admissions /\ row' >= local[r]
      BY <2>4, <3>1, MergedIsMax DEF SyncUpsert
    <3>3. [at |-> "sent", ahead |-> FALSE, got |-> row'] \in Sync(row')
      BY <3>1, <3>2
    <3>4. syncs \in [Region -> [SyncRun -> Sync(row')]]
      BY <3>1, <3>2
    <3>5. syncs' \in [Region -> [SyncRun -> Sync(row')]]
      BY <2>4, <3>3, <3>4 DEF SyncUpsert
    <3> QED BY <2>4, <3>1, <3>2, <3>5 DEF SyncUpsert, Shared!Publish
  <2>5. ASSUME NEW r \in Region, NEW k \in SyncRun, SyncApply(r, k)
        PROVE  CrdtInv' /\ Shared!Adopt(r)
    <3>1. syncs[r][k].got \in 0..row /\ local' = [local EXCEPT ![r] = syncs[r][k].got]
      BY <2>5 DEF SyncApply
    <3>2. local' \in [Region -> 0..admissions]
      BY <3>1
    <3>3. Arrived(syncs[r][k]) \in Sync(row)
      <4>1. syncs[r][k] \in Sync(row)
        OBVIOUS
      <4> QED BY ONLY <4>1, <2>0 DEF Arrived
    <3>4. syncs' \in [Region -> [SyncRun -> Sync(row)]]
      BY <2>5, <3>3 DEF SyncApply
    <3> QED BY <2>5, <3>1, <3>2, <3>4 DEF SyncApply, Shared!Adopt
  <2>6. ASSUME NEW r \in Region, NEW k \in SyncRun,
               SyncStart(r, k) \/ SyncEnd(r, k) \/ SyncFails(r, k)
        PROVE  CrdtInv' /\ UNCHANGED Shared!countVars
    <3>1. [at |-> "on", ahead |-> TRUE, got |-> 0] \in Sync(row)
      BY <2>0
    <3>2. syncs' \in [Region -> [SyncRun -> Sync(row)]]
      <4>1. \E s \in Sync(row) : syncs' = [syncs EXCEPT ![r][k] = s]
        BY <2>6, <2>0, <3>1 DEF SyncStart, SyncEnd, SyncFails
      <4>2. syncs \in [Region -> [SyncRun -> Sync(row)]]
        OBVIOUS
      <4> HIDE DEF Sync
      <4> QED BY ONLY <4>1, <4>2, r \in Region, k \in SyncRun
    <3>3. UNCHANGED <<local, row, admissions>>
      BY <2>6 DEF SyncStart, SyncEnd, SyncFails, StatementFails
    <3> QED BY <3>2, <3>3 DEF Shared!countVars
  <2>7. CASE UNCHANGED crdtVars
    BY <2>7 DEF crdtVars, Shared!countVars
  <2> QED BY <2>1, <2>2, <2>3, <2>4, <2>5, <2>6, <2>7
          DEF CrdtNext, SyncStep, Shared!CountNext
<1>3. CrdtInv => \A r \in Region : Read(r) <= admissions
  BY DEF CrdtInv, Read
<1> QED BY <1>1, <1>2, <1>3, PTL DEF CrdtSpec, CrdtIsCounter, Shared!CountSpec

-----------------------------------------------------------------------------
(* The drain. A step after app.close begins only when app.close has resolved *)
(* once, by when no request was in flight and none is accepted any more.     *)

Used == {"webhooks", "lock", "workers", "dlqPool", "vaultPool"}

LEMMA StepsInOrder ==
    /\ DOMAIN Steps = 1..18 /\ Len(Steps) = 18 /\ Steps[2] = "app"
    /\ \A k \in 1..18 : Steps[k] \in Used => k >= 3
    /\ \A k \in 1..18 : Throws(Steps[k]) => k = 16
  BY DEF Steps, Used, Throws

DrainInv ==
    /\ drain \in [Signals -> 0..19] /\ active \in Nat
    /\ \A s \in Signals : drain[s] >= 3 => "app" \in ended
    /\ ended \cap Used # {} => "app" \in ended
    /\ "app" \in ended => active = 0 /\ Closing

\* A check begun before a signal may end after it: what it found is told to the
\* one that asked, and to nobody who asks later.
ProbeInv ==
    /\ probe \in [pc : {"idle", "checking", "ok", "bad"}, left : SUBSET Dep, sawBad : BOOLEAN,
                  late : BOOLEAN, down : SUBSET Dep]
    /\ cached \in {"none", "ok", "bad"} /\ shutting \in BOOLEAN /\ downDeps \in SUBSET Dep
    /\ probe.late => probe.pc = "bad"
    /\ probe.pc = "checking" =>
         /\ probe.down \subseteq downDeps
         /\ probe.sawBad \/ probe.down \cap Fatal \subseteq probe.left
    /\ probe.pc = "ok" => probe.down \cap Fatal = {}

LEMMA DrainStepKeeps ==
    ASSUME DrainInv, NEW s \in Signals, DrainStep(s)
    PROVE  DrainInv'
<1> DEFINE k == drain[s]
           n == NextStep(s)
<1>1. k \in 1..18 /\ (Steps[k] = "app" => active = 0) /\ active' = active
      /\ ended' = ended \union {Steps[k]} /\ drain' = [drain EXCEPT ![s] = n]
  BY StepsInOrder DEF DrainStep, Draining, Resolves
<1>2. n \in 2..19 /\ (n >= 3 => k >= 2)
  BY <1>1, StepsInOrder DEF NextStep
<1> HIDE DEF k, n
<1>3. drain' \in [Signals -> 0..19] /\ drain'[s] = n /\ \A q \in Signals : q # s => drain'[q] = drain[q]
  BY <1>1, <1>2 DEF DrainInv
<1>4. k >= 3 => "app" \in ended
  BY DEF DrainInv, k
<1>5. k >= 2 => "app" \in ended'
  BY <1>1, <1>4, StepsInOrder
<1>6. \A q \in Signals : drain'[q] >= 3 => "app" \in ended'
  BY <1>1, <1>2, <1>3, <1>5 DEF DrainInv
<1>7. ended' \cap Used # {} => "app" \in ended'
  BY <1>1, <1>4, StepsInOrder DEF DrainInv
<1>8. Closing'
  BY <1>2, <1>3 DEF Closing
<1>9. "app" \in ended' => active' = 0
  BY <1>1 DEF DrainInv
<1> QED BY <1>1, <1>3, <1>6, <1>7, <1>8, <1>9 DEF DrainInv

LEMMA DrainKeeps == DrainInv /\ [LifeNext]_lifeVars => DrainInv'
<1> SUFFICES ASSUME DrainInv, [LifeNext]_lifeVars PROVE DrainInv'
  OBVIOUS
<1>1. ASSUME NEW s \in Signals, Signal(s) PROVE DrainInv'
  <2>1. drain[s] = 0 /\ drain' = [drain EXCEPT ![s] = 1] /\ UNCHANGED <<ended, active>>
    BY <1>1 DEF Signal
  <2>2. /\ drain' \in [Signals -> 0..19]
        /\ \A q \in Signals : drain'[q] = IF q = s THEN 1 ELSE drain[q]
    BY <2>1 DEF DrainInv
  <2>3. Closing => Closing'
    BY <2>1, <2>2 DEF Closing
  <2> QED BY <2>1, <2>2, <2>3 DEF DrainInv
<1>2. CASE Request
  BY <1>2 DEF Request, DrainInv, Closing
<1>3. CASE Response
  BY <1>3 DEF Response, DrainInv, Closing
<1>4. CASE UNCHANGED <<drain, ended, active>>
  BY <1>4 DEF DrainInv, Closing
<1> QED BY <1>1, <1>2, <1>3, <1>4, DrainStepKeeps
       DEF LifeNext, lifeVars, Listen, FatalError, Probe, Snapshot, ProbeDone, CacheExpires,
           Exit, Deadline, DepDown, DepUp, Ask

LEMMA ProbeKeeps == ProbeInv /\ [LifeNext]_lifeVars => ProbeInv'
<1> SUFFICES ASSUME ProbeInv, [LifeNext]_lifeVars PROVE ProbeInv'
  OBVIOUS
<1> USE DEF ProbeInv
<1>1. CASE Probe
  BY <1>1 DEF Probe, Answered, IdleProbe
<1>2. ASSUME NEW d \in Dep, Ask(d) PROVE ProbeInv'
  BY <1>2, LifeAssumption DEF Ask, Counts
<1>3. CASE Snapshot
  BY <1>3 DEF Snapshot
<1>4. CASE ProbeDone
  BY <1>4 DEF ProbeDone, IdleProbe
<1>5. ASSUME NEW d \in Dep, DepDown(d) \/ DepUp(d) PROVE ProbeInv'
  BY <1>5 DEF DepDown, DepUp
<1>6. ASSUME NEW s \in Signals, Signal(s) PROVE ProbeInv'
  BY <1>6 DEF Signal
<1>7. CASE CacheExpires
  BY <1>7 DEF CacheExpires
<1>8. CASE UNCHANGED <<probe, cached, shutting, downDeps>>
  BY <1>8
<1> QED BY <1>1, <1>2, <1>3, <1>4, <1>5, <1>6, <1>7, <1>8
       DEF LifeNext, lifeVars, Listen, Request, Response, FatalError, DrainStep, Exit, Deadline

\* What a handler works with is closed only after every request was answered, and
\* readiness is never told to who asked after a signal, nor over a dependency that
\* was down throughout the check, for any number of signals, requests and outages.
THEOREM DrainKeptTheorem == LifeSpec => []DrainKept
<1>1. LifeInit => DrainInv /\ ProbeInv
  <2> SUFFICES ASSUME LifeInit PROVE DrainInv /\ ProbeInv
    OBVIOUS
  <2>1. DrainInv
    BY DEF LifeInit, DrainInv
  <2>2. ProbeInv
    BY DEF LifeInit, ProbeInv, IdleProbe
  <2> QED BY <2>1, <2>2
<1>2. DrainInv /\ ProbeInv => DrainKept
  BY DEF DrainInv, ProbeInv, DrainKept, Used
<1> QED BY <1>1, <1>2, DrainKeeps, ProbeKeeps, PTL DEF LifeSpec

-----------------------------------------------------------------------------
(* The session of an agent. Its invariant is stated of values, a dialogue d  *)
(* first among them, so that a step can be said to keep it value by value.   *)

Ls(d) == 1..Len(d)
Ms(d, i) == DOMAIN d[i].members
Ref(d, i) == d[i].batch /\ (Ms(d, i) = {} \/ Len(d[i].members) > MaxBatch)
Asking(d, i) == {p \in Ms(d, i) : d[i].members[p] # "note"}
Reply(d, i) == IF Ref(d, i) THEN <<0>> ELSE InOrder(Ms(d, i), Asking(d, i))

LEMMA DialogueShape ==
    ASSUME NEW d \in Dialogues
    PROVE  /\ DOMAIN d = Ls(d) /\ Len(d) \in Nat
           /\ \A i \in Ls(d) :
                /\ Ms(d, i) = 1..Len(d[i].members) /\ Len(d[i].members) \in Nat
                /\ ~Ref(d, i) => Len(d[i].members) <= MaxBatch
<1> DEFINE Line == [batch : BOOLEAN, members : Seq(RequestKind)]
<1>1. d \in Seq(Line)
  BY McpAssumption
<1> HIDE DEF Line
<1>2. DOMAIN d = Ls(d) /\ Len(d) \in Nat /\ \A i \in Ls(d) : d[i] \in Line
  BY <1>1 DEF Ls
<1>3. ASSUME NEW i \in Ls(d)
      PROVE  /\ Ms(d, i) = 1..Len(d[i].members) /\ Len(d[i].members) \in Nat
             /\ ~Ref(d, i) => Len(d[i].members) <= MaxBatch
  <2>1. d[i] \in Line /\ i \in DOMAIN d
    BY <1>2
  <2>2. d[i].members \in Seq(RequestKind)
    BY <2>1 DEF Line
  <2>3. Ms(d, i) = 1..Len(d[i].members) /\ Len(d[i].members) \in Nat
    BY <2>2 DEF Ms
  <2>4. CASE ~d[i].batch
    <3>1. Len(d[i].members) = 1
      BY <2>1, <2>4, McpAssumption
    <3> QED BY <2>3, <3>1, McpAssumption
  <2>5. CASE d[i].batch
    <3>1. ~Ref(d, i) => ~(Len(d[i].members) > MaxBatch)
      BY <2>5 DEF Ref
    <3> QED BY <2>3, <3>1, McpAssumption
  <2> QED BY <2>4, <2>5
<1> QED BY <1>2, <1>3

\* A function from lines to functions from their requests.
Nested(d, g, S) == /\ g = [i \in Ls(d) |-> g[i]]
                   /\ \A i \in Ls(d) : g[i] \in [Ms(d, i) -> S]

LEMMA NestedRow ==
    ASSUME NEW d, NEW S, NEW g, Nested(d, g, S), NEW i \in Ls(d), NEW r \in [Ms(d, i) -> S],
           NEW h, h = [g EXCEPT ![i] = r]
    PROVE  Nested(d, h, S) /\ \A j \in Ls(d) : h[j] = IF j = i THEN r ELSE g[j]
<1>1. h = [j \in Ls(d) |-> IF j = i THEN r ELSE g[j]]
  BY DEF Nested
<1>2. \A j \in Ls(d) : h[j] = IF j = i THEN r ELSE g[j]
  BY <1>1
<1>3. h = [j \in Ls(d) |-> h[j]]
  BY <1>1, <1>2
<1> QED BY <1>2, <1>3 DEF Nested

Put(g, i, p, x) == [g EXCEPT ![i][p] = x]
Differs(d, g, h, i, p, x) ==
    \A j \in Ls(d) : \A q \in Ms(d, j) : h[j][q] = IF j = i /\ q = p THEN x ELSE g[j][q]

LEMMA NestedSet ==
    ASSUME NEW d, NEW S, NEW g, Nested(d, g, S), NEW i \in Ls(d), NEW p \in Ms(d, i), NEW x \in S,
           NEW h, h = Put(g, i, p, x)
    PROVE  Nested(d, h, S) /\ Differs(d, g, h, i, p, x)
<1> DEFINE r == [g[i] EXCEPT ![p] = x]
<1>1. r \in [Ms(d, i) -> S] /\ \A q \in Ms(d, i) : r[q] = IF q = p THEN x ELSE g[i][q]
  BY DEF Nested
<1>2. h = [g EXCEPT ![i] = r]
  BY DEF Put
<1> HIDE DEF r
<1>3. Nested(d, h, S) /\ \A j \in Ls(d) : h[j] = IF j = i THEN r ELSE g[j]
  <2>1. h = [j \in Ls(d) |-> IF j = i THEN r ELSE g[j]]
    BY <1>2 DEF Nested
  <2>2. \A j \in Ls(d) : h[j] = IF j = i THEN r ELSE g[j]
    BY <2>1
  <2>3. h = [j \in Ls(d) |-> h[j]]
    BY <2>1, <2>2
  <2> QED BY <1>1, <2>2, <2>3 DEF Nested
<1> QED BY <1>1, <1>3 DEF Differs

\* The budget of a session, and what is left of it while calls are under way: what
\* they may still cost is one call cap each, or for one of them what it was quoted.
Budget == SessionCap + (MaxBatch - 1) * CallCap
RoomFor(sp, P, f) ==
    \/ sp + Cardinality(P) * CallCap <= Budget
    \/ \E q \in P : sp + f[q] + (Cardinality(P) - 1) * CallCap <= Budget

LEMMA Caps ==
    /\ Budget \in Int /\ CallCap \in Nat /\ SessionCap \in Nat
    /\ \A n \in Nat : n * CallCap \in Nat /\ (n + 1) * CallCap = n * CallCap + CallCap
    /\ \A n \in Nat : n + 1 <= MaxBatch => SessionCap + n * CallCap <= Budget
<1>1. MaxBatch \in Nat /\ MaxBatch > 0 /\ CallCap \in Nat /\ SessionCap \in Nat
  BY McpAssumption
<1>2. ASSUME NEW n \in Nat
      PROVE  n * CallCap \in Nat /\ (n + 1) * CallCap = n * CallCap + CallCap
  BY <1>1
<1>3. ASSUME NEW n \in Nat, n + 1 <= MaxBatch
      PROVE  n * CallCap <= (MaxBatch - 1) * CallCap
  <2> DEFINE k == MaxBatch - 1 - n
  <2>1. k \in Nat /\ MaxBatch - 1 = n + k
    BY <1>1, <1>3
  <2> HIDE DEF k
  <2>2. (n + k) * CallCap = n * CallCap + k * CallCap /\ k * CallCap \in Nat /\ n * CallCap \in Nat
    BY <1>1, <2>1
  <2> QED BY <2>1, <2>2
<1>4. (MaxBatch - 1) * CallCap \in Int
  BY <1>1
<1> QED BY <1>1, <1>2, <1>3, <1>4 DEF Budget

LEMMA RoomBounds ==
    ASSUME NEW sp \in Nat, NEW P, IsFiniteSet(P), NEW f, \A q \in P : f[q] \in Nat, RoomFor(sp, P, f)
    PROVE  sp <= Budget
<1> DEFINE n == Cardinality(P)
<1>1. n \in Nat /\ (P # {} => n - 1 \in Nat)
  BY FS_CardinalityType, FS_EmptySet
<1>2. n * CallCap \in Nat /\ (P # {} => (n - 1) * CallCap \in Nat)
  BY <1>1, Caps
<1> HIDE DEF n
<1>3. CASE sp + n * CallCap <= Budget
  BY <1>2, <1>3, Caps
<1>4. ASSUME NEW q \in P, sp + f[q] + (n - 1) * CallCap <= Budget PROVE sp <= Budget
  BY <1>2, <1>4, Caps
<1> QED BY <1>3, <1>4 DEF RoomFor, n

\* A call ends, paid or not.
LEMMA RoomShrinks ==
    ASSUME NEW sp \in Nat, NEW P, IsFiniteSet(P), NEW f, NEW p \in P,
           \A q \in P : f[q] \in Nat /\ f[q] <= CallCap, RoomFor(sp, P, f),
           NEW new \in {sp, sp + f[p]}
    PROVE  RoomFor(new, P \ {p}, f)
<1> DEFINE n == Cardinality(P) - 1
<1>1. n \in Nat /\ Cardinality(P) = n + 1 /\ Cardinality(P \ {p}) = n /\ IsFiniteSet(P \ {p})
  BY FS_RemoveElement, FS_CardinalityType, FS_EmptySet
<1> HIDE DEF n
<1>2. n * CallCap \in Nat /\ (n + 1) * CallCap = n * CallCap + CallCap /\ CallCap \in Nat
      /\ Budget \in Int /\ f[p] \in Nat /\ f[p] <= CallCap
  BY <1>1, Caps
<1> DEFINE c == n * CallCap
<1>3. CASE sp + (n + 1) * CallCap <= Budget
  <2>1. new + c <= Budget
    <3> HIDE DEF c
    <3>1. c \in Nat /\ sp + (c + CallCap) <= Budget
      BY <1>2, <1>3 DEF c
    <3> QED BY <1>2, <3>1
  <2> QED BY <1>1, <2>1 DEF RoomFor
<1>4. ASSUME NEW q \in P, sp + f[q] + n * CallCap <= Budget PROVE RoomFor(new, P \ {p}, f)
  <2>1. CASE q = p
    <3>1. new + c <= Budget
      BY <1>2, <1>4, <2>1
    <3> QED BY <1>1, <3>1 DEF RoomFor
  <2>2. CASE q # p
    <3>1. q \in P \ {p} /\ Cardinality(P \ {p}) # 0
      BY <1>1, <2>2, FS_EmptySet
    <3>2. n - 1 \in Nat /\ n = (n - 1) + 1
      BY <1>1, <3>1
    <3>3. (n - 1) * CallCap \in Nat /\ n * CallCap = (n - 1) * CallCap + CallCap
      BY <3>2, Caps
    <3>4. new + f[q] + (n - 1) * CallCap <= Budget
      <4> DEFINE b == (n - 1) * CallCap
      <4>1. b \in Nat /\ sp + f[q] + (b + CallCap) <= Budget
        BY <1>4, <3>3
      <4> HIDE DEF b
      <4>2. new + f[q] + b <= Budget
        BY <1>2, <4>1
      <4> QED BY <4>2 DEF b
    <3> QED BY <1>1, <3>1, <3>4 DEF RoomFor
  <2> QED BY <2>1, <2>2
<1>5. (Cardinality(P) - 1) = n
  BY <1>1
<1> QED BY <1>1, <1>3, <1>4, <1>5 DEF RoomFor

\* A call is allowed for what it was quoted.
LEMMA RoomGrows ==
    ASSUME NEW sp \in Nat, NEW P, IsFiniteSet(P), NEW f, NEW p, p \notin P,
           Cardinality(P) + 1 <= MaxBatch, f[p] \in Nat, sp + f[p] <= SessionCap
    PROVE  RoomFor(sp, P \cup {p}, f)
<1> DEFINE n == Cardinality(P)
<1>1. n \in Nat /\ Cardinality(P \cup {p}) = n + 1 /\ (n + 1) - 1 = n
  <2>1. Cardinality(P \cup {p}) = Cardinality(P) + 1
    BY FS_AddElement
  <2>2. Cardinality(P) \in Nat
    BY FS_CardinalityType
  <2> QED BY <2>1, <2>2
<1> HIDE DEF n
<1>2. n * CallCap \in Nat /\ SessionCap + n * CallCap <= Budget /\ Budget \in Int /\ SessionCap \in Nat
  BY <1>1, Caps DEF n
<1> DEFINE c == n * CallCap
<1>3. c \in Nat /\ SessionCap + c <= Budget
  BY <1>2
<1> HIDE DEF c
<1>4. sp + f[p] + c <= Budget
  BY <1>2, <1>3
<1> QED BY <1>1, <1>4 DEF RoomFor, c

\* The state of a session: its lines in turn, its requests and their frames, the
\* answers on their way, and what is recorded as spent.
Standing == {"new", "dispatched", "paying", "done"}
FrameKind == {NoFrame, "result", "error"}
Typed(d, st, m, f, am, sp) ==
    /\ d \in Dialogues /\ st \in [Ls(d) -> {"waiting", "running", "answered"}] /\ sp \in Nat
    /\ Nested(d, m, Standing)
    /\ Nested(d, f, FrameKind) /\ Nested(d, am, Nat)
TurnOk(d, st, m) ==
    \A i \in Ls(d) :
      /\ st[i] # "waiting" => \A j \in 1..(i - 1) : st[j] = "answered"
      /\ st[i] = "waiting" => \A p \in Ms(d, i) : m[i][p] = "new"
      /\ st[i] = "answered" => \A p \in Ms(d, i) : m[i][p] = "done"
      /\ Ref(d, i) => \A p \in Ms(d, i) : m[i][p] \in {"new", "done"}
FramesOk(d, m, f) ==
    \A i \in Ls(d) : ~Ref(d, i) => \A p \in Ms(d, i) :
      m[i][p] = "done" => (f[i][p] # NoFrame <=> p \in Asking(d, i))
Paying(d, m, i) == {p \in Ms(d, i) : m[i][p] = "paying"}
SpendOk(d, st, m, am, sp) ==
    /\ sp <= Budget
    /\ \A i \in Ls(d) : \A p \in Paying(d, m, i) : am[i][p] <= CallCap
    /\ \A i \in Ls(d) : st[i] = "running" => RoomFor(sp, Paying(d, m, i), am[i])
Entries(d) == {[line |-> i, ids |-> Reply(d, i)] : i \in Ls(d)}
Sorted(s) == \A j, k \in DOMAIN s : j < k => s[j].line < s[k].line
WireOk(d, st, w, q) ==
    /\ w \in Seq(Entries(d)) /\ q \in Seq(Entries(d)) /\ Sorted(w) /\ Sorted(q)
    /\ \A j \in DOMAIN w, k \in DOMAIN q : w[j].line < q[k].line
    /\ \A k \in DOMAIN w : st[w[k].line] = "answered"
    /\ \A k \in DOMAIN q : st[q[k].line] = "answered"

McpInv ==
    /\ Typed(dialogue, stage, member, frame, amount, spent)
    /\ TurnOk(dialogue, stage, member) /\ FramesOk(dialogue, member, frame)
    /\ SpendOk(dialogue, stage, member, amount, spent)
    /\ WireOk(dialogue, stage, wire, writeQueue)

LEMMA MembersFinite ==
    ASSUME NEW d \in Dialogues, NEW i \in Ls(d), NEW P \in SUBSET Ms(d, i)
    PROVE  /\ IsFiniteSet(P) /\ Cardinality(P) \in Nat
           /\ ~Ref(d, i) => Cardinality(P) <= MaxBatch
           /\ ~Ref(d, i) => \A p \in Ms(d, i) : p \notin P => Cardinality(P) + 1 <= MaxBatch
<1> DEFINE n == Len(d[i].members)
<1>1. Ms(d, i) = 1..n /\ n \in Nat /\ (~Ref(d, i) => n <= MaxBatch) /\ MaxBatch \in Nat
  BY DialogueShape, McpAssumption
<1> HIDE DEF n
<1>2. IsFiniteSet(1..n) /\ Cardinality(1..n) = n
  BY <1>1, FS_Interval
<1>3. ASSUME NEW Q \in SUBSET (1..n) PROVE IsFiniteSet(Q) /\ Cardinality(Q) \in Nat /\ Cardinality(Q) <= n
  BY <1>2, FS_Subset, FS_CardinalityType
<1>4. ASSUME NEW p \in Ms(d, i), p \notin P PROVE Cardinality(P) + 1 <= n
  <2>1. P \cup {p} \in SUBSET (1..n) /\ P \in SUBSET (1..n)
    BY <1>1
  <2>2. IsFiniteSet(P) /\ Cardinality(P \cup {p}) <= n
    BY <1>3, <2>1
  <2>3. Cardinality(P \cup {p}) = Cardinality(P) + 1
    BY <1>4, <2>2, FS_AddElement
  <2> QED BY <2>2, <2>3
<1>5. IsFiniteSet(P) /\ Cardinality(P) \in Nat /\ Cardinality(P) <= n
  BY <1>1, <1>3
<1> QED BY <1>1, <1>4, <1>5

\* At most one line is in work.
LEMMA OneRunning ==
    ASSUME NEW d, NEW st, NEW m, TurnOk(d, st, m), Len(d) \in Nat,
           NEW i \in Ls(d), NEW j \in Ls(d), st[i] = "running", st[j] = "running"
    PROVE  i = j
<1>1. i \in Nat /\ j \in Nat /\ i >= 1 /\ j >= 1
  BY DEF Ls
<1>2. (i < j => st[i] = "answered") /\ (j < i => st[j] = "answered")
  BY <1>1 DEF TurnOk
<1> QED BY <1>1, <1>2

\* A request that is dispatched or paying is of the one line in work.
LEMMA ActiveRuns ==
    ASSUME McpInv, NEW i \in Ls(dialogue), NEW p \in Ms(dialogue, i),
           member[i][p] \in {"dispatched", "paying"}
    PROVE  stage[i] = "running" /\ ~Ref(dialogue, i)
  BY DEF McpInv, Typed, TurnOk

\* A request ends, with its frame, and with what it paid if it was paying.
LEMMA RequestEnds ==
    ASSUME McpInv, UNCHANGED <<dialogue, stage, amount, wire, writeQueue>>,
           NEW i \in Ls(dialogue), NEW p \in Ms(dialogue, i),
           member[i][p] \in {"dispatched", "paying"},
           member' = [member EXCEPT ![i][p] = "done"],
           NEW z \in FrameKind, z # NoFrame <=> p \in Asking(dialogue, i),
           frame' = [frame EXCEPT ![i][p] = z],
           spent' = spent \/ (member[i][p] = "paying" /\ spent' = spent + amount[i][p])
    PROVE  McpInv'
<1> DEFINE d == dialogue
           P(j) == Paying(d, member, j)
           Q(j) == Paying(d, member', j)
<1>1. /\ Nested(d, member', Standing)
      /\ \A j \in Ls(d) : \A q \in Ms(d, j) :
           member'[j][q] = IF j = i /\ q = p THEN "done" ELSE member[j][q]
  <2>1. member' = Put(member, i, p, "done") /\ "done" \in Standing
    BY DEF Put, Standing
  <2>2. Nested(d, member, Standing)
    BY DEF McpInv, Typed
  <2> HIDE DEF d
  <2>3. Nested(d, member', Standing) /\ Differs(d, member, member', i, p, "done")
    BY <2>1, <2>2, NestedSet DEF d
  <2> QED BY <2>3 DEF Differs
<1>2. /\ Nested(d, frame', FrameKind)
      /\ \A j \in Ls(d) : \A q \in Ms(d, j) :
           frame'[j][q] = IF j = i /\ q = p THEN z ELSE frame[j][q]
  <2>1. frame' = Put(frame, i, p, z) /\ z \in FrameKind
    BY DEF Put, FrameKind
  <2>2. Nested(d, frame, FrameKind)
    BY DEF McpInv, Typed
  <2> HIDE DEF d
  <2>3. Nested(d, frame', FrameKind) /\ Differs(d, frame, frame', i, p, z)
    BY <2>1, <2>2, NestedSet DEF d
  <2> QED BY <2>3 DEF Differs
<1>3. amount[i][p] \in Nat /\ spent \in Nat /\ spent' \in Nat
  BY DEF McpInv, Typed, Nested
<1>4. Typed(d, stage, member', frame', amount, spent')
  BY <1>1, <1>2, <1>3 DEF McpInv, Typed
<1>5. stage[i] = "running" /\ ~Ref(d, i)
  BY ActiveRuns
<1>6. TurnOk(d, stage, member')
  BY <1>1, <1>5 DEF McpInv, TurnOk
<1>7. FramesOk(d, member', frame')
  BY <1>1, <1>2 DEF McpInv, FramesOk
<1>8. /\ \A j \in Ls(d) : j # i => Q(j) = P(j)
      /\ member[i][p] = "paying" => p \in P(i) /\ Q(i) = P(i) \ {p}
      /\ member[i][p] # "paying" => Q(i) = P(i)
  BY <1>1 DEF Paying
<1>9. \A j \in Ls(d) : Q(j) \subseteq P(j)
  BY <1>8
<1>10. IsFiniteSet(P(i)) /\ IsFiniteSet(Q(i)) /\ \A q \in P(i) : amount[i][q] \in Nat /\ amount[i][q] <= CallCap
  <2>1. P(i) \in SUBSET Ms(d, i) /\ Q(i) \in SUBSET Ms(d, i)
    BY DEF Paying
  <2>2. \A q \in Ms(d, i) : amount[i][q] \in Nat
    BY DEF McpInv, Typed, Nested
  <2> QED BY <2>1, <2>2, MembersFinite DEF McpInv, Typed, SpendOk
<1>11. RoomFor(spent, P(i), amount[i])
  BY <1>5 DEF McpInv, SpendOk
<1> HIDE DEF P, Q, d
<1>12. RoomFor(spent', Q(i), amount[i])
  <2>1. CASE member[i][p] = "paying"
    <3>1. p \in P(i) /\ Q(i) = P(i) \ {p} /\ spent' \in {spent, spent + amount[i][p]}
      BY <1>8, <2>1
    <3>2. RoomFor(spent', P(i) \ {p}, amount[i])
      BY <1>3, <1>10, <1>11, <3>1, RoomShrinks
    <3> QED BY <3>1, <3>2
  <2>2. CASE member[i][p] # "paying"
    BY <1>8, <1>11, <2>2
  <2> QED BY <2>1, <2>2
<1>13. spent' <= Budget
  <2>1. \A q \in Q(i) : amount[i][q] \in Nat
    BY <1>9, <1>10 DEF d
  <2> QED BY <1>3, <1>10, <1>12, <2>1, RoomBounds
<1>14. SpendOk(d, stage, member', amount, spent')
  <2>1. \A j \in Ls(d) : stage[j] = "running" => j = i
    BY <1>5, OneRunning, DialogueShape DEF McpInv, Typed, d
  <2>2. \A j \in Ls(d) : stage[j] = "running" => RoomFor(spent', Q(j), amount[j])
    BY <1>12, <2>1
  <2>3. \A j \in Ls(d) : \A q \in Q(j) : amount[j][q] <= CallCap
    BY <1>9 DEF McpInv, SpendOk, d, P
  <2> QED BY <1>13, <2>2, <2>3 DEF SpendOk, Q
<1> QED BY <1>4, <1>6, <1>7, <1>14 DEF McpInv, d

\* A call passes assertCanSpend.
LEMMA CallAllowed ==
    ASSUME McpInv, UNCHANGED <<dialogue, stage, frame, wire, writeQueue, spent>>,
           NEW i \in Ls(dialogue), NEW p \in Ms(dialogue, i), member[i][p] = "dispatched",
           NEW a \in Nat, CanSpend(a),
           member' = [member EXCEPT ![i][p] = "paying"],
           amount' = [amount EXCEPT ![i][p] = a]
    PROVE  McpInv'
<1> DEFINE d == dialogue
           P(j) == Paying(d, member, j)
           Q(j) == Paying(d, member', j)
<1>1. /\ Nested(d, member', Standing)
      /\ \A j \in Ls(d) : \A q \in Ms(d, j) :
           member'[j][q] = IF j = i /\ q = p THEN "paying" ELSE member[j][q]
  <2>1. member' = Put(member, i, p, "paying") /\ "paying" \in Standing
    BY DEF Put, Standing
  <2>2. Nested(d, member, Standing)
    BY DEF McpInv, Typed
  <2> HIDE DEF d
  <2>3. Nested(d, member', Standing) /\ Differs(d, member, member', i, p, "paying")
    BY <2>1, <2>2, NestedSet DEF d
  <2> QED BY <2>3 DEF Differs
<1>2. /\ Nested(d, amount', Nat)
      /\ \A j \in Ls(d) : \A q \in Ms(d, j) :
           amount'[j][q] = IF j = i /\ q = p THEN a ELSE amount[j][q]
  <2>1. amount' = Put(amount, i, p, a) /\ a \in Nat
    BY DEF Put
  <2>2. Nested(d, amount, Nat)
    BY DEF McpInv, Typed
  <2> HIDE DEF d
  <2>3. Nested(d, amount', Nat) /\ Differs(d, amount, amount', i, p, a)
    BY <2>1, <2>2, NestedSet DEF d
  <2> QED BY <2>3 DEF Differs
<1>3. Typed(d, stage, member', frame, amount', spent)
  BY <1>1, <1>2 DEF McpInv, Typed
<1>4. stage[i] = "running" /\ ~Ref(d, i)
  BY ActiveRuns
<1>5. TurnOk(d, stage, member')
  BY <1>1, <1>4 DEF McpInv, TurnOk
<1>6. FramesOk(d, member', frame)
  BY <1>1 DEF McpInv, FramesOk
<1>7. /\ \A j \in Ls(d) : j # i => Q(j) = P(j)
      /\ p \notin P(i) /\ Q(i) = P(i) \cup {p}
  BY <1>1 DEF Paying
<1>8. IsFiniteSet(P(i)) /\ Cardinality(P(i)) + 1 <= MaxBatch /\ spent \in Nat
  <2>1. P(i) \in SUBSET Ms(d, i)
    BY DEF Paying
  <2> QED BY <1>4, <1>7, <2>1, MembersFinite DEF McpInv, Typed
<1>9. amount'[i][p] = a /\ a <= CallCap /\ spent + a <= SessionCap
  BY <1>2 DEF CanSpend
<1>10. \A j \in Ls(d) : P(j) \subseteq Ms(d, j)
  BY DEF Paying
<1> HIDE DEF P, Q, d
<1>11. RoomFor(spent, Q(i), amount'[i])
  <2> DEFINE f == amount'[i]
             S == P(i)
  <2>1. /\ f[p] \in Nat /\ spent + f[p] <= SessionCap /\ spent \in Nat
        /\ IsFiniteSet(S) /\ p \notin S /\ Cardinality(S) + 1 <= MaxBatch
    BY <1>7, <1>8, <1>9
  <2> HIDE DEF f, S
  <2>2. RoomFor(spent, S \cup {p}, f)
    BY <2>1, RoomGrows
  <2> QED BY <1>7, <2>2 DEF f, S
<1>12. \A j \in Ls(d) : \A q \in Q(j) : amount'[j][q] <= CallCap
  <2>1. ASSUME NEW j \in Ls(d), NEW q \in Q(j) PROVE amount'[j][q] <= CallCap
    <3>1. CASE j = i /\ q = p
      BY <1>9, <3>1
    <3>2. CASE ~(j = i /\ q = p)
      <4>1. q \in P(j) /\ q \in Ms(d, j)
        BY <1>7, <1>10, <2>1, <3>2
      <4>2. amount'[j][q] = amount[j][q]
        BY <1>2, <2>1, <3>2, <4>1
      <4> QED BY <2>1, <4>1, <4>2 DEF McpInv, SpendOk, P, d
    <3> QED BY <3>1, <3>2
  <2> QED BY <2>1
<1>13. SpendOk(d, stage, member', amount', spent)
  <2>1. \A j \in Ls(d) : stage[j] = "running" => j = i
    BY <1>4, OneRunning, DialogueShape DEF McpInv, Typed, d
  <2>2. \A j \in Ls(d) : stage[j] = "running" => RoomFor(spent, Q(j), amount'[j])
    BY <1>11, <2>1
  <2> QED BY <1>12, <2>2 DEF SpendOk, Q, McpInv
<1> QED BY <1>3, <1>5, <1>6, <1>13 DEF McpInv, d

\* A line starts: its requests are dispatched together, or the batch is refused.
LEMMA LineStarts ==
    ASSUME McpInv, NEW i \in Lines, Start(i)
    PROVE  McpInv'
<1> DEFINE d == dialogue
           r == [p \in Members(i) |-> IF Refused(i) THEN "done" ELSE "dispatched"]
<1>1. /\ UNCHANGED <<dialogue, frame, amount, wire, writeQueue, spent>>
      /\ stage[i] = "waiting" /\ \A j \in 1..(i - 1) : stage[j] = "answered"
      /\ stage' = [stage EXCEPT ![i] = "running"] /\ member' = [member EXCEPT ![i] = r]
  BY DEF Start, Turn, output
<1>2. i \in Ls(d) /\ Members(i) = Ms(d, i) /\ (Refused(i) <=> Ref(d, i)) /\ d \in Dialogues
  BY DEF Lines, Ls, Members, Ms, Refused, Ref, McpInv, Typed
<1>3. /\ r \in [Ms(d, i) -> Standing]
      /\ \A p \in Ms(d, i) : r[p] \in {"done", "dispatched"} /\ (Ref(d, i) => r[p] = "done")
                             /\ (~Ref(d, i) => r[p] = "dispatched")
  BY <1>2 DEF Standing
<1> HIDE DEF r
<1>4. Nested(d, member', Standing) /\ \A j \in Ls(d) : member'[j] = IF j = i THEN r ELSE member[j]
  <2>1. Nested(d, member, Standing)
    BY DEF McpInv, Typed
  <2>2. member' = [j \in Ls(d) |-> IF j = i THEN r ELSE member[j]]
    BY <1>1, <1>2, <2>1 DEF Nested
  <2> HIDE DEF d
  <2>3. \A j \in Ls(d) : member'[j] = IF j = i THEN r ELSE member[j]
    BY <2>2
  <2>4. member' = [j \in Ls(d) |-> member'[j]]
    BY <2>2, <2>3
  <2> QED BY <1>3, <2>1, <2>3, <2>4 DEF Nested
<1>5. /\ stage' \in [Ls(d) -> {"waiting", "running", "answered"}]
      /\ \A j \in Ls(d) : stage'[j] = IF j = i THEN "running" ELSE stage[j]
  BY <1>1, <1>2 DEF McpInv, Typed
<1>6. Typed(d, stage', member', frame, amount, spent)
  BY <1>4, <1>5 DEF McpInv, Typed
<1>7. Len(d) \in Nat /\ i \in Nat /\ i <= Len(d)
  BY <1>2, DialogueShape DEF Ls
<1>8. \A j \in 1..(i - 1) : j \in Ls(d) /\ j # i
  BY <1>7 DEF Ls
<1>9. TurnOk(d, stage', member')
  <2>1. ASSUME NEW j \in Ls(d) PROVE stage'[j] # "waiting" => \A k \in 1..(j - 1) : stage'[k] = "answered"
    <3>1. CASE j = i
      BY <1>1, <1>5, <1>8, <3>1
    <3>2. CASE j # i
      <4>1. ASSUME stage[j] # "waiting", NEW k \in 1..(j - 1) PROVE stage[k] = "answered" /\ k # i /\ k \in Ls(d)
        <5>1. stage[k] = "answered"
          BY <2>1, <4>1 DEF McpInv, TurnOk
        <5>2. k \in Ls(d)
          BY <1>7, <2>1, <4>1 DEF Ls
        <5> QED BY <1>1, <5>1, <5>2
      <4> QED BY <1>5, <2>1, <3>2, <4>1
    <3> QED BY <3>1, <3>2
  <2>2. ASSUME NEW j \in Ls(d)
        PROVE  /\ stage'[j] = "waiting" => \A p \in Ms(d, j) : member'[j][p] = "new"
               /\ stage'[j] = "answered" => \A p \in Ms(d, j) : member'[j][p] = "done"
               /\ Ref(d, j) => \A p \in Ms(d, j) : member'[j][p] \in {"new", "done"}
    <3>1. CASE j = i
      BY <1>3, <1>4, <1>5, <3>1
    <3>2. CASE j # i
      <4>1. stage'[j] = stage[j] /\ member'[j] = member[j]
        BY <1>4, <1>5, <2>2, <3>2
      <4> QED BY <2>2, <4>1 DEF McpInv, TurnOk
    <3> QED BY <3>1, <3>2
  <2> QED BY <2>1, <2>2 DEF TurnOk
<1>10. FramesOk(d, member', frame)
  <2>1. \A j \in Ls(d) : ~Ref(d, j) => \A p \in Ms(d, j) :
          member'[j][p] = "done" => member[j][p] = "done"
    BY <1>3, <1>4
  <2> QED BY <2>1 DEF McpInv, FramesOk
<1>11. /\ \A j \in Ls(d) : j # i => Paying(d, member', j) = Paying(d, member, j)
       /\ Paying(d, member', i) = {}
  BY <1>2, <1>3, <1>4 DEF Paying
<1>12. RoomFor(spent, {}, amount[i])
  <2>1. Cardinality({}) = 0 /\ 0 * CallCap = 0 /\ spent + 0 = spent /\ spent <= Budget
    BY FS_EmptySet, Caps DEF McpInv, Typed, SpendOk
  <2> QED BY <2>1 DEF RoomFor
<1>13. SpendOk(d, stage', member', amount, spent)
  BY <1>5, <1>11, <1>12 DEF McpInv, SpendOk
<1>14. WireOk(d, stage', wire, writeQueue)
  <2>1. \A e \in Entries(d) : e.line \in Ls(d)
    BY DEF Entries
  <2>2. wire \in Seq(Entries(d)) /\ writeQueue \in Seq(Entries(d))
    BY DEF McpInv, WireOk
  <2>3. /\ \A k \in DOMAIN wire : wire[k].line \in Ls(d)
        /\ \A k \in DOMAIN writeQueue : writeQueue[k].line \in Ls(d)
    BY <2>1, <2>2
  <2> QED BY <1>1, <1>5, <2>3 DEF McpInv, WireOk
<1> QED BY <1>1, <1>6, <1>9, <1>10, <1>13, <1>14 DEF McpInv

LEMMA AppendSorted ==
    ASSUME NEW E, NEW s \in Seq(E), NEW e \in E, Sorted(s), \A k \in DOMAIN s : s[k].line < e.line
    PROVE  Sorted(Append(s, e)) /\ Append(s, e) \in Seq(E)
           /\ \A k \in DOMAIN Append(s, e) : Append(s, e)[k] = e \/ \E j \in DOMAIN s : Append(s, e)[k] = s[j]
<1> DEFINE a == Append(s, e)
           n == Len(s)
<1>1. n \in Nat /\ DOMAIN s = 1..n /\ DOMAIN a = 1..(n + 1) /\ a \in Seq(E)
  OBVIOUS
<1>2. a[n + 1] = e /\ \A k \in 1..n : a[k] = s[k]
  OBVIOUS
<1> HIDE DEF a, n
<1>3. \A k \in DOMAIN a : k = n + 1 \/ k \in 1..n
  BY <1>1
<1>4. ASSUME NEW j \in DOMAIN a, NEW k \in DOMAIN a, j < k PROVE a[j].line < a[k].line
  <2>1. j \in 1..n
    BY <1>1, <1>4
  <2>2. CASE k = n + 1
    BY <1>1, <1>2, <2>1, <2>2
  <2>3. CASE k \in 1..n
    BY <1>1, <1>2, <1>4, <2>1, <2>3 DEF Sorted
  <2> QED BY <1>3, <2>2, <2>3
<1>5. Sorted(a)
  BY <1>4 DEF Sorted
<1>6. \A k \in DOMAIN a : a[k] = e \/ \E j \in DOMAIN s : a[k] = s[j]
  BY <1>1, <1>2, <1>3
<1> QED BY <1>1, <1>5, <1>6 DEF a

LEMMA TailSorted ==
    ASSUME NEW E, NEW s \in Seq(E), s # <<>>, Sorted(s)
    PROVE  /\ Tail(s) \in Seq(E) /\ Sorted(Tail(s)) /\ Head(s) \in E /\ 1 \in DOMAIN s /\ Head(s) = s[1]
           /\ \A k \in DOMAIN Tail(s) : /\ k + 1 \in DOMAIN s /\ Tail(s)[k] = s[k + 1]
                                        /\ Head(s).line < Tail(s)[k].line
<1> DEFINE b == Tail(s)
           n == Len(s) - 1
<1>1. n \in Nat /\ DOMAIN s = 1..(n + 1) /\ DOMAIN b = 1..n /\ b \in Seq(E)
      /\ Head(s) = s[1] /\ Head(s) \in E
  OBVIOUS
<1>2. \A k \in DOMAIN b : b[k] = s[k + 1]
  OBVIOUS
<1> HIDE DEF b, n
<1>3. \A k \in DOMAIN b : k \in Nat /\ k + 1 \in DOMAIN s /\ 1 \in DOMAIN s /\ 1 < k + 1
  BY <1>1
<1>4. 1 \in DOMAIN s
  BY <1>1
<1>5. \A k \in DOMAIN b : s[1].line < b[k].line
  BY <1>2, <1>3 DEF Sorted
<1>6. \A j, k \in DOMAIN b : j < k => j + 1 < k + 1
  BY <1>3
<1>7. Sorted(b)
  BY <1>2, <1>3, <1>6 DEF Sorted
<1> QED BY <1>1, <1>2, <1>3, <1>4, <1>5, <1>7 DEF b

LEMMA EntryIs == \A d : \A e \in Entries(d) : e.line \in Ls(d) /\ e.ids = Reply(d, e.line)
  BY DEF Entries

\* A line is answered: what is queued comes after all that was answered before it.
LEMMA LineAnswered ==
    ASSUME McpInv, NEW i \in Lines, Answer(i)
    PROVE  McpInv'
<1> DEFINE d == dialogue
           e == [line |-> i, ids |-> Frames(i)]
<1>1. /\ UNCHANGED <<dialogue, member, frame, amount, wire, spent>>
      /\ stage[i] = "running" /\ stage' = [stage EXCEPT ![i] = "answered"]
      /\ writeQueue' \in {writeQueue, Append(writeQueue, e)}
      /\ \A p \in Members(i) : member[i][p] = "done"
  BY DEF Answer
<1>2. i \in Ls(d) /\ Members(i) = Ms(d, i) /\ (Refused(i) <=> Ref(d, i)) /\ d \in Dialogues
  BY DEF Lines, Ls, Members, Ms, Refused, Ref, McpInv, Typed
<1>3. e \in Entries(d) /\ e.line = i
  <2>1. ~Ref(d, i) => {p \in Members(i) : frame[i][p] # NoFrame} = Asking(d, i)
    BY <1>1, <1>2 DEF McpInv, FramesOk, Asking
  <2>2. Frames(i) = Reply(d, i)
    BY <1>2, <2>1 DEF Frames, Reply
  <2> QED BY <1>2, <2>2 DEF Entries
<1> HIDE DEF e
<1>4. /\ stage' \in [Ls(d) -> {"waiting", "running", "answered"}]
      /\ \A j \in Ls(d) : stage'[j] = IF j = i THEN "answered" ELSE stage[j]
  BY <1>1, <1>2 DEF McpInv, Typed
<1>5. Typed(d, stage', member, frame, amount, spent)
  BY <1>4 DEF McpInv, Typed
<1>6. Len(d) \in Nat /\ i \in Nat /\ i >= 1 /\ i <= Len(d)
  BY <1>2, DialogueShape DEF Ls
<1>7. TurnOk(d, stage', member)
  <2>1. ASSUME NEW j \in Ls(d), stage'[j] # "waiting", NEW k \in 1..(j - 1)
        PROVE  stage'[k] = "answered"
    <3>1. k \in Ls(d)
      BY <1>6, <2>1 DEF Ls
    <3>2. stage[j] # "waiting"
      BY <1>1, <1>4, <2>1
    <3>3. stage[k] = "answered"
      BY <2>1, <3>2 DEF McpInv, TurnOk
    <3> QED BY <1>4, <3>1, <3>3
  <2>2. ASSUME NEW j \in Ls(d)
        PROVE  /\ stage'[j] = "waiting" => \A p \in Ms(d, j) : member[j][p] = "new"
               /\ stage'[j] = "answered" => \A p \in Ms(d, j) : member[j][p] = "done"
               /\ Ref(d, j) => \A p \in Ms(d, j) : member[j][p] \in {"new", "done"}
    BY <1>1, <1>2, <1>4, <2>2 DEF McpInv, TurnOk
  <2> QED BY <2>1, <2>2 DEF TurnOk
<1>8. SpendOk(d, stage', member, amount, spent)
  BY <1>4 DEF McpInv, SpendOk
<1>9. ASSUME NEW x \in Ls(d), stage[x] = "answered" PROVE x < i /\ stage'[x] = "answered"
  <2>1. x \in Nat /\ x >= 1 /\ x # i
    BY <1>1, <1>9 DEF Ls
  <2>2. i < x => i \in 1..(x - 1)
    BY <1>6, <2>1
  <2>3. i < x => stage[i] = "answered"
    BY <1>9, <2>2 DEF McpInv, TurnOk
  <2> QED BY <1>1, <1>4, <1>6, <1>9, <2>1, <2>3
<1>10. /\ wire \in Seq(Entries(d)) /\ writeQueue \in Seq(Entries(d))
       /\ Sorted(wire) /\ Sorted(writeQueue)
       /\ \A j \in DOMAIN wire, k \in DOMAIN writeQueue : wire[j].line < writeQueue[k].line
       /\ \A k \in DOMAIN wire : stage[wire[k].line] = "answered"
       /\ \A k \in DOMAIN writeQueue : stage[writeQueue[k].line] = "answered"
  BY DEF McpInv, WireOk
<1> HIDE DEF d
<1>11. /\ \A k \in DOMAIN wire : wire[k].line \in Ls(d)
       /\ \A k \in DOMAIN writeQueue : writeQueue[k].line \in Ls(d)
  BY <1>10, EntryIs
<1>12. /\ \A k \in DOMAIN wire : wire[k].line < i /\ stage'[wire[k].line] = "answered"
       /\ \A k \in DOMAIN writeQueue : writeQueue[k].line < i /\ stage'[writeQueue[k].line] = "answered"
  BY <1>9, <1>10, <1>11
<1>13. CASE writeQueue' = writeQueue
  <2>1. WireOk(d, stage', wire, writeQueue)
    BY <1>10, <1>12 DEF WireOk
  <2> QED BY <1>1, <1>5, <1>7, <1>8, <1>13, <2>1 DEF McpInv, d
<1>14. CASE writeQueue' = Append(writeQueue, e)
  <2> DEFINE q == Append(writeQueue, e)
  <2>1. /\ Sorted(q) /\ q \in Seq(Entries(d))
        /\ \A k \in DOMAIN q : q[k] = e \/ \E j \in DOMAIN writeQueue : q[k] = writeQueue[j]
    BY <1>3, <1>10, <1>12, AppendSorted
  <2> HIDE DEF q
  <2>2. \A j \in DOMAIN wire, k \in DOMAIN q : wire[j].line < q[k].line
    BY <1>3, <1>10, <1>12, <2>1
  <2>3. \A k \in DOMAIN q : stage'[q[k].line] = "answered"
    BY <1>2, <1>3, <1>4, <1>12, <2>1 DEF d
  <2>4. WireOk(d, stage', wire, q)
    BY <1>10, <1>12, <2>1, <2>2, <2>3 DEF WireOk
  <2> QED BY <1>1, <1>5, <1>7, <1>8, <1>14, <2>4 DEF McpInv, d, q
<1> QED BY <1>1, <1>13, <1>14

\* The oldest answer is written, or dropped when the client is gone.
LEMMA AnswerWritten ==
    ASSUME McpInv, NEW full \in BOOLEAN, Write(full)
    PROVE  McpInv'
<1> DEFINE d == dialogue
           e == Head(writeQueue)
           q == Tail(writeQueue)
           w == Append(wire, e)
<1>1. /\ UNCHANGED <<dialogue, stage, member, frame, amount, spent>>
      /\ writeQueue # <<>> /\ writeQueue' = q /\ wire' \in {wire, w}
  BY DEF Write, work
<1>2. /\ wire \in Seq(Entries(d)) /\ writeQueue \in Seq(Entries(d))
      /\ Sorted(wire) /\ Sorted(writeQueue)
      /\ \A j \in DOMAIN wire, k \in DOMAIN writeQueue : wire[j].line < writeQueue[k].line
      /\ \A k \in DOMAIN wire : stage[wire[k].line] = "answered"
      /\ \A k \in DOMAIN writeQueue : stage[writeQueue[k].line] = "answered"
  BY DEF McpInv, WireOk
<1> HIDE DEF d
<1>3. /\ q \in Seq(Entries(d)) /\ Sorted(q) /\ e \in Entries(d) /\ 1 \in DOMAIN writeQueue /\ e = writeQueue[1]
      /\ \A k \in DOMAIN q : k + 1 \in DOMAIN writeQueue /\ q[k] = writeQueue[k + 1] /\ e.line < q[k].line
  BY <1>1, <1>2, TailSorted
<1> HIDE DEF e, q
<1>4. \A k \in DOMAIN wire : wire[k].line < e.line
  BY <1>2, <1>3
<1>5. /\ Sorted(w) /\ w \in Seq(Entries(d))
      /\ \A k \in DOMAIN w : w[k] = e \/ \E j \in DOMAIN wire : w[k] = wire[j]
  <2> DEFINE E == Entries(d)
  <2>1. wire \in Seq(E) /\ e \in E /\ Sorted(wire)
    BY <1>2, <1>3
  <2> HIDE DEF E
  <2> QED BY <1>4, <2>1, AppendSorted DEF E
<1> HIDE DEF w
<1>6. /\ \A j \in DOMAIN wire, k \in DOMAIN q : wire[j].line < q[k].line
      /\ \A k \in DOMAIN q : stage[q[k].line] = "answered"
  BY <1>2, <1>3
<1>7. /\ \A j \in DOMAIN w, k \in DOMAIN q : w[j].line < q[k].line
      /\ \A k \in DOMAIN w : stage[w[k].line] = "answered"
  <2>1. stage[e.line] = "answered" /\ \A k \in DOMAIN q : e.line < q[k].line
    BY <1>2, <1>3
  <2>2. ASSUME NEW j \in DOMAIN w PROVE stage[w[j].line] = "answered" /\ \A k \in DOMAIN q : w[j].line < q[k].line
    <3>1. CASE w[j] = e
      BY <2>1, <3>1
    <3>2. ASSUME NEW x \in DOMAIN wire, w[j] = wire[x]
          PROVE  stage[w[j].line] = "answered" /\ \A k \in DOMAIN q : w[j].line < q[k].line
      BY <1>2, <1>6, <3>2
    <3> QED BY <1>5, <2>2, <3>1, <3>2
  <2> QED BY <2>2
<1>8. WireOk(d, stage, wire, q)
  BY <1>2, <1>3, <1>6 DEF WireOk
<1>9. WireOk(d, stage, w, q)
  BY <1>3, <1>5, <1>6, <1>7 DEF WireOk
<1>10. WireOk(d, stage, wire', writeQueue')
  BY <1>1, <1>8, <1>9
<1> QED BY <1>1, <1>10 DEF McpInv, d

LEMMA RequestSteps ==
    ASSUME McpInv, NEW i \in Lines, NEW p \in Members(i),
           \/ Handle(i, p) \/ CallFault(i, p) \/ Paid(i, p) \/ PaidFails(i, p)
           \/ \E a \in Prices : Quote(i, p, a)
    PROVE  McpInv'
<1>1. i \in Ls(dialogue) /\ p \in Ms(dialogue, i) /\ (Kind(i, p) = "note" <=> p \notin Asking(dialogue, i))
  BY DEF Lines, Ls, Members, Ms, Kind, Asking
<1> DEFINE Frame(f) == IF Kind(i, p) = "note" THEN NoFrame ELSE f
<1>2. \A f \in {"result", "error"} : Frame(f) \in FrameKind /\ (Frame(f) # NoFrame <=> p \in Asking(dialogue, i))
  BY <1>1 DEF FrameKind, NoFrame
<1>3. \A f : Emitted(i, p, f) = [frame EXCEPT ![i][p] = Frame(f)]
  BY DEF Emitted
<1>4. CASE \/ Handle(i, p) \/ CallFault(i, p) \/ PaidFails(i, p)
           \/ \E a \in Prices : Quote(i, p, a) /\ ~CanSpend(a)
  <2>1. /\ UNCHANGED <<dialogue, stage, amount, wire, writeQueue>> /\ spent' = spent
        /\ member[i][p] \in {"dispatched", "paying"} /\ member' = [member EXCEPT ![i][p] = "done"]
        /\ \E f \in {"result", "error"} : frame' = [frame EXCEPT ![i][p] = Frame(f)]
    BY <1>3, <1>4 DEF Handle, CallFault, PaidFails, Quote, Fails, output
  <2>2. PICK f \in {"result", "error"} : frame' = [frame EXCEPT ![i][p] = Frame(f)]
    BY <2>1
  <2> DEFINE z == Frame(f)
  <2>3. z \in FrameKind /\ (z # NoFrame <=> p \in Asking(dialogue, i)) /\ frame' = [frame EXCEPT ![i][p] = z]
    BY <1>2, <2>2
  <2> HIDE DEF z
  <2> QED BY <1>1, <2>1, <2>3, RequestEnds
<1>5. CASE Paid(i, p)
  <2>1. /\ UNCHANGED <<dialogue, stage, amount, wire, writeQueue>> /\ spent' = spent + amount[i][p]
        /\ member[i][p] = "paying" /\ member' = [member EXCEPT ![i][p] = "done"]
        /\ frame' = [frame EXCEPT ![i][p] = Frame("result")]
    BY <1>3, <1>5 DEF Paid, output
  <2> DEFINE z == Frame("result")
  <2>2. z \in FrameKind /\ (z # NoFrame <=> p \in Asking(dialogue, i)) /\ frame' = [frame EXCEPT ![i][p] = z]
    BY <1>2, <2>1
  <2> HIDE DEF z
  <2> QED BY <1>1, <2>1, <2>2, RequestEnds
<1>6. ASSUME NEW a \in Prices, Quote(i, p, a), CanSpend(a) PROVE McpInv'
  <2>1. /\ UNCHANGED <<dialogue, stage, frame, wire, writeQueue, spent>>
        /\ member[i][p] = "dispatched" /\ member' = [member EXCEPT ![i][p] = "paying"]
        /\ amount' = [amount EXCEPT ![i][p] = a]
    BY <1>6 DEF Quote, output
  <2>2. a \in Nat
    BY McpAssumption
  <2> QED BY <1>1, <1>6, <2>1, <2>2, CallAllowed
<1> QED BY <1>4, <1>5, <1>6

\* Answers leave in the order of the requests, each once and complete, and the
\* recorded spend passes the session's budget by no more than one call cap for each
\* other member of a batch, for any dialogue and in any interleaving of its calls.
THEOREM SessionKeptTheorem == McpSpec => []SessionKept
<1>1. McpInit => McpInv
  <2> SUFFICES ASSUME NEW d \in Dialogues, Connected(d) PROVE McpInv
    BY DEF McpInit
  <2>1. /\ DOMAIN d = Ls(d) /\ Len(d) \in Nat /\ dialogue = d /\ spent = 0
        /\ wire = <<>> /\ writeQueue = <<>> /\ stage = [i \in Ls(d) |-> "waiting"]
        /\ member = [i \in Ls(d) |-> [p \in Ms(d, i) |-> "new"]]
        /\ frame = [i \in Ls(d) |-> [p \in Ms(d, i) |-> NoFrame]]
        /\ amount = [i \in Ls(d) |-> [p \in Ms(d, i) |-> 0]]
    BY DialogueShape DEF Connected, Ms
  <2>2. /\ Nested(d, member, Standing) /\ Nested(d, frame, FrameKind) /\ Nested(d, amount, Nat)
        /\ \A i \in Ls(d) : \A p \in Ms(d, i) : member[i][p] = "new"
    BY <2>1 DEF Nested, Standing, FrameKind
  <2>3. Typed(d, stage, member, frame, amount, spent)
    BY <2>1, <2>2 DEF Typed
  <2>4. TurnOk(d, stage, member) /\ FramesOk(d, member, frame)
    BY <2>1, <2>2 DEF TurnOk, FramesOk
  <2>5. \A i \in Ls(d) : Paying(d, member, i) = {}
    BY <2>2 DEF Paying
  <2>6. 0 <= Budget
    <3>1. 0 + 1 <= MaxBatch /\ 0 * CallCap = 0
      BY McpAssumption
    <3> QED BY <3>1, Caps
  <2>7. SpendOk(d, stage, member, amount, spent)
    BY <2>1, <2>5, <2>6 DEF SpendOk
  <2>8. WireOk(d, stage, wire, writeQueue)
    BY <2>1 DEF WireOk, Sorted
  <2> QED BY <2>1, <2>3, <2>4, <2>7, <2>8 DEF McpInv
<1>2. McpInv /\ [McpNext]_mcpVars => McpInv'
  <2> SUFFICES ASSUME McpInv, [McpNext]_mcpVars PROVE McpInv'
    OBVIOUS
  <2>1. CASE Receive \/ Drain \/ Disconnect \/ StdinEnds \/ UNCHANGED mcpVars
    <3>1. UNCHANGED <<dialogue, stage, member, frame, amount, spent, wire, writeQueue>>
      BY <2>1 DEF Receive, Drain, Disconnect, StdinEnds, mcpVars, work, output
    <3> QED BY <3>1 DEF McpInv
  <2>2. ASSUME NEW i \in Lines, Step(i) PROVE McpInv'
    BY <2>2, LineStarts, LineAnswered, RequestSteps DEF Step
  <2> QED BY <2>1, <2>2, AnswerWritten DEF McpNext
<1>3. McpInv => SessionKept
  <2> SUFFICES ASSUME McpInv PROVE SessionKept
    OBVIOUS
  <2>1. wire \in Seq(Entries(dialogue)) /\ Sorted(wire) /\ spent <= Budget
    BY DEF McpInv, WireOk, SpendOk
  <2>2. \A k \in DOMAIN wire : wire[k] \in Entries(dialogue)
    BY <2>1
  <2>3. ASSUME NEW k \in DOMAIN wire
        PROVE  LET i == wire[k].line IN
                 ~Refused(i) => wire[k].ids = InOrder(Members(i), {p \in Members(i) : Kind(i, p) # "note"})
    <3>1. wire[k].ids = Reply(dialogue, wire[k].line)
      BY <2>2, EntryIs
    <3> QED BY <3>1 DEF Reply, Asking, Ms, Members, Kind, Ref, Refused
  <2> QED BY <2>1, <2>3 DEF SessionKept, Sorted, Budget
<1> QED BY <1>1, <1>2, <1>3, PTL DEF McpSpec
=============================================================================
