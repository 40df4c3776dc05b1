--------------------------- MODULE RecordsProofs ---------------------------
(***************************************************************************)
(* Theorems about what a request leaves behind: the settlement log and its *)
(* read model, the catalog and its caches, the retention job and the pact  *)
(* scheme.                                                                 *)
(***************************************************************************)
EXTENDS EventStore, Retention, Catalog, CatalogCache, Pact, Gate, SequenceTheorems,
        WellFoundedInduction, TLAPS

-----------------------------------------------------------------------------
(* The fold of a log. A recursive function is the one its equation describes *)
(* only if there is one: it is built for logs up to a length, by induction   *)
(* on the length.                                                            *)

\* A set of numbers has a least one.
LEMMA Least ==
    ASSUME NEW T, T \subseteq Nat, T # {}
    PROVE  \E x \in T : \A y \in T : x <= y
<1>1. PICK x \in T : \A y \in T : ~(<<y, x>> \in OpToRel(<, Nat))
  BY NatLessThanWellFounded, WFMin
<1>2. \A y \in T : ~(y < x)
  BY <1>1 DEF OpToRel
<1> QED BY <1>2

Step(f, log) == IF log = <<>> THEN NoRow ELSE ApplyEvent(f[Front(log)], Last(log))
Short(n) == {log \in Seq(EventOf) : Len(log) <= n}
IsFold(f, n) == f = [log \in Short(n) |-> Step(f, log)]

LEMMA FrontShort ==
    ASSUME NEW n \in Nat, NEW log \in Short(n), log # <<>>
    PROVE  n > 0 /\ Front(log) \in Short(n - 1) /\ Len(Front(log)) = Len(log) - 1
<1>1. log \in Seq(EventOf) /\ Len(log) \in Nat /\ Len(log) > 0 /\ Len(log) <= n
  BY DEF Short
<1>2. \A i \in 1..(Len(log) - 1) : log[i] \in EventOf
  BY <1>1, ElementOfSeq
<1> DEFINE m == Len(log) - 1
<1>3. m \in Nat /\ \A i \in 1..m : log[i] \in EventOf
  BY <1>1, <1>2
<1> HIDE DEF m
<1>4. SubSeq(log, 1, m) \in Seq(EventOf) /\ Len(SubSeq(log, 1, m)) = m
  BY <1>3, SubSeqProperties, Z3
<1> QED BY <1>1, <1>4 DEF Front, Short, m

LEMMA FoldsExist == \A n \in Nat : \E f : IsFold(f, n)
<1> DEFINE T == {n \in Nat : ~\E f : IsFold(f, n)}
<1> SUFFICES ASSUME T # {} PROVE FALSE
  OBVIOUS
<1>1. PICK n \in T : \A k \in T : n <= k
  BY Least
<1>2. CASE n = 0
  <2> DEFINE f == [log \in Short(0) |-> NoRow]
  <2>1. \A log \in Short(0) : log = <<>>
    BY EmptySeq DEF Short
  <2>2. IsFold(f, 0)
    BY <2>1 DEF IsFold, Step
  <2> QED BY <1>2, <2>2
<1>3. CASE n # 0
  <2>1. n - 1 \in Nat /\ n \in Nat /\ n - 1 \notin T
    BY <1>1, <1>3
  <2>2. PICK g : IsFold(g, n - 1)
    BY <2>1
  <2> DEFINE f == [log \in Short(n) |-> Step(g, log)]
  <2>3. \A log \in Short(n - 1) : log \in Short(n) /\ g[log] = Step(g, log)
    BY <2>1, <2>2 DEF IsFold, Short
  <2>4. \A log \in Short(n - 1) : f[log] = g[log]
    BY <2>3
  <2>5. \A log \in Short(n) : Step(f, log) = Step(g, log)
    <3> HIDE DEF f
    <3> TAKE log \in Short(n)
    <3>1. CASE log # <<>>
      BY <2>1, <2>4, <3>1, FrontShort DEF Step
    <3> QED BY <3>1 DEF Step
  <2>6. IsFold(f, n)
    BY <2>5 DEF IsFold
  <2> QED BY <1>1, <2>6
<1> QED BY <1>2, <1>3

LEMMA FoldsAgree ==
    ASSUME NEW n \in Nat, NEW m \in Nat, NEW f, NEW g, IsFold(f, n), IsFold(g, m),
           NEW log \in Short(n), log \in Short(m)
    PROVE  f[log] = g[log]
<1> DEFINE U == {l \in Short(n) : l \in Short(m) /\ f[l] # g[l]}
           T == {Len(l) : l \in U}
<1> SUFFICES ASSUME U # {} PROVE FALSE
  OBVIOUS
<1>1. PICK l \in U : \A k \in T : Len(l) <= k
  <2>1. U \subseteq Seq(EventOf)
    BY DEF Short
  <2>2. T \subseteq Nat /\ T # {}
    BY <2>1
  <2>3. PICK x \in T : \A k \in T : x <= k
    BY <2>2, Least
  <2> QED BY <2>3
<1>2. f[l] = Step(f, l) /\ g[l] = Step(g, l)
  BY DEF IsFold
<1>3. CASE l = <<>>
  BY <1>2, <1>3 DEF Step
<1>4. CASE l # <<>>
  <2>1. /\ Front(l) \in Short(n - 1) /\ Front(l) \in Short(m - 1)
        /\ Len(Front(l)) = Len(l) - 1 /\ Len(l) \in Nat
    BY <1>4, FrontShort DEF Short
  <2>2. Front(l) \in Short(n) /\ Front(l) \in Short(m)
    BY <2>1 DEF Short
  <2>3. Front(l) \notin U
    <3>1. Front(l) \in U => Len(Front(l)) \in T
      OBVIOUS
    <3> HIDE DEF T, U
    <3> QED BY <1>1, <2>1, <3>1
  <2> QED BY <1>2, <1>4, <2>2, <2>3 DEF Step
<1> QED BY <1>3, <1>4

LEMMA FoldEquation == Fold = [log \in Seq(EventOf) |-> Step(Fold, log)]
<1> DEFINE of(n) == CHOOSE f : IsFold(f, n)
           F == [log \in Seq(EventOf) |-> of(Len(log))[log]]
<1>1. \A n \in Nat : IsFold(of(n), n)
  BY FoldsExist
<1> HIDE DEF of
<1>2. ASSUME NEW log \in Seq(EventOf) PROVE F[log] = Step(F, log)
  <2>1. Len(log) \in Nat /\ log \in Short(Len(log))
    BY DEF Short
  <2>2. F[log] = Step(of(Len(log)), log)
    BY <1>1, <2>1 DEF IsFold
  <2>3. CASE log = <<>>
    BY <2>2, <2>3 DEF Step
  <2>4. CASE log # <<>>
    <3>1. /\ Len(Front(log)) = Len(log) - 1 /\ Len(log) > 0
          /\ Front(log) \in Short(Len(log) - 1)
      BY <2>1, <2>4, FrontShort
    <3>2. Front(log) \in Seq(EventOf) /\ Front(log) \in Short(Len(log)) /\ Len(log) - 1 \in Nat
      BY <2>1, <3>1 DEF Short
    <3>3. of(Len(log) - 1)[Front(log)] = of(Len(log))[Front(log)]
      BY <1>1, <2>1, <3>1, <3>2, FoldsAgree
    <3>4. F[Front(log)] = of(Len(log))[Front(log)]
      BY <3>1, <3>2, <3>3
    <3> QED BY <2>2, <2>4, <3>4 DEF Step
  <2> QED BY <2>3, <2>4
<1>3. F = [log \in Seq(EventOf) |-> Step(F, log)]
  BY <1>2
<1>4. Fold = CHOOSE f : f = [log \in Seq(EventOf) |-> Step(f, log)]
  BY DEF Fold, Step
<1> HIDE DEF F
<1> QED BY <1>3, <1>4

LEMMA FoldAppend ==
    ASSUME NEW log \in Seq(EventOf), NEW e \in EventOf
    PROVE  Fold[Append(log, e)] = ApplyEvent(Fold[log], e)
<1> DEFINE longer == Append(log, e)
<1>1. /\ longer \in Seq(EventOf) /\ longer # <<>> /\ Len(longer) = Len(log) + 1
      /\ \A i \in 1..Len(log) : longer[i] = log[i]
      /\ longer[Len(log) + 1] = e
  BY AppendProperties
<1> HIDE DEF longer
<1>2. Len(log) \in Nat /\ \A i \in 1..Len(log) : log[i] \in EventOf
  BY ElementOfSeq
<1>3. SubSeq(longer, 1, Len(log)) = log
  <2>1. \A i \in 1..Len(log) : longer[i] \in EventOf
    BY <1>1, <1>2
  <2>2. /\ SubSeq(longer, 1, Len(log)) \in Seq(EventOf)
        /\ Len(SubSeq(longer, 1, Len(log))) = Len(log)
        /\ \A i \in 1..Len(log) : SubSeq(longer, 1, Len(log))[i] = longer[i]
    BY <1>2, <2>1, SubSeqProperties, Z3
  <2> QED BY <1>1, <2>2, SeqEqual
<1>4. Front(longer) = log /\ Last(longer) = e
  BY <1>1, <1>2, <1>3 DEF Front, Last
<1>5. Fold[longer] = Step(Fold, longer)
  BY <1>1, FoldEquation
<1> QED BY <1>1, <1>4, <1>5 DEF Step, longer

LEMMA FoldIsRow ==
    ASSUME NEW log \in Seq(EventOf), log # <<>>
    PROVE  Fold[log] # NoRow
<1>1. Last(log) \in EventOf
  BY EmptySeq, ElementOfSeq DEF Last
<1>2. Fold[log] = ApplyEvent(Fold[Front(log)], Last(log))
  BY FoldEquation DEF Step
<1>3. StateOf(Last(log).type) # "none"
  BY <1>1 DEF EventOf, StateOf
<1> QED BY <1>2, <1>3 DEF ApplyEvent, NoRow

-----------------------------------------------------------------------------
(* The settlement log: a row is the fold of its log, and so is the log that a *)
(* repair has read, unless an event overtook it.                              *)

Write == {[key |-> k, event |-> e] : k \in StoreKey, e \in EventOf}

StoreTyped ==
    /\ events \in [StoreKey -> Seq(EventOf)] /\ rebuilding \in [StoreKey -> Seq(EventOf)]
    /\ projections = [k \in StoreKey |-> projections[k]]
    /\ raced = [k \in StoreKey |-> raced[k]]
    /\ ownWrites \in [StorePod -> [StoreKey -> Seq(EventOf)]]
    /\ unacked \in [StorePod -> {NoWrite} \cup Write]

RepairCurrent ==
    \A k \in StoreKey : ~raced[k] /\ rebuilding[k] # NoReplay => rebuilding[k] = events[k]

StoreInv == StoreTyped /\ ProjectionIsFold /\ RepairCurrent

\* The columns of the write statements are those of applyEvent.
LEMMA StatementIsApply ==
    ASSUME NEW row, NEW e \in EventOf
    PROVE  /\ e.type = "initiated" => SqlSaved(row, e) = ApplyEvent(row, e)
           /\ e.type # "initiated" => SqlUpdated(row, e) = ApplyEvent(row, e)
BY DEF SqlSaved, SqlUpdated, ApplyEvent, StateOf

LEMMA RememberedType ==
    ASSUME NEW log \in Seq(EventOf), NEW e \in EventOf
    PROVE  Remembered(log, e) \in Seq(EventOf)
BY AppendProperties DEF Remembered

LEMMA WriteEventKeeps ==
    ASSUME StoreInv, NEW p \in StorePod, NEW k \in StoreKey, NEW e \in EventOf, WriteEvent(p, k, e)
    PROVE  StoreInv'
<1> DEFINE row == IF e.type = "initiated" THEN SqlSaved(projections[k], e)
                  ELSE SqlUpdated(projections[k], e)
<1>1. /\ events' = [events EXCEPT ![k] = Append(events[k], e)]
      /\ projections' = [projections EXCEPT ![k] = row]
      /\ raced' = [raced EXCEPT ![k] = raced[k] \/ rebuilding[k] # NoReplay]
      /\ UNCHANGED <<ownWrites, rebuilding>>
      /\ unacked' = [unacked EXCEPT ![p] = [key |-> k, event |-> e]]
      /\ e.type = "initiated" \/ projections[k] # NoRow
  BY DEF WriteEvent
<1>2. events[k] \in Seq(EventOf) /\ Append(events[k], e) \in Seq(EventOf)
  BY AppendProperties DEF StoreInv, StoreTyped
<1>3. [key |-> k, event |-> e] \in Write
  BY DEF Write
<1>4. row = ApplyEvent(projections[k], e)
  BY StatementIsApply
<1> HIDE DEF row
<1>5. StoreTyped'
  BY <1>1, <1>2, <1>3 DEF StoreInv, StoreTyped
<1>6. ProjectionIsFold'
  <2> SUFFICES ASSUME NEW j \in StoreKey, ~raced'[j], projections'[j] # NoRow
               PROVE  projections'[j] = Fold[events'[j]]
    BY DEF ProjectionIsFold
  <2>1. CASE j # k
    <3>1. raced'[j] = raced[j] /\ projections'[j] = projections[j] /\ events'[j] = events[j]
      BY <1>1, <2>1 DEF StoreInv, StoreTyped
    <3> QED BY <3>1 DEF StoreInv, ProjectionIsFold
  <2>2. CASE j = k
    <3>1. ~raced[k] /\ projections'[k] = row /\ events'[k] = Append(events[k], e)
      BY <1>1, <2>2 DEF StoreInv, StoreTyped
    <3>2. ApplyEvent(projections[k], e) = ApplyEvent(Fold[events[k]], e)
      <4>1. CASE e.type = "initiated"
        BY <4>1 DEF ApplyEvent
      <4>2. CASE projections[k] # NoRow
        BY <3>1, <4>2 DEF StoreInv, ProjectionIsFold
      <4> QED BY <1>1, <4>1, <4>2
    <3> QED BY <1>2, <1>4, <2>2, <3>1, <3>2, FoldAppend
  <2> QED BY <2>1, <2>2
<1>7. RepairCurrent'
  BY <1>1 DEF StoreInv, StoreTyped, RepairCurrent
<1> QED BY <1>5, <1>6, <1>7 DEF StoreInv

LEMMA RepairKeeps ==
    ASSUME StoreInv, NEW k \in StoreKey, RebuildRead(k) \/ RebuildWrite(k) \/ DropProjection(k)
    PROVE  StoreInv'
<1>1. CASE RebuildRead(k)
  BY <1>1 DEF RebuildRead, StoreInv, StoreTyped, ProjectionIsFold, RepairCurrent
<1>2. CASE RebuildWrite(k)
  <2>1. /\ projections' = [projections EXCEPT ![k] = Fold[rebuilding[k]]]
        /\ rebuilding' = [rebuilding EXCEPT ![k] = NoReplay] /\ rebuilding[k] # NoReplay
        /\ UNCHANGED <<events, raced, ownWrites, unacked>>
    BY <1>2 DEF RebuildWrite
  <2>2. NoReplay \in Seq(EventOf)
    BY DEF NoReplay
  <2>3. StoreTyped'
    BY <2>1, <2>2 DEF StoreInv, StoreTyped
  <2>4. ProjectionIsFold' /\ RepairCurrent'
    BY <2>1 DEF StoreInv, StoreTyped, ProjectionIsFold, RepairCurrent
  <2> QED BY <2>3, <2>4 DEF StoreInv
<1>3. CASE DropProjection(k)
  BY <1>3 DEF DropProjection, StoreInv, StoreTyped, ProjectionIsFold, RepairCurrent
<1> QED BY <1>1, <1>2, <1>3

LEMMA MemoryKeeps ==
    ASSUME StoreInv, NEW p \in StorePod,
           Acknowledge(p) \/ \E k \in StoreKey, e \in EventOf : WriteOffline(p, k, e)
    PROVE  StoreInv'
<1>1. PICK k \in StoreKey, e \in EventOf :
        ownWrites' = [ownWrites EXCEPT ![p][k] = Remembered(@, e)]
  <2>1. CASE Acknowledge(p)
    <3>1. unacked[p] \in Write
      BY <2>1 DEF Acknowledge, StoreInv, StoreTyped
    <3>2. unacked[p].key \in StoreKey /\ unacked[p].event \in EventOf
      BY <3>1 DEF Write
    <3> QED BY <2>1, <3>2 DEF Acknowledge
  <2>2. CASE \E k \in StoreKey, e \in EventOf : WriteOffline(p, k, e)
    BY <2>2 DEF WriteOffline
  <2> QED BY <2>1, <2>2
<1>2. Remembered(ownWrites[p][k], e) \in Seq(EventOf)
  BY RememberedType DEF StoreInv, StoreTyped
<1>3. ownWrites' \in [StorePod -> [StoreKey -> Seq(EventOf)]]
  BY <1>1, <1>2 DEF StoreInv, StoreTyped
<1>4. unacked' \in [StorePod -> {NoWrite} \cup Write] /\ UNCHANGED <<events, projections, rebuilding, raced>>
  BY DEF Acknowledge, WriteOffline, StoreInv, StoreTyped
<1> QED BY <1>3, <1>4 DEF StoreInv, StoreTyped, ProjectionIsFold, RepairCurrent

\* A restart empties the pod's copy; a read changes the lookup and the pod's mode.
LEMMA PodKeeps ==
    ASSUME StoreInv, NEW p \in StorePod,
           \/ GoOffline(p) \/ RestartPod(p) \/ \E k \in StoreKey : ReadOwn(p, k)
           \/ ReadReplica \/ ReadPrimary \/ ReadFails
    PROVE  StoreInv'
<1>1. CASE RestartPod(p)
  <2>1. [k \in StoreKey |-> <<>>] \in [StoreKey -> Seq(EventOf)]
    OBVIOUS
  <2>2. ownWrites' \in [StorePod -> [StoreKey -> Seq(EventOf)]]
    BY <1>1, <2>1 DEF RestartPod, StoreInv, StoreTyped
  <2>3. unacked' \in [StorePod -> {NoWrite} \cup Write]
    BY <1>1 DEF RestartPod, StoreInv, StoreTyped
  <2> QED BY <1>1, <2>2, <2>3 DEF RestartPod, StoreInv, StoreTyped, ProjectionIsFold, RepairCurrent
<1>2. CASE ~RestartPod(p)
  <2>1. UNCHANGED <<events, projections, ownWrites, unacked, rebuilding, raced>>
    BY <1>2 DEF GoOffline, ReadOwn, ReadReplica, ReadPrimary, ReadFails, dataVars
  <2> QED BY <2>1 DEF StoreInv, StoreTyped, ProjectionIsFold, RepairCurrent
<1> QED BY <1>1, <1>2

LEMMA StoreInvStep ==
    ASSUME StoreInv, [StoreNext]_storeVars
    PROVE  StoreInv'
<1>1. CASE UNCHANGED storeVars
  BY <1>1 DEF storeVars, StoreInv, StoreTyped, ProjectionIsFold, RepairCurrent
<1>2. CASE \E k \in StoreKey : ReplicateRow(k)
  BY <1>2 DEF ReplicateRow, StoreInv, StoreTyped, ProjectionIsFold, RepairCurrent
<1>3. CASE ReadReplica \/ ReadPrimary \/ ReadFails
  <2>1. UNCHANGED <<events, projections, ownWrites, unacked, rebuilding, raced>>
    BY <1>3 DEF ReadReplica, ReadPrimary, ReadFails, dataVars
  <2> QED BY <2>1 DEF StoreInv, StoreTyped, ProjectionIsFold, RepairCurrent
<1> QED BY <1>1, <1>2, <1>3, WriteEventKeeps, RepairKeeps, MemoryKeeps, PodKeeps DEF StoreNext

LEMMA StoreInvariant == StoreSpec => []StoreInv
<1>1. StoreInit => StoreInv
  BY DEF StoreInit, StoreInv, StoreTyped, ProjectionIsFold, RepairCurrent, NoReplay
<1> QED BY <1>1, StoreInvStep, PTL DEF StoreSpec

\* The read model of a settlement is the fold of its log, for any number of
\* settlements, pods, events, repairs and deleted rows.
THEOREM ProjectionIsFoldTheorem == StoreSpec => []ProjectionIsFold
<1>1. StoreInv => ProjectionIsFold
  BY DEF StoreInv
<1> QED BY <1>1, StoreInvariant, PTL

\* While a read awaits a row that was there when it began and that no repair has
\* deleted, the row is in the primary; and an answer is never taken from elsewhere
\* empty-handed.
Awaited ==
    lookup.at \in {"replica", "primary"} =>
        /\ lookup.key \in StoreKey /\ lookup.pod \in StorePod
        /\ lookup.kept => projections[lookup.key] # NoRow

LookupTyped ==
    /\ lookup = [at |-> lookup.at, pod |-> lookup.pod, key |-> lookup.key, row |-> lookup.row,
                 kept |-> lookup.kept, still |-> lookup.still]
    /\ lookup.at # "none" => lookup.pod \in StorePod
    /\ offline = [p \in StorePod |-> offline[p]]

LookupInv == StoreInv /\ LookupTyped /\ Awaited /\ NoFalseMiss

\* What the other actions leave of a read under way.
LEMMA DisturbKeeps ==
    ASSUME LookupInv, NEW k \in StoreKey, Disturb(k),
           UNCHANGED offline, \A j \in StoreKey : j # k => projections'[j] = projections[j]
    PROVE  LookupTyped' /\ Awaited' /\ NoFalseMiss'
<1>1. CASE lookup.at = "answered"
  BY <1>1 DEF Disturb, NoLookup, LookupInv, LookupTyped, Awaited, NoFalseMiss
<1>2. CASE lookup.at # "answered" /\ lookup.key # k
  BY <1>2 DEF Disturb, LookupInv, LookupTyped, Awaited, NoFalseMiss
<1>3. CASE lookup.at # "answered" /\ lookup.key = k
  <2>1. lookup' = [lookup EXCEPT !.still = FALSE,
                                 !.kept = lookup.kept /\ projections'[k] # NoRow]
    BY <1>3 DEF Disturb
  <2> QED BY <1>3, <2>1 DEF LookupInv, LookupTyped, Awaited, NoFalseMiss
<1> QED BY <1>1, <1>2, <1>3

LEMMA LookupStep ==
    ASSUME LookupInv, [StoreNext]_storeVars
    PROVE  LookupInv'
<1>1. StoreInv'
  BY StoreInvStep DEF LookupInv
<1>2. CASE UNCHANGED storeVars
  BY <1>1, <1>2 DEF storeVars, LookupInv, LookupTyped, Awaited, NoFalseMiss
<1>3. ASSUME NEW p \in StorePod, NEW k \in StoreKey, NEW e \in EventOf,
             WriteEvent(p, k, e) \/ WriteOffline(p, k, e)
      PROVE  LookupInv'
  <2>1. Disturb(k) /\ UNCHANGED offline
    BY <1>3 DEF WriteEvent, WriteOffline
  <2>2. \A j \in StoreKey : j # k => projections'[j] = projections[j]
    BY <1>3 DEF WriteEvent, WriteOffline, LookupInv, StoreInv, StoreTyped
  <2> QED BY <1>1, <2>1, <2>2, DisturbKeeps DEF LookupInv
<1>4. ASSUME NEW k \in StoreKey, ReplicateRow(k) \/ DropProjection(k) \/ RebuildWrite(k)
      PROVE  LookupInv'
  <2>1. Disturb(k) /\ UNCHANGED offline
    BY <1>4 DEF ReplicateRow, DropProjection, RebuildWrite
  <2>2. \A j \in StoreKey : j # k => projections'[j] = projections[j]
    BY <1>4 DEF ReplicateRow, DropProjection, RebuildWrite, LookupInv, StoreInv, StoreTyped
  <2> QED BY <1>1, <2>1, <2>2, DisturbKeeps DEF LookupInv
<1>5. ASSUME NEW p \in StorePod, Acknowledge(p) PROVE LookupInv'
  <2>1. unacked[p].key \in StoreKey
    BY <1>5 DEF Acknowledge, LookupInv, StoreInv, StoreTyped, Write
  <2>2. Disturb(unacked[p].key) /\ UNCHANGED <<offline, projections>>
    BY <1>5 DEF Acknowledge
  <2> QED BY <1>1, <2>1, <2>2, DisturbKeeps DEF LookupInv
<1>6. ASSUME NEW k \in StoreKey, RebuildRead(k) PROVE LookupInv'
  BY <1>1, <1>6 DEF RebuildRead, LookupInv, LookupTyped, Awaited, NoFalseMiss
<1>7. ASSUME NEW p \in StorePod, GoOffline(p) PROVE LookupInv'
  BY <1>1, <1>7 DEF GoOffline, LookupInv, LookupTyped, Awaited, NoFalseMiss
<1>8. ASSUME NEW p \in StorePod, RestartPod(p) PROVE LookupInv'
  <2>1. CASE lookup.pod = p
    BY <1>1, <1>8, <2>1 DEF RestartPod, NoLookup, LookupInv, LookupTyped, Awaited, NoFalseMiss
  <2>2. CASE lookup.pod # p
    BY <1>1, <1>8, <2>2 DEF RestartPod, LookupInv, LookupTyped, Awaited, NoFalseMiss
  <2> QED BY <2>1, <2>2
<1>9. ASSUME NEW p \in StorePod, NEW k \in StoreKey, ReadOwn(p, k) PROVE LookupInv'
  <2> DEFINE own == Fold[ownWrites[p][k]]
  <2>1. /\ lookup' = [at |-> IF own # NoRow \/ offline[p] THEN "answered" ELSE "replica",
                      pod |-> p, key |-> k, row |-> own,
                      kept |-> projections[k] # NoRow, still |-> TRUE]
        /\ UNCHANGED <<projections, offline>>
    BY <1>9 DEF ReadOwn, dataVars
  <2> HIDE DEF own
  <2> QED BY <1>1, <2>1 DEF LookupInv, LookupTyped, Awaited, NoFalseMiss
<1>10. CASE ReadReplica
  <2>1. lookup.at = "replica" /\ UNCHANGED <<projections, offline>>
    BY <1>10 DEF ReadReplica, dataVars
  <2>2. CASE replicated[lookup.key] # NoRow /\ lookup' = Answer(replicated[lookup.key])
    BY <1>1, <2>1, <2>2 DEF Answer, LookupInv, LookupTyped, Awaited, NoFalseMiss
  <2>3. CASE lookup' = [lookup EXCEPT !.at = "primary"]
    BY <1>1, <2>1, <2>3 DEF LookupInv, LookupTyped, Awaited, NoFalseMiss
  <2> QED BY <1>10, <2>2, <2>3 DEF ReadReplica
<1>11. CASE ReadPrimary
  BY <1>1, <1>11 DEF ReadPrimary, dataVars, Answer, LookupInv, LookupTyped, Awaited, NoFalseMiss
<1>12. CASE ReadFails
  BY <1>1, <1>12 DEF ReadFails, dataVars, Answer, LookupInv, LookupTyped, Awaited, NoFalseMiss
<1> QED BY <1>2, <1>3, <1>4, <1>5, <1>6, <1>7, <1>8, <1>9, <1>10, <1>11, <1>12 DEF StoreNext

\* getConsistent finds every settlement that has its row, on every pod that
\* reaches Postgres, whatever is written, replicated and repaired between its awaits.
THEOREM NoFalseMissTheorem == StoreSpec => []NoFalseMiss
<1>1. StoreInit => LookupInv
  <2>1. StoreInit => StoreInv
    BY DEF StoreInit, StoreInv, StoreTyped, ProjectionIsFold, RepairCurrent, NoReplay
  <2> QED BY <2>1 DEF StoreInit, NoLookup, LookupInv, LookupTyped, Awaited, NoFalseMiss
<1>2. LookupInv => NoFalseMiss
  BY DEF LookupInv
<1> QED BY <1>1, <1>2, LookupStep, PTL DEF StoreSpec

-----------------------------------------------------------------------------
(* The retention job *)

StoredRow == [table : Table \cup {"none"}, old : BOOLEAN, closed : BOOLEAN, version : Nat]

RetTyped == stored \in [Row -> StoredRow]

LEMMA RowForms ==
    ASSUME NEW T, NEW B, NEW x \in [table : T, old : B, closed : B, version : Nat],
           NEW b \in B, NEW n \in Nat
    PROVE  /\ [x EXCEPT !.old = b, !.version = n]
                \in [table : T, old : B, closed : B, version : Nat]
           /\ [x EXCEPT !.old = b, !.version = n].table = x.table
           /\ [x EXCEPT !.closed = b, !.version = n]
                \in [table : T, old : B, closed : B, version : Nat]
           /\ [x EXCEPT !.closed = b, !.version = n].table = x.table
OBVIOUS

\* A touched row keeps its table, so it is not taken for a deleted one.
LEMMA TouchKeeps ==
    ASSUME RetTyped, NEW r \in Row, Touch(r)
    PROVE  RetTyped' /\ \A q \in Row : stored[q] # NoStored => stored'[q] # NoStored
<1> DEFINE old == [stored[r] EXCEPT !.old = FALSE, !.version = stored[r].version + 1]
           shut(b) == [stored[r] EXCEPT !.closed = b, !.version = stored[r].version + 1]
<1>1. stored[r] \in StoredRow /\ stored[r].version + 1 \in Nat /\ stored[r].closed \in BOOLEAN
  BY DEF RetTyped, StoredRow
<1>2. \/ stored' = [stored EXCEPT ![r] = old]
      \/ \E b \in BOOLEAN : stored' = [stored EXCEPT ![r] = shut(b)]
  <2>1. CASE stored' = [stored EXCEPT ![r].old = FALSE, ![r].version = @ + 1]
    BY <1>1, <2>1 DEF RetTyped, StoredRow
  <2>2. ASSUME NEW b \in BOOLEAN, stored' = [stored EXCEPT ![r].closed = b, ![r].version = @ + 1]
        PROVE  stored' = [stored EXCEPT ![r] = shut(b)]
    BY <1>1, <2>2 DEF RetTyped, StoredRow
  <2>3. TRUE \in BOOLEAN /\ (~stored[r].closed) \in BOOLEAN
    OBVIOUS
  <2> HIDE DEF shut
  <2> QED BY <2>1, <2>2, <2>3 DEF Touch
<1>3. /\ old \in StoredRow /\ old.table = stored[r].table
      /\ \A b \in BOOLEAN : shut(b) \in StoredRow /\ shut(b).table = stored[r].table
  BY <1>1, RowForms DEF StoredRow
<1> HIDE DEF old, shut
<1>4. PICK x \in StoredRow : stored' = [stored EXCEPT ![r] = x] /\ x.table = stored[r].table
  BY <1>2, <1>3
<1>5. stored[r].table # "none"
  BY DEF Touch
<1>6. RetTyped'
  BY <1>4 DEF RetTyped
<1> QED BY <1>4, <1>5, <1>6 DEF RetTyped, NoStored

LEMMA DeleteKeeps ==
    ASSUME RetTyped, NEW d, DeleteBatch(d)
    PROVE  /\ RetTyped'
           /\ \A q \in Row : stored[q] # NoStored /\ stored'[q] = NoStored => Due(stored[q])
<1>1. d \subseteq DueRows /\ stored' = [r \in Row |-> IF r \in d THEN NoStored ELSE stored[r]]
  BY DEF DeleteBatch, Deletable, Limited
<1>2. NoStored \in StoredRow
  BY DEF StoredRow, NoStored
<1>3. RetTyped'
  BY <1>1, <1>2 DEF RetTyped
<1> QED BY <1>1, <1>3 DEF DueRows

\* The retention job deletes nothing that is not due in the step that deletes it,
\* for any rows, batch size, failures and changes by the service.
THEOREM OnlyDueDeletedTheorem == RetSpec => OnlyDueDeleted
<1> DEFINE Only == \A r \in Row : stored[r] # NoStored /\ stored'[r] = NoStored => Due(stored[r])
<1>1. RetInit => RetTyped
  BY DEF RetInit, RetTyped, StoredRow
<1>2. RetTyped /\ [RetNext]_retVars => RetTyped' /\ Only
  <2> SUFFICES ASSUME RetTyped, [RetNext]_retVars PROVE RetTyped' /\ Only
    OBVIOUS
  <2>1. ASSUME UNCHANGED stored PROVE RetTyped' /\ Only
    BY <2>1 DEF RetTyped
  <2>2. CASE UNCHANGED retVars \/ SkipDelete \/ TaskFails \/ CloseArchive \/ KillJob
             \/ \E b \in SUBSET Row : SelectBatch(b)
    BY <2>1, <2>2 DEF retVars, SkipDelete, TaskFails, CloseArchive, KillJob, SelectBatch
  <2>3. CASE \E r \in Row : Touch(r)
    BY <2>3, TouchKeeps
  <2>4. CASE \E b \in SUBSET Row : DeleteBatch(b)
    BY <2>4, DeleteKeeps
  <2> QED BY <2>2, <2>3, <2>4 DEF RetNext
<1> QED BY <1>1, <1>2, PTL DEF RetSpec, OnlyDueDeleted

-----------------------------------------------------------------------------
(* The catalog: wherever an entry is kept, its vector is none or its own      *)
(* text's, and an id names one text; so a vector that comes late is set on an *)
(* entry of the text it was computed for.                                     *)

Entry == [id : Nat, text : Text \cup {"none"}, payTo : PayTo \cup {"none"},
          settled : BOOLEAN, vec : Text \cup {"none"}]
Statement == [op : {"write", "delete", "prune"}, key : Listing, entry : Entry]

CatTyped ==
    /\ resources \in [Listing -> Entry] /\ table \in [Listing -> Entry]
    /\ embedding \subseteq Listing \X Entry /\ statements \subseteq Statement
    /\ upserts \in Nat

\* Every entry that memory, the table, an embed or a statement holds.
Entries == {NoEntry} \cup {resources[k] : k \in Listing} \cup {table[k] : k \in Listing}
           \cup {x[2] : x \in embedding} \cup {s.entry : s \in statements}

Honest(e) == e.vec \in {NoVector, e.text}
EntriesHonest ==
    /\ \A e \in Entries : Honest(e) /\ e.id <= upserts
    /\ \A a, b \in Entries : a.id = b.id => a.text = b.text

CatInv == CatTyped /\ EntriesHonest

LEMMA NoEntryType == NoEntry \in Entry /\ Honest(NoEntry) /\ NoEntry.id = 0
BY DEF NoEntry, Entry, Honest, NoVector

\* A step that makes no entry of another id or text.
LEMMA SameEntries ==
    ASSUME CatInv, CatTyped', upserts' = upserts,
           \A e \in Entries' : Honest(e) /\ \E a \in Entries : a.id = e.id /\ a.text = e.text
    PROVE  CatInv'
BY DEF CatInv, CatTyped, EntriesHonest

LEMMA UpsertHonest ==
    ASSUME CatInv, NEW k \in Listing, NEW t \in Text, NEW p \in PayTo,
           NEW s \in {"verify", "settle"}, Upsert(k, t, p, s)
    PROVE  CatInv'
<1> DEFINE new == [id |-> upserts + 1, text |-> t, payTo |-> p,
                   settled |-> StaysSettled(resources[k], s), vec |-> VectorFor(resources[k], t)]
<1>1. /\ resources' = [resources EXCEPT ![k] = new]
      /\ embedding' \in {embedding, embedding \cup {<<k, new>>}}
      /\ statements' = statements \cup Persist(k, new)
      /\ table' = table /\ upserts' = upserts + 1
  BY DEF Upsert
<1>2. resources[k] \in Entry /\ upserts \in Nat
  BY DEF CatInv, CatTyped
<1>3. VectorFor(resources[k], t) \in {NoVector, t} /\ StaysSettled(resources[k], s) \in BOOLEAN
  BY <1>2 DEF VectorFor, StaysSettled, Entry
<1>4. new \in Entry /\ new.id = upserts + 1 /\ Honest(new)
  BY <1>2, <1>3 DEF Entry, Honest, NoVector
<1> HIDE DEF new
<1>5. Persist(k, new) \subseteq {[op |-> "write", key |-> k, entry |-> new]}
  BY DEF Persist
<1>6. [op |-> "write", key |-> k, entry |-> new] \in Statement
  BY <1>4 DEF Statement
<1>7. CatTyped'
  BY <1>1, <1>2, <1>4, <1>5, <1>6 DEF CatInv, CatTyped
<1>8. Entries' \subseteq Entries \cup {new}
  <2>1. \A j \in Listing : resources'[j] \in {resources[j], new}
    BY <1>1 DEF CatInv, CatTyped
  <2>2. \A x \in embedding' : x \in embedding \/ x[2] = new
    BY <1>1
  <2>3. \A x \in statements' : x \in statements \/ x.entry = new
    BY <1>1, <1>5
  <2> QED BY <1>1, <2>1, <2>2, <2>3 DEF Entries
<1>9. \A e \in Entries : e.id <= upserts /\ e.id \in Nat
  BY NoEntryType DEF CatInv, EntriesHonest, Entries, CatTyped, Entry, Statement
<1>10. EntriesHonest'
  BY <1>1, <1>2, <1>4, <1>8, <1>9 DEF CatInv, EntriesHonest
<1> QED BY <1>7, <1>10 DEF CatInv

LEMMA EmbeddedHonest ==
    ASSUME CatInv, NEW x \in embedding, Embedded(x[1], x[2])
    PROVE  CatInv'
<1> DEFINE k == x[1]
           e == x[2]
           done == [e EXCEPT !.vec = e.text]
           here == [resources[k] EXCEPT !.vec = e.text]
<1>1. k \in Listing /\ e \in Entry /\ e \in Entries /\ resources[k] \in Entry /\ resources[k] \in Entries
  BY DEF CatInv, CatTyped, Entries
<1>2. /\ embedding' \subseteq embedding /\ table' = table /\ upserts' = upserts
      /\ resources' = IF resources[k].id = e.id THEN [resources EXCEPT ![k] = here] ELSE resources
      /\ \A s \in statements' : \/ s \in statements
                                \/ \E r \in statements : s = [r EXCEPT !.entry = done]
                                \/ s \in Persist(k, done)
  BY DEF Embedded
<1>3. done \in Entry /\ Honest(done) /\ done.id = e.id /\ done.text = e.text
  BY <1>1 DEF Entry, Honest
<1>4. /\ here \in Entry /\ here.id = resources[k].id /\ here.text = resources[k].text
      /\ resources[k].id = e.id => Honest(here)
  BY <1>1 DEF Entry, Honest, CatInv, EntriesHonest
<1> HIDE DEF done, here
<1>5. \A s \in statements' : s \in Statement /\ (s.entry = done \/ s \in statements)
  <2>1. Persist(k, done) \subseteq {[op |-> "write", key |-> k, entry |-> done]}
    BY DEF Persist
  <2>2. [op |-> "write", key |-> k, entry |-> done] \in Statement
    BY <1>1, <1>3 DEF Statement
  <2>3. \A r \in Statement : [r EXCEPT !.entry = done] \in Statement
                             /\ [r EXCEPT !.entry = done].entry = done
    BY <1>3 DEF Statement
  <2> TAKE s \in statements'
  <2>4. statements \subseteq Statement
    BY DEF CatInv, CatTyped
  <2>5. CASE s \in Persist(k, done)
    BY <2>1, <2>2, <2>5
  <2>6. CASE \E r \in statements : s = [r EXCEPT !.entry = done]
    BY <2>3, <2>4, <2>6
  <2> QED BY <1>2, <2>4, <2>5, <2>6
<1>6. CatTyped'
  BY <1>1, <1>2, <1>4, <1>5 DEF CatInv, CatTyped
<1>7. \A j \in Listing : resources'[j] = resources[j]
                         \/ (resources[k].id = e.id /\ resources'[j] = here)
  BY <1>1, <1>2 DEF CatInv, CatTyped
<1>8. \A a \in Entries' : a \in Entries \/ a = done \/ (resources[k].id = e.id /\ a = here)
  BY <1>2, <1>5, <1>7 DEF Entries
<1>9. \A a \in Entries' : Honest(a) /\ \E b \in Entries : b.id = a.id /\ b.text = a.text
  <2> HIDE DEF k, e
  <2> QED BY <1>1, <1>3, <1>4, <1>8 DEF CatInv, EntriesHonest
<1> QED BY <1>2, <1>6, <1>9, SameEntries

\* The steps that only move entries about, or drop them.
LEMMA OthersHonest ==
    ASSUME CatInv, CatTyped', upserts' = upserts, Entries' \subseteq Entries
    PROVE  CatInv'
BY SameEntries DEF CatInv, EntriesHonest

LEMMA RemovalHonest ==
    ASSUME CatInv, (\E k \in Listing : Delete(k)) \/ Prune
    PROVE  CatInv'
<1>1. ASSUME NEW k \in Listing, Delete(k) PROVE CatInv'
  <2> DEFINE s == [op |-> "delete", key |-> k, entry |-> NoEntry]
  <2>1. s \in Statement /\ s.entry = NoEntry
    BY NoEntryType DEF Statement
  <2> HIDE DEF s
  <2>2. /\ UNCHANGED <<table, embedding, upserts>>
        /\ resources' \in {resources, [resources EXCEPT ![k] = NoEntry]}
        /\ statements' \in {statements, statements \cup {s}}
    BY <1>1 DEF Delete, s
  <2>3. CatTyped'
    BY <2>1, <2>2, NoEntryType DEF CatInv, CatTyped
  <2>4. \A j \in Listing : resources'[j] \in {resources[j], NoEntry}
    BY <2>2 DEF CatInv, CatTyped
  <2>5. \A r \in statements' : r \in statements \/ r.entry = NoEntry
    BY <2>1, <2>2
  <2>6. Entries' \subseteq Entries
    BY <2>2, <2>4, <2>5 DEF Entries
  <2> QED BY <2>2, <2>3, <2>6, OthersHonest
<1>2. CASE Prune
  <2>1. /\ UNCHANGED <<table, embedding, upserts>>
        /\ \A j \in Listing : resources'[j] \in {resources[j], NoEntry}
        /\ resources' \in [Listing -> Entry]
    BY <1>2, NoEntryType DEF Prune, CatInv, CatTyped
  <2>2. \A r \in statements' : r \in statements
           \/ \E k \in Listing : r = [op |-> "prune", key |-> k, entry |-> NoEntry]
    BY <1>2 DEF Prune
  <2>3. \A r \in statements' : r \in Statement /\ (r \in statements \/ r.entry = NoEntry)
    BY <2>2, NoEntryType DEF Statement, CatInv, CatTyped
  <2>4. CatTyped'
    BY <2>1, <2>3 DEF CatInv, CatTyped
  <2>5. Entries' \subseteq Entries
    BY <2>1, <2>3 DEF Entries
  <2> QED BY <2>1, <2>4, <2>5, OthersHonest
<1> QED BY <1>1, <1>2

LEMMA StorageHonest ==
    ASSUME CatInv, (\E s \in statements : Execute(s)) \/ Hydrate \/ Reboot
    PROVE  CatInv'
<1>1. ASSUME NEW s \in statements, Execute(s) PROVE CatInv'
  <2>1. s \in Statement /\ s.key \in Listing /\ s.entry \in Entry
    BY DEF CatInv, CatTyped, Statement
  <2>2. /\ UNCHANGED <<embedding, upserts>> /\ statements' \subseteq statements
        /\ resources' \in {resources, [resources EXCEPT ![s.key] = NoEntry]}
        /\ table' = [table EXCEPT ![s.key] = s.entry]
    BY <1>1 DEF Execute
  <2>3. CatTyped'
    BY <2>1, <2>2, NoEntryType DEF CatInv, CatTyped
  <2>4. \A j \in Listing : /\ resources'[j] \in {resources[j], NoEntry}
                           /\ table'[j] \in {table[j], s.entry}
    BY <2>1, <2>2 DEF CatInv, CatTyped
  <2>5. Entries' \subseteq Entries
    BY <2>2, <2>4 DEF Entries
  <2> QED BY <2>2, <2>3, <2>5, OthersHonest
<1>2. CASE Hydrate
  <2>1. /\ UNCHANGED <<table, statements, upserts>>
        /\ resources' \in [Listing -> Entry]
        /\ \A j \in Listing : resources'[j] \in {resources[j], table[j]}
        /\ \A x \in embedding' : x \in embedding \/ \E j \in Listing : x = <<j, table[j]>>
    BY <1>2 DEF Hydrate, CatInv, CatTyped
  <2>2. CatTyped'
    BY <2>1 DEF CatInv, CatTyped
  <2>3. Entries' \subseteq Entries
    BY <2>1 DEF Entries
  <2> QED BY <2>1, <2>2, <2>3, OthersHonest
<1>3. CASE Reboot
  <2>1. CatTyped' /\ upserts' = upserts
    BY <1>3, NoEntryType DEF Reboot, CatInv, CatTyped
  <2>2. Entries' \subseteq Entries
    BY <1>3 DEF Reboot, Entries
  <2> QED BY <2>1, <2>2, OthersHonest
<1> QED BY <1>1, <1>2, <1>3

\* For any listings, texts and limits, and any order of upserts, embeds, restarts
\* and statements: a search that does not call its results partial ranked every
\* listing by a vector of the text it has.
THEOREM DenseIsHonestTheorem == CatSpec => []DenseIsHonest
<1>1. CatInit => CatInv
  BY NoEntryType DEF CatInit, CatInv, CatTyped, EntriesHonest, Entries
<1>2. CatInv /\ [CatNext]_catVars => CatInv'
  <2> SUFFICES ASSUME CatInv, [CatNext]_catVars PROVE CatInv'
    OBVIOUS
  <2>1. CASE UNCHANGED catVars
    BY <2>1 DEF catVars, CatInv, CatTyped, EntriesHonest, Entries
  <2>2. CASE \/ HydrateFails \/ \E k \in Listing : WindowElapses(k)
             \/ \E x \in embedding : EmbedFails(x[1], x[2])
             \/ \E s \in statements : StatementFails(s)
    <3>1. /\ UNCHANGED <<resources, table, upserts>> /\ embedding' \subseteq embedding
          /\ statements' \subseteq statements
      BY <2>2 DEF HydrateFails, WindowElapses, EmbedFails, StatementFails
    <3>2. CatTyped' /\ Entries' \subseteq Entries
      BY <3>1 DEF CatInv, CatTyped, Entries
    <3> QED BY <3>1, <3>2, OthersHonest
  <2> QED BY <2>1, <2>2, UpsertHonest, EmbeddedHonest, RemovalHonest, StorageHonest DEF CatNext
<1>3. CatInv => DenseIsHonest
  BY DEF CatInv, EntriesHonest, Entries, Honest, DenseIsHonest, Partial, Public
<1> QED BY <1>1, <1>2, <1>3, PTL DEF CatSpec

-----------------------------------------------------------------------------
(* The search cache: a result that this life of a process computed and that is *)
(* kept, or carried, under a version reflects that many of its writes; and no  *)
(* result claims a life that is still to come.                                 *)

Node  == CacheNode \cup {"none"}
Res   == [by : Node \X Nat, n : Int]
Phase == {"idle", "l2", "query", "write", "join", "done"}
Read  == [at : Phase, node : Node, ver : Nat, live : BOOLEAN, res : Res,
          from : {"none", "l1", "l2", "store"}]

CacheTyped ==
    /\ life \in [CacheNode -> Nat \ {0}] /\ ver \in [CacheNode -> Nat]
    /\ \A n \in CacheNode : ver[n] <= MaxWrites[n]
    /\ l1 \in [CacheNode -> [Versions -> Res]] /\ l2 \in [Versions -> Res]
    /\ read \in [Reader -> Read]

\* L is the life of each process.
Sound(L, x, v) ==
    /\ \A n \in CacheNode : x.by = <<n, L[n]>> => x.n >= v
    /\ \A n \in CacheNode, j \in Nat : x.by = <<n, j>> => j <= L[n]

ReadOk(L, V, x) ==
    /\ Sound(L, x.res, x.ver)
    /\ x.at # "idle" => x.node \in CacheNode /\ x.ver <= V[x.node]

CacheSound ==
    /\ \A n \in CacheNode, v \in Versions : Sound(life, l1[n][v], v)
    /\ \A v \in Versions : Sound(life, l2[v], v)
    /\ \A r \in Reader : ReadOk(life, ver, read[r])

CacheInv == CacheTyped /\ CacheSound

LEMMA NothingSound ==
    ASSUME NEW L \in [CacheNode -> Nat \ {0}], NEW v
    PROVE  NoResult \in Res /\ Sound(L, NoResult, v)
BY DEF NoResult, Res, Node, Sound

LEMMA VersionsType ==
    ASSUME CacheTyped, NEW n \in CacheNode, NEW v \in Nat, v <= ver[n]
    PROVE  v \in Versions
<1>1. v \in 0..MaxWrites[n]
  BY CacheAssumption DEF CacheTyped
<1> QED BY <1>1 DEF Versions

LEMMA VersionsNat == Versions \subseteq Nat
BY CacheAssumption DEF Versions

LEMMA ResultSound ==
    ASSUME CacheTyped, NEW n \in CacheNode, NEW v \in Nat, v <= ver[n]
    PROVE  Result(n) \in Res /\ Sound(life, Result(n), v)
BY DEF CacheTyped, Result, Res, Node, Sound

LEMMA NoReadType == NoRead \in Read /\ NoRead.at = "idle" /\ NoRead.res = NoResult /\ NoRead.ver = 0
BY DEF NoRead, NoResult, Read, Phase, Node, Res

\* A step of a reader that leaves lives and writes alone.
LEMMA ReaderKeeps ==
    ASSUME CacheInv, UNCHANGED <<life, ver>>,
           l1' \in [CacheNode -> [Versions -> Res]], l2' \in [Versions -> Res],
           read' \in [Reader -> Read],
           \A n \in CacheNode, v \in Versions : Sound(life, l1'[n][v], v),
           \A v \in Versions : Sound(life, l2'[v], v),
           \A r \in Reader : ReadOk(life, ver, read'[r])
    PROVE  CacheInv'
BY DEF CacheInv, CacheTyped, CacheSound

\* One key of one process's map is set to a sound result.
LEMMA MapKeeps ==
    ASSUME CacheInv, NEW n \in CacheNode, NEW v \in Versions, NEW x \in Res, Sound(life, x, v)
    PROVE  /\ [l1 EXCEPT ![n][v] = x] \in [CacheNode -> [Versions -> Res]]
           /\ \A m \in CacheNode, u \in Versions : Sound(life, [l1 EXCEPT ![n][v] = x][m][u], u)
<1>1. l1 \in [CacheNode -> [Versions -> Res]]
  BY DEF CacheInv, CacheTyped
<1>2. \A m \in CacheNode, u \in Versions :
         [l1 EXCEPT ![n][v] = x][m][u] = IF m = n /\ u = v THEN x ELSE l1[m][u]
  BY <1>1
<1> QED BY <1>1, <1>2 DEF CacheInv, CacheSound

LEMMA SettledKeeps ==
    ASSUME CacheInv, NEW r \in Reader, read[r].at # "idle", NEW x \in Res,
           Sound(life, x, read[r].ver), NEW c \in {"none", "l1", "l2", "store"}
    PROVE  /\ Settled(r, x, c) \in [Reader -> Read]
           /\ \A q \in Reader : ReadOk(life, ver, Settled(r, x, c)[q])
<1> SUFFICES ASSUME NEW q \in Reader
             PROVE  Settled(r, x, c)[q] \in Read /\ ReadOk(life, ver, Settled(r, x, c)[q])
  BY DEF Settled
<1>1. read[q] \in Read /\ ReadOk(life, ver, read[q]) /\ ReadOk(life, ver, read[r])
  BY DEF CacheInv, CacheTyped, CacheSound
<1> DEFINE y == [read[q] EXCEPT !.at = "done", !.res = x, !.from = c]
<1>2. "done" \in Phase
  BY DEF Phase
<1>3. y \in Read /\ y.at = "done" /\ y.node = read[q].node /\ y.ver = read[q].ver /\ y.res = x
  BY <1>1, <1>2 DEF Read
<1> HIDE DEF y
<1>4. CASE q = r \/ (read[q].at = "join" /\ read[q].node = read[r].node /\ read[q].ver = read[r].ver)
  <2>1. Settled(r, x, c)[q] = y
    BY <1>4 DEF Settled, y
  <2> QED BY <1>1, <1>3, <1>4, <2>1 DEF ReadOk
<1>5. CASE ~(q = r \/ (read[q].at = "join" /\ read[q].node = read[r].node /\ read[q].ver = read[r].ver))
  <2>1. Settled(r, x, c)[q] = read[q]
    BY <1>5 DEF Settled
  <2> QED BY <1>1, <2>1
<1> QED BY <1>4, <1>5

LEMMA SearchKeeps ==
    ASSUME CacheInv, NEW r \in Reader, NEW n \in Searched, NEW gone \in BOOLEAN, Search(r, n, gone)
    PROVE  CacheInv'
<1> DEFINE v == ver[n]
           m == IF gone THEN [Noticed(n) EXCEPT ![v] = NoResult] ELSE Noticed(n)
           f == IF v # seen[n] THEN Newer(v, floor[n]) ELSE floor[n]
           base == [NoRead EXCEPT !.node = n, !.ver = v, !.live = v >= f]
           hit == [base EXCEPT !.at = "done", !.res = m[v], !.from = "l1"]
           asks == [base EXCEPT !.at = "query", !.res = Result(n), !.from = "store"]
<1>1. n \in CacheNode /\ v \in Nat /\ v \in Versions
  BY CacheAssumption, VersionsType DEF CacheInv, CacheTyped
<1>2. /\ UNCHANGED <<life, ver, l2>> /\ l1' = [l1 EXCEPT ![n] = m]
      /\ read' = [read EXCEPT ![r] = IF m[v] # NoResult THEN hit
                    ELSE IF InFlight(n, v) # {} THEN [base EXCEPT !.at = "join"]
                    ELSE IF v >= f THEN [base EXCEPT !.at = "l2"] ELSE asks]
  BY DEF Search, KeyFor
<1>3. m \in [Versions -> Res] /\ \A u \in Versions : Sound(life, m[u], u)
  <2>1. Noticed(n) \in [Versions -> Res] /\ \A u \in Versions : Sound(life, Noticed(n)[u], u)
    BY <1>1, NothingSound DEF Noticed, CacheInv, CacheTyped, CacheSound
  <2> QED BY <2>1, NothingSound DEF CacheInv, CacheTyped
<1>4. base \in Read /\ base.node = n /\ base.ver = v /\ base.res = NoResult
  <2>1. (v >= f) \in BOOLEAN
    OBVIOUS
  <2> QED BY <1>1, <2>1, NoReadType DEF Read, Node
<1> HIDE DEF m, base
<1>5. Result(n) \in Res /\ Sound(life, Result(n), v)
  BY <1>1, ResultSound DEF CacheInv
<1>6. Sound(life, NoResult, v) /\ m[v] \in Res /\ Sound(life, m[v], v)
  BY <1>1, <1>3, NothingSound DEF CacheInv, CacheTyped
<1>7. hit \in Read /\ hit.node = n /\ hit.ver = v /\ hit.res = m[v]
  BY <1>4, <1>6 DEF Phase, Read
<1>8. asks \in Read /\ asks.node = n /\ asks.ver = v /\ asks.res = Result(n)
  BY <1>4, <1>5 DEF Phase, Read
<1>9. \A a \in {"join", "l2"} :
         /\ [base EXCEPT !.at = a] \in Read /\ [base EXCEPT !.at = a].node = n
         /\ [base EXCEPT !.at = a].ver = v /\ [base EXCEPT !.at = a].res = NoResult
  BY <1>4 DEF Phase, Read
<1> HIDE DEF hit, asks
<1>10. PICK y \in Read : /\ read' = [read EXCEPT ![r] = y] /\ y.node = n /\ y.ver = v
                         /\ Sound(life, y.res, v)
  BY <1>2, <1>5, <1>6, <1>7, <1>8, <1>9
<1>11. ReadOk(life, ver, y)
  BY <1>1, <1>10 DEF ReadOk
<1>12. read' \in [Reader -> Read] /\ \A q \in Reader : ReadOk(life, ver, read'[q])
  BY <1>10, <1>11 DEF CacheInv, CacheTyped, CacheSound
<1>13. /\ l1' \in [CacheNode -> [Versions -> Res]]
       /\ \A k \in CacheNode, u \in Versions : Sound(life, l1'[k][u], u)
  BY <1>1, <1>2, <1>3 DEF CacheInv, CacheTyped, CacheSound
<1>14. l2' \in [Versions -> Res] /\ \A u \in Versions : Sound(life, l2'[u], u)
  BY <1>2 DEF CacheInv, CacheTyped, CacheSound
<1> QED BY <1>2, <1>12, <1>13, <1>14, ReaderKeeps

LEMMA LoadKeeps ==
    ASSUME CacheInv, NEW r \in Reader,
           ReadL2Hit(r) \/ ReadL2Miss(r) \/ StoreReturns(r) \/ WriteL2(r) \/ Respond(r)
    PROVE  CacheInv'
<1> DEFINE n == read[r].node
           v == read[r].ver
<1>1. read[r].at # "idle" /\ UNCHANGED <<life, ver>>
  BY DEF ReadL2Hit, ReadL2Miss, StoreReturns, WriteL2, Respond
<1>2. /\ read[r] \in Read /\ read[r].res \in Res /\ n \in CacheNode /\ v \in Nat /\ v <= ver[n]
      /\ Sound(life, read[r].res, v)
  BY <1>1 DEF CacheInv, CacheTyped, CacheSound, ReadOk, Read
<1>3. v \in Versions
  BY <1>2, VersionsType DEF CacheInv
<1>4. /\ l1 \in [CacheNode -> [Versions -> Res]] /\ l2 \in [Versions -> Res]
      /\ \A k \in CacheNode, u \in Versions : Sound(life, l1[k][u], u)
      /\ \A u \in Versions : Sound(life, l2[u], u)
      /\ read \in [Reader -> Read] /\ \A q \in Reader : ReadOk(life, ver, read[q])
  BY DEF CacheInv, CacheTyped, CacheSound
<1>5. ASSUME NEW y \in Read, y.node = n, y.ver = v, Sound(life, y.res, v),
             read' = [read EXCEPT ![r] = y]
      PROVE  read' \in [Reader -> Read] /\ \A q \in Reader : ReadOk(life, ver, read'[q])
  <2>1. ReadOk(life, ver, y)
    BY <1>2, <1>5 DEF ReadOk
  <2> QED BY <1>4, <1>5, <2>1
<1>6. CASE ReadL2Hit(r)
  <2>1. l1' = [l1 EXCEPT ![n][v] = l2[v]] /\ read' = Settled(r, l2[v], "l2") /\ l2' = l2
    BY <1>6 DEF ReadL2Hit, KeyFor
  <2>2. l2[v] \in Res /\ Sound(life, l2[v], v)
    BY <1>3, <1>4
  <2> HIDE DEF n, v
  <2>3. /\ l1' \in [CacheNode -> [Versions -> Res]]
        /\ \A k \in CacheNode, u \in Versions : Sound(life, l1'[k][u], u)
    BY <1>2, <1>3, <2>1, <2>2, MapKeeps
  <2>4. read' \in [Reader -> Read] /\ \A q \in Reader : ReadOk(life, ver, read'[q])
    BY <1>1, <2>1, <2>2, SettledKeeps DEF v
  <2> QED BY <1>1, <1>4, <2>1, <2>3, <2>4, ReaderKeeps
<1>7. CASE ReadL2Miss(r)
  <2> DEFINE y == [read[r] EXCEPT !.at = "query", !.res = Result(n), !.from = "store"]
  <2>1. Result(n) \in Res /\ Sound(life, Result(n), v)
    BY <1>2, ResultSound DEF CacheInv
  <2>2. y \in Read /\ y.node = n /\ y.ver = v /\ y.res = Result(n)
    BY <1>2, <2>1 DEF Phase, Read
  <2>3. read' = [read EXCEPT ![r] = y] /\ l1' = l1 /\ l2' = l2
    BY <1>2, <1>4, <1>7 DEF ReadL2Miss, Read
  <2> HIDE DEF y
  <2>4. read' \in [Reader -> Read] /\ \A q \in Reader : ReadOk(life, ver, read'[q])
    BY <1>5, <2>1, <2>2, <2>3
  <2> QED BY <1>1, <1>4, <2>3, <2>4, ReaderKeeps
<1>8. CASE StoreReturns(r) /\ read[r].live
  <2> DEFINE y == [read[r] EXCEPT !.at = "write"]
  <2>1. l1' = [l1 EXCEPT ![n][v] = read[r].res] /\ l2' = l2 /\ read' = [read EXCEPT ![r] = y]
    BY <1>8 DEF StoreReturns, KeyFor
  <2>2. y \in Read /\ y.node = n /\ y.ver = v /\ y.res = read[r].res
    BY <1>2 DEF Phase, Read
  <2> HIDE DEF y, n, v
  <2>3. /\ l1' \in [CacheNode -> [Versions -> Res]]
        /\ \A k \in CacheNode, u \in Versions : Sound(life, l1'[k][u], u)
    BY <1>2, <1>3, <2>1, MapKeeps
  <2>4. read' \in [Reader -> Read] /\ \A q \in Reader : ReadOk(life, ver, read'[q])
    BY <1>2, <1>5, <2>1, <2>2
  <2> QED BY <1>1, <1>4, <2>1, <2>3, <2>4, ReaderKeeps
<1>9. CASE (StoreReturns(r) /\ ~read[r].live) \/ WriteL2(r)
  <2>1. /\ l1' = l1 /\ read' = Settled(r, read[r].res, "store")
        /\ l2' \in {l2, [l2 EXCEPT ![v] = read[r].res]}
    BY <1>9 DEF StoreReturns, WriteL2, KeyFor
  <2>2. l2' \in [Versions -> Res] /\ \A u \in Versions : Sound(life, l2'[u], u)
    BY <1>2, <1>3, <1>4, <2>1
  <2>3. read' \in [Reader -> Read] /\ \A q \in Reader : ReadOk(life, ver, read'[q])
    BY <1>1, <1>2, <2>1, SettledKeeps
  <2> QED BY <1>1, <1>4, <2>1, <2>2, <2>3, ReaderKeeps
<1>10. CASE Respond(r)
  <2>1. read' = [read EXCEPT ![r] = NoRead] /\ l1' = l1 /\ l2' = l2
    BY <1>10 DEF Respond
  <2>2. ReadOk(life, ver, NoRead)
    BY NoReadType, NothingSound DEF ReadOk, CacheInv, CacheTyped
  <2>3. read' \in [Reader -> Read] /\ \A q \in Reader : ReadOk(life, ver, read'[q])
    BY <1>4, <2>1, <2>2, NoReadType
  <2> QED BY <1>1, <1>4, <2>1, <2>3, ReaderKeeps
<1> QED BY <1>6, <1>7, <1>8, <1>9, <1>10

LEMMA WriterKeeps ==
    ASSUME CacheInv, NEW n \in CacheNode,
           \/ CatalogWrite(n, TRUE) \/ CatalogWrite(n, FALSE) \/ Invalidate(n)
           \/ \E v \in Versions : OnMessage(n, v)
    PROVE  CacheInv'
<1> DEFINE empty == [v \in Versions |-> NoResult]
<1>1. empty \in [Versions -> Res] /\ \A v \in Versions : Sound(life, empty[v], v)
  BY NothingSound DEF CacheInv, CacheTyped
<1>2. CASE \E announced \in BOOLEAN : CatalogWrite(n, announced)
  <2>1. /\ ver[n] < MaxWrites[n] /\ ver' = [ver EXCEPT ![n] = ver[n] + 1]
        /\ UNCHANGED <<life, l1, l2, read>>
    BY <1>2 DEF CatalogWrite
  <2>2. /\ ver \in [CacheNode -> Nat]
        /\ \A m \in CacheNode : MaxWrites[m] \in Nat /\ ver[m] \in Nat /\ ver[m] <= MaxWrites[m]
    BY CacheAssumption DEF CacheInv, CacheTyped
  <2>5. /\ ver' \in [CacheNode -> Nat]
        /\ \A m \in CacheNode : ver'[m] = IF m = n THEN ver[n] + 1 ELSE ver[m]
    BY <2>1, <2>2
  <2>3. /\ ver' \in [CacheNode -> Nat]
        /\ \A m \in CacheNode : ver[m] \in Nat /\ ver'[m] \in Nat /\ ver[m] <= ver'[m]
                                /\ ver'[m] <= MaxWrites[m]
    <3> SUFFICES ASSUME NEW m \in CacheNode
                 PROVE  /\ ver[m] \in Nat /\ ver'[m] \in Nat /\ ver[m] <= ver'[m]
                        /\ ver'[m] <= MaxWrites[m]
      BY <2>5
    <3>1. CASE m = n
      <4>1. ver'[m] = ver[n] + 1 /\ ver[n] < MaxWrites[n]
        BY <2>1, <2>5, <3>1
      <4>2. ver[n] \in Nat /\ MaxWrites[n] \in Nat
        BY <2>2
      <4> QED BY <3>1, <4>1, <4>2
    <3>2. CASE m # n
      <4>1. ver'[m] = ver[m]
        BY <2>5, <3>2
      <4>2. ver[m] \in Nat /\ ver[m] <= MaxWrites[m]
        BY <2>2
      <4> QED BY <4>1, <4>2
    <3> QED BY <3>1, <3>2
  <2>4. \A r \in Reader : ReadOk(life, ver', read[r])
    BY <2>3 DEF CacheInv, CacheTyped, CacheSound, ReadOk, Read
  <2> QED BY <2>1, <2>3, <2>4 DEF CacheInv, CacheTyped, CacheSound
<1>3. CASE Invalidate(n) \/ \E v \in Versions : OnMessage(n, v)
  <2>1. l1' \in {l1, [l1 EXCEPT ![n] = empty]} /\ UNCHANGED <<life, ver, l2, read>>
    BY <1>3 DEF Invalidate, OnMessage
  <2> HIDE DEF empty
  <2>2. /\ l1' \in [CacheNode -> [Versions -> Res]]
        /\ \A m \in CacheNode, u \in Versions : Sound(life, l1'[m][u], u)
    BY <1>1, <2>1 DEF CacheInv, CacheTyped, CacheSound
  <2> QED BY <2>1, <2>2, ReaderKeeps DEF CacheInv, CacheTyped, CacheSound
<1> QED BY <1>2, <1>3

\* A new life has no results yet, so it makes none unsound.
LEMMA RestartSound ==
    ASSUME NEW L \in [CacheNode -> Nat \ {0}], NEW n \in CacheNode, NEW x, NEW v, Sound(L, x, v)
    PROVE  Sound([L EXCEPT ![n] = L[n] + 1], x, v)
<1> DEFINE M == [L EXCEPT ![n] = L[n] + 1]
<1>1. /\ \A m \in CacheNode : M[m] \in Nat /\ L[m] \in Nat /\ L[m] <= M[m]
      /\ M[n] = L[n] + 1 /\ \A m \in CacheNode : m # n => M[m] = L[m]
  OBVIOUS
<1> HIDE DEF M
<1>2. \A m \in CacheNode, j \in Nat : x.by = <<m, j>> => j <= M[m]
  BY <1>1 DEF Sound
<1>3. \A m \in CacheNode : x.by = <<m, M[m]>> => x.n >= v
  BY <1>1 DEF Sound
<1> QED BY <1>2, <1>3 DEF Sound, M

LEMMA RestartKeeps ==
    ASSUME CacheInv, NEW n \in CacheNode, CacheRestart(n)
    PROVE  CacheInv'
<1> DEFINE empty == [v \in Versions |-> NoResult]
<1>1. /\ life' = [life EXCEPT ![n] = life[n] + 1] /\ ver' = [ver EXCEPT ![n] = 0]
      /\ l1' = [l1 EXCEPT ![n] = empty] /\ l2' = l2
      /\ read' = [r \in Reader |-> IF read[r].node = n THEN NoRead ELSE read[r]]
  BY DEF CacheRestart
<1>2. life' \in [CacheNode -> Nat \ {0}] /\ life \in [CacheNode -> Nat \ {0}]
  BY <1>1 DEF CacheInv, CacheTyped
<1>3. empty \in [Versions -> Res] /\ \A v \in Versions : Sound(life', empty[v], v)
  BY <1>2, NothingSound
<1> HIDE DEF empty
<1>4. \A x, v : Sound(life, x, v) => Sound(life', x, v)
  BY <1>1, <1>2, RestartSound
<1>5. ver' \in [CacheNode -> Nat] /\ \A m \in CacheNode : ver'[m] <= MaxWrites[m]
  <2>1. /\ ver \in [CacheNode -> Nat]
        /\ \A m \in CacheNode : MaxWrites[m] \in Nat /\ ver[m] <= MaxWrites[m]
    BY CacheAssumption DEF CacheInv, CacheTyped
  <2>2. /\ ver' \in [CacheNode -> Nat]
        /\ \A m \in CacheNode : ver'[m] = IF m = n THEN 0 ELSE ver[m]
    BY <1>1, <2>1
  <2>3. \A m \in CacheNode : m = n => ver'[m] <= MaxWrites[m]
    <3>1. MaxWrites[n] \in Nat /\ ver'[n] = 0
      BY <2>1, <2>2
    <3>2. 0 <= MaxWrites[n]
      BY <3>1
    <3> QED BY <3>1, <3>2
  <2>4. \A m \in CacheNode : m # n => ver'[m] <= MaxWrites[m]
    BY <2>1, <2>2
  <2> QED BY <2>2, <2>3, <2>4
<1>6. CacheTyped'
  BY <1>1, <1>2, <1>3, <1>5, NoReadType DEF CacheInv, CacheTyped
<1>7. /\ \A m \in CacheNode, v \in Versions : Sound(life', l1'[m][v], v)
      /\ \A v \in Versions : Sound(life', l2'[v], v)
  BY <1>1, <1>3, <1>4 DEF CacheInv, CacheTyped, CacheSound
<1>8. ASSUME NEW r \in Reader PROVE ReadOk(life', ver', read'[r])
  <2>1. CASE read[r].node = n
    <3>1. read'[r] = NoRead /\ Sound(life', NoResult, 0)
      BY <1>1, <1>2, <2>1, NothingSound
    <3> QED BY <3>1, NoReadType DEF ReadOk
  <2>2. CASE read[r].node # n
    <3>1. read'[r] = read[r] /\ ReadOk(life, ver, read[r])
      BY <1>1, <2>2 DEF CacheInv, CacheSound
    <3>2. read[r].at # "idle" => ver'[read[r].node] = ver[read[r].node]
      BY <1>1, <2>2, <3>1 DEF ReadOk, CacheInv, CacheTyped
    <3> QED BY <1>4, <3>1, <3>2 DEF ReadOk
  <2> QED BY <2>1, <2>2
<1> QED BY <1>6, <1>7, <1>8 DEF CacheInv, CacheSound

\* What a process wrote before a search began is in every result of its own that
\* the search may get, for any number of processes, searches, writes and restarts.
THEOREM OwnWritesFoundTheorem == CacheSpec => []OwnWritesFound
<1>1. CacheInit => CacheInv
  <2> SUFFICES ASSUME CacheInit PROVE CacheInv
    OBVIOUS
  <2>1. life \in [CacheNode -> Nat \ {0}]
    BY DEF CacheInit
  <2>2. \A v : NoResult \in Res /\ Sound(life, NoResult, v)
    BY <2>1, NothingSound
  <2>3. ReadOk(life, ver, NoRead)
    BY <2>2, NoReadType DEF ReadOk
  <2> QED BY <2>1, <2>2, <2>3, NoReadType, CacheAssumption DEF CacheInit, CacheInv, CacheTyped, CacheSound
<1>2. CacheInv /\ [CacheNext]_cacheVars => CacheInv'
  <2> SUFFICES ASSUME CacheInv, [CacheNext]_cacheVars PROVE CacheInv'
    OBVIOUS
  <2>1. CASE UNCHANGED cacheVars
    BY <2>1 DEF cacheVars, CacheInv, CacheTyped, CacheSound
  <2> QED BY <2>1, SearchKeeps, LoadKeeps, WriterKeeps, RestartKeeps DEF CacheNext
<1>3. CacheInv => OwnWritesFound
  BY DEF CacheInv, CacheSound, ReadOk, Sound, OwnWritesFound
<1> QED BY <1>1, <1>2, <1>3, PTL DEF CacheSpec

-----------------------------------------------------------------------------
(* The pact scheme. What the handler has checked stays true of the payload,  *)
(* so a transaction that was sent has passed every verdict.                  *)

\* "ok" says that no check failed, and an answer is one of the checks' answers.
LEMMA FirstOfSays ==
    ASSUME NEW verdicts, NEW n \in Nat, DOMAIN verdicts = 1..n
    PROVE  /\ FirstOf(verdicts) = "ok" => \A i \in 1..n : verdicts[i] = "ok"
           /\ (\A i \in 1..n : verdicts[i] # "success") => FirstOf(verdicts) # "success"
<1> DEFINE bad == {i \in DOMAIN verdicts : verdicts[i] # "ok"}
           k == CHOOSE i \in bad : \A j \in bad : i <= j
<1>1. CASE bad = {}
  <2>1. FirstOf(verdicts) = "ok"
    BY <1>1 DEF FirstOf
  <2> QED BY <1>1, <2>1
<1>2. CASE bad # {}
  <2>1. bad \subseteq Nat
    OBVIOUS
  <2>2. \E i \in bad : \A j \in bad : i <= j
    <3> HIDE DEF bad
    <3> QED BY <1>2, <2>1, Least
  <2>3. k \in bad
    BY <2>2
  <2>4. FirstOf(verdicts) = verdicts[k]
    BY <1>2 DEF FirstOf
  <2> HIDE DEF k
  <2> QED BY <2>3, <2>4
<1> QED BY <1>1, <1>2

\* What the fields the checks tell apart may hold.
PactTyped(t) ==
    /\ t.cred \in {"address", "source", "none"}
    /\ t.terms \in {"met", "hash", "silence"} /\ t.signed \in {"all", "pending", "nobody"}

LEMMA PayloadsTyped == \A t \in Payloads : PactTyped(t)
<1> DEFINE Of(f) == Other[f] \cup {Good[f]}
           Holds(t) == /\ t \in [Fields -> {t[g] : g \in Fields}]
                       /\ \A f \in Fields : t[f] \in Of(f)
<1>1. Fields = {"ops", "source", "contract", "fn", "buyer", "seller", "cap", "terms", "token",
                "cred", "actor", "expiry", "root", "subs", "signed"}
  BY DEF Fields, Good
<1>2. Holds(Good)
  BY DEF Fields, Good
<1>3. /\ Of("cred") = {"address", "source", "none"} /\ Of("terms") = {"met", "hash", "silence"}
      /\ Of("signed") = {"all", "pending", "nobody"}
  BY DEF Good, Other
<1> HIDE DEF Of
<1>4. \A p, f, v : Holds(p) /\ f \in Fields /\ v \in Of(f) => Holds([p EXCEPT ![f] = v])
  OBVIOUS
<1> HIDE DEF Holds
<1>5. \A p : Holds(p) => \A t \in Varied(p) : Holds(t)
  BY <1>4 DEF Varied, Of
<1>6. \A t \in Payloads : Holds(t)
  BY <1>2, <1>5 DEF Payloads
<1> QED BY <1>1, <1>3, <1>6 DEF PactTyped, Holds

LEMMA ParseSays ==
    ASSUME NEW t
    PROVE  /\ ParseInvocation(t) # "success"
           /\ ParseInvocation(t) = "ok" => t.source # "sponsor"
<1> DEFINE verdicts == <<When(t.ops \in {"none", "many"}, "wrong_operation"),
                         When(t.source = "sponsor", "unsafe_source"),
                         When(t.ops = "upload", "wrong_operation")>>
<1>1. ParseInvocation(t) = FirstOf(verdicts)
  BY DEF ParseInvocation
<1>2. DOMAIN verdicts = 1..3 /\ \A i \in 1..3 : verdicts[i] # "success"
  BY DEF When
<1>3. verdicts[2] = "ok" => t.source # "sponsor"
  BY DEF When
<1> HIDE DEF verdicts
<1>4. /\ FirstOf(verdicts) # "success"
      /\ FirstOf(verdicts) = "ok" => \A i \in 1..3 : verdicts[i] = "ok"
  BY <1>2, FirstOfSays
<1> QED BY <1>1, <1>3, <1>4

LEMMA AuthEntriesSay ==
    ASSUME NEW t
    PROVE  /\ CheckAuthEntries(t) # "success"
           /\ CheckAuthEntries(t) = "ok" =>
                t.cred # "source" /\ ~(t.cred = "address" /\ t.actor = "sponsor")
<1> DEFINE verdicts == <<When(t.cred = "source", "unsupported_credential"),
                         When(t.cred = "address" /\ t.actor = "sponsor", "facilitator_in_auth"),
                         When(t.cred = "address" /\ t.expiry = "far", "expiration_too_far")>>
<1>1. CheckAuthEntries(t) = FirstOf(verdicts)
  BY DEF CheckAuthEntries
<1>2. DOMAIN verdicts = 1..3 /\ \A i \in 1..3 : verdicts[i] # "success"
  BY DEF When
<1>3. /\ verdicts[1] = "ok" => t.cred # "source"
      /\ verdicts[2] = "ok" => ~(t.cred = "address" /\ t.actor = "sponsor")
  BY DEF When
<1> HIDE DEF verdicts
<1>4. /\ FirstOf(verdicts) # "success"
      /\ FirstOf(verdicts) = "ok" => \A i \in 1..3 : verdicts[i] = "ok"
  BY <1>2, FirstOfSays
<1> QED BY <1>1, <1>3, <1>4

LEMMA AuthTreeSays ==
    ASSUME NEW t
    PROVE  CheckAuthTree(t) # "success"
<1> DEFINE verdicts == <<When(t.root # "open", "unexpected_auth"),
                         When(t.subs \in {"else", "nested"}, "unexpected_subinvocations")>>
<1>1. CheckAuthTree(t) = FirstOf(verdicts)
  BY DEF CheckAuthTree
<1>2. DOMAIN verdicts = 1..2 /\ \A i \in 1..2 : verdicts[i] # "success"
  BY DEF When
<1> HIDE DEF verdicts
<1> QED BY <1>1, <1>2, FirstOfSays

LEMMA SignaturesSay ==
    ASSUME NEW t
    PROVE  /\ SignatureVerdict(t) # "success"
           /\ SignatureVerdict(t) = "ok" =>
                /\ t.signed # "pending"
                /\ route = "settle" => t.signed # "nobody" /\ t.actor = t.buyer
<1> DEFINE verdicts == <<When(route = "settle" /\ (t.signed = "nobody" \/ t.actor # t.buyer),
                              "missing_payer_signature"),
                         When(t.signed = "pending", "unexpected_pending_signatures")>>
<1>1. SignatureVerdict(t) = FirstOf(verdicts)
  BY DEF SignatureVerdict
<1>2. DOMAIN verdicts = 1..2 /\ \A i \in 1..2 : verdicts[i] # "success"
  BY DEF When
<1>3. /\ verdicts[1] = "ok" => ~(route = "settle" /\ (t.signed = "nobody" \/ t.actor # t.buyer))
      /\ verdicts[2] = "ok" => t.signed # "pending"
  BY DEF When
<1> HIDE DEF verdicts
<1>4. /\ FirstOf(verdicts) # "success"
      /\ FirstOf(verdicts) = "ok" => \A i \in 1..2 : verdicts[i] = "ok"
  BY <1>2, FirstOfSays
<1> QED BY <1>1, <1>3, <1>4

\* What a payload is like that has passed the checks before the first await, those
\* after the simulation and those of its authorisation.
StaticOk(t) ==
    /\ t.source # "sponsor"
    /\ route = "settle" => /\ t.contract = "pact" /\ t.fn = "open" /\ t.seller = "payTo"
                           /\ t.cap = "amount" /\ t.terms \notin {"hash", "silence"}
SimulatedOk(t) == ~(fee > MaxPactFee) /\ (route = "settle" => t.token = "asset")
AuthOk(t) ==
    /\ t.cred # "source" /\ ~(t.cred = "address" /\ t.actor = "sponsor")
    /\ t.signed # "pending"
    /\ route = "settle" => t.signed # "nobody" /\ t.actor = t.buyer

LEMMA StaticSays ==
    ASSUME NEW t
    PROVE  /\ StaticVerdict(t) # "success"
           /\ StaticVerdict(t) = "ok" => StaticOk(t)
<1>1. CASE route = "settle"
  <2> DEFINE verdicts == <<ParseInvocation(t),
                           When(t.contract # "pact", "wrong_contract"),
                           When(t.fn # "open", "wrong_function_name"),
                           When("sponsor" \in {t.buyer, t.seller}, "facilitator_is_party"),
                           When(t.seller # "payTo", "wrong_recipient"),
                           When(t.cap # "amount", "wrong_amount"),
                           When(t.terms = "hash", "condition_hash_mismatch"),
                           When(t.terms = "silence", "wrong_silence")>>
  <2>1. StaticVerdict(t) = FirstOf(verdicts)
    BY <1>1 DEF StaticVerdict, OpenVerdict
  <2>2. DOMAIN verdicts = 1..8 /\ \A i \in 1..8 : verdicts[i] # "success"
    BY ParseSays DEF When
  <2>3. /\ verdicts[1] = ParseInvocation(t)
        /\ verdicts[2] = "ok" => t.contract = "pact"
        /\ verdicts[3] = "ok" => t.fn = "open"
        /\ verdicts[5] = "ok" => t.seller = "payTo"
        /\ verdicts[6] = "ok" => t.cap = "amount"
        /\ verdicts[7] = "ok" => t.terms # "hash"
        /\ verdicts[8] = "ok" => t.terms # "silence"
    BY DEF When
  <2> HIDE DEF verdicts
  <2>4. /\ FirstOf(verdicts) # "success"
        /\ FirstOf(verdicts) = "ok" => \A i \in 1..8 : verdicts[i] = "ok"
    BY <2>2, FirstOfSays
  <2> QED BY <2>1, <2>3, <2>4, ParseSays DEF StaticOk
<1>2. CASE route # "settle"
  <2> DEFINE verdicts == <<ParseInvocation(t),
                           When(t.contract # "pact", "wrong_contract"),
                           When(t.fn # "settle", "function_not_allowed")>>
  <2>1. StaticVerdict(t) = FirstOf(verdicts)
    BY <1>2 DEF StaticVerdict, CallVerdict
  <2>2. DOMAIN verdicts = 1..3 /\ \A i \in 1..3 : verdicts[i] # "success"
    BY ParseSays DEF When
  <2>3. verdicts[1] = ParseInvocation(t)
    OBVIOUS
  <2> HIDE DEF verdicts
  <2>4. /\ FirstOf(verdicts) # "success"
        /\ FirstOf(verdicts) = "ok" => \A i \in 1..3 : verdicts[i] = "ok"
    BY <2>2, FirstOfSays
  <2> QED BY <1>2, <2>1, <2>3, <2>4, ParseSays DEF StaticOk
<1> QED BY <1>1, <1>2

LEMMA SimulatedSays ==
    ASSUME NEW t
    PROVE  /\ SimulatedVerdict(t) # "success"
           /\ SimulatedVerdict(t) = "ok" => SimulatedOk(t)
<1> DEFINE dear == fee > MaxPactFee
           verdicts == <<When(dear, "fee_exceeds_maximum"),
                         IF route = "settle" THEN CheckEvents(t) ELSE "ok">>
<1>1. SimulatedVerdict(t) = FirstOf(verdicts)
  BY DEF SimulatedVerdict
<1>2. SimulatedOk(t) <=> ~dear /\ (route = "settle" => t.token = "asset")
  BY DEF SimulatedOk
<1> HIDE DEF dear
<1>3. DOMAIN verdicts = 1..2 /\ \A i \in 1..2 : verdicts[i] # "success"
  BY DEF When, CheckEvents
<1>4. /\ verdicts[1] = "ok" => ~dear
      /\ verdicts[2] = "ok" => (route = "settle" => t.token = "asset")
  BY DEF When, CheckEvents
<1> HIDE DEF verdicts
<1>5. /\ FirstOf(verdicts) # "success"
      /\ FirstOf(verdicts) = "ok" => \A i \in 1..2 : verdicts[i] = "ok"
  BY <1>3, FirstOfSays
<1> QED BY <1>1, <1>2, <1>4, <1>5

LEMMA AuthSays ==
    ASSUME NEW t
    PROVE  /\ AuthVerdict(t) # "success"
           /\ AuthVerdict(t) = "ok" => AuthOk(t)
<1> DEFINE verdicts == <<When(route = "settle" /\ t.cred = "none", "no_auth_entries"),
                         CheckAuthEntries(t),
                         IF route = "settle" THEN CheckAuthTree(t) ELSE "ok",
                         SignatureVerdict(t)>>
<1>1. AuthVerdict(t) = FirstOf(verdicts)
  BY DEF AuthVerdict
<1>2. DOMAIN verdicts = 1..4 /\ \A i \in 1..4 : verdicts[i] # "success"
  BY AuthEntriesSay, AuthTreeSays, SignaturesSay DEF When
<1>3. verdicts[2] = CheckAuthEntries(t) /\ verdicts[4] = SignatureVerdict(t)
  OBVIOUS
<1> HIDE DEF verdicts
<1>4. /\ FirstOf(verdicts) # "success"
      /\ FirstOf(verdicts) = "ok" => \A i \in 1..4 : verdicts[i] = "ok"
  BY <1>2, FirstOfSays
<1> QED BY <1>1, <1>3, <1>4, AuthEntriesSay, SignaturesSay DEF AuthOk

PactInv ==
    /\ PactTyped(tx) /\ fee \in Nat
    /\ at \in {"simulate", "ledger", "trustline", "send", "poll"} \/ Sponsored => StaticOk(tx)
    /\ at \in {"ledger", "trustline", "send", "poll"} \/ Sponsored => SimulatedOk(tx)
    /\ at \in {"trustline", "send", "poll"} \/ Sponsored => AuthOk(tx)
    /\ answer = "success" => at = "done" /\ fate = "landed"

\* A transaction that is sent, by either route and whatever its payload, neither
\* acts for the sponsor nor costs more than the ceiling, an escrow that lands is
\* the one the seller asked for, and a reported success is on the ledger.
THEOREM PactKeptTheorem == PactSpec => []PactKept
<1>1. PactInit => PactInv
  BY PayloadsTyped, PactAssumption DEF PactInit, PactInv, Sponsored
<1>2. PactInv /\ [PactNext]_pactVars => PactInv'
  <2> SUFFICES ASSUME PactInv, [PactNext]_pactVars PROVE PactInv'
    OBVIOUS
  <2> USE DEF PactInv, PactTyped, StaticOk, SimulatedOk, AuthOk, Sponsored
  <2>1. CASE CheckPayload
    BY <2>1, StaticSays DEF CheckPayload, Goes
  <2>2. CASE Simulate
    BY <2>2, SimulatedSays DEF Simulate, Goes
  <2>3. CASE CheckAuth
    BY <2>3, AuthSays DEF CheckAuth, Goes
  <2>4. CASE CheckTrustline
    BY <2>4 DEF CheckTrustline, Goes
  <2>5. CASE Send \/ SendRefused
    BY <2>5 DEF Send, SendRefused, Goes
  <2>6. ASSUME NEW reached \in BOOLEAN, CallThrows(reached) PROVE PactInv'
    BY <2>6 DEF CallThrows, Goes
  <2>7. CASE Land \/ LandFails
    BY <2>7 DEF Land, LandFails
  <2>8. CASE PollSuccess \/ PollFailed
    BY <2>8 DEF PollSuccess, PollFailed, Goes
  <2>9. CASE ElseOpens \/ ElseUntrusts \/ UNCHANGED pactVars
    BY <2>9 DEF ElseOpens, ElseUntrusts, pactVars
  <2> QED BY <2>1, <2>2, <2>3, <2>4, <2>5, <2>6, <2>7, <2>8, <2>9 DEF PactNext
<1>3. PactInv => PactKept
  <2> SUFFICES ASSUME PactInv PROVE PactKept
    OBVIOUS
  <2>1. ~(fee > MaxPactFee) => fee <= MaxPactFee
    BY PactAssumption DEF PactInv
  <2> QED BY <2>1 DEF PactInv, PactTyped, StaticOk, SimulatedOk, AuthOk, Sponsored, PactKept, ActsFor
<1> QED BY <1>1, <1>2, <1>3, PTL DEF PactSpec

-----------------------------------------------------------------------------
(* The gate. The address a request is attributed to is found by the shape of *)
(* the forwarding chain; what may have been spent before a refusal by the    *)
(* order of each route's pipeline.                                           *)

\* What a concatenation holds, as one fact.
LEMMA Joined ==
    ASSUME NEW S, NEW a \in Seq(S), NEW b \in Seq(S)
    PROVE  /\ a \o b \in Seq(S) /\ Len(a \o b) = Len(a) + Len(b)
           /\ Len(a) \in Nat /\ Len(b) \in Nat
           /\ \A i \in 1..Len(a) : (a \o b)[i] = a[i]
           /\ \A i \in 1..Len(b) : (a \o b)[Len(a) + i] = b[i]
OBVIOUS

\* X-Forwarded-For and the socket's own peer: what clientIp searches.
Chain(c, forged) == Forwarded(c, forged) \o <<Peer(c)>>

\* In the chain, the caller stands behind what it forged itself, and only the
\* proxies stand behind the caller.
IsBehind(S, ch, a, c, p) ==
    /\ ch \in Seq(S)
    /\ Len(ch) = Len(a) + 1 + Len(p)
    /\ ch[Len(a) + 1] = c
    /\ \A j \in 1..Len(ch) : j > Len(a) + 1 => ch[j] \in Range(p)

LEMMA Behind ==
    ASSUME NEW S, NEW a \in Seq(S), NEW c \in S, NEW p \in Seq(S)
    PROVE  IsBehind(S, a \o (<<c>> \o p), a, c, p)
<1> DEFINE one == <<c>>
<1>1. one \in Seq(S) /\ Len(one) = 1 /\ one[1] = c
  OBVIOUS
<1> HIDE DEF one
<1> DEFINE b == one \o p
<1>2. /\ b \in Seq(S) /\ Len(b) = Len(one) + Len(p) /\ Len(p) \in Nat
      /\ \A i \in 1..Len(one) : b[i] = one[i]
      /\ \A i \in 1..Len(p) : b[Len(one) + i] = p[i]
  <2>1. one \in Seq(S) /\ p \in Seq(S)
    BY <1>1
  <2> QED BY <2>1
<1> HIDE DEF b
<1>3. Len(b) = 1 + Len(p) /\ b[1] = c /\ \A i \in 1..Len(p) : b[1 + i] = p[i]
  BY <1>1, <1>2
<1>4. /\ a \o b \in Seq(S) /\ Len(a \o b) = Len(a) + Len(b) /\ Len(a) \in Nat
      /\ \A i \in 1..Len(b) : (a \o b)[Len(a) + i] = b[i]
  <2>1. a \in Seq(S) /\ b \in Seq(S)
    BY <1>2
  <2> QED BY <2>1
<1> DEFINE ab == a \o b
<1> HIDE DEF ab
<1>5. /\ ab \in Seq(S) /\ Len(ab) = Len(a) + Len(b)
      /\ \A i \in 1..Len(b) : ab[Len(a) + i] = b[i]
  BY <1>4 DEF ab
<1>6. ab[Len(a) + 1] = c
  <2>1. 1 \in 1..Len(b)
    BY <1>2, <1>3
  <2> QED BY <2>1, <1>3, <1>5
<1>7. ASSUME NEW i \in 1..Len(p)  PROVE ab[Len(a) + 1 + i] = p[i]
  <2>1. 1 + i \in 1..Len(b) /\ Len(a) + (1 + i) = Len(a) + 1 + i
    BY <1>2, <1>3, <1>4
  <2>2. ab[Len(a) + (1 + i)] = b[1 + i]
    BY <2>1, <1>5
  <2> QED BY <2>1, <2>2, <1>3
<1>8. Len(ab) = Len(a) + 1 + Len(p)
  BY <1>2, <1>3, <1>4, <1>5
<1>9. ASSUME NEW j \in 1..Len(ab), j > Len(a) + 1  PROVE ab[j] \in Range(p)
  <2>1. PICK i \in 1..Len(p) : j = Len(a) + 1 + i
    <3>1. j - (Len(a) + 1) \in 1..Len(p)
      BY <1>2, <1>4, <1>8, <1>9
    <3>2. j = Len(a) + 1 + (j - (Len(a) + 1))
      BY <1>4
    <3> QED BY <3>1, <3>2
  <2> QED BY <2>1, <1>7 DEF Range
<1> QED BY <1>5, <1>6, <1>8, <1>9 DEF ab, b, one, IsBehind

\* The chain is what the caller forged, its address, and the proxies.
LEMMA ChainShape ==
    ASSUME site \in Sites, NEW c \in Client, NEW forged \in Forged
    PROVE  Chain(c, forged) = forged \o (<<c>> \o site.proxies)
<1> DEFINE P == site.proxies
<1>0. P \in Seq(STRING) /\ forged \in Seq(STRING) /\ c \in STRING
  BY GateAssumption
<1>1. CASE P = <<>>
  <2>1. <<c>> \in Seq(STRING)
    BY <1>0
  <2>2. <<c>> \o P = <<c>>
    BY <2>1, <1>1, ConcatEmptySeq
  <2> QED BY <1>1, <2>2 DEF Chain, Forwarded, Peer
<1>2. CASE P # <<>>
  <2> DEFINE n == Len(P)  G == SubSeq(P, 1, n - 1)
  <2>1. n \in Nat /\ n >= 1
    BY <1>0, <1>2
  <2>2. P = G \o <<P[n]>>
    <3>1. 1 \in 1..Len(P) /\ n \in 1..Len(P)
      BY <2>1
    <3>2. SubSeq(P, 1, n) = G \o <<P[n]>>
      BY <3>1, <1>0, SubSeqRecursiveSecond
    <3> QED BY <3>2, <1>0, SubSeqFull
  <2>3. /\ G \in Seq(STRING) /\ <<P[n]>> \in Seq(STRING) /\ <<c>> \in Seq(STRING)
        /\ Last(P) = P[n]
    BY <1>0, <2>1 DEF Last
  <2>4. Chain(c, forged) = ((forged \o <<c>>) \o G) \o <<P[n]>>
    BY <1>2, <2>3 DEF Chain, Forwarded, Peer
  <2> HIDE DEF G, n, P
  <2>5. forged \o <<c>> \in Seq(STRING)
    BY <2>3, <1>0, ConcatProperties
  <2>6. ((forged \o <<c>>) \o G) \o <<P[n]>> = (forged \o <<c>>) \o (G \o <<P[n]>>)
    BY <2>3, <2>5, ConcatAssociative
  <2>7. (forged \o <<c>>) \o P = forged \o (<<c>> \o P)
    BY <2>3, <1>0, ConcatAssociative
  <2> QED BY <2>2, <2>4, <2>6, <2>7 DEF P
<1> QED BY <1>1, <1>2

LEMMA ChainFacts ==
    ASSUME site \in Sites, NEW c \in Client, NEW forged \in Forged
    PROVE  IsBehind(STRING, Chain(c, forged), forged, c, site.proxies)
<1>1. site.proxies \in Seq(STRING) /\ forged \in Seq(STRING) /\ c \in STRING
  BY GateAssumption
<1>2. IsBehind(STRING, forged \o (<<c>> \o site.proxies), forged, c, site.proxies)
  BY <1>1, Behind
<1> QED BY <1>2, ChainShape

\* Counting hops and searching the list find the caller; trusting nobody finds
\* the last proxy.
LEMMA ClientIpIsKnown ==
    ASSUME site \in Sites, NEW c \in Client, NEW forged \in Forged
    PROVE  ClientIp(c, forged) = IF site.trust = "none" /\ Peer(c) \notin Cloudflare
                                 THEN Peer(c) ELSE c
<1> DEFINE chain == Chain(c, forged)  f == Len(forged) + 1
<1>1. /\ chain \in Seq(STRING) /\ f \in Nat /\ f >= 1 /\ Len(site.proxies) \in Nat
      /\ Len(chain) = f + Len(site.proxies) /\ chain[f] = c
      /\ \A j \in 1..Len(chain) : j > f => Trusts(chain[j])
  <2>1. /\ Chain(c, forged) \in Seq(STRING)
        /\ Len(Chain(c, forged)) = Len(forged) + 1 + Len(site.proxies)
        /\ Chain(c, forged)[Len(forged) + 1] = c
        /\ \A j \in 1..Len(Chain(c, forged)) :
                j > Len(forged) + 1 => Chain(c, forged)[j] \in Range(site.proxies)
    BY ChainFacts DEF IsBehind
  <2>2. Len(forged) \in Nat /\ Len(site.proxies) \in Nat
    BY GateAssumption
  <2>3. f \in Nat /\ f >= 1 /\ Len(chain) = f + Len(site.proxies)
    BY <2>1, <2>2
  <2>4. \A j \in 1..Len(chain) : j > f => Trusts(chain[j])
    BY <2>1 DEF Trusts
  <2> QED BY <2>1, <2>2, <2>3, <2>4
<1>2. ~Trusts(c)
  BY GateAssumption DEF Trusts
<1> HIDE DEF chain, f
<1>3. ByHops(chain, Len(site.proxies)) = c
  BY <1>1 DEF ByHops
<1>4. ByList(chain) = c
  <2>1. f \in DOMAIN chain /\ DOMAIN chain = 1..Len(chain)
    BY <1>1
  <2> DEFINE Q(k) == ~Trusts(chain[k]) /\ \A j \in DOMAIN chain : ~Trusts(chain[j]) => k >= j
  <2>2. Q(f)
    BY <1>1, <1>2, <2>1
  <2>3. \A k \in DOMAIN chain : Q(k) => k = f
    BY <1>1, <1>2, <2>1
  <2>4. (CHOOSE k \in DOMAIN chain : Q(k)) = f
    <3> HIDE DEF Q
    <3> QED BY <2>1, <2>2, <2>3
  <2> QED BY <2>4, <2>1, <1>1, <1>2 DEF ByList
<1>5. chain = Forwarded(c, forged) \o <<Peer(c)>>
  BY DEF chain, Chain
<1> QED BY <1>3, <1>4, <1>5 DEF ClientIp

-----------------------------------------------------------------------------
\* The steps of a pipeline that use something up, and those that may turn a
\* request away.
Costly == {"scheme", "fetch", "write", "record", "catalogue"}
Turns(rt) == {"auth", "strict", "check", "body", "validate"}
             \cup (IF rt = "read" THEN {} ELSE {"etag"})
\* From its i-th step on, a route turns nobody away.
Spent(rt, i) == \A j \in 1..Len(Pipeline(rt)) :
                    j >= i => Pipeline(rt)[j] \notin Turns(rt)

\* Every route refuses before it spends.
LEMMA PipelineOrder ==
    ASSUME NEW rt \in Routes
    PROVE  /\ Len(Pipeline(rt)) \in 2..6
           /\ \A i \in 1..Len(Pipeline(rt)) :
                Pipeline(rt)[i] \in Costly => Spent(rt, i + 1)
<1> DEFINE P == Pipeline(rt)
<1>1. CASE rt = "verify"
  <2>1. P = <<"auth", "check", "body", "record", "scheme", "catalogue">>
    BY <1>1 DEF Pipeline, Verify
  <2> QED BY <1>1, <2>1 DEF Costly, Turns, Spent
<1>2. CASE rt = "pact"
  <2>1. P = <<"auth", "body", "found", "check", "scheme", "record">>
    BY <1>2 DEF Pipeline, PactSubmit
  <2> QED BY <1>2, <2>1 DEF Costly, Turns, Spent
<1>3. CASE rt = "register"
  <2>1. P = <<"auth", "body", "check", "validate", "record", "write">>
    BY <1>3 DEF Pipeline, RegisterOne
  <2> QED BY <1>3, <2>1 DEF Costly, Turns, Spent
<1>4. CASE rt = "remove"
  <2>1. P = <<"auth", "check", "body", "record", "write", "found">>
    BY <1>4 DEF Pipeline, RemoveOne
  <2> QED BY <1>4, <2>1 DEF Costly, Turns, Spent
<1>5. CASE rt = "read"
  <2>1. P = <<"check", "body", "fetch", "record", "found", "etag">>
    BY <1>5 DEF Pipeline, ReadOne
  <2> QED BY <1>5, <2>1 DEF Costly, Turns, Spent
<1>6. CASE rt = "list"
  <2>1. P = <<"check", "etag", "fetch", "record">>
    BY <1>6 DEF Pipeline, ListResources
  <2> QED BY <1>6, <2>1 DEF Costly, Turns, Spent
<1>7. CASE rt = "search"
  <2>1. P = <<"check", "body", "etag", "fetch", "record">>
    BY <1>7 DEF Pipeline, SearchCatalog
  <2> QED BY <1>7, <2>1 DEF Costly, Turns, Spent
<1>8. CASE rt = "usage"
  <2>1. P = <<"strict", "own">>
    BY <1>8 DEF Pipeline, Usage
  <2> QED BY <1>8, <2>1 DEF Costly, Turns, Spent
<1>9. CASE rt = "lookup"
  <2>1. P = <<"auth", "lookup">>
    BY <1>9 DEF Pipeline, ReadSettlement
  <2> QED BY <1>9, <2>1 DEF Costly, Turns, Spent
<1> QED BY <1>1, <1>2, <1>3, <1>4, <1>5, <1>6, <1>7, <1>8, <1>9 DEF Routes

\* The request, typed over the records rs there are.
Marks == {"record", "scheme", "fetch", "write", "listed"}
Pseudonyms == {Pseudonym(a) : a \in STRING}
KeyIds == Tenants \cup {NoKey}
Req(rs) == [route : Routes, client : Client, ip : Pseudonyms,
            cred : Credentials, idem : Idem, keyId : KeyIds, askedAt : Nat,
            at : Nat, status : Nat, failed : BOOLEAN, done : SUBSET Marks,
            found : SUBSET rs]

KeyKnown(r) ==
    r.keyId # NoKey /\ r.cred.kind = "key" =>
      \E k \in Keyring : /\ k.secret = r.cred.secret /\ k.id = r.keyId
                         /\ ~k.revoked /\ r.askedAt < k.expiresAt

\* A request still under way has used something up only if no refusal is left.
OnItsWay(r) ==
    /\ r.at \in 1..Len(Pipeline(r.route)) /\ r.found = {}
    /\ r.done = {} \/ Spent(r.route, r.at)

Unspent(r) ==
    /\ r.status \in {401, 429, 400} /\ ~r.failed => r.done = {}
    /\ r.status = 304 /\ r.route # "read" => r.done = {}

OwnFound(r) == r.keyId # NoKey => \A x \in r.found : x.owner \in {NoKey, r.keyId}

ReqOk(r, rs) ==
    /\ r \in Req(rs) /\ KeyKnown(r) /\ Unspent(r) /\ OwnFound(r)
    /\ r.status = 0 => OnItsWay(r)

IpKnown ==
    req.ip = Pseudonym(IF site.trust = "none" /\ Peer(req.client) \notin Cloudflare
                       THEN Peer(req.client) ELSE req.client)

\* The inductive invariant. OnItsWay is what carries RefusedIsFree from step to
\* step; the credential's part holds from the moment it was judged, askedAt.
GateInv ==
    /\ site \in Sites /\ clock \in Nat
    /\ req = Quiet \/ (ReqOk(req, records) /\ IpKnown)

LEMMA NotQuiet == ASSUME NEW rs, NEW r \in Req(rs)  PROVE r # Quiet
BY DEF Req, Quiet, Routes

\* A step that is passed.
LEMMA PassedOk ==
    ASSUME NEW rs, NEW r \in Req(rs), KeyKnown(r), r.found = {}, r.status = 0,
           r.at \in 1..Len(Pipeline(r.route)),
           r.done = {} \/ Spent(r.route, r.at + 1)
    PROVE  /\ ReqOk(Passed(r), rs)
           /\ Passed(r).ip = r.ip /\ Passed(r).client = r.client
<1> DEFINE q == Passed(r)  n == Len(Pipeline(r.route))
<1>0. n \in Nat /\ r.route \in Routes /\ r.at \in Nat /\ r.at <= n /\ r.failed \in BOOLEAN
  BY PipelineOrder DEF Req
<1> DEFINE st == CASE r.at < n -> 0 [] r.at = n /\ r.failed -> 400 [] OTHER -> 200
<1>a. st \in {0, 200, 400} /\ (st = 400 => r.failed) /\ (st = 0 => r.at < n)
  BY <1>0
<1>b. q = [r EXCEPT !.at = r.at + 1, !.status = st]
  BY DEF Passed
<1> HIDE DEF st, q, n
<1>c. r.at + 1 \in Nat /\ st \in Nat
  BY <1>0, <1>a
<1>d. q \in Req(rs)
  BY <1>c, <1>b DEF Req
<1>1. /\ q \in Req(rs) /\ q.at = r.at + 1 /\ q.status = st
      /\ q.route = r.route /\ q.client = r.client /\ q.ip = r.ip /\ q.cred = r.cred
      /\ q.keyId = r.keyId /\ q.askedAt = r.askedAt /\ q.failed = r.failed
      /\ q.done = r.done /\ q.found = {}
  BY <1>b, <1>d DEF Req
<1>2. KeyKnown(q) /\ OwnFound(q)
  BY <1>1 DEF KeyKnown, OwnFound
<1>3. /\ q.status \in {0, 200, 400}
      /\ q.status = 400 => r.failed
      /\ q.status = 0 => r.at < n
  BY <1>a, <1>1
<1>4. Unspent(q)
  BY <1>1, <1>3 DEF Unspent
<1>5. ASSUME q.status = 0  PROVE OnItsWay(q)
  BY <1>0, <1>1, <1>3, <1>5 DEF OnItsWay, n
<1> QED BY <1>1, <1>2, <1>4, <1>5 DEF ReqOk, q

LEMMA PeerIsString == ASSUME site \in Sites, NEW c \in Client  PROVE Peer(c) \in STRING
<1>1. site.proxies \in Seq(STRING) /\ c \in STRING
  BY GateAssumption
<1> QED BY <1>1 DEF Peer, Last

LEMMA ArriveKeeps ==
    ASSUME GateInv, NEW rt \in Routes, NEW c \in Client, NEW forged \in Forged,
           NEW cred \in Credentials, NEW idem \in Idem,
           RequestArrives(rt, c, forged, cred, idem)
    PROVE  GateInv'
<1>1. /\ site \in Sites /\ clock \in Nat /\ UNCHANGED <<site, clock, records>>
  BY DEF GateInv, RequestArrives
<1>2. ClientIp(c, forged) = IF site.trust = "none" /\ Peer(c) \notin Cloudflare
                            THEN Peer(c) ELSE c
  BY <1>1, ClientIpIsKnown
<1> DEFINE a == ClientIp(c, forged)
<1>3. a \in STRING
  BY <1>1, <1>2, PeerIsString, GateAssumption
<1>4. Pseudonym(a) \in Pseudonyms
  BY <1>3 DEF Pseudonyms
<1>5. NoKey \in KeyIds
  BY DEF KeyIds
<1>6. req' = [route |-> rt, client |-> c, ip |-> Pseudonym(a),
              cred |-> cred, idem |-> idem, keyId |-> NoKey, askedAt |-> 0, at |-> 1,
              status |-> 0, failed |-> FALSE, done |-> {}, found |-> {}]
  BY DEF RequestArrives
<1> HIDE DEF a
<1>7. req' \in Req(records) /\ req'.route = rt /\ req'.client = c /\ req'.ip = Pseudonym(a)
      /\ req'.keyId = NoKey /\ req'.at = 1 /\ req'.status = 0 /\ req'.done = {} /\ req'.found = {}
  BY <1>4, <1>5, <1>6 DEF Req
<1>8. 1 \in 1..Len(Pipeline(rt))
  BY PipelineOrder
<1>9. ReqOk(req', records)
  BY <1>7, <1>8 DEF ReqOk, KeyKnown, Unspent, OwnFound, OnItsWay
<1>10. IpKnown'
  BY <1>1, <1>2, <1>7 DEF IpKnown, Peer, a
<1> QED BY <1>1, <1>9, <1>10 DEF GateInv

\* What every step of a request's own shares.
StepOk(q) == /\ UNCHANGED <<site, clock, records>> /\ req' = q /\ ReqOk(q, records)
             /\ q.ip = req.ip /\ q.client = req.client

LEMMA StepKeeps == ASSUME GateInv, req # Quiet, NEW q, StepOk(q)  PROVE GateInv'
<1>1. req'.ip = req.ip /\ req'.client = req.client /\ UNCHANGED <<site, clock, records>>
  BY DEF StepOk
<1>2. IpKnown'
  BY <1>1 DEF IpKnown, GateInv, Peer
<1>3. ReqOk(req', records')
  BY DEF StepOk
<1> QED BY <1>1, <1>2, <1>3 DEF GateInv

LEMMA AtWork ==
    ASSUME GateInv, Working
    PROVE  /\ req # Quiet /\ req \in Req(records) /\ KeyKnown(req) /\ req.found = {}
           /\ req.status = 0 /\ req.route \in Routes
           /\ req.at \in 1..Len(Pipeline(req.route)) /\ req.at \in Nat
           /\ req.done = {} \/ Spent(req.route, req.at)
           /\ req.done = {} \/ Spent(req.route, req.at + 1)
           /\ Stage \in Costly => Spent(req.route, req.at + 1)
           /\ req.done # {} => Stage \notin Turns(req.route)
<1>1. /\ req # Quiet /\ req \in Req(records) /\ KeyKnown(req) /\ req.found = {}
      /\ req.status = 0 /\ req.route \in Routes
      /\ req.at \in 1..Len(Pipeline(req.route))
      /\ req.done = {} \/ Spent(req.route, req.at)
  BY DEF GateInv, Working, ReqOk, OnItsWay, Req
<1>2. Len(Pipeline(req.route)) \in Nat /\ req.at \in Nat
  BY <1>1, PipelineOrder
<1>3. Spent(req.route, req.at) => Spent(req.route, req.at + 1)
  BY <1>2 DEF Spent
<1>4. Stage \in Costly => Spent(req.route, req.at + 1)
  BY <1>1, PipelineOrder DEF Stage
<1>5. req.done # {} => Stage \notin Turns(req.route)
  BY <1>1, <1>2 DEF Stage, Spent
<1> QED BY <1>1, <1>2, <1>3, <1>4, <1>5

Ended(r, st) == [r EXCEPT !.status = st]
Owed(r, st) == \/ r.done = {} \/ st \notin {401, 429, 400, 304}
               \/ (st = 304 /\ r.route = "read") \/ (st # 304 /\ r.failed)

LEMMA EndedOk ==
    ASSUME NEW rs, NEW r \in Req(rs), KeyKnown(r), r.found = {}, NEW st \in Nat \ {0},
           Owed(r, st)
    PROVE  ReqOk(Ended(r, st), rs) /\ Ended(r, st).ip = r.ip /\ Ended(r, st).client = r.client
<1> DEFINE q == Ended(r, st)
<1>2. q \in Req(rs)
  BY DEF Req, Ended
<1>3. /\ q.status = st /\ q.route = r.route /\ q.client = r.client /\ q.ip = r.ip
      /\ q.cred = r.cred /\ q.keyId = r.keyId /\ q.askedAt = r.askedAt
      /\ q.failed = r.failed /\ q.done = r.done /\ q.found = {}
  BY DEF Req, Ended
<1> HIDE DEF q
<1>4. KeyKnown(q) /\ OwnFound(q)
  BY <1>3 DEF KeyKnown, OwnFound
<1>5. Unspent(q)
  BY <1>3 DEF Unspent, Owed
<1>6. ReqOk(q, rs)
  BY <1>2, <1>3, <1>4, <1>5 DEF ReqOk
<1> QED BY <1>3, <1>6 DEF q

LEMMA AuthenticatedIsKnown ==
    ASSUME NEW cred \in Credentials, NEW strict, Authenticated(cred, strict) # <<"denied">>
    PROVE  /\ Authenticated(cred, strict) \in KeyIds
           /\ Authenticated(cred, strict) # NoKey /\ cred.kind = "key" =>
                \E k \in Keyring : /\ k.secret = cred.secret
                                   /\ k.id = Authenticated(cred, strict)
                                   /\ ~k.revoked /\ clock < k.expiresAt
<1> DEFINE id == Authenticated(cred, strict)
           K(k) == k.secret = cred.secret /\ Usable(k)
<1>1. CASE OpenMode
  BY <1>1 DEF Authenticated, KeyIds
<1>2. CASE ~OpenMode /\ cred.kind = "jwt"
  <2>1. id = cred.token.sub
    BY <1>2 DEF Authenticated
  <2>2. cred.token \in Tokens
    <3>1. PICK t \in Tokens : cred = [Nobody EXCEPT !.kind = "jwt", !.token = t]
      <4>1. Nobody.kind = "none"
        BY DEF Nobody
      <4>2. \A k \in Keyring : [Nobody EXCEPT !.kind = "key", !.secret = k.secret].kind = "key"
        BY DEF Nobody
      <4> QED BY <1>2, <4>1, <4>2 DEF Credentials
    <3> QED BY <3>1 DEF Nobody
  <2> QED BY <1>2, <2>1, <2>2 DEF KeyIds, Tenants
<1>3. CASE ~OpenMode /\ cred.kind = "key"
  <2>1. (\E k \in Keyring : K(k)) /\ id = (CHOOSE k \in Keyring : K(k)).id
    BY <1>3 DEF Authenticated
  <2>2. PICK k \in Keyring : K(k) /\ id = k.id
    BY <2>1
  <2> QED BY <2>2 DEF KeyIds, Tenants, Usable
<1>4. CASE ~OpenMode /\ cred.kind \notin {"jwt", "key"}
  BY <1>4 DEF Authenticated
<1> QED BY <1>1, <1>2, <1>3, <1>4

LEMMA AuthenticateKeeps == ASSUME GateInv, Authenticate  PROVE GateInv'
<1> DEFINE id == Authenticated(req.cred, Stage = "strict")
           r == [req EXCEPT !.keyId = id, !.askedAt = clock]
<1>0. Working /\ Stage \in {"auth", "strict"} /\ UNCHANGED <<site, clock, records>>
      /\ req' = IF id = <<"denied">> THEN [req EXCEPT !.status = 401] ELSE Passed(r)
  BY DEF Authenticate
<1>1. /\ req # Quiet /\ req \in Req(records) /\ KeyKnown(req) /\ req.found = {}
      /\ req.status = 0 /\ req.at \in 1..Len(Pipeline(req.route))
      /\ req.done # {} => Stage \notin Turns(req.route)
  BY <1>0, AtWork
<1>2. req.done = {}
  BY <1>0, <1>1 DEF Turns
<1>3. CASE id = <<"denied">>
  <2>1. ReqOk(Ended(req, 401), records)
        /\ Ended(req, 401).ip = req.ip /\ Ended(req, 401).client = req.client
    <3>1. 401 \in Nat \ {0} /\ Owed(req, 401)
      BY <1>2 DEF Owed
    <3> QED BY <3>1, <1>1, <1>2, EndedOk
  <2>2. StepOk(Ended(req, 401))
    BY <1>0, <1>3, <2>1 DEF StepOk, Ended
  <2> QED BY <1>1, <2>2, StepKeeps
<1>4. CASE id # <<"denied">>
  <2>1. req.cred \in Credentials /\ clock \in Nat
    BY <1>1 DEF Req, GateInv
  <2>2. /\ id \in KeyIds
        /\ id # NoKey /\ req.cred.kind = "key" =>
             \E k \in Keyring : /\ k.secret = req.cred.secret /\ k.id = id
                                /\ ~k.revoked /\ clock < k.expiresAt
    BY <1>4, <2>1, AuthenticatedIsKnown
  <2> HIDE DEF id
  <2>3. /\ r \in Req(records) /\ r.found = {} /\ r.status = 0 /\ r.done = {}
        /\ r.route = req.route /\ r.at = req.at /\ r.cred = req.cred
        /\ r.keyId = id /\ r.askedAt = clock /\ r.ip = req.ip /\ r.client = req.client
    BY <1>1, <1>2, <2>1, <2>2 DEF Req
  <2> HIDE DEF r
  <2>4. KeyKnown(r)
    BY <2>2, <2>3 DEF KeyKnown
  <2>5. ReqOk(Passed(r), records) /\ Passed(r).ip = r.ip /\ Passed(r).client = r.client
    BY <1>1, <2>3, <2>4, PassedOk
  <2>6. StepOk(Passed(r))
    BY <1>0, <1>4, <2>3, <2>5 DEF StepOk
  <2> QED BY <1>1, <2>6, StepKeeps
<1> QED BY <1>3, <1>4

LEMMA AskKeeps == ASSUME GateInv, NEW ok \in BOOLEAN, Ask(ok)  PROVE GateInv'
<1>0. /\ Working /\ Stage \in {"check", "body", "validate", "found", "etag"}
      /\ UNCHANGED <<site, clock, records>>
      /\ req' = IF ok THEN Passed(req) ELSE [req EXCEPT !.status = Refusal(Stage)]
  BY DEF Ask
<1>1. /\ req # Quiet /\ req \in Req(records) /\ KeyKnown(req) /\ req.found = {}
      /\ req.status = 0 /\ req.at \in 1..Len(Pipeline(req.route))
      /\ req.done = {} \/ Spent(req.route, req.at + 1)
      /\ req.done # {} => Stage \notin Turns(req.route)
  BY <1>0, AtWork
<1>2. CASE ok
  <2>1. ReqOk(Passed(req), records) /\ Passed(req).ip = req.ip /\ Passed(req).client = req.client
    BY <1>1, PassedOk
  <2>2. StepOk(Passed(req))
    BY <1>0, <1>2, <2>1 DEF StepOk
  <2> QED BY <1>1, <2>2, StepKeeps
<1>3. CASE ~ok
  <2> DEFINE st == Refusal(Stage)
  <2>1. st \in Nat \ {0} /\ Owed(req, st)
    <3>1. CASE Stage \in {"check", "body", "validate"}
      <4>1. req.done = {}
        BY <1>1, <3>1 DEF Turns
      <4>2. st \in {429, 400}
        BY <3>1 DEF Refusal
      <4> QED BY <4>1, <4>2 DEF Owed
    <3>2. CASE Stage = "found"
      <4>1. st = 404
        BY <3>2 DEF Refusal
      <4> QED BY <4>1 DEF Owed
    <3>3. CASE Stage = "etag"
      <4>1. st = 304
        BY <3>3 DEF Refusal
      <4>2. req.done = {} \/ req.route = "read"
        BY <1>1, <3>3 DEF Turns
      <4> QED BY <4>1, <4>2 DEF Owed
    <3> QED BY <1>0, <3>1, <3>2, <3>3
  <2> HIDE DEF st
  <2>2. ReqOk(Ended(req, st), records)
        /\ Ended(req, st).ip = req.ip /\ Ended(req, st).client = req.client
    BY <1>1, <2>1, EndedOk
  <2>3. StepOk(Ended(req, st))
    BY <1>0, <1>3, <2>2 DEF StepOk, Ended, st
  <2> QED BY <1>1, <2>3, StepKeeps
<1> QED BY <1>2, <1>3

LEMMA WorkKeeps == ASSUME GateInv, NEW ok \in BOOLEAN, RouteWork(ok)  PROVE GateInv'
<1> DEFINE r == [req EXCEPT !.done = req.done \cup {Stage}, !.failed = ~ok]
           st == IF req.route = "verify" THEN 200
                 ELSE IF req.route = "register" THEN 400 ELSE 500
<1>0. /\ Working /\ Stage \in {"scheme", "fetch", "write"}
      /\ UNCHANGED <<site, clock, records>>
      /\ req' = IF ok \/ req.route = "pact" THEN Passed(r) ELSE Ended(r, st)
  <2>1. /\ Working /\ Stage \in {"scheme", "fetch", "write"}
        /\ UNCHANGED <<site, clock, records>>
    BY DEF RouteWork
  <2>2. CASE ok \/ req.route = "pact"
    BY <2>2 DEF RouteWork
  <2>3. CASE ~ok /\ req.route # "pact" /\ req.route = "verify"
    BY <2>3 DEF RouteWork, Ended
  <2>4. CASE ~ok /\ req.route # "pact" /\ req.route # "verify"
    BY <2>4 DEF RouteWork, Ended
  <2> QED BY <2>1, <2>2, <2>3, <2>4
<1>1. /\ req # Quiet /\ req \in Req(records) /\ KeyKnown(req) /\ req.found = {}
      /\ req.status = 0 /\ req.at \in 1..Len(Pipeline(req.route))
      /\ Stage \in Costly => Spent(req.route, req.at + 1)
  BY <1>0, AtWork
<1>2. Spent(req.route, req.at + 1) /\ req.done \cup {Stage} \in SUBSET Marks
  <2>1. Stage \in Costly
    BY <1>0 DEF Costly
  <2>2. req.done \in SUBSET Marks
    BY <1>1 DEF Req
  <2>3. Stage \in Marks
    BY <1>0 DEF Marks
  <2> QED BY <1>1, <2>1, <2>2, <2>3
<1>3. /\ r \in Req(records) /\ r.found = {} /\ r.status = 0
      /\ r.route = req.route /\ r.at = req.at /\ r.cred = req.cred
      /\ r.keyId = req.keyId /\ r.askedAt = req.askedAt /\ r.ip = req.ip
      /\ r.client = req.client /\ r.failed = ~ok
  BY <1>1, <1>2 DEF Req
<1>4. st \in Nat \ {0} /\ (~ok => Owed(r, st))
  <2>1. ~ok => r.failed
    BY <1>3
  <2>2. st \in {200, 400, 500}
    OBVIOUS
  <2> QED BY <2>1, <2>2 DEF Owed
<1> HIDE DEF r, st
<1>5. KeyKnown(r)
  BY <1>1, <1>3 DEF KeyKnown
<1>6. ReqOk(Passed(r), records) /\ Passed(r).ip = r.ip /\ Passed(r).client = r.client
  BY <1>1, <1>2, <1>3, <1>5, PassedOk
<1>7. ~ok => ReqOk(Ended(r, st), records) /\ Ended(r, st).ip = r.ip
             /\ Ended(r, st).client = r.client
  BY <1>3, <1>4, <1>5, EndedOk
<1>8. CASE ok \/ req.route = "pact"
  <2>1. StepOk(Passed(r))
    BY <1>0, <1>3, <1>6, <1>8 DEF StepOk
  <2> QED BY <1>1, <2>1, StepKeeps
<1>9. CASE ~(ok \/ req.route = "pact")
  <2>1. StepOk(Ended(r, st))
    BY <1>0, <1>3, <1>7, <1>9 DEF StepOk
  <2> QED BY <1>1, <2>1, StepKeeps
<1> QED BY <1>8, <1>9

LEMMA MarkKeeps ==
    ASSUME GateInv, Working, NEW d \in SUBSET Marks, UNCHANGED <<site, clock, records>>,
           req' = Passed([req EXCEPT !.done = d]), d = req.done \/ Stage \in Costly
    PROVE  GateInv'
<1> DEFINE r == [req EXCEPT !.done = d]
<1>2. /\ req # Quiet /\ req \in Req(records) /\ KeyKnown(req) /\ req.found = {}
      /\ req.status = 0 /\ req.at \in 1..Len(Pipeline(req.route))
      /\ req.done = {} \/ Spent(req.route, req.at + 1)
      /\ Stage \in Costly => Spent(req.route, req.at + 1)
  BY AtWork
<1>3. /\ r \in Req(records) /\ r.found = {} /\ r.status = 0 /\ r.done = d
      /\ r.route = req.route /\ r.at = req.at /\ r.cred = req.cred
      /\ r.keyId = req.keyId /\ r.askedAt = req.askedAt /\ r.ip = req.ip
      /\ r.client = req.client
  BY <1>2 DEF Req
<1>0. req' = Passed(r)
  OBVIOUS
<1> HIDE DEF r
<1>4. KeyKnown(r) /\ (r.done = {} \/ Spent(r.route, r.at + 1))
  BY <1>2, <1>3 DEF KeyKnown
<1>5. ReqOk(Passed(r), records) /\ Passed(r).ip = r.ip /\ Passed(r).client = r.client
  BY <1>2, <1>3, <1>4, PassedOk
<1>6. StepOk(Passed(r))
  BY <1>0, <1>3, <1>5 DEF StepOk
<1> QED BY <1>2, <1>6, StepKeeps

LEMMA DoneTyped == ASSUME GateInv, Working  PROVE req.done \in SUBSET Marks
<1>1. req \in Req(records)
  BY AtWork
<1> QED BY <1>1 DEF Req

LEMMA CountKeeps == ASSUME GateInv, Count  PROVE GateInv'
<1> DEFINE d == req.done \cup {"record"}
<1>1. /\ Working /\ Stage = "record" /\ UNCHANGED <<site, clock, records>>
      /\ req' = Passed([req EXCEPT !.done = d])
  BY DEF Count
<1>2. d \in SUBSET Marks /\ Stage \in Costly
  BY <1>1, DoneTyped DEF Costly, Marks
<1> HIDE DEF d
<1> QED BY <1>1, <1>2, MarkKeeps

LEMMA CatalogueKeeps == ASSUME GateInv, NEW lands \in BOOLEAN, Catalogue(lands)  PROVE GateInv'
<1> DEFINE d == IF lands THEN req.done \cup {"listed"} ELSE req.done
<1>1. /\ Working /\ Stage = "catalogue" /\ UNCHANGED <<site, clock, records>>
      /\ req' = Passed([req EXCEPT !.done = d])
  BY DEF Catalogue
<1>2. d \in SUBSET Marks /\ Stage \in Costly
  BY <1>1, DoneTyped DEF Costly, Marks
<1> HIDE DEF d
<1> QED BY <1>1, <1>2, MarkKeeps

LEMMA UsageKeeps == ASSUME GateInv, ReadUsage  PROVE GateInv'
<1>1. Working /\ UNCHANGED <<site, clock, records>> /\ req' = Passed(req)
  BY DEF ReadUsage
<1>2. /\ req # Quiet /\ req \in Req(records) /\ KeyKnown(req) /\ req.found = {}
      /\ req.status = 0 /\ req.at \in 1..Len(Pipeline(req.route))
      /\ req.done = {} \/ Spent(req.route, req.at + 1)
  BY <1>1, AtWork
<1>3. ReqOk(Passed(req), records) /\ Passed(req).ip = req.ip /\ Passed(req).client = req.client
  BY <1>2, PassedOk
<1>4. StepOk(Passed(req))
  BY <1>1, <1>3 DEF StepOk
<1> QED BY <1>2, <1>4, StepKeeps

LEMMA LookupKeeps == ASSUME GateInv, Lookup  PROVE GateInv'
<1> DEFINE hits == {x \in records : x.key = TenantKey(req.keyId, req.idem) /\ Visible(x)}
           st == IF hits = {} THEN 404 ELSE 200
           q == [req EXCEPT !.found = hits, !.status = st]
<1>0. Working /\ UNCHANGED <<site, clock, records>> /\ req' = q
  BY DEF Lookup
<1>1. req # Quiet /\ req \in Req(records) /\ KeyKnown(req)
  BY <1>0, AtWork
<1>2. /\ hits \in SUBSET records /\ st \in {200, 404}
      /\ req.keyId # NoKey => \A x \in hits : x.owner \in {NoKey, req.keyId}
  BY DEF Visible
<1> HIDE DEF hits, st
<1>a. q \in Req(records)
  <2>1. hits \in SUBSET records /\ st \in Nat
    BY <1>2
  <2> QED BY <1>1, <2>1 DEF Req
<1>3. /\ q \in Req(records) /\ q.found = hits /\ q.status = st
      /\ q.cred = req.cred /\ q.keyId = req.keyId /\ q.askedAt = req.askedAt
      /\ q.ip = req.ip /\ q.client = req.client
  BY <1>a, <1>1 DEF Req
<1> HIDE DEF q
<1>4. ReqOk(q, records)
  BY <1>1, <1>2, <1>3 DEF ReqOk, KeyKnown, OwnFound, Unspent
<1>5. StepOk(q)
  BY <1>0, <1>3, <1>4 DEF StepOk
<1> QED BY <1>1, <1>5, StepKeeps

\* The gates of every route, for any callers, proxies, keys and forged headers:
\* clientIp finds the caller behind the proxies, authenticate lets in no key that
\* is revoked or has run out, a request that auth-http.js, the body or the limiter
\* refuses has used up nothing, and a keyed caller reads its own records only.
THEOREM GateKeptTheorem == GateSpec => []GateKept
<1>1. GateInit => GateInv
  BY DEF GateInit, GateInv
<1>2. GateInv /\ [GateNext]_gateVars => GateInv'
  <2> SUFFICES ASSUME GateInv, [GateNext]_gateVars PROVE GateInv'
    OBVIOUS
  <2>1. CASE Leave
    BY <2>1 DEF Leave, GateInv
  <2>2. CASE Pass \/ UNCHANGED gateVars
    <3>1. UNCHANGED <<site, req, records>> /\ clock' \in Nat
      BY <2>2 DEF Pass, gateVars, GateInv
    <3>2. ReqOk(req, records)' <=> ReqOk(req, records)
      BY <3>1
    <3> QED BY <3>1, <3>2 DEF GateInv, IpKnown, Peer
  <2>3. ASSUME NEW t \in Tenants, NEW i \in Idem, TenantSettles(t, i)  PROVE GateInv'
    BY <2>3 DEF TenantSettles, GateInv
  <2> QED BY <2>1, <2>2, <2>3, ArriveKeeps, AuthenticateKeeps, AskKeeps, WorkKeeps,
             CountKeeps, CatalogueKeeps, UsageKeeps, LookupKeeps DEF GateNext
<1>3. GateInv => GateKept
  <2> SUFFICES ASSUME GateInv, req # Quiet
               PROVE  CallerIsKnown /\ RefusedIsFree /\ OwnRecordsOnly
    BY DEF GateKept, CallerIsKnown, RefusedIsFree, OwnRecordsOnly
  <2>1. IpKnown /\ KeyKnown(req) /\ Unspent(req) /\ OwnFound(req)
    BY DEF GateInv, ReqOk
  <2> QED BY <2>1 DEF IpKnown, KeyKnown, Unspent, OwnFound, CallerIsKnown, RefusedIsFree,
             OwnRecordsOnly
<1> QED BY <1>1, <1>2, <1>3, PTL DEF GateSpec

=============================================================================
