---------------------------- MODULE CrdtCounter ----------------------------
(***************************************************************************)
(* The multi-region rate-limit store (src/src/crdt-rate-limit-store.js):   *)
(* one bucket, counted in each region's memory and merged into one shared  *)
(* row by a sync that every region runs on an interval. A sync goes        *)
(* through the map of buckets, awaits the upsert of each and overwrites    *)
(* the local count with the answer; the interval does not wait for the     *)
(* sync before it. A bucket id names its window, so the one bucket has one *)
(* reset time.                                                             *)
(***************************************************************************)
EXTENDS Naturals, FiniteSetsExt

CONSTANTS
    Region,
    SyncRun,       \* syncs of one region that can be under way together
    MaxIncrements, \* bound: counted requests, in all regions
    MaxFailures    \* bound: statements that fail

VARIABLES
    local,         \* region -> count of the bucket in this.local, 0 for no entry
    row,           \* the count in the shared row, 0 for no row
    syncs,         \* region -> sync -> where it is: [at, ahead, got]
    crdtDegraded,  \* region -> degraded
    admissions,    \* history: requests counted, in all regions
    failures

crdtVars == <<local, row, syncs, crdtDegraded, admissions, failures>>

\* A sync is off, between two awaits of this bucket ("on"), or awaiting its upsert
\* ("sent"), with the count the row had after it. An entry of the bucket, when there
\* is one, may be ahead of the sync in the map.
Off == [at |-> "off", ahead |-> FALSE, got |-> 0]

-----------------------------------------------------------------------------
\* increment: the local counter only.
CountLocal(r) ==
    /\ admissions < MaxIncrements
    /\ admissions' = admissions + 1
    /\ local' = [local EXCEPT ![r] = @ + 1]
    /\ UNCHANGED <<row, syncs, crdtDegraded, failures>>

\* increment drops the buckets that end first when the map is over maxSize: requests
\* of other owners made this one give way. When it is set again it is the last entry
\* of the map, ahead of every sync.
Shed(r) ==
    /\ local[r] > 0
    /\ local' = [local EXCEPT ![r] = 0]
    /\ syncs' = [syncs EXCEPT ![r] = [k \in SyncRun |->
                    IF @[k].at = "off" THEN Off ELSE [@[k] EXCEPT !.ahead = TRUE]]]
    /\ UNCHANGED <<row, crdtDegraded, admissions, failures>>

\* get: what a check decides by. The row's reset time is a BIGINT, which arrives as
\* a string and is never === the local number, so the row counts only where there
\* is no local entry.
Read(r) == IF local[r] > 0 \/ crdtDegraded[r] THEN local[r] ELSE row

\* Mutant: the counts of the regions are added up at every sync.
MergedSum(a, b) == a + b

\* GREATEST(row, EXCLUDED.count)
Merged(a, b) == Max({a, b})

\* _sync begins, unless the region is degraded: this is where that is asked.
SyncStart(r, k) ==
    /\ ~crdtDegraded[r] /\ syncs[r][k] = Off
    /\ syncs' = [syncs EXCEPT ![r][k] = [at |-> "on", ahead |-> TRUE, got |-> 0]]
    /\ UNCHANGED <<local, row, crdtDegraded, admissions, failures>>

\* It comes to the bucket and sends its upsert.
SyncUpsert(r, k) ==
    /\ syncs[r][k].at = "on" /\ syncs[r][k].ahead /\ local[r] > 0
    /\ row' = Merged(row, local[r])
    /\ syncs' = [syncs EXCEPT ![r][k] = [at |-> "sent", ahead |-> FALSE, got |-> row']]
    /\ UNCHANGED <<local, crdtDegraded, admissions, failures>>

Arrived(s) == [at |-> "on", ahead |-> s.ahead, got |-> 0]

\* Mutant: the answer is dropped.
SyncNothing(r, k) ==
    /\ syncs[r][k].at = "sent"
    /\ syncs' = [syncs EXCEPT ![r][k] = Arrived(@)]
    /\ UNCHANGED <<local, row, crdtDegraded, admissions, failures>>

\* The answer arrives and becomes the local count. What was counted meanwhile is
\* overwritten.
SyncApply(r, k) ==
    /\ syncs[r][k].at = "sent"
    /\ local' = [local EXCEPT ![r] = syncs[r][k].got]
    /\ syncs' = [syncs EXCEPT ![r][k] = Arrived(@)]
    /\ UNCHANGED <<row, crdtDegraded, admissions, failures>>

\* The map is through: _recover, also from what another statement degraded since
\* the sync began.
SyncEnd(r, k) ==
    /\ syncs[r][k].at = "on" /\ (syncs[r][k].ahead => local[r] = 0)
    /\ syncs' = [syncs EXCEPT ![r][k] = Off]
    /\ crdtDegraded' = [crdtDegraded EXCEPT ![r] = FALSE]
    /\ UNCHANGED <<local, row, admissions, failures>>

StatementFails(r) ==
    /\ failures < MaxFailures
    /\ failures' = failures + 1
    /\ crdtDegraded' = [crdtDegraded EXCEPT ![r] = TRUE]
    /\ UNCHANGED <<local, row, admissions>>

\* A statement of the sync fails, its effect on the row done or not.
SyncFails(r, k) ==
    /\ syncs[r][k] # Off
    /\ StatementFails(r)
    /\ syncs' = [syncs EXCEPT ![r][k] = Off]

\* A get, a sweep or an idle connection fails: local-only from now on.
CrdtDegrade(r) == ~crdtDegraded[r] /\ StatementFails(r) /\ UNCHANGED syncs

CrdtInit ==
    /\ local = [r \in Region |-> 0] /\ row = 0
    /\ syncs = [r \in Region |-> [k \in SyncRun |-> Off]]
    /\ crdtDegraded = [r \in Region |-> FALSE]
    /\ admissions = 0 /\ failures = 0

SyncStep(r, k) == SyncStart(r, k) \/ SyncUpsert(r, k) \/ SyncApply(r, k) \/ SyncEnd(r, k)

CrdtNext == \E r \in Region :
    \/ CountLocal(r) \/ Shed(r) \/ CrdtDegrade(r)
    \/ \E k \in SyncRun : SyncStep(r, k) \/ SyncFails(r, k)

CrdtSpec == CrdtInit /\ [][CrdtNext]_crdtVars

-----------------------------------------------------------------------------
Shared == INSTANCE SharedCount WITH admitted <- admissions, published <- row,
                                    view <- local

\* The store is a shared counter: however often and in whatever order the regions
\* sync, fail, shed and apply stale answers, the merged count only grows and never
\* counts a request twice, so no check refuses for what was not asked.
CrdtIsCounter == Shared!CountSpec /\ [](\A r \in Region : Read(r) <= admissions)

\* "Eventual convergence": the regions that sync, and have the bucket, come to agree
\* with the row for good: although a sync may overwrite what was counted during its
\* await, and for a region that was degraded and recovered as well.
CrdtConverges ==
    <>[](\A r \in Region : ~crdtDegraded[r] /\ local[r] > 0 => local[r] = row)

\* get's comment: "The merged count is max(local, remote)". Refuted: with a local
\* entry the row is not merged.
ReadIsMerged == \A r \in Region : ~crdtDegraded[r] => Read(r) = Max({local[r], row})

\* "Conservative rate limiting under partition (max merge may overcount)": once
\* the regions that sync agree, their count is at least what they have admitted.
\* Refuted: the maximum of two regions' counts is less than their sum.
CrdtConservative ==
    (\A r \in Region : ~crdtDegraded[r] /\ local[r] = row
                       /\ \A k \in SyncRun : syncs[r][k].at # "sent")
    => row >= admissions

\* "Eventual convergence when connectivity is restored", and _recover's "database
\* reconnected - CRDT sync restored": a degraded region syncs again. Refuted: _sync
\* returns at once while degraded, so only a sync that was already under way when
\* another statement failed recovers.
DegradedRecovers == \A r \in Region : crdtDegraded[r] ~> ~crdtDegraded[r]
=============================================================================
