------------------------------ MODULE KeyRing ------------------------------
(***************************************************************************)
(* Signer rotation: the key manager (src/src/key-manager.js) polls a       *)
(* remote key source, installs a new generation of signers when its key    *)
(* ids changed, and the facilitator (src/src/facilitator.js) registers a   *)
(* scheme that signs with it. A settlement signs with the scheme it began  *)
(* with. A key is a pair of a key id and a secret; the modelled source     *)
(* names its kids, as { kid, secret } entries do.                          *)
(***************************************************************************)
EXTENDS Naturals, FiniteSets

CONSTANTS
    Payloads,     \* non-empty sets of keys the source may serve
    Settler,      \* settlements that may be under way
    MaxRekeys,    \* bound: changes of the source
    MaxRingFaults \* bound: polls that fail

VARIABLES
    source,    \* the keys the source serves now
    gens,      \* this.generations: generation -> [keys, leases, retired]
    signing,   \* generation of the registered scheme
    refreshing,\* refreshPromise is set
    using,     \* settlement -> generation it signs with, 0 for none
    rekeys,
    ringFaults

ringVars == <<source, gens, signing, refreshing, using, rekeys, ringFaults>>

MaxGens == MaxRekeys + 1

Kids(keys) == {k[1] : k \in keys}
Current    == CHOOSE g \in DOMAIN gens : \A h \in DOMAIN gens : h <= g

-----------------------------------------------------------------------------
\* normaliseKeys refuses what is not a list of valid keys with distinct kids.
Valid(keys) == keys # {} /\ \A j, k \in keys : j[1] = k[1] => j = k

\* _purgeRetired: retired generations past the grace, without a lease.
Purged(gs, cur) ==
    LET keep == {g \in DOMAIN gs : g = cur \/ gs[g].retired # "over" \/ gs[g].leases > 0}
    IN [g \in keep |-> gs[g]]

\* snapshot: a lease on a generation, until it is released.
Snapshot(gs, g) == [gs EXCEPT ![g].leases = @ + 1]

\* Mutant: a scheme is built without a lease on its generation.
InstalledUnleased(keys) ==
    LET g == Current + 1
        retired == [h \in DOMAIN gens |->
                      [gens[h] EXCEPT !.retired = IF @ = "no" THEN "grace" ELSE @]]
    IN Purged([h \in DOMAIN gens \cup {g} |->
                 IF h = g THEN [keys |-> keys, leases |-> 0, retired |-> "no"]
                 ELSE retired[h]], g)

\* _install, and the lease of the snapshot that onRefresh takes of it. Nothing
\* releases a snapshot.
Installed(keys) ==
    LET g == Current + 1
        retired == [h \in DOMAIN gens |->
                      [gens[h] EXCEPT !.retired = IF @ = "no" THEN "grace" ELSE @]]
    IN Snapshot(Purged([h \in DOMAIN gens \cup {g} |->
                          IF h = g THEN [keys |-> keys, leases |-> 0, retired |-> "no"]
                          ELSE retired[h]], g), g)

\* Mutant: as many keys as before are taken for the same keys.
UnchangedCount(keys) == Cardinality(keys) = Cardinality(gens[Current].keys)

\* refresh compares the key ids.
Unchanged(keys) == Kids(keys) = Kids(gens[Current].keys)

\* The timer of start fires; a refresh under way is joined.
RefreshTick ==
    /\ ~refreshing
    /\ refreshing' = TRUE
    /\ UNCHANGED <<source, gens, signing, using, rekeys, ringFaults>>

\* loadRemoteKeys returns; install, onRefresh and register run to the end.
RefreshReply ==
    /\ refreshing /\ Valid(source)
    /\ refreshing' = FALSE
    /\ \/ Unchanged(source) /\ UNCHANGED <<gens, signing>>
       \/ /\ ~Unchanged(source)
          /\ gens' = Installed(source)
          /\ signing' = Current + 1
    /\ UNCHANGED <<source, using, rekeys, ringFaults>>

\* A timeout, an HTTP error, or keys that normaliseKeys refuses.
RefreshFails ==
    /\ refreshing
    /\ \/ ~Valid(source) /\ UNCHANGED ringFaults
       \/ ringFaults < MaxRingFaults /\ ringFaults' = ringFaults + 1
    /\ refreshing' = FALSE
    /\ UNCHANGED <<source, gens, signing, using, rekeys>>

\* The timer of a retired generation, retirementGraceMs later.
GraceOver(g) ==
    /\ g \in DOMAIN gens /\ gens[g].retired = "grace"
    /\ gens' = Purged([gens EXCEPT ![g].retired = "over"], Current)
    /\ UNCHANGED <<source, signing, refreshing, using, rekeys, ringFaults>>

\* The operator puts other keys into the source.
RotateKeys(keys) ==
    /\ rekeys < MaxRekeys /\ keys # source
    /\ rekeys' = rekeys + 1
    /\ source' = keys
    /\ UNCHANGED <<gens, signing, refreshing, using, ringFaults>>

\* A settlement signs with the scheme registered when it starts.
SettleBegins(s) ==
    /\ using[s] = 0
    /\ using' = [using EXCEPT ![s] = signing]
    /\ UNCHANGED <<source, gens, signing, refreshing, rekeys, ringFaults>>

SettleEnds(s) ==
    /\ using[s] # 0
    /\ using' = [using EXCEPT ![s] = 0]
    /\ UNCHANGED <<source, gens, signing, refreshing, rekeys, ringFaults>>

\* buildFacilitator: the first generation, with the lease of its snapshot.
RingInit ==
    /\ source \in {p \in Payloads : Valid(p)}
    /\ gens = Snapshot([g \in {1} |-> [keys |-> source, leases |-> 0, retired |-> "no"]], 1)
    /\ signing = 1 /\ refreshing = FALSE
    /\ using = [s \in Settler |-> 0] /\ rekeys = 0 /\ ringFaults = 0

RingNext ==
    \/ RefreshTick \/ RefreshReply \/ RefreshFails
    \/ \E keys \in Payloads : RotateKeys(keys)
    \/ \E g \in 1..MaxGens : GraceOver(g)
    \/ \E s \in Settler : SettleBegins(s) \/ SettleEnds(s)

RingSpec == RingInit /\ [][RingNext]_ringVars

-----------------------------------------------------------------------------
\* The generation that the registered scheme signs with is never purged, and
\* neither is that of a settlement still under way after a rotation, however the
\* rotations and the grace timers fall.
SchemeKept == signing \in DOMAIN gens
SettlersKept == \A s \in Settler : using[s] # 0 => using[s] \in DOMAIN gens

\* Generations in use are kept, and a rotation reaches the registered scheme: it
\* comes to sign with the kids the source serves, unless those are refused.
RotationFollowed ==
    /\ [](SchemeKept /\ SettlersKept)
    /\ <>[](Valid(source) => Kids(gens[signing].keys) = Kids(source))

\* "to retire a key while in-flight settlements still drain on the old one": once
\* its grace is over, a generation no scheme or settlement signs with is purged.
\* Refuted: the lease that onRefresh takes is never given back.
RetiredIsPurged ==
    \A g \in DOMAIN gens :
        gens[g].retired = "over" => g = signing \/ \E s \in Settler : using[s] = g
=============================================================================
