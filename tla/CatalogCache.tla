---------------------------- MODULE CatalogCache ----------------------------
(***************************************************************************)
(* The two-tier search cache (src/src/catalog/cache.js), for one search.   *)
(* Its keys hold the store's write version, which each process counts for  *)
(* itself from zero, while the second tier is shared by all. A result is   *)
(* modelled by the process life that computed it and by how many of that   *)
(* store's writes it reflects.                                             *)
(***************************************************************************)
EXTENDS Integers, FiniteSetsExt

CONSTANTS
    CacheNode,    \* processes
    Searched,     \* the ones the searches are sent to
    Reader,       \* searches under way
    MaxWrites,    \* bound: process -> catalog writes of one of its lives
    MaxLives      \* bound: process -> its lives

ASSUME CacheAssumption ==
    Searched \subseteq CacheNode /\ MaxWrites \in [CacheNode -> Nat]

VARIABLES
    life,       \* node -> its life
    ver,        \* node -> store.getVersion()
    seen,       \* node -> lastSeenVersion
    floor,      \* node -> minValidVersion
    l1,         \* node -> version in the key -> result or NoResult
    l2,         \* version in the key -> result or NoResult
    bus,        \* invalidations under way: <<node, version>>
    pending,    \* nodes with a write whose invalidate has not run
    read        \* reader -> [at, node, ver, live, res, from]

cacheVars == <<life, ver, seen, floor, l1, l2, bus, pending, read>>

NoResult == [by |-> <<"none", 0>>, n |-> -1]
Result(n) == [by |-> <<n, life[n]>>, n |-> ver[n]]
NoRead == [at |-> "idle", node |-> "none", ver |-> 0, live |-> FALSE,
           res |-> NoResult, from |-> "none"]
Versions == UNION {0..MaxWrites[n] : n \in CacheNode}
Newer(a, b) == Max({a, b})

-----------------------------------------------------------------------------
\* Mutant: the version is not part of the key.
KeyForUnversioned(v) == 0

\* keyFor
KeyFor(v) == v

\* The map of a node after search has noticed a version it had not seen.
Noticed(n) == IF ver[n] # seen[n] THEN [v \in Versions |-> NoResult] ELSE l1[n]

\* A search that is already loading the same key.
InFlight(n, v) == {r \in Reader : read[r].node = n /\ read[r].ver = v
                                  /\ read[r].at \in {"l2", "query", "write"}}

\* search: a hit, a join, or the start of _load. An entry past its TTL, or evicted
\* from a full map since, is found gone. A load of a generation below the floor goes
\* straight to the store, whose rows are read before its first await.
Search(r, n, gone) ==
    LET v == ver[n]
        m == IF gone THEN [Noticed(n) EXCEPT ![KeyFor(v)] = NoResult] ELSE Noticed(n)
        f == IF v # seen[n] THEN Newer(v, floor[n]) ELSE floor[n]
        base == [NoRead EXCEPT !.node = n, !.ver = v, !.live = v >= f]
    IN /\ read[r].at = "idle"
       /\ gone => Noticed(n)[KeyFor(v)] # NoResult
       /\ seen' = [seen EXCEPT ![n] = v]
       /\ floor' = [floor EXCEPT ![n] = f]
       /\ l1' = [l1 EXCEPT ![n] = m]
       /\ read' = [read EXCEPT ![r] =
            IF m[KeyFor(v)] # NoResult
            THEN [base EXCEPT !.at = "done", !.res = m[KeyFor(v)], !.from = "l1"]
            ELSE IF InFlight(n, v) # {} THEN [base EXCEPT !.at = "join"]
            ELSE IF v >= f THEN [base EXCEPT !.at = "l2"]
            ELSE [base EXCEPT !.at = "query", !.res = Result(n), !.from = "store"]]
       /\ UNCHANGED <<life, ver, l2, bus, pending>>

\* The load of r ends: the readers that joined it get its result.
Settled(r, res, from) ==
    [q \in Reader |->
       IF q = r \/ (read[q].at = "join" /\ read[q].node = read[r].node
                    /\ read[q].ver = read[r].ver)
       THEN [read[q] EXCEPT !.at = "done", !.res = res, !.from = from] ELSE read[q]]

\* _readL2 hits: into L1 and returned.
ReadL2Hit(r) ==
    LET key == KeyFor(read[r].ver) IN
    /\ read[r].at = "l2" /\ l2[key] # NoResult
    /\ l1' = [l1 EXCEPT ![read[r].node][key] = l2[key]]
    /\ read' = Settled(r, l2[key], "l2")
    /\ UNCHANGED <<life, ver, seen, floor, l2, bus, pending>>

\* A miss, an expired key, or Redis fails: the store is searched.
ReadL2Miss(r) ==
    /\ read[r].at = "l2"
    /\ read' = [read EXCEPT ![r].at = "query", ![r].res = Result(read[r].node),
                            ![r].from = "store"]
    /\ UNCHANGED <<life, ver, seen, floor, l1, l2, bus, pending>>

\* store.search returns; the result is cached if the load was live when it began.
StoreReturns(r) ==
    /\ read[r].at = "query"
    /\ IF read[r].live
       THEN /\ l1' = [l1 EXCEPT ![read[r].node][KeyFor(read[r].ver)] = read[r].res]
            /\ read' = [read EXCEPT ![r].at = "write"]
       ELSE /\ read' = Settled(r, read[r].res, "store")
            /\ UNCHANGED l1
    /\ UNCHANGED <<life, ver, seen, floor, l2, bus, pending>>

\* _writeL2, best effort, and the result is returned.
WriteL2(r) ==
    /\ read[r].at = "write"
    /\ l2' \in {l2, [l2 EXCEPT ![KeyFor(read[r].ver)] = read[r].res]}
    /\ read' = Settled(r, read[r].res, "store")
    /\ UNCHANGED <<life, ver, seen, floor, l1, bus, pending>>

\* The response is sent.
Respond(r) ==
    /\ read[r].at = "done"
    /\ read' = [read EXCEPT ![r] = NoRead]
    /\ UNCHANGED <<life, ver, seen, floor, l1, l2, bus, pending>>

-----------------------------------------------------------------------------
\* A write of the catalog; one of a request invalidates afterwards, one of the
\* prune sweep does not.
CatalogWrite(n, announced) ==
    /\ ver[n] < MaxWrites[n]
    /\ ver' = [ver EXCEPT ![n] = @ + 1]
    /\ pending' = IF announced THEN pending \cup {n} ELSE pending
    /\ UNCHANGED <<life, seen, floor, l1, l2, bus, read>>

\* invalidate: this process drops its map, the others are told unless that fails.
Invalidate(n) ==
    /\ n \in pending
    /\ pending' = pending \ {n}
    /\ floor' = [floor EXCEPT ![n] = Newer(ver[n], @)]
    /\ seen' = [seen EXCEPT ![n] = ver[n]]
    /\ l1' = [l1 EXCEPT ![n] = [v \in Versions |-> NoResult]]
    /\ bus' \in {bus, bus \cup {<<m, ver[n]>> : m \in CacheNode}}
    /\ UNCHANGED <<life, ver, l2, read>>

\* _onMessage
OnMessage(n, v) ==
    /\ <<n, v>> \in bus
    /\ bus' = bus \ {<<n, v>>}
    /\ IF v > floor[n]
       THEN /\ floor' = [floor EXCEPT ![n] = v]
            /\ l1' = [l1 EXCEPT ![n] = [u \in Versions |-> NoResult]]
       ELSE UNCHANGED <<floor, l1>>
    /\ UNCHANGED <<life, ver, seen, l2, pending, read>>

\* The process restarts and counts its writes from zero again.
CacheRestart(n) ==
    /\ life[n] < MaxLives[n]
    /\ life' = [life EXCEPT ![n] = @ + 1]
    /\ ver' = [ver EXCEPT ![n] = 0] /\ seen' = [seen EXCEPT ![n] = 0]
    /\ floor' = [floor EXCEPT ![n] = 0]
    /\ l1' = [l1 EXCEPT ![n] = [v \in Versions |-> NoResult]]
    /\ pending' = pending \ {n}
    /\ bus' = {x \in bus : x[1] # n}
    /\ read' = [r \in Reader |-> IF read[r].node = n THEN NoRead ELSE read[r]]
    /\ UNCHANGED l2

CacheInit ==
    /\ life = [n \in CacheNode |-> 1] /\ ver = [n \in CacheNode |-> 0]
    /\ seen = [n \in CacheNode |-> 0] /\ floor = [n \in CacheNode |-> 0]
    /\ l1 = [n \in CacheNode |-> [v \in Versions |-> NoResult]]
    /\ l2 = [v \in Versions |-> NoResult]
    /\ bus = {} /\ pending = {}
    /\ read = [r \in Reader |-> NoRead]

CacheNext ==
    \/ \E r \in Reader : \/ ReadL2Hit(r) \/ ReadL2Miss(r) \/ StoreReturns(r)
                         \/ WriteL2(r) \/ Respond(r)
                         \/ \E n \in Searched, gone \in BOOLEAN : Search(r, n, gone)
    \/ \E n \in CacheNode : \/ CatalogWrite(n, TRUE) \/ CatalogWrite(n, FALSE)
                            \/ Invalidate(n) \/ CacheRestart(n)
                            \/ \E v \in Versions : OnMessage(n, v)

CacheSpec == CacheInit /\ [][CacheNext]_cacheVars

-----------------------------------------------------------------------------
\* What this process wrote before a search began is in its result, whatever is
\* cached, joined or invalidated meanwhile: only a result that another process
\* life computed, and that the shared tier kept, can lack it.
OwnWritesFound ==
    \A r \in Reader : read[r].at = "done" =>
        (read[r].res.by = <<read[r].node, life[read[r].node]>>
           => read[r].res.n >= read[r].ver)

\* "A generation retired by a peer's broadcast is not merely uncacheable - it must
\* not be *served*": a search of a generation below the floor is answered by the
\* store. Refuted: a load that began before the broadcast caches its result after it.
RetiredNotServed ==
    \A r \in Reader : read[r].at = "done" /\ ~read[r].live => read[r].from = "store"

\* "no read can be served from a stale generation". Refuted: every process counts
\* versions for itself, so the shared tier answers with another one's result.
NoStaleGeneration ==
    \A r \in Reader : read[r].at = "done" =>
        /\ read[r].res.by = <<read[r].node, life[read[r].node]>>
        /\ read[r].res.n >= read[r].ver
=============================================================================
