----------------------------- MODULE MCRecords -----------------------------
(***************************************************************************)
(* What a request meets and leaves behind: the gates of its route, the     *)
(* limits, the pact scheme, the settlement log with its read models, the   *)
(* catalog and its cache, and the retention job. The parts share no state, *)
(* so a behaviour moves one of them and the others stay as they start.     *)
(***************************************************************************)
EXTENDS RateLimit, EventStore, CatalogCache, Catalog, Retention, Gate, Pact, TLC

CONSTANTS s1, s2

VARIABLE part

Parts == {"limits", "log", "cache", "catalog", "retention", "gate", "pact"}

\* Deployments behind one proxy or two, trusted by count or by list, behind an
\* untrusted proxy, and behind Cloudflare.
Deployments ==
    {[proxies |-> p, trust |-> t] : p \in {<<"p1">>, <<"p2", "p1">>}, t \in {"hops", "list"}}
    \cup {[proxies |-> <<"p1">>, trust |-> "none"], [proxies |-> <<"cf">>, trust |-> "none"]}

\* Key ids that are prefixes of one another; one key runs out, one is revoked.
Keys == {[id |-> <<"A">>, secret |-> "x", revoked |-> FALSE, expiresAt |-> 1],
         [id |-> <<"A", "B">>, secret |-> "y", revoked |-> TRUE, expiresAt |-> 2]}
Jwts == {[sub |-> <<"A", "B">>, good |-> TRUE], [sub |-> <<"A">>, good |-> FALSE]}
Headers == {<<>>, <<"f", "p1">>}
IdemKeys == {<<"k">>, <<"B", "k">>}

\* One request a window, and two stroops of fees a day.
Limits == [b \in Bucket |-> IF b = "fee" THEN 2 ELSE 1]

\* Two processes write the catalog, one is searched, and the other restarts.
CacheWrites == [n \in CacheNode |-> 1]
CacheLives == [n \in CacheNode |-> IF n = "a" THEN 1 ELSE 2]

\* Slots, pods, readers and rows are the same two values: one part moves at a time.
SlotSymmetry == Permutations(Slot)

RecordsInit ==
    /\ part \in Parts
    /\ StoreInit /\ CacheInit /\ CatInit
    /\ RateInit /\ (part # "limits" => backend = "memory")
    /\ lastMinute => part = "limits" /\ backend = "memory"
    /\ GateInit /\ (part # "gate" => site = [proxies |-> <<"p1">>, trust |-> "none"])
    /\ RetInit /\ (part # "retention" =>
         /\ \A r \in Row : stored[r].table = "events" /\ ~stored[r].old /\ ~stored[r].closed
         /\ ~mode.dryRun /\ ~mode.s3)
    /\ PactInit /\ (part # "pact" =>
         route = "settle" /\ tx = Good /\ fee = MaxPactFee /\ ~opened /\ trusted)

RecordsNext ==
    /\ UNCHANGED part
    /\ IF part = "limits" THEN RateNext ELSE UNCHANGED rateVars
    /\ IF part = "log" THEN StoreNext ELSE UNCHANGED storeVars
    /\ IF part = "cache" THEN CacheNext ELSE UNCHANGED cacheVars
    /\ IF part = "catalog" THEN CatNext ELSE UNCHANGED catVars
    /\ IF part = "retention" THEN RetNext ELSE UNCHANGED retVars
    /\ IF part = "gate" THEN GateNext ELSE UNCHANGED gateVars
    /\ IF part = "pact" THEN PactNext ELSE UNCHANGED pactVars

RecordsSpec ==
    RecordsInit /\ [][RecordsNext]_<<part, rateVars, storeVars, cacheVars, catVars,
                                     retVars, gateVars, pactVars>>
=============================================================================
