------------------------------ MODULE Catalog ------------------------------
(***************************************************************************)
(* The discovery catalog: the in-memory store (src/src/catalog/memory.js)  *)
(* and the Postgres store that extends it (src/src/catalog/postgres.js).   *)
(* Memory answers every read; rows are written behind it, each statement   *)
(* on a connection of its own, and read back at boot. An upsert makes a    *)
(* new entry object; the vector of an older one may still be computing,    *)
(* and its persist writes that older object's row.                         *)
(***************************************************************************)
EXTENDS Naturals, FiniteSets

CONSTANTS
    Listing,        \* keys of the catalog
    Text,           \* documents a listing may compose to
    PayTo,
    MaxPerPayTo,    \* maxResourcesPerPayTo
    MaxCatalogSize, \* maxCatalogSize
    MaxUpserts,     \* bound: upserts
    MaxBoots,       \* bound: lives of the process
    MaxCatFaults    \* bound: statements that fail

VARIABLES
    resources,  \* key -> entry or NoEntry
    payToCounts,\* payTo -> count
    table,      \* key -> row of catalog_resources or NoEntry
    hydrated,   \* ready has resolved
    local,      \* degraded: process-local memory only
    embedding,  \* entry objects whose vector is being computed: <<key, entry>>
    statements, \* statements under way: [op, key, entry]
    elapsed,    \* ids of entries whose expires_at has passed
    upserts, boots, catFaults

catVars == <<resources, payToCounts, table, hydrated, local, embedding, statements,
             elapsed, upserts, boots, catFaults>>

NoVector == "none"
NoEntry  == [id |-> 0, text |-> "none", payTo |-> "none", settled |-> FALSE,
             vec |-> NoVector]

Present(k) == resources[k] # NoEntry
Size == Cardinality({k \in Listing : Present(k)})

\* _isExpired: a provisional entry whose window has elapsed.
Expired(e) == ~e.settled /\ e.id \in elapsed
\* getResource, listResources and search look at these only.
Public == {k \in Listing : Present(k) /\ ~Expired(resources[k])}

Counted(counts, p) == [counts EXCEPT ![p] = @ + 1]
Uncounted(counts, p) == [counts EXCEPT ![p] = IF @ > 0 THEN @ - 1 ELSE 0]

-----------------------------------------------------------------------------
\* Mutant: the vector that {...existing} brought along stays.
VectorForAny(old, text) == old.vec

\* _scheduleEmbed: an inherited vector is kept only for the text it describes.
VectorFor(old, text) == IF old.vec = text THEN old.vec ELSE NoVector

\* recordedSource: a verify of a settled listing does not demote it.
StaysSettled(old, source) == old.settled \/ source # "verify"

\* The row is written, once ready, with the entry as it is then.
Persist(k, e) == IF local THEN {} ELSE {[op |-> "write", key |-> k, entry |-> e]}

\* upsertResource: refused when new and over a limit; else memory at once, the
\* embed and the row behind it.
Upsert(k, text, p, source) ==
    LET old == resources[k]
        new == [id |-> upserts + 1, text |-> text, payTo |-> p,
                settled |-> StaysSettled(old, source), vec |-> VectorFor(old, text)]
    IN /\ upserts < MaxUpserts
       /\ Present(k) \/ (payToCounts[p] < MaxPerPayTo /\ Size < MaxCatalogSize)
       /\ upserts' = upserts + 1
       /\ resources' = [resources EXCEPT ![k] = new]
       /\ payToCounts' = IF Present(k) THEN payToCounts ELSE Counted(payToCounts, p)
       /\ embedding' = IF new.vec = NoVector THEN embedding \cup {<<k, new>>} ELSE embedding
       /\ statements' = statements \cup Persist(k, new)
       /\ UNCHANGED <<elapsed, table, hydrated, local, boots, catFaults>>

\* The vector arrives: it is set on the entry object it was computed for, in memory
\* only if that object is still the listing's, and _afterEmbedding writes its row.
Embedded(k, e) ==
    LET done == [e EXCEPT !.vec = e.text] IN
    /\ <<k, e>> \in embedding
    /\ embedding' = embedding \ {<<k, e>>}
    /\ resources' = IF resources[k].id = e.id
                    THEN [resources EXCEPT ![k].vec = e.text] ELSE resources
    /\ statements' = {IF s.op = "write" /\ s.entry = e /\ ~hydrated
                      THEN [s EXCEPT !.entry = done] ELSE s : s \in statements}
                     \cup Persist(k, done)
    /\ UNCHANGED <<elapsed, payToCounts, table, hydrated, local, upserts, boots, catFaults>>

\* The provider fails: the listing stays without a vector.
EmbedFails(k, e) ==
    /\ <<k, e>> \in embedding /\ catFaults < MaxCatFaults
    /\ catFaults' = catFaults + 1
    /\ embedding' = embedding \ {<<k, e>>}
    /\ UNCHANGED <<elapsed, resources, payToCounts, table, hydrated, local, statements, upserts, boots>>

-----------------------------------------------------------------------------
\* deleteResource asks for the row first.
Delete(k) ==
    /\ ~\E s \in statements : s.op = "delete" /\ s.key = k
    /\ Present(k) \/ table[k] # NoEntry
    /\ IF local
       THEN /\ resources' = [resources EXCEPT ![k] = NoEntry]
            /\ payToCounts' = IF Present(k) THEN Uncounted(payToCounts, resources[k].payTo)
                              ELSE payToCounts
            /\ UNCHANGED statements
       ELSE /\ statements' = statements \cup {[op |-> "delete", key |-> k, entry |-> NoEntry]}
            /\ UNCHANGED <<resources, payToCounts>>
    /\ UNCHANGED <<elapsed, table, hydrated, local, embedding, upserts, boots, catFaults>>

\* verifyTtlMs passes for a verify-only entry.
WindowElapses(k) ==
    /\ Present(k) /\ ~resources[k].settled /\ resources[k].id \notin elapsed
    /\ elapsed' = elapsed \cup {resources[k].id}
    /\ UNCHANGED <<resources, payToCounts, table, hydrated, local, embedding, statements,
                   upserts, boots, catFaults>>

\* pruneExpired: memory, then one DELETE of the keys it found.
Prune ==
    LET gone == {k \in Listing : Present(k) /\ Expired(resources[k])} IN
    /\ gone # {}
    /\ resources' = [k \in Listing |-> IF k \in gone THEN NoEntry ELSE resources[k]]
    /\ payToCounts' = [p \in PayTo |->
         LET n == Cardinality({k \in gone : resources[k].payTo = p})
         IN IF payToCounts[p] > n THEN payToCounts[p] - n ELSE 0]
    /\ statements' = IF local THEN statements
                     ELSE statements \cup {[op |-> "prune", key |-> k, entry |-> NoEntry] : k \in gone}
    /\ UNCHANGED <<elapsed, table, hydrated, local, embedding, upserts, boots, catFaults>>

\* A statement reaches Postgres, in any order with the others; it waited for ready.
Execute(s) ==
    /\ s \in statements /\ hydrated
    /\ statements' = statements \ {s}
    /\ table' = [table EXCEPT ![s.key] = s.entry]
    /\ IF s.op = "delete" /\ Present(s.key)
       THEN /\ resources' = [resources EXCEPT ![s.key] = NoEntry]
            /\ payToCounts' = Uncounted(payToCounts, resources[s.key].payTo)
       ELSE UNCHANGED <<resources, payToCounts>>
    /\ UNCHANGED <<elapsed, hydrated, local, embedding, upserts, boots, catFaults>>

\* It fails: memory only from now on. A delete is answered with an error.
StatementFails(s) ==
    /\ s \in statements /\ hydrated /\ catFaults < MaxCatFaults
    /\ catFaults' = catFaults + 1
    /\ local' = TRUE
    /\ statements' = statements \ {s}
    /\ UNCHANGED <<elapsed, resources, payToCounts, table, hydrated, embedding, upserts, boots>>

-----------------------------------------------------------------------------
\* _init: every row into memory, counted, and embedded when it has no vector.
Hydrate ==
    LET rows == {k \in Listing : table[k] # NoEntry} IN
    /\ ~hydrated /\ hydrated' = TRUE
    /\ resources' = [k \in Listing |-> IF k \in rows THEN table[k] ELSE resources[k]]
    /\ payToCounts' = [p \in PayTo |-> payToCounts[p]
                         + Cardinality({k \in rows : table[k].payTo = p})]
    /\ embedding' = embedding \cup {<<k, table[k]>> : k \in {r \in rows : table[r].vec = NoVector}}
    /\ UNCHANGED <<elapsed, table, local, statements, upserts, boots, catFaults>>

\* The schema or the rows cannot be read.
HydrateFails ==
    /\ ~hydrated /\ catFaults < MaxCatFaults
    /\ catFaults' = catFaults + 1
    /\ hydrated' = TRUE /\ local' = TRUE
    /\ UNCHANGED <<elapsed, resources, payToCounts, table, embedding, statements, upserts, boots>>

Reboot ==
    /\ boots < MaxBoots /\ boots' = boots + 1
    /\ resources' = [k \in Listing |-> NoEntry]
    /\ payToCounts' = [p \in PayTo |-> 0]
    /\ hydrated' = FALSE /\ local' = FALSE
    /\ embedding' = {} /\ statements' = {}
    /\ UNCHANGED <<elapsed, table, upserts, catFaults>>

CatInit ==
    /\ resources = [k \in Listing |-> NoEntry] /\ table = [k \in Listing |-> NoEntry]
    /\ payToCounts = [p \in PayTo |-> 0]
    /\ hydrated = FALSE /\ local = FALSE
    /\ embedding = {} /\ statements = {} /\ elapsed = {}
    /\ upserts = 0 /\ boots = 1 /\ catFaults = 0

CatNext ==
    \/ \E k \in Listing :
          \/ \E t \in Text, p \in PayTo, s \in {"verify", "settle"} : Upsert(k, t, p, s)
          \/ Delete(k) \/ WindowElapses(k)
    \/ \E x \in embedding : Embedded(x[1], x[2]) \/ EmbedFails(x[1], x[2])
    \/ \E s \in statements : Execute(s) \/ StatementFails(s)
    \/ Prune \/ Hydrate \/ HydrateFails \/ Reboot

CatSpec == CatInit /\ [][CatNext]_catVars

-----------------------------------------------------------------------------
\* partialResults of search: the provider is down, or a public listing has no
\* vector yet.
Partial(up) == ~up \/ \E k \in Public : resources[k].vec = NoVector

\* A search that does not call its results partial ranked every listing by a vector
\* of the text it has now: through re-upserts, late embeds and vectors read back
\* from rows, a vector never describes another document.
DenseIsHonest ==
    ~Partial(TRUE) => \A k \in Public : resources[k].vec = resources[k].text

\* "writes persist the row AND the memory copy": when nothing is under way, a
\* settled listing has a settled row to come back from. Refuted: the statements of
\* two upserts, or of an older entry's embed, arrive in the other order.
SettledIsDurable ==
    hydrated /\ ~local /\ statements = {} =>
        \A k \in Listing : resources[k].settled => table[k].settled

\* "Reappearing is a bug; staying deleted is the promise": what is not in memory
\* when nothing is under way has no row to come back from. Refuted: the write of
\* a row, an upsert's or a late embed's, arrives after its DELETE.
StaysDeleted ==
    hydrated /\ ~local /\ statements = {} =>
        \A k \in Listing : ~Present(k) => table[k] = NoEntry

\* "Per-payTo count kept in lockstep with `resources`". Refuted: an upsert before
\* hydration is counted again by it.
CountsInLockstep ==
    \A p \in PayTo : payToCounts[p] =
        Cardinality({k \in Listing : resources[k].payTo = p /\ Present(k)})
=============================================================================
