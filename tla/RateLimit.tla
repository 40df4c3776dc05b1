----------------------------- MODULE RateLimit -----------------------------
(***************************************************************************)
(* The rate limiter and usage meter (src/src/rate-limit.js) over its three *)
(* bucket stores: process memory, Postgres (rate-limit-store.js) and Redis *)
(* with memory as its fallback (redis-rate-limit.js). The buckets are      *)
(* those of one owner, whose address is not on the allowlist; those of the *)
(* others count only as what shares the memory's map with them. A request  *)
(* reads its buckets one await at a time, does its work, and is counted    *)
(* afterwards, again one await at a time.                                  *)
(***************************************************************************)
EXTENDS Naturals, FiniteSets, Sequences

CONSTANTS
    Slot,        \* requests of the owner that can be in flight together
    Backends,    \* the configurations to look at: "memory", "postgres", "redis"
    BucketLimit, \* bucket -> limits.verifyRpm, settleRpm, ..., feeSpd
    MaxFee,      \* maxTransactionFeeStroops
    MaxUpsets    \* bound: losses of the shared store, windows that pass, fees shed

\* settleRph's bucket is as settleRpm's with a longer window, and is left out.
Bucket == {"verify", "minute", "day", "fee"}

ASSUME RateAssumption ==
    /\ IsFiniteSet(Slot) /\ Slot # {}
    /\ BucketLimit \in [Bucket -> Nat \ {0}] /\ MaxFee \in Nat \ {0}

VARIABLES
    backend,   \* which store the limiter was built on
    storeUp,   \* the shared store answers
    degraded,  \* RedisRateLimiter.degraded
    shared,    \* bucket -> count in Postgres or Redis
    memory,    \* the owner's buckets in the MemoryStore's map -> count
    lastMinute,\* it is the last minute of the day: all windows end together
    slot,      \* slot -> the request in it
    spent,     \* history: fees sponsored since the day began
    feesShed,  \* history: how often the fee bucket was shed since then
    outages, rolls

rateVars == <<backend, storeUp, degraded, shared, memory, lastMinute, slot, spent,
              feesShed, outages, rolls>>
mapVars  == <<memory, lastMinute, feesShed>>

IdleSlot == [at |-> "idle", kind |-> "none", i |-> 0, ok |-> TRUE, fee |-> 0]

\* What checkVerify and checkSettle read, in order, and recordVerify and
\* recordSettle count. checkCatalog and checkCatalogRead are as checkVerify,
\* with buckets of their own.
Checks(kind) == IF kind = "verify" THEN <<"verify">>
                ELSE <<"minute", "day", "fee">>
Records(kind, fee) == IF kind = "verify" THEN <<"verify">>
                      ELSE <<"minute", "day">>
                           \o (IF fee > 0 THEN <<"fee">> ELSE <<>>)

\* How long a bucket's window is, in steps of the clock's hands.
Window(b) == IF b \in {"verify", "minute"} THEN 1 ELSE 2

\* get: a missing bucket has no count.
InMemory(b) == IF b \in DOMAIN memory THEN memory[b] ELSE 0

\* Mutant: asks whether the limit has been passed already.
FitsLate(b, count) == count <= BucketLimit[b]

\* A check asks for room for one request, or for the dearest transaction.
Fits(b, count) == count + (IF b = "fee" THEN MaxFee ELSE 1) <= BucketLimit[b]

-----------------------------------------------------------------------------
(* MemoryStore *)

\* The map is one for all owners. When it is over maxSize, the bucket that resets
\* first is dropped: one of another owner, or, when those all reset no earlier, the
\* first of this owner's. In the last minute of the day all reset together, and the
\* one that was set first goes: that order is left open, as is what the others fill
\* the map with.
ResetAt(b) == IF lastMinute THEN 2 ELSE Window(b)
ResetsFirst(map) == {b \in DOMAIN map : \A c \in DOMAIN map : ResetAt(b) <= ResetAt(c)}

Shed(map) == \E old \in ResetsFirst(map) :
    /\ old = "fee" => rolls + outages + feesShed < MaxUpsets
    /\ memory' = [b \in DOMAIN map \ {old} |-> map[b]]
    /\ feesShed' = IF old = "fee" THEN feesShed + 1 ELSE feesShed

Kept(map) == memory' = map /\ UNCHANGED feesShed

\* increment, for this owner; the new bucket itself may be the one to go.
AddToMemory(b, amount) ==
    LET added == [x \in DOMAIN memory \cup {b} |->
                    IF x = b THEN InMemory(b) + amount ELSE memory[x]]
    IN Kept(added) \/ Shed(added)

\* increment, for another one.
ShedByOthers ==
    /\ Shed(memory)
    /\ UNCHANGED <<backend, storeUp, degraded, shared, lastMinute, slot, spent,
                   outages, rolls>>

-----------------------------------------------------------------------------
(* _check and _increment of the three limiters *)

\* _withRedis: the first operation that fails puts the limiter into memory.
Degrading == backend = "redis" /\ (degraded \/ ~storeUp)
OnShared == backend # "memory" /\ ~Degrading

\* Mutant: fails open.
AllowedOpen(b) == CASE OnShared /\ storeUp -> Fits(b, shared[b])
                    [] OnShared /\ ~storeUp -> TRUE
                    [] OTHER -> Fits(b, InMemory(b))

\* The answer of _check: Postgres fails closed, Redis falls back to memory.
Allowed(b) == CASE OnShared /\ storeUp -> Fits(b, shared[b])
                [] OnShared /\ ~storeUp -> FALSE
                [] OTHER -> Fits(b, InMemory(b))

\* PostgresStore adds what it is given, INCR adds one whatever the amount.
PostgresAdd(b, amount) == [shared EXCEPT ![b] = @ + amount]
RedisAdd(b)            == [shared EXCEPT ![b] = @ + 1]

\* _increment: a shared store that does not answer loses the count.
Increment(b, amount) ==
    /\ IF OnShared
       THEN /\ shared' = CASE ~storeUp -> shared
                           [] storeUp /\ backend = "redis" -> RedisAdd(b)
                           [] OTHER -> PostgresAdd(b, amount)
            /\ UNCHANGED <<memory, feesShed>>
       ELSE AddToMemory(b, amount) /\ UNCHANGED shared
    /\ degraded' = Degrading /\ UNCHANGED lastMinute

-----------------------------------------------------------------------------
(* A request *)

\* The route's handler calls its check.
Arrive(s) ==
    /\ slot[s] = IdleSlot
    /\ \E kind \in {"verify", "settle"} :
          slot' = [slot EXCEPT ![s] = [IdleSlot EXCEPT !.at = "check", !.kind = kind,
                                                   !.i = 1]]
    /\ UNCHANGED <<backend, storeUp, degraded, shared, mapVars, spent, outages,
                   rolls>>

\* One awaited _check. checkSettle judges its windows together, and then
\* asks for the fee.
Check(s) ==
    /\ slot[s].at = "check"
    /\ LET r  == slot[s]
           bs == Checks(r.kind)
           ok == r.ok /\ Allowed(bs[r.i])
       IN slot' = [slot EXCEPT ![s] =
                     CASE r.i < Len(bs) /\ (r.i < 2 \/ ok) ->
                            [r EXCEPT !.i = @ + 1, !.ok = ok]
                       [] r.i = Len(bs) /\ ok -> [r EXCEPT !.at = "work"]
                       [] OTHER -> IdleSlot]
    /\ degraded' = Degrading
    /\ UNCHANGED <<backend, storeUp, shared, mapVars, spent, outages, rolls>>

\* The work between: the handler may throw or refuse the body, the settlement
\* may fail or be paid for.
Work(s) ==
    /\ slot[s].at = "work"
    /\ \/ slot' = [slot EXCEPT ![s] = IdleSlot] /\ UNCHANGED spent
       \/ \E fee \in IF slot[s].kind = "settle" THEN 0..MaxFee ELSE {0} :
            /\ slot' = [slot EXCEPT ![s] = [@ EXCEPT !.at = "record", !.i = 1,
                                                     !.fee = fee]]
            /\ spent' = spent + fee
    /\ UNCHANGED <<backend, storeUp, degraded, shared, mapVars, outages, rolls>>

\* One awaited _increment of recordVerify or recordSettle.
Record(s) ==
    /\ slot[s].at = "record"
    /\ LET r  == slot[s]
           bs == Records(r.kind, r.fee)
       IN /\ Increment(bs[r.i], IF bs[r.i] = "fee" THEN r.fee ELSE 1)
          /\ slot' = [slot EXCEPT ![s] = IF r.i < Len(bs)
                                         THEN [r EXCEPT !.i = @ + 1] ELSE IdleSlot]
    /\ UNCHANGED <<backend, storeUp, spent, outages, rolls>>

-----------------------------------------------------------------------------
(* The clock and the store *)

\* A window ends, and with it the shorter ones: bucket ids change, and what has
\* a resetAt in the past counts no more and is swept.
Roll(w) ==
    /\ rolls + outages + feesShed < MaxUpsets /\ rolls' = rolls + 1
    /\ w = 1 => ~lastMinute
    /\ lastMinute' \in IF w = 1 THEN BOOLEAN ELSE {FALSE}
    /\ shared' = [b \in Bucket |-> IF Window(b) <= w THEN 0 ELSE shared[b]]
    /\ memory' = [b \in {x \in DOMAIN memory : Window(x) > w} |-> memory[b]]
    /\ spent' = IF w = 2 THEN 0 ELSE spent
    /\ feesShed' = IF w = 2 THEN 0 ELSE feesShed
    /\ UNCHANGED <<backend, storeUp, degraded, slot, outages>>

LoseStore ==
    /\ backend # "memory" /\ storeUp /\ rolls + outages + feesShed < MaxUpsets
    /\ storeUp' = FALSE /\ outages' = outages + 1
    /\ UNCHANGED <<backend, degraded, shared, mapVars, slot, spent, rolls>>

RegainStore ==
    /\ ~storeUp /\ storeUp' = TRUE
    /\ UNCHANGED <<backend, degraded, shared, mapVars, slot, spent, outages, rolls>>

\* _recover, on the connection's own event.
RecoverRedis ==
    /\ degraded /\ storeUp /\ degraded' = FALSE
    /\ UNCHANGED <<backend, storeUp, shared, mapVars, slot, spent, outages, rolls>>

-----------------------------------------------------------------------------
RateInit ==
    /\ backend \in Backends
    /\ storeUp = TRUE /\ degraded = FALSE
    /\ shared = [b \in Bucket |-> 0] /\ memory = [b \in {} |-> 0]
    /\ slot = [s \in Slot |-> IdleSlot]
    /\ lastMinute \in BOOLEAN
    /\ spent = 0 /\ feesShed = 0 /\ outages = 0 /\ rolls = 0

RateNext ==
    \/ \E s \in Slot : Arrive(s) \/ Check(s) \/ Work(s) \/ Record(s)
    \/ \E w \in 1..2 : Roll(w)
    \/ ShedByOthers \/ LoseStore \/ RegainStore \/ RecoverRedis

RateSpec == RateInit /\ [][RateNext]_rateVars

-----------------------------------------------------------------------------
SlotCount == Cardinality(Slot)

\* The day's fees as far as one bucket can come to count them.
Ceiling == BucketLimit["fee"] + (SlotCount - 1) * MaxFee

\* Checking first and counting later lets concurrent requests past a limit, by
\* no more than the requests that can be in flight, and as many again for each
\* loss of Redis, when a request checked in one store is counted in the other;
\* windows that end and buckets that are shed between a check and its record add
\* nothing. And the day's sponsored fees come to no more than the ceiling, the
\* dearest transaction for each concurrent request, as much again for each time the
\* memory's map shed the fees it had counted, and a transaction of each slot for
\* each outage that lost records: an outage that lasts adds nothing, since checks
\* fail closed. (Redis: FeeCeiling.)
LimitsKept ==
    /\ \A b \in Bucket :
         LET over   == SlotCount - 1 + (IF backend = "redis" THEN SlotCount * outages ELSE 0)
             excess == over * (IF b = "fee" THEN MaxFee ELSE 1)
         IN shared[b] <= BucketLimit[b] + excess
            /\ InMemory(b) <= BucketLimit[b] + excess
    /\ backend # "redis" =>
         spent <= (feesShed + 1) * Ceiling + outages * SlotCount * MaxFee

\* The operator's guide: "enforces a daily cumulative fee ceiling". With one
\* request at a time and no outage the day's fees stay under it. Refuted: Redis
\* counts one whatever the fee, and the memory's map sheds the fees of an owner when
\* the buckets of others fill it.
FeeCeiling == outages = 0 => spent <= Ceiling
=============================================================================
