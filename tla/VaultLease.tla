---------------------------- MODULE VaultLease ----------------------------
(***************************************************************************)
(* Vault-issued database credentials: the AppRole client                   *)
(* (src/src/vault/client.js), the lease cache that refreshes them          *)
(* (src/src/vault/creds.js) and the pool that takes them for its next      *)
(* connections (src/src/vault/database.js). Time is counted in ticks; the  *)
(* poll timer fires every PollEvery ticks and a fetch takes less than      *)
(* Latency ticks. Credentials are identified by the tick they expire at.   *)
(***************************************************************************)
EXTENDS Naturals, FiniteSetsExt

CONSTANTS
    Lease,        \* leaseDurationMs, in ticks
    PollEvery,    \* pollIntervalMs
    MinWindow,    \* the 2 s floor of refreshWindowMs
    MaxWindow,    \* its 60 s cap
    TokenLease,   \* lease of the AppRole token
    Latency,      \* bound: ticks a fetch may take, and one more
    Horizon,      \* bound: ticks
    MaxOutage     \* bound: requests to Vault that fail

ASSUME VaultAssumption ==
    /\ {Lease, PollEvery, MinWindow, MaxWindow, Latency} \subseteq Nat \ {0}
    /\ TokenLease \in Nat /\ MinWindow <= MaxWindow

VARIABLES
    tick,
    lease,      \* cached: the tick it expires at, NoLease for null
    poolLease,  \* credentials of the pool's options, NoLease when there is no pool
    boot,       \* "waiting", "up", "degraded", "stopped"
    fetches,    \* fetches under way: the tick each started at
    polled,     \* the timer fired in this tick
    token,      \* tick until which the client's token counts as valid
    revoked,    \* Vault denies the token although it is not over
    outage, failedAt

vaultVars == <<tick, lease, poolLease, boot, fetches, polled, token, revoked,
               outage, failedAt>>

NoLease == 0

-----------------------------------------------------------------------------
\* refreshWindowMs: 30% of the lease, between the floor and the cap.
RefreshWindow == Max({MinWindow, Min({(Lease * 3) \div 10, MaxWindow})})

\* Mutant: credentials are refreshed once they are over.
MustFetchOver == lease = NoLease \/ ~(lease > tick)

\* ensureFresh asks Vault when there is nothing cached or the window is open.
MustFetch == lease = NoLease \/ ~(lease > tick + RefreshWindow)

\* ensureToken, then the read; a denied read logs in once more. All of them
\* requests to Vault: one fetch fails when one of its last ones does.
FetchReturns(t) ==
    /\ t \in fetches
    /\ fetches' = fetches \ {t}
    /\ token' = IF token > tick /\ ~revoked THEN token ELSE tick + TokenLease
    /\ revoked' = FALSE
    /\ lease' = tick + Lease
    /\ poolLease' = IF boot = "degraded" THEN poolLease ELSE tick + Lease
    /\ boot' = IF boot = "waiting" THEN "up" ELSE boot
    /\ UNCHANGED <<tick, polled, outage, failedAt>>

\* It throws: the cached lease is used on, and without one boot goes on degraded.
FetchFails(t) ==
    /\ t \in fetches /\ outage < MaxOutage
    /\ outage' = outage + 1 /\ failedAt' = tick
    /\ fetches' = fetches \ {t}
    /\ token' = IF revoked THEN 0 ELSE token
    /\ revoked' = FALSE
    /\ boot' = IF boot = "waiting" THEN "degraded" ELSE boot
    /\ UNCHANGED <<tick, lease, poolLease, polled>>

\* createVaultManagedDatabase: the first fetch, awaited with a timeout.
BootTimeout ==
    /\ boot = "waiting" /\ outage < MaxOutage
    /\ outage' = outage + 1 /\ failedAt' = tick
    /\ boot' = "degraded"
    /\ UNCHANGED <<tick, lease, poolLease, fetches, polled, token, revoked>>

\* The timer of start. It does not wait for a fetch it began before.
Poll ==
    /\ boot = "up" /\ tick % PollEvery = 0 /\ ~polled
    /\ polled' = TRUE
    /\ fetches' = IF MustFetch THEN fetches \cup {tick} ELSE fetches
    /\ UNCHANGED <<tick, lease, poolLease, boot, token, revoked, outage, failedAt>>

\* Vault drops the token before its lease is over.
TokenRevoked ==
    /\ token > tick /\ ~revoked
    /\ revoked' = TRUE
    /\ UNCHANGED <<tick, lease, poolLease, boot, fetches, polled, token, outage, failedAt>>

\* stop: the timer is cleared and the pool ends.
VaultStop ==
    /\ boot = "up"
    /\ boot' = "stopped" /\ poolLease' = NoLease
    /\ UNCHANGED <<tick, lease, fetches, polled, token, revoked, outage, failedAt>>

\* Time passes once the timer had its turn and no fetch is overdue.
Tick ==
    /\ tick < Horizon
    /\ boot = "up" /\ tick % PollEvery = 0 => polled
    /\ \A t \in fetches : tick < t + Latency - 1
    /\ tick' = tick + 1 /\ polled' = FALSE
    /\ UNCHANGED <<lease, poolLease, boot, fetches, token, revoked, outage, failedAt>>

VaultInit ==
    /\ tick = 1 /\ lease = NoLease /\ poolLease = NoLease
    /\ boot = "waiting" /\ fetches = {1} /\ polled = FALSE
    /\ token = 0 /\ revoked = FALSE /\ outage = 0 /\ failedAt = 0

VaultNext ==
    \/ \E t \in fetches : FetchReturns(t) \/ FetchFails(t)
    \/ BootTimeout \/ Poll \/ TokenRevoked \/ VaultStop \/ Tick

VaultSpec == VaultInit /\ [][VaultNext]_vaultVars

-----------------------------------------------------------------------------
\* A pool that came up always has credentials that are not over, unless a fetch
\* failed within the last lease: a lease and its refresh window leave room for a
\* poll and for the fetch it starts.
PoolCredentialsValid ==
    (boot = "up" /\ PollEvery + Latency <= RefreshWindow /\ PollEvery + Latency <= Lease
       /\ (failedAt = 0 \/ tick > failedAt + Lease)) => poolLease > tick
=============================================================================
