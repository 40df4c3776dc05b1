-------------------------------- MODULE Pact --------------------------------
(***************************************************************************)
(* The pact scheme (src/src/pact-scheme.js): a payload transaction is      *)
(* verified against the seller's requirements and sponsored by /settle, or *)
(* a follow-up call is checked and sponsored by /pact/submit. Between its  *)
(* awaits other transactions land. A transaction is described by what the  *)
(* checks tell apart; the sponsored one has the sponsor's signer as its    *)
(* source, so a source-account credential in it acts for the sponsor.      *)
(***************************************************************************)
EXTENDS Naturals, FiniteSets, Sequences

CONSTANTS
    MaxDeviations,  \* bound: ways in which one payload differs from a good one
    MaxPactFee,     \* maxTransactionFeeStroops
    Fees            \* simulation-derived fees to look at

ASSUME PactAssumption == MaxPactFee \in Nat /\ Fees \subseteq Nat

VARIABLES
    route,     \* "settle" or "submit"
    tx,        \* the payload transaction
    fee,       \* minResourceFee + inclusionFeeStroops
    opened,    \* the chain: the pact id is taken
    trusted,   \* the chain: the seller has a trustline
    at,        \* where the handler is
    answer,    \* its answer: a reason, "valid", "success"
    fate       \* the sponsored transaction: "unsent", "sent", "landed", "failed"

pactVars == <<route, tx, fee, opened, trusted, at, answer, fate>>

Good == [ops |-> "invoke", source |-> "buyer", contract |-> "pact", fn |-> "open",
         buyer |-> "buyer", seller |-> "payTo", cap |-> "amount", terms |-> "met",
         token |-> "asset", cred |-> "address", actor |-> "buyer", expiry |-> "near",
         root |-> "open", subs |-> "transfer", signed |-> "all"]
Other == [ops |-> {"none", "many", "upload"}, source |-> {"sponsor"},
          contract |-> {"else"}, fn |-> {"settle", "upgrade"}, buyer |-> {"sponsor"},
          seller |-> {"else", "sponsor"}, cap |-> {"else"}, terms |-> {"hash", "silence"},
          token |-> {"else"}, cred |-> {"source", "none"}, actor |-> {"sponsor", "else"},
          expiry |-> {"far"}, root |-> {"else"}, subs |-> {"none", "else", "nested"},
          signed |-> {"pending", "nobody"}]
Fields == DOMAIN Good

\* The payloads: a good one with up to two fields that are not.
Varied(p) == UNION {{[p EXCEPT ![f] = v] : v \in Other[f] \cup {Good[f]}} : f \in Fields}
Payloads ==
    {t \in UNION {Varied(p) : p \in Varied(Good)} :
       Cardinality({f \in Fields : t[f] # Good[f]}) <= MaxDeviations}

\* A check that fails names its reason; of several, the first one does.
When(failed, reason) == IF failed THEN reason ELSE "ok"
FirstOf(verdicts) ==
    LET bad == {i \in DOMAIN verdicts : verdicts[i] # "ok"}
    IN IF bad = {} THEN "ok" ELSE verdicts[CHOOSE i \in bad : \A j \in bad : i <= j]

-----------------------------------------------------------------------------
\* Mutant: the sources are not looked at.
ParseInvocationAny(t) == When(t.ops # "invoke", "wrong_operation")

\* parseInvocation
ParseInvocation(t) ==
    FirstOf(<<When(t.ops \in {"none", "many"}, "wrong_operation"),
              When(t.source = "sponsor", "unsafe_source"),
              When(t.ops = "upload", "wrong_operation")>>)

\* checkAuthEntries; without entries there is nothing to check.
CheckAuthEntries(t) ==
    FirstOf(<<When(t.cred = "source", "unsupported_credential"),
              When(t.cred = "address" /\ t.actor = "sponsor", "facilitator_in_auth"),
              When(t.cred = "address" /\ t.expiry = "far", "expiration_too_far")>>)

\* checkAuthTree
CheckAuthTree(t) ==
    FirstOf(<<When(t.root # "open", "unexpected_auth"),
              When(t.subs \in {"else", "nested"}, "unexpected_subinvocations")>>)

\* Mutant: takes any one transfer.
CheckEventsAny(t) == "ok"

\* checkEvents: the one transfer of the open has to be of the cap, in the asset.
CheckEvents(t) == When(t.token # "asset", "unexpected_event")

\* The checks of _verify before its first await, and those of submit.
OpenVerdict(t) ==
    FirstOf(<<ParseInvocation(t),
              When(t.contract # "pact", "wrong_contract"),
              When(t.fn # "open", "wrong_function_name"),
              When("sponsor" \in {t.buyer, t.seller}, "facilitator_is_party"),
              When(t.seller # "payTo", "wrong_recipient"),
              When(t.cap # "amount", "wrong_amount"),
              When(t.terms = "hash", "condition_hash_mismatch"),
              When(t.terms = "silence", "wrong_silence")>>)
CallVerdict(t) ==
    FirstOf(<<ParseInvocation(t),
              When(t.contract # "pact", "wrong_contract"),
              When(t.fn # "settle", "function_not_allowed")>>)
StaticVerdict(t) == IF route = "settle" THEN OpenVerdict(t) ELSE CallVerdict(t)

\* gatherAuthEntrySignatureStatus
SignatureVerdict(t) ==
    FirstOf(<<When(route = "settle" /\ (t.signed = "nobody" \/ t.actor # t.buyer),
                   "missing_payer_signature"),
              When(t.signed = "pending", "unexpected_pending_signatures")>>)

\* What follows the simulation, up to the next await.
SimulatedVerdict(t) ==
    FirstOf(<<When(fee > MaxPactFee, "fee_exceeds_maximum"),
              IF route = "settle" THEN CheckEvents(t) ELSE "ok">>)
AuthVerdict(t) ==
    FirstOf(<<When(route = "settle" /\ t.cred = "none", "no_auth_entries"),
              CheckAuthEntries(t),
              IF route = "settle" THEN CheckAuthTree(t) ELSE "ok",
              SignatureVerdict(t)>>)

-----------------------------------------------------------------------------
\* One await of the handler: to the next place, or to the answer.
Goes(verdict, next) ==
    /\ IF verdict = "ok" THEN at' = next /\ UNCHANGED answer
       ELSE at' = "done" /\ answer' = verdict
    /\ UNCHANGED <<route, tx, fee, opened, trusted>>

CheckPayload == at = "start" /\ Goes(StaticVerdict(tx), "simulate") /\ UNCHANGED fate

\* simulateTransaction; an open of a used id fails, in the host or the contract.
Simulate ==
    /\ at = "simulate"
    /\ Goes(IF route = "settle" /\ opened THEN "pact_id_used" ELSE SimulatedVerdict(tx), "ledger")
    /\ UNCHANGED fate

\* getLatestLedger, the auth entries and the signatures.
CheckAuth ==
    /\ at = "ledger"
    /\ Goes(AuthVerdict(tx), IF route = "settle" THEN "trustline" ELSE "send")
    /\ UNCHANGED fate

\* hasTrustline: the balance probe.
CheckTrustline ==
    /\ at = "trustline"
    /\ Goes(IF trusted THEN "ok" ELSE "seller_trustline_missing", "send")
    /\ UNCHANGED fate

\* A simulation that fails otherwise, or an RPC call that throws. A sendTransaction
\* that throws may have reached the network; a poll that throws is only repeated.
CallThrows(reached) ==
    /\ at \in {"simulate", "ledger", "trustline", "send"}
    /\ reached => at = "send"
    /\ Goes("unexpected_error", at)
    /\ fate' = IF reached THEN "sent" ELSE fate

\* submitSponsored: the account is read, the transaction rebuilt, signed and sent;
\* it is refused for a stale sequence number, among others.
Send == at = "send" /\ Goes("ok", "poll") /\ fate' = "sent"
SendRefused == at = "send" /\ Goes("submission_failed", "poll") /\ UNCHANGED fate

\* The ledger applies it, also after the handler has given up; a second open of the
\* pact fails.
Land ==
    /\ fate = "sent"
    /\ route = "settle" => ~opened
    /\ fate' = "landed" /\ opened' = TRUE
    /\ UNCHANGED <<route, tx, fee, trusted, at, answer>>
LandFails ==
    /\ fate = "sent"
    /\ fate' = "failed"
    /\ UNCHANGED <<route, tx, fee, opened, trusted, at, answer>>

\* Mutant: a transaction the RPC knows is taken for landed.
PollSuccessEarly == at = "poll" /\ Goes("success", "poll") /\ UNCHANGED fate

PollSuccess == at = "poll" /\ fate = "landed" /\ Goes("success", "poll") /\ UNCHANGED fate

\* FAILED, or the polls are over.
PollFailed == at = "poll" /\ Goes("transaction_failed", "poll") /\ UNCHANGED fate

\* Somebody else opens the pact; the seller drops its trustline.
ElseOpens ==
    /\ ~opened /\ opened' = TRUE
    /\ UNCHANGED <<route, tx, fee, trusted, at, answer, fate>>
ElseUntrusts ==
    /\ trusted /\ trusted' = FALSE
    /\ UNCHANGED <<route, tx, fee, opened, at, answer, fate>>

PactInit ==
    /\ route \in {"settle", "submit"} /\ tx \in Payloads /\ fee \in Fees
    /\ opened \in BOOLEAN /\ trusted \in BOOLEAN
    /\ at = "start" /\ answer = "none" /\ fate = "unsent"

PactNext ==
    \/ CheckPayload \/ Simulate \/ CheckAuth \/ CheckTrustline \/ Send
    \/ \E reached \in BOOLEAN : CallThrows(reached)
    \/ SendRefused \/ Land \/ LandFails \/ PollSuccess \/ PollFailed \/ ElseOpens \/ ElseUntrusts

PactSpec == PactInit /\ [][PactNext]_pactVars

-----------------------------------------------------------------------------
Sponsored == fate # "unsent"

\* Accounts other than the caller's that the sponsored transaction acts for.
ActsFor(t) == {t.source} \cup (IF t.cred = "none" THEN {}
                               ELSE IF t.cred = "source" THEN {"sponsor"} ELSE {t.actor})

\* "never by the facilitator, which only sponsors the fee": no transaction that is
\* sent, by either route and in whatever way it deviates, acts for the sponsor or
\* costs more than the ceiling. An escrow that /settle opens is the one the seller
\* asked for: the buyer moves the cap of the asset to the configured contract, on
\* the terms, signed by the buyer. And a settlement reported as successful is on
\* the ledger, whoever else opens pacts between its simulation and its broadcast.
PactKept ==
    /\ Sponsored => "sponsor" \notin ActsFor(tx) /\ fee <= MaxPactFee
    /\ (route = "settle" /\ fate = "landed") =>
         /\ tx.contract = "pact" /\ tx.fn = "open" /\ tx.seller = "payTo"
         /\ tx.cap = "amount" /\ tx.terms = "met" /\ tx.token = "asset"
         /\ tx.actor = tx.buyer /\ tx.signed = "all"
    /\ answer = "success" => fate = "landed"
=============================================================================
