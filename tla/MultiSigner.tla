---------------------------- MODULE MultiSigner ----------------------------
(***************************************************************************)
(* Threshold co-signing (src/src/multi-signer.js, submitted by             *)
(* src/src/facilitator.js). An envelope collects signatures from           *)
(* endpoints that answer in any order, late or not at all; it is assembled *)
(* and submitted once enough signers have signed, before its deadline.     *)
(* Replies are matched to an envelope by its id alone. The clock only      *)
(* tells whether an envelope's deadline has passed.                        *)
(***************************************************************************)
EXTENDS Naturals, FiniteSets

CONSTANTS
    CoSigner,      \* identities that may sign
    Endpoint,      \* coSignerEndpoints; an endpoint may answer for any identity
    Tx,            \* transactions an envelope may carry
    SignThreshold,     \* threshold of createEnvelope
    AllowLists,    \* values of requiredSigners; the set CoSigner stands for null
    MaxEnvelopes   \* bound: times the id is created

ASSUME MultiAssumption ==
    SignThreshold \in Nat \ {0} /\ \A a \in AllowLists : SignThreshold <= Cardinality(a)

VARIABLES
    envelope,   \* pending.get(id): [tx, allow, sigs, status, late]
    asked,      \* endpoint -> transactions of its requests under way
    submitted,  \* history: what was handed to submit
    created     \* times the id was created

multiVars == <<envelope, asked, submitted, created>>

NoTx  == "none"
NoEnv == [tx |-> NoTx, allow |-> {}, sigs |-> {}, status |-> "none", late |-> FALSE]

Signers(sigs) == {x[1] : x \in sigs}

-----------------------------------------------------------------------------
\* createEnvelope sets the record of the id, whether or not there was one.
CreateEnvelope(tx, allow) ==
    /\ created < MaxEnvelopes
    /\ created' = created + 1
    /\ envelope' = [tx |-> tx, allow |-> allow, sigs |-> {}, status |-> "pending",
                    late |-> FALSE]
    /\ UNCHANGED <<asked, submitted>>

\* The deadline passes.
DeadlinePasses ==
    /\ envelope.status # "none" /\ ~envelope.late
    /\ envelope' = [envelope EXCEPT !.late = TRUE]
    /\ UNCHANGED <<asked, submitted, created>>

\* assertLive and isComplete: a status of expired stays, a passed deadline sets it.
Live(e) == e.status # "expired" /\ ~e.late
Checked(e) == IF Live(e) THEN e ELSE [e EXCEPT !.status = "expired"]

\* purgeExpired, run by listPending: pending envelopes only.
PurgeExpired ==
    /\ envelope.status = "pending" /\ envelope.late
    /\ envelope' = [envelope EXCEPT !.status = "expired"]
    /\ UNCHANGED <<asked, submitted, created>>

\* requestSignatures: every endpoint is asked at once, for the transaction the
\* envelope has now.
RequestSignatures ==
    /\ envelope.status # "none"
    /\ envelope' = Checked(envelope)
    /\ asked' = [p \in Endpoint |->
                   asked[p] \cup IF Live(envelope) THEN {envelope.tx} ELSE {}]
    /\ UNCHANGED <<submitted, created>>

\* Mutant: signatures are a list, and a signer can sign twice.
SignedTwice(e, s, tx) ==
    LET sigs == e.sigs \cup {<<s, tx>>}
    IN [e EXCEPT !.sigs = sigs,
                 !.status = IF Cardinality(sigs) >= SignThreshold THEN "complete" ELSE @]

\* signatures.set(signer, signature): one per signer, the latest.
Signed(e, s, tx) ==
    LET sigs == {x \in e.sigs : x[1] # s} \cup {<<s, tx>>}
    IN [e EXCEPT !.sigs = sigs,
                 !.status = IF Cardinality(sigs) >= SignThreshold THEN "complete" ELSE @]

Authorized(e, s) == s \in e.allow

\* An endpoint's signature over what it was asked to sign arrives: addSignature
\* on the envelope that has the id now.
AddSignature(p, tx, s) ==
    /\ tx \in asked[p]
    /\ asked' = [asked EXCEPT ![p] = @ \ {tx}]
    /\ envelope' = IF Live(envelope) /\ Authorized(envelope, s)
                   THEN Signed(envelope, s, tx) ELSE Checked(envelope)
    /\ UNCHANGED <<submitted, created>>

\* No answer in time, an HTTP error, or a reply without its fields.
NoSignature(p, tx) ==
    /\ tx \in asked[p]
    /\ asked' = [asked EXCEPT ![p] = @ \ {tx}]
    /\ UNCHANGED <<envelope, submitted, created>>

\* assembleEnvelope returns when the envelope is live and has enough signatures.
Assembled(e) == Live(e) /\ Cardinality(e.sigs) >= SignThreshold

\* submitMultiSignerEnvelope: assemble, then submit.
SubmitEnvelope ==
    /\ envelope.status # "none"
    /\ envelope' = IF Assembled(envelope) THEN [envelope EXCEPT !.status = "complete"]
                   ELSE Checked(envelope)
    /\ submitted' = IF Assembled(envelope)
                    THEN submitted \cup {[tx |-> envelope.tx, allow |-> envelope.allow,
                                          sigs |-> envelope.sigs, late |-> envelope.late]}
                    ELSE submitted
    /\ UNCHANGED <<asked, created>>

MultiInit ==
    /\ envelope = NoEnv /\ asked = [p \in Endpoint |-> {}]
    /\ submitted = {} /\ created = 0

MultiNext ==
    \/ \E tx \in Tx, allow \in AllowLists : CreateEnvelope(tx, allow)
    \/ DeadlinePasses \/ PurgeExpired \/ RequestSignatures \/ SubmitEnvelope
    \/ \E p \in Endpoint, tx \in Tx :
          NoSignature(p, tx) \/ \E s \in CoSigner : AddSignature(p, tx, s)

MultiSpec == MultiInit /\ [][MultiNext]_multiVars

-----------------------------------------------------------------------------
\* "a partially-signed envelope can never reach the network": whatever was
\* submitted carries signatures of at least SignThreshold different signers, all of
\* them on the envelope's list, and was submitted before its deadline.
SubmittedIsSigned ==
    \A e \in submitted :
        /\ Cardinality(Signers(e.sigs)) >= SignThreshold
        /\ Signers(e.sigs) \subseteq e.allow
        /\ ~e.late

\* The id is an "idempotency key": what is submitted under it is signed by each
\* of its signers. Refuted: a late reply is taken for the envelope that has the id
\* now.
SignaturesCoverTx ==
    \A e \in submitted : \A x \in e.sigs : x[2] = e.tx
=============================================================================
