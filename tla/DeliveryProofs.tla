--------------------------- MODULE DeliveryProofs ---------------------------
(***************************************************************************)
(* Theorems about what leaves a process: the dead letters, the lock of a   *)
(* payment, the co-signed envelopes, the key generations, the webhooks and *)
(* the pool's credentials, for any number of masters, calls, signers,      *)
(* rotations, messages and faults.                                         *)
(***************************************************************************)
EXTENDS DeadLetter, DistributedLock, MultiSigner, KeyRing, Webhook, VaultLease,
        FiniteSetTheorems, FunctionTheorems, TLAPS

-----------------------------------------------------------------------------
(* The lock: an unexposed holder has a majority of the keys where it reaches *)
(* them, and two majorities would share a master, whose key names one call.  *)

LockTyped ==
    /\ call \in [Caller -> {"idle", "acquire", "redlock", "memory", "done", "refused"}]
    /\ granted \in [Master -> Caller \cup {Free}]
    /\ reach \in [LockPod -> SUBSET Master]
    /\ aborted \subseteq Caller /\ \A c \in aborted : call[c] \in {"redlock", "done"}

\* The keys a caller holds on masters its pod reaches.
KeysReached(c) == KeysOf(c) \intersect reach[PodOf[c]]

MajorityHeld ==
    \A c \in Caller : call[c] = "redlock" /\ c \notin exposed =>
        Quorum(KeysReached(c)) /\ c \notin aborted

LockInv == LockTyped /\ MajorityHeld

\* A set of masters with a majority in it is one itself.
LEMMA QuorumGrows ==
    ASSUME NEW S, NEW T, S \subseteq T, T \subseteq Master, Quorum(S)
    PROVE  Quorum(T)
<1>1. IsFiniteSet(T)
  BY LockAssumption, FS_Subset
<1>2. IsFiniteSet(S) /\ Cardinality(S) <= Cardinality(T)
  BY <1>1, FS_Subset
<1>3. Cardinality(S) \in Nat /\ Cardinality(T) \in Nat /\ Cardinality(Master) \in Nat
  BY <1>1, <1>2, LockAssumption, FS_CardinalityType
<1> QED BY <1>2, <1>3 DEF Quorum

\* Two majorities of the masters meet.
LEMMA QuorumsMeet ==
    ASSUME NEW S, NEW T, S \subseteq Master, T \subseteq Master, Quorum(S), Quorum(T)
    PROVE  S \cap T # {}
<1>1. IsFiniteSet(S) /\ IsFiniteSet(T)
  BY LockAssumption, FS_Subset
<1>2. Cardinality(S) \in Nat /\ Cardinality(T) \in Nat /\ Cardinality(Master) \in Nat
  BY <1>1, LockAssumption, FS_CardinalityType
<1>3. Cardinality(S) + Cardinality(T) > Cardinality(Master)
  BY <1>2 DEF Quorum
<1> QED BY <1>3, LockAssumption, FS_MajoritiesIntersect

LEMMA LockInitial == LockInit => LockInv
  BY DEF LockInit, LockInv, LockTyped, MajorityHeld

\* A step that takes no key from another unexposed holder, and leaves its pod's
\* reach, keeps that holder's majority.
LEMMA OthersKeep ==
    ASSUME LockInv, NEW d \in Caller, call'[d] = "redlock" => call[d] = "redlock",
           d \notin exposed' => d \notin exposed,
           d \in aborted' => d \in aborted,
           reach'[PodOf[d]] = reach[PodOf[d]],
           \A n \in KeysOf(d) : d \notin exposed' => granted'[n] = d,
           reach \in [LockPod -> SUBSET Master]
    PROVE  call'[d] = "redlock" /\ d \notin exposed' =>
               Quorum(KeysReached(d))' /\ d \notin aborted'
<1>1. ASSUME call'[d] = "redlock", d \notin exposed'
      PROVE  Quorum(KeysReached(d)') /\ d \notin aborted'
  <2>1. Quorum(KeysReached(d)) /\ d \notin aborted
    BY <1>1 DEF LockInv, MajorityHeld
  <2>2. KeysReached(d) \subseteq KeysReached(d)' /\ KeysReached(d)' \subseteq Master
    BY <1>1 DEF KeysReached, KeysOf
  <2> QED BY <2>1, <2>2, QuorumGrows
<1>2. Quorum(KeysReached(d)') <=> Quorum(KeysReached(d))'
  BY DEF Quorum
<1> QED BY <1>1, <1>2

\* The acquired keys were free, so that they are taken from nobody.
LEMMA AcquireKeeps ==
    ASSUME LockInv, NEW c \in Caller, RedlockAcquire(c)
    PROVE  LockInv'
<1> USE LockAssumption DEF RedlockAcquire
<1>1. LockTyped'
  BY DEF LockInv, LockTyped
<1>2. ASSUME NEW d \in Caller, d # c, call'[d] = "redlock", d \notin exposed'
      PROVE  Quorum(KeysReached(d))' /\ d \notin aborted'
  <2>1. call[d] = "redlock"
    BY <1>2 DEF LockInv, LockTyped
  <2>2. \A n \in KeysOf(d) : granted'[n] = d
    BY <1>2 DEF KeysOf, FreeFor, Free
  <2> QED BY <1>2, <2>1, <2>2, OthersKeep DEF LockInv, LockTyped
<1>3. ASSUME c \notin exposed'
      PROVE  Quorum(KeysReached(c))' /\ c \notin aborted'
  <2>1. FreeFor(c) \subseteq KeysReached(c)' /\ KeysReached(c)' \subseteq Master
    BY DEF LockInv, LockTyped, KeysReached, KeysOf, FreeFor
  <2>2. Quorum(KeysReached(c)')
    BY <2>1, QuorumGrows
  <2>3. c \notin aborted'
    BY DEF LockInv, LockTyped
  <2> QED BY <2>2, <2>3 DEF Quorum
<1> QED BY <1>1, <1>2, <1>3 DEF LockInv, MajorityHeld

\* Steps that let no call begin to hold: who still holds keeps its keys.
LEMMA CallKeeps ==
    ASSUME LockInv, NEW c \in Caller,
           WithLock(c) \/ AcquireTimeout(c) \/ ExtendFails(c) \/ EndWork(c)
    PROVE  LockInv'
<1> USE LockAssumption
<1>1. LockTyped'
  <2>1. CASE WithLock(c) \/ AcquireTimeout(c)
    BY <2>1 DEF LockInv, LockTyped, WithLock, AcquireTimeout
  <2>2. CASE ExtendFails(c)
    BY <2>2 DEF LockInv, LockTyped, ExtendFails
  <2>3. CASE EndWork(c)
    BY <2>3 DEF LockInv, LockTyped, EndWork, Released, Free
  <2> QED BY <2>1, <2>2, <2>3
<1>2. ASSUME NEW d \in Caller, call'[d] = "redlock", d \notin exposed'
      PROVE  Quorum(KeysReached(d))' /\ d \notin aborted'
  <2>1. call[d] = "redlock" /\ exposed' = exposed /\ reach' = reach
    BY <1>2 DEF LockInv, LockTyped, WithLock, AcquireTimeout, ExtendFails, EndWork
  <2>2. \A n \in KeysOf(d) : granted'[n] = d
    BY <1>2 DEF LockInv, LockTyped, WithLock, AcquireTimeout, ExtendFails, EndWork, KeysOf,
                Released, Holds
  <2>3. d \in aborted' => d \in aborted
    <3>1. CASE ExtendFails(c)
      BY <1>2, <2>1, <3>1 DEF LockInv, MajorityHeld, KeysReached, ExtendFails
    <3> QED BY <3>1 DEF WithLock, AcquireTimeout, EndWork
  <2> QED BY <1>2, <2>1, <2>2, <2>3, OthersKeep DEF LockInv, LockTyped
<1> QED BY <1>1, <1>2 DEF LockInv, MajorityHeld

\* A key runs out only where its holder cannot extend it, or has given up.
LEMMA ExpiryKeeps ==
    ASSUME LockInv, NEW n \in Master, KeyExpires(n)
    PROVE  LockInv'
<1> USE LockAssumption DEF KeyExpires
<1>1. LockTyped'
  BY DEF LockInv, LockTyped
<1>2. ASSUME NEW d \in Caller, call'[d] = "redlock", d \notin exposed'
      PROVE  Quorum(KeysReached(d))' /\ d \notin aborted'
  <2>1. Quorum(KeysReached(d)) /\ d \notin aborted
    BY <1>2 DEF LockInv, MajorityHeld
  <2>2. KeysReached(d)' = KeysReached(d)
    BY <1>2, <2>1 DEF LockInv, LockTyped, KeysReached, KeysOf, Free
  <2> QED BY <2>1, <2>2 DEF Quorum
<1> QED BY <1>1, <1>2 DEF LockInv, MajorityHeld

\* Troubles: who is cut off or paused is exposed from then on.
LEMMA TroubleKeeps ==
    ASSUME LockInv, NEW p \in LockPod,
           PauseProcess(p) \/ LockCrash(p) \/ \E view \in Views : Network(p, view)
    PROVE  LockInv'
<1> USE LockAssumption
<1>1. CASE PauseProcess(p)
  <2>1. LockTyped'
    BY <1>1 DEF LockInv, LockTyped, PauseProcess
  <2>2. ASSUME NEW d \in Caller, call'[d] = "redlock", d \notin exposed'
        PROVE  Quorum(KeysReached(d))' /\ d \notin aborted'
    <3>1. \A n \in KeysOf(d) : granted'[n] = d
      BY <1>1, <2>2 DEF PauseProcess, KeysOf, OfPod
    <3> QED BY <1>1, <2>2, <3>1, OthersKeep DEF LockInv, LockTyped, PauseProcess
  <2> QED BY <2>1, <2>2 DEF LockInv, MajorityHeld
<1>2. CASE LockCrash(p)
  <2>1. LockTyped'
    BY <1>2 DEF LockInv, LockTyped, LockCrash
  <2>2. ASSUME NEW d \in Caller, call'[d] = "redlock", d \notin exposed'
        PROVE  Quorum(KeysReached(d))' /\ d \notin aborted'
    BY <1>2, <2>2, OthersKeep DEF LockInv, LockTyped, LockCrash, KeysOf
  <2> QED BY <2>1, <2>2 DEF LockInv, MajorityHeld
<1>3. CASE \E view \in Views : Network(p, view)
  <2>1. PICK view \in Views : Network(p, view)
    BY <1>3
  <2>2. LockTyped'
    BY <2>1 DEF LockInv, LockTyped, Network
  <2>3. ASSUME NEW d \in Caller, call'[d] = "redlock", d \notin exposed'
        PROVE  Quorum(KeysReached(d))' /\ d \notin aborted'
    <3>1. CASE PodOf[d] = p
      <4>1. Quorum(KeysOf(d) \intersect view)
        BY <2>1, <2>3, <3>1 DEF Network, OfPod
      <4>2. KeysReached(d)' = KeysOf(d) \intersect view
        BY <2>1, <3>1 DEF LockInv, LockTyped, Network, KeysReached, KeysOf
      <4>3. d \notin aborted'
        BY <2>1, <2>3 DEF LockInv, MajorityHeld, Network
      <4> QED BY <4>1, <4>2, <4>3 DEF Quorum
    <3>2. CASE PodOf[d] # p
      BY <2>1, <2>3, <3>2, OthersKeep DEF LockInv, LockTyped, Network, KeysOf
    <3> QED BY <3>1, <3>2
  <2> QED BY <2>2, <2>3 DEF LockInv, MajorityHeld
<1> QED BY <1>1, <1>2, <1>3

\* Two operations of one payment hold the lock together only when one of them was
\* cut off from its masters or paused, or is in a degraded pod's mutex: for any
\* number of masters, pods, calls and troubles (withLock, withRedlock, the mutex).
THEOREM LockExclusiveTheorem == LockSpec => [](RedlockExclusive /\ MutexExclusive)
<1>1. LockInit => LockInv
  BY LockInitial
<1>2. LockInv /\ [LockNext]_lockVars => LockInv'
  <2> SUFFICES ASSUME LockInv, [LockNext]_lockVars PROVE LockInv'
    OBVIOUS
  <2>1. CASE UNCHANGED lockVars
    BY <2>1 DEF lockVars, LockInv, LockTyped, MajorityHeld, KeysReached, KeysOf, Quorum
  <2>2. CASE LockNext
    BY <2>2, AcquireKeeps, CallKeeps, ExpiryKeeps, TroubleKeeps DEF LockNext
  <2> QED BY <2>1, <2>2
<1>3. LockInv => RedlockExclusive /\ MutexExclusive
  <2> SUFFICES ASSUME LockInv, NEW c \in Caller, NEW d \in Caller, c # d, Holds(c), Holds(d)
               PROVE  /\ call[c] = "redlock" /\ call[d] = "redlock" => {c, d} \intersect exposed # {}
                      /\ call[c] = "memory" /\ call[d] = "memory" => PodOf[c] # PodOf[d]
    BY DEF RedlockExclusive, MutexExclusive
  <2>1. ASSUME call[c] = "redlock", call[d] = "redlock", c \notin exposed, d \notin exposed
        PROVE  FALSE
    <3>1. Quorum(KeysReached(c)) /\ Quorum(KeysReached(d))
      BY <2>1 DEF LockInv, MajorityHeld
    <3>2. KeysReached(c) \subseteq Master /\ KeysReached(d) \subseteq Master
      BY DEF KeysReached, KeysOf
    <3>3. KeysReached(c) \cap KeysReached(d) # {}
      BY <3>1, <3>2, QuorumsMeet
    <3> QED BY <3>3 DEF KeysReached, KeysOf
  <2>2. call[c] = "memory" /\ call[d] = "memory" => PodOf[c] # PodOf[d]
    BY DEF Holds
  <2> QED BY <2>1, <2>2
<1> QED BY <1>1, <1>2, <1>3, PTL DEF LockSpec

-----------------------------------------------------------------------------
(* The envelopes: signatures are one per signer, so that counting signatures *)
(* counts signers.                                                           *)

\* A finite set of signatures, one per signer, by signers on a list.
OnePerSigner(sigs, allow) ==
    /\ IsFiniteSet(sigs) /\ sigs \subseteq CoSigner \X Tx
    /\ \A x, y \in sigs : x[1] = y[1] => x = y
    /\ Signers(sigs) \subseteq allow

EnvelopeType ==
    [tx : Tx \cup {NoTx}, allow : AllowLists \cup {{}}, sigs : SUBSET (CoSigner \X Tx),
     status : {"none", "pending", "complete", "expired"}, late : BOOLEAN]

MultiInv ==
    /\ envelope \in EnvelopeType
    /\ OnePerSigner(envelope.sigs, envelope.allow)
    /\ SubmittedIsSigned

\* As many signers as signatures.
LEMMA SignersCounted ==
    ASSUME NEW sigs, NEW allow, OnePerSigner(sigs, allow)
    PROVE  Cardinality(Signers(sigs)) = Cardinality(sigs)
<1> DEFINE f == [x \in sigs |-> x[1]]
<1>1. f \in Surjection(sigs, Signers(sigs))
  BY DEF Surjection, Signers
<1>2. f \in Injection(sigs, Signers(sigs))
  BY <1>1 DEF OnePerSigner, Injection, IsInjective, Surjection
<1> QED BY <1>1, <1>2, FS_Surjection DEF OnePerSigner

\* A new signature replaces the signer's older one.
LEMMA SignedOncePerSigner ==
    ASSUME NEW e, NEW s \in CoSigner, NEW tx \in Tx, OnePerSigner(e.sigs, e.allow),
           Authorized(e, s)
    PROVE  OnePerSigner({x \in e.sigs : x[1] # s} \cup {<<s, tx>>}, e.allow)
<1> DEFINE rest == {x \in e.sigs : x[1] # s}
           new == rest \cup {<<s, tx>>}
<1>1. IsFiniteSet(rest)
  BY FS_Subset DEF OnePerSigner
<1>2. IsFiniteSet(new)
  BY <1>1, FS_AddElement
<1>3. new \subseteq CoSigner \X Tx /\ \A x, y \in new : x[1] = y[1] => x = y
  BY DEF OnePerSigner
<1>4. Signers(new) \subseteq e.allow
  BY DEF OnePerSigner, Signers, Authorized
<1> QED BY <1>2, <1>3, <1>4 DEF OnePerSigner

LEMMA SignatureKeeps ==
    ASSUME MultiInv, NEW p \in Endpoint, NEW tx \in Tx, NEW s \in CoSigner,
           AddSignature(p, tx, s)
    PROVE  MultiInv'
<1>1. SubmittedIsSigned'
  BY DEF MultiInv, SubmittedIsSigned, AddSignature
<1>2. CASE Live(envelope) /\ Authorized(envelope, s)
  <2>1. OnePerSigner({x \in envelope.sigs : x[1] # s} \cup {<<s, tx>>}, envelope.allow)
    BY <1>2, SignedOncePerSigner DEF MultiInv
  <2>2. /\ envelope'.sigs = {x \in envelope.sigs : x[1] # s} \cup {<<s, tx>>}
        /\ envelope'.allow = envelope.allow
    BY <1>2 DEF MultiInv, AddSignature, Signed, EnvelopeType
  <2>3. envelope' \in EnvelopeType
    BY <1>2, <2>1 DEF MultiInv, AddSignature, Signed, EnvelopeType, OnePerSigner
  <2>4. OnePerSigner(envelope.sigs, envelope.allow)'
    BY <2>1, <2>2 DEF OnePerSigner, Signers
  <2> QED BY <1>1, <2>3, <2>4 DEF MultiInv
<1>3. CASE ~(Live(envelope) /\ Authorized(envelope, s))
  <2>1. envelope' = Checked(envelope)
    BY <1>3 DEF AddSignature
  <2> QED BY <1>1, <2>1 DEF MultiInv, Checked, OnePerSigner, Signers, EnvelopeType
<1> QED BY <1>2, <1>3

LEMMA SubmitKeeps ==
    ASSUME MultiInv, SubmitEnvelope
    PROVE  MultiInv'
<1>1. /\ envelope' \in EnvelopeType
      /\ envelope'.sigs = envelope.sigs /\ envelope'.allow = envelope.allow
  BY DEF MultiInv, SubmitEnvelope, Checked, EnvelopeType
<1>2. OnePerSigner(envelope.sigs, envelope.allow)'
  BY <1>1 DEF MultiInv, OnePerSigner, Signers
<1>3. ASSUME Assembled(envelope)
      PROVE  /\ Cardinality(Signers(envelope.sigs)) >= SignThreshold
             /\ Signers(envelope.sigs) \subseteq envelope.allow
             /\ ~envelope.late
  <2>1. Cardinality(Signers(envelope.sigs)) = Cardinality(envelope.sigs)
    BY SignersCounted DEF MultiInv
  <2>2. Cardinality(envelope.sigs) >= SignThreshold /\ ~envelope.late
    BY <1>3 DEF Assembled, Live
  <2> QED BY <2>1, <2>2 DEF MultiInv, OnePerSigner
<1>4. SubmittedIsSigned'
  <2> SUFFICES ASSUME NEW e \in submitted'
               PROVE  /\ Cardinality(Signers(e.sigs)) >= SignThreshold
                      /\ Signers(e.sigs) \subseteq e.allow
                      /\ ~e.late
    BY DEF SubmittedIsSigned
  <2>1. CASE e \in submitted
    BY <2>1 DEF MultiInv, SubmittedIsSigned
  <2>2. CASE e \notin submitted
    <3>1. /\ Assembled(envelope) /\ e.sigs = envelope.sigs
          /\ e.allow = envelope.allow /\ e.late = envelope.late
      BY <2>2 DEF SubmitEnvelope
    <3> QED BY <1>3, <3>1
  <2> QED BY <2>1, <2>2
<1> QED BY <1>1, <1>2, <1>4 DEF MultiInv

\* assembleEnvelope refuses a partially signed envelope: whatever is submitted was
\* signed by the threshold of different listed signers before its deadline, for any
\* signers, endpoints and lists, with replies late, repeated and out of order.
THEOREM SubmittedIsSignedTheorem == MultiSpec => []SubmittedIsSigned
<1>1. MultiInit => MultiInv
  BY FS_EmptySet DEF MultiInit, MultiInv, NoEnv, EnvelopeType, OnePerSigner, Signers, SubmittedIsSigned
<1>2. MultiInv /\ [MultiNext]_multiVars => MultiInv'
  <2> SUFFICES ASSUME MultiInv, [MultiNext]_multiVars PROVE MultiInv'
    OBVIOUS
  <2>1. CASE UNCHANGED multiVars
    BY <2>1 DEF multiVars, MultiInv, OnePerSigner, Signers, SubmittedIsSigned
  <2>2. ASSUME NEW tx \in Tx, NEW allow \in AllowLists, CreateEnvelope(tx, allow)
        PROVE  MultiInv'
    BY <2>2, FS_EmptySet DEF CreateEnvelope, MultiInv, EnvelopeType, OnePerSigner, Signers, SubmittedIsSigned
  <2>3. CASE DeadlinePasses \/ PurgeExpired
    BY <2>3 DEF DeadlinePasses, PurgeExpired, MultiInv, EnvelopeType, OnePerSigner,
                Signers, SubmittedIsSigned
  <2>4. CASE RequestSignatures
    BY <2>4 DEF RequestSignatures, Checked, MultiInv, EnvelopeType, OnePerSigner, Signers, SubmittedIsSigned
  <2>5. ASSUME NEW p \in Endpoint, NEW tx \in Tx, NoSignature(p, tx)
        PROVE  MultiInv'
    BY <2>5 DEF NoSignature, MultiInv, OnePerSigner, Signers, SubmittedIsSigned
  <2> QED BY <2>1, <2>2, <2>3, <2>4, <2>5, SignatureKeeps, SubmitKeeps DEF MultiNext
<1>3. MultiInv => SubmittedIsSigned
  BY DEF MultiInv
<1> QED BY <1>1, <1>2, <1>3, PTL DEF MultiSpec

-----------------------------------------------------------------------------
(* The key generations: every generation keeps the lease of the snapshot that *)
(* its scheme was built from, and the signing one is the newest.              *)

Generation == [keys : Payloads, leases : Nat, retired : {"no", "grace", "over"}]

RingInv ==
    /\ DOMAIN gens \subseteq Nat /\ gens \in [DOMAIN gens -> Generation]
    /\ signing \in DOMAIN gens /\ \A g \in DOMAIN gens : g <= signing
    /\ \A g \in DOMAIN gens : gens[g].leases > 0
    /\ source \in Payloads
    /\ using \in [Settler -> Nat]
    /\ \A s \in Settler : using[s] # 0 => using[s] \in DOMAIN gens

LEMMA SigningIsCurrent ==
    ASSUME RingInv
    PROVE  Current = signing
<1>1. \A g \in DOMAIN gens : (\A h \in DOMAIN gens : h <= g) => g = signing
  BY DEF RingInv
<1> QED BY <1>1 DEF RingInv, Current

\* A generation with a lease is not purged.
LEMMA LeasedNotPurged ==
    ASSUME NEW D, NEW gs \in [D -> Generation], NEW now,
           \A g \in D : g = now \/ gs[g].leases > 0
    PROVE  Purged(gs, now) = gs
<1>1. {g \in DOMAIN gs : g = now \/ gs[g].retired # "over" \/ gs[g].leases > 0} = D
  OBVIOUS
<1> QED BY <1>1 DEF Purged

LEMMA InstallKeeps ==
    ASSUME RingInv, RefreshReply
    PROVE  RingInv'
<1>1. CASE UNCHANGED gens /\ UNCHANGED signing
  BY <1>1 DEF RingInv, RefreshReply
<1>2. CASE gens' = Installed(source) /\ signing' = Current + 1
  <2> DEFINE g == signing + 1
             D == DOMAIN gens \cup {g}
             old == [h \in DOMAIN gens |->
                      [gens[h] EXCEPT !.retired = IF @ = "no" THEN "grace" ELSE @]]
             gs == [h \in D |->
                     IF h = g THEN [keys |-> source, leases |-> 0, retired |-> "no"]
                     ELSE old[h]]
  <2>1. g \in Nat /\ g \notin DOMAIN gens /\ \A h \in DOMAIN gens : h < g
    BY DEF RingInv
  <2>2. \A h \in DOMAIN gens : old[h] \in Generation /\ old[h].leases > 0
    BY DEF RingInv, Generation
  <2>3. /\ gs \in [D -> Generation] /\ gs[g].leases = 0
        /\ \A h \in DOMAIN gens : gs[h].leases > 0
    <3>1. [keys |-> source, leases |-> 0, retired |-> "no"] \in Generation
      BY DEF RingInv, Generation
    <3> HIDE DEF old
    <3> QED BY <2>1, <2>2, <3>1
  <2>4. gens' = Snapshot(Purged(gs, g), g) /\ signing' = g
    BY <1>2, SigningIsCurrent DEF Installed
  <2> HIDE DEF gs, old
  <2>5. Purged(gs, g) = gs
    BY <2>3, LeasedNotPurged
  <2>6. gens' = [gs EXCEPT ![g].leases = @ + 1]
    BY <2>4, <2>5 DEF Snapshot
  <2>7. gens' \in [D -> Generation] /\ \A h \in D : gens'[h].leases > 0
    BY <2>3, <2>6 DEF Generation
  <2>8. using' = using /\ source' = source
    BY DEF RefreshReply
  <2> QED BY <2>1, <2>4, <2>7, <2>8 DEF RingInv
<1> QED BY <1>1, <1>2 DEF RefreshReply

LEMMA GraceKeeps ==
    ASSUME RingInv, NEW g, GraceOver(g)
    PROVE  RingInv'
<1> DEFINE gs == [gens EXCEPT ![g].retired = "over"]
<1>1. gs \in [DOMAIN gens -> Generation] /\ \A h \in DOMAIN gens : gs[h].leases > 0
  BY DEF RingInv, GraceOver, Generation
<1>2. gens' = Purged(gs, Current) /\ signing' = signing /\ using' = using /\ source' = source
  BY DEF GraceOver
<1> HIDE DEF gs
<1>3. Purged(gs, Current) = gs
  BY <1>1, LeasedNotPurged
<1> QED BY <1>1, <1>2, <1>3 DEF RingInv

\* _purgeRetired never takes the generation that the registered scheme or a
\* settlement under way signs with, for any sources, rotations and settlements.
THEOREM GenerationsKeptTheorem == RingSpec => [](SchemeKept /\ SettlersKept)
<1>1. RingInit => RingInv
  <2> SUFFICES ASSUME RingInit PROVE RingInv
    OBVIOUS
  <2> DEFINE one == [g \in {1} |-> [keys |-> source, leases |-> 0, retired |-> "no"]]
  <2>1. one \in [{1} -> Generation] /\ one[1].leases = 0
    BY DEF RingInit, Generation
  <2>2. gens = Snapshot(one, 1)
    BY DEF RingInit
  <2> HIDE DEF one
  <2>3. gens \in [{1} -> Generation] /\ gens[1].leases > 0
    BY <2>1, <2>2 DEF Snapshot, Generation
  <2> QED BY <2>3 DEF RingInit, RingInv
<1>2. RingInv /\ [RingNext]_ringVars => RingInv'
  <2> SUFFICES ASSUME RingInv, [RingNext]_ringVars PROVE RingInv'
    OBVIOUS
  <2>1. CASE UNCHANGED ringVars \/ RefreshTick \/ RefreshFails \/ \E keys \in Payloads : RotateKeys(keys)
    BY <2>1 DEF ringVars, RefreshTick, RefreshFails, RotateKeys, RingInv
  <2>2. CASE \E s \in Settler : SettleBegins(s) \/ SettleEnds(s)
    BY <2>2 DEF SettleBegins, SettleEnds, RingInv
  <2> QED BY <2>1, <2>2, InstallKeeps, GraceKeeps DEF RingNext
<1>3. RingInv => SchemeKept /\ SettlersKept
  BY DEF RingInv, SchemeKept, SettlersKept
<1> QED BY <1>1, <1>2, <1>3, PTL DEF RingSpec

-----------------------------------------------------------------------------
(* The webhook dispatcher: a job is done only by a step that files its message *)
(* under an end or is excused, only a message that was tried comes to be a     *)
(* dead letter, and the only pool is the one of the cached identity.           *)

Stage == {"new", "broker", "queued", "auth", "resolve", "send", "letter", "done"}
Job   == [at : Stage, path : {"enqueue", "publish", "consumer"}, tries : Nat, pool : Nat]

HookTyped ==
    /\ job \in [Msg -> Job] /\ topic \in Seq(Msg)
    /\ group \in [known : BOOLEAN, offset : Nat]
    /\ cached \in [gen : Nat, fresh : BOOLEAN] /\ vaultGen \in Nat
    /\ hookFaults \in Nat

\* What is done ended somewhere or is excused: the first part of HookKept.
DoneEnded   == \A m \in Msg : job[m].at = "done" => Found(m) \/ Excused(m)
LetterTried == \A m \in Msg : job[m].at = "letter" => job[m].tries > 0
OnePool     == pools \subseteq {cached.gen} /\ (dropped # {} => hookFaults > 0)

HookInv == HookTyped /\ DoneEnded /\ LetterTried /\ OnePool

\* The jobs that the steps make.
LEMMA JobForms ==
    /\ Unsent \in Job /\ Unsent.at = "new"
    /\ \A path \in {"enqueue", "publish", "consumer"} :
         Deliver(path) \in Job /\ Deliver(path).at = "auth"
    /\ \A j \in Job, at \in Stage :
         /\ [j EXCEPT !.at = at] \in Job
         /\ [j EXCEPT !.at = at].at = at /\ [j EXCEPT !.at = at].tries = j.tries
    /\ \A j \in Job, pool \in Nat :
         /\ [j EXCEPT !.at = "send", !.pool = pool] \in Job
         /\ [j EXCEPT !.at = "send", !.pool = pool].at = "send"
    /\ \A j \in Job : Tried(j) \in Job /\ Tried(j).at = j.at /\ Tried(j).tries > 0
<1>1. Unsent \in Job /\ Unsent.at = "new"
  BY DEF Job, Stage, Unsent, NoPool
<1>2. ASSUME NEW path \in {"enqueue", "publish", "consumer"}
      PROVE  Deliver(path) \in Job /\ Deliver(path).at = "auth"
  BY DEF Job, Stage, Deliver, NoPool
<1>3. ASSUME NEW j \in Job, NEW at \in Stage
      PROVE  /\ [j EXCEPT !.at = at] \in Job
             /\ [j EXCEPT !.at = at].at = at /\ [j EXCEPT !.at = at].tries = j.tries
  BY DEF Job
<1>4. ASSUME NEW j \in Job, NEW pool \in Nat
      PROVE  /\ [j EXCEPT !.at = "send", !.pool = pool] \in Job
             /\ [j EXCEPT !.at = "send", !.pool = pool].at = "send"
  BY DEF Job, Stage
<1>5. ASSUME NEW j \in Job
      PROVE  Tried(j) \in Job /\ Tried(j).at = j.at /\ Tried(j).tries > 0
  BY DEF Job, Tried
<1> QED BY <1>1, <1>2, <1>3, <1>4, <1>5

\* A step that moves one job, to "done" only if its message has an end or is excused.
LEMMA MoveKeeps ==
    ASSUME HookInv, NEW m \in Msg, NEW j \in Job, job' = [job EXCEPT ![m] = j],
           answered \subseteq answered', letters \subseteq letters', dropped \subseteq dropped',
           j.at = "done" => \/ m \in (answered \cup letters \cup dropped)' \cup NowhereMsg
                            \/ ~hasDlq /\ j.tries > 0,
           j.at = "letter" => j.tries > 0, UNCHANGED hasDlq,
           hookFaults' \in Nat, dropped' # {} => hookFaults' > 0,
           topic' \in Seq(Msg), group' \in [known : BOOLEAN, offset : Nat],
           UNCHANGED <<cached, vaultGen>>, pools' \subseteq {cached.gen}
    PROVE  HookInv'
<1>1. job' \in [Msg -> Job] /\ \A n \in Msg : job'[n] = IF n = m THEN j ELSE job[n]
  BY DEF HookInv, HookTyped
<1>2. DoneEnded'
  <2> SUFFICES ASSUME NEW n \in Msg, job'[n].at = "done" PROVE (Found(n) \/ Excused(n))'
    BY DEF DoneEnded
  <2>1. CASE n = m
    BY <1>1, <2>1 DEF Found, Excused
  <2>2. CASE n # m
    BY <1>1, <2>2 DEF HookInv, DoneEnded, Found, Excused
  <2> QED BY <2>1, <2>2
<1>3. LetterTried'
  BY <1>1 DEF HookInv, LetterTried
<1> QED BY <1>1, <1>2, <1>3 DEF HookInv, HookTyped, OnePool

LEMMA HandingKeeps ==
    ASSUME HookInv, NEW m \in Msg,
           \/ Hand(m, "enqueue") \/ Hand(m, "publish") \/ ForeignMessage(m)
           \/ BrokerAck(m) \/ BrokerFail(m)
    PROVE  HookInv'
<1> USE DEF Stage
<1> DEFINE Begun(j) == j \in Job /\ j.at # "letter" /\ (j.at = "done" => m \in NowhereMsg)
<1>1. ASSUME NEW path \in {"enqueue", "publish"} PROVE Begun(Direct(m, path))
  BY JobForms DEF Direct
<1>2. \A path \in {"enqueue", "publish"} : Begun([Deliver(path) EXCEPT !.at = "broker"])
  BY JobForms
<1>3. ASSUME NEW path \in {"enqueue", "publish"}, Hand(m, path) PROVE HookInv'
  <2>1. PICK j : job' = [job EXCEPT ![m] = j] /\ Begun(j)
    BY <1>1, <1>2, <1>3 DEF Hand
  <2> QED BY <1>3, <2>1, MoveKeeps
          DEF Hand, brokerVars, setupVars, endVars, credVars, HookInv, HookTyped, OnePool
<1>4. CASE BrokerAck(m) \/ ForeignMessage(m)
  <2>1. job[m] \in Job
    BY DEF HookInv, HookTyped
  <2>2. /\ job' = [job EXCEPT ![m].at = "queued"] /\ topic' = Append(topic, m)
        /\ UNCHANGED <<setupVars, group, endVars, credVars, hookFaults>>
    BY <1>4 DEF BrokerAck, ForeignMessage
  <2> HIDE <1>4
  <2>3. PICK j \in Job : job' = [job EXCEPT ![m] = j] /\ j.at = "queued"
    <3> DEFINE j == [job[m] EXCEPT !.at = "queued"]
    <3>1. job' = [job EXCEPT ![m] = j]
      BY <2>2
    <3>2. j \in Job /\ j.at = "queued"
      BY <2>1, JobForms
    <3> QED BY <3>1, <3>2
  <2>4. topic' \in Seq(Msg)
    BY <2>2 DEF HookInv, HookTyped
  <2> QED BY <2>2, <2>3, <2>4, MoveKeeps
          DEF setupVars, endVars, credVars, HookInv, HookTyped, OnePool
<1>5. CASE BrokerFail(m)
  <2>1. PICK j : job' = [job EXCEPT ![m] = j] /\ Begun(j)
    <3>1. Begun(Unsent) /\ Begun(Direct(m, "enqueue"))
      BY <1>1, JobForms
    <3>2. \/ job' = [job EXCEPT ![m] = Unsent]
          \/ job' = [job EXCEPT ![m] = Direct(m, "enqueue")]
      BY <1>5 DEF BrokerFail
    <3> QED BY <3>1, <3>2
  <2>2. hookFaults' \in Nat /\ hookFaults' >= hookFaults
    BY <1>5 DEF BrokerFail, HookInv, HookTyped
  <2>3. UNCHANGED <<brokerVars, endVars, credVars>>
    BY <1>5 DEF BrokerFail
  <2>4. dropped' # {} => hookFaults' > 0
    BY <2>2, <2>3 DEF endVars, HookInv, HookTyped, OnePool
  <2> HIDE <1>5
  <2> QED BY <2>1, <2>2, <2>3, <2>4, MoveKeeps
          DEF brokerVars, setupVars, endVars, credVars, HookInv, HookTyped, OnePool
<1> QED BY <1>3, <1>4, <1>5

LEMMA ConsumingKeeps ==
    ASSUME HookInv, Connect \/ Join \/ EachMessage \/ SkipMessage
    PROVE  HookInv'
<1>1. CASE Connect \/ Join
  <2>1. group' \in [known : BOOLEAN, offset : Nat]
    <3>1. Len(topic) \in Nat /\ group \in [known : BOOLEAN, offset : Nat]
      BY DEF HookInv, HookTyped
    <3>2. [known |-> TRUE, offset |-> Len(topic)] \in [known : BOOLEAN, offset : Nat]
      BY <3>1
    <3>3. group' = group \/ group' = [known |-> TRUE, offset |-> Len(topic)]
      BY <1>1 DEF Connect, Join
    <3> QED BY <3>1, <3>2, <3>3
  <2>2. UNCHANGED <<hasDlq, job, topic, answered, letters, dropped, cached, vaultGen, pools,
                    hookFaults>>
    BY <1>1 DEF Connect, Join, setupVars, endVars, credVars
  <2> QED BY <2>1, <2>2
          DEF HookInv, HookTyped, DoneEnded, LetterTried, Found, Excused, OnePool
<1>2. CASE EachMessage
  <2>1. topic[group.offset + 1] \in Msg
    BY <1>2 DEF EachMessage, Polls, HookInv, HookTyped
  <2>2. Deliver("consumer") \in Job /\ Deliver("consumer").at \notin {"done", "letter"}
    BY JobForms
  <2> QED BY <1>2, <2>1, <2>2, MoveKeeps
          DEF EachMessage, brokerVars, setupVars, endVars, credVars, HookInv, HookTyped, OnePool
<1>3. CASE SkipMessage
  <2> DEFINE m == topic[group.offset + 1]
             j == [job[m] EXCEPT !.at = "done"]
  <2>1. m \in Msg /\ m \in NowhereMsg
    BY <1>3 DEF SkipMessage, Polls, HookInv, HookTyped
  <2>2. job[m] \in Job
    BY <2>1 DEF HookInv, HookTyped
  <2>3. j \in Job /\ j.at = "done"
    BY <2>2, JobForms DEF Stage
  <2>4. job' = [job EXCEPT ![m] = j]
    BY <1>3 DEF SkipMessage
  <2>5. group' \in [known : BOOLEAN, offset : Nat]
    BY <1>3 DEF SkipMessage, HookInv, HookTyped
  <2> HIDE DEF m, j
  <2> QED BY <1>3, <2>1, <2>3, <2>4, <2>5, MoveKeeps
          DEF SkipMessage, setupVars, endVars, credVars, HookInv, HookTyped, OnePool
<1> QED BY <1>1, <1>2, <1>3

LEMMA CredentialsKeep ==
    ASSUME HookInv,
           (\E m \in Msg : Authenticate(m)) \/ Loaded \/ LoadFails \/ CredentialStale \/ RotateCertificate
    PROVE  HookInv'
<1>1. ASSUME NEW m \in Msg, Authenticate(m) PROVE HookInv'
  <2>1. job[m] \in Job /\ cached.gen \in Nat
    BY DEF HookInv, HookTyped
  <2>2. PICK j \in Job : job' = [job EXCEPT ![m] = j] /\ j.at \notin {"done", "letter"}
    <3>1. CASE job' = [job EXCEPT ![m].at = "send"] \/ job' = [job EXCEPT ![m].at = "resolve"]
      BY <2>1, <3>1, JobForms DEF Stage
    <3>2. CASE job' = [job EXCEPT ![m].at = "send", ![m].pool = cached.gen]
      <4> DEFINE j == [job[m] EXCEPT !.at = "send", !.pool = cached.gen]
      <4>1. job' = [job EXCEPT ![m] = j]
        BY <2>1, <3>2 DEF HookInv, HookTyped, Job
      <4>2. j \in Job /\ j.at = "send"
        BY <2>1, JobForms
      <4> QED BY <4>1, <4>2
    <3> QED BY <1>1, <3>1, <3>2 DEF Authenticate
  <2>3. pools' \subseteq {cached.gen}
    BY <1>1 DEF Authenticate, GetAgent, HookInv, OnePool
  <2> QED BY <1>1, <2>2, <2>3, MoveKeeps
          DEF Authenticate, brokerVars, setupVars, endVars, HookInv, HookTyped, OnePool
<1>2. ASSUME NEW pool \in Nat
      PROVE  /\ Resume(pool) \in [Msg -> Job]
             /\ \A m \in Msg : Resume(pool)[m].at \in {"done", "letter"} => Resume(pool)[m] = job[m]
  <2>1. \A m \in Msg : job[m] \in Job
    BY DEF HookInv, HookTyped
  <2> QED BY <2>1, JobForms DEF Resume
<1>3. CASE Loaded
  <2>1. /\ job' \in [Msg -> Job]
        /\ \A m \in Msg : job'[m].at \in {"done", "letter"} => job'[m] = job[m]
    BY <1>2, <1>3 DEF Loaded, HookInv, HookTyped
  <2>2. pools' \subseteq {vaultGen} /\ cached' = [gen |-> vaultGen, fresh |-> TRUE]
    BY <1>3 DEF Loaded, GetAgent, CloseAgent, HookInv, OnePool
  <2> QED BY <1>3, <2>1, <2>2 DEF Loaded, HookInv, HookTyped, DoneEnded, LetterTried, Found,
         Excused, OnePool, brokerVars, setupVars, endVars
<1>4. CASE LoadFails
  <2>1. /\ job' \in [Msg -> Job]
        /\ \A m \in Msg : job'[m].at \in {"done", "letter"} => job'[m] = job[m]
    BY <1>2, <1>4 DEF LoadFails, NoPool
  <2> QED BY <1>4, <2>1 DEF LoadFails, HookInv, HookTyped, DoneEnded, LetterTried, Found,
         Excused, OnePool, brokerVars, setupVars, endVars
<1>5. CASE CredentialStale
  BY <1>5 DEF CredentialStale, HookInv, HookTyped, DoneEnded, LetterTried, Found,
         Excused, OnePool, brokerVars, setupVars, endVars
<1>6. CASE RotateCertificate
  BY <1>6 DEF RotateCertificate, HookInv, HookTyped, DoneEnded, LetterTried, Found,
         Excused, OnePool, brokerVars, setupVars, endVars
<1> QED BY <1>1, <1>3, <1>4, <1>5, <1>6

LEMMA AttemptsKeep ==
    ASSUME HookInv, NEW m \in Msg,
           AttemptAnswered(m) \/ AttemptFails(m) \/ AttemptRejected(m) \/ RecordDeadLetter(m)
    PROVE  HookInv'
<1>1. job[m] \in Job
  BY DEF HookInv, HookTyped
<1>2. ASSUME Finish(m)
      PROVE  /\ \E j \in Job : /\ job' = [job EXCEPT ![m] = j]
                              /\ j.at = "done" /\ j.tries = job[m].tries
             /\ group' \in [known : BOOLEAN, offset : Nat]
  <2>1. LET j == [job[m] EXCEPT !.at = "done"]
        IN  j \in Job /\ j.at = "done" /\ j.tries = job[m].tries
    BY <1>1, JobForms DEF Stage
  <2>2. job' = [job EXCEPT ![m] = [job[m] EXCEPT !.at = "done"]]
    BY <1>2 DEF Finish
  <2>3. group' \in [known : BOOLEAN, offset : Nat]
    BY <1>2 DEF Finish, HookInv, HookTyped
  <2> QED BY <2>1, <2>2, <2>3
<1>3. CASE AttemptAnswered(m)
  <2>1. PICK j \in Job : job' = [job EXCEPT ![m] = j] /\ j.at = "done"
    BY <1>2, <1>3 DEF AttemptAnswered
  <2> QED BY <1>2, <1>3, <2>1, MoveKeeps
          DEF AttemptAnswered, setupVars, credVars, HookInv, HookTyped, OnePool
<1>4. CASE RecordDeadLetter(m)
  <2>1. PICK j \in Job : job' = [job EXCEPT ![m] = j] /\ j.at = "done" /\ j.tries > 0
    BY <1>2, <1>4 DEF RecordDeadLetter, HookInv, LetterTried
  <2>2. hookFaults' \in Nat /\ (dropped' # {} => hookFaults' > 0)
    BY <1>4 DEF RecordDeadLetter, HookInv, HookTyped, OnePool
  <2>3. m \in (answered \cup letters \cup dropped)' \/ ~hasDlq
    BY <1>4 DEF RecordDeadLetter
  <2> QED BY <1>2, <1>4, <2>1, <2>2, <2>3, MoveKeeps
          DEF RecordDeadLetter, setupVars, credVars, HookInv, HookTyped, OnePool
<1>5. ASSUME NEW j \in Job, j.at = "send", j.tries > 0
      PROVE  /\ GivenUp(j) \in Job /\ GivenUp(j).at # "done"
             /\ GivenUp(j).at = "letter" => GivenUp(j).tries > 0
  BY <1>5, JobForms DEF GivenUp, Stage
<1>6. CASE AttemptFails(m) \/ AttemptRejected(m)
  <2>1. Tried(job[m]) \in Job /\ Tried(job[m]).at = "send" /\ Tried(job[m]).tries > 0
    BY <1>1, <1>6, JobForms DEF AttemptFails, AttemptRejected
  <2>2. job' \in {[job EXCEPT ![m] = Tried(job[m])], [job EXCEPT ![m] = GivenUp(Tried(job[m]))]}
    BY <1>6 DEF AttemptFails, AttemptRejected
  <2>3. PICK j \in Job : /\ job' = [job EXCEPT ![m] = j] /\ j.at # "done"
                         /\ j.at = "letter" => j.tries > 0
    BY <1>5, <2>1, <2>2
  <2> QED BY <1>6, <2>3, MoveKeeps
          DEF AttemptFails, AttemptRejected, brokerVars, setupVars, endVars, credVars, HookInv,
              HookTyped, OnePool
<1> QED BY <1>3, <1>4, <1>6

LEMMA EndsKeep ==
    ASSUME HookInv, HookCrash \/ HookStop
    PROVE  HookInv'
<1>1. CASE HookCrash
  <2>1. job' \in [Msg -> Job]
    BY <1>1 DEF HookCrash, HookInv, HookTyped, Job, Stage, Unsent, NoPool
  <2>2. ASSUME NEW m \in Msg
        PROVE  /\ job'[m].at # "letter"
               /\ job'[m].at = "done" =>
                    \/ job[m].at = "done" /\ job'[m] = job[m]
                    \/ job[m].path = "enqueue" /\ job[m].at \notin {"new", "queued", "done"}
    BY <1>1, <2>2 DEF HookCrash, HookInv, HookTyped, Job, Stage, Unsent
  <2>3. DoneEnded' /\ LetterTried'
    BY <1>1, <2>2 DEF HookCrash, setupVars, HookInv, DoneEnded, LetterTried, Found, Excused
  <2>4. hookFaults' \in Nat /\ hookFaults' > 0
    BY <1>1 DEF HookCrash, HookInv, HookTyped
  <2> QED BY <1>1, <2>1, <2>3, <2>4 DEF HookCrash, HookInv, HookTyped, OnePool
<1>2. CASE HookStop
  BY <1>2 DEF HookStop, HookInv, HookTyped, DoneEnded, LetterTried, Found, Excused, OnePool,
              setupVars, endVars
<1> QED BY <1>1, <1>2

\* For any messages, endpoints, rotations and faults: what deliverWebhook is done
\* with was answered or dead-lettered; or a crash or a failed insert lost it, there is
\* no dead-letter store, or it had no receiver; and no pool of an identity other than
\* the cached one is held.
THEOREM HookKeptTheorem == HookSpec => []HookKept
<1>1. HookInit => HookInv
  BY DEF HookInit, HookInv, HookTyped, DoneEnded, LetterTried, OnePool, Job, Stage, Unsent, NoPool
<1>2. HookInv /\ [HookNext]_hookVars => HookInv'
  <2> SUFFICES ASSUME HookInv, [HookNext]_hookVars PROVE HookInv'
    OBVIOUS
  <2>1. CASE UNCHANGED hookVars
    BY <2>1 DEF hookVars, HookInv, HookTyped, DoneEnded, LetterTried, Found, Excused, OnePool
  <2> QED BY <2>1, HandingKeeps, ConsumingKeeps, CredentialsKeep, AttemptsKeep, EndsKeep
          DEF HookNext, HookStep
<1>3. HookInv => HookKept
  BY DEF HookInv, HookKept, DoneEnded, OnePool
<1> QED BY <1>1, <1>2, <1>3, PTL DEF HookSpec

-----------------------------------------------------------------------------
(* The Vault lease: since the last turn of the poll timer the lease reaches to *)
(* the end of the fetch that the next turn may start, or such a fetch is under *)
(* way, or the last failure is so recent that the turn after it repairs it.    *)

VaultTyped ==
    /\ tick \in Nat /\ lease \in Nat /\ poolLease \in Nat /\ failedAt \in Nat
    /\ fetches \subseteq Nat

\* Ticks since the last turn of the timer.
SincePoll == IF tick % PollEvery = 0 /\ ~polled THEN PollEvery ELSE tick % PollEvery

Roomy == PollEvery + Latency <= RefreshWindow /\ PollEvery + Latency <= Lease

Covered ==
    \/ lease + SincePoll >= tick + PollEvery + Latency
    \/ \E t \in fetches : lease >= t + Latency
    \/ failedAt # 0 /\ failedAt + SincePoll >= tick
    \/ failedAt # 0 /\ \E t \in fetches : t <= failedAt + PollEvery

VaultInv ==
    /\ VaultTyped
    /\ \A t \in fetches : tick < t + Latency
    /\ boot = "up" => poolLease = lease
    /\ tick > 0
    /\ boot = "up" /\ Roomy => Covered

LEMMA WindowType == RefreshWindow \in Nat
<1> DEFINE third == (Lease * 3) \div 10
<1>1. {third, MaxWindow, MinWindow, Lease, PollEvery, Latency} \subseteq Nat
  BY VaultAssumption
<1> HIDE DEF third
<1>2. ASSUME NEW a \in Nat, NEW b \in Nat
      PROVE  Max({a, b}) \in Nat /\ Min({a, b}) \in Nat
  <2>1. \E x \in {a, b} : \A y \in {a, b} : x >= y
    OBVIOUS
  <2>2. \E x \in {a, b} : \A y \in {a, b} : x =< y
    OBVIOUS
  <2> QED BY <2>1, <2>2 DEF Max, Min
<1> QED BY <1>1, <1>2 DEF RefreshWindow, third

\* A tick more is a tick more since the last turn, unless the next turn is due.
LEMMA ModSteps ==
    ASSUME NEW n \in Nat, NEW p \in Nat \ {0}
    PROVE  /\ n % p \in 0..(p - 1)
           /\ (n + 1) % p = 0 \/ (n + 1) % p >= (n % p) + 1
<1>1. n % p \in 0..(p - 1) /\ (n + 1) % p \in 0..(p - 1)
  OBVIOUS
<1>2. n = p * (n \div p) + (n % p) /\ n \div p \in Nat
  OBVIOUS
<1>3. n + 1 = p * ((n + 1) \div p) + ((n + 1) % p) /\ (n + 1) \div p \in Nat
  OBVIOUS
<1> DEFINE d == ((n + 1) \div p) - (n \div p)
           e == (n % p) + 1 - ((n + 1) % p)
<1>4. d \in Int /\ e \in Int /\ p * d = e
  BY <1>1, <1>2, <1>3
<1>5. CASE d <= 0
  <2>1. p * d <= 0
    BY <1>4, <1>5
  <2> QED BY <1>1, <1>4, <2>1
<1>6. CASE d >= 1
  <2> HIDE DEF d
  <2>1. p * d >= p
    BY <1>4, <1>6
  <2> QED BY <1>1, <1>4, <2>1
<1> QED BY <1>4, <1>5, <1>6

\* What the facts about time give once the invariant is expanded.
LEMMA SincePollBounds ==
    ASSUME VaultTyped
    PROVE  /\ SincePoll \in 0..PollEvery
           /\ tick % PollEvery = 0 /\ ~polled => SincePoll = PollEvery
<1>1. PollEvery \in Nat \ {0} /\ tick \in Nat
  BY VaultAssumption DEF VaultTyped
<1>2. tick % PollEvery \in 0..(PollEvery - 1)
  BY <1>1, ModSteps
<1> QED BY <1>1, <1>2 DEF SincePoll

LEMMA TickCovers ==
    ASSUME VaultInv, Tick
    PROVE  VaultInv'
<1>1. /\ tick \in Nat /\ tick' = tick + 1 /\ polled' = FALSE
      /\ UNCHANGED <<lease, poolLease, boot, fetches, outage, failedAt>>
  BY DEF Tick, VaultInv, VaultTyped
<1>2. PollEvery \in Nat \ {0} /\ Latency \in Nat \ {0}
  BY VaultAssumption
<1>3. boot = "up" => SincePoll \in Nat /\ SincePoll' \in Nat /\ SincePoll' >= SincePoll + 1
  <2> SUFFICES ASSUME boot = "up"
               PROVE  SincePoll \in Nat /\ SincePoll' \in Nat /\ SincePoll' >= SincePoll + 1
    OBVIOUS
  <2>1. SincePoll = tick % PollEvery
    BY DEF Tick, SincePoll
  <2>2. SincePoll' = IF (tick + 1) % PollEvery = 0 THEN PollEvery ELSE (tick + 1) % PollEvery
    BY <1>1 DEF SincePoll
  <2>3. /\ tick % PollEvery \in 0..(PollEvery - 1)
        /\ (tick + 1) % PollEvery = 0 \/ (tick + 1) % PollEvery >= (tick % PollEvery) + 1
    BY <1>1, <1>2, ModSteps
  <2>4. (tick + 1) % PollEvery \in 0..(PollEvery - 1)
    BY <1>1, <1>2, ModSteps
  <2> QED BY <1>2, <2>1, <2>2, <2>3, <2>4
<1>4. VaultTyped'
  BY <1>1 DEF VaultInv, VaultTyped
<1>5. \A t \in fetches' : tick' < t + Latency
  BY <1>1, <1>2 DEF Tick, VaultInv, VaultTyped
<1>6. ASSUME boot = "up", Roomy, Covered
      PROVE  Covered'
  <2>1. PICK s \in Nat, u \in Nat : s = SincePoll /\ u = SincePoll' /\ u >= s + 1
    BY <1>3, <1>6
  <2>2. lease \in Nat /\ failedAt \in Nat /\ tick \in Nat /\ u >= s + 1
    BY <2>1 DEF VaultInv, VaultTyped
  <2>3. CASE lease + SincePoll >= tick + PollEvery + Latency
    <3>1. lease' + SincePoll' >= tick' + PollEvery + Latency
      <4>1. lease + u >= (tick + 1) + PollEvery + Latency
        <5>1. lease + s >= tick + PollEvery + Latency
          BY <2>1, <2>3
        <5> QED BY <1>2, <2>2, <5>1
      <4> QED BY <1>1, <2>1, <4>1
    <3> QED BY <3>1 DEF Covered
  <2>4. CASE failedAt # 0 /\ failedAt + SincePoll >= tick
    <3>1. failedAt' # 0 /\ failedAt' + SincePoll' >= tick'
      <4>1. failedAt + u >= tick + 1
        <5>1. failedAt + s >= tick
          BY <2>1, <2>4
        <5> QED BY <2>2, <5>1
      <4> QED BY <1>1, <2>1, <2>4, <4>1
    <3> QED BY <3>1 DEF Covered
  <2>5. CASE \E t \in fetches : lease >= t + Latency \/ (failedAt # 0 /\ t <= failedAt + PollEvery)
    BY <1>1, <2>5 DEF Covered
  <2> QED BY <1>6, <2>3, <2>4, <2>5 DEF Covered
<1>7. UNCHANGED Roomy
  BY DEF Roomy, RefreshWindow
<1> QED BY <1>1, <1>4, <1>5, <1>6, <1>7 DEF VaultInv

LEMMA PollCovers ==
    ASSUME VaultInv, Poll
    PROVE  VaultInv'
<1>1. /\ tick \in Nat /\ polled' = TRUE /\ boot = "up" /\ tick % PollEvery = 0 /\ ~polled
      /\ UNCHANGED <<tick, lease, poolLease, boot, outage, failedAt>>
      /\ fetches' = IF MustFetch THEN fetches \cup {tick} ELSE fetches
  BY DEF Poll, VaultInv, VaultTyped
<1>2. PollEvery \in Nat \ {0} /\ Latency \in Nat \ {0} /\ RefreshWindow \in Nat
  BY VaultAssumption, WindowType
<1>3. SincePoll = PollEvery /\ SincePoll' = 0
  BY <1>1 DEF SincePoll
<1>4. VaultTyped' /\ \A t \in fetches' : tick' < t + Latency
  BY <1>1, <1>2 DEF VaultInv, VaultTyped
<1>5. ASSUME Roomy, Covered
      PROVE  Covered'
  <2>1. CASE MustFetch
    BY <1>1, <1>2, <1>3, <1>5, <2>1 DEF Covered, VaultInv, VaultTyped
  <2>2. CASE ~MustFetch
    <3>1. lease > tick + RefreshWindow
      BY <2>2 DEF MustFetch
    <3>2. PollEvery + Latency <= RefreshWindow
      BY <1>5 DEF Roomy
    <3> QED BY <1>1, <1>2, <1>3, <3>1, <3>2 DEF Covered, VaultInv, VaultTyped
  <2> QED BY <2>1, <2>2
<1>6. UNCHANGED Roomy
  BY DEF Roomy, RefreshWindow
<1> QED BY <1>1, <1>4, <1>5, <1>6 DEF VaultInv

LEMMA FetchCovers ==
    ASSUME VaultInv, NEW t \in fetches, FetchReturns(t) \/ FetchFails(t)
    PROVE  VaultInv'
<1>1. PollEvery \in Nat \ {0} /\ Latency \in Nat \ {0} /\ Lease \in Nat \ {0}
  BY VaultAssumption
<1>2. tick' = tick /\ SincePoll' = SincePoll /\ SincePoll \in 0..PollEvery /\ fetches' \subseteq fetches
  BY SincePollBounds DEF FetchReturns, FetchFails, SincePoll, VaultInv
<1>3. VaultTyped' /\ \A u \in fetches' : tick' < u + Latency
  BY <1>1, <1>2 DEF FetchReturns, FetchFails, VaultInv, VaultTyped
<1>4. UNCHANGED Roomy
  BY DEF Roomy, RefreshWindow
<1>5. CASE FetchReturns(t)
  <2>1. lease' = tick + Lease /\ boot' = "up" => poolLease' = lease'
    BY <1>5 DEF FetchReturns
  <2>2. lease' = tick + Lease
    BY <1>5 DEF FetchReturns
  <2>3. Roomy => Covered'
    BY <1>1, <1>2, <2>2 DEF Roomy, Covered, VaultInv, VaultTyped
  <2> QED BY <1>2, <1>3, <1>4, <2>1, <2>2, <2>3 DEF VaultInv
<1>6. CASE FetchFails(t)
  <2>1. failedAt' = tick /\ lease' = lease /\ poolLease' = poolLease /\ (boot' = "up" => boot = "up")
    BY <1>6 DEF FetchFails
  <2>2. tick > 0 => Covered'
    BY <1>2, <2>1 DEF Covered, VaultInv, VaultTyped
  <2> QED BY <1>2, <1>3, <1>4, <2>1, <2>2 DEF VaultInv
<1> QED BY <1>5, <1>6

\* The pool's credentials, for any lease, window, poll interval and latency that
\* leave room for a refresh, and for any failures of Vault, revoked tokens and
\* overlapping fetches.
THEOREM PoolCredentialsValidTheorem == VaultSpec => []PoolCredentialsValid
<1>1. VaultInit => VaultInv
  <2>1. Latency \in Nat \ {0}
    BY VaultAssumption
  <2> QED BY <2>1 DEF VaultInit, VaultInv, VaultTyped, NoLease
<1>2. VaultInv /\ [VaultNext]_vaultVars => VaultInv'
  <2> SUFFICES ASSUME VaultInv, [VaultNext]_vaultVars PROVE VaultInv'
    OBVIOUS
  <2>1. CASE UNCHANGED vaultVars \/ BootTimeout \/ TokenRevoked \/ VaultStop
    <3>1. /\ UNCHANGED <<tick, lease, fetches, polled>>
          /\ boot' = "up" => boot = "up" /\ UNCHANGED <<poolLease, failedAt>>
      BY <2>1 DEF vaultVars, BootTimeout, TokenRevoked, VaultStop
    <3>2. VaultTyped'
      <4>1. poolLease' \in {poolLease, 0} /\ failedAt' \in {failedAt, tick}
        BY <2>1 DEF vaultVars, BootTimeout, TokenRevoked, VaultStop, NoLease
      <4> QED BY <3>1, <4>1 DEF VaultInv, VaultTyped
    <3>3. SincePoll' = SincePoll /\ UNCHANGED Roomy
      BY <3>1 DEF SincePoll, Roomy, RefreshWindow
    <3> QED BY <3>1, <3>2, <3>3 DEF VaultInv, Covered
  <2> QED BY <2>1, TickCovers, PollCovers, FetchCovers DEF VaultNext
<1>3. VaultInv => PoolCredentialsValid
  <2> SUFFICES ASSUME VaultInv, boot = "up", Roomy, failedAt = 0 \/ tick > failedAt + Lease
               PROVE  poolLease > tick
    BY DEF PoolCredentialsValid, Roomy
  <2>1. PollEvery \in Nat \ {0} /\ Latency \in Nat \ {0} /\ Lease \in Nat \ {0}
    BY VaultAssumption
  <2>2. SincePoll \in 0..PollEvery
    BY SincePollBounds DEF VaultInv
  <2>3. PollEvery + Latency <= Lease
    BY DEF Roomy
  <2> QED BY <2>1, <2>2, <2>3 DEF VaultInv, VaultTyped, Covered
<1> QED BY <1>1, <1>2, <1>3, PTL DEF VaultSpec

-----------------------------------------------------------------------------
(* The dead-letter queue, for every set of letters, overlapping cycles,     *)
(* replays and processes.                                                   *)

Busy == {"publish", "resolve", "fail"}
Labels == {"idle", "next", "publish", "resolve", "fail", "count", "alert", "done"}
Wiped == [status |-> "purged", attempts |-> 0, lease |-> "none", due |-> FALSE]

LEMMA RowTypes ==
    ASSUME NEW row \in Row
    PROVE  /\ Resolved(row) \in Row /\ RetryFailed(row) \in Row /\ Wiped \in Row
           /\ [row EXCEPT !.status = "pending", !.due = TRUE] \in Row
           /\ [row EXCEPT !.due = TRUE] \in Row
           /\ [row EXCEPT !.lease = "expired"] \in Row
           /\ [row EXCEPT !.lease = "live"] \in Row
           /\ [row EXCEPT !.status = "discarded"] \in Row
<1>1. row.attempts + 1 \in Nat
  BY DEF Row
<1>2. RetryFailed(row) \in Row
  BY <1>1 DEF RetryFailed, Row
<1>3. Resolved(row) \in Row /\ Wiped \in Row
  BY DEF Resolved, Row, Wiped
<1>4. /\ [row EXCEPT !.status = "pending", !.due = TRUE] \in Row
      /\ [row EXCEPT !.due = TRUE] \in Row
      /\ [row EXCEPT !.lease = "expired"] \in Row
  BY DEF Row
<1>5. /\ [row EXCEPT !.lease = "live"] \in Row
      /\ [row EXCEPT !.status = "discarded"] \in Row
  BY DEF Row
<1> QED BY <1>2, <1>3, <1>4, <1>5

\* What a step does to one row: nothing, or one of the table's statements.
Changed(l) ==
    \/ rows'[l] \in {rows[l], Resolved(rows[l]), RetryFailed(rows[l]), Wiped,
                     [rows[l] EXCEPT !.due = TRUE],
                     [rows[l] EXCEPT !.lease = "expired"],
                     [rows[l] EXCEPT !.lease = "live"],
                     [rows[l] EXCEPT !.status = "discarded"]}
    \/ /\ rows[l].status = "absent"
       /\ rows'[l] = [rows[l] EXCEPT !.status = "pending", !.due = TRUE]

LEMMA RowChanges ==
    ASSUME rows \in [Letter -> Row], [Next]_vars
    PROVE  /\ \E f : rows' = [l \in Letter |-> f[l]]
           /\ \A l \in Letter : Changed(l)
<1>1. CASE UNCHANGED vars
  BY <1>1 DEF vars, Changed
<1>2. ASSUME NEW k \in Letter, Insert(k) \/ Elapse(k) \/ Discard(k)
      PROVE  /\ \E f : rows' = [l \in Letter |-> f[l]]
             /\ \A l \in Letter : Changed(l)
  <2>1. \/ /\ rows[k].status = "absent"
           /\ rows' = [rows EXCEPT ![k] =
                         [rows[k] EXCEPT !.status = "pending", !.due = TRUE]]
        \/ rows' = [rows EXCEPT ![k] = [rows[k] EXCEPT !.due = TRUE]]
        \/ rows' = [rows EXCEPT ![k] = [rows[k] EXCEPT !.lease = "expired"]]
        \/ rows' = [rows EXCEPT ![k] = [rows[k] EXCEPT !.status = "discarded"]]
    <3>1. CASE Insert(k)
      BY <3>1 DEF Insert
    <3>2. CASE Elapse(k)
      BY <3>2 DEF Elapse
    <3>3. CASE Discard(k)
      BY <3>3 DEF Discard
    <3> QED BY <1>2, <3>1, <3>2, <3>3
  <2> QED BY <2>1 DEF Changed
<1>3. ASSUME NEW w \in Worker, ClaimDue(w)
      PROVE  /\ \E f : rows' = [l \in Letter |-> f[l]]
             /\ \A l \in Letter : Changed(l)
  <2> DEFINE f == [l \in Letter |-> IF l \in Due THEN [rows[l] EXCEPT !.lease = "live"]
                                   ELSE rows[l]]
  <2>1. rows' = [l \in Letter |-> f[l]]
    BY <1>3 DEF ClaimDue
  <2>2. ASSUME NEW l \in Letter
        PROVE  rows'[l] = rows[l] \/ rows'[l] = [rows[l] EXCEPT !.lease = "live"]
    BY <2>1
  <2>3. \A l \in Letter : Changed(l)
    BY <2>2 DEF Changed
  <2> HIDE DEF f
  <2> QED BY <2>1, <2>3
<1>4. ASSUME NEW a \in Attempter, Redelivery(a)
      PROVE  /\ \E f : rows' = [l \in Letter |-> f[l]]
             /\ \A l \in Letter : Changed(l)
  <2>1. \/ rows' = rows
        \/ rows' = [rows EXCEPT ![cur[a]] = Resolved(rows[cur[a]])]
        \/ rows' = [rows EXCEPT ![cur[a]] = RetryFailed(rows[cur[a]])]
    BY <1>4 DEF Redelivery, Publish, MarkResolved, MarkRetryFailed
  <2> QED BY <2>1 DEF Changed
<1>5. ASSUME NEW gone, Purge(gone)
      PROVE  /\ \E f : rows' = [l \in Letter |-> f[l]]
             /\ \A l \in Letter : Changed(l)
  <2> DEFINE f == [l \in Letter |-> IF l \in gone THEN Wiped ELSE rows[l]]
  <2>1. rows' = [l \in Letter |-> f[l]]
    BY <1>5 DEF Purge, Wiped
  <2>2. ASSUME NEW l \in Letter PROVE rows'[l] = rows[l] \/ rows'[l] = Wiped
    BY <2>1
  <2>3. \A l \in Letter : Changed(l)
    BY <2>2 DEF Changed
  <2> HIDE DEF f
  <2> QED BY <2>1, <2>3
<1>6. ASSUME \/ \E w \in Worker : NextLetter(w) \/ CountDepth(w) \/ CheckAlert(w)
             \/ \E p \in Pod : Crash(p)
             \/ \E o \in Replay : \E l \in Letter : ReplayLetter(o, l)
      PROVE  /\ \E f : rows' = [l \in Letter |-> f[l]]
             /\ \A l \in Letter : Changed(l)
  <2>1. rows' = rows
    BY <1>6 DEF NextLetter, CountDepth, CheckAlert, Crash, ReplayLetter
  <2> QED BY <2>1 DEF Changed
<1> QED BY <1>1, <1>2, <1>3, <1>4, <1>5, <1>6 DEF Next, Cycle, Attempter

\* Every statement keeps the rows well typed.
LEMMA RowsType ==
    ASSUME rows \in [Letter -> Row], [Next]_vars
    PROVE  rows' \in [Letter -> Row]
<1>1. ASSUME NEW l \in Letter PROVE rows'[l] \in Row
  <2>1. Changed(l)
    BY RowChanges
  <2>2. rows[l] \in Row
    OBVIOUS
  <2> QED BY <2>1, <2>2, RowTypes DEF Changed
<1> QED BY <1>1, RowChanges

\* Every step of an attempter, and the rest, keeps the control well typed.
LEMMA ControlType ==
    ASSUME TypeOK, [Next]_vars
    PROVE  /\ pc' \in [Attempter -> Labels]
           /\ cur' \in [Attempter -> Letter \cup {Nobody}]
           /\ batch' \in [Worker -> SUBSET Letter]
           /\ \A a \in Attempter : pc'[a] \in Busy <=> cur'[a] # Nobody
<1>0. /\ pc \in [Attempter -> Labels]
      /\ cur \in [Attempter -> Letter \cup {Nobody}]
      /\ batch \in [Worker -> SUBSET Letter]
      /\ \A a \in Attempter : pc[a] \in Busy <=> cur[a] # Nobody
      /\ Nobody \notin Letter /\ Worker \subseteq Attempter /\ Replay \subseteq Attempter
  BY DeadLetterAssumption DEF TypeOK, Labels, Busy, Attempter
<1> DEFINE Control == /\ pc' \in [Attempter -> Labels]
                      /\ cur' \in [Attempter -> Letter \cup {Nobody}]
                      /\ batch' \in [Worker -> SUBSET Letter]
                      /\ \A a \in Attempter : pc'[a] \in Busy <=> cur'[a] # Nobody
<1>1. ASSUME pc' = pc, cur' = cur, batch' = batch PROVE Control
  BY <1>0, <1>1
<1>2. CASE \/ UNCHANGED vars
           \/ \E l \in Letter : Insert(l) \/ Elapse(l) \/ Discard(l)
           \/ \E gone \in SUBSET Letter \ {{}} : Purge(gone)
  BY <1>1, <1>2 DEF vars, Insert, Elapse, Discard, Purge
<1>3. ASSUME NEW w \in Worker, ClaimDue(w) PROVE Control
  <2>1. Due \subseteq Letter
    BY DEF Due
  <2> QED BY <1>0, <1>3, <2>1 DEF ClaimDue, Goto, Labels, Busy
<1>4. ASSUME NEW w \in Worker, NextLetter(w) PROVE Control
  <2>1. CASE batch[w] = {} /\ Goto(w, "count") /\ UNCHANGED <<batch, cur>>
    BY <1>0, <1>4, <2>1 DEF NextLetter, Goto, Labels, Busy
  <2>2. CASE \E l \in batch[w] : /\ cur' = [cur EXCEPT ![w] = l]
                                 /\ batch' = [batch EXCEPT ![w] = @ \ {l}]
                                 /\ Goto(w, "publish")
    BY <1>0, <2>2 DEF Goto, Labels, Busy
  <2> QED BY <1>4, <2>1, <2>2 DEF NextLetter
<1>5. ASSUME NEW w \in Worker, CountDepth(w) \/ CheckAlert(w) PROVE Control
  BY <1>0, <1>5 DEF CountDepth, CheckAlert, Goto, Labels, Busy
<1>6. ASSUME NEW a \in Attempter, Publish(a) PROVE Control
  BY <1>0, <1>6 DEF Publish, Goto, Labels, Busy
<1>7. ASSUME NEW a \in Attempter, MarkResolved(a) PROVE Control
  BY <1>0, <1>7 DEF MarkResolved, Goto, After, Labels, Busy
<1>8. ASSUME NEW a \in Attempter, MarkRetryFailed(a) PROVE Control
  BY <1>0, <1>8 DEF MarkRetryFailed, Goto, After, Labels, Busy
<1>9. ASSUME NEW p \in Pod, Crash(p) PROVE Control
  BY <1>0, <1>9 DEF Crash, Labels, Busy
<1>10. ASSUME NEW o \in Replay, NEW l \in Letter, ReplayLetter(o, l) PROVE Control
  BY <1>0, <1>10 DEF ReplayLetter, Goto, Labels, Busy
<1> QED BY <1>0, <1>2, <1>3, <1>4, <1>5, <1>6, <1>7, <1>8, <1>9, <1>10
        DEF Next, Cycle, Redelivery

\* The remaining variables.
LEMMA OthersType ==
    ASSUME TypeOK, [Next]_vars
    PROVE  /\ accepted' \subseteq Letter
           /\ depth' \in [Worker -> Nat]
           /\ alerting' \in [Pod -> BOOLEAN]
           /\ faults' \in Nat
<1>0. /\ accepted \subseteq Letter /\ faults \in Nat
      /\ depth \in [Worker -> Nat] /\ alerting \in [Pod -> BOOLEAN]
      /\ \A a \in Attempter : pc[a] = "publish" => cur[a] \in Letter
  BY DEF TypeOK
<1> DEFINE Others == /\ accepted' \subseteq Letter
                     /\ depth' \in [Worker -> Nat]
                     /\ alerting' \in [Pod -> BOOLEAN]
                     /\ faults' \in Nat
<1>1. CASE \/ UNCHANGED vars
           \/ \E l \in Letter : Insert(l) \/ Elapse(l) \/ Discard(l)
           \/ \E gone \in SUBSET Letter \ {{}} : Purge(gone)
           \/ \E o \in Replay : \E l \in Letter : ReplayLetter(o, l)
           \/ \E w \in Worker : ClaimDue(w) \/ NextLetter(w)
  <2>1. UNCHANGED <<accepted, depth, alerting, faults>>
    BY <1>1 DEF vars, Insert, Elapse, Discard, Purge, ReplayLetter, ClaimDue, NextLetter
  <2> QED BY <1>0, <2>1
<1>2. ASSUME NEW w \in Worker, CountDepth(w) PROVE Others
  <2> DEFINE open == {l \in Letter : rows[l].status \in {"pending", "exhausted"}}
  <2>1. IsFiniteSet(open)
    BY DeadLetterAssumption, FS_Subset
  <2>2. Cardinality(open) \in Nat
    BY <2>1, FS_CardinalityType
  <2>3. /\ UNCHANGED <<accepted, alerting>>
        /\ \/ depth' = [depth EXCEPT ![w] = Cardinality(open)] /\ faults' = faults
           \/ depth' = depth /\ faults' = faults + 1
    BY <1>2 DEF CountDepth, Fault
  <2> HIDE DEF open
  <2> QED BY <1>0, <2>2, <2>3
<1>3. ASSUME NEW w \in Worker, CheckAlert(w) PROVE Others
  <2>1. Host[w] \in Pod
    BY DeadLetterAssumption
  <2> QED BY <1>0, <1>3, <2>1 DEF CheckAlert
<1>4. ASSUME NEW a \in Attempter, Redelivery(a) PROVE Others
  <2>1. /\ UNCHANGED <<depth, alerting>>
        /\ faults' = faults \/ faults' = faults + 1
    BY <1>4 DEF Redelivery, Publish, MarkResolved, MarkRetryFailed, Fault
  <2>2. accepted' \subseteq Letter
    BY <1>0, <1>4 DEF Redelivery, Publish, MarkResolved, MarkRetryFailed
  <2> QED BY <1>0, <2>1, <2>2
<1>5. ASSUME NEW p \in Pod, Crash(p) PROVE Others
  BY <1>0, <1>5 DEF Crash, Fault
<1> QED BY <1>1, <1>2, <1>3, <1>4, <1>5 DEF Next, Cycle, Attempter

\* Every reachable state of the queue is well typed, and an attempter has a
\* letter in hand exactly while it redelivers one.
THEOREM DeadLetterTypeCorrect == Spec => []TypeOK
<1>1. Init => TypeOK
  BY DEF Init, TypeOK, Row
<1>2. TypeOK /\ [Next]_vars => TypeOK'
  <2> SUFFICES ASSUME TypeOK, [Next]_vars PROVE TypeOK'
    OBVIOUS
  <2>1. rows' \in [Letter -> Row]
    BY RowsType DEF TypeOK
  <2> QED BY <2>1, ControlType, OthersType DEF TypeOK, Labels, Busy
<1> QED BY <1>1, <1>2, PTL DEF Spec

-----------------------------------------------------------------------------
\* Who writes 'resolved': markResolved, of a letter that was accepted.
LEMMA ResolvedRows ==
    ASSUME TypeOK, ResolvedInv, [Next]_vars, NEW l \in Letter,
           rows'[l].status = "resolved"
    PROVE  l \in accepted
<1>1. CASE rows[l].status = "resolved"
  BY <1>1 DEF ResolvedInv, ResolvedMeansAccepted
<1>2. CASE rows[l].status # "resolved"
  <2>0. rows \in [Letter -> Row] /\ rows[l] \in Row
    BY DEF TypeOK
  <2>1. ASSUME NEW a \in Attempter, MarkResolved(a) PROVE l \in accepted
    <3>1. cur[a] = l
      BY <1>2, <2>0, <2>1 DEF MarkResolved
    <3> QED BY <2>1, <3>1 DEF MarkResolved, ResolvedInv, ResolvesAccepted
  <2>2. ASSUME NEW a \in Attempter, MarkRetryFailed(a) PROVE FALSE
    <3>1. \/ rows' = rows
          \/ rows' = [rows EXCEPT ![cur[a]] = RetryFailed(rows[cur[a]])]
      BY <2>2 DEF MarkRetryFailed
    <3>2. RetryFailed(rows[l]).status # "resolved"
      BY <1>2 DEF RetryFailed
    <3> QED BY <1>2, <2>0, <3>1, <3>2
  <2>3. ASSUME NEW k \in Letter, Insert(k) \/ Elapse(k) \/ Discard(k) PROVE FALSE
    BY <1>2, <2>0, <2>3 DEF Insert, Elapse, Discard, Row
  <2>4. ASSUME NEW w \in Worker, ClaimDue(w) PROVE FALSE
    BY <1>2, <2>0, <2>4 DEF ClaimDue, Row
  <2>5. ASSUME NEW gone, Purge(gone) PROVE FALSE
    BY <1>2, <2>0, <2>5 DEF Purge
  <2>6. CASE \/ UNCHANGED vars
             \/ \E p \in Pod : Crash(p)
             \/ \E o \in Replay : \E k \in Letter : ReplayLetter(o, k)
             \/ \E w \in Worker : NextLetter(w) \/ CountDepth(w) \/ CheckAlert(w)
             \/ \E a \in Attempter : Publish(a)
    <3>1. rows' = rows
      BY <2>6 DEF vars, Crash, ReplayLetter, NextLetter, CountDepth, CheckAlert, Publish
    <3> QED BY <1>2, <3>1
  <2> QED BY <2>1, <2>2, <2>3, <2>4, <2>5, <2>6 DEF Next, Cycle, Redelivery, Attempter
<1> QED BY <1>1, <1>2

\* Who is about to mark a letter resolved has had it accepted.
LEMMA ResolversAccepted ==
    ASSUME TypeOK, ResolvedInv, [Next]_vars, NEW a \in Attempter,
           pc'[a] = "resolve"
    PROVE  cur'[a] \in accepted'
<1>0. /\ pc \in [Attempter -> Labels] /\ cur \in [Attempter -> Letter \cup {Nobody}]
      /\ pc[a] = "resolve" => cur[a] \in accepted
      /\ Worker \subseteq Attempter /\ Replay \subseteq Attempter
  BY DEF TypeOK, Labels, ResolvedInv, ResolvesAccepted, Attempter
<1>1. ASSUME NEW b \in Attempter, Publish(b) PROVE cur'[a] \in accepted'
  BY <1>0, <1>1 DEF Publish, Goto
<1>2. ASSUME NEW b \in Attempter, MarkResolved(b) \/ MarkRetryFailed(b)
      PROVE  cur'[a] \in accepted'
  BY <1>0, <1>2 DEF MarkResolved, MarkRetryFailed, Goto, After
<1>3. ASSUME NEW w \in Worker, ClaimDue(w) \/ NextLetter(w) \/ CountDepth(w) \/ CheckAlert(w)
      PROVE  cur'[a] \in accepted'
  BY <1>0, <1>3 DEF ClaimDue, NextLetter, CountDepth, CheckAlert, Goto
<1>4. ASSUME NEW p \in Pod, Crash(p) PROVE cur'[a] \in accepted'
  BY <1>0, <1>4 DEF Crash
<1>5. ASSUME NEW o \in Replay, NEW l \in Letter, ReplayLetter(o, l)
      PROVE  cur'[a] \in accepted'
  BY <1>0, <1>5 DEF ReplayLetter, Goto
<1>6. CASE \/ UNCHANGED vars
           \/ \E l \in Letter : Insert(l) \/ Elapse(l) \/ Discard(l)
           \/ \E gone \in SUBSET Letter \ {{}} : Purge(gone)
  <2>1. pc' = pc /\ cur' = cur /\ accepted' = accepted
    BY <1>6 DEF vars, Insert, Elapse, Discard, Purge
  <2> QED BY <1>0, <2>1
<1> QED BY <1>0, <1>1, <1>2, <1>3, <1>4, <1>5, <1>6 DEF Next, Cycle, Redelivery

LEMMA AcceptedGrows ==
    ASSUME [Next]_vars
    PROVE  accepted \subseteq accepted'
<1> QED BY DEF Next, vars, Cycle, Redelivery, Insert, Elapse, Discard, ClaimDue, NextLetter,
           CountDepth, CheckAlert, Crash, Publish, MarkResolved, MarkRetryFailed,
           ReplayLetter, Purge

\* A letter reads 'resolved' only when its receiver accepted it, however many
\* cycles, replays and processes redeliver it at once (markResolved).
THEOREM ResolvedMeansAcceptedTheorem == Spec => []ResolvedMeansAccepted
<1>1. Init => ResolvedInv
  BY DEF Init, ResolvedInv, ResolvedMeansAccepted, ResolvesAccepted
<1>2. TypeOK /\ ResolvedInv /\ [Next]_vars => ResolvedInv'
  BY ResolvedRows, ResolversAccepted, AcceptedGrows
     DEF ResolvedInv, ResolvedMeansAccepted, ResolvesAccepted
<1>3. ResolvedInv => ResolvedMeansAccepted
  BY DEF ResolvedInv
<1> QED BY <1>1, <1>2, <1>3, DeadLetterTypeCorrect, PTL DEF Spec

-----------------------------------------------------------------------------
\* The retry limit, for one row.
RowBudget(row) ==
    /\ row.status = "pending" => row.attempts < MaxDlqAttempts
    /\ row.status = "exhausted" => row.attempts >= MaxDlqAttempts
    /\ row.status = "absent" => row.attempts = 0

LEMMA StatementsKeepBudget ==
    ASSUME NEW row \in Row, RowBudget(row)
    PROVE  /\ RowBudget(Resolved(row)) /\ RowBudget(RetryFailed(row))
           /\ RowBudget(Wiped) /\ RowBudget([row EXCEPT !.due = TRUE])
           /\ RowBudget([row EXCEPT !.lease = "expired"])
           /\ RowBudget([row EXCEPT !.lease = "live"])
           /\ RowBudget([row EXCEPT !.status = "discarded"])
           /\ row.status = "absent" =>
                 RowBudget([row EXCEPT !.status = "pending", !.due = TRUE])
<1>0. MaxDlqAttempts \in Nat /\ MaxDlqAttempts # 0 /\ row.attempts \in Nat
  BY DeadLetterAssumption DEF Row
<1>1. RowBudget(RetryFailed(row))
  BY <1>0 DEF RetryFailed, RowBudget
<1>2. RowBudget(Resolved(row)) /\ RowBudget(Wiped)
  BY DEF Resolved, RowBudget, Wiped, Row
<1>3. /\ RowBudget([row EXCEPT !.due = TRUE])
      /\ RowBudget([row EXCEPT !.lease = "expired"])
      /\ RowBudget([row EXCEPT !.lease = "live"])
      /\ RowBudget([row EXCEPT !.status = "discarded"])
  BY DEF RowBudget, Row
<1>4. row.status = "absent" =>
         RowBudget([row EXCEPT !.status = "pending", !.due = TRUE])
  BY <1>0 DEF RowBudget, Row
<1> QED BY <1>1, <1>2, <1>3, <1>4

\* A letter the worker may retry has retries left and an exhausted one has
\* none, however many concurrent failures are counted (markRetryFailed).
THEOREM DlqBudgetKeptTheorem == Spec => []DlqBudgetKept
<1>1. Init => DlqBudgetInv
  BY DEF Init, DlqBudgetInv, DlqBudgetKept
<1>2. TypeOK /\ DlqBudgetInv /\ [Next]_vars => DlqBudgetInv'
  <2> SUFFICES ASSUME TypeOK, DlqBudgetInv, [Next]_vars PROVE DlqBudgetInv'
    OBVIOUS
  <2>1. ASSUME NEW l \in Letter PROVE RowBudget(rows'[l])
    <3>1. rows \in [Letter -> Row] /\ rows[l] \in Row
      BY DEF TypeOK
    <3>2. RowBudget(rows[l])
      BY DEF DlqBudgetInv, DlqBudgetKept, RowBudget
    <3>3. Changed(l)
      BY <3>1, RowChanges
    <3> QED BY <3>1, <3>2, <3>3, StatementsKeepBudget DEF Changed
  <2> QED BY <2>1 DEF DlqBudgetInv, DlqBudgetKept, RowBudget
<1>3. DlqBudgetInv => DlqBudgetKept
  BY DEF DlqBudgetInv
<1> QED BY <1>1, <1>2, <1>3, DeadLetterTypeCorrect, PTL DEF Spec

=============================================================================
