----------------------------- MODULE MCDelivery -----------------------------
(***************************************************************************)
(* What leaves a process: dead letters and webhooks, and the keys,         *)
(* signatures and credentials it needs for that. The parts share no state, *)
(* so a behaviour moves one of them and the others stay as they start:     *)
(* interleaving them would only multiply their states.                     *)
(***************************************************************************)
EXTENDS DeadLetter, Webhook, KeyRing, MultiSigner, VaultLease, TLC

CONSTANTS
    l1, w1, w2, o1, p1, p2

VARIABLE part

\* Two overlapping cycles, each in a process of its own; the replay is with the first.
TwoHosts == [a \in Worker \cup Replay |-> IF a = w2 THEN p2 ELSE p1]

\* Sources of one key, of two, and with a kid twice, which is refused.
KeySets == {{<<"a", 1>>}, {<<"b", 1>>}, {<<"b", 2>>},
            {<<"a", 1>>, <<"b", 1>>}, {<<"a", 1>>, <<"a", 2>>}}

DeliveryInit ==
    /\ part \in {"letters", "hooks", "keys", "signers", "vault"}
    /\ Init /\ HookInit /\ RingInit /\ MultiInit /\ VaultInit
    /\ part # "hooks" => hookKind = "kafka" /\ group.known /\ hasDlq
    /\ hookKind = "direct" => group.known
    /\ part # "keys" => source = {<<"a", 1>>}

DeliveryNext ==
    /\ UNCHANGED part
    /\ IF part = "letters" THEN Next ELSE UNCHANGED vars
    /\ IF part = "hooks" THEN HookNext ELSE UNCHANGED hookVars
    /\ IF part = "keys" THEN RingNext ELSE UNCHANGED ringVars
    /\ IF part = "signers" THEN MultiNext ELSE UNCHANGED multiVars
    /\ IF part = "vault" THEN VaultNext ELSE UNCHANGED vaultVars

\* Retry cycles start, statements and publishes come back, and time passes.
LettersFair ==
    /\ \A w \in Worker : WF_vars(part = "letters" /\ Cycle(w))
    /\ \A l \in Letter : WF_vars(part = "letters" /\ Elapse(l))

\* Awaited calls return, the consumer polls, a restarted process starts it again.
HooksFair ==
    /\ \A m \in Msg : WF_hookVars(part = "hooks" /\ HookStep(m))
    /\ WF_hookVars(part = "hooks" /\ Loaded)
    /\ WF_hookVars(part = "hooks" /\ (EachMessage \/ SkipMessage))
    /\ WF_hookVars(part = "hooks" /\ Connect)
    /\ WF_hookVars(part = "hooks" /\ Join)

\* The poll timer fires, and the source answers or the fetch times out.
KeysFair ==
    /\ WF_ringVars(part = "keys" /\ RefreshTick)
    /\ WF_ringVars(part = "keys" /\ (RefreshReply \/ RefreshFails))

DeliverySpec ==
    /\ DeliveryInit
    /\ [][DeliveryNext]_<<part, vars, hookVars, ringVars, multiVars, vaultVars>>
    /\ LettersFair /\ HooksFair /\ KeysFair
=============================================================================
