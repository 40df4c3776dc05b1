------------------------------ MODULE MCSettle ------------------------------
(* Small instances of Settle for TLC. *)
EXTENDS Settle, TLC

CONSTANTS r1, r2, k1, i1, x1, p1, p2

\* A payment and its retry under one key, sent with its transaction hash.
RetryInputs == {[key |-> k1, idem |-> i1, pay |-> x1, hash |-> TRUE, pod |-> p]
                  : p \in Pod}

RequestSymmetry == Permutations(Request)
PodSymmetry == Permutations(Request) \cup Permutations(Pod)
=============================================================================
