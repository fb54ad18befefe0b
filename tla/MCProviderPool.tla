-------------------------- MODULE MCProviderPool --------------------------
(* Instances of the provider pool for TLC.                                 *)
EXTENDS ProviderPool, TLC

CONSTANTS r1, r2, r3, k1, k2

\* All requests of one routing session share a handshake.
SameKey == [r \in Requests |-> k1]
\* r1 and r3 share a handshake, r2 has its own.
MixedKeys == [r \in Requests |-> IF r = r2 THEN k2 ELSE k1]
\* Requests with one handshake are interchangeable.
Symmetry == Permutations(Requests)
=============================================================================
