---------------------------- MODULE MCCommentary ----------------------------
EXTENDS Commentary

CONSTANTS r1, r2, r3

\* Responses are interchangeable: nothing compares them.
Symmetry == Permutations({r1, r2, r3} \cap Responses)
=============================================================================
