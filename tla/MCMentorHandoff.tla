--------------------------- MODULE MCMentorHandoff ---------------------------
EXTENDS MentorHandoff, TLC

CONSTANTS r1, r2, r3

\* Requests are interchangeable: nothing compares them.
Symmetry == Permutations({r1, r2, r3})
=============================================================================
