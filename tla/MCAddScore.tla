----------------------------- MODULE MCAddScore -----------------------------
(* Small instances of AddScore.                                            *)
EXTENDS AddScore, TLC

CONSTANTS c1, c2, c3, c4

FourCalls == {c1, c2, c3, c4}

\* Both ends of the valid range and a value beyond each.
Requests == {-1, 0, 1, 2, 3}

\* A user who has scored before.
Returning == {{0}, {1}}

Symmetry == Permutations(Calls)
=============================================================================
