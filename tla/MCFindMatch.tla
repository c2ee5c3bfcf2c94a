----------------------------- MODULE MCFindMatch -----------------------------
(* Small instances of FindMatch.                                           *)
EXTENDS FindMatch, TLC

CONSTANTS c1, c2, c3, m1, m2, m3

TwoClients == {c1, c2}
ThreeClients == {c1, c2, c3}
Nobody == {}
TwoMatches == {m1, m2}
ThreeMatches == {m1, m2, m3}

\* Users are named after their first client.  One client per user:
Own == [c \in Clients |-> c]

\* Match ids are interchangeable, and so are the clients under Own.
MatchSymmetry == Permutations(Matches)
Symmetry == MatchSymmetry \cup Permutations(Clients)
=============================================================================
