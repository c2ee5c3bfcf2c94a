------------------------------ MODULE MCRewards ------------------------------
(* Small instances of Rewards.                                             *)
EXTENDS Rewards, TLC

CONSTANTS c1, c2, c3

TwoCalls == {c1, c2}
ThreeCalls == {c1, c2, c3}

ClaimAt(field, t) == [f \in Fields |-> IF f = field THEN t ELSE Never]

\* A user who has claimed on the day before, or early on the first day, each
\* time among copies that do not write different fields: Lua raises an error on
\* the object TypeScript has written.
Returning ==
  [object : {{ClaimAt("last_claim_unix", t)} : t \in {DayLength - 1, DayLength}},
   copies : {{"go", "lua"}}]
  \cup
  [object : {{ClaimAt("lastClaimUnix", t)} : t \in {DayLength - 1, DayLength}},
   copies : {{"js", "lua"}}]

\* The clients of this repository: the Go copy only.
Clients == [object : {{ClaimAt("last_claim_unix", DayLength)}}, copies : {{"go"}}]

Symmetry == Permutations(Calls)
=============================================================================
