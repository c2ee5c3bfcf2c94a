------------------------------- MODULE SeatPool -------------------------------
(***************************************************************************)
(* What holding seats promises (README.md:106-114): a match's free places  *)
(* are handed out one per user, and never more than the match has beside   *)
(* the players counted inside it; a place comes back when its user arrives *)
(* or never comes.  A count is good for one promise.  Players come and go  *)
(* at any time, so a count may be out of date when the promise is made.    *)
(***************************************************************************)
EXTENDS Naturals, FiniteSets

CONSTANTS Matches, Users, maxPlayers

VARIABLES
  promised,     \* match -> users on their way to it
  inside,       \* match -> number of players in it
  counted       \* <<match, number of players>> for the next promise

vars == <<promised, inside, counted>>

Init ==
  /\ promised = [m \in Matches |-> {}]
  /\ inside = [m \in Matches |-> 0]
  /\ counted = {}

\* Matches are counted, any number of them; older counts may be kept.
Count ==
  /\ counted' \subseteq counted \cup {<<m, inside[m]>> : m \in Matches}
  /\ UNCHANGED <<promised, inside>>

Promise(m, u) ==
  /\ u \notin promised[m]
  /\ \E count \in counted :
       count[1] = m /\ count[2] + Cardinality(promised[m]) < maxPlayers
  /\ promised' = [promised EXCEPT ![m] = promised[m] \cup {u}]
  /\ counted' = {}
  /\ UNCHANGED inside

\* A promised user arrives, or promises nobody redeemed are dropped, of any
\* number of matches at once; counts may be dropped, too.
Lapse ==
  /\ promised' \in [Matches -> SUBSET Users]
  /\ \A m \in Matches : promised'[m] \subseteq promised[m]
  /\ counted' \subseteq counted
  /\ UNCHANGED inside

\* Players come and go.
Visit ==
  /\ inside' \in [Matches -> Nat]
  /\ UNCHANGED <<promised, counted>>

Next ==
  \/ \E m \in Matches, u \in Users : Promise(m, u)
  \/ Count \/ Lapse \/ Visit

Spec == Init /\ [][Next]_vars
=============================================================================
