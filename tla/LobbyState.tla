----------------------------- MODULE LobbyState -----------------------------
(***************************************************************************)
(* A match as matchmaking sees it: who is in it, whether it has started,   *)
(* whether it is decided, and the label it advertises.  The shooter's      *)
(* health, cooldowns and ticks are left out; module Shooter has them and   *)
(* is shown to implement the life described here (module Lobby).  The      *)
(* operators are values of the match after one call of match_handler.go.   *)
(***************************************************************************)
EXTENDS Naturals, FiniteSets

CONSTANT maxPlayers     \* players in a match (maxPlayers = 2)

ASSUME MaxPlayersAssumption == maxPlayers \in Nat \ {0}

\* "up" from MatchCreate until a MatchLoop call returns nil.
Lives == {"unborn", "up", "closed"}

\* MatchInit: nobody in it, not started, label open.
NewLobby ==
  [life |-> "up", roster |-> {}, started |-> FALSE, over |-> FALSE,
   open |-> TRUE]

\* An id MatchCreate has not handed out yet.
Unborn == [NewLobby EXCEPT !.life = "unborn"]

\* MatchJoinAttempt's three refusals, negated.
Admits(g, u) ==
  /\ ~g.over
  /\ Cardinality(g.roster) < maxPlayers
  /\ u \notin g.roster

\* MatchJoin with the users U: the match starts, and stops advertising, when
\* the roster is then exactly full.
Entered(g, U) ==
  LET roster == g.roster \cup U
  IN  IF Cardinality(roster) = maxPlayers /\ ~g.started
      THEN [g EXCEPT !.roster = roster, !.started = TRUE, !.open = FALSE]
      ELSE [g EXCEPT !.roster = roster]

\* MatchLeave with the users U: a running match keeps the leaver in the list
\* (a forfeit), a waiting one frees the slot.
Exited(g, U) ==
  IF g.started THEN g ELSE [g EXCEPT !.roster = g.roster \ U]

\* MatchLoop finds at most one player standing.
Decided(g) == [g EXCEPT !.over = TRUE, !.open = FALSE]

\* MatchLoop may return nil: idle for long enough, or decided and past its
\* grace period.
MayClose(g) == g.over \/ g.roster = {}

Closed(g) == [g EXCEPT !.life = "closed"]
=============================================================================
