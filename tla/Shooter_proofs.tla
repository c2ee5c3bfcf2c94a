---------------------------- MODULE Shooter_proofs ----------------------------
(***************************************************************************)
(* Theorems about one match, for every number of users, every health,      *)
(* damage, cooldown and timeout, and without the bounds of the runs.       *)
(***************************************************************************)
EXTENDS Shooter, FiniteSetTheorems, SequenceTheorems, TLAPS

LEMMA DecidedRecord ==
  ASSUME NEW a, NEW b, NEW c, NEW d, NEW e
  PROVE  L!Decided([life |-> a, roster |-> b, started |-> c, over |-> d, open |-> e])
         = [life |-> a, roster |-> b, started |-> c, over |-> TRUE, open |-> FALSE]
<1> DEFINE r1 == [life |-> a, roster |-> b, started |-> c, over |-> d, open |-> e]
           r2 == [life |-> a, roster |-> b, started |-> c, over |-> TRUE, open |-> e]
<1>1. L!Decided(r1) = [[r1 EXCEPT !.over = TRUE] EXCEPT !.open = FALSE]
  BY DEF L!Decided
<1>2. ASSUME NEW v PROVE [r1 EXCEPT !.over = v] =
        [life |-> a, roster |-> b, started |-> c, over |-> v, open |-> e]
  OBVIOUS
<1>3. ASSUME NEW v PROVE [r2 EXCEPT !.open = v] =
        [life |-> a, roster |-> b, started |-> c, over |-> TRUE, open |-> v]
  <2>1. ASSUME NEW t PROVE
          [[life |-> a, roster |-> b, started |-> c, over |-> t, open |-> e]
             EXCEPT !.open = v] =
          [life |-> a, roster |-> b, started |-> c, over |-> t, open |-> v]
    OBVIOUS
  <2>2. QED BY <2>1
<1>4. QED BY <1>1, <1>2, <1>3

LEMMA SameCardinality == \A S : L!Cardinality(S) = Cardinality(S)
BY DEF L!Cardinality, Cardinality

LEMMA EnteredFields ==
  ASSUME NEW r, NEW U, NEW b, NEW c, r.roster = b, r.started = c
  PROVE  L!Entered(r, U) =
           IF Cardinality(b \cup U) = maxPlayers /\ ~c
           THEN [r EXCEPT !.roster = b \cup U, !.started = TRUE, !.open = FALSE]
           ELSE [r EXCEPT !.roster = b \cup U]
BY SameCardinality DEF L!Entered

LEMMA EnteredRecord ==
  ASSUME NEW a, NEW b, NEW c, NEW d, NEW e, NEW U
  PROVE  L!Entered([life |-> a, roster |-> b, started |-> c, over |-> d, open |-> e], U)
         = IF Cardinality(b \cup U) = maxPlayers /\ ~c
           THEN [life |-> a, roster |-> b \cup U, started |-> TRUE,
                 over |-> d, open |-> FALSE]
           ELSE [life |-> a, roster |-> b \cup U, started |-> c,
                 over |-> d, open |-> e]
<1> DEFINE r == [life |-> a, roster |-> b, started |-> c, over |-> d, open |-> e]
<1>1. r.roster = b /\ r.started = c
  OBVIOUS
<1>2. L!Entered(r, U) =
        IF Cardinality(b \cup U) = maxPlayers /\ ~c
        THEN [r EXCEPT !.roster = b \cup U, !.started = TRUE, !.open = FALSE]
        ELSE [r EXCEPT !.roster = b \cup U]
  BY <1>1, EnteredFields
<1>3. ASSUME NEW x, NEW y, NEW z
      PROVE  [r EXCEPT !.roster = x, !.started = y, !.open = z] =
               [life |-> a, roster |-> x, started |-> y, over |-> d, open |-> z]
  <2>1. [r EXCEPT !.roster = x, !.started = y, !.open = z] =
          [[[r EXCEPT !.roster = x] EXCEPT !.started = y] EXCEPT !.open = z]
    OBVIOUS
  <2>2. [r EXCEPT !.roster = x] =
          [life |-> a, roster |-> x, started |-> c, over |-> d, open |-> e]
    OBVIOUS
  <2>3. [[life |-> a, roster |-> x, started |-> c, over |-> d, open |-> e]
           EXCEPT !.started = y] =
          [life |-> a, roster |-> x, started |-> y, over |-> d, open |-> e]
    OBVIOUS
  <2>4. [[life |-> a, roster |-> x, started |-> y, over |-> d, open |-> e]
           EXCEPT !.open = z] =
          [life |-> a, roster |-> x, started |-> y, over |-> d, open |-> z]
    OBVIOUS
  <2>5. QED BY <2>1, <2>2, <2>3, <2>4
<1>4. [r EXCEPT !.roster = b \cup U] =
        [life |-> a, roster |-> b \cup U, started |-> c, over |-> d, open |-> e]
  OBVIOUS
<1>5. QED BY <1>2, <1>3, <1>4

LEMMA NumberTypes ==
  /\ maxPlayers \in Nat /\ maxPlayers > 0
  /\ startingHealth \in Nat /\ startingHealth > 0
  /\ maxDamage \in Nat /\ maxDamage > 0
  /\ cooldownTicks \in Nat /\ cooldownTicks > 0
  /\ idleTicks \in Nat /\ idleTicks > 0
  /\ graceTicks \in Nat /\ graceTicks > 0
  /\ JoinBatch \in Nat
BY NumbersAssumption

USE IdsAssumption, NumberTypes

(***************************************************************************)
(* Types.  TypeOK needs the idle counter below its limit while the match   *)
(* runs, and that only a started match loops or is decided.                *)
(***************************************************************************)
Typed ==
  /\ TypeOK
  /\ running => emptyTicks < idleTicks
  /\ looping => running /\ started
  /\ finished => started

LEMMA CountEmptyType ==
  ASSUME TypeOK PROVE CountEmpty \in Nat /\ CountEmpty <= emptyTicks + 1
BY DEF TypeOK, CountEmpty

LEMMA AfterHitType ==
  ASSUME NEW health \in 0..startingHealth, NEW damage \in 1..maxDamage
  PROVE  /\ AfterHit(health, damage) \in 0..startingHealth
         /\ AfterHit(health, damage) <= health
BY DEF AfterHit

LEMMA JoinTyped ==
  ASSUME Typed, NEW P \in SUBSET Sessions, MatchJoin(P) PROVE Typed'
<1>1. {UserOf[s] : s \in P} \subseteq Users
  OBVIOUS
<1>2. /\ DOMAIN players' \subseteq Users
      /\ players' \in [DOMAIN players' -> Player]
      /\ \A u \in DOMAIN players' : players'[u].lastShotTick <= tick
  <2>1. NewPlayer \in Player /\ NewPlayer.lastShotTick = 0
    BY DEF NewPlayer, Player
  <2>2. DOMAIN players' = DOMAIN players \cup {UserOf[s] : s \in P}
    BY DEF MatchJoin, WithPlayers
  <2>3. ASSUME NEW u \in DOMAIN players'
        PROVE  players'[u] \in Player /\ players'[u].lastShotTick <= tick
    <3>1. players'[u] = NewPlayer \/ (u \in DOMAIN players /\ players'[u] = players[u])
      BY <2>2 DEF MatchJoin, WithPlayers
    <3>2. QED BY <2>1, <3>1 DEF Typed, TypeOK
  <2>4. players' = [u \in DOMAIN players' |-> players'[u]]
    BY DEF MatchJoin, WithPlayers
  <2>5. players' \in [DOMAIN players' -> Player]
    BY <2>3, <2>4
  <2>6. DOMAIN players' \subseteq Users
    BY <1>1, <2>2 DEF Typed, TypeOK
  <2>7. QED BY <2>3, <2>5, <2>6
<1>3. stage' \in [Sessions -> Stages]
  BY DEF MatchJoin, Typed, TypeOK, Stages
<1>4. started' \in BOOLEAN /\ label' \in BOOLEAN /\ (started => started')
  BY DEF MatchJoin, Typed, TypeOK
<1>5. QED BY <1>2, <1>3, <1>4 DEF MatchJoin, Typed, TypeOK, Free

LEMMA LeaveTyped ==
  ASSUME Typed, NEW P \in SUBSET Sessions, MatchLeave(P) PROVE Typed'
<1>1. /\ DOMAIN players' \subseteq Users
      /\ players' \in [DOMAIN players' -> Player]
      /\ \A u \in DOMAIN players' : players'[u].lastShotTick <= tick
  <2>1. ASSUME NEW p \in Player
        PROVE  /\ [p EXCEPT !.health = 0] \in Player
               /\ [p EXCEPT !.health = 0].lastShotTick = p.lastShotTick
    <3>1. 0 \in 0..startingHealth
      OBVIOUS
    <3>2. QED BY <3>1 DEF Player
  <2>2. CASE started
    <3>1. DOMAIN players' = DOMAIN players
          /\ players' = [u \in DOMAIN players |-> players'[u]]
      BY <2>2 DEF MatchLeave, WithoutPlayers
    <3>2. ASSUME NEW u \in DOMAIN players
          PROVE  players'[u] \in Player /\ players'[u].lastShotTick <= tick
      <4>1. \/ players'[u] = players[u]
            \/ players'[u] = [players[u] EXCEPT !.health = 0]
        BY <2>2 DEF MatchLeave, WithoutPlayers
      <4>2. players[u] \in Player /\ players[u].lastShotTick <= tick
        BY DEF Typed, TypeOK
      <4>3. QED BY <2>1, <4>1, <4>2
    <3>3. players' \in [DOMAIN players -> Player]
      BY <3>1, <3>2
    <3>4. QED BY <3>1, <3>2, <3>3 DEF Typed, TypeOK
  <2>3. CASE ~started
    BY <2>3 DEF MatchLeave, WithoutPlayers, Typed, TypeOK
  <2>4. QED BY <2>2, <2>3 DEF Typed, TypeOK
<1>2. stage' \in [Sessions -> Stages]
  BY DEF MatchLeave, Typed, TypeOK, Stages
<1>3. orphaned' \subseteq Sessions
  BY DEF MatchLeave, Present, Typed, TypeOK
<1>4. QED BY <1>1, <1>2, <1>3 DEF MatchLeave, Typed, TypeOK, Free

LEMMA LoopMessageTyped ==
  ASSUME Typed, LoopMessage PROVE Typed'
<1>1. Head(messages) \in Users /\ messages' \in Seq(Users)
  BY DEF LoopMessage, Typed, TypeOK
<1>2. /\ DOMAIN players' = DOMAIN players
      /\ players' \in [DOMAIN players' -> Player]
      /\ \A u \in DOMAIN players' : players'[u].lastShotTick <= tick
      /\ dirty' \in BOOLEAN /\ shots' \in [Users -> Nat]
  <2>1. CASE UNCHANGED <<players, dirty, shots>>
    BY <2>1 DEF Typed, TypeOK
  <2>2. ASSUME NEW u \in Users, Fires(u), NEW target \in Targets(u),
               NEW damage \in 1..maxDamage, Shoot(u, target, damage)
        PROVE  <1>2
    <3>1. u \in DOMAIN players /\ target \in DOMAIN players /\ target # u
      BY <2>2 DEF Fires, Targets, Alive
    <3>2. AfterHit(players[target].health, damage) \in 0..startingHealth
      BY <3>1, AfterHitType DEF Typed, TypeOK, Player
    <3>3. players' = [v \in DOMAIN players |->
                        IF v = u
                        THEN [players[u] EXCEPT !.lastShotTick = tick]
                        ELSE IF v = target
                        THEN [players[target] EXCEPT
                                !.health = AfterHit(players[target].health, damage)]
                        ELSE players[v]]
      BY <2>2, <3>1 DEF Shoot
    <3>4. \A v \in DOMAIN players :
            players[v] \in Player /\ players[v].lastShotTick <= tick
      BY DEF Typed, TypeOK
    <3>5. \A v \in DOMAIN players :
            players'[v] \in Player /\ players'[v].lastShotTick <= tick
      <4>1. tick \in Nat
        BY DEF Typed, TypeOK
      <4>2. ASSUME NEW v \in DOMAIN players, v = u
            PROVE  players'[v] \in Player /\ players'[v].lastShotTick <= tick
        <5>1. players'[v] = [players[u] EXCEPT !.lastShotTick = tick]
          BY <3>3, <4>2
        <5>2. players[u] \in Player
          BY <3>1, <3>4
        <5>3. QED BY <4>1, <5>1, <5>2 DEF Player
      <4>3. ASSUME NEW v \in DOMAIN players, v # u, v = target
            PROVE  players'[v] \in Player /\ players'[v].lastShotTick <= tick
        <5>1. players'[v] = [players[target] EXCEPT
                               !.health = AfterHit(players[target].health, damage)]
          BY <3>3, <4>3
        <5>2. players[target] \in Player /\ players[target].lastShotTick <= tick
          BY <3>1, <3>4
        <5>3. QED BY <3>2, <5>1, <5>2 DEF Player
      <4>4. ASSUME NEW v \in DOMAIN players, v # u, v # target
            PROVE  players'[v] \in Player /\ players'[v].lastShotTick <= tick
        BY <3>3, <3>4, <4>4
      <4>5. QED BY <4>2, <4>3, <4>4
    <3>6. players' \in [DOMAIN players -> Player] /\ DOMAIN players' = DOMAIN players
      BY <3>3, <3>5
    <3>7. dirty' \in BOOLEAN /\ shots' \in [Users -> Nat]
      BY <2>2 DEF Shoot, Typed, TypeOK
    <3>8. QED BY <3>5, <3>6, <3>7
  <2>3. QED BY <1>1, <2>1, <2>2 DEF LoopMessage
<1>3. QED BY <1>1, <1>2 DEF LoopMessage, Typed, TypeOK

LEMMA LoopFinishTyped ==
  ASSUME Typed, LoopFinish PROVE Typed'
<1>1. /\ finished' \in BOOLEAN /\ label' \in BOOLEAN
      /\ finishedTick' \in 0..tick
      /\ announced' \in Seq(Users \cup {NoUser})
      /\ overtaken' \subseteq Users
  <2>1. CASE Decide
    <3>1. Winners \subseteq Users \cup {NoUser}
      BY DEF Winners, Alive, Typed, TypeOK
    <3>2. PICK w \in Winners : announced' = Append(announced, w)
      BY <2>1 DEF Decide
    <3>3. announced' \in Seq(Users \cup {NoUser})
      BY <3>1, <3>2 DEF Typed, TypeOK
    <3>4. tick \in 0..tick
      BY DEF Typed, TypeOK
    <3>5. OnTheWay \subseteq Users
      BY DEF OnTheWay
    <3>6. QED BY <2>1, <3>3, <3>4, <3>5 DEF Decide
  <2>2. CASE UNCHANGED <<finished, finishedTick, label, announced, overtaken>>
    BY <2>2 DEF Typed, TypeOK
  <2>3. QED BY <2>1, <2>2 DEF LoopFinish
<1>2. running' \in BOOLEAN
  BY DEF LoopFinish, GraceOver
<1>3. finishedTick' \in 0..tick' /\ tick' \in Nat
      /\ \A u \in DOMAIN players : players[u].lastShotTick <= tick'
  BY <1>1 DEF LoopFinish, Typed, TypeOK, Player
<1>4. QED BY <1>1, <1>2, <1>3 DEF LoopFinish, Typed, TypeOK

LEMMA TypedInit == Init => Typed
<1> SUFFICES ASSUME Init PROVE Typed
  OBVIOUS
<1>1. players \in [DOMAIN players -> Player] /\ DOMAIN players = {}
  BY DEF Init
<1>2. <<>> \in Seq(Users) /\ <<>> \in Seq(Users \cup {NoUser})
  OBVIOUS
<1>3. DOMAIN players \subseteq Users
      /\ \A u \in DOMAIN players : players[u].lastShotTick <= tick
  BY <1>1
<1>4. stage \in [Sessions -> Stages] /\ shots \in [Users -> Nat]
  BY DEF Init, Stages
<1>5. 0 \in 0..tick /\ 0 \in 0..idleTicks /\ tick \in Nat /\ label \in BOOLEAN
  BY DEF Init
<1>6. TypeOK
  BY <1>1, <1>2, <1>3, <1>4, <1>5 DEF Init, TypeOK
<1>7. QED BY <1>6 DEF Init, Typed

LEMMA TypedStep == Typed /\ [Next]_vars => Typed'
<1> SUFFICES ASSUME Typed, [Next]_vars PROVE Typed'
  OBVIOUS
<1>1. ASSUME NEW s \in Sessions, MatchJoinAttempt(s) PROVE Typed'
  BY <1>1 DEF MatchJoinAttempt, matchState, history, Typed, TypeOK, Stages
<1>2. ASSUME NEW s \in Sessions, Drop(s) PROVE Typed'
  BY <1>2 DEF Drop, matchState, history, Typed, TypeOK, Stages
<1>3. ASSUME NEW s \in Sessions, Disconnect(s) PROVE Typed'
  BY <1>3 DEF Disconnect, matchState, history, Typed, TypeOK, Stages
<1>4. ASSUME NEW s \in Sessions, SendShoot(s) PROVE Typed'
  <2>1. messages' \in Seq(Users)
    BY <1>4 DEF SendShoot, Typed, TypeOK
  <2>2. QED BY <1>4, <2>1 DEF SendShoot, matchState, history, Typed, TypeOK
<1>5. ASSUME NEW P \in SUBSET Sessions, MatchJoin(P) PROVE Typed'
  BY <1>5, JoinTyped
<1>6. ASSUME NEW P \in SUBSET Sessions, MatchLeave(P) PROVE Typed'
  BY <1>6, LeaveTyped
<1>7. CASE LoopCloseIdle
  <2>1. CountEmpty \in 0..idleTicks
    BY <1>7, CountEmptyType DEF LoopCloseIdle, Turn, Free, Typed, TypeOK
  <2>2. QED BY <1>7, <2>1 DEF LoopCloseIdle, Turn, Free, history, Typed, TypeOK
<1>8. CASE LoopWaiting
  <2>1. CountEmpty \in 0..idleTicks /\ CountEmpty < idleTicks
    BY <1>8, CountEmptyType DEF LoopWaiting, IdleTooLong, Typed
  <2>2. \A u \in DOMAIN players : players[u].lastShotTick <= tick + 1
    BY DEF Typed, TypeOK, Player
  <2>3. <<>> \in Seq(Users)
    OBVIOUS
  <2>4. QED
    BY <1>8, <2>1, <2>2, <2>3 DEF LoopWaiting, Turn, Free, history, Typed, TypeOK
<1>9. CASE LoopEnter
  <2>1. CountEmpty \in 0..idleTicks /\ CountEmpty < idleTicks
    BY <1>9, CountEmptyType DEF LoopEnter, IdleTooLong, Typed
  <2>2. QED BY <1>9, <2>1 DEF LoopEnter, Turn, Free, history, Typed, TypeOK
<1>10. CASE LoopMessage
  BY <1>10, LoopMessageTyped
<1>11. CASE LoopFinish
  BY <1>11, LoopFinishTyped
<1>12. CASE UNCHANGED vars
  BY <1>12 DEF vars, matchState, history, Typed, TypeOK
<1>13. QED
  BY <1>1, <1>2, <1>3, <1>4, <1>5, <1>6, <1>7, <1>8, <1>9, <1>10, <1>11, <1>12
  DEF Next, LoopStep

LEMMA TypedAlways == Spec => []Typed
BY TypedInit, TypedStep, PTL DEF Spec

\* The match state keeps its types: health within 0..startingHealth, no tick
\* of the state in the future, the idle counter at most its limit.
THEOREM TypeCorrect == Spec => []TypeOK
<1>1. Typed => TypeOK
  BY DEF Typed
<1>2. QED BY <1>1, TypedAlways, PTL
-----------------------------------------------------------------------------
(***************************************************************************)
(* The match as matchmaking sees it.  Only joins, leaves, the verdict and  *)
(* the end of the match are visible there.                                 *)
(***************************************************************************)
LEMMA MessageKeepsRoster ==
  ASSUME Typed, LoopMessage PROVE DOMAIN players' = DOMAIN players
BY DEF LoopMessage, Shoot

LEMMA SameView ==
  ASSUME Typed,
         \/ \E s \in Sessions :
              MatchJoinAttempt(s) \/ Drop(s) \/ Disconnect(s) \/ SendShoot(s)
         \/ LoopWaiting \/ LoopEnter \/ LoopMessage \/ UNCHANGED vars
  PROVE  LobbyView' = LobbyView
<1>1. DOMAIN players' = DOMAIN players
  BY MessageKeepsRoster DEF MatchJoinAttempt, Drop, Disconnect, SendShoot,
     LoopWaiting, LoopEnter, matchState, vars
<1>2. /\ running' = running /\ started' = started
      /\ finished' = finished /\ label' = label
  BY DEF MatchJoinAttempt, Drop, Disconnect, SendShoot, LoopWaiting, LoopEnter,
     LoopMessage, matchState, vars
<1>3. QED BY <1>1, <1>2 DEF LobbyView

LEMMA JoinEnters ==
  ASSUME Typed, NEW P \in SUBSET Sessions, MatchJoin(P)
  PROVE  L!Next
<1> DEFINE U == {UserOf[s] : s \in P}
<1>1. U \in SUBSET Users /\ U # {}
  BY DEF MatchJoin
<1>2. DOMAIN players' = DOMAIN players \cup U
  BY DEF MatchJoin, WithPlayers
<1>3. /\ started' = (started \/ StartsNow(players'))
      /\ label' = (label /\ ~StartsNow(players'))
      /\ running' = running /\ finished' = finished /\ running
  BY DEF MatchJoin, Free
<1>4. StartsNow(players') <=>
        Cardinality(DOMAIN players \cup U) = maxPlayers /\ ~started
  BY <1>2 DEF StartsNow
<1>5. LobbyView' = L!Entered(LobbyView, U)
  <2>1. LobbyView = [life |-> "up", roster |-> DOMAIN players,
                     started |-> started, over |-> finished, open |-> label]
    BY <1>3 DEF LobbyView
  <2>4. L!Entered([life |-> "up", roster |-> DOMAIN players, started |-> started,
                   over |-> finished, open |-> label], U) =
          IF Cardinality(DOMAIN players \cup U) = maxPlayers /\ ~started
          THEN [life |-> "up", roster |-> DOMAIN players \cup U, started |-> TRUE,
                over |-> finished, open |-> FALSE]
          ELSE [life |-> "up", roster |-> DOMAIN players \cup U,
                started |-> started, over |-> finished, open |-> label]
    BY EnteredRecord
  <2>2. CASE StartsNow(players')
    <3>1. LobbyView' = [life |-> "up", roster |-> DOMAIN players \cup U,
                        started |-> TRUE, over |-> finished, open |-> FALSE]
      BY <1>2, <1>3, <2>2 DEF LobbyView
    <3>2. L!Entered([life |-> "up", roster |-> DOMAIN players, started |-> started,
                     over |-> finished, open |-> label], U) =
            [life |-> "up", roster |-> DOMAIN players \cup U,
             started |-> TRUE, over |-> finished, open |-> FALSE]
      <4>1. (Cardinality(DOMAIN players \cup U) = maxPlayers /\ ~started)
        BY <1>4, <2>2
      <4>2. QED BY <2>4, <4>1
    <3>3. QED BY <2>1, <3>1, <3>2
  <2>3. CASE ~StartsNow(players')
    <3>1. LobbyView' = [life |-> "up", roster |-> DOMAIN players \cup U,
                        started |-> started, over |-> finished, open |-> label]
      BY <1>2, <1>3, <2>3 DEF LobbyView, Typed, TypeOK
    <3>2. L!Entered([life |-> "up", roster |-> DOMAIN players, started |-> started,
                     over |-> finished, open |-> label], U) =
            [life |-> "up", roster |-> DOMAIN players \cup U,
             started |-> started, over |-> finished, open |-> label]
      <4>1. ~(Cardinality(DOMAIN players \cup U) = maxPlayers /\ ~started)
        BY <1>4, <2>3
      <4>2. QED BY <2>4, <4>1
    <3>3. QED BY <2>1, <3>1, <3>2
  <2>5. QED BY <2>2, <2>3
<1>6. LobbyView.life = "up"
  BY <1>3 DEF LobbyView
<1>7. QED BY <1>1, <1>5, <1>6 DEF L!Next, L!Enter

LEMMA LeaveExits ==
  ASSUME Typed, NEW P \in SUBSET Sessions, MatchLeave(P)
  PROVE  L!Next
<1> DEFINE U == {UserOf[s] : s \in P}
<1>1. U \in SUBSET Users
  OBVIOUS
<1>2. DOMAIN players' = IF started THEN DOMAIN players ELSE DOMAIN players \ U
  BY DEF MatchLeave, WithoutPlayers
<1>3. /\ started' = started /\ label' = label /\ finished' = finished
      /\ running' = running /\ running
  BY DEF MatchLeave, Free
<1>4. LobbyView' = L!Exited(LobbyView, U)
  BY <1>2, <1>3 DEF LobbyView, L!Exited
<1>5. LobbyView.life = "up"
  BY <1>3 DEF LobbyView
<1>6. QED BY <1>1, <1>4, <1>5 DEF L!Next, L!Exit

LEMMA IdleCloses ==
  ASSUME Typed, LoopCloseIdle PROVE L!Next
<1>1. DOMAIN players = {}
  BY DEF LoopCloseIdle, IdleTooLong, CountEmpty
<1>2. running /\ LobbyView.life = "up"
  BY DEF LoopCloseIdle, Turn, Free, LobbyView
<1>3. LobbyView' = L!Closed(LobbyView)
  BY DEF LoopCloseIdle, LobbyView, L!Closed
<1>4. L!MayClose(LobbyView)
  BY <1>1 DEF LobbyView, L!MayClose
<1>5. QED BY <1>2, <1>3, <1>4 DEF L!Next, L!Close

LEMMA VerdictKeepsRunning ==
  ASSUME Typed, LoopFinish, Decide PROVE running'
<1>1. ~GraceOver(finished', finishedTick')
  BY DEF Decide, GraceOver, Typed, TypeOK
<1>2. QED BY <1>1 DEF LoopFinish

LEMMA FinishDecidesOrCloses ==
  ASSUME Typed, LoopFinish PROVE [L!Next]_LobbyView
<1>1. /\ running /\ started /\ DOMAIN players' = DOMAIN players
      /\ started' = started /\ LobbyView.life = "up"
  BY DEF LoopFinish, Typed, LobbyView
<1>2. CASE Decide
  <2>1. LobbyView' = L!Decided(LobbyView)
    <3>1. LobbyView' = [life |-> "up", roster |-> DOMAIN players,
                        started |-> started, over |-> TRUE, open |-> FALSE]
      BY <1>1, <1>2, VerdictKeepsRunning DEF Decide, LobbyView
    <3>2. LobbyView = [life |-> "up", roster |-> DOMAIN players,
                       started |-> started, over |-> finished, open |-> label]
      BY <1>1 DEF LobbyView
    <3>3. QED BY <3>1, <3>2, DecidedRecord
  <2>2. QED BY <1>1, <1>2, <2>1 DEF L!Next, L!Decide, Decide, LobbyView
<1>3. CASE UNCHANGED <<finished, finishedTick, label, announced, overtaken>> /\ running'
  <2>1. LobbyView' = LobbyView
    BY <1>1, <1>3 DEF LobbyView
  <2>2. QED BY <2>1
<1>4. CASE UNCHANGED <<finished, finishedTick, label, announced, overtaken>> /\ ~running'
  <2>1. finished
    BY <1>4 DEF LoopFinish, GraceOver
  <2>2. LobbyView' = L!Closed(LobbyView)
    <3>1. LobbyView' = [life |-> "closed", roster |-> DOMAIN players,
                        started |-> started, over |-> finished, open |-> label]
      BY <1>1, <1>4 DEF LobbyView
    <3>2. LobbyView = [life |-> "up", roster |-> DOMAIN players,
                       started |-> started, over |-> finished, open |-> label]
      BY <1>1 DEF LobbyView
    <3>3. QED BY <3>1, <3>2 DEF L!Closed
  <2>3. L!MayClose(LobbyView)
    BY <2>1 DEF LobbyView, L!MayClose
  <2>4. QED BY <1>1, <2>2, <2>3 DEF L!Next, L!Close
<1>5. QED BY <1>2, <1>3, <1>4 DEF LoopFinish

\* The handler implements Lobby, for any number of players and sessions and
\* any timing: what matchmaking relies on does not depend on the fight.
THEOREM LobbyImplemented == Spec => ImplementsLobby
<1>1. Init => L!Init
  BY DEF Init, L!Init, LobbyView, L!NewLobby
<1>2. Typed /\ [Next]_vars => [L!Next]_LobbyView
  <2> SUFFICES ASSUME Typed, [Next]_vars PROVE [L!Next]_LobbyView
    OBVIOUS
  <2>1. ASSUME NEW P \in SUBSET Sessions, MatchJoin(P) \/ MatchLeave(P)
        PROVE  L!Next
    BY <2>1, JoinEnters, LeaveExits
  <2>2. QED
    BY <2>1, SameView, IdleCloses, FinishDecidesOrCloses DEF Next, LoopStep
<1>3. QED BY <1>1, <1>2, TypedAlways, PTL DEF Spec, ImplementsLobby, L!Spec
-----------------------------------------------------------------------------
(***************************************************************************)
(* Room.  With one presence per MatchJoin the roster cannot pass           *)
(* maxPlayers without being exactly maxPlayers first, so the start test    *)
(* with == is enough.                                                      *)
(***************************************************************************)
RoomInv ==
  /\ Typed
  /\ ~started => Cardinality(DOMAIN players) < maxPlayers
  /\ label => ~started

LEMMA RosterFinite ==
  ASSUME Typed PROVE /\ IsFiniteSet(DOMAIN players)
                     /\ Cardinality(DOMAIN players) \in Nat
BY FS_Subset, FS_CardinalityType DEF Typed, TypeOK

LEMMA JoinOfOne ==
  ASSUME JoinBatch = 1, NEW P \in SUBSET Sessions, MatchJoin(P)
  PROVE  \E s \in Sessions : P = {s}
<1>1. IsFiniteSet(P) /\ P # {} /\ Cardinality(P) <= 1
  BY FS_Subset DEF MatchJoin
<1>2. Cardinality(P) \in Nat /\ Cardinality(P) # 0
  BY <1>1, FS_CardinalityType, FS_EmptySet
<1>3. Cardinality(P) = 1
  BY <1>1, <1>2
<1>4. QED BY <1>1, <1>3, FS_Singleton

LEMMA RoomStep ==
  ASSUME JoinBatch = 1, RoomInv, [Next]_vars PROVE RoomInv'
<1>1. Typed'
  BY TypedStep DEF RoomInv
<1>2. ASSUME NEW P \in SUBSET Sessions, MatchJoin(P) PROVE RoomInv'
  <2>1. PICK s \in Sessions : P = {s}
    BY <1>2, JoinOfOne
  <2>2. DOMAIN players' = DOMAIN players \cup {UserOf[s]}
    BY <1>2, <2>1 DEF MatchJoin, WithPlayers
  <2>3. /\ IsFiniteSet(DOMAIN players) /\ Cardinality(DOMAIN players) \in Nat
    BY RosterFinite DEF RoomInv
  <2>4. /\ Cardinality(DOMAIN players') <= Cardinality(DOMAIN players) + 1
        /\ Cardinality(DOMAIN players') \in Nat
    <3>1. Cardinality(DOMAIN players \cup {UserOf[s]}) =
            IF UserOf[s] \in DOMAIN players THEN Cardinality(DOMAIN players)
                                           ELSE Cardinality(DOMAIN players) + 1
      BY <2>3, FS_AddElement, Zenon
    <3>2. QED BY <2>2, <2>3, <3>1
  <2>5. started' = (started \/ StartsNow(players'))
        /\ label' = (label /\ ~StartsNow(players'))
    BY <1>2 DEF MatchJoin
  <2>6. ~started' => Cardinality(DOMAIN players') < maxPlayers
    <3>1. SUFFICES ASSUME ~started' PROVE Cardinality(DOMAIN players') < maxPlayers
      OBVIOUS
    <3>2. ~started /\ ~StartsNow(players')
      BY <2>5, <3>1
    <3>3. Cardinality(DOMAIN players') # maxPlayers
      BY <3>2 DEF StartsNow
    <3>4. QED BY <2>3, <2>4, <3>2, <3>3, NumberTypes DEF RoomInv
  <2>7. label' => ~started'
    BY <2>5 DEF RoomInv
  <2>8. QED BY <1>1, <2>6, <2>7 DEF RoomInv
<1>3. ASSUME NEW P \in SUBSET Sessions, MatchLeave(P) PROVE RoomInv'
  <2>1. started' = started /\ label' = label
    BY <1>3 DEF MatchLeave
  <2>2. DOMAIN players' \subseteq DOMAIN players
    BY <1>3 DEF MatchLeave, WithoutPlayers
  <2>3. IsFiniteSet(DOMAIN players) /\ Cardinality(DOMAIN players) \in Nat
    BY RosterFinite DEF RoomInv
  <2>4. /\ Cardinality(DOMAIN players') <= Cardinality(DOMAIN players)
        /\ Cardinality(DOMAIN players') \in Nat
    BY <2>2, <2>3, FS_Subset, FS_CardinalityType
  <2>5. QED BY <1>1, <2>1, <2>3, <2>4 DEF RoomInv
<1>4. CASE LoopStep \/ UNCHANGED vars \/
           \E s \in Sessions : MatchJoinAttempt(s) \/ Drop(s) \/ Disconnect(s)
                               \/ SendShoot(s)
  <2>1. DOMAIN players' = DOMAIN players /\ started' = started
    BY <1>4, MessageKeepsRoster DEF RoomInv, LoopStep, MatchJoinAttempt, Drop,
       Disconnect, SendShoot, LoopCloseIdle, LoopWaiting, LoopEnter, LoopMessage,
       LoopFinish, matchState, vars
  <2>2. label' => label
    BY <1>4 DEF LoopStep, MatchJoinAttempt, Drop,
       Disconnect, SendShoot, LoopCloseIdle, LoopWaiting, LoopEnter, LoopMessage,
       LoopFinish, Decide, matchState, vars
  <2>3. QED BY <1>1, <2>1, <2>2 DEF RoomInv
<1>5. QED BY <1>2, <1>3, <1>4 DEF Next

LEMMA RoomAlways == ASSUME JoinBatch = 1 PROVE Spec => []RoomInv
<1>1. Init => RoomInv
  BY TypedInit, FS_EmptySet DEF Init, RoomInv
<1>2. RoomInv /\ [Next]_vars => RoomInv'
  BY RoomStep
<1>3. QED BY <1>1, <1>2, PTL DEF Spec

\* No interleaving of single joins, leaves and loops leaves a full match that
\* has not started (match_handler.go:126).
THEOREM FullAlwaysStarted ==
  ASSUME JoinBatch = 1 PROVE Spec => []FullMeansStarted
<1>1. RoomInv => FullMeansStarted
  BY RosterFinite DEF RoomInv, FullMeansStarted
<1>2. QED BY <1>1, RoomAlways, PTL

\* A match advertises itself as open only while it can take a player
\* (match_handler.go:29).
THEOREM OpenAlwaysHasRoom ==
  ASSUME JoinBatch = 1 PROVE Spec => []OpenMeansRoom
<1>1. RoomInv => OpenMeansRoom
  BY DEF RoomInv, Typed, OpenMeansRoom
<1>2. QED BY <1>1, RoomAlways, PTL
-----------------------------------------------------------------------------
(***************************************************************************)
(* What the clients see, and when a decided match ends.                    *)
(***************************************************************************)
SyncInv ==
  /\ Typed
  /\ ~looping \/ ~dirty => synced = View(players, started)
  /\ running /\ finished => tick - finishedTick <= graceTicks

LEMMA SyncStep == ASSUME SyncInv, [Next]_vars PROVE SyncInv'
<1>1. Typed'
  BY TypedStep DEF SyncInv
<1>2. ASSUME NEW P \in SUBSET Sessions, MatchJoin(P) \/ MatchLeave(P)
      PROVE SyncInv'
  BY <1>1, <1>2 DEF MatchJoin, MatchLeave, SyncInv
<1>3. CASE UNCHANGED vars \/
           \E s \in Sessions : MatchJoinAttempt(s) \/ Drop(s) \/ Disconnect(s)
                               \/ SendShoot(s)
  <2>1. UNCHANGED <<running, tick, players, started, finished, finishedTick,
                    looping, dirty, synced>>
    BY <1>3 DEF MatchJoinAttempt, Drop, Disconnect, SendShoot, matchState, vars
  <2>2. View(players', started') = View(players, started)
    BY <2>1
  <2>3. QED BY <1>1, <2>1, <2>2 DEF SyncInv
<1>4. CASE LoopCloseIdle
  BY <1>1, <1>4 DEF LoopCloseIdle, SyncInv
<1>5. CASE LoopWaiting
  BY <1>1, <1>5 DEF LoopWaiting, SyncInv, Typed
<1>6. CASE LoopEnter
  BY <1>1, <1>6 DEF LoopEnter, Turn, Free, SyncInv
<1>7. CASE LoopMessage
  <2>1. UNCHANGED <<players, dirty>> \/ dirty'
    BY <1>7 DEF LoopMessage, Shoot
  <2>2. UNCHANGED <<running, tick, started, finished, finishedTick, looping, synced>>
    BY <1>7 DEF LoopMessage
  <2>3. looping
    BY <1>7 DEF LoopMessage
  <2>4. QED BY <1>1, <2>1, <2>2, <2>3 DEF SyncInv
<1>8. CASE LoopFinish
  <2>1. synced' = View(players', started')
    BY <1>8 DEF LoopFinish, SyncInv, Typed, TypeOK
  <2>2. running' /\ finished' => tick' - finishedTick' <= graceTicks
    <3>1. SUFFICES ASSUME running', finished'
                   PROVE  tick' - finishedTick' <= graceTicks
      OBVIOUS
    <3>2. ~(tick - finishedTick' >= graceTicks)
      BY <1>8, <3>1 DEF LoopFinish, GraceOver
    <3>3. finishedTick' \in Nat /\ tick \in Nat /\ tick' = tick + 1
      BY <1>1, <1>8 DEF LoopFinish, SyncInv, Typed, TypeOK
    <3>4. \A t, f, g \in Nat : ~(t - f >= g) => (t + 1) - f <= g
      OBVIOUS
    <3>5. QED BY <3>2, <3>3, <3>4, NumberTypes
  <2>3. QED BY <1>1, <2>1, <2>2 DEF SyncInv
<1>9. QED BY <1>2, <1>3, <1>4, <1>5, <1>6, <1>7, <1>8 DEF Next, LoopStep

LEMMA SyncAlways == Spec => []SyncInv
<1>1. Init => SyncInv
  BY TypedInit DEF Init, SyncInv
<1>2. SyncInv /\ [Next]_vars => SyncInv'
  BY SyncStep
<1>3. QED BY <1>1, <1>2, PTL DEF Spec

\* No path changes a health without broadcasting it before the call returns.
THEOREM ClientsAlwaysInSync == Spec => []ClientsInSync
<1>1. SyncInv => ClientsInSync
  BY DEF SyncInv, ClientsInSync, Free
<1>2. QED BY <1>1, SyncAlways, PTL

\* A match never outlives its grace period.
THEOREM GraceAlwaysBounded == Spec => []GraceBounded
<1>1. SyncInv => GraceBounded
  BY DEF SyncInv, GraceBounded
<1>2. QED BY <1>1, SyncAlways, PTL
=============================================================================
