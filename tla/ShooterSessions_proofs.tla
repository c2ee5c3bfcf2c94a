------------------------ MODULE ShooterSessions_proofs ------------------------
(***************************************************************************)
(* What one match guarantees its sessions, however many of them a user     *)
(* has.  MatchJoinAttempt reserves nothing for the session it admits, so a *)
(* MatchJoin may come late, and a MatchLeave may be that of a user's other *)
(* session; the theorems name what such a call can still change.  Only the *)
(* cooldown needs one session per user, the state that session_events.go   *)
(* means to bring about (theorem OneSessionSettled of Sessions_proofs).    *)
(***************************************************************************)
EXTENDS Shooter_proofs

USE IdsAssumption, NumberTypes

\* A callback of the platform that moves one session, and leaves the match
\* state alone.
SessionMoves ==
  \E s \in Sessions : MatchJoinAttempt(s) \/ Drop(s) \/ Disconnect(s) \/ SendShoot(s)

LEMMA SessionMovesKeep ==
  ASSUME SessionMoves
  PROVE  UNCHANGED <<running, tick, players, started, finished, finishedTick,
                     announced, shots>>
BY DEF SessionMoves, MatchJoinAttempt, Drop, Disconnect, SendShoot, matchState, history

(***************************************************************************)
(* What a message of the loop does to the players.                         *)
(***************************************************************************)
LEMMA MessageCases ==
  ASSUME Typed, LoopMessage
  PROVE  \/ UNCHANGED <<players, shots>>
         \/ \E u \in Users : \E target \in Targets(u), damage \in 1..maxDamage :
              Fires(u) /\ Shoot(u, target, damage)
<1>1. Head(messages) \in Users
  BY DEF LoopMessage, Typed, TypeOK
<1>2. QED BY <1>1 DEF LoopMessage

LEMMA ShootEffect ==
  ASSUME Typed, NEW u \in Users, Fires(u), NEW target \in Targets(u),
         NEW damage \in 1..maxDamage, Shoot(u, target, damage)
  PROVE  /\ u \in DOMAIN players /\ DOMAIN players' = DOMAIN players
         /\ \A v \in DOMAIN players : players'[v].health <= players[v].health
         /\ players'[u].lastShotTick = tick
         /\ \A v \in DOMAIN players \ {u} :
              players'[v].lastShotTick = players[v].lastShotTick
         /\ shots' = [shots EXCEPT ![u] = shots[u] + 1]
<1>1. u \in DOMAIN players /\ target \in DOMAIN players /\ target # u
  BY DEF Fires, Targets, Alive
<1>2. players' = [v \in DOMAIN players |->
                    IF v = u
                    THEN [players[u] EXCEPT !.lastShotTick = tick]
                    ELSE IF v = target
                    THEN [players[target] EXCEPT
                            !.health = AfterHit(players[target].health, damage)]
                    ELSE players[v]]
  BY <1>1 DEF Shoot
<1>3. \A v \in DOMAIN players : players[v] \in Player
  BY DEF Typed, TypeOK
<1>4. AfterHit(players[target].health, damage) <= players[target].health
  BY <1>1, <1>3, AfterHitType DEF Player
<1>5. ASSUME NEW p \in Player, NEW h
      PROVE  /\ [p EXCEPT !.health = h].health = h
             /\ [p EXCEPT !.health = h].lastShotTick = p.lastShotTick
             /\ [p EXCEPT !.lastShotTick = h].health = p.health
             /\ [p EXCEPT !.lastShotTick = h].lastShotTick = h
             /\ p.health \in Nat
  BY DEF Player
<1>6. ASSUME NEW v \in DOMAIN players
      PROVE  /\ players'[v].health <= players[v].health
             /\ v # u => players'[v].lastShotTick = players[v].lastShotTick
  <2>1. players[v] \in Player /\ players[v].health <= players[v].health
    BY <1>3, <1>5
  <2>2. CASE v = u
    <3>1. players'[v].health = players[v].health
      BY <1>2, <1>5, <2>1, <2>2
    <3>2. QED BY <2>1, <2>2, <3>1
  <2>3. CASE v = target
    <3>1. players'[v] = [players[v] EXCEPT
                           !.health = AfterHit(players[v].health, damage)]
      BY <1>1, <1>2, <2>3
    <3>2. QED BY <1>4, <1>5, <2>1, <2>3, <3>1
  <2>4. CASE v # u /\ v # target
    <3>1. players'[v] = players[v]
      BY <1>2, <2>4
    <3>2. QED BY <2>1, <3>1
  <2>5. QED BY <2>2, <2>3, <2>4
<1>7. players'[u].lastShotTick = tick
  <2>1. players'[u] = [players[u] EXCEPT !.lastShotTick = tick]
    BY <1>1, <1>2
  <2>2. players[u] \in Player
    BY <1>1, <1>3
  <2>3. QED BY <1>5, <2>1, <2>2
<1>8. QED BY <1>1, <1>2, <1>6, <1>7 DEF Shoot
-----------------------------------------------------------------------------
(***************************************************************************)
(* Health.  Only MatchJoin raises it, and only for the users it enters.    *)
(***************************************************************************)
LEMMA HealthFalls ==
  ASSUME Typed, started, [Next]_vars, NEW u \in DOMAIN players,
         \A P \in SUBSET Sessions : MatchJoin(P) => u \notin {UserOf[s] : s \in P}
  PROVE  u \in DOMAIN players' /\ players'[u].health <= players[u].health
<1>1. players[u] \in Player /\ players[u].health \in Nat
  BY DEF Typed, TypeOK, Player
<1>2. ASSUME NEW P \in SUBSET Sessions, MatchJoin(P)
      PROVE  u \in DOMAIN players' /\ players'[u].health <= players[u].health
  <2>1. u \in DOMAIN players' /\ players'[u] = players[u]
    BY <1>2 DEF MatchJoin, WithPlayers
  <2>2. players'[u].health = players[u].health
    BY <2>1
  <2>3. QED BY <1>1, <2>1, <2>2
<1>3. ASSUME NEW P \in SUBSET Sessions, MatchLeave(P)
      PROVE  u \in DOMAIN players' /\ players'[u].health <= players[u].health
  <2>1. ASSUME NEW p \in Player PROVE [p EXCEPT !.health = 0].health = 0
    BY DEF Player
  <2>2. /\ u \in DOMAIN players'
        /\ \/ players'[u] = players[u]
           \/ players'[u] = [players[u] EXCEPT !.health = 0]
    BY <1>3 DEF MatchLeave, WithoutPlayers
  <2>3. CASE players'[u] = players[u]
    <3>1. players'[u].health = players[u].health
      BY <2>3
    <3>2. QED BY <1>1, <2>2, <3>1
  <2>4. CASE players'[u] = [players[u] EXCEPT !.health = 0]
    <3>1. players'[u].health = 0
      BY <1>1, <2>1, <2>4
    <3>2. QED BY <1>1, <2>2, <3>1
  <2>5. QED BY <2>2, <2>3, <2>4
<1>4. CASE LoopMessage
  <2>1. CASE UNCHANGED <<players, shots>>
    <3>1. players' = players
      BY <2>1
    <3>2. QED BY <1>1, <3>1
  <2>2. ASSUME NEW v \in Users, NEW target \in Targets(v),
               NEW damage \in 1..maxDamage, Fires(v), Shoot(v, target, damage)
        PROVE  u \in DOMAIN players' /\ players'[u].health <= players[u].health
    BY <2>2, ShootEffect
  <2>3. QED BY <1>4, <2>1, <2>2, MessageCases
<1>5. CASE players' = players
  BY <1>1, <1>5
<1>6. QED
  BY <1>2, <1>3, <1>4, <1>5, SessionMovesKeep
  DEF Next, SessionMoves, LoopStep, LoopCloseIdle, LoopWaiting, LoopEnter,
      LoopFinish, matchState, vars

LEMMA AdmittedOnTheWay ==
  ASSUME NEW s \in Sessions, stage[s] = "admitted"
  PROVE  UserOf[s] \in OnTheWay
BY DEF OnTheWay

LEMMA SettledStep ==
  ASSUME Typed, [Next]_vars, NEW u \in Users, Settled(u)
  PROVE  Settled(u)' /\ players'[u].health <= players[u].health
<1>1. started /\ u \in DOMAIN players /\ u \notin OnTheWay
  BY DEF Settled
<1>2. \A P \in SUBSET Sessions : MatchJoin(P) => u \notin {UserOf[s] : s \in P}
  BY <1>1, AdmittedOnTheWay DEF MatchJoin
<1>3. u \in DOMAIN players' /\ players'[u].health <= players[u].health
  BY <1>1, <1>2, HealthFalls
<1>4. started'
  BY <1>1, SessionMovesKeep
  DEF Next, SessionMoves, MatchJoin, MatchLeave, LoopStep, LoopCloseIdle,
      LoopWaiting, LoopEnter, LoopMessage, LoopFinish, matchState, vars
<1>5. ASSUME NEW s \in Sessions, stage'[s] = "admitted", UserOf[s] = u
      PROVE  FALSE
  <2>1. stage \in [Sessions -> Stages]
    BY DEF Typed, TypeOK
  <2>2. stage[s] # "admitted"
    BY <1>1, <1>5, AdmittedOnTheWay
  <2>3. MatchJoinAttempt(s)
    BY <1>5, <2>1, <2>2
    DEF Next, MatchJoinAttempt, Drop, Disconnect, SendShoot, MatchJoin, MatchLeave,
        LoopStep, LoopCloseIdle, LoopWaiting, LoopEnter, LoopMessage, LoopFinish,
        vars
  <2>4. QED BY <1>1, <1>5, <2>3 DEF MatchJoinAttempt, Admits
<1>6. u \notin OnTheWay'
  BY <1>5 DEF OnTheWay
<1>7. QED BY <1>3, <1>4, <1>6 DEF Settled

\* In a running match a player none of whose sessions is on its way never
\* recovers health and is never let in again (match_handler.go:102 and 117),
\* for any number of sessions: only a session admitted before can undo a
\* forfeit.
THEOREM HealthNeverRecovers == Spec => SettledNeverRecovers
<1>1. Typed /\ [Next]_vars =>
        [\A u \in Users :
           Settled(u) => Settled(u)' /\ players'[u].health <= players[u].health]_vars
  BY SettledStep
<1>2. QED BY <1>1, TypedAlways, PTL DEF Spec, SettledNeverRecovers
-----------------------------------------------------------------------------
(***************************************************************************)
(* The end of a match under its sessions.  A session in the match has its  *)
(* user's player there, unless the leave of another session took it away.  *)
(***************************************************************************)
PresentInv ==
  /\ Typed
  /\ \A s \in Present \ orphaned : UserOf[s] \in DOMAIN players

LEMMA PresentStep ==
  ASSUME PresentInv, [Next]_vars PROVE PresentInv'
<1>1. Typed' /\ Typed
  BY TypedStep DEF PresentInv
<1>2. ASSUME NEW P \in SUBSET Sessions, MatchJoin(P) PROVE PresentInv'
  <2>1. DOMAIN players' = DOMAIN players \cup {UserOf[s] : s \in P}
    BY <1>2 DEF MatchJoin, WithPlayers
  <2>2. ASSUME NEW s \in Sessions, stage'[s] = "present", s \notin orphaned'
        PROVE  UserOf[s] \in DOMAIN players'
    <3>1. CASE UserOf[s] \in {UserOf[t] : t \in P}
      BY <2>1, <3>1
    <3>2. CASE UserOf[s] \notin {UserOf[t] : t \in P}
      <4>1. s \notin P /\ s \notin orphaned
        BY <1>2, <2>2, <3>2 DEF MatchJoin
      <4>2. stage[s] = "present"
        BY <1>2, <2>2, <4>1 DEF MatchJoin
      <4>3. QED BY <2>1, <4>1, <4>2 DEF PresentInv, Present
    <3>3. QED BY <3>1, <3>2
  <2>3. QED BY <1>1, <2>2 DEF PresentInv, Present
<1>3. ASSUME NEW P \in SUBSET Sessions, MatchLeave(P) PROVE PresentInv'
  <2>1. ASSUME NEW s \in Sessions, stage'[s] = "present", s \notin orphaned'
        PROVE  UserOf[s] \in DOMAIN players'
    <3>1. s \in Present \ orphaned
      BY <1>3, <2>1 DEF MatchLeave, Present
    <3>2. UserOf[s] \in DOMAIN players
      BY <3>1 DEF PresentInv
    <3>3. CASE started
      BY <1>3, <3>2, <3>3 DEF MatchLeave, WithoutPlayers
    <3>4. CASE ~started
      <4>1. UserOf[s] \notin {UserOf[t] : t \in P}
        BY <1>3, <2>1, <3>1, <3>4 DEF MatchLeave
      <4>2. QED BY <1>3, <3>2, <3>4, <4>1 DEF MatchLeave, WithoutPlayers
    <3>5. QED BY <3>3, <3>4
  <2>2. QED BY <1>1, <2>1 DEF PresentInv, Present
<1>4. ASSUME NEW s \in Sessions, Disconnect(s) PROVE PresentInv'
  <2>1. players' = players /\ orphaned' = orphaned \ {s}
    BY <1>4 DEF Disconnect, matchState
  <2>2. stage' = [stage EXCEPT ![s] = "leaving"] /\ stage \in [Sessions -> Stages]
    BY <1>1, <1>4 DEF Disconnect, Typed, TypeOK
  <2>3. Present' = Present \ {s}
    BY <2>2 DEF Present
  <2>4. QED BY <1>1, <2>1, <2>3 DEF PresentInv
<1>5. ASSUME NEW s \in Sessions, MatchJoinAttempt(s) \/ Drop(s) \/ SendShoot(s)
      PROVE  PresentInv'
  <2>1. players' = players /\ orphaned' = orphaned
    BY <1>5 DEF MatchJoinAttempt, Drop, SendShoot, matchState, history
  <2>2. stage \in [Sessions -> Stages]
    BY <1>1 DEF Typed, TypeOK
  <2>3. Present' = Present
    BY <1>5, <2>2 DEF MatchJoinAttempt, Drop, SendShoot, Present
  <2>4. QED BY <1>1, <2>1, <2>3 DEF PresentInv
<1>6. CASE LoopStep \/ UNCHANGED vars
  <2>1. DOMAIN players' = DOMAIN players /\ stage' = stage /\ orphaned' = orphaned
    BY <1>1, <1>6, MessageKeepsRoster DEF LoopStep, LoopCloseIdle,
       LoopWaiting, LoopEnter, LoopMessage, LoopFinish, matchState, history, vars
  <2>2. QED BY <1>1, <2>1 DEF PresentInv, Present
<1>7. QED BY <1>2, <1>3, <1>4, <1>5, <1>6 DEF Next

LEMMA EndJustified ==
  ASSUME PresentInv, [Next]_vars, running, ~running'
  PROVE  \/ finished /\ tick - finishedTick >= graceTicks
         \/ Present \subseteq orphaned
<1>1. CASE LoopCloseIdle
  <2>1. DOMAIN players = {}
    BY <1>1 DEF LoopCloseIdle, IdleTooLong, CountEmpty
  <2>2. QED BY <2>1 DEF PresentInv
<1>2. CASE LoopFinish
  <2>1. UNCHANGED <<finished, finishedTick>>
    BY <1>2, VerdictKeepsRunning DEF LoopFinish, PresentInv
  <2>2. QED BY <1>2, <2>1 DEF LoopFinish, GraceOver
<1>3. QED
  BY <1>1, <1>2, SessionMovesKeep
  DEF Next, SessionMoves, MatchJoin, MatchLeave, LoopStep, LoopWaiting,
      LoopEnter, LoopMessage, vars

\* MatchLoop ends a match under a session that is in it only after the whole
\* grace period (match_handler.go:145 and 201), or when the leave of another
\* session of the same user had deleted the player of each session there
\* (match_handler.go:303); with any number of sessions per user.
THEOREM NobodyTornDown == Spec => NeverTornDownEarly
<1>1. Init => PresentInv
  BY TypedInit DEF Init, PresentInv, Present
<1>2. PresentInv /\ [Next]_vars => PresentInv'
  BY PresentStep
<1>3. PresentInv /\ [Next]_vars =>
        [running /\ ~running' =>
           \/ finished /\ tick - finishedTick >= graceTicks
           \/ Present \subseteq orphaned]_vars
  BY EndJustified
<1>4. QED BY <1>1, <1>2, <1>3, PTL DEF Spec, NeverTornDownEarly
-----------------------------------------------------------------------------
(***************************************************************************)
(* The verdict.  After it nobody is admitted, so whoever still joins was   *)
(* on the way when it fell; everybody else can only fall.                  *)
(***************************************************************************)
VerdictInv ==
  /\ Typed
  /\ ~finished => announced = <<>>
  /\ VerdictStands
  /\ finished => OnTheWay \subseteq overtaken

LEMMA WinnerIsLast ==
  ASSUME Typed, Decide, announced = <<>>
  PROVE  Len(announced') = 1 /\ Alive \subseteq {announced'[1]}
<1>1. PICK w \in Winners : announced' = Append(announced, w)
  BY DEF Decide
<1>2. Len(announced') = 1 /\ announced'[1] = w
  BY <1>1
<1>3. Alive \subseteq {w}
  <2>1. CASE Alive = {}
    BY <2>1
  <2>2. CASE Alive # {}
    <3>1. w \in Alive
      BY <1>1, <2>2 DEF Winners
    <3>2. IsFiniteSet(Alive) /\ Cardinality(Alive) \in Nat
      BY RosterFinite, FS_Subset, FS_CardinalityType DEF Alive
    <3>3. Cardinality(Alive) # 0
      BY <3>1, <3>2, FS_EmptySet
    <3>4. Cardinality(Alive) = 1
      BY <3>2, <3>3 DEF Decide, IsMatchOver
    <3>5. PICK x : Alive = {x}
      BY <3>2, <3>4, FS_Singleton
    <3>6. QED BY <3>1, <3>5
  <2>3. QED BY <2>1, <2>2
<1>4. QED BY <1>2, <1>3

LEMMA AliveHealth ==
  ASSUME Typed', Typed, NEW u \in Alive', u \in DOMAIN players,
         players'[u].health <= players[u].health
  PROVE  u \in Alive
<1>1. u \in DOMAIN players' /\ players'[u].health > 0
  BY DEF Alive
<1>2. \A p \in Player : p.health \in Nat
  BY DEF Player
<1>3. players'[u] \in Player /\ players[u] \in Player
  BY <1>1 DEF Typed, TypeOK
<1>4. players'[u].health \in Nat /\ players[u].health \in Nat
  BY <1>2, <1>3
<1>5. QED BY <1>1, <1>4 DEF Alive

LEMMA NobodyAdmittedLate ==
  ASSUME Typed, finished, [Next]_vars
  PROVE  OnTheWay' \subseteq OnTheWay
<1>1. ASSUME NEW s \in Sessions, stage'[s] = "admitted" PROVE stage[s] = "admitted"
  <2>1. stage \in [Sessions -> Stages]
    BY DEF Typed, TypeOK
  <2>2. QED
    BY <1>1, <2>1
    DEF Next, MatchJoinAttempt, Admits, Drop, Disconnect, SendShoot, MatchJoin,
        MatchLeave, LoopStep, LoopCloseIdle, LoopWaiting, LoopEnter, LoopMessage,
        LoopFinish, vars
<1>2. QED BY <1>1 DEF OnTheWay

LEMMA VerdictStep ==
  ASSUME VerdictInv, [Next]_vars PROVE VerdictInv'
<1>1. Typed' /\ Typed
  BY TypedStep DEF VerdictInv
<1>2. CASE LoopFinish /\ Decide
  <2>1. announced = <<>>
    BY <1>2 DEF Decide, VerdictInv
  <2>2. players' = players /\ finished' /\ stage' = stage /\ overtaken' = OnTheWay
    BY <1>2 DEF LoopFinish, Decide
  <2>3. Len(announced') = 1 /\ Alive \subseteq {announced'[1]}
    BY <1>1, <1>2, <2>1, WinnerIsLast
  <2>4. Alive' = Alive /\ OnTheWay' = OnTheWay
    BY <2>2 DEF Alive, OnTheWay
  <2>5. QED BY <1>1, <2>2, <2>3, <2>4 DEF VerdictInv, VerdictStands
<1>3. CASE UNCHANGED <<finished, announced, overtaken>> /\ ~finished
  BY <1>1, <1>3 DEF VerdictInv, VerdictStands
<1>4. CASE UNCHANGED <<finished, announced, overtaken>> /\ finished
  <2>1. OnTheWay' \subseteq OnTheWay /\ OnTheWay \subseteq overtaken
    BY <1>1, <1>4, NobodyAdmittedLate DEF VerdictInv
  <2>2. ASSUME NEW u \in Alive' PROVE u \in {announced[1]} \cup overtaken
    <3>1. u \in DOMAIN players'
      BY DEF Alive
    <3>2. CASE \E P \in SUBSET Sessions : MatchJoin(P) /\ u \in {UserOf[s] : s \in P}
      <4>1. u \in OnTheWay
        BY <3>2 DEF MatchJoin, OnTheWay
      <4>2. QED BY <2>1, <4>1
    <3>3. CASE ~\E P \in SUBSET Sessions : MatchJoin(P) /\ u \in {UserOf[s] : s \in P}
      <4>1. u \in DOMAIN players
        <5>1. ASSUME NEW P \in SUBSET Sessions, MatchJoin(P) PROVE u \in DOMAIN players
          BY <3>1, <3>3, <5>1 DEF MatchJoin, WithPlayers
        <5>2. ASSUME NEW P \in SUBSET Sessions, MatchLeave(P) PROVE u \in DOMAIN players
          BY <3>1, <5>2 DEF MatchLeave, WithoutPlayers
        <5>3. CASE SessionMoves \/ LoopStep \/ UNCHANGED vars
          BY <1>1, <3>1, <5>3, MessageKeepsRoster, SessionMovesKeep
          DEF LoopStep, LoopCloseIdle, LoopWaiting, LoopEnter, LoopFinish,
              matchState, vars
        <5>4. QED BY <5>1, <5>2, <5>3 DEF Next, SessionMoves
      <4>2. players'[u].health <= players[u].health
        BY <1>1, <1>4, <3>3, <4>1, HealthFalls DEF Typed
      <4>3. u \in Alive
        BY <1>1, <2>2, <4>1, <4>2, AliveHealth
      <4>4. QED BY <1>4, <4>3 DEF VerdictInv, VerdictStands
    <3>4. QED BY <3>2, <3>3
  <2>3. QED BY <1>1, <1>4, <2>1, <2>2 DEF VerdictInv, VerdictStands
<1>5. LoopFinish /\ ~Decide => UNCHANGED <<finished, announced, overtaken>>
  BY DEF LoopFinish
<1>6. ~LoopFinish => UNCHANGED <<finished, announced, overtaken>>
  BY DEF Next, MatchJoinAttempt, Drop, Disconnect, SendShoot, MatchJoin, MatchLeave,
     LoopStep, LoopCloseIdle, LoopWaiting, LoopEnter, LoopMessage, matchState,
     history, vars
<1>7. QED BY <1>2, <1>3, <1>4, <1>5, <1>6

\* The result is announced once, and nobody is alive from then on but the
\* winner it names and users who were on their way when it fell
\* (match_handler.go:98 and 192 to 198); for any number of users and sessions.
THEOREM VerdictIsFinal == Spec => []VerdictStands
<1>1. Init => VerdictInv
  BY TypedInit DEF Init, VerdictInv, VerdictStands
<1>2. VerdictInv /\ [Next]_vars => VerdictInv'
  BY VerdictStep
<1>3. VerdictInv => VerdictStands
  BY DEF VerdictInv
<1>4. QED BY <1>1, <1>2, <1>3, PTL DEF Spec
-----------------------------------------------------------------------------
(***************************************************************************)
(* One session per user: an admitted session's user is not in the match    *)
(* yet, so a join resets nobody's cooldown.                                *)
(***************************************************************************)
OneSession == \A s, t \in Sessions : UserOf[s] = UserOf[t] => s = t

SessionInv ==
  /\ Typed
  /\ \A s \in Sessions :
       /\ stage[s] = "admitted" => UserOf[s] \notin DOMAIN players
       /\ stage[s] = "present" => UserOf[s] \in DOMAIN players

LEMMA JoinersAreNew ==
  ASSUME SessionInv, NEW P \in SUBSET Sessions, MatchJoin(P)
  PROVE  \A s \in P : UserOf[s] \notin DOMAIN players
BY DEF MatchJoin, SessionInv

LEMMA JoinKeepsPlayers ==
  ASSUME SessionInv, NEW P \in SUBSET Sessions, MatchJoin(P)
  PROVE  /\ DOMAIN players' = DOMAIN players \cup {UserOf[s] : s \in P}
         /\ \A u \in DOMAIN players : players'[u] = players[u]
<1>1. \A u \in DOMAIN players : u \notin {UserOf[s] : s \in P}
  BY JoinersAreNew
<1>2. QED BY <1>1 DEF MatchJoin, WithPlayers

LEMMA SessionStep ==
  ASSUME OneSession, SessionInv, [Next]_vars PROVE SessionInv'
<1>1. Typed'
  BY TypedStep DEF SessionInv
<1>2. ASSUME NEW P \in SUBSET Sessions, MatchJoin(P) PROVE SessionInv'
  <2>1. DOMAIN players' = DOMAIN players \cup {UserOf[s] : s \in P}
    BY <1>2, JoinKeepsPlayers
  <2>2. \A s \in Sessions : stage'[s] = IF s \in P THEN "present" ELSE stage[s]
    BY <1>2 DEF MatchJoin
  <2>3. ASSUME NEW s \in Sessions, stage'[s] = "admitted"
        PROVE  UserOf[s] \notin DOMAIN players'
    <3>1. s \notin P /\ stage[s] = "admitted"
      BY <2>2, <2>3
    <3>2. UserOf[s] \notin {UserOf[t] : t \in P}
      BY <3>1 DEF OneSession
    <3>3. QED BY <2>1, <3>1, <3>2 DEF SessionInv
  <2>4. ASSUME NEW s \in Sessions, stage'[s] = "present"
        PROVE  UserOf[s] \in DOMAIN players'
    BY <2>1, <2>2, <2>4 DEF SessionInv
  <2>5. QED BY <1>1, <2>3, <2>4 DEF SessionInv
<1>3. ASSUME NEW P \in SUBSET Sessions, MatchLeave(P) PROVE SessionInv'
  <2>1. /\ DOMAIN players' \subseteq DOMAIN players
        /\ DOMAIN players \ {UserOf[s] : s \in P} \subseteq DOMAIN players'
    BY <1>3 DEF MatchLeave, WithoutPlayers
  <2>2. \A s \in Sessions : stage'[s] = IF s \in P THEN "out" ELSE stage[s]
    BY <1>3 DEF MatchLeave
  <2>3. ASSUME NEW s \in Sessions, stage'[s] = "admitted"
        PROVE  UserOf[s] \notin DOMAIN players'
    BY <2>1, <2>2, <2>3 DEF SessionInv
  <2>4. ASSUME NEW s \in Sessions, stage'[s] = "present"
        PROVE  UserOf[s] \in DOMAIN players'
    <3>1. s \notin P /\ stage[s] = "present"
      BY <2>2, <2>4
    <3>2. UserOf[s] \notin {UserOf[t] : t \in P}
      BY <3>1 DEF OneSession
    <3>3. QED BY <2>1, <3>1, <3>2 DEF SessionInv
  <2>5. QED BY <1>1, <2>3, <2>4 DEF SessionInv
<1>4. CASE SessionMoves
  <2>1. players' = players
    BY <1>4, SessionMovesKeep
  <2>2. ASSUME NEW s \in Sessions
        PROVE  /\ stage'[s] = "admitted" =>
                    stage[s] = "admitted" \/ UserOf[s] \notin DOMAIN players
               /\ stage'[s] = "present" => stage[s] = "present"
    <3>1. stage \in [Sessions -> Stages]
      BY DEF SessionInv, Typed, TypeOK
    <3>2. QED
      BY <1>4, <3>1 DEF SessionMoves, MatchJoinAttempt, Admits, Drop, Disconnect, SendShoot
  <2>3. QED BY <1>1, <2>1, <2>2 DEF SessionInv
<1>5. CASE LoopStep \/ UNCHANGED vars
  <2>1. DOMAIN players' = DOMAIN players /\ stage' = stage
    BY <1>5, MessageKeepsRoster DEF SessionInv, LoopStep, LoopCloseIdle,
       LoopWaiting, LoopEnter, LoopMessage, LoopFinish, matchState, vars
  <2>2. QED BY <1>1, <2>1 DEF SessionInv
<1>6. QED BY <1>2, <1>3, <1>4, <1>5 DEF Next, SessionMoves

LEMMA SessionInit == Init => SessionInv
BY TypedInit DEF Init, SessionInv

LEMMA SessionAlways == ASSUME OneSession PROVE Spec => []SessionInv
<1>1. SessionInv /\ [Next]_vars => SessionInv'
  BY SessionStep
<1>2. QED BY <1>1, SessionInit, PTL DEF Spec
-----------------------------------------------------------------------------
(***************************************************************************)
(* Cooldown.  Nothing counts before the start, and a user outside the      *)
(* roster has never fired, so a new player's lastShotTick of 0 is right.   *)
(***************************************************************************)
ShotsInv ==
  /\ SessionInv
  /\ ~started => \A u \in Users : shots[u] = 0
  /\ \A u \in Users \ DOMAIN players : shots[u] = 0
  /\ CooldownPaced

LEMMA OneMoreShot ==
  ASSUME NEW n \in Nat, NEW c \in Nat, NEW last \in Nat, NEW now \in Nat,
         n * c <= last, now - last >= c
  PROVE  (n + 1) * c <= now
<1>1. (n + 1) * c = n * c + c /\ n * c \in Nat
  OBVIOUS
<1>2. QED BY <1>1

LEMMA ShotsStep ==
  ASSUME OneSession, ShotsInv, [Next]_vars PROVE ShotsInv'
<1>1. SessionInv' /\ Typed
  BY SessionStep DEF ShotsInv, SessionInv
<1>2. shots \in [Users -> Nat] /\ DOMAIN players \subseteq Users
  BY <1>1 DEF Typed, TypeOK
<1>3. ASSUME NEW P \in SUBSET Sessions, MatchJoin(P) PROVE ShotsInv'
  <2>1. /\ DOMAIN players' = DOMAIN players \cup {UserOf[s] : s \in P}
        /\ \A u \in DOMAIN players : players'[u] = players[u]
    BY <1>3, JoinKeepsPlayers DEF ShotsInv
  <2>2. shots' = shots /\ (~started' => ~started)
    BY <1>3 DEF MatchJoin
  <2>3. ASSUME NEW u \in DOMAIN players'
        PROVE  shots'[u] * cooldownTicks <= players'[u].lastShotTick
    <3>1. CASE u \in DOMAIN players
      BY <2>1, <2>2, <3>1 DEF ShotsInv, CooldownPaced
    <3>2. CASE u \notin DOMAIN players
      <4>1. u \in Users /\ shots[u] = 0
        BY <2>1, <3>2 DEF ShotsInv
      <4>2. players'[u].lastShotTick = 0
        BY <1>3, <2>1, <3>2 DEF MatchJoin, WithPlayers, NewPlayer
      <4>3. QED BY <2>2, <4>1, <4>2
    <3>3. QED BY <3>1, <3>2
  <2>4. QED BY <1>1, <2>1, <2>2, <2>3 DEF ShotsInv, CooldownPaced
<1>4. ASSUME NEW P \in SUBSET Sessions, MatchLeave(P) PROVE ShotsInv'
  <2>1. shots' = shots /\ started' = started
    BY <1>4 DEF MatchLeave
  <2>2. /\ DOMAIN players' \subseteq DOMAIN players
        /\ started => DOMAIN players' = DOMAIN players
    BY <1>4 DEF MatchLeave, WithoutPlayers
  <2>3. ASSUME NEW p \in Player
        PROVE  [p EXCEPT !.health = 0].lastShotTick = p.lastShotTick
    BY DEF Player
  <2>4. ASSUME NEW u \in DOMAIN players'
        PROVE  players'[u].lastShotTick = players[u].lastShotTick
    <3>1. \/ players'[u] = players[u]
          \/ players'[u] = [players[u] EXCEPT !.health = 0]
      BY <1>4, <2>4 DEF MatchLeave, WithoutPlayers
    <3>2. players[u] \in Player
      BY <1>1, <2>2 DEF Typed, TypeOK
    <3>3. QED BY <2>3, <3>1, <3>2
  <2>5. CooldownPaced'
    BY <2>1, <2>2, <2>4 DEF ShotsInv, CooldownPaced
  <2>6. \A u \in Users \ DOMAIN players' : shots'[u] = 0
    BY <2>1, <2>2 DEF ShotsInv
  <2>7. QED BY <1>1, <2>1, <2>5, <2>6 DEF ShotsInv
<1>5. CASE LoopMessage
  <2>1. started /\ started' = started
    BY <1>1, <1>5 DEF LoopMessage, Typed
  <2>2. CASE UNCHANGED <<players, shots>>
    BY <1>1, <2>1, <2>2 DEF ShotsInv, CooldownPaced
  <2>3. ASSUME NEW u \in Users, NEW target \in Targets(u),
               NEW damage \in 1..maxDamage, Fires(u), Shoot(u, target, damage)
        PROVE  ShotsInv'
    <3>1. /\ u \in DOMAIN players /\ DOMAIN players' = DOMAIN players
          /\ players'[u].lastShotTick = tick
          /\ \A v \in DOMAIN players \ {u} :
               players'[v].lastShotTick = players[v].lastShotTick
          /\ shots' = [shots EXCEPT ![u] = shots[u] + 1]
      BY <1>1, <2>3, ShootEffect
    <3>2. shots'[u] = shots[u] + 1 /\ \A v \in Users \ {u} : shots'[v] = shots[v]
      BY <1>2, <3>1
    <3>3. /\ shots[u] \in Nat /\ players[u].lastShotTick \in Nat /\ tick \in Nat
          /\ shots[u] * cooldownTicks <= players[u].lastShotTick
          /\ tick - players[u].lastShotTick >= cooldownTicks
      BY <1>1, <1>2, <2>3, <3>1
      DEF ShotsInv, CooldownPaced, Fires, Typed, TypeOK, Player
    <3>4. (shots[u] + 1) * cooldownTicks <= tick
      BY <3>3, OneMoreShot
    <3>5. CooldownPaced'
      <4>1. ASSUME NEW v \in DOMAIN players'
            PROVE  shots'[v] * cooldownTicks <= players'[v].lastShotTick
        <5>1. CASE v = u
          BY <3>1, <3>2, <3>4, <5>1
        <5>2. CASE v # u
          <6>1. /\ shots'[v] = shots[v]
                /\ players'[v].lastShotTick = players[v].lastShotTick
            BY <1>2, <3>1, <3>2, <5>2
          <6>2. shots[v] * cooldownTicks <= players[v].lastShotTick
            BY <3>1 DEF ShotsInv, CooldownPaced
          <6>3. QED BY <6>1, <6>2
        <5>3. QED BY <5>1, <5>2
      <4>2. QED BY <4>1 DEF CooldownPaced
    <3>6. \A v \in Users \ DOMAIN players' : shots'[v] = 0
      BY <3>1, <3>2 DEF ShotsInv
    <3>7. QED BY <1>1, <2>1, <3>5, <3>6 DEF ShotsInv
  <2>4. QED BY <1>1, <1>5, <2>2, <2>3, MessageCases
<1>6. CASE UNCHANGED <<players, started, shots>>
  BY <1>1, <1>6 DEF ShotsInv, CooldownPaced
<1>7. QED
  BY <1>3, <1>4, <1>5, <1>6, SessionMovesKeep
  DEF Next, SessionMoves, LoopStep, LoopCloseIdle, LoopWaiting, LoopEnter,
      LoopFinish, matchState, history, vars

\* However messages pile up and however often a player leaves and returns
\* before the start, n damaging shots take n cooldowns (match_handler.go:168).
THEOREM ShotsArePaced ==
  ASSUME OneSession PROVE Spec => []CooldownPaced
<1>1. Init => ShotsInv
  BY SessionInit DEF Init, ShotsInv, CooldownPaced
<1>2. ShotsInv /\ [Next]_vars => ShotsInv'
  BY ShotsStep
<1>3. ShotsInv => CooldownPaced
  BY DEF ShotsInv
<1>4. QED BY <1>1, <1>2, <1>3, PTL DEF Spec
=============================================================================
