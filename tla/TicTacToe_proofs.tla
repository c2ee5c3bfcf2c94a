-------------------------- MODULE TicTacToe_proofs --------------------------
(***************************************************************************)
(* Proofs about TicTacToe, for any users, board, lines and numbers.        *)
(***************************************************************************)
EXTENDS TicTacToe, FiniteSetTheorems, TLAPS

USE DEF X, O, UNDEFINED

-----------------------------------------------------------------------------
(* Types.                                                                  *)

Admitted == {u \in Users : stage[u] = "admitted"}

\* An idle match that still runs is below its limit, and every join to come is
\* counted.
CountInv ==
  /\ life = "up" => emptyTicks < maxEmptyTicks
  /\ Cardinality(Admitted) <= joinsInProgress

Typed == TypeOK /\ CountInv

PlatformTyped ==
  /\ life \in {"up", "closed", "failed"}
  /\ phase \in {"idle", "messages", "deadline"}
  /\ handled \in 0..MaxMessages
  /\ aiMessage \in Cells \cup {None}
  /\ stage \in [Users -> Stages]
  /\ senders \subseteq Users

SeatsTyped ==
  /\ open \in BOOLEAN /\ ai \in BOOLEAN
  /\ emptyTicks \in 0..maxEmptyTicks
  /\ DOMAIN presences \subseteq Players
  /\ presences \in [DOMAIN presences -> {"here", "gone"}]
  /\ joinsInProgress \in Nat

RoundTyped ==
  /\ playing \in BOOLEAN
  /\ DOMAIN board \subseteq Cells /\ surplus \in Int
  /\ board \in [DOMAIN board -> Marks \cup {None}]
  /\ DOMAIN marks \subseteq Players
  /\ marks \in [DOMAIN marks -> Marks \cup {None}]
  /\ mark \in Marks \cup {UNDEFINED}
  /\ deadlineRemainingTicks \in 0..turnTicks
  /\ winner \in Marks \cup {UNDEFINED}
  /\ nextGameRemainingTicks \in 0..nextGameTicks
  /\ results \subseteq Marks \cup {UNDEFINED}
  /\ forfeit \in Marks \cup {None}
  /\ playing => mark \in Marks /\ Cells \subseteq DOMAIN board

LEMMA TypeParts == TypeOK <=> PlatformTyped /\ SeatsTyped /\ RoundTyped
  BY DEF TypeOK, PlatformTyped, SeatsTyped, RoundTyped

LEMMA MarkFacts ==
  ASSUME RoundTyped
  PROVE  /\ \A m : Other(m) \in Marks
         /\ \A p : MarkOf(p) \in Marks \cup {None}
         /\ \A p, position :
              Accepted(p, position) => MarkOf(p) \in Marks /\ MarkOf(p) = mark
         /\ None \notin Marks \cup {UNDEFINED}
  BY OthersAssumption DEF OthersAssumption, RoundTyped, Other, MarkOf, Accepted, Marks

\* An accepted move fills a square that was vacant, or none if it is beyond the
\* board.
LEMMA PlayBoard ==
  ASSUME RoundTyped, NEW m \in Marks, NEW position \in Positions, Unplayed(position),
         board' = Marked(position, m)
  PROVE  /\ DOMAIN board' = DOMAIN board \cup ({position} \cap Cells)
         /\ DOMAIN board' \subseteq Cells
         /\ board' \in [DOMAIN board' -> Marks \cup {None}]
         /\ position \in Cells => board'[position] = m
         /\ \A c \in DOMAIN board \ {position} : board'[c] = board[c]
         /\ position \in DOMAIN board => board[position] = None
<1>1. CASE position = Beyond
  <2>1. board' = board /\ position \notin Cells
    BY <1>1, BoardAssumption DEF Marked, BoardAssumption
  <2>2. {position} \cap Cells = {} /\ position \notin DOMAIN board
    BY <2>1 DEF RoundTyped
  <2> QED
    BY <2>1, <2>2 DEF RoundTyped
<1>2. CASE position # Beyond /\ position \in Cells
  <2>1. board' = [q \in DOMAIN board \cup {position} |->
                    IF q = position THEN m ELSE board[q]]
    BY <1>2 DEF Marked, With
  <2>2. {position} \cap Cells = {position}
    BY <1>2
  <2> QED
    BY <1>2, <2>1, <2>2 DEF RoundTyped, Unplayed
<1> QED
  BY <1>1, <1>2 DEF Positions

LEMMA PlayTyped ==
  ASSUME RoundTyped, NEW m \in Marks, NEW position \in Positions,
         Unplayed(position), Play(m, position)
  PROVE  RoundTyped'
<1> DEFINE new == Marked(position, m)
           won == winCheck(new, m)
           over == won \/ Tie(new)
<1>1. /\ board' = new /\ mark' = Other(m)
      /\ winner' = IF won THEN m ELSE winner
      /\ playing' = (playing /\ ~over)
      /\ deadlineRemainingTicks' = IF over THEN 0 ELSE turnTicks
      /\ nextGameRemainingTicks' = IF over THEN nextGameTicks ELSE nextGameRemainingTicks
      /\ results' = IF playing' THEN results ELSE results \cup {winner'}
      /\ surplus' \in {surplus, surplus + 1, surplus - 1}
      /\ UNCHANGED <<marks, forfeit>>
  BY DEF Play
<1>2. /\ DOMAIN board \subseteq DOMAIN board'
      /\ DOMAIN board' \subseteq Cells
      /\ board' \in [DOMAIN board' -> Marks \cup {None}]
  BY <1>1, PlayBoard
<1>3. won \in BOOLEAN /\ over \in BOOLEAN
  BY DEF winCheck, Tie
<1>4. mark' \in Marks
  BY <1>1, MarkFacts
<1>5. deadlineRemainingTicks' \in 0..turnTicks /\ nextGameRemainingTicks' \in 0..nextGameTicks
  <2> HIDE DEF over
  <2> QED
    BY <1>1, NumbersAssumption DEF NumbersAssumption, RoundTyped
<1>6. winner' \in Marks \cup {UNDEFINED} /\ results' \subseteq Marks \cup {UNDEFINED}
  <2> HIDE DEF won
  <2> QED
    BY <1>1 DEF RoundTyped
<1>7. playing' \in BOOLEAN /\ (playing' => playing)
  BY <1>1 DEF RoundTyped
<1>8. surplus' \in Int
  BY <1>1 DEF RoundTyped
<1> QED
  BY <1>1, <1>2, <1>4, <1>5, <1>6, <1>7, <1>8 DEF RoundTyped

LEMMA MoveTyped ==
  ASSUME RoundTyped, NEW p, NEW position \in Positions, MoveMessage(p, position)
  PROVE  RoundTyped'
<1>1. CASE Accepted(p, position) /\ Play(MarkOf(p), position)
  BY <1>1, MarkFacts, PlayTyped DEF Accepted
<1>2. CASE UNCHANGED round
  BY <1>2 DEF round, RoundTyped
<1> QED
  BY <1>1, <1>2 DEF MoveMessage

LEMMA DeadlineTyped == RoundTyped /\ Deadline => RoundTyped'
<1> SUFFICES ASSUME RoundTyped, Deadline PROVE RoundTyped'
  OBVIOUS
<1> USE NumbersAssumption DEF NumbersAssumption
<1>1. CASE playing' = FALSE /\ winner' = Other(mark) /\ deadlineRemainingTicks' = 0
           /\ nextGameRemainingTicks' = nextGameTicks
           /\ results' = results \cup {winner'} /\ forfeit' = winner'
           /\ UNCHANGED <<board, surplus, marks, mark>>
  <2>1. winner' \in Marks
    BY <1>1, MarkFacts
  <2>2. deadlineRemainingTicks' \in 0..turnTicks /\ nextGameRemainingTicks' \in 0..nextGameTicks
    BY <1>1
  <2> QED
    BY <1>1, <2>1, <2>2 DEF RoundTyped
<1>2. CASE playing /\ ~Expires /\ CountDown
  BY <1>2 DEF RoundTyped, Expires, CountDown
<1>3. CASE UNCHANGED round
  BY <1>3 DEF round, RoundTyped
<1> QED
  BY <1>1, <1>2, <1>3 DEF Deadline

\* What a step does to the round, and where in a MatchLoop call it does it.
RoundStep ==
  \/ UNCHANGED round /\ (phase' \in {phase, "idle"} \/ (playing /\ phase = "idle"))
  \/ LoopPause
  \/ LoopStart
  \/ phase = "messages" /\ phase' = phase /\ InviteAi
  \/ /\ phase = "messages" /\ phase' # "idle"
     /\ \E p \in Players, position \in Positions : MoveMessage(p, position)
  \/ phase # "idle" /\ phase' = "idle" /\ Deadline

LEMMA RoundSteps == ASSUME TypeOK, [Next]_vars PROVE RoundStep
<1>1. ASSUME NEW u \in Users,
             \/ FindMatch(u) \/ MatchJoinAttempt(u) \/ RejoinAttempt(u) \/ Drop(u)
             \/ MatchJoin(u) \/ Disconnect(u) \/ MatchLeave(u)
      PROVE  RoundStep
  BY <1>1 DEF RoundStep, FindMatch, MatchJoinAttempt, RejoinAttempt, Drop, MatchJoin,
     Disconnect, MatchLeave
<1>2. CASE LoopCloseIdle \/ LoopAlone
  BY <1>2 DEF RoundStep, LoopCloseIdle, LoopAlone, Tidy
<1>3. CASE LoopPause \/ LoopStart
  BY <1>3 DEF RoundStep
<1>4. CASE LoopEnter
  BY <1>4 DEF RoundStep, LoopEnter, Free
<1>5. ASSUME NEW u \in Users, LoopMessage(u) PROVE RoundStep
  <2>1. phase = "messages" /\ phase' = phase
    BY <1>5 DEF LoopMessage
  <2>2. CASE \E position \in Positions : MoveMessage(u, position)
    BY <2>1, <2>2 DEF RoundStep, Players
  <2>3. CASE InviteAi
    BY <2>1, <2>3 DEF RoundStep
  <2> QED
    BY <1>5, <2>2, <2>3 DEF LoopMessage
<1>6. CASE LoopAiMessage
  <2>1. aiMessage \in Positions
    BY <1>6 DEF LoopAiMessage, TypeOK, Positions
  <2> QED
    BY <1>6, <2>1 DEF RoundStep, LoopAiMessage, Players
<1>7. CASE LoopFinish
  BY <1>7 DEF RoundStep, LoopFinish
<1>8. CASE UNCHANGED vars
  BY <1>8 DEF RoundStep, vars
<1> QED
  BY <1>1, <1>2, <1>3, <1>4, <1>5, <1>6, <1>7, <1>8 DEF Next, LoopStep

LEMMA PauseRound ==
  LoopPause =>
    /\ UNCHANGED <<playing, board, surplus, marks, mark, deadlineRemainingTicks,
                   winner, results, forfeit, phase>>
    /\ nextGameRemainingTicks > 0 /\ nextGameRemainingTicks' = nextGameRemainingTicks - 1
    /\ ~playing /\ phase = "idle"
  BY DEF LoopPause, Tidy, Free

LEMMA InviteRound ==
  InviteAi => UNCHANGED <<playing, board, surplus, mark, deadlineRemainingTicks,
                          winner, nextGameRemainingTicks, results, forfeit>>
  BY DEF InviteAi

LEMMA StartRound ==
  ASSUME TypeOK, LoopStart
  PROVE  RoundTyped' /\ phase' = "idle" /\ ~playing
<1>1. marks' \in NewMarks
  BY DEF LoopStart
<1>2. DOMAIN marks' = Here /\ marks' \in [Here -> Marks \cup {None}]
  <2>1. CASE ai
    BY <1>1, <2>1 DEF NewMarks, Marks
  <2>2. CASE ~ai
    BY <1>1, <2>2 DEF NewMarks, Marks
  <2> QED
    BY <2>1, <2>2
<1>3. Here \subseteq Players
  BY DEF TypeOK, Here
<1>4. board' \in [Cells -> {None}] /\ surplus' \in Int
  BY DEF LoopStart
<1>5. deadlineRemainingTicks' \in 0..turnTicks /\ nextGameRemainingTicks' \in 0..nextGameTicks
  BY NumbersAssumption DEF LoopStart, NumbersAssumption
<1>6. /\ playing' = TRUE /\ mark' \in Marks /\ winner' = UNDEFINED
      /\ results' = {} /\ forfeit' = None
  BY DEF LoopStart, FirstWinner, Marks
<1> QED
  BY <1>2, <1>3, <1>4, <1>5, <1>6 DEF RoundTyped, LoopStart, Tidy, Free

LEMMA InviteTyped ==
  ASSUME TypeOK, InviteAi
  PROVE  RoundTyped' /\ SeatsTyped'
<1> USE TypeParts
<1>1. UNCHANGED <<playing, board, surplus, mark, deadlineRemainingTicks, winner,
                  nextGameRemainingTicks, results, forfeit, open, emptyTicks,
                  joinsInProgress>>
  BY DEF InviteAi
<1>2. Here \subseteq DOMAIN presences /\ DOMAIN presences \subseteq Players
  BY DEF Here, SeatsTyped
<1>3. /\ ai' \in BOOLEAN /\ DOMAIN presences' \subseteq Players
      /\ presences' \in [DOMAIN presences' -> {"here", "gone"}]
      /\ DOMAIN marks' \subseteq Players
      /\ marks' \in [DOMAIN marks' -> Marks \cup {None}]
  <2>1. CASE UNCHANGED <<ai, presences, marks>>
    BY <2>1 DEF SeatsTyped, RoundTyped
  <2>2. CASE presences' = [p \in Here |-> "here"] /\ UNCHANGED <<ai, marks>>
    BY <1>2, <2>2 DEF SeatsTyped, RoundTyped
  <2>3. CASE /\ ai' = TRUE
             /\ presences' = [p \in Here \cup {aiUserId} |-> "here"]
             /\ \E p \in Here : marks' = With(marks, aiUserId, Other(MarkOf(p)))
    <3>1. PICK p \in Here : marks' = With(marks, aiUserId, Other(MarkOf(p)))
      BY <2>3
    <3>2. Other(MarkOf(p)) \in Marks
      BY MarkFacts
    <3>3. /\ DOMAIN marks' \subseteq Players
          /\ marks' \in [DOMAIN marks' -> Marks \cup {None}]
      BY <3>1, <3>2 DEF With, RoundTyped, Players
    <3> QED
      BY <1>2, <2>3, <3>3 DEF Players
  <2> QED
    BY <2>1, <2>2, <2>3 DEF InviteAi
<1> QED
  BY <1>1, <1>3 DEF RoundTyped, SeatsTyped

LEMMA NextRoundTyped == ASSUME TypeOK, [Next]_vars PROVE RoundTyped'
<1>1. RoundTyped
  BY TypeParts
<1>2. CASE UNCHANGED round
  BY <1>1, <1>2 DEF round, RoundTyped
<1>3. CASE LoopPause
  <2>1. nextGameRemainingTicks' \in 0..nextGameTicks
    BY <1>1, <1>3, PauseRound, NumbersAssumption DEF RoundTyped, NumbersAssumption
  <2> QED
    BY <1>1, <1>3, <2>1, PauseRound DEF RoundTyped
<1>4. CASE \E p \in Players, position \in Positions : MoveMessage(p, position)
  BY <1>1, <1>4, MoveTyped
<1>5. CASE LoopStart \/ InviteAi \/ Deadline
  BY <1>1, <1>5, StartRound, InviteTyped, DeadlineTyped
<1> QED
  BY <1>2, <1>3, <1>4, <1>5, RoundSteps DEF RoundStep

LEMMA PlayersFinite ==
  ASSUME TypeOK
  PROVE  /\ IsFiniteSet(Here) /\ connectedPlayers \in Nat
         /\ IsFiniteSet(Admitted) /\ Cardinality(Admitted) \in Nat
<1>1. IsFiniteSet(Players)
  BY IdsAssumption, FS_AddElement, FS_Singleton, FS_Union DEF IdsAssumption, Players
<1>2. Here \subseteq Players /\ Admitted \subseteq Users
  BY DEF TypeOK, Here, Admitted
<1> QED
  BY <1>1, <1>2, IdsAssumption, FS_Subset, FS_CardinalityType
     DEF IdsAssumption, connectedPlayers

\* What a step does to the joins to come.
LEMMA MoveStage ==
  ASSUME TypeOK, NEW u \in Users, NEW to \in Stages, Move(u, to)
  PROVE  /\ stage' \in [Users -> Stages]
         /\ stage'[u] = to
         /\ \A v \in Users \ {u} : stage'[v] = stage[v]
         /\ Admitted' = IF to = "admitted" THEN Admitted \cup {u} ELSE Admitted \ {u}
  BY DEF TypeOK, Move, Admitted

LEMMA AdmittedSame == stage' = stage => Admitted' = Admitted
  BY DEF Admitted

LEMMA EmptyCount ==
  ASSUME Typed, life = "up"
  PROVE  /\ CountEmpty \in 0..maxEmptyTicks
         /\ ~IdleTooLong => CountEmpty < maxEmptyTicks
<1> DEFINE nobody == connectedPlayers + joinsInProgress = 0
<1>1. /\ CountEmpty = IF nobody THEN emptyTicks + 1 ELSE emptyTicks
      /\ IdleTooLong <=> nobody /\ CountEmpty >= maxEmptyTicks
  BY DEF CountEmpty, IdleTooLong
<1>2. emptyTicks \in Nat /\ maxEmptyTicks \in Nat /\ emptyTicks < maxEmptyTicks
  BY NumbersAssumption DEF NumbersAssumption, Typed, TypeOK, CountInv
<1> HIDE DEF nobody
<1> QED
  BY <1>1, <1>2

\* A callback that takes no join and no leave, and leaves the idle count alone or counts.
LEMMA QuietCount ==
  ASSUME Typed, stage' = stage, joinsInProgress' = joinsInProgress,
         \/ emptyTicks' = emptyTicks /\ (life' = "up" => life = "up")
         \/ life = "up" /\ emptyTicks' = CountEmpty /\ (~IdleTooLong \/ life' # "up")
  PROVE  CountInv' /\ emptyTicks' \in 0..maxEmptyTicks
<1>1. Cardinality(Admitted') <= joinsInProgress'
  BY AdmittedSame DEF Typed, CountInv
<1>2. emptyTicks' \in 0..maxEmptyTicks /\ (life' = "up" => emptyTicks' < maxEmptyTicks)
  BY EmptyCount DEF Typed, TypeOK, CountInv
<1> QED
  BY <1>1, <1>2 DEF CountInv

LEMMA WithPresence ==
  ASSUME SeatsTyped, NEW u \in Users, NEW v \in {"here", "gone"}
  PROVE  LET new == With(presences, u, v)
         IN  /\ DOMAIN new = DOMAIN presences \cup {u}
             /\ DOMAIN new \subseteq Players
             /\ new \in [DOMAIN new -> {"here", "gone"}]
             /\ new[u] = v
             /\ \A p \in DOMAIN presences \ {u} : new[p] = presences[p]
  BY DEF SeatsTyped, With, Players

LEMMA TidySeats ==
  ASSUME Typed, Tidy
  PROVE  CountInv' /\ SeatsTyped'
<1>1. CountInv' /\ emptyTicks' \in 0..maxEmptyTicks
  BY QuietCount DEF Tidy, Free
<1>2. Here \subseteq DOMAIN presences
  BY DEF Here
<1> QED
  BY <1>1, <1>2 DEF Typed, TypeOK, Tidy, SeatsTyped

LEMMA NextSeats == ASSUME Typed, [Next]_vars PROVE CountInv' /\ SeatsTyped'
<1>1. SeatsTyped /\ TypeOK /\ CountInv
  BY TypeParts DEF Typed
<1>2. ASSUME NEW u \in Users,
             \/ FindMatch(u) \/ Disconnect(u)
      PROVE  CountInv' /\ SeatsTyped'
  <2>1. \E to \in Stages \ {"admitted"} : Move(u, to)
    BY <1>2 DEF FindMatch, Disconnect, Stages
  <2>2. Admitted' = Admitted
    BY <1>1, <1>2, <2>1, MoveStage DEF FindMatch, Disconnect, Admitted
  <2> QED
    BY <1>1, <1>2, <2>2 DEF FindMatch, Disconnect, seats, CountInv, SeatsTyped
<1>3. ASSUME NEW u \in Users, MatchJoinAttempt(u) PROVE CountInv' /\ SeatsTyped'
  <2>1. Admitted' = Admitted \cup {u}
    BY <1>1, <1>3, MoveStage DEF MatchJoinAttempt, Stages
  <2>2. IsFiniteSet(Admitted) /\ Cardinality(Admitted) \in Nat
    BY <1>1, PlayersFinite
  <2>3. Cardinality(Admitted') \in {Cardinality(Admitted), Cardinality(Admitted) + 1}
    BY <2>1, <2>2, FS_AddElement
  <2>4. joinsInProgress' = joinsInProgress + 1 /\ joinsInProgress \in Nat
    BY <1>1, <1>3 DEF MatchJoinAttempt, SeatsTyped
  <2>5. Cardinality(Admitted') <= joinsInProgress'
    BY <1>1, <2>2, <2>3, <2>4 DEF CountInv
  <2> QED
    BY <1>1, <1>3, <2>4, <2>5 DEF MatchJoinAttempt, CountInv, SeatsTyped
<1>4. ASSUME NEW u \in Users, RejoinAttempt(u) PROVE CountInv' /\ SeatsTyped'
  BY <1>1, <1>4, AdmittedSame, PlayersFinite DEF RejoinAttempt, CountInv, SeatsTyped
<1>5. ASSUME NEW u \in Users, Drop(u) PROVE CountInv' /\ SeatsTyped'
  <2>1. Admitted' = Admitted \ {u}
    BY <1>1, <1>5, MoveStage DEF Drop, Stages
  <2>2. Cardinality(Admitted') <= Cardinality(Admitted)
    BY <1>1, <2>1, PlayersFinite, FS_Subset
  <2> QED
    BY <1>1, <1>5, <2>1, <2>2, PlayersFinite, FS_Subset, FS_CardinalityType
       DEF Drop, seats, CountInv, SeatsTyped
<1>6. ASSUME NEW u \in Users, MatchJoin(u) PROVE CountInv' /\ SeatsTyped'
  <2>1. Admitted' = Admitted \ {u} /\ u \in Admitted
    BY <1>1, <1>6, MoveStage DEF MatchJoin, Stages, Admitted
  <2>2. Cardinality(Admitted') = Cardinality(Admitted) - 1
    BY <1>1, <2>1, PlayersFinite, FS_RemoveElement
  <2>3. Cardinality(Admitted') \in Nat
    BY <1>1, <2>1, PlayersFinite, FS_Subset, FS_CardinalityType
  <2>4. joinsInProgress' \in Nat /\ Cardinality(Admitted') <= joinsInProgress'
    BY <1>1, <1>6, <2>2, <2>3, PlayersFinite DEF MatchJoin, CountInv, SeatsTyped
  <2>5. emptyTicks' = 0 /\ 0 < maxEmptyTicks /\ maxEmptyTicks \in Nat
    BY <1>6, NumbersAssumption DEF MatchJoin, NumbersAssumption
  <2>6. /\ DOMAIN presences' \subseteq Players
        /\ presences' \in [DOMAIN presences' -> {"here", "gone"}]
    BY <1>1, <1>6, WithPresence DEF MatchJoin
  <2>7. open' \in BOOLEAN /\ ai' = ai
    BY <1>1, <1>6 DEF MatchJoin, SeatsTyped
  <2> QED
    BY <1>1, <2>4, <2>5, <2>6, <2>7 DEF CountInv, SeatsTyped
<1>7. ASSUME NEW u \in Users, MatchLeave(u) PROVE CountInv' /\ SeatsTyped'
  <2> DEFINE left == With(presences, u, "gone")
  <2>1. Admitted' = Admitted
    BY <1>1, <1>7, MoveStage DEF MatchLeave, Stages, Admitted
  <2>2. /\ DOMAIN left \subseteq Players
        /\ left \in [DOMAIN left -> {"here", "gone"}]
    BY <1>1, WithPresence
  <2>3. presences' = [p \in {q \in DOMAIN left : q \in Users \/ ai'} |-> left[p]]
    BY <1>7 DEF MatchLeave
  <2>4. /\ DOMAIN presences' \subseteq Players
        /\ presences' \in [DOMAIN presences' -> {"here", "gone"}]
    <3> HIDE DEF left
    <3> QED
      BY <2>2, <2>3
  <2>5. ai' \in BOOLEAN
    BY <1>1, <1>7 DEF MatchLeave, AiStays, SeatsTyped
  <2>6. UNCHANGED <<life, open, emptyTicks, joinsInProgress>>
    BY <1>7 DEF MatchLeave
  <2> QED
    BY <1>1, <2>1, <2>4, <2>5, <2>6 DEF CountInv, SeatsTyped
<1>8. CASE LoopCloseIdle
  <2>1. CountInv' /\ emptyTicks' \in 0..maxEmptyTicks
    BY <1>8, QuietCount DEF LoopCloseIdle, Free
  <2> QED
    BY <1>1, <1>8, <2>1 DEF LoopCloseIdle, SeatsTyped
<1>9. CASE LoopEnter
  <2>1. CountInv' /\ emptyTicks' \in 0..maxEmptyTicks
    BY <1>9, QuietCount DEF LoopEnter, Free
  <2> QED
    BY <1>1, <1>9, <2>1 DEF LoopEnter, SeatsTyped
<1>10. CASE LoopAlone \/ LoopPause \/ LoopStart
  BY <1>10, TidySeats DEF LoopAlone, LoopPause, LoopStart
<1>11. ASSUME NEW u \in Users, LoopMessage(u) PROVE CountInv' /\ SeatsTyped'
  <2>1. UNCHANGED <<life, stage, emptyTicks, joinsInProgress>>
    BY <1>11 DEF LoopMessage, InviteAi, seats
  <2>2. CountInv'
    BY <1>1, <2>1, AdmittedSame DEF CountInv
  <2>3. SeatsTyped'
    BY <1>1, <1>11, InviteTyped DEF LoopMessage, seats, SeatsTyped
  <2> QED
    BY <2>2, <2>3
<1>12. CASE LoopAiMessage \/ LoopFinish
  <2>1. UNCHANGED <<stage, seats>> /\ (life' = "up" => life = "up")
    BY <1>12 DEF LoopAiMessage, LoopFinish, aiTurn
  <2> QED
    BY <1>1, <2>1, AdmittedSame DEF seats, CountInv, SeatsTyped
<1>13. CASE UNCHANGED vars
  BY <1>1, <1>13, AdmittedSame DEF vars, seats, CountInv, SeatsTyped
<1> QED
  BY <1>2, <1>3, <1>4, <1>5, <1>6, <1>7, <1>8, <1>9, <1>10, <1>11, <1>12, <1>13
     DEF Next, LoopStep

LEMMA NextPlatform == ASSUME TypeOK, [Next]_vars PROVE PlatformTyped'
<1> USE NumbersAssumption DEF NumbersAssumption, PlatformTyped, TypeOK, Stages
<1>1. ASSUME NEW u \in Users,
             \/ FindMatch(u) \/ MatchJoinAttempt(u) \/ RejoinAttempt(u) \/ Drop(u)
             \/ MatchJoin(u) \/ Disconnect(u) \/ MatchLeave(u)
      PROVE  PlatformTyped'
  <2>1. stage' \in [Users -> Stages] /\ UNCHANGED <<life, phase, handled, aiMessage>>
    BY <1>1 DEF FindMatch, MatchJoinAttempt, RejoinAttempt, Drop, MatchJoin,
       Disconnect, MatchLeave, Move
  <2>2. senders' \subseteq Users
    BY <1>1 DEF FindMatch, MatchJoinAttempt, RejoinAttempt, Drop, MatchJoin,
       Disconnect, MatchLeave
  <2> QED
    BY <2>1, <2>2
<1>2. CASE LoopCloseIdle \/ LoopEnter
  BY <1>2 DEF LoopCloseIdle, LoopEnter
<1>3. CASE LoopAlone \/ LoopPause \/ LoopStart
  BY <1>3 DEF LoopAlone, LoopPause, LoopStart, Tidy, PresentUsers
<1>4. ASSUME NEW u \in Users, LoopMessage(u) PROVE PlatformTyped'
  BY <1>4 DEF LoopMessage
<1>5. CASE LoopAiMessage
  BY <1>5 DEF LoopAiMessage
<1>6. CASE LoopFinish
  <2>1. aiMessage' \in Cells \cup {None} /\ life' \in {"up", "closed", "failed"}
    BY <1>6, BoardAssumption DEF LoopFinish, aiTurn, BoardAssumption
  <2> QED
    BY <1>6, <2>1 DEF LoopFinish, PresentUsers
<1>7. CASE UNCHANGED vars
  BY <1>7 DEF vars
<1> QED
  BY <1>1, <1>2, <1>3, <1>4, <1>5, <1>6, <1>7 DEF Next, LoopStep

LEMMA InitTyped == Init => Typed
<1> SUFFICES ASSUME Init PROVE Typed
  OBVIOUS
<1> USE NumbersAssumption DEF NumbersAssumption, Init
<1>1. PlatformTyped
  BY DEF PlatformTyped, Stages
<1>2. SeatsTyped
  BY IdsAssumption DEF IdsAssumption, SeatsTyped, NoPlayers, With, Players
<1>3. RoundTyped
  <2>1. deadlineRemainingTicks \in 0..turnTicks /\ nextGameRemainingTicks \in 0..nextGameTicks
    OBVIOUS
  <2>2. /\ DOMAIN board = {} /\ board \in [DOMAIN board -> Marks \cup {None}]
        /\ surplus \in Int
    BY DEF NoPlayers
  <2>3. DOMAIN marks = {} /\ marks \in [DOMAIN marks -> Marks \cup {None}]
    BY DEF NoPlayers
  <2> QED
    BY <2>1, <2>2, <2>3 DEF RoundTyped
<1>4. Admitted = {}
  BY DEF Admitted
<1> QED
  BY <1>1, <1>2, <1>3, <1>4, TypeParts, FS_EmptySet DEF Typed, CountInv

LEMMA NextTyped == Typed /\ [Next]_vars => Typed'
  BY TypeParts, NextPlatform, NextSeats, NextRoundTyped DEF Typed, TypeOK,
     PlatformTyped, SeatsTyped, RoundTyped

\* The match keeps its types: the deadline within a turn, the idle count within its
\* limit, a count of joins in progress that never falls below zero, and a whole
\* board and a mark to move while a round is played (match_handler.ts:38-67).
THEOREM TicTacToeTyped == Spec => []TypeOK
<1>1. Typed => TypeOK
  BY DEF Typed
<1> QED
  BY <1>1, InitTyped, NextTyped, PTL DEF Spec
-----------------------------------------------------------------------------
(* Seats.                                                                  *)

Inside(u) == stage[u] \in {"present", "leaving"}

\* A user is a connected player from MatchJoin to MatchLeave, and the AI while it plays.
HereInv == \A u \in Users : u \in Here <=> Inside(u)

SeatInv == Typed /\ HereInv /\ TwoHumans

LEMMA NextHere == ASSUME Typed, HereInv, [Next]_vars PROVE HereInv'
<1>1. TypeOK /\ SeatsTyped
  BY TypeParts DEF Typed
<1> USE DEF Inside, Stages
<1>2. ASSUME NEW u \in Users, FindMatch(u) \/ MatchJoinAttempt(u) \/ Drop(u) \/ Disconnect(u)
      PROVE  HereInv'
  <2>1. presences' = presences
    BY <1>2 DEF FindMatch, MatchJoinAttempt, Drop, Disconnect, seats
  <2>2. /\ \A v \in Users \ {u} : stage'[v] = stage[v]
        /\ Inside(u)' <=> Inside(u)
    BY <1>1, <1>2, MoveStage DEF FindMatch, MatchJoinAttempt, Drop, Disconnect
  <2> QED
    BY <2>1, <2>2 DEF HereInv, Here
<1>3. ASSUME NEW u \in Users, MatchJoin(u) PROVE HereInv'
  <2>1. stage'[u] = "present" /\ \A v \in Users \ {u} : stage'[v] = stage[v]
    BY <1>1, <1>3, MoveStage DEF MatchJoin
  <2>2. Here' = Here \cup {u}
    BY <1>1, <1>3, WithPresence DEF MatchJoin, Here
  <2> QED
    BY <2>1, <2>2 DEF HereInv
<1>4. ASSUME NEW u \in Users, MatchLeave(u) PROVE HereInv'
  <2> DEFINE left == With(presences, u, "gone")
  <2>1. stage'[u] = "found" /\ \A v \in Users \ {u} : stage'[v] = stage[v]
    BY <1>1, <1>4, MoveStage DEF MatchLeave
  <2>2. /\ DOMAIN left = DOMAIN presences \cup {u} /\ left[u] = "gone"
        /\ \A p \in DOMAIN presences \ {u} : left[p] = presences[p]
    BY <1>1, WithPresence
  <2>3. presences' = [p \in {q \in DOMAIN left : q \in Users \/ ai'} |-> left[p]]
    BY <1>4 DEF MatchLeave
  <2>4. \A v \in Users : v \in Here' <=> v \in Here /\ v # u
    <3> HIDE DEF left
    <3> QED
      BY <2>2, <2>3 DEF Here
  <2> QED
    BY <2>1, <2>4 DEF HereInv
<1>5. CASE LoopAlone \/ LoopPause \/ LoopStart
  <2>1. stage' = stage /\ Here' = Here
    BY <1>5 DEF LoopAlone, LoopPause, LoopStart, Tidy, Here
  <2> QED
    BY <2>1 DEF HereInv
<1>6. ASSUME NEW u \in Users, LoopMessage(u) PROVE HereInv'
  <2>1. stage' = stage
    BY <1>6 DEF LoopMessage
  <2>2. presences' = presences \/ Here' = Here \/ Here' = Here \cup {aiUserId}
    BY <1>6 DEF LoopMessage, InviteAi, seats, Here
  <2> QED
    BY <2>1, <2>2, IdsAssumption DEF IdsAssumption, HereInv, Here
<1>7. CASE \/ \E u \in Users : RejoinAttempt(u)
           \/ LoopCloseIdle \/ LoopEnter \/ LoopAiMessage \/ LoopFinish \/ UNCHANGED vars
  <2>1. stage' = stage /\ presences' = presences
    BY <1>7 DEF RejoinAttempt, LoopCloseIdle, LoopEnter, LoopAiMessage, LoopFinish,
       vars, seats
  <2> QED
    BY <2>1 DEF HereInv, Here
<1> QED
  BY <1>2, <1>3, <1>4, <1>5, <1>6, <1>7 DEF Next, LoopStep

\* Connected players and joins in progress are at least the users in the match.
LEMMA InMatchCounted ==
  ASSUME Typed, HereInv
  PROVE  /\ IsFiniteSet(InMatch) /\ Cardinality(InMatch) \in Nat
         /\ Cardinality(InMatch) <= connectedPlayers + joinsInProgress
<1>1. /\ IsFiniteSet(Here) /\ Cardinality(Here) \in Nat
      /\ IsFiniteSet(Admitted) /\ Cardinality(Admitted) \in Nat
      /\ connectedPlayers = Cardinality(Here)
  BY PlayersFinite DEF Typed, connectedPlayers
<1>2. InMatch \subseteq Here \cup Admitted
  BY DEF InMatch, HereInv, Inside, Admitted
<1>3. /\ IsFiniteSet(Here \cup Admitted)
      /\ Cardinality(Here \cup Admitted) <= Cardinality(Here) + Cardinality(Admitted)
  <2>1. Cardinality(Here \cap Admitted) \in Nat
    BY <1>1, FS_Intersection, FS_CardinalityType
  <2>2. /\ IsFiniteSet(Here \cup Admitted)
        /\ Cardinality(Here \cup Admitted) =
             Cardinality(Here) + Cardinality(Admitted) - Cardinality(Here \cap Admitted)
    BY <1>1, FS_Union
  <2> QED
    BY <1>1, <2>1, <2>2
<1>4. /\ IsFiniteSet(InMatch) /\ Cardinality(InMatch) <= Cardinality(Here \cup Admitted)
  BY <1>2, <1>3, FS_Subset
<1>5. Cardinality(InMatch) \in Nat /\ Cardinality(Here \cup Admitted) \in Nat
  BY <1>3, <1>4, FS_CardinalityType
<1>6. joinsInProgress \in Nat /\ Cardinality(Admitted) <= joinsInProgress
  BY DEF Typed, TypeOK, CountInv
<1> QED
  BY <1>1, <1>3, <1>4, <1>5, <1>6

LEMMA NextTwo == ASSUME SeatInv, [Next]_vars PROVE TwoHumans'
<1>1. TypeOK /\ Typed /\ HereInv
  BY DEF SeatInv, Typed
<1>2. IsFiniteSet(InMatch) /\ Cardinality(InMatch) \in Nat /\ Cardinality(InMatch) <= 2
  BY <1>1, InMatchCounted DEF SeatInv, TwoHumans
<1>3. ASSUME NEW u \in Users, MatchJoinAttempt(u) PROVE TwoHumans'
  <2>1. Cardinality(InMatch) < 2
    BY <1>1, <1>3, InMatchCounted, PlayersFinite DEF MatchJoinAttempt, HasRoom, TypeOK
  <2>2. InMatch' = InMatch \cup {u}
    BY <1>1, <1>3, MoveStage DEF MatchJoinAttempt, InMatch, Stages
  <2>3. Cardinality(InMatch') \in {Cardinality(InMatch), Cardinality(InMatch) + 1}
    BY <1>2, <2>2, FS_AddElement
  <2> QED
    BY <1>2, <2>1, <2>3 DEF TwoHumans
<1>4. CASE InMatch' \subseteq InMatch
  <2>1. Cardinality(InMatch') <= Cardinality(InMatch) /\ IsFiniteSet(InMatch')
    BY <1>2, <1>4, FS_Subset
  <2>2. Cardinality(InMatch') \in Nat
    BY <2>1, FS_CardinalityType
  <2> QED
    BY <1>2, <2>1, <2>2 DEF TwoHumans
<1>5. ASSUME NEW u \in Users,
             \/ FindMatch(u) \/ Drop(u) \/ MatchJoin(u) \/ Disconnect(u) \/ MatchLeave(u)
      PROVE  InMatch' \subseteq InMatch
  BY <1>1, <1>5, MoveStage DEF FindMatch, Drop, MatchJoin, Disconnect, MatchLeave,
     InMatch, Stages
<1>6. CASE \/ \E u \in Users : RejoinAttempt(u)
           \/ LoopStep \/ UNCHANGED vars
  <2>1. stage' = stage
    BY <1>6 DEF RejoinAttempt, LoopStep, LoopCloseIdle, LoopAlone, LoopPause, LoopStart,
       Tidy, LoopEnter, LoopMessage, LoopAiMessage, LoopFinish, vars
  <2> QED
    BY <1>4, <2>1 DEF InMatch
<1> QED
  BY <1>3, <1>4, <1>5, <1>6 DEF Next

LEMMA InitSeats == Init => SeatInv
<1> SUFFICES ASSUME Init PROVE SeatInv
  OBVIOUS
<1>1. InMatch = {}
  BY DEF Init, InMatch
<1>2. HereInv
  BY IdsAssumption DEF IdsAssumption, Init, HereInv, Here, Inside, NoPlayers, With
<1> QED
  BY <1>1, <1>2, InitTyped, FS_EmptySet DEF SeatInv, TwoHumans

LEMMA NextSeatInv == SeatInv /\ [Next]_vars => SeatInv'
  BY NextTyped, NextHere, NextTwo DEF SeatInv

\* No more than two users are admitted or in the match, however many call, drop out
\* and are refused (match_handler.ts:132).
THEOREM NeverThreeHumans == Spec => []TwoHumans
<1>1. SeatInv => TwoHumans
  BY DEF SeatInv
<1> QED
  BY <1>1, InitSeats, NextSeatInv, PTL DEF Spec

\* MatchLoop closes the match only when no user is in it or about to join
\* (match_handler.ts:218).
THEOREM OnlyEmptyCloses == Spec => ClosesOnlyEmpty
<1> DEFINE A == life' = "closed" /\ life = "up" =>
                  \A u \in Users : stage[u] \notin {"admitted", "present"}
<1>1. ASSUME SeatInv, [Next]_vars PROVE A
  <2> SUFFICES ASSUME life' = "closed", life = "up", NEW u \in Users
               PROVE  stage[u] \notin {"admitted", "present"}
    OBVIOUS
  <2>1. LoopCloseIdle
    BY <1>1 DEF Next, LoopStep, FindMatch, MatchJoinAttempt, RejoinAttempt, Drop,
       MatchJoin, Disconnect, MatchLeave, LoopAlone, LoopPause, LoopStart, Tidy, LoopEnter,
       LoopMessage, LoopAiMessage, LoopFinish, aiTurn, vars
  <2>2. connectedPlayers + joinsInProgress = 0
    BY <2>1 DEF LoopCloseIdle, IdleTooLong
  <2>3. Cardinality(InMatch) = 0 /\ IsFiniteSet(InMatch)
    BY <1>1, <2>2, InMatchCounted DEF SeatInv
  <2>4. InMatch = {}
    BY <2>3, FS_EmptySet
  <2> QED
    BY <2>4 DEF InMatch
<1>2. Spec => []SeatInv
  BY InitSeats, NextSeatInv, PTL DEF Spec
<1>3. SeatInv /\ [Next]_vars => A
  BY <1>1
<1> QED
  BY <1>2, <1>3, PTL DEF Spec, ClosesOnlyEmpty
-----------------------------------------------------------------------------
(* Turns.                                                                  *)

LEMMA CellsFinite ==
  ASSUME RoundTyped, NEW m
  PROVE  IsFiniteSet(CellsOf(m)) /\ Cardinality(CellsOf(m)) \in Nat
<1>1. CellsOf(m) \subseteq Cells
  BY DEF RoundTyped, CellsOf
<1> QED
  BY <1>1, BoardAssumption, FS_Subset, FS_CardinalityType DEF BoardAssumption

\* A move on the board adds a square to its mark; one beyond it is counted in
\* surplus.
LEMMA PlayCounts ==
  ASSUME RoundTyped, NEW m \in Marks, NEW position \in Cells,
         Unplayed(position), Play(m, position)
  PROVE  /\ Cardinality(CellsOf(m)') = Cardinality(CellsOf(m)) + 1
         /\ \A n \in Marks \ {m} : CellsOf(n)' = CellsOf(n)
<1>1. board' = Marked(position, m) /\ position \in Positions
  BY DEF Play, Positions
<1>2. /\ DOMAIN board' = DOMAIN board \cup {position}
      /\ board'[position] = m
      /\ \A c \in DOMAIN board \ {position} : board'[c] = board[c]
      /\ position \in DOMAIN board => board[position] = None
  BY <1>1, PlayBoard
<1>3. \A n \in Marks : None # n
  BY OthersAssumption DEF Marks, OthersAssumption
<1>4. \A n : CellsOf(n)' = {c \in DOMAIN board' : board'[c] = n}
  BY DEF CellsOf
<1>5. CellsOf(m)' = CellsOf(m) \cup {position} /\ position \notin CellsOf(m)
  BY <1>2, <1>3, <1>4 DEF CellsOf
<1>6. \A n \in Marks \ {m} : CellsOf(n)' = CellsOf(n)
  BY <1>2, <1>3, <1>4 DEF CellsOf
<1> QED
  BY <1>5, <1>6, CellsFinite, FS_AddElement

LEMMA PlayAlternates ==
  ASSUME RoundTyped, MarksAlternate, NEW m \in Marks, NEW position \in Positions,
         Unplayed(position), m = mark, Play(m, position)
  PROVE  MarksAlternate'
<1> DEFINE x == Cardinality(CellsOf(X))
           o == Cardinality(CellsOf(O))
           newX == Cardinality(CellsOf(X)')
           newO == Cardinality(CellsOf(O)')
<1>1. x \in Nat /\ o \in Nat /\ surplus \in Int
  BY CellsFinite DEF RoundTyped
<1>2. mark' = Other(m) /\ board' = Marked(position, m)
  BY DEF Play
<1>3. x + surplus = o + (IF m = O THEN 1 ELSE 0)
  BY DEF MarksAlternate
<1>4. CASE position = Beyond
  <2>1. newX = x /\ newO = o
    BY <1>2, <1>4 DEF Marked, CellsOf
  <2>2. surplus' = IF m = X THEN surplus + 1 ELSE surplus - 1
    BY <1>4 DEF Play
  <2>3. newX + surplus' = newO + (IF m = O THEN 0 ELSE 1)
    <3> HIDE DEF x, o, newX, newO
    <3> QED
      BY <1>1, <1>3, <2>1, <2>2 DEF Marks
  <2> QED
    BY <1>2, <2>3 DEF MarksAlternate, Other, Marks
<1>5. CASE position \in Cells
  <2>1. /\ Cardinality(CellsOf(m)') = Cardinality(CellsOf(m)) + 1
        /\ \A n \in Marks \ {m} : CellsOf(n)' = CellsOf(n)
    BY <1>5, PlayCounts
  <2>2. surplus' = surplus
    BY <1>5, BoardAssumption DEF Play, BoardAssumption
  <2>3. CASE m = X
    <3>1. newX = x + 1 /\ newO = o
      BY <2>1, <2>3 DEF Marks
    <3>2. newX + surplus' = newO + 1 /\ mark' = O
      <4> HIDE DEF x, o, newX, newO
      <4> QED
        BY <1>1, <1>2, <1>3, <2>2, <2>3, <3>1 DEF Other
    <3> QED
      BY <3>2 DEF MarksAlternate
  <2>4. CASE m = O
    <3>1. newX = x /\ newO = o + 1
      BY <2>1, <2>4 DEF Marks
    <3>2. newX + surplus' = newO + 0 /\ mark' = X
      <4> HIDE DEF x, o, newX, newO
      <4> QED
        BY <1>1, <1>2, <1>3, <2>2, <2>4, <3>1 DEF Other
    <3> QED
      BY <3>2 DEF MarksAlternate
  <2> QED
    BY <2>3, <2>4 DEF Marks
<1> QED
  BY <1>4, <1>5 DEF Positions

LEMMA NextAlternates == ASSUME TypeOK, MarksAlternate, [Next]_vars PROVE MarksAlternate'
<1>1. RoundTyped
  BY TypeParts
<1>2. CASE UNCHANGED <<board, surplus, mark>>
  BY <1>2 DEF MarksAlternate, CellsOf
<1>3. CASE LoopStart
  <2>1. board' = [c \in Cells |-> None] /\ surplus' = 0 /\ mark' = X
    BY <1>3 DEF LoopStart
  <2>2. CellsOf(X)' = {} /\ CellsOf(O)' = {}
    BY <2>1, OthersAssumption DEF CellsOf, OthersAssumption
  <2> QED
    BY <2>1, <2>2, FS_EmptySet DEF MarksAlternate
<1>4. ASSUME NEW p \in Players, NEW position \in Positions, MoveMessage(p, position)
      PROVE  MarksAlternate'
  <2>1. CASE Accepted(p, position) /\ Play(MarkOf(p), position)
    BY <1>1, <2>1, MarkFacts, PlayAlternates DEF Accepted
  <2> QED
    BY <1>2, <1>4, <2>1 DEF MoveMessage, round
<1>5. CASE UNCHANGED round \/ LoopPause \/ InviteAi \/ Deadline
  <2>1. UNCHANGED <<board, surplus, mark>>
    BY <1>5, PauseRound, InviteRound DEF round, Deadline, CountDown
  <2> QED
    BY <1>2, <2>1
<1> QED
  BY <1>3, <1>4, <1>5, RoundSteps DEF RoundStep

\* Whoever plays which mark, X and O are played in turn (match_handler.ts:302-325).
THEOREM TurnsAlternate == Spec => []MarksAlternate
<1>1. Init => MarksAlternate
  <2> SUFFICES ASSUME Init PROVE MarksAlternate
    OBVIOUS
  <2>1. CellsOf(X) = {} /\ CellsOf(O) = {} /\ surplus = 0 /\ mark # O
    BY DEF Init, CellsOf, NoPlayers
  <2> QED
    BY <2>1, FS_EmptySet DEF MarksAlternate
<1>2. Typed /\ MarksAlternate /\ [Next]_vars => MarksAlternate'
  BY NextAlternates DEF Typed
<1> QED
  BY <1>1, <1>2, InitTyped, NextTyped, PTL DEF Spec
-----------------------------------------------------------------------------
(* Results.                                                                *)

\* The winner of the round has earned it, a round without a winner has no line, a
\* round ended in this call by a move without a winner is a tie, and only the
\* deadline, which comes last, is a reason to win without a line.
WinnerInv ==
  /\ winner \in Marks => HasLine(winner) \/ forfeit = winner
  /\ winner = UNDEFINED => \A m \in Marks : ~HasLine(m)
  /\ phase # "idle" => Cells \subseteq DOMAIN board
  /\ phase # "idle" /\ ~playing /\ winner = UNDEFINED => Tie(board)
  /\ playing => forfeit = None

ResultInv == Typed /\ WinnerInv /\ ResultsAreTrue

\* A move keeps the lines there are, and only its own mark can get a new one.
LEMMA PlayLines ==
  ASSUME RoundTyped, NEW m \in Marks, NEW position \in Positions,
         Unplayed(position), board' = Marked(position, m),
         Cells \subseteq DOMAIN board
  PROVE  /\ Cells \subseteq DOMAIN board'
         /\ \A n \in Marks : HasLine(n) => HasLine(n)'
         /\ \A n \in Marks \ {m} : HasLine(n)' => HasLine(n)
         /\ HasLine(m)' <=> winCheck(Marked(position, m), m)
         /\ Tie(board) => Tie(board')
         /\ Tie(board) => (HasLine(m)' => HasLine(m))
<1>1. /\ DOMAIN board' = DOMAIN board \cup ({position} \cap Cells)
      /\ position \in Cells => board'[position] = m
      /\ \A c \in DOMAIN board \ {position} : board'[c] = board[c]
      /\ position \in DOMAIN board => board[position] = None
  BY PlayBoard
<1>2. Cells \subseteq DOMAIN board'
  BY <1>1
<1>3. None \notin Marks /\ \A wp \in winningPositions : wp \subseteq Cells
  BY OthersAssumption, BoardAssumption DEF OthersAssumption, BoardAssumption, Marks
<1>4. \A n \in Marks : \A c \in Cells : board[c] = n => board'[c] = n
  BY <1>1, <1>3
<1>5. \A n \in Marks \ {m} : \A c \in Cells : board'[c] = n => board[c] = n
  BY <1>1
<1>6. \A n \in Marks : HasLine(n) => HasLine(n)'
  BY <1>2, <1>3, <1>4 DEF HasLine, winCheck
<1>7. \A n \in Marks \ {m} : HasLine(n)' => HasLine(n)
  BY <1>3, <1>5 DEF HasLine, winCheck
<1>8. HasLine(m)' <=> winCheck(Marked(position, m), m)
  BY <1>2 DEF HasLine, winCheck
<1>9. Tie(board) => Tie(board') /\ (HasLine(m)' => HasLine(m))
  <2> SUFFICES ASSUME Tie(board) PROVE Tie(board') /\ (HasLine(m)' => HasLine(m))
    OBVIOUS
  <2>1. position \notin DOMAIN board
    BY <1>1 DEF Tie
  <2>2. DOMAIN board' = DOMAIN board /\ \A c \in DOMAIN board : board'[c] = board[c]
    BY <1>1, <2>1
  <2>3. Tie(board')
    BY <1>1, <1>3, <2>2 DEF Tie
  <2>4. HasLine(m)' => HasLine(m)
    BY <1>3, <2>2 DEF HasLine, winCheck
  <2> QED
    BY <2>3, <2>4
<1> QED
  BY <1>2, <1>6, <1>7, <1>8, <1>9

LEMMA PlayResults ==
  ASSUME RoundTyped, WinnerInv, ResultsAreTrue, phase # "idle",
         NEW m \in Marks, NEW position \in Positions, Unplayed(position),
         Play(m, position)
  PROVE  WinnerInv' /\ ResultsAreTrue'
<1> DEFINE won == winCheck(Marked(position, m), m)
           over == won \/ Tie(Marked(position, m))
<1>1. /\ board' = Marked(position, m)
      /\ winner' = IF won THEN m ELSE winner
      /\ playing' = (playing /\ ~over)
      /\ results' = IF playing' THEN results ELSE results \cup {winner'}
      /\ forfeit' = forfeit
  BY DEF Play
<1>2. /\ Cells \subseteq DOMAIN board'
      /\ \A n \in Marks : HasLine(n) => HasLine(n)'
      /\ \A n \in Marks \ {m} : HasLine(n)' => HasLine(n)
      /\ HasLine(m)' <=> won
      /\ Tie(board) => Tie(board')
      /\ Tie(board) => (HasLine(m)' => HasLine(m))
  BY <1>1, PlayLines DEF WinnerInv
<1>3. over <=> won \/ Tie(board')
  BY <1>1
<1>4. UNDEFINED \notin Marks
  BY DEF Marks
<1> HIDE DEF won, over
<1>5. winner' \in Marks => HasLine(winner)' \/ forfeit' = winner'
  <2> SUFFICES ASSUME winner' \in Marks, forfeit' # winner' PROVE winCheck(board', winner')
    BY <1>2 DEF HasLine
  <2>1. \A n \in Marks : HasLine(n)' <=> winCheck(board', n)
    BY <1>2 DEF HasLine
  <2>2. CASE won
    BY <1>1, <1>2, <2>1, <2>2
  <2>3. CASE ~won
    <3>1. winner' = winner /\ winner \in Marks /\ HasLine(winner)
      BY <1>1, <2>3 DEF WinnerInv
    <3>2. PICK n \in Marks : n = winner
      BY <3>1
    <3> QED
      BY <1>2, <2>1, <3>1, <3>2
  <2> QED
    BY <2>2, <2>3
<1>6. winner' = UNDEFINED => winner = UNDEFINED /\ ~won /\ \A n \in Marks : ~HasLine(n)'
  BY <1>1, <1>2, <1>4 DEF WinnerInv
<1>7. ~playing' /\ winner' = UNDEFINED => Tie(board')
  BY <1>1, <1>2, <1>3, <1>6 DEF WinnerInv, RoundTyped
<1>8. playing' => forfeit' = None
  BY <1>1 DEF WinnerInv, RoundTyped
<1>9. WinnerInv'
  BY <1>2, <1>5, <1>6, <1>7, <1>8 DEF WinnerInv
<1>10. ASSUME NEW n \in results' \cap Marks PROVE HasLine(n)' \/ forfeit' = n
  BY <1>1, <1>2, <1>5 DEF ResultsAreTrue
<1>11. ASSUME UNDEFINED \in results' PROVE Tie(board') /\ \A n \in Marks : ~HasLine(n)'
  <2>1. CASE UNDEFINED \in results
    BY <1>2, <2>1 DEF ResultsAreTrue
  <2>2. CASE UNDEFINED \notin results
    <3>1. ~playing' /\ winner' = UNDEFINED
      BY <1>1, <1>11, <2>2
    <3> QED
      BY <3>1, <1>6, <1>7
  <2> QED
    BY <2>1, <2>2
<1> QED
  BY <1>9, <1>10, <1>11 DEF ResultsAreTrue

\* A step that leaves the round alone, or enters a call in a round that is played, keeps
\* both.
LEMMA SameResults ==
  ASSUME TypeOK, WinnerInv, ResultsAreTrue,
         UNCHANGED <<playing, board, winner, results, forfeit>>,
         phase' \in {phase, "idle"} \/ playing
  PROVE  WinnerInv' /\ ResultsAreTrue'
<1>1. \A n : HasLine(n)' <=> HasLine(n)
  BY DEF HasLine, winCheck
<1>2. ResultsAreTrue'
  BY <1>1 DEF ResultsAreTrue
<1>3. playing => Cells \subseteq DOMAIN board
  BY DEF TypeOK
<1>4. HasLine(winner)' <=> HasLine(winner)
  BY DEF HasLine, winCheck
<1> QED
  BY <1>1, <1>2, <1>3, <1>4 DEF WinnerInv

LEMMA StartResults ==
  ASSUME LoopStart, phase' = "idle" PROVE WinnerInv' /\ ResultsAreTrue'
<1>1. /\ board' = [c \in Cells |-> None] /\ winner' = UNDEFINED
      /\ results' = {} /\ forfeit' = None
  BY DEF LoopStart, FirstWinner
<1>2. ASSUME NEW n \in Marks, NEW wp \in winningPositions, \A c \in wp : board'[c] = n
      PROVE  FALSE
  <2>1. PICK c \in wp : c \in Cells
    BY BoardAssumption DEF BoardAssumption
  <2> QED
    BY <1>1, <1>2, <2>1, OthersAssumption DEF OthersAssumption, Marks
<1>3. \A n \in Marks : ~HasLine(n)'
  BY <1>2 DEF HasLine, winCheck
<1> QED
  BY <1>1, <1>3 DEF WinnerInv, ResultsAreTrue, Marks

LEMMA DeadlineResults ==
  ASSUME TypeOK, WinnerInv, ResultsAreTrue, Deadline, phase' = "idle"
  PROVE  WinnerInv' /\ ResultsAreTrue'
<1>1. CASE /\ Expires
           /\ playing' = FALSE /\ winner' = Other(mark) /\ forfeit' = winner'
           /\ results' = results \cup {winner'} /\ UNCHANGED board
  <2>1. winner' \in Marks /\ UNDEFINED \notin Marks /\ None \notin Marks
    BY <1>1, TypeParts, MarkFacts DEF Marks
  <2>2. playing /\ forfeit = None
    BY <1>1 DEF Expires, WinnerInv
  <2>3. \A n : HasLine(n)' <=> HasLine(n)
    BY <1>1 DEF HasLine, winCheck
  <2>4. \A n \in results \cap Marks : HasLine(n)
    BY <2>1, <2>2 DEF ResultsAreTrue
  <2>5. UNDEFINED \in results' => UNDEFINED \in results
    BY <1>1, <2>1
  <2>6. ResultsAreTrue'
    BY <1>1, <2>3, <2>4, <2>5 DEF ResultsAreTrue
  <2>7. WinnerInv'
    BY <1>1, <2>1 DEF WinnerInv
  <2> QED
    BY <2>6, <2>7
<1>2. CASE UNCHANGED <<playing, board, winner, results, forfeit>>
  BY <1>2, SameResults
<1> QED
  BY <1>1, <1>2 DEF Deadline, CountDown, round

LEMMA NextResults ==
  ASSUME TypeOK, WinnerInv, ResultsAreTrue, [Next]_vars
  PROVE  WinnerInv' /\ ResultsAreTrue'
<1>1. RoundTyped
  BY TypeParts
<1>2. CASE UNCHANGED round /\ (phase' \in {phase, "idle"} \/ (playing /\ phase = "idle"))
  BY <1>2, SameResults DEF round
<1>3. CASE LoopPause \/ (phase' = phase /\ InviteAi)
  BY <1>3, PauseRound, InviteRound, SameResults
<1>4. CASE LoopStart
  BY <1>4, StartRound, StartResults
<1>5. ASSUME phase = "messages", phase' # "idle",
             NEW p \in Players, NEW position \in Positions, MoveMessage(p, position)
      PROVE  WinnerInv' /\ ResultsAreTrue'
  <2>1. CASE Accepted(p, position) /\ Play(MarkOf(p), position)
    BY <1>1, <1>5, <2>1, MarkFacts, PlayResults DEF Accepted
  <2>2. CASE UNCHANGED round
    <3>1. UNCHANGED <<playing, board, winner, results, forfeit>>
      BY <2>2 DEF round
    <3>2. \A n : HasLine(n)' <=> HasLine(n)
      BY <3>1 DEF HasLine, winCheck
    <3>3. HasLine(winner)' <=> HasLine(winner)
      BY <3>1 DEF HasLine, winCheck
    <3>4. ResultsAreTrue'
      BY <3>1, <3>2 DEF ResultsAreTrue
    <3> QED
      BY <1>5, <3>1, <3>2, <3>3, <3>4 DEF WinnerInv
  <2> QED
    BY <1>5, <2>1, <2>2 DEF MoveMessage
<1>6. CASE phase # "idle" /\ phase' = "idle" /\ Deadline
  BY <1>6, DeadlineResults
<1> QED
  BY <1>2, <1>3, <1>4, <1>5, <1>6, RoundSteps DEF RoundStep

\* Every announced winner has a line or the other player's time ran out, and every
\* draw is a full board without a line (match_handler.ts:328-344, :412-428).
THEOREM AnnouncedIsTrue == Spec => []ResultsAreTrue
<1>1. Init => WinnerInv /\ ResultsAreTrue
  <2> SUFFICES ASSUME Init PROVE WinnerInv /\ ResultsAreTrue
    OBVIOUS
  <2>1. \A n \in Marks : ~HasLine(n)
    <3> SUFFICES ASSUME NEW n \in Marks, Cells \subseteq DOMAIN board,
                        NEW wp \in winningPositions
                 PROVE  \E c \in wp : board[c] # n
      BY DEF HasLine, winCheck
    <3>1. PICK c \in wp : c \in Cells
      BY BoardAssumption DEF BoardAssumption
    <3> QED
      BY <3>1 DEF Init, NoPlayers
  <2> QED
    BY <2>1 DEF Init, WinnerInv, ResultsAreTrue, Marks
<1>2. ResultInv /\ [Next]_vars => ResultInv'
  BY NextTyped, NextResults DEF ResultInv, Typed
<1>3. Init => ResultInv
  BY <1>1, InitTyped DEF ResultInv
<1>4. ResultInv => ResultsAreTrue
  BY DEF ResultInv
<1> QED
  BY <1>2, <1>3, <1>4, PTL DEF Spec
=============================================================================
