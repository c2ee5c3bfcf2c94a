------------------------------ MODULE TicTacToe ------------------------------
(***************************************************************************)
(* One match of match_handler.ts, with the AI player of ai.ts and what     *)
(* find_match_js (match_rpc.ts) says about the match.  The callbacks of a  *)
(* match run one at a time.                                                *)
(*                                                                         *)
(* A MatchLoop call with a round in progress is several steps (LoopEnter,  *)
(* one LoopMessage per message, LoopAiMessage, LoopFinish); `phase' keeps  *)
(* every other callback out in between.  A message is chosen when it is    *)
(* handled, from the users who could have sent it since the last call.     *)
(*                                                                         *)
(* External (Nakama): an accepted attempt is followed by a MatchJoin call, *)
(* or by nothing if the client is gone; MatchLeave comes some time after   *)
(* the session is lost; an error in a callback ends the match.  A user has *)
(* one session, and a new one is refused ("already joined") until the      *)
(* MatchLeave of the old one.                                              *)
(***************************************************************************)
EXTENDS Integers, FiniteSets

CONSTANTS
  Users,                \* user ids
  aiUserId,             \* the AI's user id
  Droppers,             \* users whose client may vanish between attempt and join
  AiModes,              \* values of the `ai' parameter the match is created with
  None,                 \* null: no mark, an empty square, no answer of the AI
  Cells,                \* the squares of the board: 0..8
  winningPositions,     \* the lines that win: TheLines
  Beyond,               \* in a move: any of the positions that are no square
  MoreOpCodes,          \* opcodes clients send besides MOVE
  Predictions,          \* squares the AI answers with
  turnTicks,            \* calculateDeadlineTicks of the match's speed: 50 or 100
  nextGameTicks,        \* delaybetweenGamesSec * tickRate: 25
  maxEmptyTicks,        \* maxEmptySec * tickRate: 150
  MaxJoins,             \* bound of the model: refused rejoins counted
  MaxMessages           \* bound of the model: client messages in a loop

ASSUME IdsAssumption ==
  /\ IsFiniteSet(Users) /\ aiUserId \notin Users
  /\ Droppers \subseteq Users /\ AiModes \subseteq BOOLEAN

ASSUME BoardAssumption ==
  /\ IsFiniteSet(Cells) /\ Beyond \notin Cells /\ Predictions \subseteq Cells
  /\ winningPositions \subseteq SUBSET Cells /\ {} \notin winningPositions

ASSUME NumbersAssumption ==
  /\ {turnTicks, nextGameTicks, maxEmptyTicks} \subseteq Nat \ {0}
  /\ MaxJoins \in Nat /\ MaxMessages \in Nat

ASSUME OthersAssumption ==
  /\ None \notin {"X", "O", "UNDEFINED"} /\ None \notin Cells \cup {Beyond}
  /\ MoreOpCodes \subseteq {"INVITE_AI"}

VARIABLES
  life,                    \* up, closed (MatchLoop returned null) or failed
  phase,                   \* where in a MatchLoop call the match is
  handled,                 \* client messages handled in this call
  open,                    \* label.open
  emptyTicks, presences, joinsInProgress, playing, board, marks, mark,
  deadlineRemainingTicks, winner, nextGameRemainingTicks, ai, aiMessage,
  stage,                   \* platform: where each user is
  senders,                 \* users in the match since the last MatchLoop call
  surplus,                 \* history: X's beyond the board minus O's there
  results,                 \* history: winners announced (DONE) in this round
  forfeit                  \* history: winner of this round by its deadline

round == <<playing, board, surplus, marks, mark, deadlineRemainingTicks, winner,
           nextGameRemainingTicks, results, forfeit>>
seats == <<open, emptyTicks, presences, joinsInProgress, ai>>
vars == <<life, phase, handled, seats, round, aiMessage, stage, senders>>

X == "X"
O == "O"
UNDEFINED == "UNDEFINED"     \* Mark.UNDEFINED, or no winner yet

Other(m) == IF m = O THEN X ELSE O

Players == Users \cup {aiUserId}
Stages == {"out", "found", "admitted", "present", "leaving"}

\* presences maps a connected player to "here" and a reserved space (null) to
\* "gone".
Here == {p \in DOMAIN presences : presences[p] = "here"}

connectedPlayers == Cardinality(Here)

Free == life = "up" /\ phase = "idle"

Positions == Cells \cup {Beyond}

MarkOf(p) == IF p \in DOMAIN marks THEN marks[p] ELSE None

NoPlayers == [p \in {} |-> None]

With(f, p, v) == [q \in DOMAIN f \cup {p} |-> IF q = p THEN v ELSE f[q]]

\* matchInit; the caller of find_match_js that created the match knows its id.
Init ==
  /\ life = "up" /\ phase = "idle" /\ handled = 0
  /\ ai \in AiModes
  /\ presences = IF ai THEN With(NoPlayers, aiUserId, "here") ELSE NoPlayers
  /\ open = TRUE /\ emptyTicks = 0 /\ joinsInProgress = 0
  /\ playing = FALSE /\ board = NoPlayers /\ marks = NoPlayers
  /\ surplus = 0
  /\ mark = UNDEFINED /\ winner = UNDEFINED
  /\ deadlineRemainingTicks = 0 /\ nextGameRemainingTicks = 0
  /\ aiMessage = None
  /\ \E u \in Users : stage = [v \in Users |-> IF v = u THEN "found" ELSE "out"]
  /\ senders = {} /\ results = {} /\ forfeit = None
-----------------------------------------------------------------------------
(* Joining and leaving.                                                    *)

Move(u, to) == stage' = [stage EXCEPT ![u] = to]

\* find_match_js lists open matches of size 1 at most, so it answers with this
\* one; the size counts users only.
Listed == open /\ Cardinality({u \in Users : stage[u] \in {"present", "leaving"}}) <= 1

FindMatch(u) ==
  /\ life = "up" /\ stage[u] = "out" /\ Listed
  /\ Move(u, "found")
  /\ UNCHANGED <<life, phase, handled, seats, round, aiMessage, senders>>

HasRoom == connectedPlayers + joinsInProgress < 2

\* Mutant of MatchJoinAttempt: nothing is reserved.
MatchJoinAttemptUncounted(u) ==
  /\ Free /\ stage[u] = "found"
  /\ u \notin DOMAIN presences /\ HasRoom
  /\ Move(u, "admitted")
  /\ UNCHANGED <<life, phase, handled, seats, round, aiMessage, senders>>

\* An accepted attempt of a new player.
MatchJoinAttempt(u) ==
  /\ Free /\ stage[u] = "found"
  /\ u \notin DOMAIN presences /\ HasRoom
  /\ joinsInProgress' = joinsInProgress + 1
  /\ Move(u, "admitted")
  /\ UNCHANGED <<life, phase, handled, open, emptyTicks, presences, ai, round,
                 aiMessage, senders>>

\* The attempt of a player whose space is reserved: counted, and refused.
RejoinAttempt(u) ==
  /\ Free /\ stage[u] = "found" /\ joinsInProgress < MaxJoins
  /\ u \in DOMAIN presences \ Here
  /\ joinsInProgress' = joinsInProgress + 1
  /\ UNCHANGED <<life, phase, handled, open, emptyTicks, presences, ai, round,
                 aiMessage, stage, senders>>

\* The client is gone after its accepted attempt.
Drop(u) ==
  /\ life = "up" /\ u \in Droppers /\ stage[u] = "admitted"
  /\ Move(u, "found")
  /\ UNCHANGED <<life, phase, handled, seats, round, aiMessage, senders>>

MatchJoin(u) ==
  /\ Free /\ stage[u] = "admitted"
  /\ emptyTicks' = 0
  /\ presences' = With(presences, u, "here")
  /\ joinsInProgress' = joinsInProgress - 1
  /\ open' = (open /\ Cardinality(DOMAIN presences') < 2)
  /\ Move(u, "present")
  /\ senders' = senders \cup {u}
  /\ UNCHANGED <<life, phase, handled, ai, round, aiMessage>>

Disconnect(u) ==
  /\ life = "up" /\ stage[u] = "present"
  /\ Move(u, "leaving")
  /\ UNCHANGED <<life, phase, handled, seats, round, aiMessage, senders>>

\* Mutant of AiStays: the AI is never removed.
AiStaysAlways(left) == ai

\* The AI goes with the last human; `left' is presences without the leaver.
AiStays(left) == ai /\ \E u \in Users \cap DOMAIN left : left[u] = "here"

MatchLeave(u) ==
  /\ Free /\ stage[u] = "leaving"
  /\ LET left == With(presences, u, "gone")
     IN  /\ ai' = AiStays(left)
         /\ presences' = [p \in {q \in DOMAIN left : q \in Users \/ ai'} |-> left[p]]
  /\ Move(u, "found")
  /\ UNCHANGED <<life, phase, handled, open, emptyTicks, joinsInProgress, round,
                 aiMessage, senders>>
-----------------------------------------------------------------------------
(* MatchLoop between two rounds.                                           *)

CountEmpty ==
  IF connectedPlayers + joinsInProgress = 0 THEN emptyTicks + 1 ELSE emptyTicks

IdleTooLong ==
  connectedPlayers + joinsInProgress = 0 /\ CountEmpty >= maxEmptyTicks

LoopCloseIdle ==
  /\ Free /\ IdleTooLong
  /\ life' = "closed"
  /\ emptyTicks' = CountEmpty
  /\ UNCHANGED <<phase, handled, open, presences, joinsInProgress, ai, round,
                 aiMessage, stage, senders>>

PresentUsers == {u \in Users : stage[u] = "present"}

\* Reserved spaces are purged and the label follows; messages are discarded.
Tidy ==
  /\ Free /\ ~IdleTooLong /\ ~playing
  /\ emptyTicks' = CountEmpty
  /\ presences' = [p \in Here |-> "here"]
  /\ open' = (open \/ connectedPlayers < 2)
  /\ senders' = PresentUsers
  /\ UNCHANGED <<life, phase, handled, joinsInProgress, ai, aiMessage, stage>>

LoopAlone == Tidy /\ connectedPlayers < 2 /\ UNCHANGED round

LoopPause ==
  /\ Tidy /\ connectedPlayers >= 2 /\ nextGameRemainingTicks > 0
  /\ nextGameRemainingTicks' = nextGameRemainingTicks - 1
  /\ UNCHANGED <<playing, board, surplus, marks, mark, deadlineRemainingTicks,
                 winner, results, forfeit>>

\* With the AI every human is X.  Without it the players take X and O in the
\* order of their ids in presences, which the model does not keep.
NewMarks ==
  IF ai
  THEN {[p \in Here |-> IF p = aiUserId THEN O ELSE X]}
  ELSE {[p \in Here |-> IF p = x THEN X ELSE IF p = o THEN O ELSE None] :
          x, o \in Here}

\* Mutant of FirstWinner: the last round's winner is kept.
FirstWinnerStale == winner

FirstWinner == UNDEFINED

LoopStart ==
  /\ Tidy /\ connectedPlayers >= 2 /\ nextGameRemainingTicks = 0
  /\ playing' = TRUE
  /\ board' = [c \in Cells |-> None] /\ surplus' = 0
  /\ marks' \in NewMarks /\ {X, O} \subseteq {marks'[p] : p \in Here}
  /\ mark' = X
  /\ winner' = FirstWinner
  /\ deadlineRemainingTicks' = turnTicks
  /\ nextGameRemainingTicks' = 0
  /\ results' = {} /\ forfeit' = None
-----------------------------------------------------------------------------
(* MatchLoop with a round in progress.                                     *)

LoopEnter ==
  /\ Free /\ ~IdleTooLong /\ playing
  /\ emptyTicks' = CountEmpty
  /\ phase' = "messages" /\ handled' = 0
  /\ UNCHANGED <<life, open, presences, joinsInProgress, ai, round, aiMessage,
                 stage, senders>>

\* winningPositions of the code, on the code's squares 0..8.
TheLines == {{0, 1, 2}, {3, 4, 5}, {6, 7, 8}, {0, 3, 6}, {1, 4, 7}, {2, 5, 8},
             {0, 4, 8}, {2, 4, 6}}

winCheck(b, m) == \E wp \in winningPositions : \A c \in wp : b[c] = m

Tie(b) == \A c \in DOMAIN b : b[c] # None

\* A position beyond the board is undefined until somebody plays there, and
\* there is always another one: `Beyond' can be played any number of times.
Unplayed(position) == position \in DOMAIN board => board[position] = None

\* Mutant of Accepted: any player may move.
AcceptedAnyTurn(p, position) == MarkOf(p) # None /\ Unplayed(position)

Accepted(p, position) == MarkOf(p) = mark /\ Unplayed(position)

\* The squares after a move.
Marked(position, m) ==
  IF position = Beyond THEN board ELSE With(board, position, m)

\* A move of mark m that counts.  Nothing asks whether the round is still in
\* progress: the rest of the queue is played after the winning move, too.
Play(m, position) ==
  LET new == Marked(position, m)
      won == winCheck(new, m)
      over == won \/ Tie(new)
  IN  /\ board' = new
      /\ surplus' = IF position # Beyond THEN surplus
                    ELSE IF m = X THEN surplus + 1 ELSE surplus - 1
      /\ mark' = Other(m)
      /\ winner' = IF won THEN m ELSE winner
      /\ playing' = (playing /\ ~over)
      /\ deadlineRemainingTicks' = IF over THEN 0 ELSE turnTicks
      /\ nextGameRemainingTicks' =
           IF over THEN nextGameTicks ELSE nextGameRemainingTicks
      /\ results' = IF playing' THEN results ELSE results \cup {winner'}
      /\ UNCHANGED <<marks, forfeit>>

\* A move that does not count is answered with REJECTED; one beyond the board
\* may be to a position where somebody has played.
MoveMessage(p, position) ==
  \/ Accepted(p, position) /\ Play(MarkOf(p), position)
  \/ ~Accepted(p, position) /\ UNCHANGED round
  \/ position = Beyond /\ UNCHANGED round

\* Purges the reserved spaces in any case; the AI comes if one player is left.
InviteAi ==
  /\ \/ /\ ~ai /\ connectedPlayers = 1
        /\ ai' = TRUE
        /\ presences' = [p \in Here \cup {aiUserId} |-> "here"]
        /\ \E p \in Here : marks' = With(marks, aiUserId, Other(MarkOf(p)))
     \/ /\ ~ai /\ connectedPlayers # 1
        /\ presences' = [p \in Here |-> "here"]
        /\ UNCHANGED <<ai, marks>>
     \/ ai /\ UNCHANGED <<ai, presences, marks>>
  /\ UNCHANGED <<open, emptyTicks, joinsInProgress, playing, board, surplus,
                 mark, deadlineRemainingTicks, winner, nextGameRemainingTicks,
                 results, forfeit>>

LoopMessage(u) ==
  /\ phase = "messages" /\ handled < MaxMessages /\ u \in senders
  /\ \/ \E position \in Positions : MoveMessage(u, position) /\ UNCHANGED seats
     \/ "INVITE_AI" \in MoreOpCodes /\ InviteAi
  /\ handled' = handled + 1
  /\ UNCHANGED <<life, phase, aiMessage, stage, senders>>

\* The AI's answer comes after the queue.
LoopAiMessage ==
  /\ phase = "messages" /\ aiMessage # None
  /\ MoveMessage(aiUserId, aiMessage)
  /\ aiMessage' = None
  /\ phase' = "deadline"
  /\ UNCHANGED <<life, handled, seats, stage, senders>>

\* Mutant of Expires: the deadline is passed below zero.
ExpiresLate == playing /\ deadlineRemainingTicks < 0

Expires == playing /\ deadlineRemainingTicks <= 1

\* Mutant of CountDown: the AI's time does not run.
CountDownHumans ==
  /\ deadlineRemainingTicks' =
       IF ai /\ mark = MarkOf(aiUserId) THEN deadlineRemainingTicks
       ELSE deadlineRemainingTicks - 1
  /\ UNCHANGED <<playing, board, surplus, marks, mark, winner,
                 nextGameRemainingTicks, results, forfeit>>

CountDown ==
  /\ deadlineRemainingTicks' = deadlineRemainingTicks - 1
  /\ UNCHANGED <<playing, board, surplus, marks, mark, winner,
                 nextGameRemainingTicks, results, forfeit>>

Deadline ==
  \/ /\ Expires
     /\ playing' = FALSE
     /\ winner' = Other(mark)
     /\ deadlineRemainingTicks' = 0
     /\ nextGameRemainingTicks' = nextGameTicks
     /\ results' = results \cup {winner'} /\ forfeit' = winner'
     /\ UNCHANGED <<board, surplus, marks, mark>>
  \/ playing /\ ~Expires /\ CountDown
  \/ ~playing /\ UNCHANGED round

\* aiTurn: the prediction is any square, whether or not it is free, or there is
\* none.  It throws when the request does, and may throw when it meets a move
\* beyond the board.
aiTurn ==
  \/ aiMessage' \in Predictions /\ UNCHANGED life
  \/ UNCHANGED <<aiMessage, life>>
  \/ life' = "failed" /\ UNCHANGED aiMessage

LoopFinish ==
  /\ phase = "deadline" \/ (phase = "messages" /\ aiMessage = None)
  /\ Deadline
  /\ \/ ai /\ mark = MarkOf(aiUserId) /\ aiTurn
     \/ ~(ai /\ mark = MarkOf(aiUserId)) /\ UNCHANGED <<aiMessage, life>>
  /\ phase' = "idle" /\ handled' = 0
  /\ senders' = PresentUsers
  /\ UNCHANGED <<seats, stage>>

LoopStep ==
  \/ LoopCloseIdle \/ LoopAlone \/ LoopPause \/ LoopStart \/ LoopEnter
  \/ \E u \in Users : LoopMessage(u)
  \/ LoopAiMessage \/ LoopFinish

Next ==
  \/ \E u \in Users :
       \/ FindMatch(u) \/ MatchJoinAttempt(u) \/ RejoinAttempt(u) \/ Drop(u)
       \/ MatchJoin(u) \/ Disconnect(u) \/ MatchLeave(u)
  \/ LoopStep

Spec == Init /\ [][Next]_vars

\* The platform calls MatchLoop at every tick, and serves its queue of leaves
\* between the ticks.
FairSpec ==
  /\ Spec
  /\ WF_vars(LoopStep)
  /\ SF_vars(\E u \in Users : MatchLeave(u))
-----------------------------------------------------------------------------
(* Properties.                                                             *)

Marks == {X, O}

\* Every variable has its type, and a round in progress has a board and a mark
\* to move.
TypeOK ==
  /\ life \in {"up", "closed", "failed"}
  /\ phase \in {"idle", "messages", "deadline"}
  /\ handled \in 0..MaxMessages
  /\ open \in BOOLEAN /\ ai \in BOOLEAN /\ playing \in BOOLEAN
  /\ emptyTicks \in 0..maxEmptyTicks
  /\ DOMAIN presences \subseteq Players
  /\ presences \in [DOMAIN presences -> {"here", "gone"}]
  /\ joinsInProgress \in Nat
  /\ DOMAIN board \subseteq Cells /\ surplus \in Int
  /\ board \in [DOMAIN board -> Marks \cup {None}]
  /\ DOMAIN marks \subseteq Players
  /\ marks \in [DOMAIN marks -> Marks \cup {None}]
  /\ mark \in Marks \cup {UNDEFINED}
  /\ deadlineRemainingTicks \in 0..turnTicks
  /\ winner \in Marks \cup {UNDEFINED}
  /\ nextGameRemainingTicks \in 0..nextGameTicks
  /\ aiMessage \in Cells \cup {None}
  /\ stage \in [Users -> Stages]
  /\ senders \subseteq Users
  /\ results \subseteq Marks \cup {UNDEFINED}
  /\ forfeit \in Marks \cup {None}
  /\ playing => mark \in Marks /\ Cells \subseteq DOMAIN board

InMatch == {u \in Users : stage[u] \in {"admitted", "present", "leaving"}}

\* However attempts, joins, rejoins and leaves interleave, no more than two users are
\* admitted or in the match: an attempt holds its place until it joins
\* (match_handler.ts:132).
TwoHumans == Cardinality(InMatch) <= 2

CellsOf(m) == {c \in DOMAIN board : board[c] = m}

\* The players move in turn, X first, whoever sends what and whoever plays a
\* mark: the AI that takes over, a player who comes back, one who has left.
MarksAlternate ==
  Cardinality(CellsOf(X)) + surplus =
    Cardinality(CellsOf(O)) + IF mark = O THEN 1 ELSE 0

HasLine(m) == Cells \subseteq DOMAIN board /\ winCheck(board, m)

\* Every result announced in a round is true: the winner has a line, or the
\* other player ran out of time; a draw is a full board without one.
ResultsAreTrue ==
  /\ \A m \in results \cap Marks : HasLine(m) \/ forfeit = m
  /\ UNDEFINED \in results => Tie(board) /\ \A m \in Marks : ~HasLine(m)

\* MatchLoop closes the match only when nobody is in it or about to join
\* (match_handler.ts:218).
ClosesOnlyEmpty ==
  [][life' = "closed" /\ life = "up" =>
       \A u \in Users : stage[u] \notin {"admitted", "present"}]_vars

\* "Match has been empty for too long, close it" (match_handler.ts:221): a match
\* that everybody left, or never came to, closes, and the AI that played there
\* does not keep it alive; only an AI that has had no opponent yet waits, and
\* only a join still counted in progress holds the match.
EmptyCloses ==
  []<>(\/ life # "up" \/ joinsInProgress > 0
       \/ \E u \in Users : stage[u] = "present"
       \/ ai /\ marks = NoPlayers)

Playable == Cardinality(Here) >= 2

\* A move beyond the board, which counts and gives the next player a full turn.
PlaysBeyond == playing /\ playing' /\ surplus' # surplus

\* Every round ends, by moves or by its deadline, also when its players are
\* gone or the AI repeats a move that is refused, unless moves beyond the board
\* keep coming for ever (match_handler.ts:317); and two players who stay get
\* the next round.
RoundsGoOn ==
  /\ []<><<PlaysBeyond>>_vars \/ []<>(~playing \/ life # "up")
  /\ []<>(playing \/ ~Playable \/ life # "up")

\* "There are one or more ongoing matches the user could join"
\* (match_rpc.ts:51): a match that find_match_js answers with does not stay
\* closed to everybody.
ListedAdmits ==
  (life = "up" /\ Listed) ~>
    (life # "up" \/ ~Listed \/ HasRoom \/ \E u \in Users : stage[u] = "admitted")
=============================================================================
