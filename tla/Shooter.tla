------------------------------- MODULE Shooter -------------------------------
(***************************************************************************)
(* One match of match_handler.go.  The handler's callbacks run one at a    *)
(* time; between them the platform admits, drops and disconnects sessions  *)
(* and queues their messages.                                              *)
(*                                                                         *)
(* A MatchLoop call that runs the fight is several steps here (LoopEnter,  *)
(* one LoopMessage per message, LoopFinish).  They are one call: `looping' *)
(* keeps every other callback out until LoopFinish, and nothing but the    *)
(* next message can happen in between.                                     *)
(*                                                                         *)
(* External (Nakama): a session is admitted by MatchJoinAttempt first and  *)
(* appears in a MatchJoin call later, or never if its client is gone;      *)
(* MatchLeave is delivered some time after the session is lost.            *)
(***************************************************************************)
EXTENDS Integers, Sequences, FiniteSets

CONSTANTS
  Users,            \* user ids
  Sessions,         \* client sockets; a user may have several
  UserOf,           \* the user of each session
  NoUser,           \* the empty winner_id of a draw
  maxPlayers,       \* 2
  startingHealth,   \* 100
  maxDamage,        \* 10: damage is rand.Intn(10) + 1
  cooldownTicks,    \* 20
  idleTicks,        \* 300
  graceTicks,       \* 50, a literal in MatchLoop
  JoinBatch,        \* most presences one MatchJoin call carries
  MaxTick,          \* bound of the model: no MatchLoop call after this tick
  MaxMessages       \* bound of the model: messages between two MatchLoop calls

ASSUME IdsAssumption ==
  /\ IsFiniteSet(Users)
  /\ IsFiniteSet(Sessions)
  /\ UserOf \in [Sessions -> Users]
  /\ NoUser \notin Users

ASSUME NumbersAssumption ==
  /\ {maxPlayers, startingHealth, maxDamage, cooldownTicks, idleTicks,
      graceTicks, JoinBatch} \subseteq Nat \ {0}
  /\ MaxTick \in Nat
  /\ MaxMessages \in Nat

VARIABLES
  running,        \* no MatchLoop call has returned nil
  tick,           \* tick passed to the next MatchLoop call
  players,        \* MatchState.Players: user id -> health, last shot
  started,        \* MatchState.Started
  finished,       \* MatchState.Finished
  finishedTick,   \* MatchState.FinishedTick
  emptyTicks,     \* MatchState.EmptyTicks
  label,          \* the match advertises {"open":1}
  looping,        \* inside a MatchLoop call
  dirty,          \* its stateChanged
  messages,       \* OpCodeShoot messages queued, as sender user ids
  stage,          \* platform: where each session is
  synced,         \* last OpCodeStateSync broadcast
  announced,      \* winners in the OpCodeMatchOver broadcasts, in order
  shots,          \* history: damaging shots by each user
  orphaned,       \* history: sessions in the match whose player was deleted
                  \* because another session of the same user left
  overtaken       \* history: users on their way when the match was decided

matchState == <<players, started, finished, finishedTick, emptyTicks>>
history == <<shots, orphaned, overtaken>>
vars == <<running, tick, matchState, label, looping, dirty, messages, stage,
          synced, announced, history>>

Stages == {"out", "admitted", "present", "leaving"}

Player == [health : 0..startingHealth, lastShotTick : Nat]

\* What broadcastState sends.
View(ps, st) == [health |-> [u \in DOMAIN ps |-> ps[u].health], started |-> st]

Alive == {u \in DOMAIN players : players[u].health > 0}

Present == {s \in Sessions : stage[s] = "present"}

\* Users a MatchJoin call may still come for.
OnTheWay == {UserOf[s] : s \in {t \in Sessions : stage[t] = "admitted"}}

\* The match goroutine is free to run a callback.
Free == running /\ ~looping

Init ==
  /\ running = TRUE /\ tick = 0
  /\ players = [u \in {} |-> 0]
  /\ started = FALSE /\ finished = FALSE /\ finishedTick = 0 /\ emptyTicks = 0
  /\ label = TRUE
  /\ looping = FALSE /\ dirty = FALSE /\ messages = <<>>
  /\ stage = [s \in Sessions |-> "out"]
  /\ synced = View(players, started)
  /\ announced = <<>>
  /\ shots = [u \in Users |-> 0] /\ orphaned = {} /\ overtaken = {}
-----------------------------------------------------------------------------
(* Joining.                                                                *)

\* Mutant of Admits: a player who is in the match is let back in.
AdmitsBack(u) ==
  ~finished /\ (Cardinality(DOMAIN players) < maxPlayers \/ u \in DOMAIN players)

\* MatchJoinAttempt's three refusals, negated.
Admits(u) ==
  /\ ~finished                                   \* else "match finished"
  /\ Cardinality(DOMAIN players) < maxPlayers    \* else "match full"
  /\ u \notin DOMAIN players                     \* else "already in match"

\* An accepted attempt; a refused one changes nothing.  Nothing is reserved
\* for the admitted session.
MatchJoinAttempt(s) ==
  /\ Free /\ stage[s] = "out"
  /\ Admits(UserOf[s])
  /\ stage' = [stage EXCEPT ![s] = "admitted"]
  /\ UNCHANGED <<running, tick, matchState, label, looping, dirty, messages,
                 synced, announced, history>>

NewPlayer == [health |-> startingHealth, lastShotTick |-> 0]

WithPlayers(U) ==
  [u \in DOMAIN players \cup U |-> IF u \in U THEN NewPlayer ELSE players[u]]

\* Mutant of StartsNow: an off-by-one, a third player is needed.
StartsLate(ps) == Cardinality(DOMAIN ps) = maxPlayers + 1 /\ ~started

StartsNow(ps) == Cardinality(DOMAIN ps) = maxPlayers /\ ~started

MatchJoin(P) ==
  /\ Free
  /\ P # {} /\ Cardinality(P) <= JoinBatch
  /\ \A s \in P : stage[s] = "admitted"
  /\ players' = WithPlayers({UserOf[s] : s \in P})
  /\ started' = (started \/ StartsNow(players'))
  /\ label' = (label /\ ~StartsNow(players'))
  /\ synced' = View(players', started')
  /\ stage' = [s \in Sessions |-> IF s \in P THEN "present" ELSE stage[s]]
  /\ orphaned' = {s \in orphaned : UserOf[s] \notin {UserOf[t] : t \in P}}
  /\ UNCHANGED <<running, tick, finished, finishedTick, emptyTicks, looping,
                 dirty, messages, announced, shots, overtaken>>

\* The client is gone between the attempt and the join: no MatchJoin comes.
Drop(s) ==
  /\ running /\ stage[s] = "admitted"
  /\ stage' = [stage EXCEPT ![s] = "out"]
  /\ UNCHANGED <<running, tick, matchState, label, looping, dirty, messages,
                 synced, announced, history>>
-----------------------------------------------------------------------------
(* Leaving.                                                                *)

Disconnect(s) ==
  /\ running /\ stage[s] = "present"
  /\ stage' = [stage EXCEPT ![s] = "leaving"]
  /\ orphaned' = orphaned \ {s}
  /\ UNCHANGED <<running, tick, matchState, label, looping, dirty, messages,
                 synced, announced, shots, overtaken>>

\* Mutants of WithoutPlayers: a leaver is always removed; a leaver always
\* stays in the list; a leaver of a running match keeps its health.
RemovedAlways(U) == [u \in DOMAIN players \ U |-> players[u]]
ForfeitAlways(U) ==
  [u \in DOMAIN players |->
     IF u \in U THEN [players[u] EXCEPT !.health = 0] ELSE players[u]]
ForfeitNever(U) ==
  IF started THEN players ELSE [u \in DOMAIN players \ U |-> players[u]]

WithoutPlayers(U) ==
  IF started
  THEN [u \in DOMAIN players |->
          IF u \in U THEN [players[u] EXCEPT !.health = 0] ELSE players[u]]
  ELSE [u \in DOMAIN players \ U |-> players[u]]

MatchLeave(P) ==
  /\ Free
  /\ P # {} /\ \A s \in P : stage[s] = "leaving"
  /\ players' = WithoutPlayers({UserOf[s] : s \in P})
  /\ synced' = View(players', started)
  /\ stage' = [s \in Sessions |-> IF s \in P THEN "out" ELSE stage[s]]
  /\ orphaned' = IF started THEN orphaned
                 ELSE orphaned \cup {s \in Present : UserOf[s] \in {UserOf[t] : t \in P}}
  /\ UNCHANGED <<running, tick, started, finished, finishedTick, emptyTicks,
                 label, looping, dirty, messages, announced, shots, overtaken>>
-----------------------------------------------------------------------------
(* The loop.  Messages with another opcode are skipped by the code and are *)
(* never queued here.                                                      *)

SendShoot(s) ==
  /\ Free /\ stage[s] = "present"
  /\ Len(messages) < MaxMessages
  /\ messages' = Append(messages, UserOf[s])
  /\ UNCHANGED <<running, tick, matchState, label, looping, dirty, stage,
                 synced, announced, history>>

\* Mutant of CountEmpty: every loop counts as empty.
CountAll == IF emptyTicks < idleTicks THEN emptyTicks + 1 ELSE emptyTicks

CountEmpty == IF DOMAIN players = {} THEN emptyTicks + 1 ELSE 0

IdleTooLong == CountEmpty >= idleTicks

Turn == Free /\ tick < MaxTick

\* MatchLoop returns nil: nobody in the match for idleTicks calls.
LoopCloseIdle ==
  /\ Turn /\ IdleTooLong
  /\ running' = FALSE
  /\ emptyTicks' = CountEmpty
  /\ UNCHANGED <<tick, players, started, finished, finishedTick, label,
                 looping, dirty, messages, stage, synced, announced, history>>

\* MatchLoop before the match has started: messages are discarded.
LoopWaiting ==
  /\ Turn /\ ~IdleTooLong /\ ~started
  /\ emptyTicks' = CountEmpty
  /\ messages' = <<>>
  /\ tick' = tick + 1
  /\ UNCHANGED <<running, players, started, finished, finishedTick, label,
                 looping, dirty, stage, synced, announced, history>>

LoopEnter ==
  /\ Turn /\ ~IdleTooLong /\ started
  /\ emptyTicks' = CountEmpty
  /\ looping' = TRUE /\ dirty' = FALSE
  /\ UNCHANGED <<running, tick, players, started, finished, finishedTick,
                 label, messages, stage, synced, announced, history>>

Targets(shooter) == Alive \ {shooter}      \* pickRandomTarget's candidates

\* Mutant of Fires: the cooldown is one tick short.
FiresEarly(u) ==
  /\ u \in Alive
  /\ tick - players[u].lastShotTick >= cooldownTicks - 1
  /\ Targets(u) # {}

\* The shot counts: the sender is alive in the match and off cooldown, and
\* there is someone to hit.
Fires(u) ==
  /\ u \in Alive
  /\ tick - players[u].lastShotTick >= cooldownTicks
  /\ Targets(u) # {}

\* Mutant of AfterHit: no clamp at zero.
AfterHitNegative(health, damage) == health - damage

AfterHit(health, damage) == IF damage > health THEN 0 ELSE health - damage

\* Mutant of Shoot: stateChanged is not set.
ShootUnnoticed(u, target, damage) ==
  /\ players' = [players EXCEPT
                   ![target].health = AfterHit(players[target].health, damage),
                   ![u].lastShotTick = tick]
  /\ shots' = [shots EXCEPT ![u] = shots[u] + 1]
  /\ UNCHANGED dirty

Shoot(u, target, damage) ==
  /\ players' = [players EXCEPT
                   ![target].health = AfterHit(players[target].health, damage),
                   ![u].lastShotTick = tick]
  /\ dirty' = TRUE
  /\ shots' = [shots EXCEPT ![u] = shots[u] + 1]

LoopMessage ==
  /\ looping /\ messages # <<>>
  /\ messages' = Tail(messages)
  /\ LET u == Head(messages)
     IN  \/ /\ Fires(u)
            /\ \E target \in Targets(u), damage \in 1..maxDamage :
                 Shoot(u, target, damage)
         \/ ~Fires(u) /\ UNCHANGED <<players, dirty, shots>>
  /\ UNCHANGED <<running, tick, started, finished, finishedTick, emptyTicks,
                 label, looping, stage, synced, announced, orphaned, overtaken>>

\* Mutants of IsMatchOver: off by one, either way.
OverWithTwo == Cardinality(Alive) <= 2
OverWithNone == Cardinality(Alive) < 1

IsMatchOver == Cardinality(Alive) <= 1

\* broadcastMatchOver names the first player it finds alive, or nobody.
Winners == IF Alive = {} THEN {NoUser} ELSE Alive

\* Mutant of Decide: the ~finished guard is dropped.
DecideAgain ==
  /\ IsMatchOver
  /\ finished' = TRUE /\ finishedTick' = tick
  /\ label' = FALSE
  /\ UNCHANGED <<announced, overtaken>>

Decide ==
  /\ IsMatchOver /\ ~finished
  /\ finished' = TRUE /\ finishedTick' = tick
  /\ label' = FALSE
  /\ \E w \in Winners : announced' = Append(announced, w)
  /\ overtaken' = OnTheWay

\* Mutant of GraceOver: one tick too many.
GraceLate(over, since) == over /\ tick - since > graceTicks

GraceOver(over, since) == over /\ tick - since >= graceTicks

\* The rest of the call: broadcast, decide, and close after the grace period.
LoopFinish ==
  /\ looping /\ messages = <<>>
  /\ synced' = IF dirty THEN View(players, started) ELSE synced
  /\ \/ Decide
     \/ /\ ~IsMatchOver \/ finished
        /\ UNCHANGED <<finished, finishedTick, label, announced, overtaken>>
  /\ running' = ~GraceOver(finished', finishedTick')
  /\ looping' = FALSE /\ dirty' = FALSE
  /\ tick' = tick + 1
  /\ UNCHANGED <<players, started, emptyTicks, messages, stage, shots, orphaned>>

LoopStep == LoopCloseIdle \/ LoopWaiting \/ LoopEnter \/ LoopMessage \/ LoopFinish

Next ==
  \/ \E s \in Sessions :
       MatchJoinAttempt(s) \/ Drop(s) \/ Disconnect(s) \/ SendShoot(s)
  \/ \E P \in SUBSET Sessions : MatchJoin(P) \/ MatchLeave(P)
  \/ LoopStep

Spec == Init /\ [][Next]_vars

\* The platform calls MatchLoop at every tick, and serves its queue of leaves
\* between the ticks.
FairSpec ==
  /\ Spec
  /\ WF_vars(LoopStep)
  /\ SF_vars(\E P \in SUBSET Sessions : MatchLeave(P))
-----------------------------------------------------------------------------
(* Properties.  Those marked (one session per user) assume that no user    *)
(* has two sessions, as session_events.go means to ensure.                 *)

\* Every variable has its type; health stays within 0..startingHealth and no
\* recorded tick is in the future.
TypeOK ==
  /\ running \in BOOLEAN
  /\ tick \in Nat
  /\ DOMAIN players \subseteq Users
  /\ players \in [DOMAIN players -> Player]
  /\ \A u \in DOMAIN players : players[u].lastShotTick <= tick
  /\ started \in BOOLEAN /\ finished \in BOOLEAN
  /\ finishedTick \in 0..tick
  /\ emptyTicks \in 0..idleTicks
  /\ label \in BOOLEAN /\ looping \in BOOLEAN /\ dirty \in BOOLEAN
  /\ messages \in Seq(Users)
  /\ stage \in [Sessions -> Stages]
  /\ announced \in Seq(Users \cup {NoUser})
  /\ shots \in [Users -> Nat]
  /\ orphaned \subseteq Sessions /\ overtaken \subseteq Users

\* A full match has started: no interleaving of joins and early leaves wedges
\* a match that refuses everybody and never begins (match_handler.go:126
\* compares with ==).  Holds when MatchJoin carries one presence at a time.
FullMeansStarted == Cardinality(DOMAIN players) >= maxPlayers => started

\* "Matches advertise themselves as open only while they can still take a
\* player" (match_handler.go:29): the label is not left open on a match that
\* is full or decided.
OpenMeansRoom ==
  label => ~finished /\ Cardinality(DOMAIN players) < maxPlayers

\* A player's damaging shots are cooldownTicks apart, whatever messages pile
\* up between two loops and however often the player leaves and comes back
\* before the start: after n shots at least n cooldowns have passed.
\* (one session per user)
CooldownPaced ==
  \A u \in DOMAIN players :
    shots[u] * cooldownTicks <= players[u].lastShotTick

\* In the match, and nothing under way that could enter the user again.
Settled(u) ==
  started /\ u \in DOMAIN players /\ u \notin OnTheWay

\* A forfeit or a loss stands (README.md:49): MatchJoin restores full health
\* (match_handler.go:117), so once the match runs a player none of whose
\* sessions is on its way never recovers health, never leaves the list and is
\* never let in again, however many sessions its user has.
SettledNeverRecovers ==
  [][\A u \in Users :
       Settled(u) => Settled(u)' /\ players'[u].health <= players[u].health]_vars

\* The result is announced once and stays true: from the announcement to the
\* end nobody is alive but the announced winner and users who were already
\* on their way when the match was decided: MatchJoin lets those in at full
\* health (match_handler.go:98), a later attempt is refused.
VerdictStands ==
  finished => /\ Len(announced) = 1
              /\ Alive \subseteq {announced[1]} \cup overtaken

\* Between callbacks the clients' last OpCodeStateSync shows the players'
\* actual health (README.md:61): no path changes it without broadcasting.
ClientsInSync == Free => synced = View(players, started)

\* A decided match is gone once its grace period is over.
GraceBounded == running /\ finished => tick - finishedTick <= graceTicks

\* MatchLoop returns nil under a session that is in the match only after
\* clients had the whole grace period to receive the result: the idle timer
\* (match_handler.go:141) never closes a match that a session is in, but when
\* MatchLeave of another session of the same user deleted the player of every
\* session there (match_handler.go:303) and it has not joined again.
NeverTornDownEarly ==
  [][running /\ ~running' =>
       \/ finished /\ tick - finishedTick >= graceTicks
       \/ Present \subseteq orphaned]_vars

\* The match as matchmaking sees it, and the life it promises to lead.
LobbyView ==
  [life    |-> IF running THEN "up" ELSE "closed",
   roster  |-> DOMAIN players,
   started |-> started,
   over    |-> finished,
   open    |-> label]

L == INSTANCE Lobby WITH lobby <- LobbyView

\* The handler implements module Lobby: its roster only grows once started,
\* its label closes and never reopens, it closes only decided or empty.
ImplementsLobby == L!Spec

\* Nobody is in the match or on the way to it.
Vacant == \A s \in Sessions : stage[s] = "out"

\* A match everybody has left is closed, started or not, unless somebody
\* comes back; within idleTicks + graceTicks loops, which must fit MaxTick.
AbandonedCloses ==
  (running /\ Vacant /\ tick + idleTicks + graceTicks < MaxTick)
    ~> (~running \/ ~Vacant)

\* A lost session's player is forfeited in a running match.
LeaverForfeits ==
  \A s \in Sessions :
    (stage[s] = "leaving" /\ started)
      ~> (~running \/ UserOf[s] \notin Alive)

\* When at most one player stands the match is decided by the next loop,
\* also when the last blow was a forfeit and no message ever comes.
LastStandingDecides ==
  (running /\ started /\ Cardinality(Alive) <= 1 /\ tick < MaxTick) ~> finished

\* A decided match closes after its grace period.
DecidedCloses == (finished /\ finishedTick + graceTicks < MaxTick) ~> ~running
=============================================================================
