# Models and proofs for the NakamaLoadServer plugin

TLA+ models of this repository's server plugin, checked by TLC on small instances and,
for the theorems below, proved by TLAPS for every value of the constants. Paths are
relative to the repository (`src/`); vendored and generated code is left aside.

## 1. The system

A Nakama server plugin. Nakama owns the sockets, the storage and the match goroutines
and calls the plugin's RPCs, hooks and match callbacks.

| Component | State it keeps | Operations | Module |
| --- | --- | --- | --- |
| Shooter match (`match_handler.go`) | players (health, last shot), started, finished, empty ticks, label | MatchInit, MatchJoinAttempt, MatchJoin, MatchLeave, MatchLoop | `Shooter`, `Lobby` |
| Matchmaking (`find_match.go`) | `matchmakingMu`, `lastCreated`, `seats`, the mode | `find_match` in three modes | `FindMatch`, `Seats`, `SeatPool` |
| `create_match` (`match_rpc.go`) | none | `create_match` | `FindMatch` |
| Daily reward (`daily_rewards.go`, `.lua`, `.ts`) | stored claim, wallet | `rewards`, `reward`, `rewards_js` | `Rewards`, `Storage` |
| Score (`add_score.go`) | stored score | `add_score` | `AddScore`, `Storage` |
| Session events (`session_events.go`) | none of its own; sessions | session start, session end | `Sessions` |
| Usernames (`names.go`) | the account's username | after-authenticate hook | `Names` |
| Tic-tac-toe match (`match_handler.ts`) | board, marks, deadlines, presences and reserved spaces, joins in progress, AI | matchInit, matchJoinAttempt, matchJoin, matchLeave, matchLoop | `TicTacToe` |
| Tic-tac-toe AI and matchmaking (`ai.ts`, `match_rpc.ts`) | the AI's answer | TensorFlow request, `find_match_js` | `TicTacToe` |
| Wire formats, initialisation, packaging | none | none | not modelled |

How they interact:

- `find_match` promises a seat, the client then joins the match over its socket: Nakama
  calls MatchJoinAttempt, and later MatchJoin, which releases the seat
  (`match_handler.go:116`, `find_match.go:188`).
- MatchLoop and MatchJoin change the match label; MatchList reads it through an index
  that lags (`find_match.go:57`).
- A session start disconnects the user's other sessions; the match handler sees this as
  a MatchLeave.
- `find_match_js` lists open tic-tac-toe matches of size one at most or creates one.
  matchLoop asks the AI for a move over HTTP and keeps the answer for its next call; an
  exception there ends the match.
- The three reward RPCs share one storage object; reads return a version, writes are
  conditional on it unless it is empty.

What is hard in this code: callbacks of a match are serial but sessions are not
(admission reserves nothing, leaves arrive late); `find_match` calls Nakama while other
callers, the match loop and time go on; the mutex covers find_match only; every platform
call may fail half-way; RPCs of one user overlap; timers (idle, grace, seat expiry,
cooldown, a turn's deadline) race with all of it; the tic-tac-toe handler reserves
places by a counter that attempts and joins must balance. `PROJECT.json` lists each
hazard at its line, with the properties aimed at it.

## 2. Modules and how they correspond to the code

**Shooter** is one match. Each callback is an action guarded by `Free`: the callbacks of
a match never overlap. A MatchLoop call that runs the fight is `LoopEnter`, one
`LoopMessage` per queued message and `LoopFinish`, and `looping` keeps everything else
out in between, so it is still one call. `MatchState`'s fields are variables of the same
name; `label` is the advertised openness, `synced` and `announced` record the
broadcasts, `stage` is where the platform has each session. `Drop`, `Disconnect` and
`SendShoot` are the platform and the clients. Three variables are history: `shots`
counts each user's shots, `orphaned` holds the sessions in the match whose player the
leave of another session of the same user deleted, `overtaken` the users admitted and
still to join when the match was decided.

**LobbyState, Lobby** describe a match as matchmaking sees it: roster, started, decided,
open. `Lobby` is an abstract specification that `Shooter` implements
(`ImplementsLobby`); the operators of `LobbyState` are then what `FindMatch` uses for
the matches it sends users to, so the two models meet at a checked boundary.

**FindMatch** is find_match, create_match and the clients. Every call of Nakama is a
step of its own whose answer is used later: `Begin` (lock, clock, sweep),
`MatchGet`/`MatchGone`/`CheckLast` (`lastCreated`), `MatchList`, `Scan`, `MatchCreate`,
`Reply` (hold the seat, unlock). `Seats` has the functions on the map of seats; each
holds `seatsMu` throughout and calls nothing, so it is one step. A client's session
arrives (`Arrive`, the match's size grows) before MatchJoin, and is lost (`Disconnect`,
the size falls) before MatchLeave. `SeatPool` is the abstract promise of seats: a
match's players are counted, and one more seat is promised, to a user who has none, only
if the players counted and the seats promised leave a place; a count serves one promise.
`FindMatch` is shown to implement it (`ImplementsSeatPool`, with the promised users read
off the map, the players inside off the match's size, and the counts off the running
calls). That a count may be out of date when it is used is not the pool's affair;
`NoSeatedRejection` is about it.

**AddScore, Rewards** are overlapping calls of one user; objects of different users do
not interact. Every platform call is a step; `Storage` says what a version is and when
Nakama accepts a write. `Rewards` has the three copies of the RPC over the object they
share. They do not agree on its field (`last_claim_unix`, `lastClaimUnix`), which
`FieldName`, `Missing`, `Due` and `Broken` express.

**Sessions** is the single-device rule for one user's sessions: the handler of a start
event lists the others, and for each one notifies the user and disconnects it. Nakama
handles events with several workers, so handlers overlap.

**TicTacToe** is one tic-tac-toe match, with its AI and what `find_match_js` says about
it. The callbacks are actions guarded by `Free`. A matchLoop call between two rounds is
one action (`LoopCloseIdle`, `LoopAlone`, `LoopPause`, `LoopStart`; `Tidy` is what the
last three share: purge reserved spaces, follow with the label). A call with a round in
progress is `LoopEnter`, one `LoopMessage` per client message, `LoopAiMessage` if the AI
has answered, and `LoopFinish` (deadline, then asking the AI); `phase` keeps everything
else out in between. State fields are variables of the same name; `presences` maps to
"here" or, for null, "gone"; `board` has the squares. Every position that is no square
is `Beyond`: it can be played any number of times, for there is always one more that
nobody has played, and `surplus` keeps, as history, the X's there less the O's. `stage`
is where the platform has each user, `senders` who may have a message in the queue;
`results` and `forfeit` record what a round has announced. The board and its lines are
constants: `TheLines` are those of the code.

**Names** is the hook that names a new account, for several accounts at once. A username
is a tuple whose shape says where it came from; `failed` records hooks that met more
than a name that was taken.

`MC*` modules give the constants their values. `*_proofs` hold the theorems. Definitions
whose comment begins "Mutant of" are never used by the specification: each is the
definition after it with a plausible mistake, which a property must notice.

## 3. Runs and bounds

| Run | Expected | Question |
| --- | --- | --- |
| ShooterDuel | holds | A match of two users to its end: shots keep their pace, clients are in sync, a decided match keeps to its grace period; and, with fairness, abandoned and decided matches close, leavers are forfeited, a last player standing decides. |
| ShooterCrowd | holds | Three users for two slots, one of them with two sessions: full matches have started, open matches have room, a settled player never recovers, the verdict is announced once and only late joins overtake it, no match is closed under a session unless another session of its user left, and `Lobby` is implemented. |
| FindSeats | holds | Seats mode implements `SeatPool` (players counted and seats promised fit into the match), leaves nothing stale behind, creates no match needlessly. |
| FindModes | holds | All modes with failing calls: serialized callers get one new match, every call returns. |
| FindRejected | violated | Is a client with a live seat ever refused? Yes. |
| AddScore | holds | A user who has a score: no addition lost, no answer given twice, somebody wins. |
| Rewards | holds | A recorded claim is never paid twice or forgotten, nobody is denied without one. |
| RewardTwice | violated | Is the reward paid once a day? Not when two calls overlap. |
| Sessions | holds | At most one session is left settled, none is cut off without word. |
| TicTacToe | holds | Two users and the AI: marks alternate, announced results are true, no match is closed under anybody; and, with fairness, every round ends unless moves beyond the board keep coming, players who stay get the next one, and a match with nobody in it closes. |
| TicTacToeFull | violated | Does a match that `find_match_js` lists ever take somebody again? Not always. |
| Names | holds | Three accounts named at once from two names: one fallback is enough, unless a call fails for another reason or the server stops. |

Bounds. None of the properties compares a number with its real size, so timers are
scaled to one to three ticks and health to two or three points: every order of joins,
shots, expiry and closing still occurs.

- `MaxTick` stops MatchLoop: 8 is enough in ShooterDuel for start, several shots,
  decision, grace and closing; the liveness properties only speak of matches that have
  this much left. `MaxMessages` (2) lets two shots of one player, or of both, meet in
  one loop. `JoinBatch` is the number of presences in a MatchJoin call, two in
  ShooterDuel.
- ShooterCrowd has four sessions of three users and one presence per MatchJoin: with two
  slots all three users can be admitted at once, so the roster passes `maxPlayers`, and
  the user of two sessions can forfeit with one and come back with the other, or lose
  the player of a session that stays. Five ticks are enough for the start, a deciding
  shot, a late join, and closing after a grace period of one.
- `MaxCalls`, `MaxTime`: three or four requests and one clock step, with `seatTTL = 1`
  and `sweepThreshold = 1`: seats expire under running calls and the sweep runs at its
  limit. Two users per match, two or three matches and three clients are enough for one
  user to be left over. `ListLimit` lists every match.
- `DayLength = 2`, `MaxTime = 5`: two midnights while three calls overlap.
- Four add_score calls; requests at both ends of the valid range and beyond.
- TicTacToe: a board of four squares in two lines, the smallest on which each player can
  win, by the last move too, and the round can be a draw; any number of moves beyond it.
  A turn of two ticks, a pause and an idle limit of one. `MaxMessages` (2) messages in a
  loop let one follow a winning move and an invitation of the AI follow a move.
  `MaxJoins` (1) stops counting refused rejoins, for the code has no limit. One client
  may vanish between attempt and join (`Droppers`), the AI always answers with the same
  square, so that its answers are soon refused, and its requests may fail or bring no
  answer at any time. The real board is covered by the theorems, which hold for any
  board and lines. TicTacToeFull has three users and no messages.
- Names: three accounts and two names, so that one of the accounts meets a collision.
- Three sessions, so that two handlers overlap over a third session.

Clients, calls and match ids are used as symmetry sets where only safety is checked.
Deadlock is not checked: each model stops when its bounded ticks, calls or sessions are
used up, and a match really ends.

Fairness. Shooter: MatchLoop is called every tick, and MatchLeave is delivered for every
lost session (strong fairness: loops may come in between). FindMatch: a running call
proceeds, and Go's `sync.Mutex` does not starve a waiter (strong fairness of `Begin`).
AddScore: running calls proceed; `SomebodyWins` is checked with reads that may fail and
writes that fail only for their version. Sessions: a queued event is handled to its end.
TicTacToe: matchLoop is called at every tick (weak fairness of its steps), a lost
session's matchLeave is delivered (strong fairness: loops may come in between). Nothing
is assumed of clients: `RoundsGoOn` therefore excepts rounds in which moves beyond the
board never cease (`match_handler.ts:317`), since each of them starts the deadline anew.

## 4. What the violations show

- **NoSeatedRejection** (`find_match.go:145`): the size of the match is read before its
  seats are counted. A user who joins in between is in neither. Other behaviours, seen
  as traces, refuse a seated user too: another user arrives after the own seat has
  expired and takes the place; a stale listing still returns a match that started and
  whose players left (`:154`): its size is small, its roster full; and a match of which
  a session was just lost has a smaller size before its MatchLeave, while the roster
  still has the player.
- **OnePerDay** (`daily_rewards.go:80`): the wallet is updated before the conditional
  write; the version check comes after the coins.
- **ListedAdmits** (`match_handler.ts:116`): a returning player is counted as a join in
  progress and then refused, so nothing takes the count back. A match with one player
  after one such attempt, or with none after two, is listed as open and full for ever,
  and the idle timer does not run.

Preconditions under which properties above hold, which the code does not ensure by
itself and for which no run is kept:

- `FullMeansStarted` needs MatchJoin calls of one presence: two presences for the last
  slot step over the equality at `match_handler.go:126`.
- `CooldownPaced` needs one session per user: the join of a second one resets
  `LastShotTick` (`:117`). So does `LastStandingDecides`: it can revive the loser before
  the loop that would decide.
- `CreatesOnlyWhenNoRoom` needs a listing that is not cut short (`find_match.go:154`).
- A repeated find_match of a user who is in the match holds a seat that only expiry
  releases (`:118`).
- The reward properties need copies that agree on the field: after a claim by the Go
  copy the TypeScript copy compares with undefined and never pays, and the Go copy pays
  again after a claim by TypeScript.

Exceptions that the properties themselves make, because the code makes them: a session
admitted earlier may join late and heal a player who has forfeited (`:117`,
`SettledNeverRecovers` speaks of players with none on its way), or stand beside the
announced winner (`overtaken` in `VerdictStands`); the late leave of one session deletes
the player of the user's other one, and the idle timer may then close the match under it
(`:303`, `orphaned` in `NeverTornDownEarly`).

Behaviour of the code met while modelling that a reader may not expect, for which no run
is kept (each was seen as a trace of these modules):

- Shooter: MatchJoinAttempt counts players that have joined; attempts for the last slot
  are all accepted until one joins, and the roster passes `maxPlayers`
  (`match_handler.go:98`).
- AddScore: the first write of a score has an empty version and is unconditional; of two
  overlapping first additions one is lost (`add_score.go:66`). Hence `HasScored` below.
- Sessions: a handler does not look whether its own session is still connected; two new
  sessions end each other, and none is left (`session_events.go:118`).
- TicTacToe: the queue is played on after a winning move; the loser may complete a line
  on the finished board, and a second result is announced (`match_handler.ts:296`).
- TicTacToe: the AI is also asked when the round has just ended, and its answer is
  played in the next round (`match_handler.ts:432`).
- TicTacToe: INVITE_AI does not count joins in progress; a user who joins after it makes
  three players, two of them with one mark in the next round (`match_handler.ts:387`).
- TicTacToe: a match created with the AI never closes if nobody joins it, for the AI
  counts as a connected player, and it is listed to users who did not ask for the AI.
- TicTacToe: a position beyond the board is accepted (`match_handler.ts:317`), switches
  the turn and starts the deadline anew, so two players who keep sending new ones never
  end their round; with the AI a move past the end of the board ends the match by an
  exception (`ai.ts:58`).
- Names: short ids of eight digits may coincide (`names.go:69`); the second of two such
  accounts that rolled the same name keeps its generated one. Hence `ShortIDsDiffer`.

## 5. What is proved

TLAPS checks every proof from nothing; no step is left out.

- **Shooter_proofs**: `TypeCorrect`, `LobbyImplemented`, `ClientsAlwaysInSync`,
  `GraceAlwaysBounded` for any users, sessions and numbers. `FullAlwaysStarted` and
  `OpenAlwaysHasRoom` assume `JoinBatch = 1`. The type invariant is strengthened to
  `Typed`: the idle count of a running match is below its limit, only a started match
  runs the fight, and only a started match is decided. `RoomInv` adds that a match that
  has not started has fewer than `maxPlayers` players, and that the label is open only
  before the start; one join then reaches equality and cannot pass it. `SyncInv` adds
  that what was not yet broadcast is marked dirty, and the bound on the grace period.
  `LobbyImplemented` maps each action to Enter, Exit, Decide, Close or a stutter; a loop
  that both decides and closes cannot happen because `graceTicks` is positive.
- **ShooterSessions_proofs**: `HealthNeverRecovers`, `NobodyTornDown` and
  `VerdictIsFinal` for any number of users and of sessions per user. `HealthFalls`: only
  MatchJoin raises a health, and only of the users it enters; a settled player has no
  session that could join, and MatchJoinAttempt refuses a user in the list. `PresentInv`
  says that a session in the match has its player in the list, unless it is orphaned, so
  the idle count cannot run while another kind of session is there. `VerdictInv` says
  that nothing is announced before the verdict and that whoever is on the way after it
  was already on the way at the verdict. `ShotsArePaced` is under `OneSession` (no user
  has two of the sessions): `SessionInv` says that an admitted session belongs to a user
  who is not a player yet, so a late MatchJoin resets nobody's cooldown, and `ShotsInv`
  that nobody has fired before the start and that whoever is outside the roster has
  never fired.
- **AddScore_proofs**: `ScoreTyped`, `AdditionsKept`, `AnswersKept` for any number of
  calls, under `HasScored` (a score is stored to begin with). `ScoreInv` says that a
  call about to write has read a non-empty object, so its write is accepted only if
  nothing was added since.
- **Rewards_proofs**: `RewardTyped` without assumptions; `RecordsCount` and
  `DenialsJustified` under `HasClaimed` (the user has claimed before, and the copies in
  use share the field). `ClaimInv` says that the stored claim is the latest recorded
  one, that what a call has read was the latest at the time, and that the time a call is
  about to write is no earlier than what it has read. `OnePaymentADay` says what it
  takes to have the promise that RewardTwice breaks: in every behaviour in which no two
  calls overlap (`[]NoOverlap`), `OnePerDay` holds, for new users too, if the copies
  share the field (`SharedField`) and neither NotificationsSend nor StorageWrite fails
  (`NothingFailsAfterPaying`; such a failure leaves the payment off the record).
  `SerialInv` says that of two payments one was on record before the other's call read,
  `DayInv` that a call pays only for a later day than everything it has read.
- **FindMatch_proofs**: for any numbers of users, clients, matches and seats, any mode,
  and any failing calls unless said otherwise. `FindMatchTyped` needs that the mutex is
  held by exactly the call that runs (`LockInv`), which is also `OneCallAtATime`: in the
  modes but naive, calls never overlap. `SeatsNeverHollow`: `NoHollowEntry` is inductive
  as it stands. `SeatsImplementPool` maps each step to Count, Promise, Lapse, Visit or a
  stutter of `SeatPool`. `BornInv` says that an id not yet handed out is known to
  nobody, so a new match has no seats and nobody inside; `PoolInv` that the match a call
  is about to answer with has a place left beside its seats and the players the call has
  counted, which survives the steps since `hasRoom` because nobody else adds a seat
  while the mutex is held. `LapsedEntriesBounded`: `SweepInv` says that a running call's
  time is that of the last sweep, so that the seat it adds outlives it; what has lapsed
  by then can only become less until the next sweep. `CreatesOnlyWithoutRoom` is under
  `[]WholeListing` (no more matches can be listed than `ListLimit`): `ListedInv` says
  that every match that has had room since the call began is among the hits still to be
  tested. `NeverTwinMatches` is under `"MatchGet" \notin Failing`: a MatchGet that fails
  makes serialized mode forget an empty match, and the next call creates its twin
  (`find_match.go:141`). `TwinInv` says that the match nobody has arrived at is the one
  `lastCreated` remembers, and that a call that goes on to the listing found none
  remembered. `MatchesLiveAsLobby` joins the two halves of the project: each match of
  `FindMatch` is born once and then takes only steps of `Lobby`, which
  `LobbyImplemented` proves of the handler. `UpInv` says that whoever is inside a match
  keeps it up.
- **Sessions_proofs**: `SessionsTyped`, `OneSessionSettled`, `NobodyCutSilently` for any
  number of sessions. `PairInv` is the argument: whichever of two sessions lists the
  stream last finds the other one, and keeps it in its list, or as its current presence,
  until it has disconnected it or met an error.
- **Names_proofs**: `NamesTyped` without assumptions, `AllNamed` under `ShortIDsDiffer`,
  for any number of accounts. The argument is that the three shapes of a username never
  coincide, so a suffixed name can only be taken by an account with the same short id.
- **TicTacToe_proofs**: `TicTacToeTyped`, `NeverThreeHumans`, `OnlyEmptyCloses`,
  `TurnsAlternate` and `AnnouncedIsTrue` for any users, board, lines and numbers.
  `CountInv` says that a running match is below its idle limit and that joins in
  progress are at least the joins to come; this is what keeps the counter from falling
  below zero, although refused rejoins and vanished clients push it up. `HereInv` says
  who the connected players are; with the counter it bounds the users in the match, and
  shows that an idle match has nobody in it. `WinnerInv` carries the results over the
  rest of the queue: a move on the board keeps every line there is, can only add one of
  its own mark, and on a full board cannot add any; `forfeit` is only set by the
  deadline, after the queue. `RoundStep` says what each action does to the round, once
  for all of these.

Only model-checked: liveness (`AbandonedCloses`, `LeaverForfeits`,
`LastStandingDecides`, `DecidedCloses`, `CallsReturn`, `SomebodyWins`, `OneIsLeft`,
`RoundsGoOn`, `EmptyCloses`), which is out of the prover's reach. Every invariant and
every other action property of the passing runs is the subject of a theorem.

## 6. Not modelled, and the plan

- Tic-tac-toe matchmaking beyond one match: overlapping `find_match_js` callers that
  each create a match; nothing relates these matches. `winnerPositions`, the addressees
  of messages and the order of ids that decides who is X.
- The last-online update: a single SQL statement.
- Left out for good: the TensorFlow model, message encodings and generated code,
  logging, registration of the handlers, deployment files, the compiled JavaScript.
