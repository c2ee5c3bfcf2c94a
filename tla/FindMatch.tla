------------------------------ MODULE FindMatch ------------------------------
(***************************************************************************)
(* find_match.go and match_rpc.go: callers of find_match and create_match, *)
(* the seats they are promised, and the matches they then join.            *)
(*                                                                         *)
(* A find_match call is a sequence of steps between which other calls,     *)
(* match callbacks and the clock interleave: each call of the platform is  *)
(* a step of its own, whose answer is used later.  matchmakingMu keeps two *)
(* calls apart unless the mode is "naive"; it keeps nothing else out.      *)
(*                                                                         *)
(* External (Nakama): MatchList sees a new match, and a changed label,     *)
(* some time later; a match's size counts a session as soon as it arrives, *)
(* before the handler's MatchJoin, and no longer once it is lost, before   *)
(* the handler's MatchLeave.                                               *)
(***************************************************************************)
EXTENDS Naturals, FiniteSets, LobbyState, Seats

CONSTANTS
  Users,          \* user ids
  Clients,        \* client processes, each calling for one user
  UserOf,         \* the user of each client
  Creators,       \* the clients that also use create_match
  Matches,        \* ids MatchCreate may hand out
  NoMatch,        \* lastCreated = ""
  NoClient,       \* matchmakingMu unlocked
  EnvValues,      \* values MATCHMAKING_MODE may have at start-up
  seatTTL,        \* 10 seconds
  ListLimit,      \* 10, the limit passed to MatchList
  Failing,        \* platform calls that may return an error
  MaxTime,        \* bound of the model on the clock
  MaxCalls        \* bound of the model on find_match and create_match calls

Modes == {"naive", "serialized", "seats"}
Fallible == {"MatchGet", "MatchList", "MatchCreate"}

ASSUME MatchmakingAssumption ==
  /\ IsFiniteSet(Users) /\ IsFiniteSet(Clients) /\ IsFiniteSet(Matches)
  /\ UserOf \in [Clients -> Users] /\ Creators \subseteq Clients
  /\ NoMatch \notin Matches /\ NoClient \notin Clients
  /\ Failing \subseteq Fallible
  /\ {seatTTL, ListLimit} \subseteq Nat \ {0} /\ {MaxTime, MaxCalls} \subseteq Nat

VARIABLES
  matchmaking,     \* the mode, set once when the module is initialised
  clock,           \* time.Now()
  matchmakingMu,   \* the client whose call holds the mutex
  lastCreated,     \* the match find_match created last
  seats,           \* match id -> user id -> expiry
  lobby,           \* the state of every match
  index,           \* matches the listing index has as open
  stage,           \* how far each client is
  call,            \* locals of each client's find_match call
  dest,            \* the match each client was told, or is in
  spare,           \* history: matches with room ever since a call began
  fresh,           \* history: find_match's matches nobody has arrived in yet
  swept,           \* history: when the seats were last swept
  calls            \* requests so far

vars == <<matchmaking, clock, matchmakingMu, lastCreated, seats, lobby, index, stage, call,
          dest, spare, fresh, swept, calls>>

\* Inside find_match; counted by a match's size; known to the match, or
\* about to be: a lost session until its MatchLeave.
Calling == {"queued", "begun", "checking", "listing", "scanning", "creating",
            "replying"}
Inside  == {"arrived", "joined"}
Within  == Inside \cup {"leaving"}
Stages  == Calling \cup Within \cup {"idle", "told", "admitted"}

NoCall == [now |-> 0, size |-> 0, open |-> FALSE, hits |-> {}]

Size(m) == Cardinality({c \in Clients : stage[c] \in Inside /\ dest[c] = m})

Go(c, s) == stage' = [stage EXCEPT ![c] = s]

\* What parseMatchmakingMode makes of the environment; any other value keeps
\* the server from starting.
Parsed(value) == IF value = "" THEN "seats" ELSE value

Init ==
  /\ matchmaking \in {Parsed(v) : v \in EnvValues} \cap Modes
  /\ clock = 0
  /\ matchmakingMu = NoClient /\ lastCreated = NoMatch
  /\ seats = NoSeats
  /\ lobby = [m \in Matches |-> Unborn]
  /\ index = {}
  /\ stage = [c \in Clients |-> "idle"]
  /\ call = [c \in Clients |-> NoCall]
  /\ dest = [c \in Clients |-> NoMatch]
  /\ spare = [c \in Clients |-> {}]
  /\ fresh = {}
  /\ swept = 0 /\ calls = 0
-----------------------------------------------------------------------------
Open == {m \in Matches : lobby[m].life = "up" /\ lobby[m].open}

\* A match that could take one more user, with seats counted as of `now'.
Roomy(m, now) ==
  /\ m \in index \cap Open
  /\ Size(m) + LiveSeats(seats, m, now) < maxPlayers

\* What every step does: the mode stays, the histories spare and fresh are kept.
Track ==
  /\ UNCHANGED matchmaking
  /\ fresh' = {m \in fresh \cup {dest'[c] : c \in {d \in Clients :
                       stage[d] = "creating" /\ stage'[d] = "replying"}} :
                lobby'[m].life = "up" /\ Size(m)' = 0}
  /\ spare' = [c \in Clients |->
                 IF stage'[c] \notin Calling \ {"queued"} THEN {}
                 ELSE {m \in IF stage[c] = "queued" THEN Matches ELSE spare[c] :
                         Roomy(m, call[c].now)'}]
-----------------------------------------------------------------------------
(* The find_match call.                                                    *)

Request == calls < MaxCalls /\ calls' = calls + 1

Call(c) ==
  /\ stage[c] = "idle"
  /\ Request
  /\ Go(c, "queued")
  /\ UNCHANGED <<clock, matchmakingMu, lastCreated, seats, lobby, index, call,
                 dest, swept>>
  /\ Track

\* Mutant of Lock: the mutex is not taken.
LockNot(c) == UNCHANGED matchmakingMu

Lock(c) ==
  IF matchmaking = "naive"
  THEN UNCHANGED matchmakingMu
  ELSE matchmakingMu = NoClient /\ matchmakingMu' = c

\* Lock, read the clock, sweep.
Begin(c) ==
  /\ stage[c] = "queued"
  /\ Lock(c)
  /\ call' = [call EXCEPT ![c] = [NoCall EXCEPT !.now = clock]]
  /\ seats' = SweepSeats(seats, clock)
  /\ swept' = clock
  /\ Go(c, "begun")
  /\ UNCHANGED <<clock, lastCreated, lobby, index, dest, calls>>
  /\ Track

\* Return from the call, with the deferred unlock.
Unlock(c) ==
  matchmakingMu' = IF matchmakingMu = c THEN NoClient ELSE matchmakingMu

\* Mutant of GiveBack: the error path returns without unlocking.
GiveBackLocked(c) ==
  /\ Go(c, "idle")
  /\ call' = [call EXCEPT ![c] = NoCall]
  /\ UNCHANGED matchmakingMu

\* The call fails: an error is returned and nothing is promised.
GiveBack(c) ==
  /\ Go(c, "idle")
  /\ call' = [call EXCEPT ![c] = NoCall]
  /\ Unlock(c)

\* There is no fast path to try.
SkipLast(c) ==
  /\ stage[c] = "begun"
  /\ matchmaking = "naive" \/ lastCreated = NoMatch
  /\ Go(c, "listing")
  /\ UNCHANGED <<clock, matchmakingMu, lastCreated, seats, lobby, index, call,
                 dest, swept, calls>>
  /\ Track

Trying(c) ==
  stage[c] = "begun" /\ matchmaking # "naive" /\ lastCreated # NoMatch

\* MatchGet finds the match: its size and label as they are now.
MatchGet(c) ==
  /\ Trying(c) /\ lobby[lastCreated].life = "up"
  /\ call' = [call EXCEPT ![c].size = Size(lastCreated),
                          ![c].open = lobby[lastCreated].open]
  /\ Go(c, "checking")
  /\ UNCHANGED <<clock, matchmakingMu, lastCreated, seats, lobby, index, dest,
                 swept, calls>>
  /\ Track

\* MatchGet finds nothing, or fails.
MatchGone(c) ==
  /\ Trying(c)
  /\ lobby[lastCreated].life # "up" \/ "MatchGet" \in Failing
  /\ lastCreated' = NoMatch
  /\ Go(c, "listing")
  /\ UNCHANGED <<clock, matchmakingMu, seats, lobby, index, call, dest, swept, calls>>
  /\ Track
-----------------------------------------------------------------------------
\* Mutants of HasRoom: seats are not counted; nor the players inside; off by one.
HasRoomIgnoringSeats(m, size, now) == size < maxPlayers
HasRoomIgnoringSize(m, size, now) == LiveSeats(seats, m, now) < maxPlayers
HasRoomForTwo(m, size, now) == size + LiveSeats(seats, m, now) < maxPlayers - 1

HasRoom(m, size, now) ==
  IF matchmaking # "seats"
  THEN size < maxPlayers
  ELSE size + LiveSeats(seats, m, now) < maxPlayers

\* What hasRoom does to the map on the way.
Pruned(m, now) ==
  IF matchmaking = "seats" THEN PruneLocked(seats, m, now) ELSE seats

\* The last created match has room and an open label, or is forgotten.
CheckLast(c) ==
  /\ stage[c] = "checking"
  /\ seats' = Pruned(lastCreated, call[c].now)
  /\ \/ /\ HasRoom(lastCreated, call[c].size, call[c].now) /\ call[c].open
        /\ dest' = [dest EXCEPT ![c] = lastCreated]
        /\ Go(c, "replying")
        /\ UNCHANGED lastCreated
     \/ /\ ~(HasRoom(lastCreated, call[c].size, call[c].now) /\ call[c].open)
        /\ lastCreated' = NoMatch
        /\ Go(c, "listing")
        /\ UNCHANGED dest
  /\ UNCHANGED <<clock, matchmakingMu, lobby, index, call, swept, calls>>
  /\ Track

\* Matches the listing can return: indexed as open, and not full.
Listable == {m \in index : Size(m) <= maxPlayers - 1}

\* ListLimit of them, in no particular order, with their sizes.
MatchList(c) ==
  /\ stage[c] = "listing"
  /\ \E hits \in SUBSET Listable :
       /\ \/ hits = Listable
          \/ Cardinality(hits) = ListLimit
       /\ Cardinality(hits) <= ListLimit
       /\ call' = [call EXCEPT ![c].hits =
                     {[id |-> m, size |-> Size(m)] : m \in hits}]
  /\ Go(c, "scanning")
  /\ UNCHANGED <<clock, matchmakingMu, lastCreated, seats, lobby, index, dest,
                 swept, calls>>
  /\ Track

MatchListFails(c) ==
  /\ stage[c] = "listing" /\ "MatchList" \in Failing
  /\ GiveBack(c)
  /\ UNCHANGED <<clock, lastCreated, seats, lobby, index, dest, swept, calls>>
  /\ Track

\* One hit of the listing: taken if it has room, else passed over.
Scan(c) ==
  /\ stage[c] = "scanning"
  /\ \E hit \in call[c].hits :
       /\ seats' = Pruned(hit.id, call[c].now)
       /\ call' = [call EXCEPT ![c].hits = @ \ {hit}, ![c].size = hit.size]
       /\ \/ /\ HasRoom(hit.id, hit.size, call[c].now)
             /\ dest' = [dest EXCEPT ![c] = hit.id]
             /\ Go(c, "replying")
          \/ /\ ~HasRoom(hit.id, hit.size, call[c].now)
             /\ UNCHANGED <<dest, stage, calls>>
  /\ UNCHANGED <<clock, matchmakingMu, lastCreated, lobby, index, swept, calls>>
  /\ Track

NoneJoinable(c) ==
  /\ stage[c] = "scanning" /\ call[c].hits = {}
  /\ Go(c, "creating")
  /\ UNCHANGED <<clock, matchmakingMu, lastCreated, seats, lobby, index, call,
                 dest, swept, calls>>
  /\ Track

NewIds == {m \in Matches : lobby[m].life = "unborn"}

Remember(m) ==
  lastCreated' = IF matchmaking = "naive" THEN lastCreated ELSE m

MatchCreate(c) ==
  /\ stage[c] = "creating"
  /\ \E m \in NewIds :
       /\ lobby' = [lobby EXCEPT ![m] = NewLobby]
       /\ dest' = [dest EXCEPT ![c] = m]
       /\ Remember(m)
  /\ call' = [call EXCEPT ![c].size = 0]
  /\ Go(c, "replying")
  /\ UNCHANGED <<clock, matchmakingMu, seats, index, swept, calls>>
  /\ Track

\* MatchCreate fails; in the model also when it is out of ids.
MatchCreateFails(c) ==
  /\ stage[c] = "creating" /\ ("MatchCreate" \in Failing \/ NewIds = {})
  /\ GiveBack(c)
  /\ UNCHANGED <<clock, lastCreated, seats, lobby, index, dest, swept, calls>>
  /\ Track

\* Hold the seat, unlock, answer.
Reply(c) ==
  /\ stage[c] = "replying"
  /\ seats' = IF matchmaking = "seats"
              THEN HoldSeat(seats, dest[c], UserOf[c], call[c].now + seatTTL)
              ELSE seats
  /\ call' = [call EXCEPT ![c] = NoCall]
  /\ Unlock(c)
  /\ Go(c, "told")
  /\ UNCHANGED <<clock, lastCreated, lobby, index, dest, swept, calls>>
  /\ Track

\* create_match: a match of the caller's own, no seat, lastCreated untouched.
CreateMatch(c) ==
  /\ c \in Creators /\ stage[c] = "idle"
  /\ Request
  /\ \E m \in NewIds :
       /\ lobby' = [lobby EXCEPT ![m] = NewLobby]
       /\ dest' = [dest EXCEPT ![c] = m]
  /\ Go(c, "told")
  /\ UNCHANGED <<clock, matchmakingMu, lastCreated, seats, index, call, swept>>
  /\ Track
-----------------------------------------------------------------------------
(* From the answer to the match and out of it.                             *)

Admitted(c) ==
  /\ stage[c] = "told"
  /\ lobby[dest[c]].life = "up" /\ Admits(lobby[dest[c]], UserOf[c])
  /\ Go(c, "admitted")
  /\ UNCHANGED <<clock, matchmakingMu, lastCreated, seats, lobby, index, call,
                 dest, swept, calls>>
  /\ Track

Away(c) ==
  /\ Go(c, "idle")
  /\ dest' = [dest EXCEPT ![c] = NoMatch]

Refused(c) ==
  /\ stage[c] = "told"
  /\ ~(lobby[dest[c]].life = "up" /\ Admits(lobby[dest[c]], UserOf[c]))
  /\ Away(c)
  /\ UNCHANGED <<clock, matchmakingMu, lastCreated, seats, lobby, index, call,
                 swept, calls>>
  /\ Track

\* The client never comes, or is gone before it arrives.
NeverComes(c) ==
  /\ stage[c] \in {"told", "admitted"}
  /\ Away(c)
  /\ UNCHANGED <<clock, matchmakingMu, lastCreated, seats, lobby, index, call,
                 swept, calls>>
  /\ Track

\* The session is in the match from here on: its size counts it.
Arrive(c) ==
  /\ stage[c] = "admitted" /\ lobby[dest[c]].life = "up"
  /\ Go(c, "arrived")
  /\ UNCHANGED <<clock, matchmakingMu, lastCreated, seats, lobby, index, call,
                 dest, swept, calls>>
  /\ Track

\* MatchJoin releases the seat and enters the player.
MatchJoin(c) ==
  /\ stage[c] = "arrived"
  /\ seats' = ReleaseSeat(seats, dest[c], UserOf[c])
  /\ lobby' = [lobby EXCEPT ![dest[c]] = Entered(@, {UserOf[c]})]
  /\ Go(c, "joined")
  /\ UNCHANGED <<clock, matchmakingMu, lastCreated, index, call, dest, swept, calls>>
  /\ Track

\* The session is lost: the size drops.
Disconnect(c) ==
  /\ stage[c] = "joined"
  /\ Go(c, "leaving")
  /\ UNCHANGED <<clock, matchmakingMu, lastCreated, seats, lobby, index, call,
                 dest, swept, calls>>
  /\ Track

\* The handler learns of it some time later.
MatchLeave(c) ==
  /\ stage[c] = "leaving"
  /\ lobby' = [lobby EXCEPT ![dest[c]] = Exited(@, {UserOf[c]})]
  /\ Away(c)
  /\ UNCHANGED <<clock, matchmakingMu, lastCreated, seats, index, call, swept, calls>>
  /\ Track
-----------------------------------------------------------------------------
(* The matches, the index and the clock.                                   *)

Decide(m) ==
  /\ lobby[m].life = "up" /\ lobby[m].started /\ ~lobby[m].over
  /\ lobby' = [lobby EXCEPT ![m] = Decided(@)]
  /\ UNCHANGED <<clock, matchmakingMu, lastCreated, seats, index, stage, call,
                 dest, swept, calls>>
  /\ Track

\* The match is torn down; whoever is still in it is out, and the listing
\* no longer returns it.  Nothing of it is read again.
Close(m) ==
  /\ lobby[m].life = "up" /\ MayClose(lobby[m])
  /\ lobby' = [lobby EXCEPT ![m] = Closed(NewLobby)]
  /\ index' = index \ {m}
  /\ LET within == {c \in Clients : dest[c] = m /\ stage[c] \in Within}
     IN  /\ stage' = [c \in Clients |-> IF c \in within THEN "idle" ELSE stage[c]]
         /\ dest' = [c \in Clients |-> IF c \in within THEN NoMatch ELSE dest[c]]
  /\ UNCHANGED <<clock, matchmakingMu, lastCreated, seats, call, swept, calls>>
  /\ Track

\* The index catches up with one match's label.
Reindex(m) ==
  /\ lobby[m].life = "up"
  /\ index' = IF m \in Open THEN index \cup {m} ELSE index \ {m}
  /\ index' # index
  /\ UNCHANGED <<clock, matchmakingMu, lastCreated, seats, lobby, stage, call,
                 dest, swept, calls>>
  /\ Track

Advance ==
  /\ clock < MaxTime
  /\ clock' = clock + 1
  /\ UNCHANGED <<matchmakingMu, lastCreated, seats, lobby, index, stage, call,
                 dest, swept, calls>>
  /\ Track

CallStep(c) ==
  \/ SkipLast(c) \/ MatchGet(c) \/ MatchGone(c) \/ CheckLast(c)
  \/ MatchList(c) \/ MatchListFails(c) \/ Scan(c) \/ NoneJoinable(c)
  \/ MatchCreate(c) \/ MatchCreateFails(c) \/ Reply(c)

ClientStep(c) ==
  \/ Call(c) \/ CreateMatch(c)
  \/ Admitted(c) \/ Refused(c) \/ NeverComes(c)
  \/ Arrive(c) \/ MatchJoin(c) \/ Disconnect(c) \/ MatchLeave(c)

Next ==
  \/ \E c \in Clients : Begin(c) \/ CallStep(c) \/ ClientStep(c)
  \/ \E m \in Matches : Decide(m) \/ Close(m) \/ Reindex(m)
  \/ Advance

Spec == Init /\ [][Next]_vars

\* A running call proceeds; sync.Mutex starves no waiter.
FairSpec ==
  /\ Spec
  /\ \A c \in Clients : WF_vars(CallStep(c)) /\ SF_vars(Begin(c))
-----------------------------------------------------------------------------
(* Properties.                                                             *)

\* Every variable has its type; the mutex is held only by a running call, and
\* a client that is nowhere has no match.
TypeOK ==
  /\ matchmaking \in Modes
  /\ clock \in 0..MaxTime /\ swept \in 0..clock /\ calls \in 0..MaxCalls
  /\ matchmakingMu \in Clients \cup {NoClient}
  /\ \A c \in Clients :
       matchmakingMu = c => stage[c] \in Calling \ {"queued"}
  /\ lastCreated \in Matches \cup {NoMatch}
  /\ DOMAIN seats \subseteq Matches
  /\ \A m \in DOMAIN seats :
       /\ DOMAIN seats[m] \subseteq Users
       /\ \A u \in DOMAIN seats[m] : seats[m][u] \in 0..(MaxTime + seatTTL)
  /\ lobby \in [Matches -> [life : Lives, roster : SUBSET Users,
                            started : BOOLEAN, over : BOOLEAN, open : BOOLEAN]]
  /\ index \subseteq Matches
  /\ stage \in [Clients -> Stages]
  /\ \A c \in Clients :
       /\ call[c].now \in 0..clock /\ call[c].size \in Nat
       /\ call[c].open \in BOOLEAN
       /\ \A hit \in call[c].hits : hit.id \in Matches /\ hit.size \in Nat
  /\ dest \in [Clients -> Matches \cup {NoMatch}]
  /\ \A c \in Clients :
       /\ stage[c] \in {"idle", "queued", "begun"} => dest[c] = NoMatch
       /\ stage[c] \in Stages \ (Calling \cup {"idle"}) => dest[c] \in Matches
  /\ spare \in [Clients -> SUBSET Matches]
  /\ fresh \subseteq Matches

\* The sizes that running calls have read, each with its match.
Counted ==
  {<<lastCreated, call[c].size>> : c \in {d \in Clients : stage[d] = "checking"}}
  \cup {<<dest[c], call[c].size>> : c \in {d \in Clients : stage[d] = "replying"}}
  \cup UNION {{<<hit.id, hit.size>> : hit \in call[c].hits} :
                c \in {d \in Clients : stage[d] = "scanning"}}

\* Seats mode counts a match's players anew for every promise and hands out
\* only the places they and the users on their way leave: seats promised and
\* players counted are never more than the match has, whatever arrives, leaves
\* or expires during the call (find_match.go:145).  The count may be out of
\* date when it is used (NoSeatedRejection).
Pool == INSTANCE SeatPool
          WITH promised <- [m \in Matches |-> DOMAIN SeatsOf(seats, m)],
               inside   <- [m \in Matches |-> Size(m)],
               counted  <- Counted
ImplementsSeatPool == Pool!Spec

\* No path leaves an entry without a seat behind: nothing but a sweep would
\* look at it again (find_match.go:224).
NoHollowEntry == \A m \in DOMAIN seats : DOMAIN seats[m] # {}

\* The map does not grow without bound (find_match.go:224): fewer than the
\* threshold of its entries had already lapsed when the last call swept.
StaleEntriesBounded ==
  Cardinality({m \in DOMAIN seats : Unexpired(seats, m, swept) = {}})
    < sweepThreshold

\* "Join an open match, or create one if there isn't a joinable match"
\* (README.md:74): a call creates a match only when no indexed match had room
\* from its beginning to its end.  Holds while the listing is not cut short:
\* ListLimit matches all spoken for by seats hide the next one with room.
CreatesOnlyWhenNoRoom ==
  \A c \in Clients : stage[c] = "creating" => spare[c] = {}

\* Serialized mode "fixes duplicate creation" (README.md:124): however many
\* callers arrive together, at most one of the matches find_match has created
\* is still waiting for its first arrival.
NoTwinMatches == matchmaking = "serialized" => Cardinality(fresh) <= 1

\* "seats pairs everyone with no rejections" (README.md:151): a client with a
\* seat that has not expired is not refused by the match it was told, unless
\* the match has closed.
NoSeatedRejection ==
  [][\A c \in Clients :
       Refused(c) /\ lobby[dest[c]].life = "up"
         => UserOf[c] \notin Unexpired(seats, dest[c], clock)]_vars

\* Every find_match call returns, whatever fails on the way.
CallsReturn ==
  \A c \in Clients : stage[c] \in Calling ~> stage[c] \notin Calling
=============================================================================
