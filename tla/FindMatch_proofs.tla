-------------------------- MODULE FindMatch_proofs --------------------------
(***************************************************************************)
(* Theorems about matchmaking, for any number of users, clients, matches   *)
(* and calls, any mode, time-to-live and threshold.                        *)
(***************************************************************************)
EXTENDS FindMatch, FiniteSetTheorems, TLAPS

LEMMA Numbers ==
  /\ maxPlayers \in Nat /\ maxPlayers > 0
  /\ sweepThreshold \in Nat /\ sweepThreshold > 0
  /\ seatTTL \in Nat /\ seatTTL > 0
  /\ ListLimit \in Nat /\ ListLimit > 0
  /\ MaxTime \in Nat /\ MaxCalls \in Nat
BY MatchmakingAssumption, MaxPlayersAssumption, SweepAssumption

LEMMA Ids ==
  /\ IsFiniteSet(Users) /\ IsFiniteSet(Clients) /\ IsFiniteSet(Matches)
  /\ UserOf \in [Clients -> Users]
  /\ NoMatch \notin Matches /\ NoClient \notin Clients
BY MatchmakingAssumption
-----------------------------------------------------------------------------
(***************************************************************************)
(* The seats map.  Every operator of Seats but HoldSeat only drops seats,  *)
(* and none leaves an entry without a seat.                                *)
(***************************************************************************)
Holders(held, m) == DOMAIN SeatsOf(held, m)

\* Seats were dropped: what is left is unchanged, and no entry was emptied.
Drops(old, new) ==
  /\ DOMAIN new \subseteq DOMAIN old
  /\ \A m \in DOMAIN new :
       /\ DOMAIN new[m] \subseteq DOMAIN old[m]
       /\ \A u \in DOMAIN new[m] : new[m][u] = old[m][u]
       /\ DOMAIN new[m] = {} => DOMAIN old[m] = {}

LEMMA HolderFacts ==
  ASSUME NEW held, NEW m
  PROVE  /\ m \in DOMAIN held => SeatsOf(held, m) = held[m]
         /\ m \notin DOMAIN held => Holders(held, m) = {}
BY DEF Holders, SeatsOf, NoSeats

LEMMA WithSeatsHolders ==
  ASSUME NEW held, NEW m, NEW inner, NEW k
  PROVE  /\ Holders(WithSeats(held, m, inner), m) = DOMAIN inner
         /\ k # m => SeatsOf(WithSeats(held, m, inner), k) = SeatsOf(held, k)
         /\ DOMAIN inner # {} => SeatsOf(WithSeats(held, m, inner), m) = inner
<1> DEFINE new == WithSeats(held, m, inner)
<1>0. new = WithSeats(held, m, inner)
  OBVIOUS
<1> HIDE DEF new
<1>1. /\ DOMAIN new =
           IF DOMAIN inner = {} THEN DOMAIN held \ {m} ELSE DOMAIN held \cup {m}
      /\ \A j \in DOMAIN new : new[j] = IF j = m THEN inner ELSE held[j]
  BY <1>0 DEF WithSeats, Restrict
<1>2. Holders(new, m) = DOMAIN inner
  BY <1>1, HolderFacts DEF Holders, SeatsOf, NoSeats
<1>3. k # m => SeatsOf(new, k) = SeatsOf(held, k)
  BY <1>1 DEF SeatsOf
<1>4. DOMAIN inner # {} => SeatsOf(new, m) = inner
  BY <1>1 DEF SeatsOf
<1> QED BY <1>2, <1>3, <1>4 DEF new

\* An inner map that only lost seats.
LEMMA WithFewerDrops ==
  ASSUME NEW held, NEW m, NEW S, S \subseteq Holders(held, m)
  PROVE  Drops(held, WithSeats(held, m, Restrict(SeatsOf(held, m), S)))
<1> DEFINE inner == Restrict(SeatsOf(held, m), S)
           new == WithSeats(held, m, inner)
<1>0. new = WithSeats(held, m, inner)
  OBVIOUS
<1>2. DOMAIN inner = S /\ \A u \in S : inner[u] = SeatsOf(held, m)[u]
  BY DEF Restrict
<1> HIDE DEF inner, new
<1>1. /\ DOMAIN new =
           IF DOMAIN inner = {} THEN DOMAIN held \ {m} ELSE DOMAIN held \cup {m}
      /\ \A j \in DOMAIN new : new[j] = IF j = m THEN inner ELSE held[j]
  BY <1>0 DEF WithSeats, Restrict
<1>3. S # {} => m \in DOMAIN held
  BY HolderFacts
<1>4. m \in DOMAIN held => SeatsOf(held, m) = held[m] /\ Holders(held, m) = DOMAIN held[m]
  BY HolderFacts DEF Holders
<1>5. DOMAIN new \subseteq DOMAIN held
  BY <1>1, <1>2, <1>3
<1>6. ASSUME NEW k \in DOMAIN new
      PROVE  /\ DOMAIN new[k] \subseteq DOMAIN held[k]
             /\ \A u \in DOMAIN new[k] : new[k][u] = held[k][u]
             /\ DOMAIN new[k] = {} => DOMAIN held[k] = {}
  <2>1. CASE k = m
    <3>1. S # {} /\ new[k] = inner /\ m \in DOMAIN held
      BY <1>1, <1>2, <1>3, <2>1
    <3>2. QED BY <1>2, <1>4, <2>1, <3>1
  <2>2. CASE k # m
    BY <1>1, <2>2
  <2>3. QED BY <2>1, <2>2
<1>7. QED BY <1>5, <1>6 DEF Drops, new, inner

LEMMA DropsNothing == ASSUME NEW held PROVE Drops(held, held)
BY DEF Drops

LEMMA ReleaseDrops ==
  ASSUME NEW held, NEW m, NEW u PROVE Drops(held, ReleaseSeat(held, m, u))
<1>1. DOMAIN SeatsOf(held, m) \ {u} \subseteq Holders(held, m)
  BY DEF Holders
<1>2. QED BY <1>1, WithFewerDrops DEF ReleaseSeat

LEMMA UnexpiredHold ==
  ASSUME NEW held, NEW m, NEW now PROVE Unexpired(held, m, now) \subseteq Holders(held, m)
BY DEF Unexpired, Holders

LEMMA PruneDrops ==
  ASSUME NEW held, NEW m, NEW now
  PROVE  /\ Drops(held, PruneLocked(held, m, now))
         /\ Holders(PruneLocked(held, m, now), m) = Unexpired(held, m, now)
<1>1. Drops(held, PruneLocked(held, m, now))
  BY UnexpiredHold, WithFewerDrops DEF PruneLocked
<1>2. Holders(PruneLocked(held, m, now), m) = Unexpired(held, m, now)
  BY WithSeatsHolders DEF PruneLocked, Restrict
<1>3. QED BY <1>1, <1>2

LEMMA SweepDrops ==
  ASSUME NEW held, NEW now PROVE Drops(held, SweepSeats(held, now))
<1>1. CASE Cardinality(DOMAIN held) < sweepThreshold
  BY <1>1, DropsNothing DEF SweepSeats
<1>2. CASE ~(Cardinality(DOMAIN held) < sweepThreshold)
  <2> DEFINE kept == {k \in DOMAIN held : Unexpired(held, k, now) # {}}
             new == [m \in kept |-> Restrict(held[m], Unexpired(held, m, now))]
  <2>1. SweepSeats(held, now) = new
    BY <1>2 DEF SweepSeats
  <2>2. ASSUME NEW m \in kept
        PROVE  /\ DOMAIN new[m] = Unexpired(held, m, now)
               /\ DOMAIN new[m] \subseteq DOMAIN held[m] /\ DOMAIN new[m] # {}
               /\ \A u \in DOMAIN new[m] : new[m][u] = held[m][u]
    BY UnexpiredHold, HolderFacts DEF Restrict, Holders
  <2>3. DOMAIN new = kept /\ kept \subseteq DOMAIN held
    OBVIOUS
  <2>4. Drops(held, new)
    <3> HIDE DEF new
    <3> QED BY <2>2, <2>3 DEF Drops
  <2>5. QED BY <2>1, <2>4
<1>3. QED BY <1>1, <1>2

LEMMA DropsHolders ==
  ASSUME NEW old, NEW new, Drops(old, new), NEW m
  PROVE  /\ Holders(new, m) \subseteq Holders(old, m)
         /\ \A u \in Holders(new, m) : SeatsOf(new, m)[u] = SeatsOf(old, m)[u]
<1>1. CASE m \in DOMAIN new
  BY <1>1, HolderFacts DEF Drops, Holders
<1>2. CASE m \notin DOMAIN new
  BY <1>2, HolderFacts
<1>3. QED BY <1>1, <1>2

LEMMA DropsUnexpired ==
  ASSUME NEW old, NEW new, Drops(old, new), NEW m, NEW now
  PROVE  Unexpired(new, m, now) \subseteq Unexpired(old, m, now)
BY DropsHolders DEF Unexpired, Holders

LEMMA HoldFacts ==
  ASSUME NEW held, NEW m, NEW u, NEW expiry, NEW new,
         new = HoldSeat(held, m, u, expiry)
  PROVE  /\ \A k : k \in DOMAIN new <=> k \in DOMAIN held \/ k = m
         /\ \A k \in DOMAIN held \ {m} : new[k] = held[k]
         /\ DOMAIN new[m] = Holders(held, m) \cup {u}
         /\ new[m][u] = expiry
         /\ \A v \in Holders(held, m) \ {u} : new[m][v] = SeatsOf(held, m)[v]
         /\ Holders(new, m) = Holders(held, m) \cup {u}
         /\ \A k : k # m => Holders(new, k) = Holders(held, k)
<1> DEFINE inner == [v \in DOMAIN SeatsOf(held, m) \cup {u} |->
                       IF v = u THEN expiry ELSE SeatsOf(held, m)[v]]
<1>1. new = WithSeats(held, m, inner)
  BY DEF HoldSeat
<1>2. /\ DOMAIN inner = Holders(held, m) \cup {u} /\ DOMAIN inner # {}
      /\ inner[u] = expiry
      /\ \A v \in Holders(held, m) \ {u} : inner[v] = SeatsOf(held, m)[v]
  BY DEF Holders
<1> HIDE DEF inner
<1>3. /\ DOMAIN new = DOMAIN held \cup {m}
      /\ \A k \in DOMAIN new : new[k] = IF k = m THEN inner ELSE held[k]
  BY <1>1, <1>2 DEF WithSeats, Restrict
<1>4. Holders(new, m) = DOMAIN inner
  <2>1. Holders(WithSeats(held, m, inner), m) = DOMAIN inner
    BY WithSeatsHolders
  <2>2. QED BY <1>1, <2>1, Zenon
<1>5. \A k : k # m => Holders(new, k) = Holders(held, k)
  BY <1>3 DEF Holders, SeatsOf
<1>6. QED BY <1>2, <1>3, <1>4, <1>5
-----------------------------------------------------------------------------
(***************************************************************************)
(* Types, and the lock.  TypeOK needs to know that calls are records, that *)
(* dest is set from the choice of a match on, and that whoever runs a call *)
(* outside naive mode holds the mutex, so that lastCreated cannot change   *)
(* between MatchGet and the use of its answer.                             *)
(***************************************************************************)
Running == Calling \ {"queued"}
Placed  == {"replying", "told", "admitted"} \cup Within

CallRecords == [now : Nat, size : Nat, open : BOOLEAN,
                hits : SUBSET [id : Matches, size : Nat]]

Lobbies == [life : Lives, roster : SUBSET Users,
            started : BOOLEAN, over : BOOLEAN, open : BOOLEAN]

ControlTyped ==
  /\ matchmaking \in Modes
  /\ clock \in 0..MaxTime /\ swept \in 0..clock /\ calls \in 0..MaxCalls
  /\ matchmakingMu \in Clients \cup {NoClient}
  /\ lastCreated \in Matches \cup {NoMatch}

CallsTyped ==
  /\ stage \in [Clients -> Stages]
  /\ call \in [Clients -> CallRecords]
  /\ dest \in [Clients -> Matches \cup {NoMatch}]
  /\ \A c \in Clients : call[c].now <= clock
  /\ \A c \in Clients : stage[c] \in Placed => dest[c] \in Matches
  /\ \A c \in Clients : stage[c] \notin Placed => dest[c] = NoMatch

LockInv ==
  /\ \A c \in Clients : matchmakingMu = c => stage[c] \in Running
  /\ \A c \in Clients :
       stage[c] \in Running /\ matchmaking # "naive" => matchmakingMu = c
  /\ \A c \in Clients :
       stage[c] = "checking" => matchmaking # "naive" /\ lastCreated # NoMatch

SeatMap(held) ==
  /\ DOMAIN held \subseteq Matches
  /\ \A m \in DOMAIN held :
       /\ DOMAIN held[m] \subseteq Users
       /\ \A u \in DOMAIN held[m] : held[m][u] \in 0..(MaxTime + seatTTL)

SeatsTyped == SeatMap(seats)

LobbyTyped == lobby \in [Matches -> Lobbies] /\ index \subseteq Matches

HistoryTyped == spare \in [Clients -> SUBSET Matches] /\ fresh \subseteq Matches

Core == ControlTyped /\ CallsTyped /\ LockInv

Typed == Core /\ SeatsTyped /\ LobbyTyped /\ HistoryTyped

LEMMA StageFacts ==
  /\ Running \subseteq Stages /\ Placed \subseteq Stages
  /\ Running = {"begun", "checking", "listing", "scanning", "creating", "replying"}
  /\ Placed = {"replying", "told", "admitted", "arrived", "joined", "leaving"}
  /\ Inside \subseteq Within /\ Within = {"arrived", "joined", "leaving"}
  /\ \A s \in Within : s \notin Running
  /\ Stages = {"queued", "begun", "checking", "listing", "scanning", "creating",
               "replying", "arrived", "joined", "leaving", "idle", "told", "admitted"}
BY DEF Running, Placed, Stages, Calling, Inside, Within

LEMMA TypedImplies == Typed => TypeOK
<1> SUFFICES ASSUME Typed PROVE TypeOK
  OBVIOUS
<1>1. \A c \in Clients :
        /\ call[c].now \in 0..clock /\ call[c].size \in Nat
        /\ call[c].open \in BOOLEAN
        /\ \A hit \in call[c].hits : hit.id \in Matches /\ hit.size \in Nat
  BY DEF Typed, Core, ControlTyped, CallsTyped, CallRecords
<1>2. \A c \in Clients :
        /\ stage[c] \in {"idle", "queued", "begun"} => dest[c] = NoMatch
        /\ stage[c] \in Stages \ (Calling \cup {"idle"}) => dest[c] \in Matches
  BY StageFacts DEF Typed, Core, CallsTyped, Calling
<1>3. QED
  BY <1>1, <1>2 DEF TypeOK, Typed, Core, ControlTyped, CallsTyped, LockInv,
     SeatsTyped, SeatMap, LobbyTyped, HistoryTyped, Lobbies, Running

\* The record of one call.
LEMMA NoCallType ==
  /\ NoCall \in CallRecords /\ NoCall.now = 0 /\ NoCall.hits = {}
  /\ \A t \in Nat : /\ [NoCall EXCEPT !.now = t] \in CallRecords
                    /\ [NoCall EXCEPT !.now = t].now = t
                    /\ [NoCall EXCEPT !.now = t].hits = {}
BY DEF NoCall, CallRecords

LEMMA CallUpdates ==
  ASSUME NEW r \in CallRecords
  PROVE  /\ r.now \in Nat
         /\ \A n \in Nat, b \in BOOLEAN :
              /\ [r EXCEPT !.size = n, !.open = b] \in CallRecords
              /\ [r EXCEPT !.size = n, !.open = b].now = r.now
              /\ [r EXCEPT !.size = n, !.open = b].hits = r.hits
              /\ [r EXCEPT !.size = n, !.open = b].size = n
              /\ [r EXCEPT !.size = n, !.open = b].open = b
         /\ \A H \in SUBSET [id : Matches, size : Nat] :
              /\ [r EXCEPT !.hits = H] \in CallRecords
              /\ [r EXCEPT !.hits = H].now = r.now
              /\ [r EXCEPT !.hits = H].hits = H
         /\ \A H \in SUBSET [id : Matches, size : Nat], n \in Nat :
              /\ [r EXCEPT !.hits = H, !.size = n] \in CallRecords
              /\ [r EXCEPT !.hits = H, !.size = n].now = r.now
              /\ [r EXCEPT !.hits = H, !.size = n].hits = H
              /\ [r EXCEPT !.hits = H, !.size = n].size = n
         /\ \A n \in Nat :
              /\ [r EXCEPT !.size = n] \in CallRecords
              /\ [r EXCEPT !.size = n].now = r.now
              /\ [r EXCEPT !.size = n].hits = r.hits
              /\ [r EXCEPT !.size = n].size = n
BY DEF CallRecords

LEMMA LobbyTypes ==
  /\ NewLobby \in Lobbies /\ NewLobby.life = "up"
  /\ Unborn \in Lobbies /\ Unborn.life = "unborn"
  /\ Closed(NewLobby) \in Lobbies /\ Closed(NewLobby).life = "closed"
BY DEF NewLobby, Unborn, Closed, Lobbies, Lives

LEMMA LobbyUpdates ==
  ASSUME NEW g \in Lobbies, NEW U \in SUBSET Users
  PROVE  /\ Entered(g, U) \in Lobbies /\ Entered(g, U).life = g.life
         /\ Exited(g, U) \in Lobbies /\ Exited(g, U).life = g.life
         /\ Decided(g) \in Lobbies /\ Decided(g).life = g.life
<1>1. \A R \in SUBSET Users :
        /\ [g EXCEPT !.roster = R] \in Lobbies
        /\ [g EXCEPT !.roster = R].life = g.life
        /\ [g EXCEPT !.roster = R, !.started = TRUE, !.open = FALSE] \in Lobbies
        /\ [g EXCEPT !.roster = R, !.started = TRUE, !.open = FALSE].life = g.life
  BY DEF Lobbies
<1>2. g.roster \cup U \in SUBSET Users /\ g.roster \ U \in SUBSET Users
  BY DEF Lobbies
<1>3. Entered(g, U) \in Lobbies /\ Entered(g, U).life = g.life
  BY <1>1, <1>2 DEF Entered
<1>4. Exited(g, U) \in Lobbies /\ Exited(g, U).life = g.life
  BY <1>1, <1>2 DEF Exited
<1>5. Decided(g) \in Lobbies /\ Decided(g).life = g.life
  BY DEF Decided, Lobbies
<1>6. QED BY <1>3, <1>4, <1>5

LEMMA SizeType == ASSUME NEW m PROVE Size(m) \in Nat
<1>1. {c \in Clients : stage[c] \in Inside /\ dest[c] = m} \in SUBSET Clients
  OBVIOUS
<1>2. QED BY <1>1, Ids, FS_Subset, FS_CardinalityType DEF Size

\* Client c goes from a stage of `from' to the stage `to', with the record k
\* and the match d; every other client stays as it is.
Turns(c, from, to, k, d) ==
  /\ stage[c] \in from /\ stage'[c] = to /\ call'[c] = k /\ dest'[c] = d
  /\ \A e \in Clients \ {c} :
       stage'[e] = stage[e] /\ call'[e] = call[e] /\ dest'[e] = dest[e]
  /\ stage' \in [Clients -> Stages]
  /\ call' \in [Clients -> CallRecords]
  /\ dest' \in [Clients -> Matches \cup {NoMatch}]

LEMMA TurnsIntro ==
  ASSUME CallsTyped, NEW c \in Clients, NEW from, stage[c] \in from,
         NEW to \in Stages, stage' = [stage EXCEPT ![c] = to],
         NEW k \in CallRecords, call' = [call EXCEPT ![c] = k],
         NEW d \in Matches \cup {NoMatch}, dest' = [dest EXCEPT ![c] = d]
  PROVE  Turns(c, from, to, k, d)
BY DEF Turns, CallsTyped

LEMMA Kept ==
  ASSUME CallsTyped, NEW c \in Clients
  PROVE  /\ call[c] \in CallRecords /\ dest[c] \in Matches \cup {NoMatch}
         /\ stage[c] \in Stages
         /\ stage = [stage EXCEPT ![c] = stage[c]]
         /\ call = [call EXCEPT ![c] = call[c]]
         /\ dest = [dest EXCEPT ![c] = dest[c]]
BY DEF CallsTyped

\* What each step of a call does to its client.
LEMMA QueueTurns ==
  ASSUME Core, NEW c \in Clients
  PROVE  /\ Call(c) => Turns(c, {"idle"}, "queued", call[c], dest[c])
         /\ Begin(c) => Turns(c, {"queued"}, "begun",
                              [NoCall EXCEPT !.now = clock], dest[c])
         /\ SkipLast(c) => Turns(c, {"begun"}, "listing", call[c], dest[c])
         /\ MatchGone(c) => Turns(c, {"begun"}, "listing", call[c], dest[c])
<1> USE DEF Core
<1>1. ASSUME Call(c) PROVE Turns(c, {"idle"}, "queued", call[c], dest[c])
  BY <1>1, Kept, TurnsIntro, StageFacts DEF Call, Go
<1>2. ASSUME Begin(c) PROVE Turns(c, {"queued"}, "begun",
                                  [NoCall EXCEPT !.now = clock], dest[c])
  <2>1. clock \in Nat
    BY Numbers DEF ControlTyped
  <2>2. [NoCall EXCEPT !.now = clock] \in CallRecords
    BY <2>1, NoCallType
  <2>3. QED BY <1>2, <2>2, Kept, TurnsIntro, StageFacts DEF Begin, Go
<1>3. ASSUME SkipLast(c) PROVE Turns(c, {"begun"}, "listing", call[c], dest[c])
  BY <1>3, Kept, TurnsIntro, StageFacts DEF SkipLast, Go
<1>4. ASSUME MatchGone(c) PROVE Turns(c, {"begun"}, "listing", call[c], dest[c])
  BY <1>4, Kept, TurnsIntro, StageFacts DEF MatchGone, Trying, Go
<1>5. QED BY <1>1, <1>2, <1>3, <1>4

LEMMA GetTurns ==
  ASSUME Core, LobbyTyped, NEW c \in Clients, MatchGet(c)
  PROVE  /\ Size(lastCreated) \in Nat /\ lobby[lastCreated].open \in BOOLEAN
         /\ Turns(c, {"begun"}, "checking",
                  [call[c] EXCEPT !.size = Size(lastCreated),
                                  !.open = lobby[lastCreated].open], dest[c])
<1> DEFINE k == [call[c] EXCEPT !.size = Size(lastCreated),
                                !.open = lobby[lastCreated].open]
<1>1. lastCreated \in Matches
  BY DEF Core, ControlTyped, MatchGet, Trying
<1>2. lobby[lastCreated].open \in BOOLEAN
  BY <1>1 DEF LobbyTyped, Lobbies
<1>3. call[c] \in CallRecords
  BY Kept DEF Core
<1>4. k \in CallRecords
  BY <1>2, <1>3, SizeType, CallUpdates
<1>5. call' = [call EXCEPT ![c] = k]
  BY DEF MatchGet
<1>6. Turns(c, {"begun"}, "checking", k, dest[c])
  BY <1>4, <1>5, Kept, TurnsIntro, StageFacts DEF Core, MatchGet, Trying, Go
<1>7. QED BY <1>2, <1>6, SizeType

LEMMA CheckTurns ==
  ASSUME Core, NEW c \in Clients, CheckLast(c)
  PROVE  \/ Turns(c, {"checking"}, "replying", call[c], lastCreated)
         \/ Turns(c, {"checking"}, "listing", call[c], dest[c])
<1>1. lastCreated \in Matches \cup {NoMatch}
  BY DEF Core, ControlTyped
<1>2. CASE dest' = [dest EXCEPT ![c] = lastCreated] /\ Go(c, "replying")
  BY <1>1, <1>2, Kept, TurnsIntro, StageFacts DEF Core, CheckLast, Go
<1>3. CASE dest' = dest /\ Go(c, "listing")
  BY <1>3, Kept, TurnsIntro, StageFacts DEF Core, CheckLast, Go
<1>4. QED BY <1>2, <1>3 DEF CheckLast

LEMMA ListTurns ==
  ASSUME Core, LobbyTyped, NEW c \in Clients, MatchList(c)
  PROVE  \E hits \in SUBSET Listable :
           /\ hits = Listable \/ Cardinality(hits) = ListLimit
           /\ {[id |-> m, size |-> Size(m)] : m \in hits}
                \in SUBSET [id : Matches, size : Nat]
           /\ Turns(c, {"listing"}, "scanning",
                    [call[c] EXCEPT !.hits =
                       {[id |-> m, size |-> Size(m)] : m \in hits}], dest[c])
<1>1. PICK hits \in SUBSET Listable :
        /\ hits = Listable \/ Cardinality(hits) = ListLimit
        /\ call' = [call EXCEPT ![c].hits =
                      {[id |-> m, size |-> Size(m)] : m \in hits}]
  BY DEF MatchList
<1> DEFINE H == {[id |-> m, size |-> Size(m)] : m \in hits}
           k == [call[c] EXCEPT !.hits = H]
<1>2. \A m \in hits : m \in Matches /\ Size(m) \in Nat
  BY SizeType DEF Listable, LobbyTyped
<1>3. H \in SUBSET [id : Matches, size : Nat]
  BY <1>2
<1>4. call[c] \in CallRecords
  BY Kept DEF Core
<1> HIDE DEF H
<1>5. k \in CallRecords
  BY <1>3, <1>4, CallUpdates
<1>6. call' = [call EXCEPT ![c] = k]
  BY <1>1 DEF H
<1>7. Turns(c, {"listing"}, "scanning", k, dest[c])
  BY <1>5, <1>6, Kept, TurnsIntro, StageFacts DEF Core, MatchList, Go
<1>8. QED BY <1>1, <1>3, <1>7 DEF H

\* The call record after the hit has been looked at.
Took(c, hit) == [call[c] EXCEPT !.hits = call[c].hits \ {hit}, !.size = hit.size]

LEMMA TookFacts ==
  ASSUME CallsTyped, NEW c \in Clients, NEW hit \in call[c].hits
  PROVE  /\ hit.id \in Matches /\ hit.size \in Nat
         /\ Took(c, hit) \in CallRecords
         /\ Took(c, hit).now = call[c].now
         /\ Took(c, hit).size = hit.size
         /\ Took(c, hit).hits = call[c].hits \ {hit}
<1>1. call[c] \in CallRecords
  BY Kept
<1>2. call[c].hits \in SUBSET [id : Matches, size : Nat]
  BY <1>1 DEF CallRecords
<1>3. /\ hit.id \in Matches /\ hit.size \in Nat
      /\ call[c].hits \ {hit} \in SUBSET [id : Matches, size : Nat]
  BY <1>2
<1> DEFINE H == call[c].hits \ {hit}
           n == hit.size
<1>4. H \in SUBSET [id : Matches, size : Nat] /\ n \in Nat
  BY <1>3
<1>5. Took(c, hit) = [call[c] EXCEPT !.hits = H, !.size = n]
  BY DEF Took
<1> HIDE DEF H, n
<1>6. /\ Took(c, hit) \in CallRecords /\ Took(c, hit).now = call[c].now
      /\ Took(c, hit).size = n /\ Took(c, hit).hits = H
  BY <1>1, <1>4, <1>5 DEF CallRecords
<1>7. QED BY <1>3, <1>6 DEF H, n

LEMMA ScanTurns ==
  ASSUME Core, NEW c \in Clients, Scan(c)
  PROVE  \E hit \in call[c].hits :
           /\ hit.id \in Matches /\ hit.size \in Nat
           /\ call[c].hits \ {hit} \in SUBSET [id : Matches, size : Nat]
           /\ seats' = Pruned(hit.id, call[c].now)
           /\ \/ /\ HasRoom(hit.id, hit.size, call[c].now)
                 /\ Turns(c, {"scanning"}, "replying",
                          Took(c, hit), hit.id)
              \/ /\ ~HasRoom(hit.id, hit.size, call[c].now)
                 /\ Turns(c, {"scanning"}, "scanning",
                          Took(c, hit), dest[c])
<1>1. PICK hit \in call[c].hits :
        /\ seats' = Pruned(hit.id, call[c].now)
        /\ call' = [call EXCEPT ![c].hits = @ \ {hit}, ![c].size = hit.size]
        /\ \/ /\ HasRoom(hit.id, hit.size, call[c].now)
              /\ dest' = [dest EXCEPT ![c] = hit.id]
              /\ Go(c, "replying")
           \/ /\ ~HasRoom(hit.id, hit.size, call[c].now)
              /\ UNCHANGED <<dest, stage, calls>>
  BY DEF Scan
<1> DEFINE H == call[c].hits \ {hit}
           k == [call[c] EXCEPT !.hits = H, !.size = hit.size]
<1>2. call[c] \in CallRecords /\ stage[c] = "scanning"
  BY Kept DEF Core, Scan
<1>3. call[c].hits \in SUBSET [id : Matches, size : Nat]
  BY <1>2 DEF CallRecords
<1>4. hit.id \in Matches /\ hit.size \in Nat /\ H \in SUBSET [id : Matches, size : Nat]
  BY <1>3
<1>6. call' = [call EXCEPT ![c] = k]
  BY <1>1
<1> HIDE DEF H
<1>5. k \in CallRecords
  BY <1>2, <1>4, CallUpdates
<1> HIDE DEF k
<1>7. /\ HasRoom(hit.id, hit.size, call[c].now) =>
           Turns(c, {"scanning"}, "replying", k, hit.id)
      /\ ~HasRoom(hit.id, hit.size, call[c].now) =>
           Turns(c, {"scanning"}, "scanning", k, dest[c])
  <2>1. CASE HasRoom(hit.id, hit.size, call[c].now)
    <3>1. dest' = [dest EXCEPT ![c] = hit.id] /\ Go(c, "replying")
      BY <1>1, <2>1
    <3>2. QED
      BY <1>2, <1>4, <1>5, <1>6, <2>1, <3>1, Kept, TurnsIntro, StageFacts DEF Core, Go
  <2>2. CASE ~HasRoom(hit.id, hit.size, call[c].now)
    <3>1. UNCHANGED <<dest, stage, calls>>
      BY <1>1, <2>2
    <3>2. QED
      BY <1>2, <1>5, <1>6, <2>2, <3>1, Kept, TurnsIntro, StageFacts DEF Core
  <2>3. QED BY <2>1, <2>2
<1>8. QED BY <1>1, <1>4, <1>7 DEF H, k, Took

LEMMA EndTurns ==
  ASSUME Core, NEW c \in Clients
  PROVE  /\ NoneJoinable(c) =>
              Turns(c, {"scanning"}, "creating", call[c], dest[c])
         /\ MatchListFails(c) => Turns(c, {"listing"}, "idle", NoCall, dest[c])
         /\ MatchCreateFails(c) => Turns(c, {"creating"}, "idle", NoCall, dest[c])
         /\ Reply(c) => Turns(c, {"replying"}, "told", NoCall, dest[c])
<1> USE DEF Core
<1>1. ASSUME NoneJoinable(c) PROVE Turns(c, {"scanning"}, "creating", call[c], dest[c])
  BY <1>1, Kept, TurnsIntro, StageFacts DEF NoneJoinable, Go
<1>2. ASSUME MatchListFails(c) PROVE Turns(c, {"listing"}, "idle", NoCall, dest[c])
  BY <1>2, NoCallType, Kept, TurnsIntro, StageFacts DEF MatchListFails, GiveBack, Go
<1>3. ASSUME MatchCreateFails(c) PROVE Turns(c, {"creating"}, "idle", NoCall, dest[c])
  BY <1>3, NoCallType, Kept, TurnsIntro, StageFacts DEF MatchCreateFails, GiveBack, Go
<1>4. ASSUME Reply(c) PROVE Turns(c, {"replying"}, "told", NoCall, dest[c])
  BY <1>4, NoCallType, Kept, TurnsIntro, StageFacts DEF Reply, Go
<1>5. QED BY <1>1, <1>2, <1>3, <1>4

LEMMA CreateTurns ==
  ASSUME Core, NEW c \in Clients
  PROVE  /\ MatchCreate(c) =>
              \E m \in NewIds : /\ lobby' = [lobby EXCEPT ![m] = NewLobby]
                                /\ Remember(m)
                                /\ Turns(c, {"creating"}, "replying",
                                         [call[c] EXCEPT !.size = 0], m)
         /\ CreateMatch(c) =>
              \E m \in NewIds : /\ lobby' = [lobby EXCEPT ![m] = NewLobby]
                                /\ Turns(c, {"idle"}, "told", call[c], m)
<1>1. ASSUME MatchCreate(c)
      PROVE  \E m \in NewIds : /\ lobby' = [lobby EXCEPT ![m] = NewLobby]
                               /\ Remember(m)
                               /\ Turns(c, {"creating"}, "replying",
                                         [call[c] EXCEPT !.size = 0], m)
  <2>1. PICK m \in NewIds : /\ lobby' = [lobby EXCEPT ![m] = NewLobby]
                            /\ dest' = [dest EXCEPT ![c] = m]
                            /\ Remember(m)
    BY <1>1 DEF MatchCreate
  <2>2. m \in Matches
    BY DEF NewIds
  <2> DEFINE k == [call[c] EXCEPT !.size = 0]
  <2>3. k \in CallRecords
    BY Kept, CallUpdates DEF Core
  <2>4. call' = [call EXCEPT ![c] = k]
    BY <1>1 DEF MatchCreate
  <2> HIDE DEF k
  <2>5. Turns(c, {"creating"}, "replying", k, m)
    BY <1>1, <2>1, <2>2, <2>3, <2>4, Kept, TurnsIntro, StageFacts DEF Core, MatchCreate, Go
  <2>6. QED BY <2>1, <2>5 DEF k
<1>2. ASSUME CreateMatch(c)
      PROVE  \E m \in NewIds : /\ lobby' = [lobby EXCEPT ![m] = NewLobby]
                               /\ Turns(c, {"idle"}, "told", call[c], m)
  <2>1. PICK m \in NewIds : /\ lobby' = [lobby EXCEPT ![m] = NewLobby]
                            /\ dest' = [dest EXCEPT ![c] = m]
    BY <1>2 DEF CreateMatch
  <2>2. m \in Matches
    BY DEF NewIds
  <2>3. Turns(c, {"idle"}, "told", call[c], m)
    BY <1>2, <2>1, <2>2, Kept, TurnsIntro, StageFacts DEF Core, CreateMatch, Go
  <2>4. QED BY <2>1, <2>3
<1>3. QED BY <1>1, <1>2

LEMMA VisitTurns ==
  ASSUME Core, NEW c \in Clients
  PROVE  /\ Admitted(c) => Turns(c, {"told"}, "admitted", call[c], dest[c])
         /\ Refused(c) => Turns(c, {"told"}, "idle", call[c], NoMatch)
         /\ NeverComes(c) => Turns(c, {"told", "admitted"}, "idle", call[c], NoMatch)
         /\ Arrive(c) => Turns(c, {"admitted"}, "arrived", call[c], dest[c])
         /\ MatchJoin(c) => Turns(c, {"arrived"}, "joined", call[c], dest[c])
         /\ Disconnect(c) => Turns(c, {"joined"}, "leaving", call[c], dest[c])
         /\ MatchLeave(c) => Turns(c, {"leaving"}, "idle", call[c], NoMatch)
<1> USE DEF Core
<1>1. ASSUME Admitted(c) PROVE Turns(c, {"told"}, "admitted", call[c], dest[c])
  BY <1>1, Kept, TurnsIntro, StageFacts DEF Admitted, Go
<1>2. ASSUME Refused(c) PROVE Turns(c, {"told"}, "idle", call[c], NoMatch)
  BY <1>2, Kept, TurnsIntro, StageFacts DEF Refused, Away, Go
<1>3. ASSUME NeverComes(c)
      PROVE  Turns(c, {"told", "admitted"}, "idle", call[c], NoMatch)
  BY <1>3, Kept, TurnsIntro, StageFacts DEF NeverComes, Away, Go
<1>4. ASSUME Arrive(c) PROVE Turns(c, {"admitted"}, "arrived", call[c], dest[c])
  BY <1>4, Kept, TurnsIntro, StageFacts DEF Arrive, Go
<1>5. ASSUME MatchJoin(c) PROVE Turns(c, {"arrived"}, "joined", call[c], dest[c])
  BY <1>5, Kept, TurnsIntro, StageFacts DEF MatchJoin, Go
<1>6. ASSUME Disconnect(c) PROVE Turns(c, {"joined"}, "leaving", call[c], dest[c])
  BY <1>6, Kept, TurnsIntro, StageFacts DEF Disconnect, Go
<1>7. ASSUME MatchLeave(c) PROVE Turns(c, {"leaving"}, "idle", call[c], NoMatch)
  BY <1>7, Kept, TurnsIntro, StageFacts DEF MatchLeave, Away, Go
<1>8. QED BY <1>1, <1>2, <1>3, <1>4, <1>5, <1>6, <1>7

\* Close puts the clients inside out of the match, and touches no other.
LEMMA CloseTurns ==
  ASSUME Core, NEW m \in Matches, Close(m)
  PROVE  /\ call' = call
         /\ stage' \in [Clients -> Stages]
         /\ dest' \in [Clients -> Matches \cup {NoMatch}]
         /\ \A c \in Clients :
              \/ stage'[c] = stage[c] /\ dest'[c] = dest[c]
              \/ /\ stage[c] \in Within /\ dest[c] = m
                 /\ stage'[c] = "idle" /\ dest'[c] = NoMatch
BY StageFacts DEF Close, Core, CallsTyped

LEMMA TurnsTyped ==
  ASSUME CallsTyped, clock' = clock, NEW c \in Clients, NEW from, NEW to,
         NEW k, NEW d, Turns(c, from, to, k, d), k.now <= clock,
         to \in Placed => d \in Matches, to \notin Placed => d = NoMatch
  PROVE  CallsTyped'
BY DEF Turns, CallsTyped

\* The lock survives a step of c if c holds it while it runs, and if only a
\* running call outside naive mode changes lastCreated.
LEMMA TurnsLock ==
  ASSUME LockInv, CallsTyped, UNCHANGED matchmaking, NEW c \in Clients, NEW from,
         NEW to, NEW k, NEW d, Turns(c, from, to, k, d),
         to \in Running /\ matchmaking # "naive" => matchmakingMu' = c,
         \/ matchmakingMu' = matchmakingMu
         \/ matchmakingMu = NoClient /\ matchmakingMu' = c
         \/ matchmakingMu = c /\ matchmakingMu' = NoClient,
         matchmakingMu' = c => to \in Running,
         to = "checking" => matchmaking # "naive" /\ lastCreated' # NoMatch,
         \/ lastCreated' = lastCreated
         \/ stage[c] \in Running /\ matchmaking # "naive"
  PROVE  LockInv'
<1> USE Ids
<1>1. ASSUME NEW e \in Clients, matchmakingMu' = e PROVE stage'[e] \in Running
  BY <1>1 DEF Turns, LockInv
<1>2. ASSUME NEW e \in Clients, stage'[e] \in Running, matchmaking # "naive"
      PROVE  matchmakingMu' = e
  <2>1. CASE e = c
    BY <1>2, <2>1 DEF Turns
  <2>2. CASE e # c
    BY <1>2, <2>2 DEF Turns, LockInv
  <2>3. QED BY <2>1, <2>2
<1>3. ASSUME NEW e \in Clients, stage'[e] = "checking"
      PROVE  matchmaking # "naive" /\ lastCreated' # NoMatch
  <2>1. CASE e = c
    BY <1>3, <2>1 DEF Turns
  <2>2. CASE e # c
    <3>1. stage[e] = "checking"
      BY <1>3, <2>2 DEF Turns
    <3>2. matchmakingMu = e
      BY <3>1, StageFacts DEF LockInv
    <3>3. lastCreated' = lastCreated
      BY <2>2, <3>2 DEF LockInv
    <3>4. QED BY <3>1, <3>3 DEF LockInv
  <2>3. QED BY <2>1, <2>2
<1>4. QED BY <1>1, <1>2, <1>3 DEF LockInv

\* A step that leaves the mutex, lastCreated and the control state alone.
LEMMA PlainTurns ==
  ASSUME Core, UNCHANGED <<matchmaking, clock, swept, matchmakingMu, lastCreated>>,
         calls' \in 0..MaxCalls, NEW c \in Clients, NEW from, NEW to, NEW k, NEW d,
         Turns(c, from, to, k, d), k.now <= clock,
         to \in Placed => d \in Matches, to \notin Placed => d = NoMatch,
         to \in Running <=> stage[c] \in Running, to # "checking"
  PROVE  Core'
<1> USE DEF Core
<1>1. CallsTyped'
  BY TurnsTyped
<1>2. LockInv'
  BY Ids, TurnsLock DEF LockInv
<1>3. QED BY <1>1, <1>2 DEF ControlTyped

LEMMA CallsUntouched ==
  ASSUME Core, UNCHANGED <<matchmaking, matchmakingMu, lastCreated, stage, call, dest,
                           swept, calls>>,
         clock' \in 0..MaxTime, clock <= clock'
  PROVE  Core'
<1>1. \A c \in Clients : call[c].now \in Nat
  BY CallUpdates DEF Core, CallsTyped
<1>2. ControlTyped' /\ CallsTyped'
  BY <1>1, Numbers DEF Core, ControlTyped, CallsTyped
<1>3. LockInv'
  BY DEF Core, LockInv
<1>4. QED BY <1>2, <1>3 DEF Core

LEMMA CoreInit == Init => Core
<1> SUFFICES ASSUME Init PROVE Core
  OBVIOUS
<1>1. ControlTyped
  BY Numbers, Ids DEF Init, ControlTyped
<1>2. CallsTyped
  BY NoCallType, StageFacts DEF Init, CallsTyped
<1>3. LockInv
  BY Ids, StageFacts DEF Init, LockInv
<1>4. QED BY <1>1, <1>2, <1>3 DEF Core

LEMMA CoreCallStep ==
  ASSUME Core, LobbyTyped, NEW c \in Clients, Begin(c) \/ CallStep(c)
  PROVE  Core'
<1> USE DEF Core
<1>1. /\ call[c] \in CallRecords /\ call[c].now <= clock
      /\ clock \in Nat /\ calls \in 0..MaxCalls /\ lastCreated \in Matches \cup {NoMatch}
      /\ NoCall.now <= clock
  BY Kept, NoCallType, Numbers DEF CallsTyped, ControlTyped
<1>2. /\ stage[c] \notin Placed => dest[c] = NoMatch
      /\ stage[c] \in Placed => dest[c] \in Matches
  BY DEF CallsTyped
<1>3. CASE Begin(c)
  <2> DEFINE k == [NoCall EXCEPT !.now = clock]
  <2>1. Turns(c, {"queued"}, "begun", k, dest[c])
    BY <1>3, QueueTurns
  <2>2. stage[c] = "queued" /\ dest[c] = NoMatch
    BY <1>2, <2>1, StageFacts DEF Turns
  <2>3. UNCHANGED <<clock, matchmaking, lastCreated, calls>> /\ swept' = clock
    BY <1>3 DEF Begin, Track
  <2>4. k.now <= clock
    BY <1>1, NoCallType
  <2> HIDE DEF k
  <2>5. CallsTyped'
    BY <2>1, <2>2, <2>3, <2>4, StageFacts, TurnsTyped
  <2>6. \/ matchmaking = "naive" /\ matchmakingMu' = matchmakingMu
        \/ matchmaking # "naive" /\ matchmakingMu = NoClient /\ matchmakingMu' = c
    BY <1>3 DEF Begin, Lock
  <2>7. LockInv'
    BY <2>1, <2>3, <2>6, StageFacts, TurnsLock
  <2>8. ControlTyped'
    BY <1>1, <2>3, <2>6 DEF ControlTyped
  <2>9. QED BY <2>5, <2>7, <2>8
<1>4. CASE SkipLast(c)
  BY <1>1, <1>2, <1>4, QueueTurns, PlainTurns, StageFacts DEF SkipLast, Track
<1>5. CASE MatchGet(c)
  <2> DEFINE k == [call[c] EXCEPT !.size = Size(lastCreated),
                                  !.open = lobby[lastCreated].open]
  <2>1. Turns(c, {"begun"}, "checking", k, dest[c]) /\ k.now = call[c].now
    <3>1. /\ Size(lastCreated) \in Nat /\ lobby[lastCreated].open \in BOOLEAN
          /\ Turns(c, {"begun"}, "checking", k, dest[c])
      BY <1>5, GetTurns
    <3>2. k.now = call[c].now
      BY <1>1 DEF CallRecords
    <3>3. QED BY <3>1, <3>2
  <2>2. /\ UNCHANGED <<clock, matchmaking, matchmakingMu, lastCreated, swept, calls>>
        /\ matchmaking # "naive" /\ lastCreated # NoMatch /\ stage[c] = "begun"
    BY <1>5 DEF MatchGet, Trying, Track
  <2> HIDE DEF k
  <2>3. CallsTyped'
    BY <1>1, <1>2, <2>1, <2>2, StageFacts, TurnsTyped
  <2>4. LockInv'
    BY <2>1, <2>2, StageFacts, TurnsLock DEF LockInv
  <2>5. QED BY <2>2, <2>3, <2>4 DEF ControlTyped
<1>6. CASE MatchGone(c)
  <2>1. Turns(c, {"begun"}, "listing", call[c], dest[c])
    BY <1>6, QueueTurns
  <2>2. /\ UNCHANGED <<clock, matchmaking, matchmakingMu, swept, calls>>
        /\ lastCreated' = NoMatch /\ matchmaking # "naive" /\ stage[c] = "begun"
    BY <1>6 DEF MatchGone, Trying, Track
  <2>3. CallsTyped'
    BY <1>1, <1>2, <2>1, <2>2, StageFacts, TurnsTyped
  <2>4. LockInv'
    BY <2>1, <2>2, StageFacts, TurnsLock DEF LockInv
  <2>5. QED BY <2>2, <2>3, <2>4 DEF ControlTyped
<1>7. CASE CheckLast(c)
  <2>1. /\ UNCHANGED <<clock, matchmaking, matchmakingMu, swept, calls>>
        /\ stage[c] = "checking"
        /\ lastCreated' = lastCreated \/ lastCreated' = NoMatch
    BY <1>7 DEF CheckLast, Track
  <2>2. matchmaking # "naive" /\ lastCreated \in Matches
    BY <1>1, <2>1 DEF LockInv
  <2>3. PICK to \in {"replying", "listing"}, d \in Matches \cup {NoMatch} :
          /\ Turns(c, {"checking"}, to, call[c], d)
          /\ to \in Placed => d \in Matches
          /\ to \notin Placed => d = NoMatch
    BY <1>2, <1>7, <2>1, <2>2, CheckTurns, StageFacts
  <2>4. CallsTyped'
    BY <1>1, <2>1, <2>3, TurnsTyped
  <2>5. LockInv'
    BY <2>1, <2>2, <2>3, StageFacts, TurnsLock DEF LockInv
  <2>6. QED BY <2>1, <2>2, <2>4, <2>5 DEF ControlTyped
<1>8. CASE MatchList(c)
  <2>1. PICK H \in SUBSET [id : Matches, size : Nat] :
          Turns(c, {"listing"}, "scanning", [call[c] EXCEPT !.hits = H], dest[c])
    BY <1>8, ListTurns
  <2> DEFINE k == [call[c] EXCEPT !.hits = H]
  <2>2. k.now <= clock /\ Turns(c, {"listing"}, "scanning", k, dest[c])
    <3>1. k.now = call[c].now
      BY <1>1, CallUpdates
    <3>2. QED BY <1>1, <2>1, <3>1
  <2> HIDE DEF k
  <2>3. UNCHANGED <<matchmaking, clock, swept, matchmakingMu, lastCreated, calls>>
        /\ stage[c] = "listing"
    BY <1>8 DEF MatchList, Track
  <2>4. QED
    BY <1>1, <1>2, <2>2, <2>3, StageFacts, PlainTurns
<1>9. CASE Scan(c)
  <2>1. PICK hit \in call[c].hits, to \in {"replying", "scanning"},
             d \in Matches \cup {NoMatch} :
          /\ Turns(c, {"scanning"}, to, Took(c, hit), d)
          /\ to = "replying" => d \in Matches
          /\ to = "scanning" => d = dest[c]
    BY <1>9, ScanTurns, Kept
  <2>2. Took(c, hit).now <= clock
    BY <1>1, TookFacts
  <2>3. UNCHANGED <<matchmaking, clock, swept, matchmakingMu, lastCreated, calls>>
        /\ stage[c] = "scanning"
    BY <1>9 DEF Scan, Track
  <2>4. /\ to \in Placed => d \in Matches
        /\ to \notin Placed => d = NoMatch
        /\ to \in Running /\ stage[c] \in Running /\ to # "checking"
    BY <1>2, <2>1, <2>3, StageFacts
  <2>5. QED
    BY <1>1, <2>1, <2>2, <2>3, <2>4, PlainTurns
<1>10. CASE NoneJoinable(c)
  BY <1>1, <1>2, <1>10, EndTurns, PlainTurns, StageFacts DEF NoneJoinable, Track
<1>11. CASE MatchCreate(c)
  <2> DEFINE k == [call[c] EXCEPT !.size = 0]
  <2>1. PICK m \in NewIds :
          Remember(m) /\ Turns(c, {"creating"}, "replying", k, m)
    BY <1>11, CreateTurns
  <2>8. k.now <= clock
    <3>1. k.now = call[c].now
      BY <1>1, CallUpdates
    <3>2. QED BY <1>1, <3>1
  <2> HIDE DEF k
  <2>2. /\ UNCHANGED <<clock, matchmaking, matchmakingMu, swept, calls>>
        /\ stage[c] = "creating"
    BY <1>11 DEF MatchCreate, Track
  <2>3. m \in Matches
    BY DEF NewIds
  <2>4. \/ lastCreated' = lastCreated
        \/ matchmaking # "naive" /\ lastCreated' = m
    BY <2>1 DEF Remember
  <2>5. CallsTyped'
    BY <1>1, <2>1, <2>2, <2>3, <2>8, StageFacts, TurnsTyped
  <2>6. LockInv'
    BY <2>1, <2>2, <2>4, StageFacts, TurnsLock DEF LockInv
  <2>7. QED BY <2>2, <2>3, <2>4, <2>5, <2>6 DEF ControlTyped
<1>12. CASE MatchListFails(c) \/ MatchCreateFails(c) \/ Reply(c)
  <2>1. PICK from \in {{"listing"}, {"creating"}, {"replying"}},
             to \in {"idle", "told"} :
          /\ Turns(c, from, to, NoCall, dest[c])
          /\ to \in Placed => dest[c] \in Matches
          /\ to \notin Placed => dest[c] = NoMatch
    <3>1. ASSUME Turns(c, {"listing"}, "idle", NoCall, dest[c])
                 \/ Turns(c, {"creating"}, "idle", NoCall, dest[c])
          PROVE  "idle" \notin Placed /\ dest[c] = NoMatch
      BY <1>2, <3>1, StageFacts DEF Turns
    <3>2. ASSUME Turns(c, {"replying"}, "told", NoCall, dest[c])
          PROVE  "told" \in Placed /\ dest[c] \in Matches
      BY <1>2, <3>2, StageFacts DEF Turns
    <3>3. QED BY <1>12, <3>1, <3>2, EndTurns
  <2>2. /\ UNCHANGED <<clock, matchmaking, swept, calls, lastCreated>> /\ Unlock(c)
    BY <1>12 DEF MatchListFails, MatchCreateFails, Reply, GiveBack, Track
  <2>3. CallsTyped'
    BY <1>1, <2>1, <2>2, TurnsTyped
  <2>4. LockInv'
    BY <2>1, <2>2, Ids, StageFacts, TurnsLock DEF Unlock
  <2>5. QED BY <2>2, <2>3, <2>4 DEF ControlTyped, Unlock
<1>13. QED
  BY <1>3, <1>4, <1>5, <1>6, <1>7, <1>8, <1>9, <1>10, <1>11, <1>12 DEF CallStep

LEMMA CoreClientStep ==
  ASSUME Core, NEW c \in Clients, ClientStep(c) PROVE Core'
<1> USE DEF Core
<1>1. /\ call[c] \in CallRecords /\ call[c].now <= clock /\ calls \in 0..MaxCalls
      /\ stage[c] \notin Placed => dest[c] = NoMatch
      /\ stage[c] \in Placed => dest[c] \in Matches
  BY Kept DEF CallsTyped, ControlTyped
<1>2. UNCHANGED <<matchmaking, clock, swept, matchmakingMu, lastCreated>>
  BY DEF ClientStep, Call, CreateMatch, Admitted, Refused, NeverComes, Arrive,
     MatchJoin, Disconnect, MatchLeave, Track
<1>3. calls' \in 0..MaxCalls
  BY <1>1, Numbers DEF ClientStep, Call, CreateMatch, Admitted, Refused, NeverComes,
     Arrive, MatchJoin, Disconnect, MatchLeave, Request
<1>4. PICK from, to, d :
        /\ Turns(c, from, to, call[c], d)
        /\ to \in Placed => d \in Matches
        /\ to \notin Placed => d = NoMatch
        /\ to \notin Running /\ stage[c] \notin Running
  <2>1. CASE Call(c)
    BY <1>1, <2>1, QueueTurns, StageFacts DEF Turns
  <2>2. CASE CreateMatch(c)
    BY <1>1, <2>2, CreateTurns, StageFacts DEF Turns, NewIds
  <2>3. CASE Admitted(c) \/ Arrive(c) \/ MatchJoin(c) \/ Disconnect(c)
    BY <1>1, <2>3, VisitTurns, StageFacts DEF Turns
  <2>4. CASE Refused(c) \/ NeverComes(c) \/ MatchLeave(c)
    BY <1>1, <2>4, VisitTurns, StageFacts DEF Turns
  <2>5. QED BY <2>1, <2>2, <2>3, <2>4 DEF ClientStep
<1>5. QED BY <1>1, <1>2, <1>3, <1>4, PlainTurns, StageFacts

LEMMA CoreMatchStep ==
  ASSUME Core, NEW m \in Matches, Decide(m) \/ Close(m) \/ Reindex(m) PROVE Core'
<1>1. CASE Decide(m) \/ Reindex(m)
  BY <1>1, CallsUntouched, Numbers DEF Decide, Reindex, Track, Core, ControlTyped
<1>2. CASE Close(m)
  <2>1. UNCHANGED <<matchmaking, clock, swept, calls, matchmakingMu, lastCreated, call>>
    BY <1>2 DEF Close, Track
  <2>2. CallsTyped'
    BY <1>2, <2>1, CloseTurns, StageFacts DEF Core, CallsTyped
  <2>3. \A c \in Clients : stage'[c] = stage[c] \/ (stage[c] \notin Running /\ stage'[c] = "idle")
    <3> SUFFICES ASSUME NEW c \in Clients
                 PROVE  stage'[c] = stage[c] \/ (stage[c] \notin Running /\ stage'[c] = "idle")
      OBVIOUS
    <3>1. \/ stage'[c] = stage[c]
          \/ stage[c] \in Within /\ stage'[c] = "idle"
      BY <1>2, CloseTurns
    <3>2. QED BY <3>1, StageFacts
  <2>4. LockInv'
    BY <2>1, <2>3, StageFacts DEF Core, LockInv
  <2>5. QED BY <2>1, <2>2, <2>4 DEF Core, ControlTyped
<1>3. QED BY <1>1, <1>2

LEMMA CoreStep == ASSUME Core, LobbyTyped, [Next]_vars PROVE Core'
<1>1. CASE Advance
  BY <1>1, CallsUntouched, Numbers DEF Advance, Track, Core, ControlTyped
<1>2. CASE UNCHANGED vars
  BY <1>2, CallsUntouched DEF vars, Core, ControlTyped
<1>3. QED
  BY <1>1, <1>2, CoreCallStep, CoreClientStep, CoreMatchStep DEF Next

\* Only an answer in seats mode adds a seat.
LEMMA PrunedDrops ==
  ASSUME NEW m, NEW now
  PROVE  /\ Drops(seats, Pruned(m, now))
         /\ matchmaking = "seats" => Holders(Pruned(m, now), m) = Unexpired(seats, m, now)
BY PruneDrops, DropsNothing DEF Pruned

LEMMA SeatsStep ==
  ASSUME [Next]_vars
  PROVE  \/ Drops(seats, seats')
         \/ \E c \in Clients :
              /\ Reply(c) /\ matchmaking = "seats"
              /\ seats' = HoldSeat(seats, dest[c], UserOf[c], call[c].now + seatTTL)
<1>1. CASE seats' = seats
  BY <1>1, DropsNothing
<1>2. ASSUME NEW c \in Clients, Begin(c) \/ CheckLast(c) \/ Scan(c) \/ MatchJoin(c)
      PROVE  Drops(seats, seats')
  <2>1. CASE Begin(c)
    BY <2>1, SweepDrops DEF Begin
  <2>2. CASE CheckLast(c)
    BY <2>2, PrunedDrops DEF CheckLast
  <2>3. CASE Scan(c)
    <3>1. PICK hit \in call[c].hits : seats' = Pruned(hit.id, call[c].now)
      BY <2>3 DEF Scan
    <3>2. QED BY <3>1, PrunedDrops
  <2>4. CASE MatchJoin(c)
    BY <2>4, ReleaseDrops DEF MatchJoin
  <2>5. QED BY <1>2, <2>1, <2>2, <2>3, <2>4
<1>3. ASSUME NEW c \in Clients, Reply(c)
      PROVE  \/ seats' = seats
             \/ /\ matchmaking = "seats"
                /\ seats' = HoldSeat(seats, dest[c], UserOf[c], call[c].now + seatTTL)
  BY <1>3 DEF Reply
<1>4. CASE UNCHANGED vars \/ Advance
           \/ \E m \in Matches : Decide(m) \/ Close(m) \/ Reindex(m)
  BY <1>1, <1>4 DEF vars, Advance, Decide, Close, Reindex
<1>5. ASSUME NEW c \in Clients, CallStep(c) \/ ClientStep(c)
      PROVE  \/ seats' = seats \/ CheckLast(c) \/ Scan(c) \/ MatchJoin(c) \/ Reply(c)
  BY <1>5 DEF CallStep, ClientStep, SkipLast, MatchGet, MatchGone, MatchList,
     MatchListFails, NoneJoinable, MatchCreate, MatchCreateFails, Call, CreateMatch,
     Admitted, Refused, NeverComes, Arrive, Disconnect, MatchLeave
<1>6. QED
  BY <1>1, <1>2, <1>3, <1>4, <1>5 DEF Next

LEMMA HoldTyped ==
  ASSUME NEW held, SeatMap(held), NEW m \in Matches, NEW u \in Users,
         NEW expiry \in 0..(MaxTime + seatTTL)
  PROVE  SeatMap(HoldSeat(held, m, u, expiry))
<1>1. PICK new : new = HoldSeat(held, m, u, expiry)
  OBVIOUS
<1>2. \A v \in Holders(held, m) :
        v \in Users /\ SeatsOf(held, m)[v] \in 0..(MaxTime + seatTTL)
  BY HolderFacts DEF SeatMap, Holders
<1>3. /\ \A k : k \in DOMAIN new <=> k \in DOMAIN held \/ k = m
      /\ \A k \in DOMAIN held \ {m} : new[k] = held[k]
      /\ DOMAIN new[m] = Holders(held, m) \cup {u}
      /\ new[m][u] = expiry
      /\ \A v \in Holders(held, m) \ {u} : new[m][v] = SeatsOf(held, m)[v]
  BY <1>1, HoldFacts
<1>4. /\ DOMAIN new[m] \subseteq Users
      /\ \A v \in DOMAIN new[m] : new[m][v] \in 0..(MaxTime + seatTTL)
  BY <1>2, <1>3
<1>5. SeatMap(new)
  BY <1>3, <1>4 DEF SeatMap
<1>6. QED BY <1>1, <1>5

LEMMA SeatsTypedStep ==
  ASSUME Core, SeatsTyped, [Next]_vars PROVE SeatsTyped'
<1>1. CASE Drops(seats, seats')
  BY <1>1 DEF Drops, SeatsTyped, SeatMap
<1>2. ASSUME NEW c \in Clients, Reply(c),
             seats' = HoldSeat(seats, dest[c], UserOf[c], call[c].now + seatTTL)
      PROVE  SeatsTyped'
  <2>1. dest[c] \in Matches /\ UserOf[c] \in Users
    BY <1>2, Ids, StageFacts DEF Reply, Core, CallsTyped
  <2>2. call[c].now + seatTTL \in 0..(MaxTime + seatTTL)
    <3>1. call[c] \in CallRecords /\ call[c].now <= clock
      BY Kept DEF Core, CallsTyped
    <3>2. call[c].now \in Nat
      BY <3>1 DEF CallRecords
    <3>3. clock \in Nat /\ clock <= MaxTime
      BY Numbers DEF Core, ControlTyped
    <3>4. QED BY <3>1, <3>2, <3>3, Numbers
  <2>3. SeatMap(HoldSeat(seats, dest[c], UserOf[c], call[c].now + seatTTL))
    BY <2>1, <2>2, HoldTyped DEF SeatsTyped
  <2>4. QED BY <1>2, <2>3 DEF SeatsTyped
<1>3. QED BY <1>1, <1>2, SeatsStep

\* One match changes at a time, and an id once handed out stays so.
LEMMA LobbyStep ==
  ASSUME Core, LobbyTyped, [Next]_vars
  PROVE  \/ lobby' = lobby
         \/ \E m \in Matches, g \in Lobbies :
              /\ lobby' = [lobby EXCEPT ![m] = g]
              /\ g.life = "unborn" => lobby[m].life = "unborn"
<1> DEFINE Goal == \E m \in Matches, g \in Lobbies :
                     /\ lobby' = [lobby EXCEPT ![m] = g]
                     /\ g.life = "unborn" => lobby[m].life = "unborn"
<1>1. ASSUME NEW c \in Clients, MatchCreate(c) \/ CreateMatch(c) PROVE Goal
  BY <1>1, LobbyTypes DEF MatchCreate, CreateMatch, NewIds
<1>2. ASSUME NEW c \in Clients, MatchJoin(c) \/ MatchLeave(c) PROVE Goal
  <2>1. dest[c] \in Matches
    BY <1>2, StageFacts DEF MatchJoin, MatchLeave, Core, CallsTyped
  <2>2. lobby[dest[c]] \in Lobbies /\ {UserOf[c]} \in SUBSET Users
    BY <2>1, Ids DEF LobbyTyped
  <2>3. /\ Entered(lobby[dest[c]], {UserOf[c]}) \in Lobbies
        /\ Entered(lobby[dest[c]], {UserOf[c]}).life = lobby[dest[c]].life
        /\ Exited(lobby[dest[c]], {UserOf[c]}) \in Lobbies
        /\ Exited(lobby[dest[c]], {UserOf[c]}).life = lobby[dest[c]].life
    BY <2>2, LobbyUpdates
  <2>4. CASE MatchJoin(c)
    <3>1. lobby' = [lobby EXCEPT ![dest[c]] = Entered(lobby[dest[c]], {UserOf[c]})]
      BY <2>4 DEF MatchJoin
    <3>2. QED BY <2>1, <2>3, <3>1
  <2>5. CASE MatchLeave(c)
    <3>1. lobby' = [lobby EXCEPT ![dest[c]] = Exited(lobby[dest[c]], {UserOf[c]})]
      BY <2>5 DEF MatchLeave
    <3>2. QED BY <2>1, <2>3, <3>1
  <2>6. QED BY <1>2, <2>4, <2>5
<1>3. ASSUME NEW m \in Matches, Decide(m) PROVE Goal
  <2>1. lobby[m] \in Lobbies
    BY DEF LobbyTyped
  <2>2. Decided(lobby[m]) \in Lobbies /\ Decided(lobby[m]).life = lobby[m].life
    BY <2>1, LobbyUpdates
  <2>3. lobby' = [lobby EXCEPT ![m] = Decided(lobby[m])]
    BY <1>3 DEF Decide
  <2>4. QED BY <2>2, <2>3
<1>4. ASSUME NEW m \in Matches, Close(m) PROVE Goal
  BY <1>4, LobbyTypes DEF Close
<1>5. CASE UNCHANGED vars \/ Advance \/ \E m \in Matches : Reindex(m)
  BY <1>5 DEF vars, Advance, Reindex
<1>6. ASSUME NEW c \in Clients, Begin(c) \/ CallStep(c) \/ ClientStep(c)
      PROVE  \/ lobby' = lobby \/ MatchCreate(c) \/ CreateMatch(c)
             \/ MatchJoin(c) \/ MatchLeave(c)
  BY <1>6 DEF CallStep, ClientStep, Begin, SkipLast, MatchGet, MatchGone, MatchList,
     CheckLast, Scan, Reply, MatchListFails, NoneJoinable, MatchCreateFails, Call,
     Admitted, Refused, NeverComes, Arrive, Disconnect
<1>7. QED
  BY <1>1, <1>2, <1>3, <1>4, <1>5, <1>6 DEF Next

\* The index changes by one match, which is up.
LEMMA IndexStep ==
  ASSUME [Next]_vars
  PROVE  \/ index' \subseteq index
         \/ \E m \in Matches : lobby[m].life = "up" /\ lobby' = lobby
                               /\ index' = index \cup {m}
<1>1. ASSUME NEW m \in Matches, Close(m) \/ Reindex(m) \/ Decide(m)
      PROVE  \/ index' \subseteq index
             \/ lobby[m].life = "up" /\ lobby' = lobby /\ index' = index \cup {m}
  BY <1>1 DEF Close, Reindex, Decide, Open
<1>2. CASE UNCHANGED vars \/ Advance
  BY <1>2 DEF vars, Advance
<1>3. ASSUME NEW c \in Clients, Begin(c) \/ CallStep(c) \/ ClientStep(c)
      PROVE  index' = index
  BY <1>3 DEF CallStep, ClientStep, Begin, SkipLast, MatchGet, MatchGone, MatchList,
     CheckLast, Scan, Reply, MatchListFails, NoneJoinable, MatchCreate,
     MatchCreateFails, Call, CreateMatch, Admitted, Refused, NeverComes, Arrive,
     MatchJoin, Disconnect, MatchLeave
<1>4. QED BY <1>1, <1>2, <1>3 DEF Next

LEMMA LobbyTypedStep ==
  ASSUME Core, LobbyTyped, [Next]_vars PROVE LobbyTyped'
<1>1. lobby' \in [Matches -> Lobbies]
  BY LobbyStep DEF LobbyTyped
<1>2. index' \subseteq Matches
  BY IndexStep DEF LobbyTyped
<1>3. QED BY <1>1, <1>2 DEF LobbyTyped

LEMMA HistoryTypedStep ==
  ASSUME Core, Core', HistoryTyped, [Next]_vars PROVE HistoryTyped'
<1>1. CASE UNCHANGED vars
  BY <1>1 DEF vars, HistoryTyped
<1>2. CASE Track
  <2>1. \A c \in Clients : stage'[c] = "replying" => dest'[c] \in Matches
    BY StageFacts DEF Core, CallsTyped
  <2>2. fresh' \subseteq fresh \cup
          {dest'[c] : c \in {d \in Clients :
                               stage[d] = "creating" /\ stage'[d] = "replying"}}
    BY <1>2 DEF Track
  <2>3. fresh' \subseteq Matches
    BY <2>1, <2>2 DEF HistoryTyped
  <2>4. spare' \in [Clients -> SUBSET Matches]
    BY <1>2 DEF Track, HistoryTyped
  <2>5. QED BY <2>3, <2>4 DEF HistoryTyped
<1>3. QED
  BY <1>1, <1>2 DEF Next, CallStep, ClientStep, Begin, SkipLast, MatchGet, MatchGone,
     MatchList, CheckLast, Scan, Reply, MatchListFails, NoneJoinable, MatchCreate,
     MatchCreateFails, Call, CreateMatch, Admitted, Refused, NeverComes, Arrive,
     MatchJoin, Disconnect, MatchLeave, Decide, Close, Reindex, Advance

LEMMA TypedInit == Init => Typed
<1> SUFFICES ASSUME Init PROVE Typed
  OBVIOUS
<1>1. SeatsTyped
  BY DEF Init, NoSeats, SeatsTyped, SeatMap
<1>2. LobbyTyped
  BY LobbyTypes DEF Init, LobbyTyped
<1>3. HistoryTyped
  BY DEF Init, HistoryTyped
<1>4. QED BY <1>1, <1>2, <1>3, CoreInit DEF Typed

LEMMA TypedStep == Typed /\ [Next]_vars => Typed'
BY CoreStep, SeatsTypedStep, LobbyTypedStep, HistoryTypedStep DEF Typed

LEMMA TypedAlways == Spec => []Typed
BY TypedInit, TypedStep, PTL DEF Spec

\* Matchmaking keeps its types; whoever holds the mutex is running a call, and
\* a client that is nowhere has no match.
THEOREM FindMatchTyped == Spec => []TypeOK
BY TypedImplies, TypedAlways, PTL
-----------------------------------------------------------------------------
(***************************************************************************)
(* The seats map has no entry without a seat.  Dropping seats keeps it so, *)
(* and so does holding one.                                                *)
(***************************************************************************)
LEMMA NoHollowStep == NoHollowEntry /\ [Next]_vars => NoHollowEntry'
<1> SUFFICES ASSUME NoHollowEntry, [Next]_vars PROVE NoHollowEntry'
  OBVIOUS
<1>1. CASE Drops(seats, seats')
  BY <1>1 DEF Drops, NoHollowEntry
<1>2. ASSUME NEW c \in Clients,
             seats' = HoldSeat(seats, dest[c], UserOf[c], call[c].now + seatTTL)
      PROVE  NoHollowEntry'
  <2>1. PICK new : /\ new = HoldSeat(seats, dest[c], UserOf[c], call[c].now + seatTTL)
                   /\ seats' = new
    BY <1>2
  <2>2. /\ \A k : k \in DOMAIN new <=> k \in DOMAIN seats \/ k = dest[c]
        /\ \A k \in DOMAIN seats \ {dest[c]} : new[k] = seats[k]
        /\ DOMAIN new[dest[c]] = Holders(seats, dest[c]) \cup {UserOf[c]}
    BY <2>1, HoldFacts
  <2>3. \A k \in DOMAIN new : DOMAIN new[k] # {}
    BY <2>2 DEF NoHollowEntry
  <2>4. QED BY <2>1, <2>3 DEF NoHollowEntry
<1>3. QED BY <1>1, <1>2, SeatsStep

\* releaseSeat, pruneLocked and sweepSeats delete a match's entry with its last
\* seat (find_match.go), so no path leaves an entry that only a sweep would find.
THEOREM SeatsNeverHollow == Spec => []NoHollowEntry
<1>1. Init => NoHollowEntry
  BY DEF Init, NoSeats, NoHollowEntry
<1>2. QED BY <1>1, NoHollowStep, PTL DEF Spec
-----------------------------------------------------------------------------
(***************************************************************************)
(* A step as one client sees it: its own, or one that leaves it alone but  *)
(* for a match closing around it.                                          *)
(***************************************************************************)
Own(c) == Begin(c) \/ CallStep(c) \/ ClientStep(c)

LEMMA OwnTurns ==
  ASSUME Core, LobbyTyped, NEW c \in Clients, Own(c)
  PROVE  \E from, to, k, d : Turns(c, from, to, k, d)
<1>1. CASE Begin(c) \/ SkipLast(c) \/ MatchGone(c) \/ Call(c)
  BY <1>1, QueueTurns
<1>2. CASE MatchGet(c)
  BY <1>2, GetTurns
<1>3. CASE CheckLast(c)
  BY <1>3, CheckTurns
<1>4. CASE MatchList(c)
  BY <1>4, ListTurns
<1>5. CASE Scan(c)
  BY <1>5, ScanTurns
<1>6. CASE NoneJoinable(c) \/ MatchListFails(c) \/ MatchCreateFails(c) \/ Reply(c)
  BY <1>6, EndTurns
<1>7. CASE MatchCreate(c) \/ CreateMatch(c)
  BY <1>7, CreateTurns
<1>8. CASE Admitted(c) \/ Refused(c) \/ NeverComes(c) \/ Arrive(c) \/ MatchJoin(c)
           \/ Disconnect(c) \/ MatchLeave(c)
  BY <1>8, VisitTurns
<1>9. QED
  BY <1>1, <1>2, <1>3, <1>4, <1>5, <1>6, <1>7, <1>8 DEF Own, CallStep, ClientStep

LEMMA NotOwn ==
  ASSUME Core, LobbyTyped, [Next]_vars, NEW c \in Clients, ~Own(c)
  PROVE  /\ call'[c] = call[c]
         /\ \/ stage'[c] = stage[c] /\ dest'[c] = dest[c]
            \/ /\ stage[c] \in Within /\ stage'[c] = "idle" /\ dest'[c] = NoMatch
<1>1. ASSUME NEW e \in Clients, Own(e)
      PROVE  call'[c] = call[c] /\ stage'[c] = stage[c] /\ dest'[c] = dest[c]
  <2>1. e # c
    BY <1>1
  <2>2. QED BY <1>1, <2>1, OwnTurns DEF Turns
<1>2. ASSUME NEW m \in Matches, Close(m)
      PROVE  /\ call'[c] = call[c]
             /\ \/ stage'[c] = stage[c] /\ dest'[c] = dest[c]
                \/ /\ stage[c] \in Within /\ stage'[c] = "idle" /\ dest'[c] = NoMatch
  BY <1>2, CloseTurns
<1>3. CASE UNCHANGED vars \/ Advance \/ \E m \in Matches : Decide(m) \/ Reindex(m)
  BY <1>3 DEF vars, Advance, Decide, Reindex
<1>4. QED BY <1>1, <1>2, <1>3 DEF Next, Own

\* Outside naive mode at most one client runs a call.
LEMMA OneRuns ==
  ASSUME LockInv, matchmaking # "naive", NEW c \in Clients, NEW e \in Clients,
         stage[c] \in Running, stage[e] \in Running
  PROVE  c = e
BY DEF LockInv

LEMMA ModeStays == ASSUME [Next]_vars PROVE UNCHANGED matchmaking
BY DEF Next, vars, CallStep, ClientStep, Begin, SkipLast, MatchGet, MatchGone,
   MatchList, CheckLast, Scan, Reply, MatchListFails, NoneJoinable, MatchCreate,
   MatchCreateFails, Call, CreateMatch, Admitted, Refused, NeverComes, Arrive,
   MatchJoin, Disconnect, MatchLeave, Decide, Close, Reindex, Advance, Track

\* Only these three steps change lastCreated.
LEMMA LastStep ==
  ASSUME [Next]_vars
  PROVE  \/ lastCreated' = lastCreated
         \/ \E c \in Clients :
              \/ MatchGone(c) \/ MatchCreate(c)
              \/ CheckLast(c) /\ lastCreated' = NoMatch
BY DEF Next, vars, CallStep, ClientStep, Begin, SkipLast, MatchGet,
   MatchList, CheckLast, Scan, Reply, MatchListFails, NoneJoinable,
   MatchCreateFails, Call, CreateMatch, Admitted, Refused, NeverComes, Arrive,
   MatchJoin, Disconnect, MatchLeave, Decide, Close, Reindex, Advance, GiveBack

\* A call comes to its answer, with a match, along one of three ways.
LEMMA ToReply ==
  ASSUME Core, LobbyTyped, [Next]_vars, NEW c \in Clients,
         stage'[c] = "replying", stage[c] # "replying"
  PROVE  \/ /\ CheckLast(c) /\ dest'[c] = lastCreated /\ call'[c] = call[c]
            /\ HasRoom(lastCreated, call[c].size, call[c].now)
         \/ /\ Scan(c)
            /\ \E hit \in call[c].hits :
                 /\ hit.id \in Matches /\ hit.size \in Nat /\ dest'[c] = hit.id
                 /\ call'[c] = Took(c, hit)
                 /\ seats' = Pruned(hit.id, call[c].now)
                 /\ HasRoom(hit.id, hit.size, call[c].now)
         \/ /\ MatchCreate(c) /\ dest'[c] \in NewIds
            /\ call'[c] = [call[c] EXCEPT !.size = 0]
            /\ lobby' = [lobby EXCEPT ![dest'[c]] = NewLobby]
            /\ Remember(dest'[c])
<1>1. Own(c)
  BY NotOwn
<1>2. CheckLast(c) \/ Scan(c) \/ MatchCreate(c)
  <2>1. /\ ~Begin(c) /\ ~SkipLast(c) /\ ~MatchGone(c) /\ ~Call(c)
    BY QueueTurns DEF Turns
  <2>2. ~MatchGet(c)
    BY GetTurns DEF Turns
  <2>3. ~MatchList(c)
    BY ListTurns DEF Turns
  <2>4. ~NoneJoinable(c) /\ ~MatchListFails(c) /\ ~MatchCreateFails(c) /\ ~Reply(c)
    BY EndTurns DEF Turns
  <2>5. ~CreateMatch(c)
    BY CreateTurns DEF Turns
  <2>6. /\ ~Admitted(c) /\ ~Refused(c) /\ ~NeverComes(c) /\ ~Arrive(c)
        /\ ~MatchJoin(c) /\ ~Disconnect(c) /\ ~MatchLeave(c)
    BY VisitTurns DEF Turns
  <2>7. QED
    BY <1>1, <2>1, <2>2, <2>3, <2>4, <2>5, <2>6 DEF Own, CallStep, ClientStep
<1>3. CASE CheckLast(c)
  <2>1. Go(c, "listing") => stage'[c] = "listing"
    BY DEF Go, Core, CallsTyped
  <2>2. /\ HasRoom(lastCreated, call[c].size, call[c].now)
        /\ dest' = [dest EXCEPT ![c] = lastCreated]
    BY <1>3, <2>1 DEF CheckLast
  <2>3. call'[c] = call[c]
    BY <1>3, CheckTurns DEF Turns
  <2>4. QED BY <1>3, <2>2, <2>3 DEF Core, CallsTyped
<1>4. CASE Scan(c)
  BY <1>4, ScanTurns DEF Turns
<1>5. CASE MatchCreate(c)
  BY <1>5, CreateTurns DEF Turns
<1>6. QED BY <1>2, <1>3, <1>4, <1>5
-----------------------------------------------------------------------------
(***************************************************************************)
(* The seats are a pool: BornInv says that a match not yet created is      *)
(* known nowhere, so that the match a call creates has no seats and nobody *)
(* inside, and PoolInv that a call about to hold a seat in seats mode      *)
(* chose a match that has one left beside the seats held and the players   *)
(* it counted, which nothing takes from it before it answers.              *)
(***************************************************************************)
Unknown(m) ==
  /\ m \notin DOMAIN seats /\ m \notin index /\ m # lastCreated
  /\ \A c \in Clients : dest[c] # m
  /\ \A c \in Clients : \A h \in call[c].hits : h.id # m

BornInv == \A m \in Matches : lobby[m].life = "unborn" => Unknown(m)

PoolInv ==
  \A c \in Clients :
    matchmaking = "seats" /\ stage[c] = "replying"
      => call[c].size + Cardinality(Holders(seats, dest[c])) < maxPlayers

\* Once handed out, an id stays so.
LEMMA StaysBorn ==
  ASSUME Core, LobbyTyped, [Next]_vars, NEW m \in Matches, lobby'[m].life = "unborn"
  PROVE  lobby[m].life = "unborn"
BY LobbyStep DEF LobbyTyped

\* Where the match a client goes to comes from.
LEMMA DestStep ==
  ASSUME Core, LobbyTyped, [Next]_vars, NEW c \in Clients
  PROVE  \/ dest'[c] \in {dest[c], NoMatch, lastCreated}
         \/ \E hit \in call[c].hits : dest'[c] = hit.id
         \/ dest'[c] \in Matches /\ lobby'[dest'[c]].life = "up"
<1>1. CASE ~Own(c)
  BY <1>1, NotOwn
<1>2. CASE Begin(c) \/ SkipLast(c) \/ MatchGone(c) \/ Call(c)
  BY <1>2, QueueTurns DEF Turns
<1>3. CASE MatchGet(c)
  BY <1>3, GetTurns DEF Turns
<1>4. CASE CheckLast(c)
  BY <1>4, CheckTurns DEF Turns
<1>5. CASE MatchList(c)
  BY <1>5, ListTurns DEF Turns
<1>6. CASE Scan(c)
  BY <1>6, ScanTurns DEF Turns
<1>7. CASE NoneJoinable(c) \/ MatchListFails(c) \/ MatchCreateFails(c) \/ Reply(c)
  BY <1>7, EndTurns DEF Turns
<1>8. CASE MatchCreate(c) \/ CreateMatch(c)
  <2>1. PICK m \in NewIds : lobby' = [lobby EXCEPT ![m] = NewLobby] /\ dest'[c] = m
    BY <1>8, CreateTurns DEF Turns
  <2>2. m \in Matches /\ lobby'[m].life = "up"
    BY <2>1, LobbyTypes DEF NewIds, LobbyTyped
  <2>3. QED BY <2>1, <2>2
<1>9. CASE Admitted(c) \/ Refused(c) \/ NeverComes(c) \/ Arrive(c) \/ MatchJoin(c)
           \/ Disconnect(c) \/ MatchLeave(c)
  BY <1>9, VisitTurns DEF Turns
<1>10. QED
  BY <1>1, <1>2, <1>3, <1>4, <1>5, <1>6, <1>7, <1>8, <1>9 DEF Own, CallStep, ClientStep

\* Where the hits of a listing come from.
LEMMA HitsStep ==
  ASSUME Core, LobbyTyped, [Next]_vars, NEW c \in Clients, NEW h \in call'[c].hits
  PROVE  h \in call[c].hits \/ h.id \in index
<1>1. CASE ~Own(c)
  BY <1>1, NotOwn
<1>2. CASE SkipLast(c) \/ MatchGone(c) \/ Call(c)
  BY <1>2, QueueTurns DEF Turns
<1>3. CASE Begin(c)
  <2>1. call'[c] = [NoCall EXCEPT !.now = clock]
    BY <1>3, QueueTurns DEF Turns
  <2>2. QED BY <2>1 DEF NoCall
<1>4. CASE MatchGet(c)
  <2>1. call'[c] = [call[c] EXCEPT !.size = Size(lastCreated),
                                   !.open = lobby[lastCreated].open]
    BY <1>4, GetTurns DEF Turns
  <2>2. call[c] \in CallRecords
    BY Kept DEF Core
  <2>3. call'[c].hits = call[c].hits
    BY <2>1, <2>2 DEF CallRecords
  <2>4. QED BY <2>3
<1>5. CASE CheckLast(c)
  BY <1>5, CheckTurns DEF Turns
<1>6. CASE MatchList(c)
  <2>1. PICK hits \in SUBSET Listable :
          call'[c] = [call[c] EXCEPT !.hits =
                        {[id |-> m, size |-> Size(m)] : m \in hits}]
    BY <1>6, ListTurns DEF Turns
  <2>2. call[c] \in CallRecords
    BY Kept DEF Core
  <2>3. call'[c].hits = {[id |-> m, size |-> Size(m)] : m \in hits}
    BY <2>1, <2>2 DEF CallRecords
  <2>4. h.id \in hits
    BY <2>3
  <2>5. QED BY <2>4 DEF Listable
<1>7. CASE Scan(c)
  <2>1. PICK hit \in call[c].hits : call'[c] = Took(c, hit)
    BY <1>7, ScanTurns DEF Turns
  <2>2. QED BY <2>1, TookFacts DEF Core
<1>8. CASE NoneJoinable(c)
  BY <1>8, EndTurns DEF Turns
<1>9. CASE MatchListFails(c) \/ MatchCreateFails(c) \/ Reply(c)
  BY <1>9, EndTurns, NoCallType DEF Turns
<1>10. CASE CreateMatch(c)
  BY <1>10, CreateTurns DEF Turns
<1>13. CASE MatchCreate(c)
  <2>1. call'[c] = [call[c] EXCEPT !.size = 0]
    BY <1>13, CreateTurns DEF Turns
  <2>2. call[c] \in CallRecords
    BY Kept DEF Core
  <2>3. call'[c].hits = call[c].hits
    BY <2>1, <2>2 DEF CallRecords
  <2>4. QED BY <2>3
<1>11. CASE Admitted(c) \/ Refused(c) \/ NeverComes(c) \/ Arrive(c) \/ MatchJoin(c)
            \/ Disconnect(c) \/ MatchLeave(c)
  BY <1>11, VisitTurns DEF Turns
<1>12. QED
  BY <1>1, <1>2, <1>3, <1>4, <1>5, <1>6, <1>7, <1>8, <1>9, <1>10, <1>11, <1>13
  DEF Own, CallStep, ClientStep

LEMMA BornStep ==
  ASSUME Core, LobbyTyped, BornInv, [Next]_vars PROVE BornInv'
<1> SUFFICES ASSUME NEW m \in Matches, lobby'[m].life = "unborn"
             PROVE  Unknown(m)'
  BY DEF BornInv
<1>1. lobby[m].life = "unborn"
  BY StaysBorn
<1>2. Unknown(m)
  BY <1>1 DEF BornInv
<1>3. m # NoMatch
  BY Ids
<1>4. m \notin DOMAIN seats'
  <2>1. CASE Drops(seats, seats')
    BY <1>2, <2>1 DEF Drops, Unknown
  <2>2. ASSUME NEW c \in Clients,
               seats' = HoldSeat(seats, dest[c], UserOf[c], call[c].now + seatTTL)
        PROVE  m \notin DOMAIN seats'
    <3>1. PICK new : /\ new = HoldSeat(seats, dest[c], UserOf[c], call[c].now + seatTTL)
                     /\ seats' = new
      BY <2>2
    <3>2. m \notin DOMAIN new
      BY <1>2, <3>1, HoldFacts DEF Unknown
    <3>3. QED BY <3>1, <3>2
  <2>3. QED BY <2>1, <2>2, SeatsStep
<1>5. m \notin index'
  BY <1>1, <1>2, IndexStep DEF Unknown
<1>6. m # lastCreated'
  <2>1. ASSUME NEW c \in Clients, MatchCreate(c) PROVE m # lastCreated'
    <3>1. PICK k \in NewIds : lobby' = [lobby EXCEPT ![k] = NewLobby] /\ Remember(k)
      BY <2>1 DEF MatchCreate
    <3>2. k # m
      BY <3>1, LobbyTypes DEF LobbyTyped
    <3>3. QED BY <1>2, <3>1, <3>2 DEF Remember, Unknown
  <2>2. ASSUME NEW c \in Clients, MatchGone(c) PROVE m # lastCreated'
    BY <1>3, <2>2 DEF MatchGone
  <2>3. QED BY <1>2, <1>3, <2>1, <2>2, LastStep DEF Unknown
<1>7. ASSUME NEW c \in Clients PROVE dest'[c] # m
  <2>1. \A h \in call[c].hits : h.id # m
    BY <1>2 DEF Unknown
  <2>2. dest[c] # m /\ lastCreated # m
    BY <1>2 DEF Unknown
  <2>3. dest'[c] = m => lobby'[dest'[c]].life # "up"
    OBVIOUS
  <2>4. QED BY <1>3, <2>1, <2>2, <2>3, DestStep
<1>8. ASSUME NEW c \in Clients, NEW h \in call'[c].hits PROVE h.id # m
  BY <1>2, HitsStep DEF Unknown
<1>9. QED BY <1>4, <1>5, <1>6, <1>7, <1>8 DEF Unknown

\* The numbers of seats are numbers, and fall when seats are dropped.
LEMMA HoldersFinite ==
  ASSUME NEW held, SeatMap(held), NEW m, NEW S, S \subseteq Holders(held, m)
  PROVE  /\ IsFiniteSet(S) /\ Cardinality(S) \in Nat
         /\ S \subseteq Users
         /\ \A T \in SUBSET S : Cardinality(T) \in Nat /\ Cardinality(T) <= Cardinality(S)
<1>1. Holders(held, m) \subseteq Users
  BY HolderFacts DEF SeatMap, Holders
<1>2. S \in SUBSET Users
  BY <1>1
<1>3. IsFiniteSet(S)
  BY <1>2, Ids, FS_Subset
<1>4. ASSUME NEW T \in SUBSET S
      PROVE  Cardinality(T) \in Nat /\ Cardinality(T) <= Cardinality(S)
  BY <1>3, FS_Subset, FS_CardinalityType
<1>5. QED BY <1>2, <1>3, <1>4, FS_CardinalityType

LEMMA LiveFinite ==
  ASSUME NEW held, SeatMap(held), NEW m, NEW now
  PROVE  LiveSeats(held, m, now) \in Nat
BY UnexpiredHold, HoldersFinite DEF LiveSeats

LEMMA PoolStep ==
  ASSUME Typed, BornInv, PoolInv, [Next]_vars PROVE PoolInv'
<1> SUFFICES ASSUME NEW c \in Clients, matchmaking' = "seats", stage'[c] = "replying"
             PROVE  call'[c].size + Cardinality(Holders(seats', dest'[c])) < maxPlayers
  BY DEF PoolInv
<1> USE Numbers DEF Typed
<1>1. matchmaking = "seats" /\ call[c] \in CallRecords
  BY ModeStays, Kept DEF Core
<1>2. CASE stage[c] = "replying"
  <2>1. ASSUME Own(c) PROVE FALSE
    <3>1. PICK from, to, k, d : Turns(c, from, to, k, d)
      BY <2>1, OwnTurns
    <3>2. Reply(c)
      BY <1>2, <2>1 DEF Own, CallStep, ClientStep, Begin, SkipLast, MatchGet, MatchGone,
         MatchList, CheckLast, Scan, MatchListFails, NoneJoinable, MatchCreate, Trying,
         MatchCreateFails, Call, CreateMatch, Admitted, Refused, NeverComes, Arrive,
         MatchJoin, Disconnect, MatchLeave
    <3>3. QED BY <3>2, EndTurns DEF Turns
  <2>2. dest'[c] = dest[c] /\ call'[c] = call[c] /\ call[c].size \in Nat
    BY <1>1, <1>2, <2>1, NotOwn, StageFacts DEF CallRecords
  <2>3. Drops(seats, seats')
    <3>1. ASSUME NEW e \in Clients, Reply(e) PROVE FALSE
      <4>1. e = c
        BY <1>1, <1>2, <3>1, OneRuns, StageFacts DEF Reply, Core
      <4>2. QED BY <2>1, <3>1, <4>1 DEF Own, CallStep
    <3>2. QED BY <3>1, SeatsStep
  <2>4. Holders(seats', dest[c]) \in SUBSET Holders(seats, dest[c])
    BY <2>3, DropsHolders
  <2>5. /\ Cardinality(Holders(seats', dest[c])) \in Nat
        /\ Cardinality(Holders(seats, dest[c])) \in Nat
        /\ Cardinality(Holders(seats', dest[c])) <= Cardinality(Holders(seats, dest[c]))
    BY <2>4, HoldersFinite DEF SeatsTyped
  <2>6. call[c].size + Cardinality(Holders(seats, dest[c])) < maxPlayers
    BY <1>1, <1>2 DEF PoolInv
  <2>7. QED BY <2>2, <2>5, <2>6
<1>3. ASSUME NEW m, NEW size \in Nat, dest'[c] = m, call'[c].size = size,
             seats' = Pruned(m, call[c].now), HasRoom(m, size, call[c].now)
      PROVE  call'[c].size + Cardinality(Holders(seats', dest'[c])) < maxPlayers
  <2>1. size + LiveSeats(seats, m, call[c].now) < maxPlayers
    BY <1>1, <1>3 DEF HasRoom
  <2>2. Holders(seats', m) = Unexpired(seats, m, call[c].now)
    BY <1>1, <1>3, PrunedDrops
  <2>3. QED BY <1>3, <2>1, <2>2 DEF LiveSeats
<1>4. CASE stage[c] # "replying"
  <2>1. CASE CheckLast(c) /\ dest'[c] = lastCreated
             /\ HasRoom(lastCreated, call[c].size, call[c].now) /\ call'[c] = call[c]
    <3>1. seats' = Pruned(lastCreated, call[c].now)
      BY <2>1 DEF CheckLast
    <3>2. call[c].size \in Nat
      BY <1>1 DEF CallRecords
    <3>3. QED BY <1>3, <2>1, <3>1, <3>2
  <2>2. ASSUME NEW hit \in call[c].hits, hit.size \in Nat, dest'[c] = hit.id,
               call'[c] = Took(c, hit),
               seats' = Pruned(hit.id, call[c].now),
               HasRoom(hit.id, hit.size, call[c].now)
        PROVE  call'[c].size + Cardinality(Holders(seats', dest'[c])) < maxPlayers
    <3>1. call'[c].size = hit.size
      BY <2>2, TookFacts DEF Core
    <3>2. QED BY <1>3, <2>2, <3>1
  <2>3. CASE MatchCreate(c) /\ dest'[c] \in NewIds
             /\ call'[c] = [call[c] EXCEPT !.size = 0]
    <3>1. dest'[c] \notin DOMAIN seats /\ seats' = seats
      BY <2>3 DEF BornInv, NewIds, Unknown, MatchCreate
    <3>2. Holders(seats', dest'[c]) = {}
      BY <3>1, HolderFacts
    <3>3. call'[c].size = 0
      BY <1>1, <2>3 DEF CallRecords
    <3>4. QED BY <3>2, <3>3, FS_EmptySet
  <2>4. QED BY <1>4, <2>1, <2>2, <2>3, ToReply
<1>5. QED BY <1>2, <1>4

SeatInv == Typed /\ BornInv /\ PoolInv

LEMMA SeatInvAlways == Spec => []SeatInv
<1>1. Init => SeatInv
  <2> SUFFICES ASSUME Init PROVE SeatInv
    OBVIOUS
  <2>1. BornInv
    BY NoCallType, Ids DEF Init, BornInv, Unknown, NoSeats
  <2>2. PoolInv
    BY DEF Init, PoolInv
  <2>3. QED BY <2>1, <2>2, TypedInit DEF SeatInv
<1>2. SeatInv /\ [Next]_vars => SeatInv'
  BY TypedStep, BornStep, PoolStep DEF SeatInv, Typed
<1>3. QED BY <1>1, <1>2, PTL DEF Spec
-----------------------------------------------------------------------------
(***************************************************************************)
(* Seats mode implements the seat pool, seen through PoolView, InsideView  *)
(* and Counted: reading sizes is a count, coming and going a visit, taking *)
(* seats away a lapse, and holding one a promise, or nothing but a lapse   *)
(* when its user already has one there.                                    *)
(***************************************************************************)
PoolView == [m \in Matches |-> DOMAIN SeatsOf(seats, m)]

InsideView == [m \in Matches |-> Size(m)]

PoolVars == <<PoolView, InsideView, Counted>>

\* The size x is one that c's call has read.
Counts(c, x) ==
  \/ stage[c] = "checking" /\ x = <<lastCreated, call[c].size>>
  \/ stage[c] = "replying" /\ x = <<dest[c], call[c].size>>
  \/ stage[c] = "scanning" /\ \E h \in call[c].hits : x = <<h.id, h.size>>

LEMMA CountedDef ==
  /\ \A x : x \in Counted <=> \E c \in Clients : Counts(c, x)
  /\ \A x : x \in Counted' <=> \E c \in Clients : Counts(c, x)'
BY DEF Counted, Counts

LEMMA PoolCardinality == \A S : Pool!Cardinality(S) = Cardinality(S)
BY DEF Pool!Cardinality, Cardinality

LEMMA PoolViewType ==
  ASSUME SeatsTyped
  PROVE  /\ PoolView \in [Matches -> SUBSET Users]
         /\ \A m \in Matches : PoolView[m] = Holders(seats, m)
<1>1. \A m \in Matches : Holders(seats, m) \subseteq Users
  BY HoldersFinite DEF SeatsTyped
<1>2. QED BY <1>1 DEF PoolView, Holders

\* lastCreated stays what it is while a call checks it.
LEMMA LastKept ==
  ASSUME Core, [Next]_vars, NEW c \in Clients,
         stage[c] = "checking", stage'[c] = "checking"
  PROVE  lastCreated' = lastCreated
<1>1. matchmaking # "naive" /\ stage[c] \in Running
  BY StageFacts DEF Core, LockInv
<1>2. ASSUME NEW e \in Clients, MatchGone(e) \/ MatchCreate(e) \/ CheckLast(e)
      PROVE  FALSE
  <2>1. stage[e] \in Running
    BY <1>2, StageFacts DEF MatchGone, Trying, MatchCreate, CheckLast
  <2>2. e = c
    BY <1>1, <2>1, OneRuns DEF Core
  <2>3. ~CheckLast(c)
    BY CheckTurns DEF Turns
  <2>4. QED BY <1>2, <2>2, <2>3 DEF MatchGone, Trying, MatchCreate
<1>3. QED BY <1>2, LastStep

\* A client whose state stays counts what it counted.
LEMMA SameCounts ==
  ASSUME Core, [Next]_vars, NEW c \in Clients,
         stage'[c] = stage[c], call'[c] = call[c], dest'[c] = dest[c]
  PROVE  \A x : Counts(c, x)' <=> Counts(c, x)
<1>1. stage[c] = "checking" => lastCreated' = lastCreated
  BY LastKept
<1>2. QED BY <1>1 DEF Counts

LEMMA OthersStay ==
  ASSUME Core, LobbyTyped, NEW c \in Clients, Own(c), NEW e \in Clients \ {c}
  PROVE  stage'[e] = stage[e] /\ call'[e] = call[e] /\ dest'[e] = dest[e]
BY OwnTurns DEF Turns

\* The three steps that read sizes read them as they are.
LEMMA NewCounts ==
  ASSUME Typed, BornInv, NEW c \in Clients, NEW x, Counts(c, x)',
         MatchGet(c) \/ MatchList(c) \/ MatchCreate(c)
  PROVE  \E m \in Matches : x = <<m, Size(m)>>
<1> USE DEF Typed
<1>1. call[c] \in CallRecords
  BY Kept DEF Core
<1>2. CASE MatchGet(c)
  <2>1. /\ stage'[c] = "checking" /\ lastCreated' = lastCreated
        /\ call'[c] = [call[c] EXCEPT !.size = Size(lastCreated),
                                      !.open = lobby[lastCreated].open]
    BY <1>2, GetTurns DEF Turns, MatchGet
  <2>2. call'[c].size = Size(lastCreated)
    BY <1>1, <2>1 DEF CallRecords
  <2>3. lastCreated \in Matches
    BY <1>2 DEF MatchGet, Trying, Core, ControlTyped
  <2>4. QED BY <1>2, <2>1, <2>2, <2>3 DEF Counts
<1>3. CASE MatchList(c)
  <2>1. PICK hits \in SUBSET Listable :
          /\ stage'[c] = "scanning"
          /\ call'[c] = [call[c] EXCEPT !.hits =
                           {[id |-> m, size |-> Size(m)] : m \in hits}]
    BY <1>3, ListTurns DEF Turns
  <2>2. call'[c].hits = {[id |-> m, size |-> Size(m)] : m \in hits}
    BY <1>1, <2>1 DEF CallRecords
  <2>3. PICK h \in call'[c].hits : x = <<h.id, h.size>>
    BY <1>3, <2>1 DEF Counts
  <2>4. PICK m \in hits : h = [id |-> m, size |-> Size(m)]
    BY <2>2
  <2>5. m \in Matches
    BY DEF Listable, LobbyTyped
  <2>6. QED BY <2>3, <2>4, <2>5
<1>4. CASE MatchCreate(c)
  <2>1. PICK m \in NewIds : /\ stage'[c] = "replying" /\ dest'[c] = m
                            /\ call'[c] = [call[c] EXCEPT !.size = 0]
    BY <1>4, CreateTurns DEF Turns
  <2>2. call'[c].size = 0
    BY <1>1, <2>1 DEF CallRecords
  <2>3. m \in Matches /\ \A e \in Clients : dest[e] # m
    BY DEF NewIds, BornInv, Unknown
  <2>4. Size(m) = 0
    <3> DEFINE S == {e \in Clients : stage[e] \in Inside /\ dest[e] = m}
    <3>1. S = {}
      BY <2>3
    <3>2. QED BY <3>1, FS_EmptySet DEF Size
  <2>5. QED BY <2>1, <2>2, <2>3, <2>4 DEF Counts
<1>5. QED BY <1>2, <1>3, <1>4

\* Every other step of a call keeps sizes already read, if any.
LEMMA OldCounts ==
  ASSUME Core, LobbyTyped, NEW c \in Clients, Own(c), NEW x, Counts(c, x)',
         ~MatchGet(c), ~MatchList(c), ~MatchCreate(c)
  PROVE  Counts(c, x)
<1>1. stage'[c] \in {"checking", "replying", "scanning"}
  BY DEF Counts
<1>2. /\ ~Begin(c) /\ ~SkipLast(c) /\ ~MatchGone(c) /\ ~Call(c)
  BY <1>1, QueueTurns DEF Turns
<1>3. ~NoneJoinable(c) /\ ~MatchListFails(c) /\ ~MatchCreateFails(c) /\ ~Reply(c)
  BY <1>1, EndTurns DEF Turns
<1>4. ~CreateMatch(c)
  BY <1>1, CreateTurns DEF Turns
<1>5. /\ ~Admitted(c) /\ ~Refused(c) /\ ~NeverComes(c) /\ ~Arrive(c)
      /\ ~MatchJoin(c) /\ ~Disconnect(c) /\ ~MatchLeave(c)
  BY <1>1, VisitTurns DEF Turns
<1>6. CASE CheckLast(c)
  <2>1. stage[c] = "checking" /\ stage'[c] = "replying"
        /\ call'[c] = call[c] /\ dest'[c] = lastCreated
    BY <1>1, <1>6, CheckTurns DEF Turns
  <2>2. QED BY <2>1 DEF Counts
<1>7. CASE Scan(c)
  <2>1. PICK hit \in call[c].hits :
          /\ stage[c] = "scanning" /\ call'[c] = Took(c, hit)
          /\ stage'[c] = "replying" => dest'[c] = hit.id
          /\ stage'[c] \in {"replying", "scanning"}
    BY <1>7, ScanTurns DEF Turns
  <2>2. call'[c].size = hit.size /\ call'[c].hits = call[c].hits \ {hit}
    BY <2>1, TookFacts DEF Core
  <2>3. QED BY <2>1, <2>2 DEF Counts
<1>8. QED
  BY <1>2, <1>3, <1>4, <1>5, <1>6, <1>7 DEF Own, CallStep, ClientStep

\* Only arriving, losing the session and closing change who is inside.
LEMMA InsideStays ==
  ASSUME Core, LobbyTyped, NEW c \in Clients, Own(c), ~Arrive(c), ~Disconnect(c)
  PROVE  InsideView' = InsideView
<1>1. \/ stage[c] \in Inside /\ stage'[c] \in Inside /\ dest'[c] = dest[c]
      \/ stage[c] \notin Inside /\ stage'[c] \notin Inside
  <2> USE DEF Inside
  <2>1. CASE Begin(c) \/ SkipLast(c) \/ MatchGone(c) \/ Call(c)
    BY <2>1, QueueTurns DEF Turns
  <2>2. CASE MatchGet(c)
    BY <2>2, GetTurns DEF Turns
  <2>3. CASE CheckLast(c)
    BY <2>3, CheckTurns DEF Turns
  <2>4. CASE MatchList(c)
    BY <2>4, ListTurns DEF Turns
  <2>5. CASE Scan(c)
    BY <2>5, ScanTurns DEF Turns
  <2>6. CASE NoneJoinable(c) \/ MatchListFails(c) \/ MatchCreateFails(c) \/ Reply(c)
    BY <2>6, EndTurns DEF Turns
  <2>7. CASE MatchCreate(c) \/ CreateMatch(c)
    BY <2>7, CreateTurns DEF Turns
  <2>8. CASE Admitted(c) \/ Refused(c) \/ NeverComes(c) \/ MatchJoin(c) \/ MatchLeave(c)
    BY <2>8, VisitTurns DEF Turns
  <2>9. QED
    BY <2>1, <2>2, <2>3, <2>4, <2>5, <2>6, <2>7, <2>8 DEF Own, CallStep, ClientStep
<1>2. \A e \in Clients \ {c} : stage'[e] = stage[e] /\ dest'[e] = dest[e]
  BY OthersStay
<1>3. \A m \in Matches : {e \in Clients : stage'[e] \in Inside /\ dest'[e] = m}
                           = {e \in Clients : stage[e] \in Inside /\ dest[e] = m}
  BY <1>1, <1>2
<1>4. QED BY <1>3 DEF InsideView, Size

LEMMA InsideType == InsideView' \in [Matches -> Nat]
<1>1. ASSUME NEW m \in Matches PROVE Size(m)' \in Nat
  <2> DEFINE S == {c \in Clients : stage'[c] \in Inside /\ dest'[c] = m}
  <2>1. IsFiniteSet(S)
    BY Ids, FS_Subset
  <2>2. Cardinality(S) \in Nat
    BY <2>1, FS_CardinalityType
  <2>3. QED BY <2>2 DEF Size
<1>2. QED BY <1>1 DEF InsideView

LEMMA VisitStep ==
  ASSUME seats' = seats, Counted' = Counted
  PROVE  Pool!Next
<1>1. Pool!Visit
  BY InsideType DEF Pool!Visit, PoolView, InsideView
<1>2. QED BY <1>1 DEF Pool!Next

LEMMA CountStep ==
  ASSUME seats' = seats, InsideView' = InsideView,
         \A x \in Counted' : x \in Counted \/ \E m \in Matches : x = <<m, Size(m)>>
  PROVE  Pool!Next
<1>1. Counted' \subseteq Counted \cup {<<m, InsideView[m]>> : m \in Matches}
  BY DEF InsideView
<1>2. PoolView' = PoolView
  BY DEF PoolView
<1>3. Pool!Count
  BY <1>1, <1>2 DEF Pool!Count, PoolView, InsideView
<1>4. QED BY <1>3 DEF Pool!Next

LEMMA LapseStep ==
  ASSUME SeatsTyped, Drops(seats, seats'), InsideView' = InsideView,
         Counted' \subseteq Counted
  PROVE  Pool!Next
<1>1. PoolView' \in [Matches -> SUBSET Users]
  <2>1. \A m \in Matches : Holders(seats', m) \subseteq Holders(seats, m)
    BY DropsHolders
  <2>2. \A m \in Matches : Holders(seats, m) \subseteq Users
    BY HoldersFinite DEF SeatsTyped
  <2>3. PoolView' = [m \in Matches |-> Holders(seats', m)]
    BY DEF PoolView, Holders
  <2>4. QED BY <2>1, <2>2, <2>3
<1>2. \A m \in Matches : PoolView'[m] \subseteq PoolView[m]
  BY DropsHolders DEF PoolView, Holders
<1>3. Pool!Lapse
  BY <1>1, <1>2 DEF Pool!Lapse, PoolView, InsideView
<1>4. QED BY <1>3 DEF Pool!Next

LEMMA PromiseStep ==
  ASSUME Typed, PoolInv, NEW c \in Clients, Reply(c), matchmaking = "seats",
         seats' = HoldSeat(seats, dest[c], UserOf[c], call[c].now + seatTTL)
  PROVE  Pool!Next
<1> USE DEF Typed
<1>1. dest[c] \in Matches /\ UserOf[c] \in Users /\ stage[c] = "replying"
  BY Ids, StageFacts DEF Reply, Core, CallsTyped
<1>2. call[c].size + Cardinality(PoolView[dest[c]]) < maxPlayers
  <2>1. call[c].size + Cardinality(Holders(seats, dest[c])) < maxPlayers
    BY <1>1 DEF PoolInv
  <2>2. QED BY <1>1, <2>1, PoolViewType
<1>3. PICK new : /\ new = HoldSeat(seats, dest[c], UserOf[c], call[c].now + seatTTL)
                 /\ seats' = new
  OBVIOUS
<1>4. /\ Holders(new, dest[c]) = Holders(seats, dest[c]) \cup {UserOf[c]}
      /\ \A k : k # dest[c] => Holders(new, k) = Holders(seats, k)
  BY <1>3, HoldFacts
<1>5. PoolView' = [PoolView EXCEPT ![dest[c]] = PoolView[dest[c]] \cup {UserOf[c]}]
  <2>1. PoolView' = [m \in Matches |-> Holders(new, m)]
    BY <1>3 DEF PoolView, Holders
  <2>2. PoolView = [m \in Matches |-> Holders(seats, m)]
    BY DEF PoolView, Holders
  <2>3. QED BY <1>1, <1>4, <2>1, <2>2
<1>6. Own(c) /\ ~Arrive(c) /\ ~Disconnect(c)
  BY <1>1 DEF Own, CallStep, Arrive, Disconnect
<1>7. InsideView' = InsideView
  BY <1>6, InsideStays
<1>8. Counted' = {}
  <2>1. ASSUME NEW e \in Clients, NEW x, Counts(e, x)' PROVE FALSE
    <3>1. stage'[e] \in Running
      BY <2>1, StageFacts DEF Counts
    <3>2. e # c
      BY <3>1, EndTurns, StageFacts DEF Turns
    <3>3. stage[e] \in Running
      BY <1>6, <3>1, <3>2, OthersStay
    <3>4. QED BY <1>1, <3>2, <3>3, OneRuns, StageFacts DEF Core
  <2>2. QED BY <2>1, CountedDef
<1>9. CASE UserOf[c] \in PoolView[dest[c]]
  <2>1. PoolView' = PoolView
    BY <1>5, <1>9 DEF PoolView
  <2>2. PoolView' \in [Matches -> SUBSET Users]
    BY <2>1, PoolViewType
  <2>3. Pool!Lapse
    BY <1>7, <1>8, <2>1, <2>2 DEF Pool!Lapse, PoolView, InsideView
  <2>4. QED BY <2>3 DEF Pool!Next
<1>10. CASE UserOf[c] \notin PoolView[dest[c]]
  <2> DEFINE count == <<dest[c], call[c].size>>
  <2>1. count \in Counted
    BY <1>1, CountedDef DEF Counts
  <2>2. count[1] = dest[c]
        /\ count[2] + Pool!Cardinality(PoolView[dest[c]]) < maxPlayers
    BY <1>2, PoolCardinality
  <2> HIDE DEF count
  <2>3. Pool!Promise(dest[c], UserOf[c])
    BY <1>5, <1>7, <1>8, <1>10, <2>1, <2>2 DEF Pool!Promise, PoolView, InsideView
  <2>4. QED BY <1>1, <2>3 DEF Pool!Next
<1>11. QED BY <1>9, <1>10

\* A step of one client.
LEMMA PoolOwnStep ==
  ASSUME SeatInv, [Next]_vars, NEW c \in Clients, Own(c) PROVE Pool!Next
<1> USE DEF SeatInv, Typed
<1>1. \A e \in Clients \ {c} : \A x : Counts(e, x)' <=> Counts(e, x)
  BY OthersStay, SameCounts
<1>2. CASE Arrive(c) \/ Disconnect(c)
  <2>1. \A x : ~Counts(c, x) /\ ~Counts(c, x)'
    <3>1. /\ stage[c] \in {"admitted", "joined"} /\ stage'[c] \in {"arrived", "leaving"}
      BY <1>2, VisitTurns DEF Turns
    <3>2. QED BY <3>1 DEF Counts
  <2>2. Counted' = Counted
    BY <1>1, <2>1, CountedDef
  <2>3. seats' = seats
    BY <1>2 DEF Arrive, Disconnect
  <2>4. QED BY <2>2, <2>3, VisitStep
<1>3. CASE MatchGet(c) \/ MatchList(c) \/ MatchCreate(c)
  <2>1. ASSUME NEW x \in Counted'
        PROVE  x \in Counted \/ \E m \in Matches : x = <<m, Size(m)>>
    <3>1. PICK e \in Clients : Counts(e, x)'
      BY <2>1, CountedDef
    <3>2. CASE e = c
      BY <1>3, <3>1, <3>2, NewCounts
    <3>3. CASE e # c
      BY <1>1, <3>1, <3>3, CountedDef
    <3>4. QED BY <3>2, <3>3
  <2>2. seats' = seats /\ ~Arrive(c) /\ ~Disconnect(c)
    BY <1>3 DEF MatchGet, MatchList, MatchCreate, Trying, Arrive, Disconnect
  <2>3. InsideView' = InsideView
    BY <2>2, InsideStays
  <2>4. QED BY <2>1, <2>2, <2>3, CountStep
<1>4. CASE /\ ~Arrive(c) /\ ~Disconnect(c)
           /\ ~MatchGet(c) /\ ~MatchList(c) /\ ~MatchCreate(c)
           /\ Drops(seats, seats')
  <2>1. InsideView' = InsideView
    BY <1>4, InsideStays
  <2>2. ASSUME NEW x \in Counted' PROVE x \in Counted
    <3>1. PICK e \in Clients : Counts(e, x)'
      BY <2>2, CountedDef
    <3>2. Counts(e, x)
      BY <1>1, <1>4, <3>1, OldCounts
    <3>3. QED BY <3>2, CountedDef
  <2>3. Counted' \subseteq Counted
    BY <2>2
  <2>4. QED BY <1>4, <2>1, <2>3, LapseStep
<1>5. CASE ~Drops(seats, seats')
  BY <1>5, SeatsStep, PromiseStep
<1>6. QED BY <1>2, <1>3, <1>4, <1>5

\* hasRoom counts the players inside and the seats of everyone else before
\* holdSeat is called, a match just created has neither, and matchmakingMu is
\* kept from the count to the seat (find_match.go): seats promised and players
\* counted are never more than a match has.
THEOREM SeatsImplementPool == Spec => ImplementsSeatPool
<1>1. Init => Pool!Init
  <2> SUFFICES ASSUME Init PROVE Pool!Init
    OBVIOUS
  <2>1. \A m \in Matches : DOMAIN SeatsOf(seats, m) = {}
    BY DEF Init, SeatsOf, NoSeats
  <2>2. \A m \in Matches : Size(m) = 0
    <3> SUFFICES ASSUME NEW m \in Matches PROVE Size(m) = 0
      OBVIOUS
    <3> DEFINE S == {c \in Clients : stage[c] \in Inside /\ dest[c] = m}
    <3>1. S = {}
      BY DEF Init, Inside
    <3>2. QED BY <3>1, FS_EmptySet DEF Size
  <2>3. Counted = {}
    BY CountedDef DEF Init, Counts
  <2>4. QED BY <2>1, <2>2, <2>3 DEF Pool!Init
<1>2. SeatInv /\ [Next]_vars => [Pool!Next]_PoolVars
  <2> SUFFICES ASSUME SeatInv, [Next]_vars PROVE [Pool!Next]_PoolVars
    OBVIOUS
  <2> USE DEF SeatInv, Typed
  <2>1. ASSUME NEW c \in Clients, Own(c) PROVE Pool!Next
    BY <2>1, PoolOwnStep
  <2>2. ASSUME NEW m \in Matches, Close(m) PROVE Pool!Next
    <3>1. \A c \in Clients : \A x : Counts(c, x)' <=> Counts(c, x)
      <4> SUFFICES ASSUME NEW c \in Clients PROVE \A x : Counts(c, x)' <=> Counts(c, x)
        OBVIOUS
      <4>1. CASE stage'[c] = stage[c] /\ dest'[c] = dest[c]
        BY <2>2, <4>1, CloseTurns, SameCounts
      <4>2. CASE stage[c] \in Within /\ stage'[c] = "idle"
        BY <4>2, StageFacts DEF Counts
      <4>3. QED BY <2>2, <4>1, <4>2, CloseTurns
    <3>2. Counted' = Counted
      BY <3>1, CountedDef
    <3>3. seats' = seats
      BY <2>2 DEF Close
    <3>4. QED BY <3>2, <3>3, VisitStep
  <2>3. CASE UNCHANGED vars \/ Advance \/ \E m \in Matches : Decide(m) \/ Reindex(m)
    <3>1. UNCHANGED <<seats, stage, dest, call, lastCreated>>
      BY <2>3 DEF vars, Advance, Decide, Reindex
    <3>2. UNCHANGED PoolVars
      BY <3>1 DEF PoolVars, PoolView, InsideView, Size, Counted
    <3>3. QED BY <3>2
  <2>4. QED BY <2>1, <2>2, <2>3 DEF Next, Own
<1>3. QED
  BY <1>1, <1>2, SeatInvAlways, PTL
  DEF Spec, ImplementsSeatPool, Pool!Spec, Pool!vars, PoolVars, PoolView, InsideView
-----------------------------------------------------------------------------
(***************************************************************************)
(* The map is swept.  In seats mode a running call counts from the time of *)
(* the last sweep, its own, so that the seat it holds outlives that time:  *)
(* no entry lapses as of the last sweep but those it was too early to drop.*)
(***************************************************************************)
Lapsed(held, t) == {m \in DOMAIN held : \E u \in DOMAIN held[m] : held[m][u] <= t}

SweepInv ==
  /\ \A c \in Clients :
       matchmaking = "seats" /\ stage[c] \in Running => call[c].now = swept
  /\ Cardinality(Lapsed(seats, swept)) < sweepThreshold

\* Begin is the only step to sweep, and to start a call's time.
LEMMA SweptStep ==
  ASSUME [Next]_vars
  PROVE  \/ swept' = swept
         \/ \E c \in Clients : Begin(c)
BY DEF Next, vars, CallStep, ClientStep, SkipLast, MatchGet, MatchGone,
   MatchList, CheckLast, Scan, Reply, MatchListFails, NoneJoinable, MatchCreate,
   MatchCreateFails, Call, CreateMatch, Admitted, Refused, NeverComes, Arrive,
   MatchJoin, Disconnect, MatchLeave, Decide, Close, Reindex, Advance

LEMMA NowStep ==
  ASSUME Core, LobbyTyped, [Next]_vars, NEW c \in Clients, stage'[c] \in Running,
         ~Begin(c)
  PROVE  stage[c] \in Running /\ call'[c].now = call[c].now
<1>1. call[c] \in CallRecords
  BY Kept DEF Core
<1>2. CASE ~Own(c)
  <2>1. "idle" \notin Running
    BY StageFacts
  <2>2. QED BY <1>2, <2>1, NotOwn
<1>3. CASE SkipLast(c) \/ MatchGone(c) \/ Call(c)
  BY <1>3, QueueTurns, StageFacts DEF Turns
<1>4. CASE MatchGet(c)
  <2>1. stage[c] = "begun"
        /\ call'[c] = [call[c] EXCEPT !.size = Size(lastCreated),
                                      !.open = lobby[lastCreated].open]
    BY <1>4, GetTurns DEF Turns
  <2>2. call'[c].now = call[c].now
    BY <1>1, <2>1 DEF CallRecords
  <2>3. QED BY <2>1, <2>2, StageFacts
<1>5. CASE CheckLast(c)
  BY <1>5, CheckTurns, StageFacts DEF Turns
<1>6. CASE MatchList(c)
  <2>1. PICK H : stage[c] = "listing" /\ call'[c] = [call[c] EXCEPT !.hits = H]
    BY <1>6, ListTurns DEF Turns
  <2>2. call'[c].now = call[c].now
    BY <1>1, <2>1 DEF CallRecords
  <2>3. QED BY <2>1, <2>2, StageFacts
<1>7. CASE Scan(c)
  <2>1. PICK hit \in call[c].hits : stage[c] = "scanning" /\ call'[c] = Took(c, hit)
    BY <1>7, ScanTurns DEF Turns
  <2>2. QED BY <2>1, TookFacts, StageFacts DEF Core
<1>8. CASE NoneJoinable(c)
  BY <1>8, EndTurns, StageFacts DEF Turns
<1>9. CASE MatchListFails(c) \/ MatchCreateFails(c) \/ Reply(c)
  BY <1>9, EndTurns, StageFacts DEF Turns
<1>10. CASE CreateMatch(c)
  BY <1>10, CreateTurns, StageFacts DEF Turns
<1>13. CASE MatchCreate(c)
  <2>1. stage[c] = "creating" /\ call'[c] = [call[c] EXCEPT !.size = 0]
    BY <1>13, CreateTurns DEF Turns
  <2>2. call'[c].now = call[c].now
    BY <1>1, <2>1 DEF CallRecords
  <2>3. QED BY <2>1, <2>2, StageFacts
<1>11. CASE Admitted(c) \/ Refused(c) \/ NeverComes(c) \/ Arrive(c) \/ MatchJoin(c)
            \/ Disconnect(c) \/ MatchLeave(c)
  BY <1>11, VisitTurns, StageFacts DEF Turns
<1>12. QED
  BY <1>2, <1>3, <1>4, <1>5, <1>6, <1>7, <1>8, <1>9, <1>10, <1>11, <1>13
  DEF Own, CallStep, ClientStep

\* The entries of the map are finitely many, and so is any part of them.
LEMMA EntriesFinite ==
  ASSUME NEW held, SeatMap(held), NEW S, S \subseteq DOMAIN held
  PROVE  /\ IsFiniteSet(S) /\ Cardinality(S) \in Nat
         /\ \A T \in SUBSET S : Cardinality(T) \in Nat /\ Cardinality(T) <= Cardinality(S)
<1>1. S \in SUBSET Matches
  BY DEF SeatMap
<1>2. IsFiniteSet(S)
  BY <1>1, Ids, FS_Subset
<1>3. ASSUME NEW T \in SUBSET S
      PROVE  Cardinality(T) \in Nat /\ Cardinality(T) <= Cardinality(S)
  BY <1>2, FS_Subset, FS_CardinalityType
<1>4. QED BY <1>2, <1>3, FS_CardinalityType

\* After a sweep nothing is left that has lapsed, unless it had too little to do.
LEMMA SweepClears ==
  ASSUME NEW held, SeatMap(held), NEW t \in Nat
  PROVE  Cardinality(Lapsed(SweepSeats(held, t), t)) < sweepThreshold
<1>1. CASE Cardinality(DOMAIN held) < sweepThreshold
  <2>1. Lapsed(held, t) \in SUBSET DOMAIN held
    BY DEF Lapsed
  <2>2. /\ Cardinality(Lapsed(held, t)) \in Nat /\ Cardinality(DOMAIN held) \in Nat
        /\ Cardinality(Lapsed(held, t)) <= Cardinality(DOMAIN held)
    BY <2>1, EntriesFinite
  <2>3. Cardinality(Lapsed(held, t)) < sweepThreshold
    BY <1>1, <2>2, Numbers
  <2>4. QED BY <1>1, <2>3 DEF SweepSeats
<1>2. CASE ~(Cardinality(DOMAIN held) < sweepThreshold)
  <2> DEFINE kept == {k \in DOMAIN held : Unexpired(held, k, t) # {}}
             new == [m \in kept |-> Restrict(held[m], Unexpired(held, m, t))]
  <2>1. SweepSeats(held, t) = new
    BY <1>2 DEF SweepSeats
  <2>2. ASSUME NEW m \in kept, NEW u \in DOMAIN new[m] PROVE ~(new[m][u] <= t)
    <3>1. u \in Unexpired(held, m, t) /\ new[m][u] = held[m][u]
      BY DEF Restrict
    <3>2. SeatsOf(held, m) = held[m] /\ Holders(held, m) = DOMAIN held[m]
      BY HolderFacts DEF Holders
    <3>3. u \in DOMAIN held[m] /\ held[m][u] > t
      BY <3>1, <3>2 DEF Unexpired
    <3>4. held[m][u] \in Nat
      BY <3>3, Numbers DEF SeatMap
    <3>5. QED BY <3>1, <3>3, <3>4
  <2>3. Lapsed(new, t) = {}
    <3>1. DOMAIN new = kept
      OBVIOUS
    <3> HIDE DEF new, kept
    <3>2. QED BY <2>2, <3>1 DEF Lapsed
  <2>4. QED BY <2>1, <2>3, FS_EmptySet, Numbers
<1>3. QED BY <1>1, <1>2

LEMMA SweepStep ==
  ASSUME Typed, Core', SweepInv, [Next]_vars PROVE SweepInv'
<1> USE Numbers DEF Typed
<1>1. clock \in Nat /\ swept \in Nat
  BY DEF Core, ControlTyped
<1>2. ASSUME NEW c \in Clients, matchmaking' = "seats", stage'[c] \in Running
      PROVE  call'[c].now = swept'
  <2>1. CASE Begin(c)
    <3>1. call'[c] = [NoCall EXCEPT !.now = clock]
      BY <2>1, QueueTurns DEF Turns
    <3>2. QED BY <1>1, <2>1, <3>1, NoCallType DEF Begin
  <2>2. CASE ~Begin(c)
    <3>1. stage[c] \in Running /\ call'[c].now = call[c].now
      BY <1>2, <2>2, NowStep
    <3>2. matchmaking = "seats" /\ matchmakingMu = c
      BY <1>2, <3>1, ModeStays DEF Core, LockInv
    <3>3. ASSUME NEW e \in Clients, Begin(e) PROVE FALSE
      BY <3>2, <3>3, Ids DEF Begin, Lock
    <3>4. swept' = swept
      BY <3>3, SweptStep
    <3>5. QED BY <3>1, <3>2, <3>4 DEF SweepInv
  <2>3. QED BY <2>1, <2>2
<1>3. Cardinality(Lapsed(seats', swept')) < sweepThreshold
  <2>1. ASSUME NEW c \in Clients, Begin(c)
        PROVE  Cardinality(Lapsed(seats', swept')) < sweepThreshold
    <3>1. seats' = SweepSeats(seats, clock) /\ swept' = clock
      BY <2>1 DEF Begin
    <3>2. QED BY <1>1, <3>1, SweepClears DEF SeatsTyped
  <2>2. ASSUME swept' = swept,
               Lapsed(seats', swept) \subseteq Lapsed(seats, swept)
        PROVE  Cardinality(Lapsed(seats', swept')) < sweepThreshold
    <3>1. Lapsed(seats, swept) \subseteq DOMAIN seats
      BY DEF Lapsed
    <3>2. /\ Cardinality(Lapsed(seats', swept)) \in Nat
          /\ Cardinality(Lapsed(seats, swept)) \in Nat
          /\ Cardinality(Lapsed(seats', swept)) <= Cardinality(Lapsed(seats, swept))
      BY <2>2, <3>1, EntriesFinite DEF SeatsTyped
    <3>3. QED BY <2>2, <3>2 DEF SweepInv
  <2>3. ASSUME Drops(seats, seats')
        PROVE  Lapsed(seats', swept) \subseteq Lapsed(seats, swept)
    BY <2>3 DEF Drops, Lapsed
  <2>4. ASSUME NEW c \in Clients, Reply(c), matchmaking = "seats",
               seats' = HoldSeat(seats, dest[c], UserOf[c], call[c].now + seatTTL)
        PROVE  /\ Lapsed(seats', swept) \subseteq Lapsed(seats, swept)
               /\ swept' = swept
    <3>1. PICK expiry : expiry = call[c].now + seatTTL
      OBVIOUS
    <3>2. PICK new : /\ new = HoldSeat(seats, dest[c], UserOf[c], expiry)
                     /\ seats' = new
      BY <2>4, <3>1
    <3>3. ~(expiry <= swept)
      <4>1. call[c].now = swept
        BY <2>4, StageFacts DEF SweepInv, Reply
      <4>2. QED BY <1>1, <3>1, <4>1
    <3>4. /\ \A k : k \in DOMAIN new <=> k \in DOMAIN seats \/ k = dest[c]
          /\ \A k \in DOMAIN seats \ {dest[c]} : new[k] = seats[k]
          /\ DOMAIN new[dest[c]] = Holders(seats, dest[c]) \cup {UserOf[c]}
          /\ new[dest[c]][UserOf[c]] = expiry
          /\ \A v \in Holders(seats, dest[c]) \ {UserOf[c]} :
               new[dest[c]][v] = SeatsOf(seats, dest[c])[v]
      BY <3>2, HoldFacts
    <3>5. ASSUME NEW k \in DOMAIN new, NEW v \in DOMAIN new[k], new[k][v] <= swept
          PROVE  k \in Lapsed(seats, swept)
      <4>1. CASE k = dest[c]
        <5>1. v \in Holders(seats, k) \ {UserOf[c]} /\ new[k][v] = SeatsOf(seats, k)[v]
          BY <3>3, <3>4, <3>5, <4>1
        <5>2. k \in DOMAIN seats /\ SeatsOf(seats, k) = seats[k]
          BY <5>1, HolderFacts
        <5>3. v \in DOMAIN seats[k] /\ seats[k][v] <= swept
          BY <3>5, <5>1, <5>2 DEF Holders
        <5>4. QED BY <5>2, <5>3 DEF Lapsed
      <4>2. CASE k # dest[c]
        <5>1. k \in DOMAIN seats /\ new[k] = seats[k]
          BY <3>4, <4>2
        <5>2. QED BY <3>5, <5>1 DEF Lapsed
      <4>3. QED BY <4>1, <4>2
    <3>6. Lapsed(new, swept) \subseteq Lapsed(seats, swept)
      BY <3>5 DEF Lapsed
    <3>7. QED BY <2>4, <3>2, <3>6 DEF Reply
  <2>5. QED BY <2>1, <2>2, <2>3, <2>4, SeatsStep, SweptStep
<1>4. QED BY <1>2, <1>3 DEF SweepInv

\* sweepSeats runs before every call's own seat is held and drops every lapsed
\* seat once the map has reached its threshold (find_match.go:224): fewer than
\* that many entries can have lapsed by the last sweep.
THEOREM LapsedEntriesBounded == Spec => []StaleEntriesBounded
<1>1. Init => SweepInv
  <2> SUFFICES ASSUME Init PROVE SweepInv
    OBVIOUS
  <2>1. Lapsed(seats, swept) = {}
    BY DEF Init, NoSeats, Lapsed
  <2>2. \A c \in Clients : stage[c] \notin Running
    BY StageFacts DEF Init
  <2>3. QED BY <2>1, <2>2, FS_EmptySet, Numbers DEF SweepInv
<1>2. Typed /\ Typed' /\ SweepInv /\ [Next]_vars => SweepInv'
  BY SweepStep DEF Typed
<1>3. Typed /\ NoHollowEntry /\ SweepInv => StaleEntriesBounded
  <2> SUFFICES ASSUME Typed, NoHollowEntry, SweepInv PROVE StaleEntriesBounded
    OBVIOUS
  <2> DEFINE stale == {m \in DOMAIN seats : Unexpired(seats, m, swept) = {}}
  <2>1. ASSUME NEW m \in stale PROVE m \in Lapsed(seats, swept)
    <3>1. m \in DOMAIN seats /\ SeatsOf(seats, m) = seats[m]
      BY HolderFacts
    <3>2. PICK u : u \in DOMAIN seats[m]
      BY <3>1 DEF NoHollowEntry
    <3>3. ~(seats[m][u] > swept)
      BY <3>1, <3>2 DEF Unexpired
    <3>4. seats[m][u] \in Nat /\ swept \in Nat
      BY <3>1, <3>2, Numbers DEF Typed, SeatsTyped, SeatMap, Core, ControlTyped
    <3>5. seats[m][u] <= swept
      BY <3>3, <3>4
    <3>6. QED BY <3>1, <3>2, <3>5 DEF Lapsed
  <2>2. stale \in SUBSET Lapsed(seats, swept)
    BY <2>1
  <2>3. Lapsed(seats, swept) \subseteq DOMAIN seats
    BY DEF Lapsed
  <2> HIDE DEF stale
  <2>4. /\ Cardinality(stale) \in Nat /\ Cardinality(Lapsed(seats, swept)) \in Nat
        /\ Cardinality(stale) <= Cardinality(Lapsed(seats, swept))
    BY <2>2, <2>3, EntriesFinite DEF Typed, SeatsTyped
  <2>5. Cardinality(stale) < sweepThreshold
    BY <2>4, Numbers DEF SweepInv
  <2>6. QED BY <2>5 DEF StaleEntriesBounded, stale
<1>4. QED BY <1>1, <1>2, <1>3, TypedAlways, SeatsNeverHollow, PTL DEF Spec
-----------------------------------------------------------------------------
(***************************************************************************)
(* A match is created only when there was no room.  ListedInv follows a    *)
(* scan: every match that has had room since the call began is still among *)
(* the hits to try, and would be taken.  It needs the listing not to be    *)
(* cut short: with more than ListLimit matches to list it does not hold.   *)
(***************************************************************************)
HitIds(c) == {h.id : h \in call[c].hits}

Scanned(c) ==
  /\ spare[c] \subseteq HitIds(c)
  /\ \A h \in call[c].hits :
       h.id \in spare[c] => h.size + LiveSeats(seats, h.id, call[c].now) < maxPlayers

ListedInv ==
  \A c \in Clients : /\ stage[c] = "creating" => spare[c] = {}
                     /\ stage[c] = "scanning" => Scanned(c)

WholeListing == Cardinality(Listable) <= ListLimit

\* A match that has room after a step of a running call had room before it,
\* as spare says, and has room now.
LEMMA SpareStep ==
  ASSUME [Next]_vars, NEW c \in Clients, spare \in [Clients -> SUBSET Matches],
         stage[c] \in Running
  PROVE  /\ spare'[c] \subseteq spare[c]
         /\ \/ UNCHANGED vars
            \/ \A m \in spare'[c] : Roomy(m, call[c].now)'
<1>1. CASE UNCHANGED vars
  BY <1>1 DEF vars
<1>2. CASE Track
  <2>1. spare'[c] = IF stage'[c] \notin Calling \ {"queued"} THEN {}
                    ELSE {m \in IF stage[c] = "queued" THEN Matches ELSE spare[c] :
                            Roomy(m, call[c].now)'}
    BY <1>2 DEF Track
  <2>2. stage[c] # "queued"
    BY StageFacts
  <2>3. QED BY <2>1, <2>2
<1>3. QED
  BY <1>1, <1>2 DEF Next, CallStep, ClientStep, Begin, SkipLast, MatchGet, MatchGone,
     MatchList, CheckLast, Scan, Reply, MatchListFails, NoneJoinable, MatchCreate,
     MatchCreateFails, Call, CreateMatch, Admitted, Refused, NeverComes, Arrive,
     MatchJoin, Disconnect, MatchLeave, Decide, Close, Reindex, Advance

\* A listing that is not cut short has every match there is to list.
LEMMA WholeHits ==
  ASSUME LobbyTyped, WholeListing, NEW hits \in SUBSET Listable,
         hits = Listable \/ Cardinality(hits) = ListLimit
  PROVE  hits = Listable
<1>1. Listable \in SUBSET Matches
  BY DEF Listable, LobbyTyped
<1>2. IsFiniteSet(Listable)
  BY <1>1, Ids, FS_Subset
<1>3. CASE Cardinality(hits) = ListLimit
  <2>1. /\ Cardinality(hits) <= Cardinality(Listable)
        /\ Cardinality(Listable) = Cardinality(hits) => Listable = hits
    BY <1>2, FS_Subset
  <2>2. Cardinality(Listable) \in Nat
    BY <1>2, FS_CardinalityType
  <2>3. QED BY <1>3, <2>1, <2>2, Numbers DEF WholeListing
<1>4. QED BY <1>3

\* MatchList: whatever has room is listed, with the size it has.
LEMMA ListingScans ==
  ASSUME Typed, WholeListing, NEW c \in Clients, MatchList(c),
         \A m \in spare'[c] : Roomy(m, call[c].now)',
         SeatsTyped', LobbyTyped'
  PROVE  Scanned(c)'
<1> USE Numbers DEF Typed
<1>1. PICK hits \in SUBSET Listable :
        /\ hits = Listable \/ Cardinality(hits) = ListLimit
        /\ Turns(c, {"listing"}, "scanning",
                 [call[c] EXCEPT !.hits =
                    {[id |-> m, size |-> Size(m)] : m \in hits}], dest[c])
  BY ListTurns
<1>2. hits = Listable
  BY <1>1, WholeHits
<1>3. call'[c].hits = {[id |-> m, size |-> Size(m)] : m \in Listable}
  <2>1. call[c] \in CallRecords
    BY Kept DEF Core
  <2>2. call'[c] = [call[c] EXCEPT !.hits =
                      {[id |-> m, size |-> Size(m)] : m \in Listable}]
    BY <1>1, <1>2 DEF Turns
  <2>3. QED BY <2>1, <2>2 DEF CallRecords
<1>4. ASSUME NEW m PROVE Size(m)' = Size(m)
  <2>1. {e \in Clients : stage'[e] \in Inside /\ dest'[e] = m}
          = {e \in Clients : stage[e] \in Inside /\ dest[e] = m}
    BY <1>1 DEF Turns, Inside
  <2>2. QED BY <2>1 DEF Size
<1>5. index' = index
  BY DEF MatchList
<1>6. ASSUME NEW m \in spare'[c]
      PROVE  /\ m \in Listable
             /\ Size(m) + LiveSeats(seats', m, call'[c].now) < maxPlayers
  <2>1. m \in index' /\ Size(m)' + LiveSeats(seats', m, call'[c].now) < maxPlayers
    BY DEF Roomy
  <2>2. LiveSeats(seats', m, call'[c].now) \in Nat
    BY LiveFinite DEF SeatsTyped
  <2>3. Size(m) + LiveSeats(seats', m, call'[c].now) < maxPlayers
    BY <1>4, <2>1
  <2>4. Size(m) <= maxPlayers - 1
    BY <2>2, <2>3, SizeType
  <2>5. QED BY <1>5, <2>1, <2>3, <2>4 DEF Listable
<1>7. spare'[c] \subseteq {h.id : h \in call'[c].hits}
  <2>1. ASSUME NEW m \in spare'[c] PROVE \E h \in call'[c].hits : h.id = m
    <3>1. [id |-> m, size |-> Size(m)] \in call'[c].hits
      BY <1>3, <1>6
    <3>2. QED BY <3>1
  <2>2. QED BY <2>1
<1>8. ASSUME NEW h \in call'[c].hits, h.id \in spare'[c]
      PROVE  h.size + LiveSeats(seats', h.id, call'[c].now) < maxPlayers
  <2>1. h.size = Size(h.id)
    BY <1>3
  <2>2. QED BY <1>6, <1>8, <2>1
<1>9. QED BY <1>7, <1>8 DEF Scanned, HitIds

LEMMA LiveDrops ==
  ASSUME NEW old, SeatMap(old), NEW new, Drops(old, new), NEW m, NEW t
  PROVE  /\ LiveSeats(new, m, t) \in Nat /\ LiveSeats(old, m, t) \in Nat
         /\ LiveSeats(new, m, t) <= LiveSeats(old, m, t)
<1>1. Unexpired(new, m, t) \in SUBSET Unexpired(old, m, t)
  BY DropsUnexpired
<1>2. Unexpired(old, m, t) \subseteq Holders(old, m)
  BY UnexpiredHold
<1>3. QED BY <1>1, <1>2, HoldersFinite DEF LiveSeats

LEMMA ToScan ==
  ASSUME Core, LobbyTyped, NEW c \in Clients, Own(c),
         stage'[c] \in {"creating", "scanning"}
  PROVE  \/ NoneJoinable(c) /\ stage'[c] = "creating"
         \/ (MatchList(c) \/ Scan(c)) /\ stage'[c] = "scanning"
<1>1. /\ ~Begin(c) /\ ~SkipLast(c) /\ ~MatchGone(c) /\ ~Call(c)
  BY QueueTurns DEF Turns
<1>2. ~MatchGet(c)
  BY GetTurns DEF Turns
<1>3. ~CheckLast(c)
  BY CheckTurns DEF Turns
<1>4. ~MatchListFails(c) /\ ~MatchCreateFails(c) /\ ~Reply(c)
  BY EndTurns DEF Turns
<1>5. ~MatchCreate(c) /\ ~CreateMatch(c)
  BY CreateTurns DEF Turns
<1>6. /\ ~Admitted(c) /\ ~Refused(c) /\ ~NeverComes(c) /\ ~Arrive(c)
      /\ ~MatchJoin(c) /\ ~Disconnect(c) /\ ~MatchLeave(c)
  BY VisitTurns DEF Turns
<1>7. NoneJoinable(c) => stage'[c] = "creating"
  BY EndTurns DEF Turns
<1>8. MatchList(c) => stage'[c] = "scanning"
  BY ListTurns DEF Turns
<1>9. Scan(c) => stage'[c] \in {"scanning", "replying"}
  BY ScanTurns DEF Turns
<1>10. QED
  BY <1>1, <1>2, <1>3, <1>4, <1>5, <1>6, <1>7, <1>8, <1>9
  DEF Own, CallStep, ClientStep

\* One hit without room is passed over: it was not one with room all along.
LEMMA ScanScans ==
  ASSUME Typed, NEW c \in Clients, Scan(c), stage'[c] = "scanning", Scanned(c),
         spare'[c] \subseteq spare[c]
  PROVE  Scanned(c)'
<1> USE Numbers DEF Typed
<1>1. call[c] \in CallRecords
  BY Kept DEF Core
<1>2. PICK hit \in call[c].hits :
        /\ hit.id \in Matches /\ hit.size \in Nat
        /\ seats' = Pruned(hit.id, call[c].now)
        /\ ~HasRoom(hit.id, hit.size, call[c].now)
        /\ call'[c] = Took(c, hit)
  BY ScanTurns DEF Turns
<1>3. call'[c].hits = call[c].hits \ {hit} /\ call'[c].now = call[c].now
  BY <1>2, TookFacts DEF Core
<1>4. hit.id \notin spare[c]
  <2>1. SUFFICES ASSUME hit.id \in spare[c] PROVE HasRoom(hit.id, hit.size, call[c].now)
    BY <1>2
  <2>2. hit.size + LiveSeats(seats, hit.id, call[c].now) < maxPlayers
    BY <2>1 DEF Scanned
  <2>3. LiveSeats(seats, hit.id, call[c].now) \in Nat
    BY LiveFinite DEF SeatsTyped
  <2>4. hit.size < maxPlayers
    BY <1>2, <2>2, <2>3
  <2>5. QED BY <2>2, <2>4 DEF HasRoom
<1>5. spare'[c] \subseteq {h.id : h \in call'[c].hits}
  <2>1. ASSUME NEW m \in spare'[c] PROVE \E h \in call'[c].hits : h.id = m
    <3>1. PICK h \in call[c].hits : h.id = m
      BY DEF Scanned, HitIds
    <3>2. h # hit
      BY <1>4, <3>1
    <3>3. QED BY <1>3, <3>1, <3>2
  <2>2. QED BY <2>1
<1>6. ASSUME NEW h \in call'[c].hits, h.id \in spare'[c]
      PROVE  h.size + LiveSeats(seats', h.id, call'[c].now) < maxPlayers
  <2>1. Drops(seats, seats')
    BY <1>2, PrunedDrops
  <2>2. /\ LiveSeats(seats', h.id, call[c].now) \in Nat
        /\ LiveSeats(seats, h.id, call[c].now) \in Nat
        /\ LiveSeats(seats', h.id, call[c].now) <= LiveSeats(seats, h.id, call[c].now)
    BY <2>1, LiveDrops DEF SeatsTyped
  <2>3. h \in call[c].hits /\ h.size \in Nat
    BY <1>1, <1>3 DEF CallRecords
  <2>4. h.size + LiveSeats(seats, h.id, call[c].now) < maxPlayers
    BY <1>6, <2>3 DEF Scanned
  <2>5. QED BY <1>3, <2>2, <2>3, <2>4
<1>7. QED BY <1>5, <1>6 DEF Scanned, HitIds

LEMMA ListedStep ==
  ASSUME Typed, Typed', WholeListing, ListedInv, [Next]_vars PROVE ListedInv'
<1> SUFFICES ASSUME NEW c \in Clients, stage'[c] \in {"creating", "scanning"}
             PROVE  /\ stage'[c] = "creating" => spare'[c] = {}
                    /\ stage'[c] = "scanning" => Scanned(c)'
  BY DEF ListedInv
<1> USE Numbers DEF Typed
<1>1. ASSUME stage[c] \in Running PROVE spare'[c] \subseteq spare[c]
  BY <1>1, SpareStep DEF HistoryTyped
<1>2. CASE ~Own(c)
  <2>1. stage'[c] = stage[c] /\ call'[c] = call[c] /\ stage[c] \in Running
    BY <1>2, NotOwn, StageFacts
  <2>2. Drops(seats, seats')
    <3>1. ASSUME NEW e \in Clients, Reply(e), matchmaking = "seats" PROVE FALSE
      <4>1. e = c
        BY <2>1, <3>1, OneRuns, StageFacts DEF Reply, Core
      <4>2. QED BY <1>2, <3>1, <4>1 DEF Own, CallStep
    <3>2. QED BY <3>1, SeatsStep
  <2>3. CASE stage[c] = "creating"
    BY <1>1, <2>1, <2>3 DEF ListedInv
  <2>4. CASE stage[c] = "scanning"
    <3>1. Scanned(c)
      BY <2>4 DEF ListedInv
    <3>2. ASSUME NEW h \in call'[c].hits, h.id \in spare'[c]
          PROVE  h.size + LiveSeats(seats', h.id, call'[c].now) < maxPlayers
      <4>1. h \in call[c].hits /\ h.size \in Nat /\ h.id \in spare[c]
        <5>1. call[c] \in CallRecords
          BY Kept DEF Core
        <5>2. QED BY <1>1, <2>1, <3>2, <5>1 DEF CallRecords
      <4>2. /\ LiveSeats(seats', h.id, call[c].now) \in Nat
            /\ LiveSeats(seats, h.id, call[c].now) \in Nat
            /\ LiveSeats(seats', h.id, call[c].now) <= LiveSeats(seats, h.id, call[c].now)
        BY <2>2, LiveDrops DEF SeatsTyped
      <4>3. h.size + LiveSeats(seats, h.id, call[c].now) < maxPlayers
        BY <3>1, <4>1 DEF Scanned
      <4>4. QED BY <2>1, <4>1, <4>2, <4>3
    <3>3. spare'[c] \subseteq {h.id : h \in call'[c].hits}
      BY <1>1, <2>1, <3>1 DEF Scanned, HitIds
    <3>4. QED BY <2>1, <2>4, <3>2, <3>3 DEF Scanned, HitIds
  <2>5. QED BY <2>1, <2>3, <2>4
<1>3. CASE NoneJoinable(c) /\ stage'[c] = "creating"
  <2>1. stage[c] = "scanning" /\ call[c].hits = {}
    BY <1>3 DEF NoneJoinable
  <2>2. spare[c] = {}
    BY <2>1 DEF ListedInv, Scanned, HitIds
  <2>3. QED BY <1>1, <1>3, <2>1, <2>2, StageFacts
<1>4. CASE MatchList(c) /\ stage'[c] = "scanning"
  <2>1. stage[c] = "listing"
    BY <1>4 DEF MatchList
  <2>2. \A m \in spare'[c] : Roomy(m, call[c].now)'
    BY <1>4, <2>1, SpareStep, StageFacts DEF HistoryTyped, vars
  <2>3. QED BY <1>4, <2>2, ListingScans
<1>5. CASE Scan(c) /\ stage'[c] = "scanning"
  <2>1. stage[c] = "scanning"
    BY <1>5 DEF Scan
  <2>2. Scanned(c) /\ spare'[c] \subseteq spare[c]
    BY <1>1, <2>1, StageFacts DEF ListedInv
  <2>3. QED BY <1>5, <2>2, ScanScans
<1>6. QED BY <1>2, <1>3, <1>4, <1>5, ToScan DEF Core

\* findJoinable takes the first listed match with room, so that find_match
\* creates one only when none had room from the call's beginning on
\* (README.md:74), for as long as no more than ListLimit matches can be listed.
THEOREM CreatesOnlyWithoutRoom ==
  Spec /\ []WholeListing => []CreatesOnlyWhenNoRoom
<1>1. Init => ListedInv
  BY DEF Init, ListedInv
<1>2. Typed /\ Typed' /\ WholeListing /\ ListedInv /\ [Next]_vars => ListedInv'
  BY ListedStep
<1>3. ListedInv => CreatesOnlyWhenNoRoom
  BY DEF ListedInv, CreatesOnlyWhenNoRoom
<1>4. QED BY <1>1, <1>2, <1>3, TypedAlways, PTL DEF Spec
-----------------------------------------------------------------------------
(***************************************************************************)
(* Serialized mode creates no second match while the first one waits.      *)
(* FreshInv: nobody has touched a fresh match.  TwinInv: in serialized     *)
(* mode it is the one lastCreated remembers; a call that saw it would take *)
(* it, and a call that goes on to the listing found none remembered.       *)
(***************************************************************************)
Empty(m) == \A c \in Clients : ~(stage[c] \in Within /\ dest[c] = m)

FreshInv == \A m \in fresh : lobby[m] = NewLobby /\ Empty(m)

TwinInv ==
  matchmaking = "serialized" =>
    /\ fresh \subseteq {lastCreated}
    /\ \A c \in Clients :
         stage[c] \in {"listing", "scanning", "creating"} => lastCreated = NoMatch
    /\ \A c \in Clients :
         stage[c] = "checking" /\ lastCreated \in fresh
           => call[c].size = 0 /\ call[c].open

LEMMA EmptySize == ASSUME NEW m, Empty(m) PROVE Size(m) = 0
<1> DEFINE S == {c \in Clients : stage[c] \in Inside /\ dest[c] = m}
<1>1. S = {}
  BY StageFacts DEF Empty
<1>2. QED BY <1>1, FS_EmptySet DEF Size

LEMMA NobodyInside ==
  ASSUME NEW m, Size(m)' = 0, NEW c \in Clients
  PROVE  ~(stage'[c] \in Inside /\ dest'[c] = m)
<1> DEFINE S == {e \in Clients : stage'[e] \in Inside /\ dest'[e] = m}
<1>1. IsFiniteSet(S)
  BY Ids, FS_Subset
<1>2. Cardinality(S) = 0 <=> S = {}
  BY <1>1, FS_EmptySet
<1>3. QED BY <1>2 DEF Size

\* Whoever is in a match after a step was in it before, or has just arrived.
LEMMA ToWithin ==
  ASSUME Core, LobbyTyped, [Next]_vars, NEW c \in Clients, stage'[c] \in Within
  PROVE  /\ dest'[c] = dest[c]
         /\ stage[c] \in Within \/ (Arrive(c) /\ stage'[c] = "arrived")
<1>1. CASE ~Own(c)
  BY <1>1, NotOwn, StageFacts
<1>2. CASE Own(c)
  <2>1. /\ ~Begin(c) /\ ~Call(c) /\ ~SkipLast(c) /\ ~MatchGone(c)
    BY QueueTurns, StageFacts DEF Turns
  <2>2. ~MatchGet(c)
    BY GetTurns, StageFacts DEF Turns
  <2>3. ~CheckLast(c)
    BY CheckTurns, StageFacts DEF Turns
  <2>4. ~MatchList(c)
    BY ListTurns, StageFacts DEF Turns
  <2>5. ~Scan(c)
    BY ScanTurns, StageFacts DEF Turns
  <2>6. ~NoneJoinable(c) /\ ~MatchListFails(c) /\ ~MatchCreateFails(c) /\ ~Reply(c)
    BY EndTurns, StageFacts DEF Turns
  <2>7. ~MatchCreate(c) /\ ~CreateMatch(c)
    BY CreateTurns, StageFacts DEF Turns
  <2>8. ~Admitted(c) /\ ~Refused(c) /\ ~NeverComes(c) /\ ~MatchLeave(c)
    BY VisitTurns, StageFacts DEF Turns
  <2>9. Arrive(c) \/ MatchJoin(c) \/ Disconnect(c)
    BY <1>2, <2>1, <2>2, <2>3, <2>4, <2>5, <2>6, <2>7, <2>8 DEF Own, CallStep, ClientStep
  <2>10. QED BY <2>9, VisitTurns, StageFacts DEF Turns
<1>3. QED BY <1>1, <1>2

\* A fresh match stays what MatchCreate made it, or is no longer fresh.
LEMMA LobbyOf ==
  ASSUME Core, LobbyTyped, [Next]_vars, NEW m \in Matches
  PROVE  \/ lobby'[m] = lobby[m] \/ lobby'[m] = NewLobby
         \/ ~Empty(m) \/ lobby[m].started \/ lobby'[m].life # "up"
<1> DEFINE Goal == \/ lobby'[m] = lobby[m] \/ lobby'[m] = NewLobby
                   \/ ~Empty(m) \/ lobby[m].started \/ lobby'[m].life # "up"
<1>1. ASSUME NEW c \in Clients, MatchCreate(c) \/ CreateMatch(c) PROVE Goal
  BY <1>1 DEF MatchCreate, CreateMatch, LobbyTyped
<1>2. ASSUME NEW c \in Clients, MatchJoin(c) \/ MatchLeave(c) PROVE Goal
  <2>1. stage[c] \in Within
    BY <1>2, StageFacts DEF MatchJoin, MatchLeave
  <2>2. CASE dest[c] = m
    BY <2>1, <2>2 DEF Empty
  <2>3. CASE dest[c] # m
    BY <1>2, <2>3 DEF MatchJoin, MatchLeave, LobbyTyped
  <2>4. QED BY <2>2, <2>3
<1>3. ASSUME NEW k \in Matches, Decide(k) PROVE Goal
  BY <1>3 DEF Decide, LobbyTyped
<1>4. ASSUME NEW k \in Matches, Close(k) PROVE Goal
  BY <1>4, LobbyTypes DEF Close, LobbyTyped
<1>5. CASE UNCHANGED vars \/ Advance \/ \E k \in Matches : Reindex(k)
  BY <1>5 DEF vars, Advance, Reindex
<1>6. ASSUME NEW c \in Clients, Own(c)
      PROVE  \/ lobby' = lobby \/ MatchCreate(c) \/ CreateMatch(c)
             \/ MatchJoin(c) \/ MatchLeave(c)
  BY <1>6 DEF Own, CallStep, ClientStep, Begin, SkipLast, MatchGet, MatchGone, MatchList,
     CheckLast, Scan, Reply, MatchListFails, NoneJoinable, MatchCreateFails, Call,
     Admitted, Refused, NeverComes, Arrive, Disconnect
<1>7. QED
  BY <1>1, <1>2, <1>3, <1>4, <1>5, <1>6 DEF Next, Own

LEMMA FreshStep ==
  ASSUME [Next]_vars, NEW m \in fresh'
  PROVE  \/ UNCHANGED vars
         \/ /\ lobby'[m].life = "up" /\ Size(m)' = 0
            /\ \/ m \in fresh
               \/ \E c \in Clients : /\ stage[c] = "creating"
                                     /\ stage'[c] = "replying" /\ m = dest'[c]
<1>1. CASE Track
  BY <1>1 DEF Track
<1>2. QED
  BY <1>1 DEF Next, CallStep, ClientStep, Begin, SkipLast, MatchGet, MatchGone,
     MatchList, CheckLast, Scan, Reply, MatchListFails, NoneJoinable, MatchCreate,
     MatchCreateFails, Call, CreateMatch, Admitted, Refused, NeverComes, Arrive,
     MatchJoin, Disconnect, MatchLeave, Decide, Close, Reindex, Advance

\* The call that created it.
LEMMA Created ==
  ASSUME Core, LobbyTyped, [Next]_vars, NEW c \in Clients,
         stage[c] = "creating", stage'[c] = "replying"
  PROVE  /\ dest'[c] \in Matches
         /\ lobby[dest'[c]].life = "unborn"
         /\ lobby'[dest'[c]] = NewLobby
         /\ Remember(dest'[c])
<1>1. ~CheckLast(c) /\ ~Scan(c)
  BY DEF CheckLast, Scan
<1>2. /\ dest'[c] \in NewIds
      /\ lobby' = [lobby EXCEPT ![dest'[c]] = NewLobby]
      /\ Remember(dest'[c])
  BY <1>1, ToReply
<1>3. QED BY <1>2 DEF NewIds, LobbyTyped

LEMMA FreshInvStep ==
  ASSUME Typed, BornInv, FreshInv, [Next]_vars PROVE FreshInv'
<1> USE DEF Typed
<1>1. CASE UNCHANGED vars
  BY <1>1 DEF vars, FreshInv, Empty
<1>2. CASE ~UNCHANGED vars
  <2> SUFFICES ASSUME NEW m \in fresh' PROVE lobby'[m] = NewLobby /\ Empty(m)'
    BY DEF FreshInv
  <2>1. /\ lobby'[m].life = "up" /\ Size(m)' = 0
        /\ \/ m \in fresh
           \/ \E c \in Clients : /\ stage[c] = "creating"
                                 /\ stage'[c] = "replying" /\ m = dest'[c]
    BY <1>2, FreshStep
  <2>2. ASSUME Empty(m) PROVE Empty(m)'
    <3>1. ASSUME NEW c \in Clients, stage'[c] \in Within, dest'[c] = m PROVE FALSE
      <4>1. stage'[c] \notin Inside
        BY <2>1, <3>1, NobodyInside
      <4>2. stage'[c] = "leaving"
        BY <3>1, <4>1 DEF Within
      <4>3. QED BY <2>2, <3>1, <4>2, ToWithin DEF Empty
    <3>2. QED BY <3>1 DEF Empty
  <2>3. CASE m \in fresh
    <3>1. m \in Matches /\ lobby[m] = NewLobby /\ Empty(m)
      BY <2>3 DEF FreshInv, HistoryTyped
    <3>2. ~lobby[m].started
      BY <3>1 DEF NewLobby
    <3>3. lobby'[m] = NewLobby
      BY <2>1, <3>1, <3>2, LobbyOf
    <3>4. QED BY <2>2, <3>1, <3>3
  <2>4. CASE \E c \in Clients : /\ stage[c] = "creating"
                                /\ stage'[c] = "replying" /\ m = dest'[c]
    <3>1. m \in Matches /\ lobby[m].life = "unborn" /\ lobby'[m] = NewLobby
      BY <2>4, Created
    <3>2. Empty(m)
      BY <3>1 DEF BornInv, Unknown, Empty
    <3>3. QED BY <2>2, <3>1, <3>2
  <2>5. QED BY <2>1, <2>3, <2>4
<1>3. QED BY <1>1, <1>2

\* In serialized mode: lastCreated moves under the call that holds the mutex.
LEMMA LastUnderCall ==
  ASSUME Core, [Next]_vars, matchmaking # "naive", NEW c \in Clients,
         stage[c] \in Running, ~Own(c)
  PROVE  /\ lastCreated' = lastCreated
         /\ \A e \in Clients : stage[e] = "creating" => e = c
<1>1. ASSUME NEW e \in Clients, stage[e] \in Running PROVE e = c
  BY <1>1, OneRuns DEF Core
<1>2. ASSUME NEW e \in Clients, MatchGone(e) \/ MatchCreate(e) \/ CheckLast(e)
      PROVE  FALSE
  <2>1. stage[e] \in Running
    BY <1>2, StageFacts DEF MatchGone, Trying, MatchCreate, CheckLast
  <2>2. QED BY <1>1, <1>2, <2>1 DEF Own, CallStep
<1>3. QED BY <1>1, <1>2, LastStep, StageFacts

\* A call about to list, to scan or to create comes from one of these steps.
LEMMA ToList ==
  ASSUME Core, LobbyTyped, NEW c \in Clients, Own(c),
         stage'[c] \in {"listing", "scanning", "creating"}
  PROVE  \/ SkipLast(c) \/ MatchGone(c) \/ (CheckLast(c) /\ lastCreated' = NoMatch)
         \/ MatchList(c) \/ Scan(c) \/ NoneJoinable(c)
<1>1. /\ ~Begin(c) /\ ~Call(c)
  BY QueueTurns DEF Turns
<1>2. ~MatchGet(c)
  BY GetTurns DEF Turns
<1>3. CheckLast(c) => lastCreated' = NoMatch
  <2>1. Go(c, "replying") => stage'[c] = "replying"
    BY DEF Go, Core, CallsTyped
  <2>2. QED BY <2>1 DEF CheckLast
<1>4. ~MatchListFails(c) /\ ~MatchCreateFails(c) /\ ~Reply(c)
  BY EndTurns DEF Turns
<1>5. ~MatchCreate(c) /\ ~CreateMatch(c)
  BY CreateTurns DEF Turns
<1>6. /\ ~Admitted(c) /\ ~Refused(c) /\ ~NeverComes(c) /\ ~Arrive(c)
      /\ ~MatchJoin(c) /\ ~Disconnect(c) /\ ~MatchLeave(c)
  BY VisitTurns DEF Turns
<1>7. QED
  BY <1>1, <1>2, <1>3, <1>4, <1>5, <1>6 DEF Own, CallStep, ClientStep

LEMMA ToCheck ==
  ASSUME Core, LobbyTyped, NEW c \in Clients, Own(c), stage'[c] = "checking"
  PROVE  MatchGet(c)
<1>1. ~Begin(c) /\ ~Call(c) /\ ~SkipLast(c) /\ ~MatchGone(c)
  BY QueueTurns DEF Turns
<1>2. ~CheckLast(c)
  BY CheckTurns DEF Turns
<1>3. ~MatchList(c)
  BY ListTurns DEF Turns
<1>4. ~Scan(c)
  BY ScanTurns DEF Turns
<1>5. ~NoneJoinable(c) /\ ~MatchListFails(c) /\ ~MatchCreateFails(c) /\ ~Reply(c)
  BY EndTurns DEF Turns
<1>6. ~MatchCreate(c) /\ ~CreateMatch(c)
  BY CreateTurns DEF Turns
<1>7. /\ ~Admitted(c) /\ ~Refused(c) /\ ~NeverComes(c) /\ ~Arrive(c)
      /\ ~MatchJoin(c) /\ ~Disconnect(c) /\ ~MatchLeave(c)
  BY VisitTurns DEF Turns
<1>8. QED
  BY <1>1, <1>2, <1>3, <1>4, <1>5, <1>6, <1>7 DEF Own, CallStep, ClientStep

LEMMA TwinStep ==
  ASSUME "MatchGet" \notin Failing, Typed, FreshInv, TwinInv, [Next]_vars
  PROVE  TwinInv'
<1> USE DEF Typed
<1>1. CASE UNCHANGED vars
  BY <1>1 DEF vars, TwinInv
<1>2. CASE ~UNCHANGED vars /\ matchmaking' = "serialized"
  <2> USE <1>2
  <2>1. /\ matchmaking = "serialized" /\ fresh \subseteq {lastCreated}
        /\ fresh \subseteq Matches /\ NoMatch \notin Matches
    BY ModeStays, Ids DEF TwinInv, HistoryTyped
  <2>2. ASSUME NEW m \in fresh, lastCreated' # lastCreated PROVE FALSE
    <3>1. m = lastCreated /\ m # NoMatch /\ lobby[m] = NewLobby
      BY <2>1 DEF FreshInv
    <3>2. ASSUME NEW c \in Clients, MatchGone(c) PROVE FALSE
      BY <3>1, <3>2, LobbyTypes DEF MatchGone
    <3>3. ASSUME NEW c \in Clients, MatchCreate(c) PROVE FALSE
      BY <2>1, <3>1, <3>3 DEF MatchCreate, TwinInv
    <3>4. ASSUME NEW c \in Clients, CheckLast(c) PROVE FALSE
      <4>1. call[c].size = 0 /\ call[c].open
        BY <2>1, <3>1, <3>4 DEF CheckLast, TwinInv
      <4>2. HasRoom(lastCreated, call[c].size, call[c].now)
        BY <2>1, <4>1, Numbers DEF HasRoom
      <4>3. QED BY <2>2, <3>4, <4>1, <4>2 DEF CheckLast
    <3>5. QED BY <2>2, <3>2, <3>3, <3>4, LastStep
  <2>3. ASSUME NEW m \in fresh' PROVE m = lastCreated'
    <3>1. CASE m \in fresh
      BY <2>1, <2>2, <3>1
    <3>2. CASE \E c \in Clients : /\ stage[c] = "creating"
                                  /\ stage'[c] = "replying" /\ m = dest'[c]
      BY <2>1, <3>2, Created DEF Remember
    <3>3. QED BY <3>1, <3>2, FreshStep
  <2>4. ASSUME NEW c \in Clients, stage'[c] \in {"listing", "scanning", "creating"}
        PROVE  lastCreated' = NoMatch
    <3>1. CASE ~Own(c)
      <4>1. stage'[c] = stage[c] /\ stage[c] \in Running
        BY <2>4, <3>1, NotOwn, StageFacts
      <4>2. lastCreated' = lastCreated
        BY <2>1, <3>1, <4>1, LastUnderCall
      <4>3. QED BY <2>1, <2>4, <4>1, <4>2 DEF TwinInv
    <3>2. CASE Own(c)
      <4>1. CASE SkipLast(c)
        BY <2>1, <4>1 DEF SkipLast
      <4>2. CASE MatchGone(c)
        BY <4>2 DEF MatchGone
      <4>3. CASE MatchList(c) \/ Scan(c) \/ NoneJoinable(c)
        BY <2>1, <4>3 DEF MatchList, Scan, NoneJoinable, TwinInv
      <4>4. QED BY <2>4, <3>2, <4>1, <4>2, <4>3, ToList
    <3>3. QED BY <3>1, <3>2
  <2>5. ASSUME NEW c \in Clients, stage'[c] = "checking", lastCreated' \in fresh'
        PROVE  call'[c].size = 0 /\ call'[c].open
    <3>1. CASE ~Own(c)
      <4>1. stage[c] = "checking" /\ call'[c] = call[c]
        BY <2>5, <3>1, NotOwn
      <4>2. /\ lastCreated' = lastCreated
            /\ \A e \in Clients : stage[e] = "creating" => e = c
        BY <2>1, <3>1, <4>1, LastUnderCall, StageFacts
      <4>3. lastCreated \in fresh
        BY <2>5, <4>1, <4>2, FreshStep
      <4>4. QED BY <2>1, <4>1, <4>3 DEF TwinInv
    <3>2. CASE MatchGet(c)
      <4>1. /\ stage[c] = "begun" /\ lastCreated' = lastCreated
            /\ call'[c] = [call[c] EXCEPT !.size = Size(lastCreated),
                                          !.open = lobby[lastCreated].open]
        BY <3>2, GetTurns DEF Turns, MatchGet
      <4>2. call'[c].size = Size(lastCreated) /\ call'[c].open = lobby[lastCreated].open
        <5>1. call[c] \in CallRecords
          BY Kept DEF Core
        <5>2. QED BY <4>1, <5>1 DEF CallRecords
      <4>3. \A e \in Clients : stage[e] # "creating"
        BY <2>1, <4>1, OneRuns, StageFacts DEF Core
      <4>4. lastCreated \in fresh
        BY <2>5, <4>1, <4>3, FreshStep
      <4>5. lobby[lastCreated].open /\ Size(lastCreated) = 0
        BY <4>4, EmptySize DEF FreshInv, NewLobby
      <4>6. QED BY <4>2, <4>5
    <3>3. QED BY <2>5, <3>1, <3>2, ToCheck
  <2>6. QED BY <2>3, <2>4, <2>5 DEF TwinInv
<1>3. QED BY <1>1, <1>2 DEF TwinInv

\* Serialized mode remembers the match it created and hands it to the next
\* caller directly (find_match.go), so that at most one match of find_match
\* waits for its first arrival.  A MatchGet that fails makes it forget that
\* match, and this does not hold then.
THEOREM NeverTwinMatches ==
  ASSUME "MatchGet" \notin Failing
  PROVE  Spec => []NoTwinMatches
<1>1. Init => FreshInv /\ TwinInv
  BY DEF Init, FreshInv, TwinInv
<1>2. SeatInv /\ FreshInv /\ TwinInv /\ [Next]_vars => FreshInv' /\ TwinInv'
  BY FreshInvStep, TwinStep DEF SeatInv
<1>3. TwinInv => NoTwinMatches
  <2> SUFFICES ASSUME TwinInv, matchmaking = "serialized" PROVE Cardinality(fresh) <= 1
    BY DEF NoTwinMatches
  <2>1. fresh \in SUBSET {lastCreated}
    BY DEF TwinInv
  <2>2. Cardinality(fresh) <= Cardinality({lastCreated})
    BY <2>1, FS_Singleton, FS_Subset
  <2>3. QED BY <2>2, FS_Singleton
<1>4. QED BY <1>1, <1>2, <1>3, SeatInvAlways, PTL DEF Spec
-----------------------------------------------------------------------------
(***************************************************************************)
(* The matches of matchmaking live the life that module Shooter implements *)
(* (module Lobby), although what happens to one is spread over steps of    *)
(* its clients and of its own: MatchJoin and MatchLeave have no guard that *)
(* the match is up, for UpInv says that whoever is inside keeps it up.     *)
(***************************************************************************)
UpInv ==
  /\ \A c \in Clients : stage[c] \in Within => lobby[dest[c]].life = "up"
  /\ \A m \in Matches : lobby[m].life = "unborn" => lobby[m] = Unborn

\* The birth of match m, or a step of Lobby.  Of a closed match only its being
\* closed is kept.
LivesOn(m) ==
  \/ lobby[m] = Unborn /\ lobby'[m] = NewLobby
  \/ /\ lobby[m].life = "up"
     /\ \/ \E U \in SUBSET Users :
             U # {} /\ lobby'[m] \in {Entered(lobby[m], U), Exited(lobby[m], U)}
        \/ /\ lobby[m].started /\ ~lobby[m].over
           /\ lobby'[m] = Decided(lobby[m])
        \/ MayClose(lobby[m]) /\ lobby'[m].life = "closed"

LivesStep == \A m \in Matches : lobby'[m] # lobby[m] => LivesOn(m)

MatchesLive == [][LivesStep]_vars

LEMMA LivesOnStep ==
  ASSUME Typed, UpInv, [Next]_vars PROVE LivesStep
<1> SUFFICES ASSUME NEW m \in Matches, lobby'[m] # lobby[m] PROVE LivesOn(m)
  BY DEF LivesStep
<1> USE DEF Typed
<1>1. ASSUME NEW c \in Clients, MatchCreate(c) \/ CreateMatch(c) PROVE LivesOn(m)
  <2>1. PICK k \in NewIds : lobby' = [lobby EXCEPT ![k] = NewLobby]
    BY <1>1 DEF MatchCreate, CreateMatch
  <2>2. k = m /\ lobby[m].life = "unborn" /\ lobby'[m] = NewLobby
    BY <2>1 DEF NewIds, LobbyTyped
  <2>3. QED BY <2>2 DEF UpInv, LivesOn
<1>2. ASSUME NEW c \in Clients, MatchJoin(c) \/ MatchLeave(c) PROVE LivesOn(m)
  <2>1. /\ {UserOf[c]} \in SUBSET Users /\ {UserOf[c]} # {}
        /\ stage[c] \in Within
    BY <1>2, Ids, StageFacts DEF MatchJoin, MatchLeave
  <2>2. dest[c] = m
    BY <1>2 DEF MatchJoin, MatchLeave, LobbyTyped
  <2>3. lobby'[m] \in {Entered(lobby[m], {UserOf[c]}), Exited(lobby[m], {UserOf[c]})}
    <3>1. CASE MatchJoin(c)
      <4>1. lobby' = [lobby EXCEPT ![m] = Entered(lobby[m], {UserOf[c]})]
        BY <2>2, <3>1 DEF MatchJoin
      <4>2. QED BY <4>1 DEF LobbyTyped
    <3>2. CASE MatchLeave(c)
      <4>1. lobby' = [lobby EXCEPT ![m] = Exited(lobby[m], {UserOf[c]})]
        BY <2>2, <3>2 DEF MatchLeave
      <4>2. QED BY <4>1 DEF LobbyTyped
    <3>3. QED BY <1>2, <3>1, <3>2
  <2>4. lobby[m].life = "up"
    BY <2>1, <2>2 DEF UpInv
  <2>5. QED BY <2>1, <2>3, <2>4 DEF LivesOn
<1>3. ASSUME NEW k \in Matches, Decide(k) PROVE LivesOn(m)
  <2>1. k = m
    BY <1>3 DEF Decide, LobbyTyped
  <2>2. lobby' = [lobby EXCEPT ![m] = Decided(lobby[m])]
    BY <1>3, <2>1 DEF Decide
  <2>3. lobby'[m] = Decided(lobby[m])
    BY <2>2 DEF LobbyTyped
  <2>4. QED BY <1>3, <2>1, <2>3 DEF Decide, LivesOn
<1>4. ASSUME NEW k \in Matches, Close(k) PROVE LivesOn(m)
  <2>1. k = m /\ lobby'[m] = Closed(NewLobby)
    BY <1>4 DEF Close, LobbyTyped
  <2>2. QED BY <1>4, <2>1, LobbyTypes DEF Close, LivesOn
<1>5. CASE UNCHANGED vars \/ Advance \/ \E k \in Matches : Reindex(k)
  BY <1>5 DEF vars, Advance, Reindex
<1>6. ASSUME NEW c \in Clients, Own(c)
      PROVE  \/ lobby' = lobby \/ MatchCreate(c) \/ CreateMatch(c)
             \/ MatchJoin(c) \/ MatchLeave(c)
  BY <1>6 DEF Own, CallStep, ClientStep, Begin, SkipLast, MatchGet, MatchGone, MatchList,
     CheckLast, Scan, Reply, MatchListFails, NoneJoinable, MatchCreateFails, Call,
     Admitted, Refused, NeverComes, Arrive, Disconnect
<1>7. QED
  BY <1>1, <1>2, <1>3, <1>4, <1>5, <1>6 DEF Next, Own

LEMMA StaysUp ==
  ASSUME Core, LobbyTyped, [Next]_vars, NEW m \in Matches, lobby[m].life = "up",
         ~Close(m)
  PROVE  lobby'[m].life = "up"
<1>1. ASSUME NEW c \in Clients, MatchCreate(c) \/ CreateMatch(c)
      PROVE  lobby'[m].life = "up"
  BY <1>1, LobbyTypes DEF MatchCreate, CreateMatch, LobbyTyped
<1>2. ASSUME NEW c \in Clients, MatchJoin(c) \/ MatchLeave(c)
      PROVE  lobby'[m].life = "up"
  <2>1. CASE dest[c] # m
    BY <1>2, <2>1 DEF MatchJoin, MatchLeave, LobbyTyped
  <2>2. CASE dest[c] = m
    <3>1. lobby[m] \in Lobbies /\ {UserOf[c]} \in SUBSET Users
      BY Ids DEF LobbyTyped
    <3>2. /\ Entered(lobby[m], {UserOf[c]}).life = "up"
          /\ Exited(lobby[m], {UserOf[c]}).life = "up"
      BY <3>1, LobbyUpdates
    <3>3. \/ lobby' = [lobby EXCEPT ![m] = Entered(lobby[m], {UserOf[c]})]
          \/ lobby' = [lobby EXCEPT ![m] = Exited(lobby[m], {UserOf[c]})]
      BY <1>2, <2>2 DEF MatchJoin, MatchLeave
    <3>4. QED BY <3>2, <3>3 DEF LobbyTyped
  <2>3. QED BY <2>1, <2>2
<1>3. ASSUME NEW k \in Matches, Decide(k) PROVE lobby'[m].life = "up"
  <2>1. lobby' = [lobby EXCEPT ![k] = Decided(lobby[k])] /\ lobby[k] \in Lobbies
    BY <1>3 DEF Decide, LobbyTyped
  <2>2. Decided(lobby[k]).life = lobby[k].life
    BY <2>1, LobbyUpdates
  <2>3. QED BY <2>1, <2>2 DEF LobbyTyped
<1>4. ASSUME NEW k \in Matches, Close(k) PROVE lobby'[m].life = "up"
  BY <1>4 DEF Close, LobbyTyped
<1>5. CASE UNCHANGED vars \/ Advance \/ \E k \in Matches : Reindex(k)
  BY <1>5 DEF vars, Advance, Reindex
<1>6. ASSUME NEW c \in Clients, Own(c)
      PROVE  \/ lobby' = lobby \/ MatchCreate(c) \/ CreateMatch(c)
             \/ MatchJoin(c) \/ MatchLeave(c)
  BY <1>6 DEF Own, CallStep, ClientStep, Begin, SkipLast, MatchGet, MatchGone, MatchList,
     CheckLast, Scan, Reply, MatchListFails, NoneJoinable, MatchCreateFails, Call,
     Admitted, Refused, NeverComes, Arrive, Disconnect
<1>7. QED
  BY <1>1, <1>2, <1>3, <1>4, <1>5, <1>6 DEF Next, Own

LEMMA UpStep ==
  ASSUME Typed, UpInv, [Next]_vars PROVE UpInv'
<1> USE DEF Typed
<1>1. ASSUME NEW m \in Matches PROVE lobby'[m] = lobby[m] \/ LivesOn(m)
  BY LivesOnStep DEF LivesStep
<1>2. ASSUME NEW m \in Matches, LivesOn(m) PROVE lobby'[m].life \in {"up", "closed"}
  <2>1. lobby[m] \in Lobbies
    BY DEF LobbyTyped
  <2>2. \A U \in SUBSET Users :
          /\ Entered(lobby[m], U).life = lobby[m].life
          /\ Exited(lobby[m], U).life = lobby[m].life
          /\ Decided(lobby[m]).life = lobby[m].life
    BY <2>1, LobbyUpdates
  <2>3. QED BY <1>2, <2>2, LobbyTypes DEF LivesOn
<1>3. \A m \in Matches : lobby'[m].life = "unborn" => lobby'[m] = Unborn
  BY <1>1, <1>2 DEF UpInv
<1>4. ASSUME NEW c \in Clients, stage'[c] \in Within
      PROVE  lobby'[dest'[c]].life = "up"
  <2>1. dest'[c] = dest[c] /\ (stage[c] \in Within \/ Arrive(c))
    BY <1>4, ToWithin
  <2>2. dest[c] \in Matches /\ lobby[dest[c]].life = "up"
    <3>1. stage[c] \in Placed
      BY <2>1, StageFacts DEF Arrive, Placed
    <3>2. QED BY <2>1, <3>1 DEF UpInv, Arrive, Core, CallsTyped
  <2>3. ~Close(dest[c])
    <3>1. SUFFICES ASSUME Close(dest[c]) PROVE stage'[c] = "idle"
      BY <1>4, StageFacts
    <3>2. stage[c] \in Within
      <4>1. lobby'[dest[c]].life = "closed"
        BY <2>2, <3>1, LobbyTypes DEF Close, LobbyTyped
      <4>2. ~Arrive(c)
        BY <2>2, <4>1 DEF Arrive
      <4>3. QED BY <2>1, <4>2
    <3>3. QED BY <3>1, <3>2 DEF Close
  <2>4. QED BY <2>1, <2>2, <2>3, StaysUp
<1>5. QED BY <1>3, <1>4 DEF UpInv

\* Everything that happens to a match in matchmaking is something that the
\* match handler does by itself (match_handler.go): a birth, then steps of the
\* Lobby that Shooter implements.
THEOREM MatchesLiveAsLobby == Spec => MatchesLive
<1>1. Init => UpInv
  <2> SUFFICES ASSUME Init PROVE UpInv
    OBVIOUS
  <2>1. \A c \in Clients : stage[c] \notin Within
    BY StageFacts DEF Init
  <2>2. QED BY <2>1 DEF Init, UpInv
<1>2. Typed /\ UpInv /\ [Next]_vars => UpInv' /\ LivesStep
  BY UpStep, LivesOnStep
<1>3. QED BY <1>1, <1>2, TypedAlways, PTL DEF Spec, MatchesLive

\* matchmakingMu, taken for the whole of rpcFindMatch, lets one call run at a
\* time in every mode but naive (find_match.go:91).
OneAtATime ==
  matchmaking # "naive" =>
    \A c, e \in Clients : stage[c] \in Running /\ stage[e] \in Running => c = e

THEOREM OneCallAtATime == Spec => []OneAtATime
<1>1. Typed => OneAtATime
  BY OneRuns DEF Typed, Core, OneAtATime
<1>2. QED BY <1>1, TypedAlways, PTL
=============================================================================
