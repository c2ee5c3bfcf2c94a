-------------------------------- MODULE Seats --------------------------------
(***************************************************************************)
(* The seats map of find_match.go: match id -> user id -> expiry.  Each    *)
(* operator is one function of that file that locks seatsMu, as the value  *)
(* of the map when it returns.                                             *)
(***************************************************************************)
EXTENDS Naturals, FiniteSets, Functions

CONSTANT sweepThreshold     \* 512, a literal in sweepSeats

ASSUME SweepAssumption == sweepThreshold \in Nat \ {0}

NoSeats == [k \in {} |-> 0]

SeatsOf(held, m) == IF m \in DOMAIN held THEN held[m] ELSE NoSeats

\* The map with the inner map of m replaced; a match without a seat has no entry.
WithSeats(held, m, inner) ==
  IF DOMAIN inner = {}
  THEN Restrict(held, DOMAIN held \ {m})
  ELSE [k \in DOMAIN held \cup {m} |-> IF k = m THEN inner ELSE held[k]]

HoldSeat(held, m, u, expiry) ==
  WithSeats(held, m,
            [v \in DOMAIN SeatsOf(held, m) \cup {u} |->
               IF v = u THEN expiry ELSE SeatsOf(held, m)[v]])

\* Mutant of ReleaseSeat: the emptied inner map stays in the map.
ReleaseSeatOnly(held, m, u) ==
  [k \in DOMAIN held |->
     IF k = m THEN Restrict(held[m], DOMAIN held[m] \ {u}) ELSE held[k]]

ReleaseSeat(held, m, u) ==
  WithSeats(held, m, Restrict(SeatsOf(held, m), DOMAIN SeatsOf(held, m) \ {u}))

\* The users whose seat in m has not expired: those pruneLocked keeps.
Unexpired(held, m, now) ==
  {u \in DOMAIN SeatsOf(held, m) : SeatsOf(held, m)[u] > now}

PruneLocked(held, m, now) ==
  WithSeats(held, m, Restrict(SeatsOf(held, m), Unexpired(held, m, now)))

LiveSeats(held, m, now) == Cardinality(Unexpired(held, m, now))

\* Mutant of SweepSeats: one entry too many before it sweeps.
SweepSeatsLate(held, now) ==
  IF Cardinality(DOMAIN held) <= sweepThreshold
  THEN held
  ELSE [m \in {k \in DOMAIN held : Unexpired(held, k, now) # {}} |->
          Restrict(held[m], Unexpired(held, m, now))]

SweepSeats(held, now) ==
  IF Cardinality(DOMAIN held) < sweepThreshold
  THEN held
  ELSE [m \in {k \in DOMAIN held : Unexpired(held, k, now) # {}} |->
          Restrict(held[m], Unexpired(held, m, now))]
=============================================================================
