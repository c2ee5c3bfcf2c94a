------------------------------ MODULE AddScore ------------------------------
(***************************************************************************)
(* Concurrent add_score calls of one user (add_score.go): each reads the   *)
(* stored score, adds the points and writes the sum back under the version *)
(* it has read.  Objects of different users do not interact.               *)
(***************************************************************************)
EXTENDS Integers, Storage

CONSTANTS
  Calls,        \* add_score requests
  Points,       \* points a request may ask for, valid or not
  maxPoints,    \* 100
  Stored,       \* what the storage may hold to begin with: {} or {score}
  Failing       \* platform calls that may return an error

\* What a read of the storage may return: no score or one.
IsFound(found) == found \subseteq Nat /\ \A m, n \in found : m = n

ASSUME ScoreAssumption ==
  /\ Points \subseteq Int /\ maxPoints \in Nat \ {0}
  /\ \A found \in Stored : IsFound(found)
  /\ Failing \subseteq {"StorageRead", "StorageWrite"}

VARIABLES
  object,     \* the stored player_score: {} or {score}
  stage,      \* how far each call is
  points,     \* request: points asked for
  objects,    \* what each call has read
  newScore,   \* what each call has answered
  base,       \* history: the score to begin with
  added       \* history: points of the calls that were answered

vars == <<object, stage, points, objects, newScore, base, added>>

Stages == {"new", "reading", "writing", "answered", "failed"}

\* The score in the objects read; 0 when there is none.
Score(found) == IF found = {} THEN 0 ELSE CHOOSE n \in found : TRUE

Init ==
  /\ object \in Stored
  /\ stage = [c \in Calls |-> "new"]
  /\ points = [c \in Calls |-> 0]
  /\ objects = [c \in Calls |-> {}]
  /\ newScore = [c \in Calls |-> 0]
  /\ base = Score(object) /\ added = 0

Go(c, s) == stage' = [stage EXCEPT ![c] = s]

Fail(c) ==
  /\ Go(c, "failed")
  /\ UNCHANGED <<object, points, objects, newScore, base, added>>

\* Mutant of Valid: negative points pass.
ValidBelow(p) == p <= maxPoints

Valid(p) == 0 < p /\ p <= maxPoints

Request(c) ==
  /\ stage[c] = "new"
  /\ \E p \in Points :
       /\ points' = [points EXCEPT ![c] = p]
       /\ Go(c, IF Valid(p) THEN "reading" ELSE "failed")
  /\ UNCHANGED <<object, objects, newScore, base, added>>

StorageRead(c) ==
  /\ stage[c] = "reading"
  /\ objects' = [objects EXCEPT ![c] = object]
  /\ Go(c, "writing")
  /\ UNCHANGED <<object, points, newScore, base, added>>

StorageReadFails(c) ==
  stage[c] = "reading" /\ "StorageRead" \in Failing /\ Fail(c)

Sum(c) == Score(objects[c]) + points[c]

\* Mutants of WriteVersion: no version is sent; the version of the new score is.
NoVersion(c) == {}
NewVersion(c) == Version({Sum(c)})

WriteVersion(c) == Version(objects[c])

StorageWrite(c) ==
  /\ stage[c] = "writing"
  /\ Accepts(object, WriteVersion(c))
  /\ object' = {Sum(c)}
  /\ newScore' = [newScore EXCEPT ![c] = Sum(c)]
  /\ added' = added + points[c]
  /\ Go(c, "answered")
  /\ UNCHANGED <<points, objects, base>>

\* The version does not match any more, or the storage fails.
StorageWriteFails(c) ==
  /\ stage[c] = "writing"
  /\ ~Accepts(object, WriteVersion(c)) \/ "StorageWrite" \in Failing
  /\ Fail(c)

Step(c) ==
  \/ Request(c)
  \/ StorageRead(c) \/ StorageReadFails(c)
  \/ StorageWrite(c) \/ StorageWriteFails(c)

Next == \E c \in Calls : Step(c)

Spec == Init /\ [][Next]_vars

\* A running call proceeds.
FairSpec == Spec /\ \A c \in Calls : WF_vars(Step(c))
-----------------------------------------------------------------------------
(* Properties.                                                             *)

\* Every variable has its type, and the storage never holds two scores.
TypeOK ==
  /\ IsFound(object)
  /\ stage \in [Calls -> Stages]
  /\ points \in [Calls -> Points \cup {0}]
  /\ objects \in [Calls -> SUBSET Nat] /\ \A c \in Calls : IsFound(objects[c])
  /\ newScore \in [Calls -> Nat]
  /\ base \in Nat /\ added \in Nat

\* "Adds points to the caller's stored score" (README.md:76): whatever calls
\* overlap, the stored score is the first one plus the points of every call
\* that was answered, none lost and none counted twice.
NothingLost == Score(object) = base + added

\* Answers are scores the user has really had, and no two calls are given
\* the same one: each answered call has seen its own points added.
AnswersDistinct ==
  \A c, d \in Calls :
    /\ stage[c] = "answered" => newScore[c] <= Score(object)
    /\ stage[c] = "answered" /\ stage[d] = "answered" /\ c # d
         => newScore[c] # newScore[d]

\* Calls that collide do not all lose: a write is refused only because another
\* call was answered, so as soon as one call has read, some call is answered.
\* Needs a storage whose writes do not fail by themselves.
SomebodyWins ==
  (\E c \in Calls : stage[c] = "writing") ~> (\E c \in Calls : stage[c] = "answered")
=============================================================================
