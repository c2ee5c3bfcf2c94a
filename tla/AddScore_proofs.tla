--------------------------- MODULE AddScore_proofs ---------------------------
(***************************************************************************)
(* Proofs about AddScore, for any number of concurrent calls.  The user is *)
(* one who has a stored score; for the first write nothing is promised.    *)
(***************************************************************************)
EXTENDS AddScore, TLAPS

\* The user has scored before: every object the storage may start with exists.
HasScored == {} \notin Stored

\* Only valid requests get past the check, and what is read before a write is
\* an object, so that its version is never empty.
CallInv(c) ==
  /\ stage[c] \in {"reading", "writing"} => Valid(points[c])
  /\ stage[c] = "writing" => objects[c] # {}

\* The object is never lost, and the score it holds counts every answer.
ScoreInv == TypeOK /\ object # {} /\ NothingLost /\ \A c \in Calls : CallInv(c)

-----------------------------------------------------------------------------
(* Lemmas about the objects read.                                          *)

\* The score of an object is the one it holds.
LEMMA ScoreOfOne == ASSUME NEW n PROVE Score({n}) = n
BY DEF Score

\* Objects read are a natural number, or none.
LEMMA FoundIsOne ==
  ASSUME NEW found, IsFound(found), found # {}
  PROVE  \E n \in Nat : found = {n}
<1>1. PICK n \in Nat : n \in found
  BY DEF IsFound
<1>2. found = {n}
  BY <1>1 DEF IsFound
<1> QED
  BY <1>2

\* Objects hold a natural score, 0 when there are none.
LEMMA ScoreIsNat == ASSUME NEW found, IsFound(found) PROVE Score(found) \in Nat
<1>1. CASE found = {}
  BY <1>1 DEF Score
<1>2. CASE found # {}
  BY <1>2, FoundIsOne, ScoreOfOne
<1> QED
  BY <1>1, <1>2

\* One object of a natural score may be found.
LEMMA OneIsFound == ASSUME NEW n \in Nat PROVE IsFound({n})
BY DEF IsFound
-----------------------------------------------------------------------------
(* The invariant.                                                          *)

LEMMA InitScore == ASSUME HasScored, Init PROVE ScoreInv
<1> USE ScoreAssumption DEF ScoreAssumption
<1>1. IsFound(object) /\ object # {}
  BY DEF Init, HasScored
<1>2. base \in Nat /\ added = 0
  BY <1>1, ScoreIsNat DEF Init
<1>3. NothingLost
  BY <1>2 DEF NothingLost, Init
<1>4. TypeOK
  <2>1. IsFound({})
    BY DEF IsFound
  <2> QED
    BY <1>1, <1>2, <2>1 DEF TypeOK, Init, Stages
<1>5. \A c \in Calls : CallInv(c)
  BY DEF CallInv, Init
<1> QED
  BY <1>1, <1>3, <1>4, <1>5 DEF ScoreInv

\* A failing call changes nothing but its stage.
LEMMA FailKeeps ==
  ASSUME NEW c \in Calls, ScoreInv, Fail(c) PROVE ScoreInv'
<1>1. TypeOK'
  BY DEF ScoreInv, TypeOK, Fail, Go, Stages, IsFound
<1>2. NothingLost'
  BY DEF ScoreInv, NothingLost, Fail
<1>3. ASSUME NEW d \in Calls PROVE CallInv(d)'
  BY DEF ScoreInv, TypeOK, CallInv, Valid, Fail, Go
<1> QED
  BY <1>1, <1>2, <1>3 DEF ScoreInv, Fail

\* A write adds the points asked for to the score, and answers with the sum.
LEMMA WriteRaises ==
  ASSUME NEW c \in Calls, ScoreInv, StorageWrite(c)
  PROVE  /\ points[c] \in Nat
         /\ Score(object) \in Nat /\ Score(object') \in Nat
         /\ Score(object') = Score(object) + points[c]
         /\ Score(object) < Score(object')
         /\ object' = {Score(object')}
         /\ newScore' = [newScore EXCEPT ![c] = Score(object')]
<1> USE ScoreAssumption DEF ScoreAssumption
<1>1. objects[c] = object
  BY DEF StorageWrite, Accepts, WriteVersion, Version, ScoreInv, CallInv
<1>2. points[c] \in Int /\ 0 < points[c]
  <2>1. points[c] \in Points \cup {0} /\ Points \subseteq Int
    BY DEF ScoreInv, TypeOK
  <2>2. 0 < points[c]
    BY DEF StorageWrite, ScoreInv, CallInv, Valid
  <2>3. points[c] \in Int
    <3>1. CASE points[c] \in Points
      BY <2>1, <3>1, Zenon
    <3>2. CASE points[c] = 0
      <4>1. 0 \in Int
        OBVIOUS
      <4> QED
        BY <3>2, <4>1, Zenon
    <3> QED
      BY <2>1, <3>1, <3>2
  <2> QED
    BY <2>2, <2>3
<1>3. Score(object) \in Nat
  BY ScoreIsNat DEF ScoreInv, TypeOK
<1>4. Score(object') = Sum(c) /\ Sum(c) = Score(object) + points[c]
  BY <1>1, ScoreOfOne DEF StorageWrite, Sum
<1>5. Score(object') \in Nat /\ Score(object) < Score(object')
  BY <1>2, <1>3, <1>4
<1> QED
  <2>1. points[c] \in Nat
    BY <1>2
  <2>2. object' = {Score(object')}
    BY <1>4 DEF StorageWrite
  <2>3. newScore' = [newScore EXCEPT ![c] = Score(object')]
    BY <1>4 DEF StorageWrite
  <2>4. Score(object') = Score(object) + points[c]
    BY <1>4
  <2> QED
    BY <1>3, <1>5, <2>1, <2>2, <2>3, <2>4

LEMMA NextScore == ASSUME ScoreInv, [Next]_vars PROVE ScoreInv'
<1> USE ScoreAssumption DEF ScoreAssumption
<1>1. ASSUME NEW c \in Calls, Request(c) PROVE ScoreInv'
  <2>1. TypeOK'
    BY <1>1 DEF ScoreInv, TypeOK, Request, Go, Stages, IsFound
  <2>2. NothingLost'
    BY <1>1 DEF ScoreInv, NothingLost, Request
  <2>3. ASSUME NEW d \in Calls PROVE CallInv(d)'
    BY <1>1 DEF ScoreInv, TypeOK, CallInv, Valid, Request, Go
  <2> QED
    BY <1>1, <2>1, <2>2, <2>3 DEF ScoreInv, Request
<1>2. ASSUME NEW c \in Calls, StorageRead(c) PROVE ScoreInv'
  <2>0. \A d \in Calls : IsFound(objects'[d])
    BY <1>2 DEF ScoreInv, TypeOK, StorageRead
  <2>1. TypeOK'
    <3>1. objects' \in [Calls -> SUBSET Nat]
      BY <1>2 DEF ScoreInv, TypeOK, StorageRead, IsFound
    <3> QED
      BY <1>2, <2>0, <3>1 DEF ScoreInv, TypeOK, StorageRead, Go, Stages
  <2>2. NothingLost'
    BY <1>2 DEF ScoreInv, NothingLost, StorageRead
  <2>3. ASSUME NEW d \in Calls PROVE CallInv(d)'
    <3>1. Valid(points[d]) \/ stage'[d] \notin {"reading", "writing"}
      BY <1>2 DEF ScoreInv, TypeOK, CallInv, StorageRead, Go, Stages
    <3>2. stage'[d] = "writing" => objects'[d] # {}
      <4>1. CASE d = c
        BY <1>2, <4>1 DEF ScoreInv, TypeOK, StorageRead
      <4>2. CASE d # c
        BY <1>2, <4>2 DEF ScoreInv, TypeOK, CallInv, StorageRead, Go
      <4> QED
        BY <4>1, <4>2
    <3> QED
      BY <1>2, <3>1, <3>2 DEF CallInv, StorageRead, Valid
  <2> QED
    BY <1>2, <2>1, <2>2, <2>3 DEF ScoreInv, StorageRead
<1>3. ASSUME NEW c \in Calls, StorageWrite(c) PROVE ScoreInv'
  <2>1. NothingLost'
    <3>1. base + (added + points[c]) = (base + added) + points[c]
      BY <1>3, WriteRaises DEF ScoreInv, TypeOK
    <3> QED
      BY <1>3, <3>1, WriteRaises DEF StorageWrite, ScoreInv, NothingLost
  <2>2. IsFound(object')
    BY <1>3, WriteRaises, OneIsFound
  <2>3. TypeOK'
    <3>1. stage' \in [Calls -> Stages] /\ newScore' \in [Calls -> Nat]
      BY <1>3, WriteRaises DEF ScoreInv, TypeOK, StorageWrite, Go, Stages
    <3>2. added' \in Nat
      <4>1. added \in Nat /\ added' = added + points[c]
        BY <1>3 DEF ScoreInv, TypeOK, StorageWrite
      <4> HIDE DEF ScoreAssumption
      <4> QED
        BY <1>3, <4>1, WriteRaises
    <3> QED
      BY <1>3, <2>2, <3>1, <3>2 DEF ScoreInv, TypeOK, StorageWrite
  <2>4. ASSUME NEW d \in Calls PROVE CallInv(d)'
    BY <1>3 DEF ScoreInv, TypeOK, CallInv, Valid, StorageWrite, Go
  <2> QED
    BY <1>3, <2>1, <2>3, <2>4 DEF ScoreInv, StorageWrite
<1>4. ASSUME NEW c \in Calls, StorageReadFails(c) PROVE ScoreInv'
  BY <1>4, FailKeeps DEF StorageReadFails
<1>5. ASSUME NEW c \in Calls, StorageWriteFails(c) PROVE ScoreInv'
  BY <1>5, FailKeeps DEF StorageWriteFails
<1>6. CASE UNCHANGED vars
  <2>1. TypeOK' /\ NothingLost'
    BY <1>6 DEF ScoreInv, TypeOK, NothingLost, vars, IsFound
  <2>2. ASSUME NEW d \in Calls PROVE CallInv(d)'
    BY <1>6 DEF ScoreInv, CallInv, Valid, vars
  <2> QED
    BY <1>6, <2>1, <2>2 DEF ScoreInv, vars
<1> QED
  BY <1>1, <1>2, <1>3, <1>4, <1>5, <1>6 DEF Next, Step
\* Answers stay scores the user has had, each of them given once.
LEMMA NextAnswers ==
  ASSUME ScoreInv, AnswersDistinct, [Next]_vars PROVE AnswersDistinct'
<1>1. ASSUME NEW c \in Calls, StorageWrite(c) PROVE AnswersDistinct'
  <2>1. \A d \in Calls :
          stage'[d] = "answered" =>
            \/ d = c /\ newScore'[d] = Score(object')
            \/ d # c /\ newScore'[d] = newScore[d] /\ stage[d] = "answered"
    BY <1>1, WriteRaises DEF StorageWrite, Go, ScoreInv, TypeOK
  <2>2. \A d \in Calls :
          stage[d] = "answered" => newScore[d] \in Nat /\ newScore[d] < Score(object')
    BY <1>1, WriteRaises DEF AnswersDistinct, ScoreInv, TypeOK
  <2> QED
    BY <1>1, <2>1, <2>2, WriteRaises DEF AnswersDistinct
<1>2. ASSUME NEW c \in Calls, Step(c), ~StorageWrite(c) PROVE AnswersDistinct'
  <2>1. newScore' = newScore /\ object' = object
    BY <1>2 DEF Step, Request, StorageRead, StorageReadFails, StorageWriteFails, Fail
  <2>2. \A d \in Calls : stage'[d] = "answered" => stage[d] = "answered"
    BY <1>2 DEF Step, Request, StorageRead, StorageReadFails, StorageWriteFails,
                Fail, Go, ScoreInv, TypeOK
  <2> QED
    BY <2>1, <2>2 DEF AnswersDistinct
<1>3. CASE UNCHANGED vars
  BY <1>3 DEF AnswersDistinct, vars
<1> QED
  BY <1>1, <1>2, <1>3 DEF Next
-----------------------------------------------------------------------------
(* Theorems.                                                               *)

\* No answered addition is lost or counted twice, however many calls of a user
\* with a stored score overlap (add_score.go:66-69, the version of the write).
THEOREM AdditionsKept == ASSUME HasScored PROVE Spec => []NothingLost
<1>1. Init => ScoreInv
  BY InitScore
<1>2. ScoreInv /\ [Next]_vars => ScoreInv'
  BY NextScore
<1>3. ScoreInv => NothingLost
  BY DEF ScoreInv
<1> QED
  BY <1>1, <1>2, <1>3, PTL DEF Spec

\* Every variable keeps its type; in particular the storage holds one score, a
\* natural number, although a request may ask for negative points.
THEOREM ScoreTyped == ASSUME HasScored PROVE Spec => []TypeOK
<1>1. Init => ScoreInv
  BY InitScore
<1>2. ScoreInv /\ [Next]_vars => ScoreInv'
  BY NextScore
<1>3. ScoreInv => TypeOK
  BY DEF ScoreInv
<1> QED
  BY <1>1, <1>2, <1>3, PTL DEF Spec

\* No two calls of a user with a stored score are given the same answer, and
\* none an answer above the stored score (add_score.go:88).
THEOREM AnswersKept == ASSUME HasScored PROVE Spec => []AnswersDistinct
<1>1. Init => ScoreInv /\ AnswersDistinct
  BY InitScore DEF Init, AnswersDistinct
<1>2. ScoreInv /\ AnswersDistinct /\ [Next]_vars => ScoreInv' /\ AnswersDistinct'
  BY NextScore, NextAnswers
<1> QED
  BY <1>1, <1>2, PTL DEF Spec
=============================================================================
