--------------------------- MODULE Rewards_proofs ---------------------------
(***************************************************************************)
(* Proofs about Rewards, for any number of overlapping calls, any length   *)
(* of the day and any failures of the platform.                            *)
(***************************************************************************)
EXTENDS Rewards, Integers, TLAPS

\* The user has claimed before, and the copies in use share the field that
\* the claim is stored in.
HasClaimed ==
  \A start \in Starts :
    /\ start.object # {}
    /\ \A name \in start.copies, claim \in start.object :
         claim[FieldName(name)] # Never
    /\ \A name, other \in start.copies : FieldName(name) = FieldName(other)

-----------------------------------------------------------------------------
(* Types.                                                                  *)

\* Objects found by some time may be found later.
LEMMA FoundLater ==
  ASSUME NEW found, NEW s \in Nat, NEW t \in Nat, s <= t, IsFound(found, s)
  PROVE  IsFound(found, t)
<1>1. 0..s \subseteq 0..t
  OBVIOUS
<1>2. [Fields -> 0..s] \subseteq [Fields -> 0..t]
  BY <1>1
<1> QED
  BY <1>2 DEF IsFound

\* The claim a call is about to write is a claim of a time up to the present.
LEMMA ClaimTyped ==
  ASSUME TypeOK, NEW c \in Calls
  PROVE  /\ FieldOf(c) \in Fields
         /\ Claim(c) \in [Fields -> 0..clock]
         /\ Claim(c)[FieldOf(c)] = now[c]
<1>1. FieldOf(c) \in Fields
  BY DEF FieldOf, FieldName, Fields
<1>2. now[c] \in 0..clock /\ clock \in Nat /\ 0 \in 0..clock
  BY DEF TypeOK
<1> DEFINE fresh == [f \in Fields |-> Never]
           old == IF objects[c] = {} THEN fresh ELSE CHOOSE o \in objects[c] : TRUE
           from == IF copy[c] = "go" THEN fresh ELSE old
<1>3. fresh \in [Fields -> 0..clock]
  BY <1>2 DEF Never
<1>4. old \in [Fields -> 0..clock]
  <2>1. CASE objects[c] = {}
    BY <1>3, <2>1
  <2>2. CASE objects[c] # {}
    <3>1. old \in objects[c]
      BY <2>2
    <3> QED
      BY <3>1 DEF TypeOK, IsFound
  <2> QED
    BY <2>1, <2>2
<1>5. from \in [Fields -> 0..clock]
  BY <1>3, <1>4
<1>6. Claim(c) = [from EXCEPT ![FieldOf(c)] = now[c]]
  BY DEF Claim
<1> HIDE DEF from
<1> QED
  BY <1>1, <1>2, <1>5, <1>6

LEMMA InitTyped == Init => TypeOK
<1> SUFFICES ASSUME Init PROVE TypeOK
  OBVIOUS
<1> USE RewardAssumption DEF RewardAssumption
<1>1. PICK start \in Starts : object = start.object /\ copy \in [Calls -> start.copies]
  BY DEF Init
<1>2. IsFound(object, clock) /\ copy \in [Calls -> Copies]
  BY <1>1 DEF Init
<1>3. IsFound({}, clock)
  BY DEF IsFound
<1>4. clock \in Nat /\ 0 \in 0..clock
  BY DEF Init
<1> QED
  BY <1>2, <1>3, <1>4 DEF Init, TypeOK, Stages

LEMMA NextTyped == TypeOK /\ [Next]_vars => TypeOK'
<1> SUFFICES ASSUME TypeOK, [Next]_vars PROVE TypeOK'
  OBVIOUS
<1> USE RewardAssumption DEF RewardAssumption
<1>0. clock \in Nat /\ 0 \in 0..clock /\ clock \in 0..clock /\ 0..clock \subseteq Nat
  BY DEF TypeOK
<1>1. ASSUME NEW c \in Calls, StorageRead(c)
      PROVE  TypeOK'
  <2>1. object \in SUBSET [Fields -> Nat]
    <3>1. [Fields -> 0..clock] \subseteq [Fields -> Nat]
      BY <1>0
    <3> QED
      BY <3>1 DEF TypeOK, IsFound
  <2>2. objects' \in [Calls -> SUBSET [Fields -> Nat]]
    BY <1>1, <2>1 DEF StorageRead, TypeOK
  <2>3. \A d \in Calls : IsFound(objects'[d], clock)
    BY <1>1 DEF StorageRead, TypeOK
  <2>4. stage' \in [Calls -> Stages]
    BY <1>1 DEF StorageRead, Go, TypeOK, Stages
  <2>5. seen' \in [Calls -> SUBSET (0..clock)]
    BY <1>1 DEF StorageRead, TypeOK
  <2> QED
    BY <1>1, <2>2, <2>3, <2>4, <2>5 DEF StorageRead, TypeOK
<1>2. ASSUME NEW c \in Calls, Check(c)
      PROVE  TypeOK'
  <2>1. stage' \in [Calls -> Stages]
    BY <1>2 DEF Check, Go, TypeOK, Stages
  <2>2. today' \in [Calls -> 0..clock]
    BY <1>0, <1>2 DEF Check, TypeOK
  <2> QED
    BY <1>2, <2>1, <2>2 DEF Check, TypeOK
<1>3. ASSUME NEW c \in Calls, WalletUpdate(c)
      PROVE  TypeOK'
  <2>1. stage' \in [Calls -> Stages]
    BY <1>3 DEF WalletUpdate, Go, TypeOK, Stages
  <2> QED
    BY <1>3, <2>1 DEF WalletUpdate, TypeOK
<1>4. ASSUME NEW c \in Calls, NotificationsSend(c)
      PROVE  TypeOK'
  <2>1. stage' \in [Calls -> Stages]
    BY <1>4 DEF NotificationsSend, Go, TypeOK, Stages
  <2> QED
    BY <1>4, <2>1 DEF NotificationsSend, TypeOK
<1>5. ASSUME NEW c \in Calls, TakeTime(c)
      PROVE  TypeOK'
  <2>1. stage' \in [Calls -> Stages]
    BY <1>5 DEF TakeTime, Go, TypeOK, Stages
  <2>2. now' \in [Calls -> 0..clock]
    BY <1>0, <1>5 DEF TakeTime, Stamp, TypeOK
  <2> QED
    BY <1>5, <2>1, <2>2 DEF TakeTime, TypeOK
<1>6. ASSUME NEW c \in Calls, StorageWrite(c)
      PROVE  TypeOK'
  <2>1. stage' \in [Calls -> Stages]
    BY <1>6 DEF StorageWrite, Go, TypeOK, Stages
  <2>2. IsFound(object', clock)
    BY <1>6, ClaimTyped DEF StorageWrite, IsFound
  <2>3. recorded' \subseteq 0..clock
    BY <1>6 DEF StorageWrite, TypeOK
  <2> QED
    BY <1>6, <2>1, <2>2, <2>3 DEF StorageWrite, TypeOK
<1>7. ASSUME NEW c \in Calls, StorageWriteRefused(c) \/ SomeCallFails(c)
      PROVE  TypeOK'
  <2>1. stage' \in [Calls -> Stages]
    BY <1>7 DEF StorageWriteRefused, SomeCallFails, Fails, Go, TypeOK, Stages
  <2>2. UNCHANGED <<clock, object, copy, objects, today, now, paid, recorded, seen>>
    BY <1>7 DEF StorageWriteRefused, SomeCallFails, Fails
  <2> QED
    BY <2>1, <2>2 DEF TypeOK
<1>8. CASE Tick
  <2>1. clock' \in Nat /\ clock <= clock' /\ 0..clock \subseteq 0..clock'
    BY <1>0, <1>8 DEF Tick
  <2>2. IsFound(object, clock') /\ \A d \in Calls : IsFound(objects[d], clock')
    BY <1>0, <2>1, FoundLater DEF TypeOK
  <2>3. today \in [Calls -> 0..clock'] /\ now \in [Calls -> 0..clock']
    BY <2>1 DEF TypeOK
  <2>4. recorded \subseteq 0..clock' /\ seen \in [Calls -> SUBSET (0..clock')]
    BY <2>1 DEF TypeOK
  <2> QED
    BY <1>8, <2>1, <2>2, <2>3, <2>4 DEF Tick, TypeOK
<1>9. CASE UNCHANGED vars
  BY <1>9 DEF vars, TypeOK, IsFound
<1> QED
  BY <1>1, <1>2, <1>3, <1>4, <1>5, <1>6, <1>7, <1>8, <1>9 DEF Next

\* The type invariant, and with it that no recorded claim lies in the future:
\* a claim is stamped with the time of its writing (daily_rewards.go:100).
THEOREM RewardTyped == Spec => []TypeOK
  BY InitTyped, NextTyped, PTL DEF Spec

-----------------------------------------------------------------------------
(* The claims recorded and the claim stored.                               *)

\* The claim found, in the field the copies use, is the latest of times.
Latest(found, field, times) ==
  \A claim \in found :
    /\ claim[field] # Never
    /\ times # {} => claim[field] \in times
    /\ \A t \in times : t <= claim[field]


StoredInv ==
  /\ clock # 0 /\ object # {}
  /\ \A c \in Calls : Latest(object, FieldOf(c), recorded)

\* A call that goes on to write has read a claim: its write is refused unless
\* the object is still the one it has read, and its claim is then the latest.
CallInv(c) ==
  /\ Latest(objects[c], FieldOf(c), seen[c])
  /\ stage[c] \notin {"new", "failed"} => objects[c] # {}
  /\ stage[c] = "writing" =>
       now[c] # 0 /\ \A claim \in objects[c] : claim[FieldOf(c)] <= now[c]
  /\ c \in paid => stage[c] \notin {"new", "read", "paying", "denied"}
  /\ c \in paid \/ stage[c] = "paying" =>
       \A t \in seen[c] : t < Midnight(today[c])
  /\ stage[c] = "denied" =>
       \/ \E t \in seen[c] : t >= Midnight(today[c])
       \/ seen[c] = {} /\ objects[c] # {} /\ LastClaim(c) >= Midnight(today[c])

ClaimInv ==
  /\ TypeOK /\ StoredInv
  /\ \A c, d \in Calls : FieldOf(c) = FieldOf(d)
  /\ \A c \in Calls : CallInv(c)

LEMMA MidnightInt == ASSUME NEW t \in Nat PROVE Midnight(t) \in Int
  BY RewardAssumption DEF RewardAssumption, Midnight

LEMMA CopyKept == [Next]_vars => copy' = copy
  BY DEF Next, vars, StorageRead, Check, WalletUpdate, NotificationsSend, TakeTime,
     StorageWrite, StorageWriteRefused, SomeCallFails, Fails, Tick

\* What a step leaves alone of a call keeps its invariant.
LEMMA CallKept ==
  ASSUME NEW c \in Calls, CallInv(c), copy' = copy,
         stage'[c] = stage[c], objects'[c] = objects[c], today'[c] = today[c],
         now'[c] = now[c], seen'[c] = seen[c], c \in paid' <=> c \in paid
  PROVE  CallInv(c)'
<1>1. FieldOf(c)' = FieldOf(c)
  BY DEF FieldOf
<1>2. LastClaim(c)' = LastClaim(c)
  BY <1>1 DEF LastClaim
<1>3. Latest(objects[c], FieldOf(c), seen[c])' <=> Latest(objects[c], FieldOf(c), seen[c])
  BY <1>1 DEF Latest
<1>4. Midnight(today[c])' = Midnight(today[c])
  BY DEF Midnight
<1> HIDE DEF Midnight, LastClaim, FieldOf, Latest
<1> QED
  BY <1>1, <1>2, <1>3, <1>4 DEF CallInv

\* A call that has read finds its last claim in the objects.
LEMMA LastClaimFound ==
  ASSUME TypeOK, NEW c \in Calls, objects[c] # {}
  PROVE  /\ \A claim \in objects[c] : claim[FieldOf(c)] = LastClaim(c)
         /\ LastClaim(c) \in Nat
<1>1. PICK claim \in objects[c] : TRUE
  OBVIOUS
<1>2. \A m \in objects[c] : m = claim
  BY <1>1 DEF TypeOK, IsFound
<1>3. LastClaim(c) = claim[FieldOf(c)]
  BY <1>1, <1>2 DEF LastClaim
<1>4. FieldOf(c) \in Fields
  BY DEF FieldOf, FieldName, Fields
<1>5. claim \in [Fields -> Nat]
  BY <1>1 DEF TypeOK
<1> QED
  BY <1>2, <1>3, <1>4, <1>5

LEMMA InitClaim == HasClaimed /\ Init => ClaimInv
<1> SUFFICES ASSUME HasClaimed, Init PROVE ClaimInv
  OBVIOUS
<1>1. TypeOK
  BY InitTyped
<1>2. PICK start \in Starts : object = start.object /\ copy \in [Calls -> start.copies]
  BY DEF Init
<1>3. StoredInv
  <2>1. clock # 0
    BY RewardAssumption DEF RewardAssumption, Init
  <2>2. \A c \in Calls : Latest(object, FieldOf(c), recorded)
    BY <1>2 DEF Init, Latest, HasClaimed, FieldOf
  <2> QED
    BY <1>2, <2>1, <2>2 DEF StoredInv, HasClaimed
<1>4. \A c, d \in Calls : FieldOf(c) = FieldOf(d)
  BY <1>2 DEF HasClaimed, FieldOf
<1>5. \A c \in Calls : CallInv(c)
  BY DEF Init, CallInv, Latest
<1> QED
  BY <1>1, <1>3, <1>4, <1>5 DEF ClaimInv

\* The calls that a step is not about keep their invariant.
LEMMA OthersKept ==
  ASSUME ClaimInv, copy' = copy, NEW c \in Calls, NEW d \in Calls, d # c,
         stage' = stage \/ \E s : Go(c, s),
         objects' = objects \/ \E v : objects' = [objects EXCEPT ![c] = v],
         today' = today \/ \E v : today' = [today EXCEPT ![c] = v],
         now' = now \/ \E v : now' = [now EXCEPT ![c] = v],
         seen' = seen \/ \E v : seen' = [seen EXCEPT ![c] = v],
         paid' = paid \/ paid' = paid \cup {c}
  PROVE  CallInv(d)'
<1>1. CallInv(d)
  BY DEF ClaimInv
<1>2. /\ stage'[d] = stage[d] /\ objects'[d] = objects[d] /\ today'[d] = today[d]
      /\ now'[d] = now[d] /\ seen'[d] = seen[d] /\ (d \in paid' <=> d \in paid)
  BY DEF Go, ClaimInv, TypeOK
<1> QED
  BY <1>1, <1>2, CallKept

\* A step that leaves the object alone keeps what is known of it.
LEMMA StoredKept ==
  ASSUME StoredInv, UNCHANGED <<object, recorded, copy>>, clock' # 0
  PROVE  StoredInv'
<1>1. \A c \in Calls : FieldOf(c)' = FieldOf(c)
  BY DEF FieldOf
<1> QED
  BY <1>1 DEF StoredInv, Latest

LEMMA ReadKeeps ==
  ASSUME ClaimInv, NEW c \in Calls, StorageRead(c) PROVE CallInv(c)'
<1>1. /\ objects'[c] = object /\ seen'[c] = recorded /\ stage'[c] = "read"
      /\ copy' = copy /\ paid' = paid /\ stage[c] = "new"
  BY DEF StorageRead, Go, ClaimInv, TypeOK
<1>2. Latest(object, FieldOf(c), recorded) /\ object # {} /\ c \notin paid
  BY <1>1 DEF ClaimInv, StoredInv, CallInv
<1>3. FieldOf(c)' = FieldOf(c)
  BY <1>1 DEF FieldOf
<1>4. Latest(objects[c], FieldOf(c), seen[c])'
  BY <1>1, <1>2, <1>3 DEF Latest
<1> HIDE DEF Latest
<1> QED
  BY <1>1, <1>2, <1>4 DEF CallInv

LEMMA CheckKeeps ==
  ASSUME ClaimInv, NEW c \in Calls, Check(c) PROVE CallInv(c)'
<1>1. /\ objects'[c] = objects[c] /\ seen'[c] = seen[c] /\ today'[c] = clock
      /\ copy' = copy /\ paid' = paid /\ stage[c] = "read"
      /\ stage'[c] \in {"failed", "paying", "denied"}
      /\ stage'[c] = "paying" => Due(c)
      /\ stage'[c] = "denied" => ~Broken(c) /\ ~Due(c)
  BY DEF Check, Go, ClaimInv, TypeOK
<1>2. Latest(objects[c], FieldOf(c), seen[c]) /\ objects[c] # {} /\ c \notin paid
  BY <1>1 DEF ClaimInv, CallInv
<1>3. FieldOf(c)' = FieldOf(c) /\ LastClaim(c)' = LastClaim(c)
  BY <1>1 DEF FieldOf, LastClaim
<1>4. Latest(objects[c], FieldOf(c), seen[c])'
  BY <1>1, <1>2, <1>3 DEF Latest
<1>5. /\ \A claim \in objects[c] : claim[FieldOf(c)] = LastClaim(c)
      /\ LastClaim(c) \in Nat
  BY <1>2, LastClaimFound DEF ClaimInv
<1>6. Midnight(clock) \in Int /\ Midnight(today'[c]) = Midnight(clock)
  BY <1>1, MidnightInt DEF ClaimInv, TypeOK
<1>7. /\ LastClaim(c) # Never /\ \A t \in seen[c] : t <= LastClaim(c)
      /\ seen[c] # {} => LastClaim(c) \in seen[c]
      /\ ~Missing(c)
  BY <1>2, <1>5 DEF Latest, Missing
<1>8. seen[c] \subseteq Nat
  BY DEF ClaimInv, TypeOK
<1>9. ASSUME stage'[c] = "paying", NEW t \in seen[c]
      PROVE  t < Midnight(clock)
  <2>1. LastClaim(c) < Midnight(clock)
    BY <1>1, <1>9 DEF Due, Before
  <2>2. t \in Nat /\ t <= LastClaim(c)
    BY <1>7, <1>8
  <2> QED
    BY <1>5, <1>6, <2>1, <2>2
<1>10. ASSUME stage'[c] = "denied"
       PROVE  LastClaim(c) >= Midnight(clock)
  <2>1. ~(LastClaim(c) < Midnight(clock))
    BY <1>1, <1>7, <1>10 DEF Due, Before
  <2> QED
    BY <1>5, <1>6, <2>1
<1> HIDE DEF Latest, Midnight, LastClaim
<1>11. /\ stage'[c] \notin {"new", "read", "writing"}
       /\ c \notin paid' /\ objects'[c] # {}
  BY <1>1, <1>2
<1>12. stage'[c] = "paying" => \A t \in seen'[c] : t < Midnight(today'[c])
  BY <1>1, <1>6, <1>9
<1>13. stage'[c] = "denied" =>
         \/ \E t \in seen'[c] : t >= Midnight(today'[c])
         \/ seen'[c] = {} /\ objects'[c] # {} /\ LastClaim(c)' >= Midnight(today'[c])
  BY <1>1, <1>2, <1>3, <1>6, <1>7, <1>10
<1>14. Midnight(today[c])' = Midnight(today'[c])
  BY DEF Midnight
<1> QED
  BY <1>4, <1>11, <1>12, <1>13, <1>14 DEF CallInv


\* Paying, notifying and failing leave what was read and compared alone.
LEMMA AdvanceKeeps ==
  ASSUME ClaimInv, NEW c \in Calls,
         \/ WalletUpdate(c) \/ NotificationsSend(c)
         \/ StorageWriteRefused(c) \/ SomeCallFails(c)
  PROVE  CallInv(c)'
<1>1. /\ UNCHANGED <<objects, seen, today, now, copy>>
      /\ stage[c] \in {"new", "paying", "notifying", "writing"}
      /\ stage'[c] \in {"notifying", "stamping", "failed"}
      /\ stage[c] = "new" => stage'[c] = "failed"
      /\ paid' = paid \/ (stage[c] = "paying" /\ paid' = paid \cup {c})
  BY DEF WalletUpdate, NotificationsSend, StorageWriteRefused, SomeCallFails, Fails,
     Go, ClaimInv, TypeOK
<1>2. CallInv(c)
  BY DEF ClaimInv
<1>3. Latest(objects[c], FieldOf(c), seen[c])'
  BY <1>1, <1>2 DEF CallInv, Latest, FieldOf
<1>4. Midnight(today[c])' = Midnight(today[c])
  BY <1>1 DEF Midnight
<1>5. stage'[c] \notin {"new", "failed"} => objects'[c] # {}
  BY <1>1, <1>2 DEF CallInv
<1>6. c \in paid' => \A t \in seen'[c] : t < Midnight(today[c])'
  BY <1>1, <1>2, <1>4 DEF CallInv
<1> HIDE DEF Latest, Midnight
<1> QED
  BY <1>1, <1>3, <1>5, <1>6 DEF CallInv

LEMMA TimeKeeps ==
  ASSUME ClaimInv, NEW c \in Calls, TakeTime(c) PROVE CallInv(c)'
<1>1. /\ UNCHANGED <<objects, seen, today, paid, copy>> /\ now'[c] = clock
      /\ stage[c] = "stamping" /\ stage'[c] = "writing"
  BY DEF TakeTime, Stamp, Go, ClaimInv, TypeOK
<1>2. CallInv(c)
  BY DEF ClaimInv
<1>3. FieldOf(c)' = FieldOf(c) /\ FieldOf(c) \in Fields
  BY <1>1 DEF FieldOf, FieldName, Fields
<1>4. Latest(objects[c], FieldOf(c), seen[c])'
  BY <1>1, <1>2, <1>3 DEF CallInv, Latest
<1>5. \A claim \in objects[c] : claim[FieldOf(c)] <= clock
  BY <1>3 DEF ClaimInv, TypeOK, IsFound
<1>6. now'[c] # 0 /\ \A claim \in objects'[c] : claim[FieldOf(c)'] <= now'[c]
  BY <1>1, <1>3, <1>5 DEF ClaimInv, StoredInv
<1>7. Midnight(today[c])' = Midnight(today[c])
  BY <1>1 DEF Midnight
<1>8. c \in paid' => \A t \in seen'[c] : t < Midnight(today[c])'
  BY <1>1, <1>2, <1>7 DEF CallInv
<1> HIDE DEF Latest, Midnight
<1> QED
  BY <1>1, <1>2, <1>4, <1>6, <1>8 DEF CallInv

\* An accepted write stores the latest claim.
LEMMA WriteKeeps ==
  ASSUME ClaimInv, NEW c \in Calls, StorageWrite(c)
  PROVE  StoredInv' /\ CallInv(c)'
<1>1. /\ UNCHANGED <<clock, copy, objects, today, now, paid, seen>>
      /\ stage[c] = "writing" /\ stage'[c] = "answered"
      /\ object' = {Claim(c)} /\ recorded' = recorded \cup {now[c]}
  BY DEF StorageWrite, Go, ClaimInv, TypeOK
<1>2. CallInv(c) /\ objects[c] # {} /\ now[c] # 0
  BY <1>1 DEF ClaimInv, CallInv
<1>3. object = objects[c]
  BY <1>2 DEF StorageWrite, Accepts, WriteVersion, Version
<1>4. Claim(c)[FieldOf(c)] = now[c]
  BY ClaimTyped DEF ClaimInv
<1>5. \A t \in recorded : t <= now[c]
  <2>1. PICK claim \in objects[c] : TRUE
    BY <1>2
  <2>2. claim[FieldOf(c)] <= now[c] /\ claim[FieldOf(c)] \in Nat
    <3>1. FieldOf(c) \in Fields
      BY DEF FieldOf, FieldName, Fields
    <3>2. claim \in [Fields -> Nat]
      BY <2>1 DEF ClaimInv, TypeOK
    <3> QED
      BY <1>1, <1>2, <2>1, <3>1, <3>2 DEF CallInv
  <2>3. \A t \in recorded : t <= claim[FieldOf(c)]
    BY <1>3, <2>1 DEF ClaimInv, StoredInv, Latest
  <2>4. recorded \subseteq Nat /\ now[c] \in Nat
    BY DEF ClaimInv, TypeOK
  <2>5. ASSUME NEW t \in recorded, NEW last \in Nat, t <= last, last <= now[c]
        PROVE  t <= now[c]
    BY <2>4, <2>5
  <2> QED
    BY <2>2, <2>3, <2>5
<1>6. now[c] \in Nat
  BY DEF ClaimInv, TypeOK
<1>7. ASSUME NEW d \in Calls PROVE Latest(object, FieldOf(d), recorded)'
  <2>1. FieldOf(d)' = FieldOf(c)
    BY <1>1 DEF ClaimInv, FieldOf
  <2>2. \A t \in recorded' : t <= now[c]
    BY <1>1, <1>5, <1>6
  <2> QED
    BY <1>1, <1>2, <1>4, <2>1, <2>2 DEF Latest, Never
<1>8. clock' # 0 /\ object' # {}
  BY <1>1 DEF ClaimInv, StoredInv
<1>9. StoredInv'
  BY <1>7, <1>8 DEF StoredInv
<1>10. Latest(objects[c], FieldOf(c), seen[c])'
  BY <1>1, <1>2 DEF CallInv, Latest, FieldOf
<1>11. c \in paid' => \A t \in seen'[c] : t < Midnight(today[c])'
  BY <1>1, <1>2 DEF CallInv, Midnight
<1> HIDE DEF Latest, Midnight
<1>12. CallInv(c)'
  BY <1>1, <1>2, <1>10, <1>11 DEF CallInv
<1> QED
  BY <1>9, <1>12

LEMMA NextClaim == ClaimInv /\ [Next]_vars => ClaimInv'
<1> SUFFICES ASSUME ClaimInv, [Next]_vars PROVE ClaimInv'
  OBVIOUS
<1>1. TypeOK'
  BY NextTyped DEF ClaimInv
<1>2. copy' = copy
  BY CopyKept
<1>3. (\A c, d \in Calls : FieldOf(c) = FieldOf(d))'
  BY <1>2 DEF ClaimInv, FieldOf
<1>4. ASSUME NEW c \in Calls,
             \/ StorageRead(c) \/ Check(c) \/ WalletUpdate(c) \/ NotificationsSend(c)
             \/ TakeTime(c) \/ StorageWriteRefused(c) \/ SomeCallFails(c)
      PROVE  StoredInv' /\ \A d \in Calls : CallInv(d)'
  <2>1. UNCHANGED <<object, recorded, clock>>
    BY <1>4 DEF StorageRead, Check, WalletUpdate, NotificationsSend, TakeTime,
       StorageWriteRefused, SomeCallFails, Fails
  <2>2. StoredInv'
    BY <1>2, <2>1, StoredKept DEF ClaimInv, StoredInv
  <2>3. CallInv(c)'
    BY <1>4, ReadKeeps, CheckKeeps, AdvanceKeeps, TimeKeeps
  <2>4. ASSUME NEW d \in Calls, d # c PROVE CallInv(d)'
    <3>1. stage' = stage \/ \E s : Go(c, s)
      BY <1>4 DEF StorageRead, Check, WalletUpdate, NotificationsSend, TakeTime,
         StorageWriteRefused, SomeCallFails, Fails
    <3>2. objects' = objects \/ \E v : objects' = [objects EXCEPT ![c] = v]
      BY <1>4 DEF StorageRead, Check, WalletUpdate, NotificationsSend, TakeTime,
         StorageWriteRefused, SomeCallFails, Fails
    <3>3. today' = today \/ \E v : today' = [today EXCEPT ![c] = v]
      BY <1>4 DEF StorageRead, Check, WalletUpdate, NotificationsSend, TakeTime,
         StorageWriteRefused, SomeCallFails, Fails
    <3>4. now' = now \/ \E v : now' = [now EXCEPT ![c] = v]
      BY <1>4 DEF StorageRead, Check, WalletUpdate, NotificationsSend, TakeTime,
         StorageWriteRefused, SomeCallFails, Fails
    <3>5. seen' = seen \/ \E v : seen' = [seen EXCEPT ![c] = v]
      BY <1>4 DEF StorageRead, Check, WalletUpdate, NotificationsSend, TakeTime,
         StorageWriteRefused, SomeCallFails, Fails
    <3>6. paid' = paid \/ paid' = paid \cup {c}
      BY <1>4 DEF StorageRead, Check, WalletUpdate, NotificationsSend, TakeTime,
         StorageWriteRefused, SomeCallFails, Fails
    <3> QED
      BY <1>2, <2>4, <3>1, <3>2, <3>3, <3>4, <3>5, <3>6, OthersKept
  <2> QED
    BY <2>2, <2>3, <2>4
<1>5. ASSUME NEW c \in Calls, StorageWrite(c)
      PROVE  StoredInv' /\ \A d \in Calls : CallInv(d)'
  <2>1. ASSUME NEW d \in Calls, d # c PROVE CallInv(d)'
    <3>1. /\ UNCHANGED <<objects, today, now, seen, paid>>
          /\ \E s : Go(c, s)
      BY <1>5 DEF StorageWrite
    <3> QED
      BY <1>2, <2>1, <3>1, OthersKept
  <2> QED
    BY <1>5, <2>1, WriteKeeps
<1>6. CASE Tick
  <2>1. StoredInv'
    <3>1. clock' # 0 /\ UNCHANGED <<object, recorded>>
      BY <1>6 DEF Tick, ClaimInv, TypeOK
    <3> QED
      BY <1>2, <3>1, StoredKept DEF ClaimInv
  <2>2. \A d \in Calls : CallInv(d)'
    BY <1>2, <1>6, CallKept DEF Tick, ClaimInv
  <2> QED
    BY <2>1, <2>2, <1>1, <1>3 DEF ClaimInv
<1>7. CASE UNCHANGED vars
  <2>1. StoredInv'
    BY <1>2, <1>7, StoredKept DEF vars, ClaimInv, StoredInv
  <2>2. \A d \in Calls : CallInv(d)'
    BY <1>2, <1>7, CallKept DEF vars, ClaimInv
  <2> QED
    BY <2>1, <2>2, <1>1, <1>3 DEF ClaimInv
<1> QED
  BY <1>1, <1>3, <1>4, <1>5, <1>6, <1>7 DEF Next, ClaimInv

LEMMA AlwaysClaimInv == ASSUME HasClaimed PROVE Spec => []ClaimInv
<1>1. Init => ClaimInv
  BY InitClaim
<1> QED
  BY <1>1, NextClaim, PTL DEF Spec

\* A recorded claim counts (daily_rewards.go:110): for a user who has claimed
\* before, among copies that share a field, however many calls overlap, a call
\* that began after a claim was recorded pays only on a later day.
THEOREM RecordsCount == ASSUME HasClaimed PROVE Spec => []RecordCounts
<1>1. ClaimInv => RecordCounts
  BY DEF ClaimInv, CallInv, RecordCounts, TypeOK
<1> QED
  BY <1>1, AlwaysClaimInv, PTL

\* Nobody is denied who has not claimed that day (daily_rewards.go:70), under
\* the same assumption: the claim a call finds is always one of the latest day.
THEOREM DenialsJustified == ASSUME HasClaimed PROVE Spec => []DeniedOnlyAfterClaim
<1>1. ClaimInv => DeniedOnlyAfterClaim
  BY DEF ClaimInv, CallInv, DeniedOnlyAfterClaim
<1> QED
  BY <1>1, AlwaysClaimInv, PTL

-----------------------------------------------------------------------------
(* When calls do not overlap.  A call then writes under the version it has *)
(* read, and every payment is on record before the next call reads; what   *)
(* run RewardTwice shows is therefore due to overlapping calls, or to a    *)
(* failure between the payment and the record.                             *)

Busy(c) == stage[c] \in {"read", "paying", "notifying", "stamping", "writing"}

NoOverlap == \A c, d \in Calls : Busy(c) /\ Busy(d) => c = d

NothingFailsAfterPaying == Failing \cap {"NotificationsSend", "StorageWrite"} = {}

\* The payment of c is on record, and d began after it.
Precedes(c, d) == stage[c] = "answered" /\ now[c] \in seen[d]

SerialInv ==
  /\ \A c \in Calls : Busy(c) => objects[c] = object
  /\ \A c \in paid : stage[c] \in {"notifying", "stamping", "writing", "answered"}
  /\ \A c \in Calls : stage[c] = "answered" => now[c] \in recorded
  /\ \A c \in Calls : stage[c] \in {"writing", "answered"} => today[c] <= now[c]
  /\ \A c \in paid, d \in Calls : c # d /\ Busy(d) => Precedes(c, d)
  /\ \A c, d \in paid : c # d => Precedes(c, d) \/ Precedes(d, c)

\* A step of c from stage s to stage t; nothing of the other calls changes.
Steps(c, s, t) ==
  /\ stage[c] = s /\ stage'[c] = t
  /\ \A d \in Calls \ {c} :
       /\ stage'[d] = stage[d] /\ objects'[d] = objects[d] /\ today'[d] = today[d]
       /\ now'[d] = now[d] /\ seen'[d] = seen[d] /\ (d \in paid' <=> d \in paid)

LEMMA SerialRead ==
  ASSUME TypeOK, SerialInv, NoOverlap', NEW c \in Calls, StorageRead(c)
  PROVE  SerialInv'
<1>1. /\ Steps(c, "new", "read") /\ objects'[c] = object /\ seen'[c] = recorded
      /\ UNCHANGED <<object, today, now, paid, recorded>>
  BY DEF StorageRead, Go, Steps, TypeOK
<1>2. Busy(c)' /\ paid \subseteq Calls
  BY <1>1 DEF Steps, Busy, TypeOK
<1>3. ASSUME NEW d \in Calls, d # c PROVE ~Busy(d) /\ ~Busy(d)'
  BY <1>1, <1>2, <1>3 DEF NoOverlap, Steps, Busy
<1>4. c \notin paid
  BY <1>1 DEF SerialInv, Steps
<1>5. ASSUME NEW d \in paid PROVE stage[d] = "answered" /\ now[d] \in recorded /\ d # c
  BY <1>2, <1>3, <1>4 DEF SerialInv, Busy
<1>6. \A d \in paid, e \in Calls : d # e /\ Busy(e)' => Precedes(d, e)'
  BY <1>1, <1>2, <1>3, <1>5 DEF Precedes, Steps
<1>7. \A d, e \in paid : d # e => (Precedes(d, e) \/ Precedes(e, d))'
  BY <1>1, <1>2, <1>5 DEF SerialInv, Precedes, Steps
<1>8. \A d \in Calls : Busy(d)' => objects'[d] = object'
  BY <1>1, <1>3
<1>9. \A d \in Calls : /\ stage'[d] = "answered" => now'[d] \in recorded'
                       /\ stage'[d] \in {"writing", "answered"} => today'[d] <= now'[d]
  BY <1>1 DEF SerialInv, Steps
<1>10. \A d \in paid' : stage'[d] \in {"notifying", "stamping", "writing", "answered"}
  BY <1>1, <1>2, <1>5 DEF Steps
<1>11. QED BY <1>1, <1>6, <1>7, <1>8, <1>9, <1>10 DEF SerialInv

\* A busy call goes on, stops without having paid, or answers.
LEMMA SerialGoesOn ==
  ASSUME TypeOK, SerialInv, NoOverlap, NEW c \in Calls, NEW s, NEW t, Steps(c, s, t),
         UNCHANGED <<object, recorded>>,
         s \in {"new", "read", "paying", "notifying", "stamping"},
         t \in {"paying", "notifying", "stamping", "writing", "denied", "failed"},
         s = "new" => t = "failed",
         t \in {"denied", "failed"} => c \notin paid',
         objects'[c] = objects[c], seen'[c] = seen[c],
         paid' = paid \/ (paid' = paid \cup {c} /\ Busy(c)),
         c \in paid' => t \in {"notifying", "stamping", "writing"},
         t = "writing" => today'[c] <= now'[c]
  PROVE  SerialInv'
<1>1. paid \subseteq Calls /\ paid' \subseteq Calls
  BY DEF TypeOK
<1>2. stage[c] = s /\ stage'[c] = t /\ (Busy(c)' => Busy(c))
  BY DEF Steps, Busy
<1>3. ASSUME NEW d \in Calls, Busy(d)' PROVE Busy(d)
  BY <1>2, <1>3 DEF Steps, Busy
<1>4. \A d \in Calls : seen'[d] = seen[d] /\ objects'[d] = objects[d]
  BY DEF Steps
<1>5. ASSUME NEW d \in Calls, NEW e \in Calls, d # c, Precedes(d, e)
      PROVE  Precedes(d, e)'
  BY <1>4, <1>5 DEF Precedes, Steps
<1>6. ASSUME NEW d \in Calls, NEW e \in Calls, Precedes(d, e) PROVE d # c
  BY <1>2, <1>6 DEF Precedes
<1>7. ASSUME NEW d \in paid', NEW e \in Calls, d # e, Busy(e)' PROVE Precedes(d, e)'
  <2>1. Busy(e)
    BY <1>3, <1>7
  <2>2. d \in paid
    <3>1. SUFFICES ASSUME d \notin paid PROVE FALSE
      OBVIOUS
    <3>2. d = c /\ Busy(c)
      BY <1>7, <3>1
    <3>3. QED BY <1>7, <2>1, <3>2 DEF NoOverlap
  <2>3. Precedes(d, e)
    BY <1>7, <2>1, <2>2 DEF SerialInv
  <2>4. QED BY <1>1, <1>5, <1>6, <2>2, <2>3
<1>8. ASSUME NEW d \in paid', NEW e \in paid', d # e
      PROVE  Precedes(d, e)' \/ Precedes(e, d)'
  <2>1. CASE d \in paid /\ e \in paid
    <3>1. Precedes(d, e) \/ Precedes(e, d)
      BY <1>8, <2>1 DEF SerialInv
    <3>2. QED BY <1>1, <1>5, <1>6, <2>1, <3>1
  <2>2. CASE d \notin paid
    <3>1. d = c /\ Busy(c) /\ e \in paid
      BY <1>8, <2>2
    <3>2. Precedes(e, d)
      BY <1>8, <3>1 DEF SerialInv
    <3>3. QED BY <1>1, <1>5, <1>8, <3>1, <3>2
  <2>3. CASE e \notin paid
    <3>1. e = c /\ Busy(c) /\ d \in paid
      BY <1>8, <2>3
    <3>2. Precedes(d, e)
      BY <1>8, <3>1 DEF SerialInv
    <3>3. QED BY <1>1, <1>5, <1>8, <3>1, <3>2
  <2>4. QED BY <2>1, <2>2, <2>3
<1>9. \A d \in Calls : Busy(d)' => objects'[d] = object'
  BY <1>3, <1>4 DEF SerialInv
<1>10. \A d \in Calls : /\ stage'[d] = "answered" => now'[d] \in recorded'
                        /\ stage'[d] \in {"writing", "answered"} => today'[d] <= now'[d]
  BY <1>2 DEF SerialInv, Steps
<1>11. \A d \in paid' : stage'[d] \in {"notifying", "stamping", "writing", "answered"}
  BY <1>1, <1>2 DEF SerialInv, Steps
<1>12. QED BY <1>7, <1>8, <1>9, <1>10, <1>11 DEF SerialInv

\* An accepted write puts the payment on record before anyone reads again.
LEMMA SerialWrite ==
  ASSUME TypeOK, SerialInv, NoOverlap, NEW c \in Calls, StorageWrite(c)
  PROVE  SerialInv'
<1>1. /\ Steps(c, "writing", "answered")
      /\ recorded' = recorded \cup {now[c]}
      /\ UNCHANGED <<objects, today, now, paid, seen>>
  BY DEF StorageWrite, Go, Steps, TypeOK
<1>2. Busy(c) /\ paid \subseteq Calls
  BY <1>1 DEF Steps, Busy, TypeOK
<1>3. ASSUME NEW d \in Calls PROVE ~Busy(d)'
  <2>1. d # c => ~Busy(d)
    BY <1>2 DEF NoOverlap
  <2>2. QED BY <1>1, <2>1 DEF Steps, Busy
<1>4. ASSUME NEW d \in paid, NEW e \in paid, d # e
      PROVE  Precedes(d, e)' \/ Precedes(e, d)'
  <2>1. Precedes(d, e) \/ Precedes(e, d)
    BY <1>4 DEF SerialInv
  <2>2. QED BY <1>1, <1>2, <2>1 DEF Precedes, Steps
<1>5. \A d \in Calls : /\ stage'[d] = "answered" => now'[d] \in recorded'
                       /\ stage'[d] \in {"writing", "answered"} => today'[d] <= now'[d]
  BY <1>1 DEF SerialInv, Steps
<1>6. \A d \in paid' : stage'[d] \in {"notifying", "stamping", "writing", "answered"}
  BY <1>1, <1>2 DEF SerialInv, Steps
<1>7. QED BY <1>1, <1>2, <1>3, <1>4, <1>5, <1>6 DEF SerialInv

\* A call that may write finds the object as it has read it.
LEMMA NeverRefused ==
  ASSUME SerialInv, NEW c \in Calls, StorageWriteRefused(c) PROVE FALSE
<1>1. objects[c] = object
  BY DEF StorageWriteRefused, SerialInv, Busy
<1>2. QED BY <1>1 DEF StorageWriteRefused, Accepts, WriteVersion, Version

LEMMA SerialStep ==
  ASSUME NothingFailsAfterPaying, TypeOK, SerialInv, NoOverlap, NoOverlap', [Next]_vars
  PROVE  SerialInv'
<1>1. ASSUME NEW c \in Calls, StorageRead(c) PROVE SerialInv'
  BY <1>1, SerialRead
<1>2. ASSUME NEW c \in Calls, Check(c) PROVE SerialInv'
  <2>1. PICK t \in {"failed", "paying", "denied"} : Steps(c, "read", t)
    BY <1>2 DEF Check, Go, Steps, TypeOK
  <2>2. /\ UNCHANGED <<object, recorded, objects, seen, paid>> /\ c \notin paid
    BY <1>2 DEF Check, SerialInv
  <2>3. QED BY <2>1, <2>2, SerialGoesOn
<1>3. ASSUME NEW c \in Calls, WalletUpdate(c) PROVE SerialInv'
  <2>1. /\ Steps(c, "paying", "notifying") /\ paid' = paid \cup {c} /\ Busy(c)
        /\ UNCHANGED <<object, recorded, objects, seen>>
    BY <1>3 DEF WalletUpdate, Go, Steps, TypeOK, Busy
  <2>2. QED BY <2>1, SerialGoesOn
<1>4. ASSUME NEW c \in Calls, NotificationsSend(c) PROVE SerialInv'
  <2>1. /\ Steps(c, "notifying", "stamping")
        /\ UNCHANGED <<object, recorded, objects, seen, paid>>
    BY <1>4 DEF NotificationsSend, Go, Steps, TypeOK
  <2>2. QED BY <2>1, SerialGoesOn
<1>5. ASSUME NEW c \in Calls, TakeTime(c) PROVE SerialInv'
  <2>1. /\ Steps(c, "stamping", "writing") /\ today'[c] <= now'[c]
        /\ UNCHANGED <<object, recorded, objects, seen, paid>>
    BY <1>5 DEF TakeTime, Stamp, Go, Steps, TypeOK
  <2>2. QED BY <2>1, SerialGoesOn
<1>6. ASSUME NEW c \in Calls, StorageWrite(c) PROVE SerialInv'
  BY <1>6, SerialWrite
<1>7. ASSUME NEW c \in Calls, SomeCallFails(c) PROVE SerialInv'
  <2>1. Fails(c, "new", "StorageRead") \/ Fails(c, "paying", "WalletUpdate")
    BY <1>7 DEF SomeCallFails, Fails, NothingFailsAfterPaying
  <2>2. PICK s \in {"new", "paying"} : Steps(c, s, "failed")
    BY <2>1 DEF Fails, Go, Steps, TypeOK
  <2>3. UNCHANGED <<object, recorded, objects, seen, paid>> /\ c \notin paid
    BY <2>1 DEF Fails, SerialInv
  <2>4. QED BY <2>2, <2>3, SerialGoesOn
<1>8. ASSUME Tick \/ UNCHANGED vars PROVE SerialInv'
  <2>1. UNCHANGED <<object, stage, objects, today, now, paid, recorded, seen>>
    BY <1>8 DEF Tick, vars
  <2>2. QED BY <2>1 DEF SerialInv, Busy, Precedes
<1>9. QED
  BY <1>1, <1>2, <1>3, <1>4, <1>5, <1>6, <1>7, <1>8, NeverRefused DEF Next

LEMMA MidnightBounds ==
  ASSUME NEW t \in Nat PROVE Midnight(t) \in Int /\ Midnight(t) <= t
  BY RewardAssumption DEF RewardAssumption, Midnight

-----------------------------------------------------------------------------
(* Then a user need not have claimed before: the object, where there is    *)
(* one, holds the latest claim, in the field the copies share.             *)

SharedField ==
  \A start \in Starts :
    /\ \A name \in start.copies, claim \in start.object :
         claim[FieldName(name)] # Never
    /\ \A name, other \in start.copies : FieldName(name) = FieldName(other)

DayInv ==
  /\ clock # 0 /\ \A c, d \in Calls : FieldOf(c) = FieldOf(d)
  /\ recorded # {} => object # {}
  /\ \A c \in Calls : Latest(object, FieldOf(c), recorded)
  /\ \A c \in Calls : Busy(c) => seen[c] = recorded
  /\ \A c \in Calls : stage[c] = "writing" =>
       now[c] # 0 /\ \A t \in recorded : t <= now[c]
  /\ \A c \in Calls : c \in paid \/ stage[c] = "paying" =>
       \A t \in seen[c] : t < Midnight(today[c])

LEMMA InitDay == SharedField /\ Init => DayInv
<1> SUFFICES ASSUME SharedField, Init PROVE DayInv
  OBVIOUS
<1>1. PICK start \in Starts : object = start.object /\ copy \in [Calls -> start.copies]
  BY DEF Init
<1>2. clock # 0
  BY RewardAssumption DEF RewardAssumption, Init
<1>3. \A c, d \in Calls : FieldOf(c) = FieldOf(d)
  BY <1>1 DEF SharedField, FieldOf
<1>4. \A c \in Calls : Latest(object, FieldOf(c), recorded)
  BY <1>1 DEF Init, Latest, SharedField, FieldOf
<1>5. QED BY <1>2, <1>3, <1>4 DEF Init, DayInv, Busy

\* A step that records nothing keeps DayInv, if a call goes on to pay only
\* after midnight and to write only with a time no claim is later than.
LEMMA DayGoesOn ==
  ASSUME DayInv, copy' = copy, NEW c \in Calls, NEW s, NEW t, Steps(c, s, t),
         UNCHANGED <<object, recorded, clock>>,
         Busy(c)' => seen'[c] = recorded,
         t = "writing" => now'[c] # 0 /\ \A r \in recorded : r <= now'[c],
         c \in paid' \/ t = "paying" => \A r \in seen'[c] : r < Midnight(today'[c])
  PROVE  DayInv'
<1>1. stage[c] = s /\ stage'[c] = t
  BY DEF Steps
<1>2. \A d \in Calls : FieldOf(d)' = FieldOf(d) /\ Midnight(today[d])' = Midnight(today'[d])
  BY DEF FieldOf, Midnight
<1>3. \A d \in Calls : Latest(object, FieldOf(d), recorded)'
  BY <1>2 DEF DayInv, Latest
<1>4. \A d \in Calls : Busy(d)' => seen'[d] = recorded'
  BY DEF DayInv, Steps, Busy
<1>5. \A d \in Calls : stage'[d] = "writing" =>
        now'[d] # 0 /\ \A r \in recorded' : r <= now'[d]
  BY <1>1 DEF DayInv, Steps
<1>6. ASSUME NEW d \in Calls, d \in paid' \/ stage'[d] = "paying"
      PROVE  \A r \in seen'[d] : r < Midnight(today[d])'
  <2>1. CASE d = c
    BY <1>1, <1>2, <1>6, <2>1
  <2>2. CASE d # c
    <3>1. /\ d \in paid \/ stage[d] = "paying"
          /\ seen'[d] = seen[d] /\ today'[d] = today[d]
      BY <1>6, <2>2 DEF Steps
    <3>2. QED BY <1>2, <3>1 DEF DayInv
  <2>3. QED BY <2>1, <2>2
<1>7. clock' # 0 /\ (recorded' # {} => object' # {})
  BY DEF DayInv
<1>8. (\A d, e \in Calls : FieldOf(d) = FieldOf(e))'
  BY <1>2 DEF DayInv
<1>9. QED BY <1>3, <1>4, <1>5, <1>6, <1>7, <1>8 DEF DayInv

\* The reward is due only if the latest claim is of an earlier day.
LEMMA DueAfterMidnight ==
  ASSUME TypeOK, SerialInv, DayInv, NEW c \in Calls, stage[c] = "read", Due(c)
  PROVE  \A r \in seen[c] : r < Midnight(clock)
<1>1. objects[c] = object /\ seen[c] = recorded
  BY DEF SerialInv, DayInv, Busy
<1>2. CASE object = {}
  BY <1>1, <1>2 DEF DayInv
<1>3. CASE object # {}
  <2>1. /\ \A claim \in object : claim[FieldOf(c)] = LastClaim(c)
        /\ LastClaim(c) \in Nat
    BY <1>1, <1>3, LastClaimFound
  <2>2. \A r \in recorded : r <= LastClaim(c)
    BY <1>3, <2>1 DEF DayInv, Latest
  <2>3. LastClaim(c) < Midnight(clock)
    BY DEF Due, Before
  <2>4. Midnight(clock) \in Int /\ recorded \subseteq Nat
    BY MidnightInt DEF TypeOK
  <2> HIDE DEF Midnight, LastClaim
  <2>5. ASSUME NEW r \in recorded PROVE r < Midnight(clock)
    <3>1. r \in Nat /\ r <= LastClaim(c)
      BY <2>2, <2>4
    <3>2. QED BY <2>1, <2>3, <2>4, <3>1
  <2>6. QED BY <1>1, <2>5
<1>4. QED BY <1>2, <1>3

LEMMA DayWrite ==
  ASSUME TypeOK, DayInv, NoOverlap, copy' = copy, NEW c \in Calls, StorageWrite(c)
  PROVE  DayInv'
<1>1. /\ Steps(c, "writing", "answered") /\ object' = {Claim(c)}
      /\ recorded' = recorded \cup {now[c]}
      /\ UNCHANGED <<clock, today, now, paid, seen>>
  BY DEF StorageWrite, Go, Steps, TypeOK
<1>2. Busy(c)
  BY <1>1 DEF Steps, Busy
<1>3. ASSUME NEW d \in Calls PROVE ~Busy(d)' /\ stage'[d] \notin {"writing", "paying"}
  <2>1. d # c => ~Busy(d)
    BY <1>2 DEF NoOverlap
  <2>2. QED BY <1>1, <2>1 DEF Steps, Busy
<1>4. \A d \in Calls : FieldOf(d)' = FieldOf(c)
  BY DEF FieldOf, DayInv
<1>5. Claim(c)[FieldOf(c)] = now[c] /\ now[c] # 0 /\ now[c] \in Nat
  BY <1>1, ClaimTyped DEF DayInv, Steps, TypeOK
<1>6. \A t \in recorded' : t <= now[c]
  BY <1>1, <1>5 DEF DayInv, Steps
<1>7. \A d \in Calls : Latest(object, FieldOf(d), recorded)'
  BY <1>1, <1>4, <1>5, <1>6 DEF Latest, Never
<1>8. ASSUME NEW d \in Calls, d \in paid'
      PROVE  \A r \in seen'[d] : r < Midnight(today[d])'
  BY <1>1, <1>8 DEF DayInv, Midnight
<1>9. clock' # 0 /\ object' # {}
  BY <1>1 DEF DayInv
<1>10. (\A d, e \in Calls : FieldOf(d) = FieldOf(e))'
  BY <1>4
<1>11. QED BY <1>3, <1>7, <1>8, <1>9, <1>10 DEF DayInv

LEMMA DayStep ==
  ASSUME NothingFailsAfterPaying, TypeOK, SerialInv, DayInv, NoOverlap, [Next]_vars
  PROVE  DayInv'
<1>1. copy' = copy
  BY CopyKept
<1>2. ASSUME NEW c \in Calls, StorageRead(c) PROVE DayInv'
  <2>1. /\ Steps(c, "new", "read") /\ seen'[c] = recorded
        /\ UNCHANGED <<object, recorded, clock, paid>>
    BY <1>2 DEF StorageRead, Go, Steps, TypeOK
  <2>2. c \notin paid
    BY <2>1 DEF SerialInv, Steps
  <2>3. QED BY <1>1, <2>1, <2>2, DayGoesOn
<1>3. ASSUME NEW c \in Calls, Check(c) PROVE DayInv'
  <2>1. PICK t \in {"failed", "paying", "denied"} :
          Steps(c, "read", t) /\ (t = "paying" => Due(c))
    BY <1>3 DEF Check, Go, Steps, TypeOK
  <2>2. /\ UNCHANGED <<object, recorded, clock, seen, paid>>
        /\ today'[c] = clock /\ stage[c] = "read" /\ c \notin paid
    BY <1>3 DEF Check, SerialInv, TypeOK
  <2>3. seen[c] = recorded
    BY <2>2 DEF DayInv, Busy
  <2>4. t = "paying" => \A r \in seen'[c] : r < Midnight(today'[c])
    BY <2>1, <2>2, DueAfterMidnight
  <2>5. QED BY <1>1, <2>1, <2>2, <2>3, <2>4, DayGoesOn
<1>4. ASSUME NEW c \in Calls, WalletUpdate(c) \/ NotificationsSend(c) PROVE DayInv'
  <2>1. PICK s \in {"paying", "notifying"}, t \in {"notifying", "stamping"} :
          Steps(c, s, t) /\ (c \in paid' => c \in paid \/ s = "paying")
    BY <1>4 DEF WalletUpdate, NotificationsSend, Go, Steps, TypeOK
  <2>2. UNCHANGED <<object, recorded, clock, seen, today>>
    BY <1>4 DEF WalletUpdate, NotificationsSend
  <2>3. seen[c] = recorded
    BY <2>1 DEF DayInv, Busy, Steps
  <2>4. c \in paid' => \A r \in seen'[c] : r < Midnight(today'[c])
    BY <2>1, <2>2 DEF DayInv, Steps
  <2>5. QED BY <1>1, <2>1, <2>2, <2>3, <2>4, DayGoesOn
<1>5. ASSUME NEW c \in Calls, TakeTime(c) PROVE DayInv'
  <2>1. /\ Steps(c, "stamping", "writing") /\ now'[c] = clock
        /\ UNCHANGED <<object, recorded, clock, seen, today, paid>>
    BY <1>5 DEF TakeTime, Stamp, Go, Steps, TypeOK
  <2>2. seen[c] = recorded /\ clock # 0 /\ \A r \in recorded : r <= clock
    BY <2>1 DEF DayInv, Busy, Steps, TypeOK
  <2>3. c \in paid' => \A r \in seen'[c] : r < Midnight(today'[c])
    BY <2>1 DEF DayInv
  <2>4. QED BY <1>1, <2>1, <2>2, <2>3, DayGoesOn
<1>6. ASSUME NEW c \in Calls, StorageWrite(c) PROVE DayInv'
  BY <1>1, <1>6, DayWrite
<1>7. ASSUME NEW c \in Calls, SomeCallFails(c) PROVE DayInv'
  <2>1. Fails(c, "new", "StorageRead") \/ Fails(c, "paying", "WalletUpdate")
    BY <1>7 DEF SomeCallFails, Fails, NothingFailsAfterPaying
  <2>2. PICK s \in {"new", "paying"} : Steps(c, s, "failed")
    BY <2>1 DEF Fails, Go, Steps, TypeOK
  <2>3. UNCHANGED <<object, recorded, clock, seen, today, paid>> /\ c \notin paid
    BY <2>1 DEF Fails, SerialInv
  <2>4. ~Busy(c)'
    BY <2>2 DEF Steps, Busy
  <2>5. QED BY <1>1, <2>2, <2>3, <2>4, DayGoesOn
<1>8. ASSUME Tick \/ UNCHANGED vars PROVE DayInv'
  <2>1. /\ UNCHANGED <<object, stage, today, now, paid, recorded, seen>>
        /\ clock' # 0
    BY <1>8 DEF Tick, vars, TypeOK, DayInv
  <2>2. QED BY <1>1, <2>1 DEF DayInv, Busy, FieldOf, Latest, Midnight
<1>9. QED
  BY <1>2, <1>3, <1>4, <1>5, <1>6, <1>7, <1>8, NeverRefused DEF Next

\* What is on record before a call begins is of an earlier day than its payment.
LEMMA SerialPays ==
  ASSUME TypeOK, SerialInv, DayInv PROVE OnePerDay
<1>1. ASSUME NEW c \in paid, NEW d \in paid, Precedes(c, d)
      PROVE  Midnight(today[c]) # Midnight(today[d])
  <2>1. now[c] < Midnight(today[d]) /\ today[c] <= now[c]
    BY <1>1 DEF TypeOK, SerialInv, DayInv, Precedes
  <2>2. today[c] \in Nat /\ now[c] \in Nat /\ today[d] \in Nat
    BY DEF TypeOK
  <2>3. /\ Midnight(today[c]) \in Int /\ Midnight(today[c]) <= today[c]
        /\ Midnight(today[d]) \in Int
    BY <2>2, MidnightBounds
  <2> HIDE DEF Midnight
  <2>4. QED BY <2>1, <2>2, <2>3
<1>2. ASSUME NEW c \in paid, NEW d \in paid, c # d
      PROVE  Midnight(today[c]) # Midnight(today[d])
  <2>1. Precedes(c, d) \/ Precedes(d, c)
    BY <1>2 DEF SerialInv
  <2>2. QED BY <1>1, <2>1
<1>3. QED BY <1>2 DEF OnePerDay

\* "Daily reward" (README.md:77): while no two calls overlap and nothing fails
\* once the wallet is updated (daily_rewards.go:80), no user is paid twice a
\* day, not even one who has never claimed, as long as the copies in use share
\* the field of the object.
THEOREM OnePaymentADay ==
  ASSUME SharedField, NothingFailsAfterPaying
  PROVE  Spec /\ []NoOverlap => []OnePerDay
<1>1. Init => SerialInv /\ DayInv
  BY InitDay DEF Init, SerialInv, Busy, Precedes
<1>2. TypeOK /\ SerialInv /\ DayInv /\ NoOverlap /\ NoOverlap' /\ [Next]_vars
        => SerialInv' /\ DayInv'
  BY SerialStep, DayStep
<1>3. TypeOK /\ SerialInv /\ DayInv => OnePerDay
  BY SerialPays
<1>4. QED BY <1>1, <1>2, <1>3, RewardTyped, PTL DEF Spec
=============================================================================
