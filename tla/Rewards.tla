------------------------------- MODULE Rewards -------------------------------
(***************************************************************************)
(* The daily reward of one user: calls of the three copies of the RPC,     *)
(* rewards (daily_rewards.go), reward (daily_rewards.lua) and rewards_js   *)
(* (daily_rewards.ts).  They share one storage object, and each goes       *)
(* through the same steps: read the last claim, compare it with midnight,  *)
(* pay, notify, take the time, write the claim under the version read.     *)
(*                                                                         *)
(* The copies do not agree on the field of the object: Go and Lua use      *)
(* last_claim_unix, TypeScript lastClaimUnix.                              *)
(***************************************************************************)
EXTENDS Naturals, FiniteSets, Storage

CONSTANTS
  Calls,        \* requests of the user
  Starts,       \* object stored to begin with, and copies of the RPC in use
  DayLength,    \* clock steps from one midnight to the next
  MaxTime,      \* bound of the model on the clock
  Failing       \* platform calls that may return an error

Fields == {"last_claim_unix", "lastClaimUnix"}

Copies == {"go", "lua", "js"}

Never == 0      \* a field the object does not have

\* What a read of the storage may return, with no claim after t.
IsFound(found, t) ==
  /\ \A claim \in found : claim \in [Fields -> 0..t]
  /\ \A m, n \in found : m = n

ASSUME RewardAssumption ==
  /\ DayLength \in Nat \ {0} /\ MaxTime \in Nat
  /\ \A start \in Starts : /\ IsFound(start.object, DayLength)
                           /\ start.copies \subseteq Copies
  /\ Failing \subseteq {"StorageRead", "WalletUpdate", "NotificationsSend",
                        "StorageWrite"}

VARIABLES
  clock,      \* time.Now(); the first day begins at DayLength
  object,     \* the stored reward/daily: {} or {claim}
  stage,      \* how far each call is
  copy,       \* the copy each call runs
  objects,    \* what each call has read
  today,      \* the time each call compared with
  now,        \* the time each call is about to record
  paid,       \* the calls that have updated the wallet
  recorded,   \* history: times of the claims written
  seen        \* history: the claims written before each call's read

vars == <<clock, object, stage, copy, objects, today, now, paid, recorded, seen>>

Stages == {"new", "read", "paying", "notifying", "stamping", "writing",
           "answered", "denied", "failed"}

Midnight(t) == t - (t % DayLength)

Init ==
  /\ clock = DayLength
  /\ \E start \in Starts :
       object = start.object /\ copy \in [Calls -> start.copies]
  /\ stage = [c \in Calls |-> "new"]
  /\ objects = [c \in Calls |-> {}]
  /\ today = [c \in Calls |-> 0] /\ now = [c \in Calls |-> 0]
  /\ paid = {}
  /\ recorded = {} /\ seen = [c \in Calls |-> {}]

Go(c, s) == stage' = [stage EXCEPT ![c] = s]

\* A platform call of the RPC fails and the RPC with it.
Fails(c, s, name) ==
  /\ stage[c] = s /\ name \in Failing
  /\ Go(c, "failed")
  /\ UNCHANGED <<clock, object, copy, objects, today, now, paid, recorded, seen>>

StorageRead(c) ==
  /\ stage[c] = "new"
  /\ objects' = [objects EXCEPT ![c] = object]
  /\ seen' = [seen EXCEPT ![c] = recorded]
  /\ Go(c, "read")
  /\ UNCHANGED <<clock, object, copy, today, now, paid, recorded>>
-----------------------------------------------------------------------------
(* Is a reward due?                                                        *)

FieldName(name) == IF name = "js" THEN "lastClaimUnix" ELSE "last_claim_unix"
FieldOf(c) == FieldName(copy[c])

\* The objects read hold a claim without this copy's field.
Missing(c) == \E claim \in objects[c] : claim[FieldOf(c)] = Never

LastClaim(c) ==
  IF objects[c] = {} THEN 0
  ELSE (CHOOSE claim \in objects[c] : TRUE)[FieldOf(c)]

\* Mutant of Before: a full day since the last claim instead of a new day.
BeforeADay(t, at) == t + DayLength <= at

Before(t, at) == t < Midnight(at)

\* Without its field Go reads zero, TypeScript compares with undefined, which
\* is false, and Lua raises an error.
Due(c) == (copy[c] = "js" => ~Missing(c)) /\ Before(LastClaim(c), clock)
Broken(c) == copy[c] = "lua" /\ Missing(c)

Check(c) ==
  /\ stage[c] = "read"
  /\ today' = [today EXCEPT ![c] = clock]
  /\ \/ Broken(c) /\ Go(c, "failed")
     \/ ~Broken(c) /\ Due(c) /\ Go(c, "paying")
     \/ ~Broken(c) /\ ~Due(c) /\ Go(c, "denied")
  /\ UNCHANGED <<clock, object, copy, objects, now, paid, recorded, seen>>
-----------------------------------------------------------------------------
(* Paying and recording.                                                   *)

WalletUpdate(c) ==
  /\ stage[c] = "paying"
  /\ paid' = paid \cup {c}
  /\ Go(c, "notifying")
  /\ UNCHANGED <<clock, object, copy, objects, today, now, recorded, seen>>

NotificationsSend(c) ==
  /\ stage[c] = "notifying"
  /\ Go(c, "stamping")
  /\ UNCHANGED <<clock, object, copy, objects, today, now, paid, recorded, seen>>

\* Mutant of Stamp: local time recorded as if it were UTC.
StampAhead == clock + 1

Stamp == clock

TakeTime(c) ==
  /\ stage[c] = "stamping"
  /\ now' = [now EXCEPT ![c] = Stamp]
  /\ Go(c, "writing")
  /\ UNCHANGED <<clock, object, copy, objects, today, paid, recorded, seen>>

\* Go marshals a fresh struct; the others write the object read back with
\* their field set, whatever else is in it.
Claim(c) ==
  LET fresh == [f \in Fields |-> Never]
      old   == IF objects[c] = {} THEN fresh ELSE CHOOSE o \in objects[c] : TRUE
  IN  [(IF copy[c] = "go" THEN fresh ELSE old) EXCEPT ![FieldOf(c)] = now[c]]

\* Mutant of WriteVersion: no version is sent.
NoVersion(c) == {}

WriteVersion(c) == Version(objects[c])

StorageWrite(c) ==
  /\ stage[c] = "writing"
  /\ Accepts(object, WriteVersion(c))
  /\ object' = {Claim(c)}
  /\ recorded' = recorded \cup {now[c]}
  /\ Go(c, "answered")
  /\ UNCHANGED <<clock, copy, objects, today, now, paid, seen>>

\* The version does not match any more: an error is returned, the coins stay.
StorageWriteRefused(c) ==
  /\ stage[c] = "writing"
  /\ ~Accepts(object, WriteVersion(c))
  /\ Go(c, "failed")
  /\ UNCHANGED <<clock, object, copy, objects, today, now, paid, recorded, seen>>

SomeCallFails(c) ==
  \/ Fails(c, "new", "StorageRead") \/ Fails(c, "paying", "WalletUpdate")
  \/ Fails(c, "notifying", "NotificationsSend")
  \/ Fails(c, "writing", "StorageWrite")

Tick ==
  /\ clock < MaxTime
  /\ clock' = clock + 1
  /\ UNCHANGED <<object, stage, copy, objects, today, now, paid, recorded, seen>>

Next ==
  \/ \E c \in Calls :
       \/ StorageRead(c) \/ Check(c) \/ WalletUpdate(c) \/ NotificationsSend(c)
       \/ TakeTime(c) \/ StorageWrite(c) \/ StorageWriteRefused(c)
       \/ SomeCallFails(c)
  \/ Tick

Spec == Init /\ [][Next]_vars
-----------------------------------------------------------------------------
(* Properties.                                                             *)

\* Every variable has its type, and no recorded claim lies in the future.
TypeOK ==
  /\ clock \in Nat
  /\ IsFound(object, clock)
  /\ stage \in [Calls -> Stages] /\ copy \in [Calls -> Copies]
  /\ objects \in [Calls -> SUBSET [Fields -> Nat]]
  /\ \A c \in Calls : IsFound(objects[c], clock)
  /\ today \in [Calls -> 0..clock] /\ now \in [Calls -> 0..clock]
  /\ paid \subseteq Calls
  /\ recorded \subseteq 0..clock /\ seen \in [Calls -> SUBSET (0..clock)]

\* A recorded claim counts: a call that began after a claim had been recorded
\* pays only if midnight has passed since, whatever stale or late writes of
\* other calls followed (daily_rewards.go:110).  Holds for a user whose object
\* exists, among copies that agree on its field.
RecordCounts ==
  \A c \in paid : \A t \in seen[c] : t < Midnight(today[c])

\* "If last claimed is before the new day grant a new reward!"
\* (daily_rewards.go:70): a call denies the reward only when a claim was
\* recorded that day, by a call or before the first one.
DeniedOnlyAfterClaim ==
  \A c \in Calls :
    stage[c] = "denied" =>
      \/ \E t \in seen[c] : t >= Midnight(today[c])
      \/ seen[c] = {} /\ objects[c] # {} /\ LastClaim(c) >= Midnight(today[c])

\* "Daily reward" (README.md:77): at most one payment a day.
OnePerDay ==
  \A c, d \in paid : c # d => Midnight(today[c]) # Midnight(today[d])
=============================================================================
