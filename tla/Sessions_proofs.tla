--------------------------- MODULE Sessions_proofs ---------------------------
(***************************************************************************)
(* Proofs about Sessions, for any number of sessions and any failures.     *)
(***************************************************************************)
EXTENDS Sessions, TLAPS

\* The handler of s has yet to disconnect t, or has failed to.
Pending(s, t) ==
  s \in events \/ t \in presences[s] \/ presence[s] = t \/ s \in errors

\* Whichever of two sessions listed the presences last has found the other.
PairInv == \A s, t \in Online : s # t => Pending(s, t) \/ Pending(t, s)

ListInv ==
  \A s \in Sessions :
    /\ \A t \in presences[s] : t # s /\ stage[t] # "offline"
    /\ presence[s] # NoSession =>
         /\ stage[presence[s]] # "offline"
         /\ presence[s] \in Online => presence[s] \in told

SessionInv == TypeOK /\ ListInv /\ PairInv /\ KickedAreTold

LEMMA InitSession == Init => SessionInv
  BY SessionsAssumption DEF SessionsAssumption, Init, SessionInv, TypeOK, ListInv,
     PairInv, KickedAreTold, Online, Stages

LEMMA NextTyped == TypeOK /\ [Next]_vars => TypeOK'
<1> SUFFICES ASSUME TypeOK, [Next]_vars PROVE TypeOK'
  OBVIOUS
<1> USE SessionsAssumption DEF SessionsAssumption, TypeOK, Stages
<1>1. ASSUME NEW s \in Sessions, SessionStart(s) PROVE TypeOK'
  BY <1>1 DEF SessionStart
<1>2. ASSUME NEW s \in Sessions, SessionEnd(s) PROVE TypeOK'
  BY <1>2 DEF SessionEnd
<1>3. ASSUME NEW s \in Sessions, StreamUserList(s) PROVE TypeOK'
  BY <1>3 DEF StreamUserList, Others, Online
<1>4. ASSUME NEW s \in Sessions, StreamUserListFails(s) PROVE TypeOK'
  BY <1>4 DEF StreamUserListFails, Errs
<1>5. ASSUME NEW s \in Sessions, NEW t \in Sessions, NotificationsSend(s, t) PROVE TypeOK'
  <2>1. presence' \in [Sessions -> Sessions \cup {NoSession}]
    BY <1>5 DEF NotificationsSend
  <2>2. presences' \in [Sessions -> SUBSET Sessions]
    BY <1>5 DEF NotificationsSend, Take
  <2>3. s \notin events /\ stage[s] # "offline"
    BY <1>5 DEF NotificationsSend, Take
  <2>4. \A r \in Sessions : stage'[r] = "offline" \/ r \in events'
                            => presences'[r] = {} /\ presence'[r] = NoSession
    BY <1>5, <2>3 DEF NotificationsSend, Take
  <2> QED
    BY <1>5, <2>1, <2>2, <2>4 DEF NotificationsSend, Online
<1>6. ASSUME NEW s \in Sessions, NEW t \in Sessions, NotificationsSendFails(s, t) PROVE TypeOK'
  BY <1>6 DEF NotificationsSendFails, Take, Errs, Unnotified
<1>7. ASSUME NEW s \in Sessions, SessionDisconnect(s) PROVE TypeOK'
  <2>1. stage' \in [Sessions -> Stages]
    BY <1>7 DEF SessionDisconnect
  <2>2. \A r \in Sessions : stage[r] # "offline" => stage'[r] # "offline"
    BY <1>7 DEF SessionDisconnect
  <2> QED
    BY <1>7, <2>1, <2>2 DEF SessionDisconnect
<1>8. ASSUME NEW s \in Sessions, SessionDisconnectFails(s) PROVE TypeOK'
  BY <1>8 DEF SessionDisconnectFails, Errs
<1>9. CASE UNCHANGED vars
  BY <1>9 DEF vars
<1> QED
  BY <1>1, <1>2, <1>3, <1>4, <1>5, <1>6, <1>7, <1>8, <1>9 DEF Next, HandlerStep

\* What a step of the handler of s may do to the rest keeps the pairs.
LEMMA NextPair == SessionInv /\ [Next]_vars => PairInv'
<1> SUFFICES ASSUME SessionInv, [Next]_vars,
                    NEW a \in Online', NEW b \in Online', a # b
             PROVE  Pending(a, b)' \/ Pending(b, a)'
  BY DEF PairInv
<1> USE SessionsAssumption DEF SessionsAssumption, SessionInv, TypeOK, Stages
<1>1. a \in Sessions /\ b \in Sessions
  BY DEF Online
<1>2. a \in Online /\ b \in Online => Pending(a, b) \/ Pending(b, a)
  BY DEF PairInv
<1>3. ASSUME NEW s \in Sessions, SessionStart(s)
      PROVE  Pending(a, b)' \/ Pending(b, a)'
  BY <1>1, <1>2, <1>3 DEF SessionStart, Pending, Online
<1>4. ASSUME NEW s \in Sessions, SessionEnd(s)
      PROVE  Pending(a, b)' \/ Pending(b, a)'
  BY <1>1, <1>2, <1>4 DEF SessionEnd, Pending, Online
<1>5. ASSUME NEW s \in Sessions, StreamUserList(s)
      PROVE  Pending(a, b)' \/ Pending(b, a)'
  BY <1>1, <1>2, <1>5 DEF StreamUserList, Others, Pending, Online
<1>6. ASSUME NEW s \in Sessions, StreamUserListFails(s)
      PROVE  Pending(a, b)' \/ Pending(b, a)'
  BY <1>1, <1>2, <1>6 DEF StreamUserListFails, Errs, Pending, Online
<1>7. ASSUME NEW s \in Sessions, NEW t \in Sessions, NotificationsSend(s, t)
      PROVE  Pending(a, b)' \/ Pending(b, a)'
  BY <1>1, <1>2, <1>7 DEF NotificationsSend, Take, Pending, Online
<1>8. ASSUME NEW s \in Sessions, NEW t \in Sessions, NotificationsSendFails(s, t)
      PROVE  Pending(a, b)' \/ Pending(b, a)'
  BY <1>1, <1>2, <1>8 DEF NotificationsSendFails, Take, Errs, Unnotified, Pending, Online
<1>9. ASSUME NEW s \in Sessions, SessionDisconnect(s)
      PROVE  Pending(a, b)' \/ Pending(b, a)'
  BY <1>1, <1>2, <1>9 DEF SessionDisconnect, Pending, Online
<1>10. ASSUME NEW s \in Sessions, SessionDisconnectFails(s)
       PROVE  Pending(a, b)' \/ Pending(b, a)'
  BY <1>1, <1>2, <1>10 DEF SessionDisconnectFails, Errs, Pending, Online
<1>11. CASE UNCHANGED vars
  BY <1>1, <1>2, <1>11 DEF vars, Pending, Online
<1> QED
  BY <1>3, <1>4, <1>5, <1>6, <1>7, <1>8, <1>9, <1>10, <1>11 DEF Next, HandlerStep

LEMMA NextList == SessionInv /\ [Next]_vars => ListInv' /\ KickedAreTold'
<1> SUFFICES ASSUME SessionInv, [Next]_vars PROVE ListInv' /\ KickedAreTold'
  OBVIOUS
<1> USE SessionsAssumption DEF SessionsAssumption, SessionInv, TypeOK, Stages,
        ListInv, KickedAreTold, Online
<1>1. ASSUME NEW s \in Sessions, SessionStart(s) PROVE ListInv' /\ KickedAreTold'
  BY <1>1 DEF SessionStart
<1>2. ASSUME NEW s \in Sessions, SessionEnd(s) PROVE ListInv' /\ KickedAreTold'
  BY <1>2 DEF SessionEnd
<1>3. ASSUME NEW s \in Sessions, StreamUserList(s) PROVE ListInv' /\ KickedAreTold'
  BY <1>3 DEF StreamUserList, Others
<1>4. ASSUME NEW s \in Sessions, StreamUserListFails(s) PROVE ListInv' /\ KickedAreTold'
  BY <1>4 DEF StreamUserListFails
<1>5. ASSUME NEW s \in Sessions, NEW t \in Sessions, NotificationsSend(s, t)
      PROVE  ListInv' /\ KickedAreTold'
  BY <1>5 DEF NotificationsSend, Take
<1>6. ASSUME NEW s \in Sessions, NEW t \in Sessions, NotificationsSendFails(s, t)
      PROVE  ListInv' /\ KickedAreTold'
  BY <1>6 DEF NotificationsSendFails, Take, Unnotified
<1>7. ASSUME NEW s \in Sessions, SessionDisconnect(s) PROVE ListInv' /\ KickedAreTold'
  BY <1>7 DEF SessionDisconnect
<1>8. ASSUME NEW s \in Sessions, SessionDisconnectFails(s) PROVE ListInv' /\ KickedAreTold'
  BY <1>8 DEF SessionDisconnectFails
<1>9. CASE UNCHANGED vars
  BY <1>9 DEF vars
<1> QED
  BY <1>1, <1>2, <1>3, <1>4, <1>5, <1>6, <1>7, <1>8, <1>9 DEF Next, HandlerStep

LEMMA AlwaysSession == Spec => []SessionInv
<1>1. SessionInv /\ [Next]_vars => SessionInv'
  BY NextTyped, NextPair, NextList DEF SessionInv
<1> QED
  BY InitSession, <1>1, PTL DEF Spec

\* The rule's type invariant, for any number of sessions.
THEOREM SessionsTyped == Spec => []TypeOK
  BY AlwaysSession, PTL DEF SessionInv

\* One session per user (session_events.go:71): of two sessions that stay
\* online the handler of one still runs or has met an error.
THEOREM OneSessionSettled == Spec => []OnlyOneSettled
<1>1. SessionInv => OnlyOneSettled
  BY SessionsAssumption DEF SessionsAssumption, SessionInv, PairInv, Pending,
     OnlyOneSettled, Running, Online
<1> QED
  BY <1>1, AlwaysSession, PTL

\* A session is disconnected only after another one has notified it
\* (session_events.go:112), whatever fails.
THEOREM NobodyCutSilently == Spec => []KickedAreTold
  BY AlwaysSession, PTL DEF SessionInv
=============================================================================
