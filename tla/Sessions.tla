------------------------------ MODULE Sessions ------------------------------
(***************************************************************************)
(* The single-device rule of session_events.go, for the realtime sessions  *)
(* of one user: every session that starts disconnects the others.          *)
(*                                                                         *)
(* External (Nakama): a session is on the user's notification stream from  *)
(* before its start event is queued until it ends; events are handled by   *)
(* several workers, so the handlers of two sessions overlap and may run in *)
(* any order; disconnecting a session that has ended does nothing.         *)
(***************************************************************************)
EXTENDS Naturals, FiniteSets

CONSTANTS
  Sessions,     \* the user's sessions, each started at most once
  NoSession,    \* no presence is being handled
  Failing       \* platform calls that may return an error

ASSUME SessionsAssumption ==
  /\ NoSession \notin Sessions
  /\ Failing \subseteq {"StreamUserList", "NotificationsSend", "SessionDisconnect"}

VARIABLES
  stage,        \* where each session is
  events,       \* start events queued, as the sessions that started
  presences,    \* other presences each handler has listed and not come to yet
  presence,     \* the presence each handler has notified, to disconnect next
  told,         \* sessions that have been notified by another one
  kicked,       \* history: sessions a handler has disconnected
  errors        \* history: sessions whose handler met an error

vars == <<stage, events, presences, presence, told, kicked, errors>>

Stages == {"offline", "online", "ended"}

Online == {s \in Sessions : stage[s] = "online"}

Init ==
  /\ stage = [s \in Sessions |-> "offline"]
  /\ events = {}
  /\ presences = [s \in Sessions |-> {}]
  /\ presence = [s \in Sessions |-> NoSession]
  /\ told = {} /\ kicked = {} /\ errors = {}

SessionStart(s) ==
  /\ stage[s] = "offline"
  /\ stage' = [stage EXCEPT ![s] = "online"]
  /\ events' = events \cup {s}
  /\ UNCHANGED <<presences, presence, told, kicked, errors>>

\* The client closes the socket or loses it.
SessionEnd(s) ==
  /\ stage[s] = "online"
  /\ stage' = [stage EXCEPT ![s] = "ended"]
  /\ UNCHANGED <<events, presences, presence, told, kicked, errors>>
-----------------------------------------------------------------------------
(* The handler of a start event.                                           *)

Errs(s, name) == name \in Failing /\ errors' = errors \cup {s}

\* Mutant of Others: passes over every presence with the user's id.
OthersByUser(s) == {}

\* The presences of the stream without the handler's own session, which the
\* loop passes over.
Others(s) == Online \ {s}

\* Mutant of StreamUserList: the event stays queued.
StreamUserListAgain(s) ==
  /\ s \in events
  /\ presences' = [presences EXCEPT ![s] = Others(s)]
  /\ UNCHANGED <<stage, events, presence, told, kicked, errors>>

StreamUserList(s) ==
  /\ s \in events
  /\ events' = events \ {s}
  /\ presences' = [presences EXCEPT ![s] = Others(s)]
  /\ UNCHANGED <<stage, presence, told, kicked, errors>>

StreamUserListFails(s) ==
  /\ s \in events /\ Errs(s, "StreamUserList")
  /\ events' = events \ {s}
  /\ UNCHANGED <<stage, presences, presence, told, kicked>>

\* The loop comes to presence t; the list has no particular order.
Take(s, t) ==
  /\ presence[s] = NoSession /\ t \in presences[s]
  /\ presences' = [presences EXCEPT ![s] = @ \ {t}]

\* Every session of the user that is online gets the notification.
NotificationsSend(s, t) ==
  /\ Take(s, t)
  /\ presence' = [presence EXCEPT ![s] = t]
  /\ told' = told \cup (Online \ {s})
  /\ UNCHANGED <<stage, events, kicked, errors>>

\* Mutant of Unnotified: disconnects even so.
UnnotifiedToo(s, t) == presence' = [presence EXCEPT ![s] = t]

\* `continue': a session that could not be notified is not disconnected.
Unnotified(s, t) == UNCHANGED presence

NotificationsSendFails(s, t) ==
  /\ Take(s, t) /\ Errs(s, "NotificationsSend")
  /\ Unnotified(s, t)
  /\ UNCHANGED <<stage, events, told, kicked>>

SessionDisconnect(s) ==
  /\ presence[s] # NoSession
  /\ LET cut == Online \cap {presence[s]}
     IN  /\ stage' = [r \in Sessions |-> IF r \in cut THEN "ended" ELSE stage[r]]
         /\ kicked' = kicked \cup cut
  /\ presence' = [presence EXCEPT ![s] = NoSession]
  /\ UNCHANGED <<events, presences, told, errors>>

SessionDisconnectFails(s) ==
  /\ presence[s] # NoSession /\ Errs(s, "SessionDisconnect")
  /\ presence' = [presence EXCEPT ![s] = NoSession]
  /\ UNCHANGED <<stage, events, presences, told, kicked>>

HandlerStep(s) ==
  \/ StreamUserList(s) \/ StreamUserListFails(s)
  \/ \E t \in Sessions : NotificationsSend(s, t) \/ NotificationsSendFails(s, t)
  \/ SessionDisconnect(s) \/ SessionDisconnectFails(s)

Next == \E s \in Sessions : SessionStart(s) \/ SessionEnd(s) \/ HandlerStep(s)

Spec == Init /\ [][Next]_vars

\* A queued event is taken by a worker, and its handler runs to its end.
FairSpec == Spec /\ \A s \in Sessions : WF_vars(HandlerStep(s))
-----------------------------------------------------------------------------
(* Properties.                                                             *)

\* Every variable has its type, and a handler does nothing before its event.
TypeOK ==
  /\ stage \in [Sessions -> Stages]
  /\ events \subseteq {s \in Sessions : stage[s] # "offline"}
  /\ presences \in [Sessions -> SUBSET Sessions]
  /\ presence \in [Sessions -> Sessions \cup {NoSession}]
  /\ \A s \in Sessions :
       stage[s] = "offline" \/ s \in events
         => presences[s] = {} /\ presence[s] = NoSession
  /\ told \subseteq Sessions /\ kicked \subseteq Sessions /\ errors \subseteq Sessions

\* The handler of a session has not returned.
Running(s) == s \in events \/ presences[s] # {} \/ presence[s] # NoSession

\* "Limit the number of concurrent realtime sessions active for a user to
\* just one" (session_events.go:71): of two sessions online, the handler of one
\* still runs or has met an error, whatever the order of the events.
OnlyOneSettled ==
  \A s, t \in Online :
    s # t => Running(s) \/ s \in errors \/ Running(t) \/ t \in errors

\* And it does not stay so: handlers that meet no error leave one of their
\* sessions online at most.
OneIsLeft ==
  Cardinality(Online \ errors) > 1 ~> Cardinality(Online \ errors) <= 1

\* No session is cut off without word: another one has notified it first,
\* although notifying may fail (session_events.go:112).
KickedAreTold == kicked \subseteq told
=============================================================================
