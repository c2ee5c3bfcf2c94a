-------------------------------- MODULE Names --------------------------------
(***************************************************************************)
(* The username given to a new account by the hook of names.go.  Accounts  *)
(* are created at any time, so the hooks of several overlap.               *)
(*                                                                         *)
(* External (Nakama): creating an account gives it a random username of    *)
(* its own; usernames are unique, and AccountUpdateId fails for one that   *)
(* is taken; the hook runs once, when the account is created               *)
(* (out.Created), and not again if the server stops first.                 *)
(***************************************************************************)
EXTENDS FiniteSets

CONSTANTS
  Accounts,      \* user ids
  Pool,          \* what randomName can return
  NoName,        \* no name rolled yet
  shortID,       \* the leading hex digits of each user id
  Failing        \* what may fail: reading the user id, a call, the server

ASSUME NamesAssumption ==
  /\ NoName \notin Pool
  /\ Failing \subseteq {"UserId", "AccountUpdateId", "Server"}

VARIABLES
  hook,          \* where the hook of each account is
  username,      \* the usernames of the accounts that exist
  name,          \* the name each hook has rolled
  failed         \* history: accounts whose hook met more than a taken name

vars == <<hook, username, name, failed>>

Steps == {"none", "created", "collided", "returned"}

Created == DOMAIN username

\* The three shapes of a username: what Nakama generates, a name of the pool, and
\* such a name with the short id after it.
Generated(a) == <<"generated", a>>
Rolled(n) == <<"pool", n>>

\* Mutant of Suffixed: the same name again.
SuffixedNot(n, a) == Rolled(n)

Suffixed(n, a) == <<"pool", n, shortID[a]>>

Init ==
  /\ hook = [a \in Accounts |-> "none"]
  /\ username = [a \in {} |-> Generated(a)]
  /\ name = [a \in Accounts |-> NoName]
  /\ failed = {}

Authenticate(a) ==
  /\ hook[a] = "none"
  /\ hook' = [hook EXCEPT ![a] = "created"]
  /\ username' = [b \in Created \cup {a} |->
                    IF b = a THEN Generated(a) ELSE username[b]]
  /\ UNCHANGED <<name, failed>>
-----------------------------------------------------------------------------
(* afterAuthenticateDevice.                                                *)

Taken(a, n) == \E b \in Created \ {a} : username[b] = n

\* The call succeeds.
AccountUpdateId(a, n) ==
  /\ ~Taken(a, n)
  /\ username' = [username EXCEPT ![a] = n]

\* It returns an error, for a name that is taken or for any other reason.
AccountUpdateIdFails(a, n) ==
  /\ Taken(a, n) \/ "AccountUpdateId" \in Failing
  /\ UNCHANGED username

Return(a) == hook' = [hook EXCEPT ![a] = "returned"]

NoUserIdFound(a) ==
  /\ hook[a] = "created" /\ "UserId" \in Failing
  /\ Return(a)
  /\ failed' = failed \cup {a}
  /\ UNCHANGED <<username, name>>

\* Mutant of FirstTry: the name is not kept for the second call.
FirstTryForgets(a) ==
  /\ hook[a] = "created"
  /\ \E n \in Pool :
       \/ AccountUpdateId(a, Rolled(n)) /\ Return(a)
       \/ /\ AccountUpdateIdFails(a, Rolled(n))
          /\ hook' = [hook EXCEPT ![a] = "collided"]
  /\ UNCHANGED <<name, failed>>

FirstTry(a) ==
  /\ hook[a] = "created"
  /\ \E n \in Pool :
       /\ name' = [name EXCEPT ![a] = n]
       /\ \/ AccountUpdateId(a, Rolled(n)) /\ Return(a)
          \/ /\ AccountUpdateIdFails(a, Rolled(n))
             /\ hook' = [hook EXCEPT ![a] = "collided"]
  /\ UNCHANGED failed

\* The second error is logged and ignored.
SecondTry(a) ==
  /\ hook[a] = "collided"
  /\ LET n == Suffixed(name[a], a)
     IN  \/ AccountUpdateId(a, n) /\ UNCHANGED failed
         \/ /\ AccountUpdateIdFails(a, n)
            /\ failed' = IF Taken(a, n) THEN failed ELSE failed \cup {a}
  /\ Return(a)
  /\ UNCHANGED name

\* The hooks that run are lost with the server.
ServerStops ==
  LET lost == {a \in Accounts : hook[a] \in {"created", "collided"}}
  IN  /\ "Server" \in Failing /\ lost # {}
      /\ hook' = [a \in Accounts |-> IF a \in lost THEN "returned" ELSE hook[a]]
      /\ failed' = failed \cup lost
      /\ UNCHANGED <<username, name>>

Next ==
  \/ \E a \in Accounts :
       Authenticate(a) \/ NoUserIdFound(a) \/ FirstTry(a) \/ SecondTry(a)
  \/ ServerStops

Spec == Init /\ [][Next]_vars
-----------------------------------------------------------------------------
(* Properties.                                                             *)

\* Every variable has its type; a username has one of the three shapes, made from
\* the name its own hook rolled, and is the generated one until the hook returns.
TypeOK ==
  /\ hook \in [Accounts -> Steps]
  /\ name \in [Accounts -> Pool \cup {NoName}]
  /\ failed \subseteq Accounts
  /\ Created = {a \in Accounts : hook[a] # "none"}
  /\ \A a \in Created :
       username[a] \in {Generated(a), Rolled(name[a]), Suffixed(name[a], a)}
  /\ \A a \in Created :
       /\ hook[a] # "returned" => username[a] = Generated(a)
       /\ hook[a] = "collided" => name[a] \in Pool

\* "enough to tell any two accounts apart" (names.go:68), as far as it is so.
ShortIDsDiffer == \A a, b \in Accounts : a # b => shortID[a] # shortID[b]

\* "settles this in one more call" (names.go:45): however many accounts are named
\* at once and whatever they roll, none is left with its generated name unless
\* something other than a collision went wrong.  Needs ShortIDsDiffer.
EveryoneNamed ==
  \A a \in Created : hook[a] = "returned" /\ a \notin failed =>
    name[a] \in Pool /\ username[a] \in {Rolled(name[a]), Suffixed(name[a], a)}
=============================================================================
