---------------------------- MODULE Names_proofs -----------------------------
(***************************************************************************)
(* Proofs about Names, for any accounts, pool and short ids.               *)
(***************************************************************************)
EXTENDS Names, TLAPS

\* The three shapes of a username never coincide.
LEMMA ShapesDiffer ==
  ASSUME NEW a, NEW b, NEW n, NEW m
  PROVE  /\ Suffixed(n, a) # Generated(b)
         /\ Suffixed(n, a) # Rolled(m)
         /\ Suffixed(n, a) = Suffixed(m, b) => shortID[a] = shortID[b]
  BY DEF Suffixed, Generated, Rolled

LEMMA InitNamed == Init => TypeOK /\ EveryoneNamed
  BY NamesAssumption DEF NamesAssumption, Init, TypeOK, EveryoneNamed, Created, Steps

\* A call that succeeds changes one username.
LEMMA UpdateOne ==
  ASSUME NEW a \in Created, NEW n, AccountUpdateId(a, n)
  PROVE  /\ DOMAIN username' = Created
         /\ username'[a] = n
         /\ \A b \in Created \ {a} : username'[b] = username[b]
  BY DEF AccountUpdateId, Created

LEMMA NextTyped == TypeOK /\ [Next]_vars => TypeOK'
<1> SUFFICES ASSUME TypeOK, [Next]_vars PROVE TypeOK'
  OBVIOUS
<1> USE NamesAssumption DEF NamesAssumption, TypeOK, Created, Steps
<1>1. ASSUME NEW a \in Accounts, Authenticate(a) PROVE TypeOK'
  BY <1>1 DEF Authenticate, Generated, Rolled, Suffixed
<1>2. ASSUME NEW a \in Accounts, NoUserIdFound(a) PROVE TypeOK'
  BY <1>2 DEF NoUserIdFound, Return, Generated, Rolled, Suffixed
<1>3. ASSUME NEW a \in Accounts, FirstTry(a) PROVE TypeOK'
  <2>1. PICK n \in Pool :
          /\ name' = [name EXCEPT ![a] = n]
          /\ \/ AccountUpdateId(a, Rolled(n)) /\ Return(a)
             \/ /\ AccountUpdateIdFails(a, Rolled(n))
                /\ hook' = [hook EXCEPT ![a] = "collided"]
    BY <1>3 DEF FirstTry
  <2>2. hook[a] = "created" /\ failed' = failed
    BY <1>3 DEF FirstTry
  <2>3. DOMAIN username' = Created /\ \A b \in Created \ {a} : username'[b] = username[b]
    <3>1. CASE AccountUpdateId(a, Rolled(n))
      BY <3>1, <2>2, UpdateOne
    <3>2. CASE UNCHANGED username
      BY <3>2
    <3> QED
      BY <2>1, <3>1, <3>2 DEF AccountUpdateIdFails
  <2>4. \/ hook'[a] = "returned" /\ username'[a] = Rolled(name'[a])
        \/ hook'[a] = "collided" /\ username'[a] = username[a]
    BY <2>1, <2>2, UpdateOne DEF AccountUpdateIdFails, Return
  <2>5. \A b \in Accounts \ {a} : hook'[b] = hook[b] /\ name'[b] = name[b]
    BY <2>1 DEF Return
  <2>6. /\ hook' \in [Accounts -> Steps] /\ name' \in [Accounts -> Pool \cup {NoName}]
        /\ name'[a] \in Pool
    BY <2>1 DEF Return
  <2>7. \A b \in Created \ {a} :
          username'[b] \in {Generated(b), Rolled(name'[b]), Suffixed(name'[b], b)}
    BY <2>3, <2>5 DEF Rolled, Suffixed
  <2>8. username'[a] \in {Generated(a), Rolled(name'[a]), Suffixed(name'[a], a)}
    BY <2>2, <2>4
  <2> QED
    BY <2>2, <2>3, <2>4, <2>5, <2>6, <2>7, <2>8
<1>4. ASSUME NEW a \in Accounts, SecondTry(a) PROVE TypeOK'
  <2>1. \/ AccountUpdateId(a, Suffixed(name[a], a))
        \/ AccountUpdateIdFails(a, Suffixed(name[a], a))
    BY <1>4 DEF SecondTry
  <2>2. /\ hook[a] = "collided" /\ name' = name /\ failed' \subseteq Accounts
        /\ hook' = [hook EXCEPT ![a] = "returned"]
    BY <1>4 DEF SecondTry, Return
  <2>3. DOMAIN username' = Created /\ \A b \in Created \ {a} : username'[b] = username[b]
    <3>1. CASE AccountUpdateId(a, Suffixed(name[a], a))
      BY <3>1, <2>2, UpdateOne
    <3>2. CASE UNCHANGED username
      BY <3>2
    <3> QED
      BY <2>1, <3>1, <3>2 DEF AccountUpdateIdFails
  <2>4. username'[a] \in {Generated(a), Rolled(name[a]), Suffixed(name[a], a)}
    BY <2>1, <2>2, UpdateOne DEF AccountUpdateIdFails
  <2>5. \A b \in Created :
          username'[b] \in {Generated(b), Rolled(name'[b]), Suffixed(name'[b], b)}
    BY <2>2, <2>3, <2>4
  <2> QED
    BY <2>2, <2>3, <2>5
<1>5. CASE ServerStops
  BY <1>5 DEF ServerStops, Generated, Rolled, Suffixed
<1>6. CASE UNCHANGED vars
  BY <1>6 DEF vars, Generated, Rolled, Suffixed
<1> QED
  BY <1>1, <1>2, <1>3, <1>4, <1>5, <1>6 DEF Next

\* Nobody else can have an account's suffixed name.
LEMMA SuffixFree ==
  ASSUME TypeOK, ShortIDsDiffer, NEW a \in Accounts, NEW n
  PROVE  ~Taken(a, Suffixed(n, a))
<1> SUFFICES ASSUME NEW b \in Created \ {a}, username[b] = Suffixed(n, a)
             PROVE  FALSE
  BY DEF Taken
<1>1. b \in Accounts /\ b # a
  BY DEF TypeOK
<1>2. username[b] \in {Generated(b), Rolled(name[b]), Suffixed(name[b], b)}
  BY DEF TypeOK
<1>3. Suffixed(n, a) = Suffixed(name[b], b)
  BY <1>2, ShapesDiffer
<1> QED
  BY <1>1, <1>3, ShapesDiffer DEF ShortIDsDiffer

LEMMA NextNamed ==
  ASSUME TypeOK, ShortIDsDiffer, EveryoneNamed, [Next]_vars
  PROVE  EveryoneNamed'
<1> USE DEF EveryoneNamed, TypeOK, Created, Steps
<1>1. ASSUME NEW a \in Accounts, Authenticate(a) PROVE EveryoneNamed'
  BY <1>1 DEF Authenticate, Rolled, Suffixed
<1>2. ASSUME NEW a \in Accounts, NoUserIdFound(a) PROVE EveryoneNamed'
  BY <1>2 DEF NoUserIdFound, Return, Rolled, Suffixed
<1>3. ASSUME NEW a \in Accounts, FirstTry(a) PROVE EveryoneNamed'
  BY <1>3 DEF FirstTry, AccountUpdateId, AccountUpdateIdFails, Return, Rolled,
     Suffixed
<1>4. ASSUME NEW a \in Accounts, SecondTry(a) PROVE EveryoneNamed'
  <2>1. ~Taken(a, Suffixed(name[a], a))
    BY SuffixFree
  <2>2. CASE AccountUpdateId(a, Suffixed(name[a], a))
    BY <1>4, <2>2 DEF SecondTry, AccountUpdateId, Return, Rolled, Suffixed
  <2>3. CASE AccountUpdateIdFails(a, Suffixed(name[a], a)) /\ a \in failed'
    BY <1>4, <2>3 DEF SecondTry, AccountUpdateIdFails, Return, Rolled, Suffixed
  <2> QED
    BY <1>4, <2>1, <2>2, <2>3 DEF SecondTry
<1>5. CASE ServerStops
  BY <1>5 DEF ServerStops, Rolled, Suffixed
<1>6. CASE UNCHANGED vars
  BY <1>6 DEF vars, Rolled, Suffixed
<1> QED
  BY <1>1, <1>2, <1>3, <1>4, <1>5, <1>6 DEF Next

\* Every username comes from its own hook, and is the generated one until the hook has
\* returned (names.go:28-58).
THEOREM NamesTyped == Spec => []TypeOK
<1>1. Init => TypeOK
  BY InitNamed
<1>2. TypeOK /\ [Next]_vars => TypeOK'
  BY NextTyped
<1> QED
  BY <1>1, <1>2, PTL DEF Spec

\* With short ids that differ one fallback names everybody who met nothing worse than
\* a collision (names.go:42-47).
THEOREM AllNamed == ASSUME ShortIDsDiffer PROVE Spec => []EveryoneNamed
<1>1. Init => TypeOK /\ EveryoneNamed
  BY InitNamed
<1>2. TypeOK /\ EveryoneNamed /\ [Next]_vars => TypeOK' /\ EveryoneNamed'
  BY ShortIDsDiffer, NextTyped, NextNamed
<1> QED
  BY <1>1, <1>2, PTL DEF Spec
=============================================================================
