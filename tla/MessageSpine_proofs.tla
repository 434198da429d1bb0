-------------------------- MODULE MessageSpine_proofs --------------------------
(***************************************************************************)
(* Proofs about MessageSpine and the ServiceManager it extends: for every  *)
(* finite set of services, every dependency graph, and any number of       *)
(* requests, identities and tokens.                                        *)
(***************************************************************************)
EXTENDS MessageSpine, FiniteSetTheorems, SequenceTheorems, TLAPS

-----------------------------------------------------------------------------
(* The inductive invariant of ServiceManager.                              *)

\* The calls of an item are ahead of it, in the agenda or done already.
Ahead(i, ops, s) ==
  \E k \in 1..(i - 1) : agenda[k].op \in ops /\ agenda[k].service = s

Rising == {"start", "up"}
Falling == {"stop", "down"}

\* A call first stops services and then starts or removes one: while there is
\* one to bring up, none is taken down.
AgendaShape ==
  \A i \in DOMAIN agenda :
    /\ agenda[i].service \in registered
    /\ agenda[i].op \in Rising =>
         \A k \in i..Len(agenda) : agenda[k].op \in Rising
    /\ agenda[i].op = "up" => \A k \in 1..i : agenda[k].op \in Rising
    /\ agenda[i].op = "remove" => i = Len(agenda)

\* A service is brought up after all it depends on.
AgendaUp ==
  \A i \in DOMAIN agenda : agenda[i].op = "up" =>
    \A d \in dependencies[agenda[i].service] :
      Running(d) \/ d \in failed \/ Ahead(i, Rising, d)

\* It is taken down after all that depend on it, and removed after it is down.
AgendaDown ==
  \A i \in DOMAIN agenda :
    /\ agenda[i].op = "down" =>
         \A t \in registered :
           Running(t) /\ agenda[i].service \in dependencies[t] => Ahead(i, Falling, t)
    /\ agenda[i].op = "remove" =>
         ~Running(agenda[i].service) \/ Ahead(i, Falling, agenda[i].service)

\* What a call starts for another service can be started.
AgendaStarts ==
  \A i \in DOMAIN agenda :
    agenda[i].op = "start" => i = Len(agenda) \/ Orders(agenda[i].service) # {}

AgendaInv == AgendaShape /\ AgendaUp /\ AgendaDown /\ AgendaStarts

ServicesInv == DependenciesRunning /\ AgendaInv

-----------------------------------------------------------------------------
(* The agenda.                                                             *)

\* An order of a set lists all of it, each member once.
LEMMA OrderLists ==
  ASSUME NEW S, IsFiniteSet(S), NEW order \in SetToSeqs(S)
  PROVE  /\ order \in Seq(S) /\ Len(order) \in Nat
         /\ \A i, j \in 1..Len(order) : i # j => order[i] # order[j]
         /\ \A d \in S : \E i \in 1..Len(order) : order[i] = d
<1> DEFINE n == Cardinality(S)
<1>1. n \in Nat
  BY FS_CardinalityType
<1>2. order \in [1..n -> S] /\ \A i, j \in 1..n : i # j => order[i] # order[j]
  BY DEF SetToSeqs
<1>3. order \in Injection(1..n, S)
  BY <1>2 DEF Injection, IsInjective
<1>4. Cardinality(1..n) = Cardinality(S)
  BY <1>1, FS_Interval
<1>5. order \in Surjection(1..n, S)
  BY <1>3, <1>4, FS_Injection
<1>6. order \in Seq(S) /\ Len(order) = n
  BY <1>1, <1>2
<1> QED BY <1>1, <1>2, <1>5, <1>6 DEF Surjection

LEMMA FunctionIsSeq ==
  ASSUME NEW n \in Nat, NEW S, NEW f \in [1..n -> S]
  PROVE  f \in Seq(S) /\ Len(f) = n /\ DOMAIN f = 1..n
OBVIOUS

LEMMA Concatenation ==
  ASSUME NEW T, NEW s \in Seq(T), NEW t \in Seq(T)
  PROVE  /\ s \o t \in Seq(T) /\ Len(s \o t) = Len(s) + Len(t)
         /\ \A i \in 1..Len(s) : (s \o t)[i] = s[i]
         /\ \A i \in 1..Len(t) : (s \o t)[Len(s) + i] = t[i]
<1>1. Len(s) \in Nat /\ Len(t) \in Nat
  BY LenProperties
<1>2. /\ s \o t \in Seq(T) /\ Len(s \o t) = Len(s) + Len(t)
      /\ \A i \in 1..(Len(s) + Len(t)) :
           (s \o t)[i] = IF i <= Len(s) THEN s[i] ELSE t[i - Len(s)]
  BY ConcatProperties
<1>3. ASSUME NEW i \in 1..Len(s) PROVE (s \o t)[i] = s[i]
  BY <1>1, <1>2
<1>4. ASSUME NEW i \in 1..Len(t) PROVE (s \o t)[Len(s) + i] = t[i]
  <2>1. /\ Len(s) + i \in 1..(Len(s) + Len(t)) /\ ~(Len(s) + i <= Len(s))
        /\ (Len(s) + i) - Len(s) = i
    BY <1>1
  <2> QED BY <1>2, <2>1
<1> QED BY <1>2, <1>3, <1>4

LEMMA AgendaHead ==
  ASSUME ServicesOK, agenda # <<>>
  PROVE  /\ Len(agenda) \in Nat \ {0} /\ DOMAIN agenda = 1..Len(agenda)
         /\ Head(agenda) = agenda[1] /\ Subject = agenda[1].service
         /\ Subject \in Services
         /\ \A i \in 1..Len(agenda) : agenda[i] \in Items
<1>1. agenda \in Seq(Items) /\ agenda \in [1..Len(agenda) -> Items]
  BY LenProperties DEF ServicesOK
<1>2. Len(agenda) \in Nat \ {0} /\ DOMAIN agenda = 1..Len(agenda)
  BY <1>1, EmptySeq, LenProperties
<1>3. \A i \in 1..Len(agenda) : agenda[i] \in Items
  BY <1>1
<1>4. Head(agenda) = agenda[1] /\ agenda[1] \in Items
  BY <1>1, <1>2, <1>3
<1> QED BY <1>2, <1>3, <1>4 DEF Items, Subject

\* What is left when the first item is done.
LEMMA AgendaTail ==
  ASSUME ServicesOK, agenda # <<>>, agenda' = Tail(agenda)
  PROVE  /\ agenda' \in Seq(Items) /\ Len(agenda') = Len(agenda) - 1
         /\ DOMAIN agenda' = 1..(Len(agenda) - 1)
         /\ \A i \in 1..(Len(agenda) - 1) : agenda'[i] = agenda[i + 1]
         /\ \A i \in 1..(Len(agenda) - 1) : \A ops, d :
              Ahead(i + 1, ops, d) =>
                Ahead(i, ops, d)' \/ (agenda[1].op \in ops /\ Subject = d)
<1>1. /\ agenda' \in Seq(Items) /\ Len(agenda') = Len(agenda) - 1
      /\ \A i \in 1..(Len(agenda) - 1) : agenda'[i] = agenda[i + 1]
  BY HeadTailProperties DEF ServicesOK
<1>2. DOMAIN agenda' = 1..(Len(agenda) - 1)
  BY <1>1, LenProperties
<1>3. ASSUME NEW i \in 1..(Len(agenda) - 1), NEW ops, NEW d, Ahead(i + 1, ops, d),
             ~(agenda[1].op \in ops /\ Subject = d)
      PROVE  Ahead(i, ops, d)'
  <2>1. PICK k \in 1..i : agenda[k].op \in ops /\ agenda[k].service = d
    BY <1>3, AgendaHead DEF Ahead
  <2>2. k # 1
    BY <1>3, <2>1, AgendaHead
  <2>3. k - 1 \in 1..(i - 1) /\ agenda'[k - 1] = agenda[k]
    BY <1>1, <2>1, <2>2, AgendaHead
  <2> QED BY <2>1, <2>3 DEF Ahead
<1> QED BY <1>1, <1>2, <1>3

\* What it is when the first item has called others, in an order.
CallsMade(op, last, S, order) ==
  /\ agenda' \in Seq(Items) /\ Len(order) \in Nat
  /\ Len(agenda') = Len(order) + Len(agenda)
  /\ DOMAIN agenda' = 1..(Len(order) + Len(agenda))
  /\ \A i \in 1..Len(order) :
       order[i] \in S /\ agenda'[i].op = op /\ agenda'[i].service = order[i]
  /\ agenda'[Len(order) + 1].op = last
  /\ agenda'[Len(order) + 1].service = Subject
  /\ \A i \in 2..Len(agenda) : agenda'[Len(order) + i] = agenda[i]
  /\ \A d \in S : \E i \in 1..Len(order) : order[i] = d

LEMMA AgendaCalls ==
  ASSUME ServicesOK, agenda # <<>>, NEW S \in SUBSET Services, NEW order \in SetToSeqs(S),
         NEW op \in {"start", "stop"}, NEW last \in {"up", "down"},
         agenda' = Each(op, order) \o <<Item(last, Subject)>> \o Tail(agenda)
  PROVE  CallsMade(op, last, S, order)
<1> DEFINE n == Len(order)
<1> DEFINE E == Each(op, order)
<1> DEFINE L == <<Item(last, Subject)>>
<1>1. IsFiniteSet(S)
  BY ServicesAssumption, FS_Subset
<1>2. /\ order \in Seq(S) /\ n \in Nat
      /\ \A d \in S : \E i \in 1..n : order[i] = d
  BY <1>1, OrderLists
<1>3. \A i \in 1..n : order[i] \in S /\ Item(op, order[i]) \in Items
  BY <1>2, ElementOfSeq DEF Items, Item
<1>4. E \in [1..n -> Items] /\ \A i \in 1..n : E[i] = Item(op, order[i])
  BY <1>2, <1>3, LenProperties DEF Each
<1> HIDE DEF E, n
<1>5. E \in Seq(Items) /\ Len(E) = n
  BY <1>2, <1>4, FunctionIsSeq
<1>6. L \in Seq(Items) /\ Len(L) = 1 /\ L[1] = Item(last, Subject)
  BY AgendaHead DEF Items, Item
<1>7. /\ Tail(agenda) \in Seq(Items) /\ Len(Tail(agenda)) = Len(agenda) - 1
      /\ \A i \in 1..(Len(agenda) - 1) : Tail(agenda)[i] = agenda[i + 1]
  BY HeadTailProperties DEF ServicesOK
<1> HIDE DEF L
<1>8. /\ E \o L \in Seq(Items) /\ Len(E \o L) = n + 1
      /\ \A i \in 1..n : (E \o L)[i] = E[i]
      /\ (E \o L)[n + 1] = Item(last, Subject)
  <2>1. /\ E \o L \in Seq(Items) /\ Len(E \o L) = Len(E) + Len(L)
        /\ \A i \in 1..Len(E) : (E \o L)[i] = E[i]
        /\ \A i \in 1..Len(L) : (E \o L)[Len(E) + i] = L[i]
    <3>1. E \in Seq(Items) /\ L \in Seq(Items)
      BY <1>5, <1>6
    <3> QED BY ONLY <3>1, Concatenation
  <2>2. 1 \in 1..Len(L)
    BY <1>6
  <2> QED BY <1>5, <1>6, <2>1, <2>2
<1>9. /\ agenda' \in Seq(Items) /\ Len(agenda') = (n + 1) + (Len(agenda) - 1)
      /\ \A i \in 1..(n + 1) : agenda'[i] = (E \o L)[i]
      /\ \A i \in 1..(Len(agenda) - 1) : agenda'[(n + 1) + i] = Tail(agenda)[i]
  <2>1. agenda' = (E \o L) \o Tail(agenda)
    BY DEF E, L
  <2> DEFINE P == E \o L
  <2> DEFINE R == Tail(agenda)
  <2> HIDE DEF P, R
  <2>2. P \in Seq(Items) /\ R \in Seq(Items)
    BY <1>7, <1>8 DEF P, R
  <2>3. /\ P \o R \in Seq(Items) /\ Len(P \o R) = Len(P) + Len(R)
        /\ \A i \in 1..Len(P) : (P \o R)[i] = P[i]
        /\ \A i \in 1..Len(R) : (P \o R)[Len(P) + i] = R[i]
    BY <2>2, Concatenation
  <2>4. agenda' = P \o R /\ Len(P) = n + 1 /\ Len(R) = Len(agenda) - 1
    BY <1>7, <1>8, <2>1 DEF P, R
  <2>5. /\ agenda' \in Seq(Items) /\ Len(agenda') = (n + 1) + (Len(agenda) - 1)
        /\ \A i \in 1..(n + 1) : agenda'[i] = P[i]
        /\ \A i \in 1..(Len(agenda) - 1) : agenda'[(n + 1) + i] = R[i]
    BY <2>3, <2>4
  <2> QED BY <2>5 DEF P, R
<1>10. Len(agenda') = n + Len(agenda) /\ DOMAIN agenda' = 1..(n + Len(agenda))
  BY <1>2, <1>9, LenProperties, AgendaHead
<1>11. \A i \in 1..n : agenda'[i] = Item(op, order[i])
  <2>1. \A i \in 1..n : i \in 1..(n + 1)
    BY <1>2
  <2> QED BY <1>4, <1>8, <1>9, <2>1
<1>12. agenda'[n + 1] = Item(last, Subject)
  <2>1. n + 1 \in 1..(n + 1)
    BY <1>2
  <2> QED BY <1>8, <1>9, <2>1
<1>13. ASSUME NEW i \in 2..Len(agenda) PROVE agenda'[n + i] = agenda[i]
  <2>1. /\ i - 1 \in 1..(Len(agenda) - 1) /\ (n + 1) + (i - 1) = n + i
        /\ (i - 1) + 1 = i
    BY <1>2, AgendaHead
  <2> QED BY <1>7, <1>9, <2>1
<1>14. /\ \A i \in 1..n : /\ order[i] \in S
                           /\ agenda'[i].op = op /\ agenda'[i].service = order[i]
       /\ agenda'[n + 1].op = last /\ agenda'[n + 1].service = Subject
  <2>1. \A x : Item(op, x).op = op /\ Item(op, x).service = x
    BY DEF Item
  <2>2. Item(last, Subject).op = last /\ Item(last, Subject).service = Subject
    BY DEF Item
  <2> QED BY <1>3, <1>11, <1>12, <2>1, <2>2
<1> QED BY <1>2, <1>9, <1>10, <1>13, <1>14 DEF CallsMade, n

\* What was ahead of an item still is: the first has become its last half.
LEMMA AheadAfterCalls ==
  ASSUME ServicesOK, agenda # <<>>, NEW n \in Nat, NEW ops, NEW d,
         agenda[1].op \in ops => agenda'[n + 1].op \in ops,
         agenda'[n + 1].service = Subject,
         \A i \in 2..Len(agenda) : agenda'[n + i] = agenda[i],
         NEW i \in 2..Len(agenda), Ahead(i, ops, d)
  PROVE  Ahead(n + i, ops, d)'
<1>1. PICK k \in 1..(i - 1) : agenda[k].op \in ops /\ agenda[k].service = d
  BY DEF Ahead
<1>2. n + k \in 1..((n + i) - 1) /\ Len(agenda) \in Nat
  BY AgendaHead
<1>3. agenda'[n + k].op \in ops /\ agenda'[n + k].service = d
  BY <1>1, AgendaHead
<1> QED BY <1>2, <1>3 DEF Ahead

-----------------------------------------------------------------------------
(* Dependencies.                                                           *)

\* An order holds all that is needed, and what that needs.
LEMMA OrdersHave ==
  ASSUME ServicesOK, NEW s \in Services, NEW order \in Orders(s)
  PROVE  /\ Needed(s) \subseteq registered /\ Needed(s) \in SUBSET Services
         /\ order \in SetToSeqs(Needed(s))
         /\ dependencies[s] \subseteq Needed(s)
         /\ \A d \in Needed(s) : dependencies[d] \subseteq Needed(s)
         /\ Needs(s) # {} /\ Needs(s) \subseteq SUBSET registered
<1>1. Needs(s) # {} /\ order \in SetToSeqs(Needed(s))
  BY DEF Orders
<1>2. Needs(s) \subseteq SUBSET registered /\ registered \subseteq Services
  BY DEF Needs, ServicesOK
<1>3. \A N \in Needs(s) :
        dependencies[s] \subseteq N /\ \A d \in N : dependencies[d] \subseteq N
  BY DEF Needs
<1> QED BY <1>1, <1>2, <1>3 DEF Needed

\* Services with different positions can be listed in the order of these: the
\* n-th is the one with n of them up to it.
LEMMA OrderOfSome ==
  ASSUME NEW T, IsFiniteSet(T), NEW pos \in [T -> Nat],
         \A x, y \in T : pos[x] = pos[y] => x = y
  PROVE  \E order \in SetToSeqs(T) :
           \A i, j \in DOMAIN order : pos[order[j]] < pos[order[i]] => j < i
<1> DEFINE upTo(x) == {y \in T : pos[y] <= pos[x]}
<1> DEFINE rank == [x \in T |-> Cardinality(upTo(x))]
<1> DEFINE n == Cardinality(T)
<1>1. n \in Nat
  BY FS_CardinalityType
<1>2. \A x \in T : /\ upTo(x) \in SUBSET T /\ IsFiniteSet(upTo(x)) /\ x \in upTo(x)
                   /\ Cardinality(upTo(x)) \in Nat
                   /\ Cardinality(upTo(x)) <= n /\ Cardinality(upTo(x)) # 0
  <2> SUFFICES ASSUME NEW x \in T
               PROVE  /\ upTo(x) \in SUBSET T /\ IsFiniteSet(upTo(x)) /\ x \in upTo(x)
                      /\ Cardinality(upTo(x)) \in Nat
                      /\ Cardinality(upTo(x)) <= n /\ Cardinality(upTo(x)) # 0
    OBVIOUS
  <2>1. upTo(x) \in SUBSET T /\ x \in upTo(x)
    OBVIOUS
  <2>2. IsFiniteSet(upTo(x)) /\ Cardinality(upTo(x)) <= n
    BY <2>1, FS_Subset
  <2> QED BY <2>1, <2>2, FS_CardinalityType, FS_EmptySet
<1>3. \A x, y \in T : pos[x] < pos[y] => rank[x] < rank[y]
  <2> SUFFICES ASSUME NEW x \in T, NEW y \in T, pos[x] < pos[y]
               PROVE  Cardinality(upTo(x)) < Cardinality(upTo(y))
    OBVIOUS
  <2>1. upTo(x) \in SUBSET upTo(y) /\ y \in upTo(y) /\ y \notin upTo(x)
    OBVIOUS
  <2> HIDE DEF upTo
  <2>2. /\ Cardinality(upTo(x)) <= Cardinality(upTo(y))
        /\ Cardinality(upTo(x)) # Cardinality(upTo(y))
    BY <1>2, <2>1, FS_Subset
  <2> QED BY <1>2, <2>2
<1>4. rank \in [T -> 1..n]
  <2> HIDE DEF upTo
  <2> QED BY <1>1, <1>2
<1> HIDE DEF rank
<1>5. \A x, y \in T : x # y => rank[x] # rank[y]
  <2> SUFFICES ASSUME NEW x \in T, NEW y \in T, x # y PROVE rank[x] # rank[y]
    OBVIOUS
  <2>1. pos[x] < pos[y] \/ pos[y] < pos[x]
    OBVIOUS
  <2>2. rank[x] \in Nat /\ rank[y] \in Nat
    BY <1>1, <1>4
  <2> QED BY <1>3, <2>1, <2>2
<1>6. rank \in Surjection(T, 1..n)
  <2>1. rank \in Injection(T, 1..n)
    BY <1>4, <1>5 DEF Injection, IsInjective
  <2>2. IsFiniteSet(1..n) /\ Cardinality(1..n) = n
    BY <1>1, FS_Interval
  <2> QED BY <2>1, <2>2, FS_Injection
<1> DEFINE order == [i \in 1..n |-> CHOOSE x \in T : rank[x] = i]
<1>7. \A i \in 1..n : order[i] \in T /\ rank[order[i]] = i
  BY <1>6 DEF Surjection
<1>8. order \in SetToSeqs(T) /\ DOMAIN order = 1..n
  <2>1. order \in [1..n -> T] /\ \A i, j \in 1..n : i # j => order[i] # order[j]
    BY <1>7
  <2> HIDE DEF order
  <2> QED BY <2>1 DEF SetToSeqs
<1>9. ASSUME NEW i \in 1..n, NEW j \in 1..n, pos[order[j]] < pos[order[i]]
      PROVE  j < i
  BY <1>3, <1>7, <1>9
<1> HIDE DEF order
<1> QED BY <1>8, <1>9

\* What a service needs can be started if it can be itself.
LEMMA NeededStartable ==
  ASSUME ServicesOK, NEW s \in Services, NEW order \in Orders(s), NEW d \in Needed(s)
  PROVE  Orders(d) # {}
<1> DEFINE n == Len(order)
<1>1. /\ Needed(s) \subseteq registered /\ Needed(s) \in SUBSET Services
      /\ order \in SetToSeqs(Needed(s))
      /\ \A e \in Needed(s) : dependencies[e] \subseteq Needed(s)
  BY OrdersHave
<1>2. IsFiniteSet(Needed(s))
  BY <1>1, ServicesAssumption, FS_Subset
<1>3. /\ order \in Seq(Needed(s)) /\ n \in Nat /\ DOMAIN order = 1..n
      /\ \A i \in 1..n : order[i] \in Needed(s)
      /\ \A i, j \in 1..n : i # j => order[i] # order[j]
      /\ \A e \in Needed(s) : \E i \in 1..n : order[i] = e
  <2>1. /\ order \in Seq(Needed(s)) /\ n \in Nat
        /\ \A i, j \in 1..n : i # j => order[i] # order[j]
        /\ \A e \in Needed(s) : \E i \in 1..n : order[i] = e
    <3>1. order \in SetToSeqs(Needed(s))
      BY <1>1
    <3> QED BY ONLY <1>2, <3>1, OrderLists
  <2>2. DOMAIN order = 1..n
    BY <2>1, LenProperties
  <2> QED BY <2>1, <2>2, ElementOfSeq
<1>4. \A i, j \in 1..n : order[j] \in dependencies[order[i]] => j < i
  BY <1>3 DEF Orders
<1> DEFINE pos == [e \in Needed(s) |-> CHOOSE i \in 1..n : order[i] = e]
<1>5. /\ pos \in [Needed(s) -> Nat]
      /\ \A e \in Needed(s) : pos[e] \in 1..n /\ order[pos[e]] = e
  BY <1>3
<1> HIDE DEF pos
<1>6. \A e, f \in Needed(s) : f \in dependencies[e] => pos[f] < pos[e]
  BY <1>4, <1>5
<1> DEFINE before == {e \in Needed(s) : pos[e] < pos[d]}
<1>7. before \in Needs(d) /\ d \notin before
  <2>1. before \subseteq registered /\ dependencies[d] \subseteq before
    BY <1>1, <1>6
  <2>2. ASSUME NEW e \in before PROVE dependencies[e] \subseteq before
    BY <1>1, <1>5, <1>6
  <2>3. d \notin before
    BY <1>5
  <2> HIDE DEF before
  <2> QED BY <2>1, <2>2, <2>3 DEF Needs
<1>8. Needed(d) \subseteq before /\ Needed(d) \subseteq Needed(s) /\ d \notin Needed(d)
  BY <1>7 DEF Needed
<1>9. IsFiniteSet(Needed(d))
  BY <1>2, <1>8, FS_Subset
<1> DEFINE T == Needed(d)
<1> DEFINE some == [e \in T |-> pos[e]]
<1>10. /\ some \in [T -> Nat] /\ \A x, y \in T : some[x] = some[y] => x = y
       /\ \A x \in T : some[x] = pos[x]
  <2> HIDE DEF T
  <2>1. T \subseteq Needed(s)
    BY <1>8 DEF T
  <2> QED BY <1>5, <2>1
<1> HIDE DEF some
<1>11. PICK short \in SetToSeqs(T) :
         \A i, j \in DOMAIN short : some[short[j]] < some[short[i]] => j < i
  BY <1>9, <1>10, OrderOfSome
<1>12. \A i \in DOMAIN short : short[i] \in T
  BY DEF SetToSeqs
<1>13. \A i, j \in DOMAIN short : short[j] \in dependencies[short[i]] => j < i
  BY <1>6, <1>8, <1>10, <1>11, <1>12
<1>14. Needs(d) # {}
  BY <1>7
<1> QED BY <1>8, <1>13, <1>14 DEF Orders

-----------------------------------------------------------------------------
(* Every step keeps ServicesInv.                                           *)

LEMMA ServicesInitially == Init => ServicesInv
BY ServicesAssumption
   DEF Init, ServicesInv, DependenciesRunning, ServicesOK, Running, AgendaInv,
       AgendaShape, AgendaUp, AgendaDown, AgendaStarts

LEMMA NothingPlanned == agenda' = <<>> => AgendaInv'
BY DEF AgendaInv, AgendaShape, AgendaUp, AgendaDown, AgendaStarts

\* A handler that raises takes its service down, and is remembered.
LEMMA AgendaWaits ==
  ASSUME ServicesInv, UNCHANGED <<registered, dependencies, agenda>>,
         failed \subseteq failed',
         \A d : (Running(d)' => Running(d)) /\ (Running(d) => Running(d)' \/ d \in failed')
  PROVE  AgendaInv'
<1>1. \A i, ops, d : Ahead(i, ops, d)' = Ahead(i, ops, d)
  BY DEF Ahead
<1>2. \A d : Orders(d)' = Orders(d)
  BY DEF Orders, Needs, Needed
<1>3. AgendaShape'
  BY DEF ServicesInv, AgendaInv, AgendaShape
<1>4. AgendaUp'
  BY <1>1 DEF ServicesInv, AgendaInv, AgendaUp
<1>5. AgendaDown'
  BY <1>1 DEF ServicesInv, AgendaInv, AgendaDown
<1>6. AgendaStarts'
  BY <1>2 DEF ServicesInv, AgendaInv, AgendaStarts
<1> QED BY <1>3, <1>4, <1>5, <1>6 DEF AgendaInv

\* The calls of the runtime's thread.
LEMMA RequestedStep ==
  ASSUME ServicesInv, NEW s \in Services,
         \/ \E needs \in DependencySets : Register(s, needs)
         \/ RegisterHandler(s) \/ UnregisterHandler(s) \/ Initialize(s) \/ ClearServices
  PROVE  ServicesInv'
<1>1. agenda' = <<>>
  BY DEF Register, RegisterHandler, UnregisterHandler, Initialize, ClearServices
<1>2. AgendaInv'
  BY <1>1, NothingPlanned
<1> USE DEF ServicesInv, DependenciesRunning, ServicesOK, Running
<1>3. CASE \E needs \in DependencySets : Register(s, needs)
  BY <1>2, <1>3, ServicesAssumption DEF Register
<1>4. CASE RegisterHandler(s) \/ UnregisterHandler(s)
  BY <1>2, <1>4 DEF RegisterHandler, UnregisterHandler
<1>5. CASE Initialize(s)
  BY <1>2, <1>5 DEF Initialize
<1>6. CASE ClearServices
  BY <1>2, <1>6 DEF ClearServices, Forget
<1> QED BY <1>3, <1>4, <1>5, <1>6

LEMMA CallStep ==
  ASSUME ServicesInv, NEW s \in Services,
         \/ StartRequested(s) \/ StopRequested(s) \/ RestartRequested(s)
         \/ UnregisterRequested(s)
  PROVE  ServicesInv'
<1> DEFINE start == Item("start", s)
<1> DEFINE stop == Item("stop", s)
<1> DEFINE remove == Item("remove", s)
<1>1. /\ start \in Items /\ stop \in Items /\ remove \in Items
      /\ start.op = "start" /\ stop.op = "stop" /\ remove.op = "remove"
      /\ start.service = s /\ stop.service = s /\ remove.service = s
  BY DEF Items, Item
<1>2. /\ s \in registered
      /\ UNCHANGED <<registered, dependencies, status, handlers, executing, failed>>
      /\ \/ agenda' = <<start>> \/ agenda' = <<stop>> \/ agenda' = <<stop, start>>
         \/ agenda' = <<stop, remove>> \/ (agenda' = <<remove>> /\ ~Running(s))
  <2>1. CASE StartRequested(s) \/ StopRequested(s) \/ RestartRequested(s)
    BY <2>1 DEF StartRequested, StopRequested, RestartRequested, Call
  <2>2. CASE UnregisterRequested(s)
    <3>1. CASE Running(s)
      <4>1. Call(s, <<stop, remove>>)
        BY <2>2, <3>1 DEF UnregisterRequested
      <4> HIDE DEF stop, remove
      <4>2. /\ s \in registered /\ agenda' = <<stop, remove>>
            /\ UNCHANGED <<registered, dependencies, status, handlers, executing, failed>>
        BY <4>1 DEF Call
      <4> QED BY <4>2
    <3>2. CASE ~Running(s)
      BY <2>2, <3>2 DEF UnregisterRequested, Call
    <3> QED BY <3>1, <3>2
  <2> QED BY <2>1, <2>2
<1> HIDE DEF start, stop, remove
<1>3. /\ agenda' \in Seq(Items)
      /\ \/ /\ Len(agenda') = 1
            /\ agenda'[1] \in {start, stop} \/ (agenda'[1] = remove /\ ~Running(s))
         \/ /\ Len(agenda') = 2
            /\ agenda'[1] = stop /\ agenda'[2] \in {start, remove}
  <2>1. CASE agenda' = <<start>>
    BY <1>1, <2>1
  <2>2. CASE agenda' = <<stop>>
    BY <1>1, <2>2
  <2>3. CASE agenda' = <<stop, start>>
    BY <1>1, <2>3
  <2>4. CASE agenda' = <<stop, remove>>
    BY <1>1, <2>4
  <2>5. CASE agenda' = <<remove>> /\ ~Running(s)
    BY <1>1, <2>5
  <2> QED BY <1>2, <2>1, <2>2, <2>3, <2>4, <2>5
<1>4. DependenciesRunning'
  BY <1>2, <1>3 DEF ServicesInv, DependenciesRunning, ServicesOK, Running
<1>5. DOMAIN agenda' = 1..Len(agenda')
  BY <1>3, LenProperties
<1>6. AgendaShape'
  BY <1>1, <1>2, <1>3, <1>5 DEF AgendaShape, Rising
<1>7. AgendaUp' /\ AgendaStarts'
  BY <1>1, <1>3, <1>5 DEF AgendaUp, AgendaStarts
<1>8. AgendaDown'
  <2>1. CASE Len(agenda') = 2
    <3>1. Ahead(2, Falling, s)'
      BY <1>1, <1>3, <2>1 DEF Ahead, Falling
    <3> QED BY <1>1, <1>3, <1>5, <2>1, <3>1 DEF AgendaDown
  <2>2. CASE Len(agenda') = 1
    <3>1. Running(s)' = Running(s)
      BY <1>2 DEF Running
    <3> QED BY <1>1, <1>3, <1>5, <2>2, <3>1 DEF AgendaDown
  <2> QED BY <1>3, <2>1, <2>2
<1> QED BY <1>4, <1>6, <1>7, <1>8 DEF ServicesInv, AgendaInv

\* The first item is done: what is behind it has what it needs ahead of it, or
\* this was it.
LEMMA FirstDone ==
  ASSUME ServicesInv, agenda # <<>>, agenda' = Tail(agenda),
         UNCHANGED <<registered, dependencies>>,
         \A d : Running(d)' => Running(d) \/ agenda[1].op = "up",
         \A d : Running(d) \/ d \in failed \/ (agenda[1].op \in Rising /\ d = Subject) =>
                  Running(d)' \/ d \in failed' \/ agenda[1].op = "down",
         \A d : agenda[1].op \in Falling /\ d = Subject => ~Running(d)'
  PROVE  AgendaInv'
<1> DEFINE n == Len(agenda)
<1>1. /\ n \in Nat \ {0} /\ DOMAIN agenda = 1..n /\ Subject = agenda[1].service
      /\ Len(agenda') = n - 1 /\ DOMAIN agenda' = 1..(n - 1)
      /\ \A i \in 1..(n - 1) : agenda'[i] = agenda[i + 1] /\ i + 1 \in 1..n
      /\ \A i \in 1..(n - 1) : \A ops, d :
           Ahead(i + 1, ops, d) => Ahead(i, ops, d)' \/ (agenda[1].op \in ops /\ Subject = d)
  BY AgendaHead, AgendaTail DEF ServicesInv, DependenciesRunning
<1> HIDE DEF n
<1>2. AgendaShape'
  <2>1. AgendaShape
    BY DEF ServicesInv, AgendaInv
  <2> SUFFICES ASSUME NEW i \in 1..(n - 1)
               PROVE  /\ agenda'[i].service \in registered'
                      /\ agenda'[i].op \in Rising =>
                           \A k \in i..(n - 1) : agenda'[k].op \in Rising
                      /\ agenda'[i].op = "up" => \A k \in 1..i : agenda'[k].op \in Rising
                      /\ agenda'[i].op = "remove" => i = n - 1
    BY <1>1 DEF AgendaShape
  <2>2. /\ agenda[i + 1].service \in registered
        /\ agenda[i + 1].op \in Rising => \A k \in (i + 1)..n : agenda[k].op \in Rising
        /\ agenda[i + 1].op = "up" => \A k \in 1..(i + 1) : agenda[k].op \in Rising
        /\ agenda[i + 1].op = "remove" => i + 1 = n
    BY <1>1, <2>1 DEF AgendaShape, n
  <2>3. /\ \A k \in i..(n - 1) : k + 1 \in (i + 1)..n /\ k \in 1..(n - 1)
        /\ \A k \in 1..i : k + 1 \in 1..(i + 1) /\ k \in 1..(n - 1)
        /\ i + 1 = n => i = n - 1
    BY <1>1
  <2> QED BY <1>1, <2>2, <2>3
<1>3. AgendaUp'
  <2> SUFFICES ASSUME NEW i \in 1..(n - 1), agenda[i + 1].op = "up",
                      NEW d \in dependencies[agenda[i + 1].service]
               PROVE  Running(d)' \/ d \in failed' \/ Ahead(i, Rising, d)'
    BY <1>1 DEF AgendaUp
  <2>1. agenda[1].op \in Rising
    BY <1>1 DEF ServicesInv, AgendaInv, AgendaShape
  <2>2. Running(d) \/ d \in failed \/ Ahead(i + 1, Rising, d)
    BY <1>1 DEF ServicesInv, AgendaInv, AgendaUp
  <2> QED BY <1>1, <2>1, <2>2 DEF Rising
<1>4. AgendaDown'
  <2>1. ASSUME NEW i \in 1..(n - 1), agenda[i + 1].op \in {"down", "remove"}, NEW t,
               Ahead(i + 1, Falling, t) \/ ~Running(t)
        PROVE  Ahead(i, Falling, t)' \/ ~Running(t)'
    <3>1. agenda[1].op # "up"
      BY <1>1, <2>1 DEF ServicesInv, AgendaInv, AgendaShape, Rising, n
    <3> QED BY <1>1, <2>1, <3>1
  <2>2. ASSUME NEW i \in 1..(n - 1), agenda'[i].op = "down", NEW t \in registered,
               Running(t)', agenda'[i].service \in dependencies[t]
        PROVE  Ahead(i, Falling, t)'
    <3>1. Ahead(i + 1, Falling, t) \/ ~Running(t)
      BY <1>1, <2>2 DEF ServicesInv, AgendaInv, AgendaDown
    <3> QED BY <1>1, <2>1, <2>2, <3>1
  <2>3. ASSUME NEW i \in 1..(n - 1), NEW t, agenda'[i].op = "remove", agenda'[i].service = t
        PROVE  ~Running(t)' \/ Ahead(i, Falling, t)'
    <3>1. Ahead(i + 1, Falling, t) \/ ~Running(t)
      BY <1>1, <2>3 DEF ServicesInv, AgendaInv, AgendaDown
    <3> QED BY <1>1, <2>1, <2>3, <3>1
  <2> QED BY <1>1, <2>2, <2>3 DEF AgendaDown
<1>5. AgendaStarts'
  <2>1. \A d : Orders(d)' = Orders(d)
    BY DEF Orders, Needs, Needed
  <2>2. \A i \in 1..(n - 1) : agenda[i + 1].op = "start" =>
          i + 1 = n \/ Orders(agenda[i + 1].service) # {}
    BY <1>1 DEF ServicesInv, AgendaInv, AgendaStarts, n
  <2>3. \A i \in 1..(n - 1) : agenda'[i].op = "start" =>
          i = n - 1 \/ Orders(agenda'[i].service) # {}
    BY <1>1, <2>2
  <2> QED BY <1>1, <2>1, <2>3 DEF AgendaStarts
<1> QED BY <1>2, <1>3, <1>4, <1>5 DEF AgendaInv

\* What At says of the first item.
LEMMA FirstIs ==
  ASSUME ServicesInv, NEW op, At(op)
  PROVE  /\ agenda # <<>> /\ agenda[1].op = op /\ Subject \in registered
         /\ Len(agenda) \in Nat \ {0} /\ 1 \in DOMAIN agenda
         /\ ServicesOK /\ DependenciesRunning /\ AgendaInv
BY AgendaHead DEF At, ServicesInv, DependenciesRunning, AgendaInv, AgendaShape

LEMMA StartNotNeededStep == ServicesInv /\ StartNotNeeded => ServicesInv'
<1> SUFFICES ASSUME ServicesInv, StartNotNeeded PROVE ServicesInv'
  OBVIOUS
<1>1. /\ agenda # <<>> /\ agenda[1].op = "start" /\ agenda' = Tail(agenda)
      /\ ServicesOK /\ Running(Subject)
      /\ UNCHANGED <<registered, dependencies, status, handlers, executing, failed>>
  BY FirstIs DEF StartNotNeeded
<1>2. \A d : Running(d)' = Running(d)
  BY <1>1 DEF Running
<1>3. AgendaInv'
  BY <1>1, <1>2, FirstDone DEF Falling
<1>4. DependenciesRunning'
  BY <1>1, <1>2, AgendaTail DEF ServicesInv, DependenciesRunning, ServicesOK
<1> QED BY <1>3, <1>4 DEF ServicesInv

LEMMA StartRaisesStep == ServicesInv /\ StartRaises => ServicesInv'
<1> SUFFICES ASSUME ServicesInv, StartRaises PROVE ServicesInv'
  OBVIOUS
<1>1. AgendaInv'
  BY NothingPlanned DEF StartRaises
<1>2. DependenciesRunning'
  BY DEF StartRaises, ServicesInv, DependenciesRunning, ServicesOK, Running
<1> QED BY <1>1, <1>2 DEF ServicesInv

LEMMA StartItselfStep == ServicesInv /\ StartItself => ServicesInv'
<1> SUFFICES ASSUME ServicesInv, StartItself PROVE ServicesInv'
  OBVIOUS
<1> DEFINE s == Subject
<1>1. /\ agenda # <<>> /\ agenda[1].op = "up" /\ agenda' = Tail(agenda)
      /\ ServicesOK /\ s \in registered /\ s = agenda[1].service /\ 1 \in DOMAIN agenda
      /\ status' = [status EXCEPT ![s] = "running"] /\ failed' = failed \ {s}
      /\ UNCHANGED <<registered, dependencies, handlers, executing>>
  BY FirstIs, AgendaHead DEF StartItself
<1> HIDE DEF s
<1>2. /\ \A d : Running(d)' <=> Running(d) \/ d = s
      /\ \A d : d \in failed => d \in failed' \/ Running(d)'
  BY <1>1 DEF Running, ServicesOK
<1>3. AgendaInv'
  BY <1>1, <1>2, FirstDone DEF Falling, s
<1>4. \A d \in dependencies[s] : Running(d) \/ d \in failed
  BY <1>1 DEF ServicesInv, AgendaInv, AgendaUp, Ahead
<1>5. ServicesOK'
  BY <1>1, AgendaTail DEF ServicesOK
<1>6. DependenciesRunning'
  BY <1>1, <1>2, <1>4, <1>5 DEF ServicesInv, DependenciesRunning
<1> QED BY <1>3, <1>6 DEF ServicesInv

LEMMA StopItselfStep == ServicesInv /\ StopItself => ServicesInv'
<1> SUFFICES ASSUME ServicesInv, StopItself PROVE ServicesInv'
  OBVIOUS
<1> DEFINE s == Subject
<1>1. /\ agenda # <<>> /\ agenda[1].op = "down" /\ agenda' = Tail(agenda)
      /\ ServicesOK /\ s \in registered /\ s = agenda[1].service /\ 1 \in DOMAIN agenda
      /\ status' = [status EXCEPT ![s] = "stopped"]
      /\ UNCHANGED <<registered, dependencies, handlers, executing, failed>>
  BY FirstIs, AgendaHead DEF StopItself
<1> HIDE DEF s
<1>2. \A d : Running(d)' <=> Running(d) /\ d # s
  BY <1>1 DEF Running, ServicesOK
<1>3. AgendaInv'
  BY <1>1, <1>2, FirstDone DEF Rising, s
<1>4. \A t \in registered : Running(t) => s \notin dependencies[t]
  BY <1>1 DEF ServicesInv, AgendaInv, AgendaDown, Ahead
<1>5. ServicesOK'
  BY <1>1, AgendaTail DEF ServicesOK
<1>6. DependenciesRunning'
  BY <1>1, <1>2, <1>4, <1>5 DEF ServicesInv, DependenciesRunning
<1> QED BY <1>3, <1>6 DEF ServicesInv

LEMMA RemoveItselfStep == ServicesInv /\ RemoveItself => ServicesInv'
<1> SUFFICES ASSUME ServicesInv, RemoveItself PROVE ServicesInv'
  OBVIOUS
<1> DEFINE s == Subject
<1>1. /\ agenda # <<>> /\ agenda[1].op = "remove" /\ agenda' = Tail(agenda)
      /\ ServicesOK /\ s \in registered /\ s = agenda[1].service /\ 1 \in DOMAIN agenda
      /\ Forget({s}) /\ UNCHANGED failed
  BY FirstIs, AgendaHead DEF RemoveItself
<1> HIDE DEF s
<1>2. Len(agenda) = 1
  BY <1>1 DEF ServicesInv, AgendaInv, AgendaShape
<1>3. agenda' = <<>>
  BY <1>1, <1>2, AgendaTail, EmptySeq
<1>4. ~Running(s)
  BY <1>1 DEF ServicesInv, AgendaInv, AgendaDown, Ahead
<1>5. ServicesOK' /\ DependenciesRunning'
  BY <1>1, <1>3, <1>4 DEF ServicesInv, DependenciesRunning, ServicesOK, Forget, Running
<1> QED BY <1>3, <1>5, NothingPlanned DEF ServicesInv

\* Between its first and its last half an item has others called.
LEMMA StartDependenciesStep == ServicesInv /\ StartDependencies => ServicesInv'
<1> SUFFICES ASSUME ServicesInv, StartDependencies PROVE ServicesInv'
  OBVIOUS
<1> DEFINE s == Subject
<1>1. PICK order \in Orders(s) :
        agenda' = Each("start", order) \o <<Item("up", s)>> \o Tail(agenda)
  BY DEF StartDependencies
<1>2. /\ agenda # <<>> /\ agenda[1].op = "start" /\ ServicesOK /\ s \in registered
      /\ s \in Services /\ s = agenda[1].service /\ DOMAIN agenda = 1..Len(agenda)
      /\ Len(agenda) \in Nat \ {0}
      /\ UNCHANGED <<registered, dependencies, status, handlers, executing, failed>>
  BY FirstIs, AgendaHead DEF StartDependencies
<1>3. /\ Needed(s) \subseteq registered /\ Needed(s) \in SUBSET Services
      /\ order \in SetToSeqs(Needed(s)) /\ dependencies[s] \subseteq Needed(s)
      /\ \A d \in Needed(s) : Orders(d) # {}
  BY <1>2, OrdersHave, NeededStartable
<1> DEFINE n == Len(order)
<1>4. /\ agenda' \in Seq(Items) /\ n \in Nat
      /\ Len(agenda') = n + Len(agenda) /\ DOMAIN agenda' = 1..(n + Len(agenda))
      /\ \A i \in 1..n : /\ order[i] \in Needed(s)
                         /\ agenda'[i].op = "start" /\ agenda'[i].service = order[i]
      /\ agenda'[n + 1].op = "up" /\ agenda'[n + 1].service = s
      /\ \A i \in 2..Len(agenda) : agenda'[n + i] = agenda[i]
      /\ \A d \in Needed(s) : \E i \in 1..n : order[i] = d
  <2>1. PICK T \in SUBSET Services : T = Needed(s) /\ order \in SetToSeqs(T)
    BY <1>3
  <2>2. agenda' = Each("start", order) \o <<Item("up", Subject)>> \o Tail(agenda)
    BY <1>1
  <2>3. ServicesOK /\ agenda # <<>>
    BY <1>2
  <2> HIDE DEF s, n
  <2>4. CallsMade("start", "up", T, order)
    BY ONLY <2>1, <2>2, <2>3, AgendaCalls
  <2> QED BY <2>1, <2>4 DEF CallsMade, n, s
<1> HIDE DEF s, n
<1>5. \A i \in 1..Len(agenda) : agenda[i].op \in Rising /\ agenda[i].service \in registered
  BY <1>2 DEF ServicesInv, AgendaInv, AgendaShape, Rising
<1>6. ASSUME NEW i \in DOMAIN agenda'
      PROVE  \/ i \in 1..n /\ agenda'[i].op = "start" /\ agenda'[i].service \in Needed(s)
             \/ i = n + 1 /\ agenda'[i].op = "up" /\ agenda'[i].service = s
             \/ \E j \in 2..Len(agenda) : i = n + j /\ agenda'[i] = agenda[j]
  <2>1. i \in 1..(n + Len(agenda))
    BY <1>4
  <2>2. CASE i \in 1..n
    BY <1>4, <2>2
  <2>3. CASE i = n + 1
    BY <1>4, <2>3
  <2>4. CASE ~(i \in 1..n) /\ i # n + 1
    <3>1. i - n \in 2..Len(agenda) /\ i = n + (i - n)
      BY <1>2, <1>4, <2>1, <2>4
    <3>2. PICK j \in 2..Len(agenda) : i = n + j
      BY <3>1
    <3> QED BY <1>4, <3>2
  <2> QED BY <2>2, <2>3, <2>4
<1>7. \A i \in DOMAIN agenda' : agenda'[i].op \in Rising /\ agenda'[i].service \in registered
  BY <1>2, <1>3, <1>4, <1>5, <1>6 DEF Rising
<1>8. AgendaShape' /\ AgendaDown'
  BY <1>2, <1>4, <1>7 DEF AgendaShape, AgendaDown, Rising
<1>9. AgendaUp'
  <2>1. ASSUME NEW d \in dependencies[s] PROVE Ahead(n + 1, Rising, d)'
    <3>1. PICK i \in 1..n : order[i] = d
      BY <1>3, <1>4
    <3>2. i \in 1..((n + 1) - 1)
      BY <1>4
    <3> QED BY <1>4, <3>1, <3>2 DEF Ahead, Rising
  <2>2. ASSUME NEW j \in 2..Len(agenda), agenda[j].op = "up",
               NEW d \in dependencies[agenda[j].service]
        PROVE  Running(d)' \/ d \in failed' \/ Ahead(n + j, Rising, d)'
    <3>1. Running(d) \/ d \in failed \/ Ahead(j, Rising, d)
      BY <1>2, <2>2 DEF ServicesInv, AgendaInv, AgendaUp
    <3>2. Ahead(j, Rising, d) => Ahead(n + j, Rising, d)'
      BY <1>2, <1>4, AheadAfterCalls DEF Rising, s
    <3> QED BY <1>2, <3>1, <3>2 DEF Running
  <2>3. ASSUME NEW i \in DOMAIN agenda', agenda'[i].op = "up",
               NEW d \in dependencies[agenda'[i].service]
        PROVE  Running(d)' \/ d \in failed' \/ Ahead(i, Rising, d)'
    <3>1. CASE i = n + 1 /\ agenda'[i].service = s
      BY <2>1, <2>3, <3>1
    <3>2. CASE \E j \in 2..Len(agenda) : i = n + j /\ agenda'[i] = agenda[j]
      BY <2>2, <2>3, <3>2
    <3> QED BY <1>6, <2>3, <3>1, <3>2
  <2> QED BY <1>2, <2>3 DEF AgendaUp
<1>10. AgendaStarts'
  <2>1. \A d : Orders(d)' = Orders(d)
    BY <1>2 DEF Orders, Needs, Needed
  <2>2. \A j \in 2..Len(agenda) : agenda[j].op = "start" =>
          n + j = n + Len(agenda) \/ Orders(agenda[j].service) # {}
    BY <1>2 DEF ServicesInv, AgendaInv, AgendaStarts
  <2>3. ASSUME NEW i \in DOMAIN agenda', agenda'[i].op = "start"
        PROVE  i = n + Len(agenda) \/ Orders(agenda'[i].service) # {}
    <3>1. CASE i \in 1..n
      BY <1>3, <1>4, <3>1
    <3>2. CASE \E j \in 2..Len(agenda) : i = n + j /\ agenda'[i] = agenda[j]
      BY <2>2, <2>3, <3>2
    <3> QED BY <1>6, <2>3, <3>1, <3>2
  <2> QED BY <1>4, <2>1, <2>3 DEF AgendaStarts
<1>11. DependenciesRunning'
  BY <1>2, <1>4 DEF ServicesInv, DependenciesRunning, ServicesOK, Running
<1> QED BY <1>8, <1>9, <1>10, <1>11 DEF ServicesInv, AgendaInv

LEMMA StopDependentsStep == ServicesInv /\ StopDependents => ServicesInv'
<1> SUFFICES ASSUME ServicesInv, StopDependents PROVE ServicesInv'
  OBVIOUS
<1> DEFINE s == Subject
<1> DEFINE T == {t \in registered : Running(t) /\ s \in dependencies[t]}
<1>1. PICK order \in SetToSeqs(T) :
        agenda' = Each("stop", order) \o <<Item("down", s)>> \o Tail(agenda)
  BY DEF StopDependents
<1>2. /\ agenda # <<>> /\ agenda[1].op = "stop" /\ ServicesOK /\ s \in registered
      /\ s \in Services /\ s = agenda[1].service /\ DOMAIN agenda = 1..Len(agenda)
      /\ Len(agenda) \in Nat \ {0}
      /\ UNCHANGED <<registered, dependencies, status, handlers, executing, failed>>
  BY FirstIs, AgendaHead DEF StopDependents
<1>3. T \in SUBSET Services /\ T \subseteq registered
  BY <1>2 DEF ServicesOK
<1> DEFINE n == Len(order)
<1>4. /\ agenda' \in Seq(Items) /\ n \in Nat
      /\ Len(agenda') = n + Len(agenda) /\ DOMAIN agenda' = 1..(n + Len(agenda))
      /\ \A i \in 1..n : /\ order[i] \in T
                         /\ agenda'[i].op = "stop" /\ agenda'[i].service = order[i]
      /\ agenda'[n + 1].op = "down" /\ agenda'[n + 1].service = s
      /\ \A i \in 2..Len(agenda) : agenda'[n + i] = agenda[i]
      /\ \A d \in T : \E i \in 1..n : order[i] = d
  <2>1. PICK S \in SUBSET Services : S = T /\ order \in SetToSeqs(S)
    BY <1>1, <1>3
  <2> HIDE DEF T, s, n
  <2>2. agenda' = Each("stop", order) \o <<Item("down", Subject)>> \o Tail(agenda)
    BY <1>1 DEF s
  <2>3. ServicesOK /\ agenda # <<>>
    BY <1>2
  <2>4. CallsMade("stop", "down", S, order)
    BY ONLY <2>1, <2>2, <2>3, AgendaCalls
  <2> QED BY <2>1, <2>4 DEF CallsMade, n, s
<1> HIDE DEF n
<1>5. \A i \in 1..Len(agenda) :
        /\ agenda[i].op # "up" /\ agenda[i].service \in registered
        /\ agenda[i].op \in Rising => \A k \in i..Len(agenda) : agenda[k].op \in Rising
        /\ agenda[i].op = "remove" => i = Len(agenda)
  <2>1. ASSUME NEW i \in 1..Len(agenda), agenda[i].op = "up" PROVE FALSE
    <3>1. 1 \in 1..i
      OBVIOUS
    <3>2. agenda[1].op \in Rising
      BY <1>2, <2>1, <3>1 DEF ServicesInv, AgendaInv, AgendaShape
    <3> QED BY <1>2, <3>2 DEF Rising
  <2> QED BY <1>2, <2>1 DEF ServicesInv, AgendaInv, AgendaShape
<1>6. ASSUME NEW i \in DOMAIN agenda'
      PROVE  \/ i \in 1..n /\ agenda'[i].op = "stop" /\ agenda'[i].service \in T
             \/ i = n + 1 /\ agenda'[i].op = "down" /\ agenda'[i].service = s
             \/ \E j \in 2..Len(agenda) : i = n + j /\ agenda'[i] = agenda[j]
  <2>1. i \in 1..(n + Len(agenda))
    BY <1>4
  <2>2. CASE i \in 1..n
    BY <1>4, <2>2
  <2>3. CASE i = n + 1
    BY <1>4, <2>3
  <2>4. CASE ~(i \in 1..n) /\ i # n + 1
    <3>1. i - n \in 2..Len(agenda) /\ i = n + (i - n)
      BY <1>2, <1>4, <2>1, <2>4
    <3>2. PICK j \in 2..Len(agenda) : i = n + j
      BY <3>1
    <3> QED BY <1>4, <3>2
  <2> QED BY <2>2, <2>3, <2>4
<1>7. \A j \in 2..Len(agenda) : \A d : Ahead(j, Falling, d) => Ahead(n + j, Falling, d)'
  BY <1>2, <1>4, AheadAfterCalls DEF Falling
<1>8. AgendaShape'
  <2>1. ASSUME NEW j \in 2..Len(agenda), agenda[j].op \in Rising,
               NEW k \in (n + j)..(n + Len(agenda))
        PROVE  agenda'[k].op \in Rising
    <3>1. k - n \in j..Len(agenda) /\ k - n \in 2..Len(agenda) /\ k = n + (k - n)
      BY <1>2, <1>4
    <3>2. agenda[k - n].op \in Rising /\ agenda'[n + (k - n)] = agenda[k - n]
      <4>1. agenda'[n + (k - n)] = agenda[k - n]
        BY <1>4, <3>1
      <4>2. j \in 1..Len(agenda)
        BY <1>2
      <4>3. \A l \in j..Len(agenda) : agenda[l].op \in Rising
        BY <1>5, <2>1, <4>2
      <4> QED BY <3>1, <4>1, <4>3
    <3> QED BY <3>1, <3>2
  <2>2. ASSUME NEW i \in DOMAIN agenda'
        PROVE  /\ agenda'[i].service \in registered /\ agenda'[i].op # "up"
               /\ agenda'[i].op \in Rising =>
                    \A k \in i..(n + Len(agenda)) : agenda'[k].op \in Rising
               /\ agenda'[i].op = "remove" => i = n + Len(agenda)
    <3>1. CASE i \in 1..n \/ i = n + 1
      BY <1>2, <1>3, <1>4, <3>1 DEF Rising
    <3>2. CASE \E j \in 2..Len(agenda) : i = n + j /\ agenda'[i] = agenda[j]
      <4>1. PICK j \in 2..Len(agenda) : i = n + j /\ agenda'[i] = agenda[j]
        BY <3>2
      <4>2. /\ agenda[j].op # "up" /\ agenda[j].service \in registered
            /\ agenda[j].op = "remove" => j = Len(agenda)
        <5>1. j \in 1..Len(agenda)
          BY <1>2
        <5> QED BY <1>5, <5>1
      <4> QED BY <2>1, <4>1, <4>2
    <3> QED BY <1>6, <3>1, <3>2
  <2> QED BY <1>2, <1>4, <2>2 DEF AgendaShape
<1>9. AgendaDown'
  <2>1. ASSUME NEW t \in registered, Running(t), s \in dependencies[t]
        PROVE  Ahead(n + 1, Falling, t)'
    <3>1. PICK i \in 1..n : order[i] = t
      BY <1>4, <2>1
    <3>2. i \in 1..((n + 1) - 1)
      BY <1>4
    <3> QED BY <1>4, <3>1, <3>2 DEF Ahead, Falling
  <2>2. \A j \in 2..Len(agenda) :
          /\ agenda[j].op = "down" =>
               \A t \in registered :
                 Running(t) /\ agenda[j].service \in dependencies[t] =>
                   Ahead(n + j, Falling, t)'
          /\ agenda[j].op = "remove" =>
               ~Running(agenda[j].service) \/ Ahead(j, Falling, agenda[j].service)
    BY <1>2, <1>7 DEF ServicesInv, AgendaInv, AgendaDown
  <2>3. \A d : Running(d)' = Running(d)
    BY <1>2 DEF Running
  <2>4. ASSUME NEW i \in DOMAIN agenda', agenda'[i].op = "down", NEW t \in registered,
               Running(t), agenda'[i].service \in dependencies[t]
        PROVE  Ahead(i, Falling, t)'
    <3>1. CASE i = n + 1 /\ agenda'[i].service = s
      BY <2>1, <2>4, <3>1
    <3>2. CASE \E j \in 2..Len(agenda) : i = n + j /\ agenda'[i] = agenda[j]
      <4>1. PICK j \in 2..Len(agenda) : i = n + j /\ agenda'[i] = agenda[j]
        BY <3>2
      <4> QED BY <2>2, <2>4, <4>1
    <3> QED BY <1>6, <2>4, <3>1, <3>2
  <2>5. ASSUME NEW i \in DOMAIN agenda', agenda'[i].op = "remove", NEW t,
               agenda'[i].service = t
        PROVE  ~Running(t) \/ Ahead(i, Falling, t)'
    <3>1. CASE \E j \in 2..Len(agenda) : i = n + j /\ agenda'[i] = agenda[j]
      BY <1>7, <2>2, <2>5, <3>1
    <3> QED BY <1>6, <2>5, <3>1
  <2> QED BY <1>2, <2>3, <2>4, <2>5 DEF AgendaDown
<1>10. AgendaStarts'
  <2>1. \A d : Orders(d)' = Orders(d)
    BY <1>2 DEF Orders, Needs, Needed
  <2>2. \A j \in 2..Len(agenda) : agenda[j].op = "start" =>
          n + j = n + Len(agenda) \/ Orders(agenda[j].service) # {}
    BY <1>2 DEF ServicesInv, AgendaInv, AgendaStarts
  <2>3. ASSUME NEW i \in DOMAIN agenda', agenda'[i].op = "start"
        PROVE  i = n + Len(agenda) \/ Orders(agenda'[i].service) # {}
    <3>1. CASE \E j \in 2..Len(agenda) : i = n + j /\ agenda'[i] = agenda[j]
      BY <2>2, <2>3, <3>1
    <3> QED BY <1>6, <2>3, <3>1
  <2> QED BY <1>4, <2>1, <2>3 DEF AgendaStarts
<1>11. AgendaUp'
  <2>1. ASSUME NEW i \in DOMAIN agenda' PROVE agenda'[i].op # "up"
    <3>1. CASE \E j \in 2..Len(agenda) : i = n + j /\ agenda'[i] = agenda[j]
      <4>1. PICK j \in 1..Len(agenda) : agenda'[i] = agenda[j]
        BY <1>2, <3>1
      <4> QED BY <1>5, <4>1
    <3> QED BY <1>6, <3>1
  <2> QED BY <2>1 DEF AgendaUp
<1>12. DependenciesRunning'
  BY <1>2, <1>4 DEF ServicesInv, DependenciesRunning, ServicesOK, Running
<1> QED BY <1>8, <1>9, <1>10, <1>11, <1>12 DEF ServicesInv, AgendaInv

\* What the threads of the requests do.
LEMMA ExecuteStep ==
  ASSUME ServicesInv, NEW r \in Requests,
         \/ \E s \in Services : ExecuteCalls(r, s)
         \/ HandlerReturns(r) \/ HandlerRaises(r)
  PROVE  ServicesInv'
<1> USE DEF ServicesInv, DependenciesRunning, ServicesOK, Running
<1>1. CASE (\E s \in Services : ExecuteCalls(r, s)) \/ HandlerReturns(r)
  <2>1. /\ UNCHANGED <<registered, dependencies, status, handlers, agenda, failed>>
        /\ executing' \in [Requests -> Services \cup {NoService, Unregistered}]
    BY <1>1 DEF ExecuteCalls, HandlerReturns
  <2> QED BY <2>1, AgendaWaits
<1>2. CASE HandlerRaises(r)
  <2>1. AgendaInv'
    BY <1>2, AgendaWaits DEF HandlerRaises, Failing
  <2>2. DependenciesRunning'
    BY <1>2 DEF HandlerRaises, Failing
  <2> QED BY <2>1, <2>2
<1> QED BY <1>1, <1>2

LEMMA AdvanceStep == ServicesInv /\ Advance => ServicesInv'
BY StartNotNeededStep, StartRaisesStep, StartDependenciesStep, StartItselfStep,
   StopDependentsStep, StopItselfStep, RemoveItselfStep DEF Advance

LEMMA ServicesStep == ServicesInv /\ [Next]_serviceVars => ServicesInv'
<1> SUFFICES ASSUME ServicesInv, [Next]_serviceVars PROVE ServicesInv'
  OBVIOUS
<1>1. CASE Lifecycle /\ ~Advance /\ ~ClearServices
  BY <1>1, RequestedStep, CallStep DEF Lifecycle
<1>2. CASE ClearServices
  <2>1. AgendaInv' /\ agenda' = <<>>
    BY <1>2, NothingPlanned DEF ClearServices
  <2>2. DependenciesRunning'
    BY <1>2, <2>1 DEF ClearServices, Forget, ServicesInv, DependenciesRunning, ServicesOK, Running
  <2> QED BY <2>1, <2>2 DEF ServicesInv
<1>3. CASE UNCHANGED serviceVars
  <2>1. AgendaInv'
    BY <1>3, AgendaWaits DEF serviceVars, Running
  <2>2. DependenciesRunning'
    BY <1>3 DEF serviceVars, ServicesInv, DependenciesRunning, ServicesOK, Running
  <2> QED BY <2>1, <2>2 DEF ServicesInv
<1> QED BY <1>1, <1>2, <1>3, AdvanceStep, ExecuteStep DEF Next

LEMMA ServicesInvariance == Spec => []ServicesInv
<1> QED BY ServicesInitially, ServicesStep, PTL DEF Spec

\* A start that raises is the last item of its call, at the head of the agenda.
LEMMA RaisesAlone == ServicesInv /\ StartRaises => Len(agenda) = 1
<1> SUFFICES ASSUME ServicesInv, StartRaises PROVE Len(agenda) = 1
  OBVIOUS
<1>1. /\ agenda[1].op = "start" /\ Orders(Subject) = {} /\ 1 \in DOMAIN agenda
      /\ Subject = agenda[1].service
  BY FirstIs, AgendaHead DEF StartRaises
<1> QED BY <1>1 DEF ServicesInv, AgendaInv, AgendaStarts

-----------------------------------------------------------------------------
(* A request on its way.                                                 *)

\* A request that is about to be executed was free to anybody or passed both
\* halves of _enforce, the first of them when it is at the second.
Cleared ==
  \A r \in Requests :
    /\ at[r] = "authorize" => "authentic" \in since[r]
    /\ at[r] \in {"dispatch", "execute"} =>
         "open" \in since[r] \/ {"authentic", "permitted"} \subseteq since[r]

\* Before the endpoint has it, a request has not been handled.
NotHandledYet ==
  \A r \in Requests : at[r] \in {"router", "route", "send"} => "handled" \notin since[r]

SpineInv == SpineOK /\ Cleared /\ NotHandledYet /\ OutcomeReported

\* What is remembered of a moment.
LEMMA FactsAre ==
  ASSUME NEW r \in Requests, SpineOK
  PROVE  /\ Facts(r) \subseteq FactNames
         /\ ~enforced \/ request[r].service \notin guarded => "open" \in Facts(r)
         /\ request[r].identity # NoIdentity /\ identities[request[r].identity].known =>
              /\ Authentic(identities[request[r].identity], request[r].credential) =>
                   "authentic" \in Facts(r)
              /\ identities[request[r].identity].permitted => "permitted" \in Facts(r)
         /\ "events" \notin active => "bus stopped" \in Facts(r)
         /\ at[r] # "handle" => "handled" \notin Facts(r)
<1>1. request[r].identity \in Identities \cup {NoIdentity}
  BY DEF SpineOK, Message
<1> QED BY <1>1 DEF Facts, FactNames

\* It is kept for as long as the request is under way, and until the next one.
LEMMA SinceKept ==
  ASSUME NEW r \in Requests, SpineOK, Remember
  PROVE  /\ since' \in [Requests -> SUBSET FactNames]
         /\ ~Ended(r) => since'[r] = since[r] \cup Facts(r)
         /\ Ended(r) /\ at'[r] = at[r] => since'[r] = since[r]
         /\ Ended(r) /\ at'[r] # at[r] => since'[r] = {}
<1>1. \A q \in Requests : Facts(q) \subseteq FactNames /\ since[q] \subseteq FactNames
  BY FactsAre DEF SpineOK
<1> QED BY <1>1 DEF Remember

LEMMA SpineInitially == SpineInit => SpineInv
<1> SUFFICES ASSUME SpineInit PROVE SpineInv
  OBVIOUS
<1>1. SpineOK
  BY DEF SpineInit, SpineOK, Identity, Parts, Places, Providers
<1> QED BY <1>1 DEF SpineInit, SpineInv, Cleared, NotHandledYet, OutcomeReported

\* While nothing happens to the requests, facts only add up.
LEMMA RequestsWait ==
  ASSUME SpineInv, Remember, UNCHANGED requestVars
  PROVE  Cleared' /\ NotHandledYet' /\ OutcomeReported'
<1> USE DEF SpineInv, requestVars
<1>1. UNCHANGED <<request, at, result, told>>
  OBVIOUS
<1>2. \A r \in Requests :
        /\ since[r] \subseteq since'[r]
        /\ Ended(r) => since'[r] = since[r]
        /\ at[r] # "handle" => ("handled" \in since'[r] => "handled" \in since[r])
  BY <1>1, SinceKept, FactsAre DEF Ended
<1> QED BY <1>1, <1>2 DEF Cleared, NotHandledYet, OutcomeReported, Ended

LEMMA ArrivesStep ==
  ASSUME SpineInv, Remember, NEW r \in Requests, NEW message \in Message,
         NEW place \in {"router", "send"}, Arrives(r, message, place)
  PROVE  SpineInv'
<1> USE DEF SpineInv
<1>1. /\ at[r] \in {"answered", "raised"} /\ at' = [at EXCEPT ![r] = place]
      /\ request' = [request EXCEPT ![r] = message]
      /\ result' = [result EXCEPT ![r] = "none"] /\ told' = [told EXCEPT ![r] = FALSE]
      /\ UNCHANGED configVars
  BY DEF Arrives, Ended
<1>2. SpineOK'
  BY <1>1, SinceKept DEF SpineOK, Places, configVars
<1>3. \A q \in Requests \ {r} :
        /\ at'[q] = at[q] /\ request'[q] = request[q] /\ result'[q] = result[q]
        /\ told'[q] = told[q]
        /\ since[q] \subseteq since'[q]
        /\ Ended(q) => since'[q] = since[q]
        /\ at[q] # "handle" => ("handled" \in since'[q] => "handled" \in since[q])
  BY <1>1, SinceKept, FactsAre DEF Ended, SpineOK
<1>4. at'[r] = place /\ since'[r] = {}
  BY <1>1, SinceKept DEF Ended, SpineOK
<1> QED
  BY <1>2, <1>3, <1>4 DEF Cleared, NotHandledYet, OutcomeReported, Ended

\* A step of _enforce, of dispatch or of what comes before: where it leads, what
\* the request is told on the way, and what was the case when it was taken.
HandlingGoes(r, to) ==
  /\ at' = [at EXCEPT ![r] = to] /\ to \in Places
  /\ UNCHANGED <<request, configVars>>
  /\ result' \in [Requests -> {"none", "invalid", "denied", "failed", "executed"}]
  /\ told' \in [Requests -> BOOLEAN]
  /\ \A q \in Requests \ {r} : result'[q] = result[q] /\ told'[q] = told[q]
  /\ to = "authorize" => "authentic" \in Facts(r)
  /\ to = "dispatch" => \/ "open" \in Facts(r)
                        \/ at[r] = "authorize" /\ "permitted" \in Facts(r)
  /\ to = "execute" => at[r] = "dispatch"
  /\ to \in {"router", "route", "send"} => at[r] \in {"router", "route", "send"}
  /\ to = "answered" /\ result'[r] \in {"denied", "failed", "executed"} =>
       told'[r] \/ "bus stopped" \in Facts(r)
  /\ to = "raised" => \/ at[r] \in {"router", "route", "send"}
                      \/ request[r].operation = "blanks"
                      \/ "bus stopped" \in Facts(r)

LEMMA HandlingLeads ==
  ASSUME SpineInv, NEW r \in Requests, Handling(r)
  PROVE  ~Ended(r) /\ \E to \in Places : HandlingGoes(r, to)
<1> USE DEF SpineInv, SpineOK
<1>1. CASE RouterRuns(r)
  BY <1>1, FactsAre DEF RouterRuns, Step, Go, Ended, HandlingGoes, Places
<1>2. CASE GetRoute(r)
  BY <1>2, FactsAre DEF GetRoute, Step, Go, Ended, HandlingGoes, Places
<1>3. CASE Send(r)
  BY <1>3, FactsAre DEF Send, Step, Go, Ended, HandlingGoes, Places
<1>4. CASE ToRequest(r)
  BY <1>4, FactsAre DEF ToRequest, Go, Ended, HandlingGoes, Places
<1>5. CASE EnforcementActive(r)
  BY <1>5, FactsAre DEF EnforcementActive, Step, Go, Ended, HandlingGoes, Places
<1>6. CASE Required(r)
  BY <1>6, FactsAre DEF Required, Go, Ended, HandlingGoes, Places
<1>7. CASE Authenticate(r)
  BY <1>7, FactsAre DEF Authenticate, Denied, Conclude, Known, Go, Ended, HandlingGoes, Places
<1>8. CASE Authorize(r)
  BY <1>8, FactsAre DEF Authorize, Denied, Conclude, Known, Go, Ended, HandlingGoes, Places
<1>9. CASE Execute(r)
  BY <1>9, FactsAre DEF Execute, Go, Ended, HandlingGoes, Places
<1>10. CASE ExecuteRefused(r)
  BY <1>10, FactsAre DEF ExecuteRefused, Conclude, Go, Ended, HandlingGoes, Places
<1>11. CASE OperationReturns(r)
  BY <1>11, FactsAre DEF OperationReturns, Conclude, Go, Ended, HandlingGoes, Places
<1>12. CASE OperationRaises(r)
  BY <1>12, FactsAre DEF OperationRaises, Conclude, Go, Ended, HandlingGoes, Places
<1>13. CASE Announce(r)
  BY <1>13, FactsAre DEF Announce, Step, Go, Ended, HandlingGoes, Places
<1>14. CASE Publish(r)
  <2>1. ~Ended(r) /\ at[r] = "publish" /\ UNCHANGED <<request, result, configVars>>
    BY <1>14 DEF Publish, Ended
  <2>2. CASE "events" \in active
    <3>1. told' = [told EXCEPT ![r] = TRUE] /\ at' = [at EXCEPT ![r] = "answered"]
      BY <1>14, <2>2 DEF Publish
    <3> QED BY <2>1, <3>1 DEF HandlingGoes, Places
  <2>3. CASE "events" \notin active
    <3>1. told' = [told EXCEPT ![r] = FALSE] /\ at' = [at EXCEPT ![r] = "raised"]
      <4>1. ("events" \in active) = FALSE
        BY <2>3
      <4> QED BY <1>14, <4>1, Zenon DEF Publish
    <3> QED BY <2>1, <2>3, <3>1, FactsAre DEF HandlingGoes, Places
  <2> QED BY <2>2, <2>3
<1> HIDE DEF SpineInv, SpineOK
<1> QED
  BY ONLY Handling(r), <1>1, <1>2, <1>3, <1>4, <1>5, <1>6, <1>7, <1>8, <1>9, <1>10, <1>11, <1>12, <1>13, <1>14, Zenon DEF Handling

LEMMA HandlingStep ==
  ASSUME SpineInv, Remember, NEW r \in Requests, Handling(r)
  PROVE  SpineInv'
<1> USE DEF SpineInv
<1>1. PICK to \in Places : HandlingGoes(r, to) /\ ~Ended(r)
  BY HandlingLeads
<1>2. SpineOK'
  BY <1>1, SinceKept DEF SpineOK, HandlingGoes, configVars
<1>3. \A q \in Requests \ {r} :
        /\ at'[q] = at[q] /\ result'[q] = result[q] /\ told'[q] = told[q]
        /\ since[q] \subseteq since'[q]
        /\ Ended(q) => since'[q] = since[q]
        /\ at[q] # "handle" => ("handled" \in since'[q] => "handled" \in since[q])
  <2> SUFFICES ASSUME NEW q \in Requests \ {r}
               PROVE  /\ at'[q] = at[q] /\ result'[q] = result[q] /\ told'[q] = told[q]
                      /\ since[q] \subseteq since'[q]
                      /\ Ended(q) => since'[q] = since[q]
                      /\ at[q] # "handle" =>
                           ("handled" \in since'[q] => "handled" \in since[q])
    OBVIOUS
  <2>1. at'[q] = at[q] /\ result'[q] = result[q] /\ told'[q] = told[q]
    BY <1>1 DEF SpineOK, HandlingGoes
  <2>2. /\ Ended(q) => since'[q] = since[q]
        /\ ~Ended(q) => since'[q] = since[q] \cup Facts(q)
    BY <2>1, SinceKept DEF SpineOK
  <2>3. "handled" \in Facts(q) => at[q] = "handle"
    BY FactsAre
  <2> QED BY <2>1, <2>2, <2>3
<1>4. at'[r] = to /\ since'[r] = since[r] \cup Facts(r) /\ request' = request
  BY <1>1, SinceKept DEF SpineOK, HandlingGoes
<1>5. Cleared'
  BY <1>1, <1>3, <1>4 DEF Cleared, HandlingGoes
<1>6. NotHandledYet'
  BY <1>1, <1>3, <1>4, FactsAre DEF NotHandledYet, HandlingGoes
<1>7. OutcomeReported'
  <2>1. ASSUME NEW q \in Requests, q # r
        PROVE  /\ at'[q] = at[q] /\ result'[q] = result[q] /\ told'[q] = told[q]
               /\ since[q] \subseteq since'[q] /\ request'[q] = request[q]
               /\ at[q] = "raised" => since'[q] = since[q]
    BY <1>3, <1>4, <2>1 DEF Ended
  <2>2. ASSUME NEW q \in Requests, q # r
        PROVE  /\ at'[q] = "answered" /\ result'[q] \in {"denied", "failed", "executed"} =>
                    told'[q] \/ "bus stopped" \in since'[q]
               /\ at'[q] = "raised" /\ "handled" \in since'[q] =>
                    "bus stopped" \in since'[q] \/ request'[q].operation = "blanks"
    BY <2>1, <2>2 DEF OutcomeReported
  <2>3. /\ to = "answered" /\ result'[r] \in {"denied", "failed", "executed"} =>
             told'[r] \/ "bus stopped" \in Facts(r)
        /\ to = "raised" => \/ at[r] \in {"router", "route", "send"}
                            \/ request[r].operation = "blanks"
                            \/ "bus stopped" \in Facts(r)
    BY <1>1 DEF HandlingGoes
  <2>4. at[r] \in {"router", "route", "send"} => "handled" \notin since'[r]
    BY <1>4, FactsAre DEF NotHandledYet
  <2> QED BY <1>4, <2>2, <2>3, <2>4 DEF OutcomeReported
<1> QED BY <1>2, <1>5, <1>6, <1>7

\* What the application changes meanwhile.
LEMMA ChangeKeepsTypes ==
  ASSUME SpineOK, Remember, UNCHANGED requestVars,
         \/ UNCHANGED configVars
         \/ ChangeRouter \/ ChangeTransport \/ ChangeBus \/ ChangePolicy \/ ChangeSecurity
  PROVE  SpineOK'
<1> USE DEF SpineOK, requestVars
<1>1. since' \in [Requests -> SUBSET FactNames]
  BY SinceKept, FactsAre DEF Remember
<1>2. CASE UNCHANGED configVars
  BY <1>1, <1>2 DEF configVars
<1>3. CASE ChangeRouter
  BY <1>1, <1>3 DEF ChangeRouter, StartOrStop, SetActive, SetRoutes, Parts
<1>4. CASE ChangeTransport
  BY <1>1, <1>4 DEF ChangeTransport, StartOrStop, SetActive, SetEndpoints, Parts
<1>5. CASE ChangeBus
  BY <1>1, <1>5 DEF ChangeBus, StartOrStop, SetActive, Parts
<1>6. CASE ChangePolicy
  BY <1>1, <1>6 DEF ChangePolicy, SetPolicy
<1>7. CASE ChangeSecurity
  <2>1. CASE StartOrStop("security")
    BY <1>1, <2>1 DEF StartOrStop, SetActive, Parts
  <2>2. CASE /\ provider' \in Providers
             /\ UNCHANGED <<active, routes, endpoints, enforced, guarded, identities>>
    BY <1>1, <2>2
  <2>3. ASSUME NEW i \in Identities, NEW identity \in Identity, SetIdentity(i, identity)
        PROVE  SpineOK'
    BY <1>1, <2>3 DEF SetIdentity
  <2>4. CASE /\ identities' = [i \in Identities |-> Absent]
             /\ UNCHANGED <<active, routes, endpoints, enforced, guarded, provider>>
    BY <1>1, <2>4 DEF Identity
  <2> QED BY <1>7, <2>1, <2>2, <2>3, <2>4 DEF ChangeSecurity
<1> QED BY <1>2, <1>3, <1>4, <1>5, <1>6, <1>7

LEMMA SpineInvariance == SpineSpec => []SpineInv
<1>1. SpineInit => SpineInv
  BY SpineInitially
<1>2. SpineInv /\ [SpineNext]_vars => SpineInv'
  <2> SUFFICES ASSUME SpineInv, [SpineNext]_vars PROVE SpineInv'
    OBVIOUS
  <2>1. CASE Remember /\ \E r \in Requests :
               \/ \E message \in Message :
                    Arrives(r, message, "router") \/ Arrives(r, message, "send")
               \/ Handling(r)
    BY <2>1, ArrivesStep, HandlingStep
  <2>2. CASE /\ Remember /\ UNCHANGED requestVars
             /\ \/ UNCHANGED configVars
                \/ ChangeRouter \/ ChangeTransport \/ ChangeBus \/ ChangePolicy
                \/ ChangeSecurity
    BY <2>2, ChangeKeepsTypes, RequestsWait DEF SpineInv
  <2>3. CASE UNCHANGED vars
    BY <2>3 DEF vars, requestVars, configVars, SpineInv, SpineOK, Cleared, NotHandledYet, OutcomeReported
  <2> QED BY <2>1, <2>2, <2>3 DEF SpineNext
<1> QED BY <1>1, <1>2, PTL DEF SpineSpec

-----------------------------------------------------------------------------
(* The way of a request implements ServiceManager.                         *)

LEMMA HandlingImplements ==
  ASSUME SpineInv, NEW r \in Requests, Handling(r)
  PROVE  [Next]_serviceVars
<1>0. request[r].service \in Services
  BY DEF SpineInv, SpineOK, Message
<1>1. CASE RouterRuns(r)
  BY <1>1 DEF RouterRuns, Step
<1>2. CASE GetRoute(r)
  BY <1>2 DEF GetRoute, Step
<1>3. CASE Send(r)
  BY <1>3 DEF Send, Step
<1>4. CASE ToRequest(r)
  BY <1>4 DEF ToRequest
<1>5. CASE EnforcementActive(r)
  BY <1>5 DEF EnforcementActive, Step
<1>6. CASE Required(r)
  BY <1>6 DEF Required
<1>7. CASE Authenticate(r)
  BY <1>7 DEF Authenticate, Denied
<1>8. CASE Authorize(r)
  BY <1>8 DEF Authorize, Denied
<1>9. CASE Execute(r)
  BY <1>0, <1>9 DEF Execute, Next
<1>10. CASE ExecuteRefused(r)
  BY <1>10 DEF ExecuteRefused
<1>11. CASE OperationReturns(r)
  BY <1>11 DEF OperationReturns, Next
<1>12. CASE OperationRaises(r)
  BY <1>12 DEF OperationRaises, Next
<1>13. CASE Announce(r)
  BY <1>13 DEF Announce, Step
<1>14. CASE Publish(r)
  BY <1>14 DEF Publish
<1> QED
  BY <1>1, <1>2, <1>3, <1>4, <1>5, <1>6, <1>7, <1>8, <1>9, <1>10, <1>11, <1>12, <1>13, <1>14 DEF Handling

LEMMA SpineStepImplements == SpineInv /\ [SpineNext]_vars => [Next]_serviceVars
<1> SUFFICES ASSUME SpineInv, [SpineNext]_vars PROVE [Next]_serviceVars
  OBVIOUS
<1>1. CASE \E r \in Requests : Handling(r)
  BY <1>1, HandlingImplements
<1>2. CASE \E r \in Requests, message \in Message :
             Arrives(r, message, "router") \/ Arrives(r, message, "send")
  BY <1>2 DEF Arrives
<1>3. CASE Lifecycle \/ UNCHANGED serviceVars
  BY <1>3 DEF Next
<1>4. CASE UNCHANGED vars
  BY <1>4 DEF vars
<1> QED BY <1>1, <1>2, <1>3, <1>4 DEF SpineNext

\* Whatever happens on the way of the requests, the services see no more than
\* ServiceManager allows: a handler called for one that runs, a handler that
\* returns, one that raises, and the calls of the runtime.
THEOREM SpineImplementsServices == SpineSpec => Spec
<1>1. SpineInit => Init
  BY DEF SpineInit
<1>2. SpineInv /\ [SpineNext]_vars => [Next]_serviceVars
  BY SpineStepImplements
<1> QED BY <1>1, <1>2, SpineInvariance, PTL DEF SpineSpec, Spec

-----------------------------------------------------------------------------
(* The theorems.                                                           *)

\* A service that is running has all it depends on running, but for what a
\* handler has brought down, whatever the graph, the calls of start(), stop(),
\* restart() and unregister() to themselves, and the requests meanwhile.
THEOREM DependenciesRunningHolds == Spec => []DependenciesRunning
BY ServicesInvariance, PTL DEF ServicesInv

\* A start is refused before anything of it is done: no call that start() makes
\* to itself is refused.
THEOREM StartRefusedWholeHolds == Spec => StartRefusedWhole
<1>1. ServicesInv /\ [Next]_serviceVars => [StartRaises => Len(agenda) = 1]_serviceVars
  BY RaisesAlone
<1> QED BY <1>1, ServicesInvariance, PTL DEF Spec, StartRefusedWhole

\* So it is when the requests come by the router, the transport and the policy.
THEOREM SpineDependenciesRunning == SpineSpec => []DependenciesRunning /\ StartRefusedWhole
BY SpineImplementsServices, DependenciesRunningHolds, StartRefusedWholeHolds, PTL

\* No handler is called for a request that was neither free to anybody, nor
\* authentic and permitted, at any time since it arrived: for any number of
\* requests, services, identities and tokens, while all of them change.
THEOREM OnlyAllowedExecuteHolds == SpineSpec => []OnlyAllowedExecute
<1>1. SpineInv => OnlyAllowedExecute
  BY DEF SpineInv, Cleared, OnlyAllowedExecute
<1> QED BY <1>1, SpineInvariance, PTL

\* A request that reached its service is answered and its outcome published,
\* but for the cases that OutcomeReported names.
THEOREM OutcomeReportedHolds == SpineSpec => []OutcomeReported
BY SpineInvariance, PTL DEF SpineInv

=============================================================================
