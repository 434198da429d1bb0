--------------------------- MODULE Runtime_proofs ---------------------------
(* Proofs about Runtime and the two searches for a start order, checked    *)
(* with the TLA+ proof system.                                             *)
EXTENDS StartOrder, DependencyManager, FiniteSetTheorems, WellFoundedInduction, TLAPS

-----------------------------------------------------------------------------
(* The inductive invariant.                                                *)

\* The first n components of the list of initialized ones.
UpTo(n) == {initialized[i] : i \in 1 .. n}

\* How many of them have yet to be shut down.
HowFar == IF ShuttingDown THEN left ELSE Len(initialized)

\* What the runtime's own state, and the locals of a call, are during it.
CallInv ==
  /\ call = "start" => state = "initializing"
  /\ call = "rollback" => state = "failed"
  /\ call = "stop" => state = "shutting_down"
  /\ call = "restart" => state = "stopped"
  /\ call = "idle" => state # "shutting_down"
  /\ call \in {"idle", "restart"} =>
       /\ current = NoComponent
       /\ state \in {"stopped", "failed"} => initialized = <<>>
  /\ call # "start" => plan = <<>>
  /\ ~ShuttingDown => left = 0
  /\ ShuttingDown /\ current # NoComponent => left > 0 /\ current = NextDown

\* The list names each component once, after all it depends on.
ListInv ==
  \A i \in 1 .. Len(initialized) :
    /\ \A j \in 1 .. Len(initialized) : i # j => initialized[i] # initialized[j]
    /\ \A d \in dependencies[initialized[i]] :
         \E j \in 1 .. i - 1 : initialized[j] = d

\* In start(), s is start_order: the components that are up, the one being
\* initialized, and those that are left.
StartPlan(s) ==
  LET n == Len(initialized)
      k == IF current = NoComponent THEN n ELSE n + 1
  IN  /\ s \in StartOrders
      /\ Len(s) = k + Len(plan)
      /\ \A i \in 1 .. n : initialized[i] = s[i]
      /\ current # NoComponent => current = s[k]
      /\ \A i \in 1 .. Len(plan) : plan[i] = s[k + i]

PlanInv == call = "start" => \E s : StartPlan(s)

\* The components that hold something, those that were interrupted apart, are
\* the first ones of the list.
UpInv == live \ half = UpTo(HowFar)

\* What the component states say: in start(), of those that are up and of those
\* that are disabled; at any time, of those that are not up.
ShownInv ==
  /\ call = "start" =>
       /\ \A i \in 1 .. Len(initialized) : compState[initialized[i]] = "running"
       /\ \A c \in components \ enabled : compState[c] = "disabled"
  /\ \A c \in components :
       compState[c] \in {"running", "stopping"} => c \in UpTo(HowFar)
  /\ state = "running" =>
       \A c \in components :
         compState[c] = IF c \in enabled THEN "running" ELSE "disabled"

IInv == TypeOK /\ CallInv /\ ListInv /\ PlanInv /\ UpInv /\ ShownInv

-----------------------------------------------------------------------------
(* Facts about the list and the start order.                               *)

\* A start order lists exactly the enabled components, each once, after all it
\* depends on.
LEMMA OrderFacts ==
  ASSUME TypeOK, NEW s \in StartOrders
  PROVE  /\ s \in Seq(components)
         /\ \A i \in 1 .. Len(s) :
              /\ \A j \in 1 .. Len(s) : i # j => s[i] # s[j]
              /\ \A d \in dependencies[s[i]] : \E j \in 1 .. i - 1 : s[j] = d
         /\ \A c \in enabled : \E i \in 1 .. Len(s) : s[i] = c
<1> DEFINE n == Cardinality(enabled)
<1>1. IsFiniteSet(enabled) /\ n \in Nat
  BY ComponentsAssumption, FS_Subset, FS_CardinalityType DEF TypeOK
<1>2. /\ s \in [1 .. n -> enabled]
      /\ \A i, j \in 1 .. n : i # j => s[i] # s[j]
      /\ Ordered(s)
  BY DEF StartOrders, OrdersOf, SetToSeqs
<1>3. s \in Seq(enabled) /\ Len(s) = n
  BY <1>1, <1>2
<1>4. s \in Seq(components)
  BY <1>1, <1>2 DEF TypeOK
<1>5. \A i \in 1 .. n : \A d \in dependencies[s[i]] :
        \E j \in 1 .. i - 1 : s[j] = d
  BY <1>2 DEF Ordered
<1>6. s \in Injection(1 .. n, enabled)
  BY <1>2 DEF Injection, IsInjective
<1>7. Cardinality(1 .. n) = n
  BY <1>1, FS_Interval
<1>8. s \in Surjection(1 .. n, enabled)
  BY <1>1, <1>6, <1>7, FS_Injection
<1>9. \A c \in enabled : \E i \in 1 .. n : s[i] = c
  BY <1>8 DEF Surjection
<1> QED BY <1>2, <1>3, <1>4, <1>5, <1>9

\* What one more element adds to the list.
LEMMA UpToNext ==
  ASSUME TypeOK, ListInv, NEW n \in 1 .. Len(initialized)
  PROVE  /\ UpTo(n) = UpTo(n - 1) \cup {initialized[n]}
         /\ initialized[n] \notin UpTo(n - 1)
         /\ initialized[n] \in components
<1>1. initialized \in Seq(components) /\ Len(initialized) \in Nat
  BY DEF TypeOK
<1>2. 1 .. n = (1 .. n - 1) \cup {n}
  BY <1>1
<1>3. UpTo(n) = UpTo(n - 1) \cup {initialized[n]}
  BY <1>2 DEF UpTo
<1>4. initialized[n] \notin UpTo(n - 1)
  BY <1>1 DEF ListInv, UpTo
<1> QED BY <1>1, <1>3, <1>4

\* The component whose turn it is in a shutdown is up.
LEMMA NextDownUp ==
  ASSUME IInv, ShuttingDown, left > 0
  PROVE  /\ left \in 1 .. Len(initialized)
         /\ NextDown \in components
         /\ NextDown \in live \ half
         /\ UpTo(left) = UpTo(left - 1) \cup {NextDown}
         /\ NextDown \notin UpTo(left - 1)
<1>1. left \in 1 .. Len(initialized)
  BY DEF IInv, TypeOK
<1>2. /\ UpTo(left) = UpTo(left - 1) \cup {NextDown}
      /\ NextDown \notin UpTo(left - 1) /\ NextDown \in components
  BY <1>1, UpToNext DEF IInv, NextDown
<1>3. live \ half = UpTo(left)
  BY DEF IInv, UpInv, HowFar
<1> QED BY <1>1, <1>2, <1>3

-----------------------------------------------------------------------------
(* Types, and the state of a call.                                         *)

\* Nothing is registered yet, and nothing runs.
LEMMA InvInit == Init => IInv
<1> SUFFICES ASSUME Init PROVE IInv
  OBVIOUS
<1> USE DEF Init, NeverStarted
<1>1. TypeOK
  <2>1. initialized \in Seq(components) /\ plan \in Seq(components)
    OBVIOUS
  <2>2. left \in 0 .. Len(initialized)
    OBVIOUS
  <2>3. /\ dependencies \in [Components -> SUBSET Components]
        /\ compState \in [Components -> ComponentStates]
    BY DEF ComponentStates
  <2> QED BY <2>1, <2>2, <2>3 DEF TypeOK
<1>2. CallInv /\ ListInv /\ PlanInv
  BY DEF CallInv, ListInv, PlanInv, ShuttingDown
<1>3. UpTo(HowFar) = {}
  BY DEF UpTo, HowFar, ShuttingDown
<1>4. UpInv /\ ShownInv
  BY <1>3 DEF UpInv, ShownInv
<1> QED BY <1>1, <1>2, <1>4 DEF IInv

\* Every step keeps the types.
LEMMA TypeStep == IInv /\ [Next]_vars => TypeOK'
<1> SUFFICES ASSUME IInv, [Next]_vars PROVE TypeOK'
  OBVIOUS
<1> USE ComponentsAssumption, DependencySetsAssumption
<1>a. TypeOK /\ CallInv
  BY DEF IInv
<1>1. ASSUME NEW c \in Components, NEW D \in DependencySets, NEW h \in BOOLEAN,
             RegisterComponent(c, D, h)
      PROVE  TypeOK'
  BY <1>1, <1>a DEF RegisterComponent, Configurable, TypeOK, CallInv,
     ComponentStates, callVars, ShuttingDown
<1>2. ASSUME NEW c \in Components, NEW D \in DependencySets,
             SetDependencies(c, D)
      PROVE  TypeOK'
  BY <1>2, <1>a DEF SetDependencies, TypeOK, callVars
<1>3. ASSUME NEW c \in Components, NEW e \in BOOLEAN, SetEnabled(c, e)
      PROVE  TypeOK'
  BY <1>3, <1>a DEF SetEnabled, TypeOK, callVars
<1>4. ASSUME NEW r \in SUBSET components, ApplyPolicy(r)
      PROVE  TypeOK'
  BY <1>4, <1>a DEF ApplyPolicy, TypeOK, callVars
<1>5. CASE ClearComponents
  BY <1>5, <1>a DEF ClearComponents, Configurable, TypeOK, CallInv,
     ComponentStates, callVars, ShuttingDown
<1>6. CASE StartRefused
  BY <1>6, <1>a DEF StartRefused, MayStart, TypeOK, CallInv, ShuttingDown,
     registryVars
<1>7. ASSUME NEW s \in StartOrders, StartRequested(s)
      PROVE  TypeOK'
  <2>1. s \in Seq(components)
    BY <1>a, OrderFacts
  <2> QED BY <2>1, <1>7, <1>a DEF StartRequested, MayStart, TypeOK, CallInv,
          ShuttingDown, registryVars, ComponentStates
<1>8. CASE InitializerCalled
  BY <1>8, <1>a DEF InitializerCalled, TypeOK, ComponentStates, registryVars
<1>9. CASE InitializerReturns
  BY <1>9, <1>a DEF InitializerReturns, TypeOK, CallInv, ShuttingDown,
     ComponentStates, registryVars
<1>10. CASE InitializerRaises
  BY <1>10, <1>a DEF InitializerRaises, TypeOK, ComponentStates, registryVars
<1>11. CASE Interrupted
  BY <1>11, <1>a DEF Interrupted, TypeOK, ComponentStates, registryVars
<1>12. CASE StartFinished
  BY <1>12, <1>a DEF StartFinished, TypeOK, registryVars
<1>13. ASSUME NEW r \in BOOLEAN, StopRequested(r)
       PROVE  TypeOK'
  BY <1>13, <1>a DEF StopRequested, TypeOK, registryVars
<1>14. CASE NoHandler
  <2>1. left > 0 /\ ShuttingDown
    BY <1>14, <1>a DEF NoHandler, TypeOK
  <2> QED BY <2>1, <1>14, <1>a, NextDownUp
          DEF NoHandler, TypeOK, ComponentStates, registryVars
<1>15. CASE ShutdownCalled
  <2>1. left > 0 /\ ShuttingDown
    BY <1>15, <1>a DEF ShutdownCalled, TypeOK
  <2> QED BY <2>1, <1>15, <1>a, NextDownUp
          DEF ShutdownCalled, TypeOK, ComponentStates, registryVars
<1>16. CASE ShutdownReturns \/ ShutdownRaises
  <2>1. ShuttingDown /\ left > 0 /\ current = NextDown
    BY <1>16, <1>a DEF ShutdownReturns, ShutdownRaises, CallInv
  <2>2. /\ current \in components /\ current \in live \ half
        /\ left - 1 \in 0 .. Len(initialized)
    BY <2>1, <1>a, NextDownUp DEF TypeOK
  <2>3. /\ UNCHANGED <<state, registryVars, initialized, call, again, plan, half>>
        /\ live' = live \ {current} /\ left' = left - 1
        /\ current' = NoComponent /\ errors' \in {errors, errors \cup {current}}
    BY <1>16 DEF ShutdownReturns, ShutdownRaises
  <2>4. compState' \in [Components -> ComponentStates]
    BY <1>16, <1>a DEF ShutdownReturns, ShutdownRaises, TypeOK, ComponentStates
  <2>5. /\ errors' \subseteq components'
        /\ half' \subseteq live' /\ live' \subseteq Components
    BY <2>2, <2>3, <1>a DEF TypeOK, registryVars
  <2> QED BY <2>2, <2>3, <2>4, <2>5, <1>a DEF TypeOK, registryVars
<1>17. CASE RollbackFinished
  BY <1>17, <1>a DEF RollbackFinished, TypeOK, registryVars
<1>18. CASE StopFinished
  <2>1. call' \in {"idle", "restart"}
    BY <1>18 DEF StopFinished
  <2>2. left' \in 0 .. Len(initialized') /\ initialized' \in Seq(components')
    BY <1>18, <1>a DEF StopFinished, TypeOK, registryVars
  <2>3. state' = "stopped" /\ again' = FALSE
    BY <1>18 DEF StopFinished
  <2> QED BY <2>1, <2>2, <2>3, <1>18, <1>a
          DEF StopFinished, TypeOK, registryVars
<1>19. CASE UNCHANGED vars
  BY <1>19, <1>a DEF vars, TypeOK
<1> QED BY <1>1, <1>2, <1>3, <1>4, <1>5, <1>6, <1>7, <1>8, <1>9, <1>10, <1>11,
       <1>12, <1>13, <1>14, <1>15, <1>16, <1>17, <1>18, <1>19
       DEF Next, Register, Advance

\* What registration leaves alone: it is allowed only when nothing is up.
LEMMA RegisterQuiet ==
  ASSUME IInv, Register
  PROVE  /\ call = "idle" /\ state = "stopped" /\ initialized = <<>>
         /\ initialized' = <<>>
         /\ UNCHANGED <<state, callVars, live, half>>
<1>1. /\ Configurable
      /\ initialized' \in {initialized, <<>>}
      /\ UNCHANGED <<state, callVars, live, half>>
  BY DEF Register, RegisterComponent, SetDependencies, SetEnabled, ApplyPolicy,
     ClearComponents
<1>2. call = "idle" /\ state = "stopped"
  BY <1>1 DEF Configurable
<1>3. initialized = <<>>
  BY <1>2 DEF IInv, CallInv
<1> QED BY <1>1, <1>2, <1>3

\* Every step keeps what is said of the calls.
LEMMA CallStep == IInv /\ [Next]_vars => CallInv'
<1> SUFFICES ASSUME IInv, [Next]_vars PROVE CallInv'
  OBVIOUS
<1>a. TypeOK /\ CallInv
  BY DEF IInv
<1> USE DEF CallInv, ShuttingDown, NextDown
<1>1. CASE Register
  BY <1>1, <1>a, RegisterQuiet DEF callVars
<1>2. CASE StartRefused
  BY <1>2, <1>a DEF StartRefused, MayStart
<1>3. ASSUME NEW s \in StartOrders, StartRequested(s)
      PROVE  CallInv'
  BY <1>3, <1>a DEF StartRequested, MayStart
<1>4. CASE InitializerCalled \/ InitializerReturns \/ InitializerRaises
  BY <1>4, <1>a
     DEF InitializerCalled, InitializerReturns, InitializerRaises
<1>5. CASE Interrupted \/ StartFinished
  BY <1>5, <1>a DEF Interrupted, StartFinished
<1>6. ASSUME NEW r \in BOOLEAN, StopRequested(r)
      PROVE  CallInv'
  BY <1>6, <1>a DEF StopRequested
<1>7. CASE NoHandler \/ ShutdownCalled
  BY <1>7, <1>a DEF NoHandler, ShutdownCalled
<1>8. CASE ShutdownReturns \/ ShutdownRaises
  BY <1>8, <1>a DEF ShutdownReturns, ShutdownRaises
<1>9. CASE RollbackFinished
  BY <1>9, <1>a DEF RollbackFinished
<1>10. CASE StopFinished
  <2>1. call' \in {"idle", "restart"} /\ state' = "stopped"
    BY <1>10 DEF StopFinished
  <2>2. initialized' = <<>> /\ plan' = <<>> /\ left' = 0
    BY <1>10, <1>a DEF StopFinished
  <2>3. current' = NoComponent
    BY <1>10, <1>a DEF StopFinished
  <2> QED BY <2>1, <2>2, <2>3
<1>11. CASE UNCHANGED vars
  BY <1>11, <1>a DEF vars
<1> QED BY <1>1, <1>2, <1>3, <1>4, <1>5, <1>6, <1>7, <1>8, <1>9, <1>10, <1>11
       DEF Next, Advance

-----------------------------------------------------------------------------
(* The list and the plan.                                                  *)

\* The start order depends on the registered components only.
LEMMA OrdersKept ==
  ASSUME UNCHANGED <<components, enabled, dependencies>>
  PROVE  StartOrders' = StartOrders
  BY DEF StartOrders, OrdersOf, Ordered

\* A component that is about to be appended to the list is not in it, and what
\* it depends on is.
LEMMA NextInPlan ==
  ASSUME IInv, call = "start", current # NoComponent
  PROVE  /\ \A i \in 1 .. Len(initialized) : initialized[i] # current
         /\ \A d \in dependencies[current] :
              \E i \in 1 .. Len(initialized) : initialized[i] = d
<1>1. PICK s : StartPlan(s)
  BY DEF IInv, PlanInv
<1> DEFINE n == Len(initialized)
<1>2. n \in Nat /\ Len(plan) \in Nat /\ s \in StartOrders
  BY <1>1 DEF IInv, TypeOK, StartPlan
<1>3. /\ Len(s) = n + 1 + Len(plan)
      /\ \A i \in 1 .. n : initialized[i] = s[i]
      /\ current = s[n + 1]
  BY <1>1, <1>2 DEF StartPlan
<1>4. n + 1 \in 1 .. Len(s) /\ \A i \in 1 .. n : i \in 1 .. Len(s)
  BY <1>2, <1>3
<1>5. \A i \in 1 .. n : s[i] # s[n + 1]
  <2> TAKE i \in 1 .. n
  <2>1. i # n + 1
    BY <1>2
  <2> QED BY <2>1, <1>2, <1>4, OrderFacts DEF IInv
<1>6. \A d \in dependencies[s[n + 1]] : \E i \in 1 .. n : s[i] = d
  <2>1. \A d \in dependencies[s[n + 1]] : \E i \in 1 .. (n + 1) - 1 : s[i] = d
    BY <1>2, <1>4, OrderFacts DEF IInv
  <2> QED BY <2>1, <1>2
<1> QED BY <1>3, <1>5, <1>6

\* Every step keeps the list in order.
LEMMA ListStep == IInv /\ [Next]_vars => ListInv'
<1> SUFFICES ASSUME IInv, [Next]_vars PROVE ListInv'
  OBVIOUS
<1>1. CASE initialized' = <<>>
  BY <1>1 DEF ListInv
<1>2. CASE UNCHANGED <<initialized, dependencies>>
  <2>1. initialized' = initialized /\ dependencies' = dependencies
    BY <1>2
  <2>2. ASSUME NEW i \in 1 .. Len(initialized)
        PROVE  /\ \A j \in 1 .. Len(initialized) : i # j => initialized[i] # initialized[j]
               /\ \A d \in dependencies[initialized[i]] :
                    \E j \in 1 .. i - 1 : initialized[j] = d
    BY DEF IInv, ListInv
  <2>3. ASSUME NEW i \in 1 .. Len(initialized)
        PROVE  /\ \A j \in 1 .. Len(initialized) : i # j => initialized'[i] # initialized'[j]
               /\ \A d \in dependencies'[initialized'[i]] :
                    \E j \in 1 .. i - 1 : initialized'[j] = d
    BY <2>1, <2>2
  <2> QED BY <2>1, <2>3 DEF ListInv
<1>3. CASE InitializerReturns
  <2> DEFINE n == Len(initialized)
  <2>1. /\ initialized' = Append(initialized, current)
        /\ dependencies' = dependencies
    BY <1>3 DEF InitializerReturns, registryVars
  <2>2. initialized \in Seq(components) /\ n \in Nat
    BY DEF IInv, TypeOK
  <2>3. /\ Len(initialized') = n + 1 /\ initialized'[n + 1] = current
        /\ \A i \in 1 .. n : initialized'[i] = initialized[i]
    BY <2>1, <2>2
  <2>4. /\ \A i \in 1 .. n : initialized[i] # current
        /\ \A d \in dependencies[current] : \E i \in 1 .. n : initialized[i] = d
    BY <1>3, NextInPlan DEF InitializerReturns
  <2>5. ListInv
    BY DEF IInv
  <2>6. ASSUME NEW i \in 1 .. n + 1
        PROVE  /\ \A j \in 1 .. n + 1 : i # j => initialized'[i] # initialized'[j]
               /\ \A d \in dependencies[initialized'[i]] :
                    \E j \in 1 .. i - 1 : initialized'[j] = d
    <3>1. CASE i = n + 1
      BY <3>1, <2>2, <2>3, <2>4
    <3>2. CASE i \in 1 .. n
      <4>1. /\ \A j \in 1 .. n : i # j => initialized[i] # initialized[j]
            /\ \A d \in dependencies[initialized[i]] :
                 \E j \in 1 .. i - 1 : initialized[j] = d
        BY <3>2, <2>5 DEF ListInv
      <4>2. \A j \in 1 .. i - 1 : initialized'[j] = initialized[j]
        BY <3>2, <2>2, <2>3
      <4> QED BY <4>1, <4>2, <3>2, <2>2, <2>3, <2>4
    <3> QED BY <3>1, <3>2, <2>2
  <2> QED BY <2>1, <2>3, <2>6 DEF ListInv
<1>4. CASE Register
  BY <1>1, <1>4, RegisterQuiet
<1>5. CASE StartRefused \/ RollbackFinished \/ StopFinished
  BY <1>1, <1>5 DEF StartRefused, RollbackFinished, StopFinished
<1>6. ASSUME NEW s \in StartOrders, StartRequested(s)
      PROVE  ListInv'
  BY <1>1, <1>6 DEF StartRequested
<1>7. CASE \/ InitializerCalled \/ InitializerRaises \/ Interrupted
           \/ StartFinished \/ \E r \in BOOLEAN : StopRequested(r)
  BY <1>2, <1>7 DEF InitializerCalled, InitializerRaises, Interrupted,
     StartFinished, StopRequested, registryVars
<1>8. CASE NoHandler \/ ShutdownCalled \/ ShutdownReturns \/ ShutdownRaises
  BY <1>2, <1>8 DEF NoHandler, ShutdownCalled, ShutdownReturns, ShutdownRaises,
     registryVars
<1>9. CASE UNCHANGED vars
  BY <1>2, <1>9 DEF vars
<1> QED BY <1>3, <1>4, <1>5, <1>6, <1>7, <1>8, <1>9 DEF Next, Advance

\* Every step of start() stays within its start order.
LEMMA PlanStep == IInv /\ [Next]_vars => PlanInv'
<1> SUFFICES ASSUME IInv, [Next]_vars, call' = "start"
             PROVE  \E s : StartPlan(s)'
  BY DEF PlanInv
<1>a. TypeOK /\ CallInv /\ Len(initialized) \in Nat /\ Len(plan) \in Nat
  BY DEF IInv, TypeOK
<1>1. ASSUME NEW s \in StartOrders, StartRequested(s)
      PROVE  StartPlan(s)'
  <2>1. /\ initialized' = <<>> /\ plan' = s /\ current' = NoComponent
    BY <1>1, <1>a DEF StartRequested, MayStart, CallInv
  <2>2. StartOrders' = StartOrders
    BY <1>1, OrdersKept DEF StartRequested, registryVars
  <2>3. Len(s) \in Nat
    BY <1>a, OrderFacts
  <2> QED BY <2>1, <2>2, <2>3 DEF StartPlan
<1>2. CASE InitializerCalled
  <2>1. PICK s : StartPlan(s)
    BY <1>2 DEF InitializerCalled, IInv, PlanInv
  <2>2. StartOrders' = StartOrders
    BY <1>2, OrdersKept DEF InitializerCalled, registryVars
  <2>3. /\ plan \in Seq(components) /\ plan # <<>> /\ Head(plan) # NoComponent
        /\ current = NoComponent /\ initialized' = initialized
        /\ current' = Head(plan) /\ plan' = Tail(plan)
    BY <1>2, ComponentsAssumption DEF InitializerCalled, IInv, TypeOK
  <2>4. /\ Len(plan') = Len(plan) - 1 /\ current' = plan[1]
        /\ \A i \in 1 .. Len(plan') : plan'[i] = plan[i + 1]
    BY <2>3
  <2>5. /\ s \in StartOrders /\ Len(s) = Len(initialized) + Len(plan)
        /\ \A i \in 1 .. Len(initialized) : initialized[i] = s[i]
        /\ \A i \in 1 .. Len(plan) : plan[i] = s[Len(initialized) + i]
    BY <2>1, <2>3 DEF StartPlan
  <2>6. 1 \in 1 .. Len(plan) /\ \A i \in 1 .. Len(plan') : i + 1 \in 1 .. Len(plan)
    BY <2>3, <2>4, <1>a
  <2>7. current' = s[Len(initialized) + 1]
    BY <2>4, <2>5, <2>6
  <2>8. \A i \in 1 .. Len(plan') : plan'[i] = s[(Len(initialized) + 1) + i]
    <3> TAKE i \in 1 .. Len(plan')
    <3>1. plan'[i] = s[Len(initialized) + (i + 1)]
      BY <2>4, <2>5, <2>6
    <3>2. Len(initialized) + (i + 1) = (Len(initialized) + 1) + i
      BY <1>a, <2>4
    <3> QED BY <3>1, <3>2
  <2>9. Len(s) = (Len(initialized) + 1) + Len(plan')
    BY <1>a, <2>4, <2>5
  <2>10. StartPlan(s)'
    BY <2>2, <2>3, <2>5, <2>7, <2>8, <2>9 DEF StartPlan
  <2> QED BY <2>10
<1>3. CASE InitializerReturns
  <2>1. PICK s : StartPlan(s)
    BY <1>3 DEF InitializerReturns, IInv, PlanInv
  <2>2. StartOrders' = StartOrders
    BY <1>3, OrdersKept DEF InitializerReturns, registryVars
  <2>3. /\ current # NoComponent /\ current' = NoComponent /\ plan' = plan
        /\ initialized' = Append(initialized, current)
        /\ initialized \in Seq(components)
    BY <1>3 DEF InitializerReturns, IInv, TypeOK
  <2>4. /\ Len(initialized') = Len(initialized) + 1
        /\ initialized'[Len(initialized) + 1] = current
        /\ \A i \in 1 .. Len(initialized) : initialized'[i] = initialized[i]
    BY <2>3
  <2>5. /\ s \in StartOrders /\ Len(s) = Len(initialized) + 1 + Len(plan)
        /\ \A i \in 1 .. Len(initialized) : initialized[i] = s[i]
        /\ current = s[Len(initialized) + 1]
        /\ \A i \in 1 .. Len(plan) : plan[i] = s[Len(initialized) + 1 + i]
    BY <2>1, <2>3 DEF StartPlan
  <2>6. \A i \in 1 .. Len(initialized') : initialized'[i] = s[i]
    BY <1>a, <2>4, <2>5
  <2>7. StartPlan(s)'
    BY <2>2, <2>3, <2>4, <2>5, <2>6 DEF StartPlan
  <2> QED BY <2>7
<1>4. CASE UNCHANGED vars
  <2>1. PICK s : StartPlan(s)
    BY <1>4 DEF vars, IInv, PlanInv
  <2>2. StartOrders' = StartOrders
    BY <1>4, OrdersKept DEF vars
  <2> QED BY <1>4, <2>1, <2>2 DEF vars, StartPlan
<1>5. CASE Register
  BY <1>5, RegisterQuiet DEF callVars
<1>6. CASE \/ StartRefused \/ InitializerRaises \/ Interrupted \/ StartFinished
           \/ \E r \in BOOLEAN : StopRequested(r)
  BY <1>6 DEF StartRefused, InitializerRaises, Interrupted, StartFinished,
     StopRequested
<1>7. CASE NoHandler \/ ShutdownCalled \/ ShutdownReturns \/ ShutdownRaises
  BY <1>7 DEF NoHandler, ShutdownCalled, ShutdownReturns, ShutdownRaises,
     ShuttingDown
<1>8. CASE RollbackFinished
  BY <1>8 DEF RollbackFinished
<1>9. CASE StopFinished
  <2>1. call' \in {"idle", "restart"}
    BY <1>9 DEF StopFinished
  <2> QED BY <2>1
<1> QED BY <1>1, <1>2, <1>3, <1>4, <1>5, <1>6, <1>7, <1>8, <1>9
       DEF Next, Advance

-----------------------------------------------------------------------------
(* What is up, and what is shown of it.                                    *)

\* Every step keeps UpInv: what is up is the beginning of the list.
LEMMA UpStep == IInv /\ [Next]_vars => UpInv'
<1> SUFFICES ASSUME IInv, [Next]_vars PROVE UpInv'
  OBVIOUS
<1> DEFINE n == Len(initialized)
<1>a. /\ TypeOK /\ CallInv /\ n \in Nat /\ initialized \in Seq(components)
      /\ live \ half = UpTo(HowFar)
  BY DEF IInv, TypeOK, UpInv
<1>b. UpTo(0) = {}
  BY DEF UpTo
<1>1. ASSUME initialized = <<>>, initialized' = <<>>, ~ShuttingDown,
             ~ShuttingDown', UNCHANGED <<live, half>>
      PROVE  UpInv'
  BY <1>1, <1>a DEF UpInv, UpTo, HowFar
<1>2. ASSUME UNCHANGED <<initialized, live, half>>, HowFar' = HowFar
      PROVE  UpInv'
  BY <1>2, <1>a DEF UpInv, UpTo
<1>3. ASSUME ShuttingDown, left > 0, live' = live \ {NextDown},
             left' = left - 1, UNCHANGED <<call, initialized, half>>
      PROVE  UpInv'
  <2>1. /\ UpTo(left) = UpTo(left - 1) \cup {NextDown}
        /\ NextDown \notin UpTo(left - 1) /\ HowFar = left
    BY <1>3, NextDownUp DEF HowFar
  <2>2. live' \ half' = UpTo(left - 1)
    BY <1>3, <1>a, <2>1
  <2>3. HowFar' = left - 1
    BY <1>3 DEF HowFar, ShuttingDown
  <2> QED BY <1>3, <2>2, <2>3 DEF UpInv, UpTo
<1>4. ASSUME ShuttingDown, ~ShuttingDown', left = 0, initialized' = <<>>,
             UNCHANGED <<live, half>>
      PROVE  UpInv'
  BY <1>4, <1>a, <1>b DEF UpInv, UpTo, HowFar
<1>5. CASE Register
  BY <1>1, <1>5, RegisterQuiet DEF ShuttingDown, callVars
<1>6. CASE StartRefused
  BY <1>1, <1>6, <1>a DEF StartRefused, MayStart, CallInv, ShuttingDown
<1>7. ASSUME NEW s \in StartOrders, StartRequested(s)
      PROVE  UpInv'
  BY <1>1, <1>7, <1>a DEF StartRequested, MayStart, CallInv, ShuttingDown
<1>8. CASE InitializerCalled \/ StartFinished
  BY <1>2, <1>8 DEF InitializerCalled, StartFinished, HowFar, ShuttingDown
<1>9. CASE InitializerReturns
  <2>1. /\ initialized' = Append(initialized, current)
        /\ live' = live \cup {current} /\ half' = half \ {current}
        /\ HowFar = n /\ HowFar' = Len(initialized')
    BY <1>9 DEF InitializerReturns, HowFar, ShuttingDown
  <2>2. /\ Len(initialized') = n + 1 /\ initialized'[n + 1] = current
        /\ \A i \in 1 .. n : initialized'[i] = initialized[i]
    BY <2>1, <1>a
  <2>3. 1 .. n + 1 = (1 .. n) \cup {n + 1}
    BY <1>a
  <2>4. UpTo(HowFar)' = UpTo(n) \cup {current}
    BY <2>1, <2>2, <2>3 DEF UpTo
  <2>5. live' \ half' = (live \ half) \cup {current}
    BY <2>1
  <2> QED BY <2>1, <2>4, <2>5, <1>a DEF UpInv
<1>10. CASE InitializerRaises
  <2>1. UNCHANGED <<initialized, live, half>> /\ HowFar' = HowFar
    BY <1>10 DEF InitializerRaises, HowFar, ShuttingDown
  <2> QED BY <1>2, <2>1
<1>11. CASE Interrupted
  <2>1. /\ UNCHANGED initialized /\ HowFar = n /\ HowFar' = n
        /\ live' \ half' \in {live \ half, (live \ half) \ {current}}
    BY <1>11 DEF Interrupted, HowFar, ShuttingDown
  <2>2. current \notin UpTo(n)
    BY <1>11, NextInPlan DEF Interrupted, UpTo
  <2> QED BY <2>1, <2>2, <1>a DEF UpInv, UpTo
<1>12. ASSUME NEW r \in BOOLEAN, StopRequested(r)
       PROVE  UpInv'
  <2>1. UNCHANGED <<initialized, live, half>> /\ HowFar' = HowFar
    BY <1>12 DEF StopRequested, HowFar, ShuttingDown
  <2> QED BY <1>2, <2>1
<1>13. CASE NoHandler
  BY <1>3, <1>13 DEF NoHandler
<1>14. CASE ShutdownCalled
  BY <1>2, <1>14 DEF ShutdownCalled, HowFar, ShuttingDown
<1>15. CASE ShutdownReturns \/ ShutdownRaises
  BY <1>3, <1>15, <1>a DEF ShutdownReturns, ShutdownRaises, CallInv
<1>16. CASE RollbackFinished
  BY <1>4, <1>16 DEF RollbackFinished, ShuttingDown
<1>17. CASE StopFinished
  <2>1. call' \in {"idle", "restart"}
    BY <1>17 DEF StopFinished
  <2> QED BY <1>4, <1>17, <2>1 DEF StopFinished, ShuttingDown
<1>18. CASE UNCHANGED vars
  BY <1>2, <1>18 DEF vars, HowFar, ShuttingDown
<1> QED BY <1>5, <1>6, <1>7, <1>8, <1>9, <1>10, <1>11, <1>12, <1>13, <1>14,
       <1>15, <1>16, <1>17, <1>18 DEF Next, Advance

\* Every step keeps ShownInv: a component is shown running only while it is up.
LEMMA ShownStep == IInv /\ [Next]_vars => ShownInv'
<1> SUFFICES ASSUME IInv, [Next]_vars PROVE ShownInv'
  OBVIOUS
<1> DEFINE n == Len(initialized)
<1>a. /\ TypeOK /\ CallInv /\ n \in Nat /\ initialized \in Seq(components)
      /\ components \subseteq Components /\ ShownInv
      /\ compState \in [Components -> ComponentStates]
  BY DEF IInv, TypeOK
<1>b. UpTo(0) = {}
  BY DEF UpTo
<1>1. ASSUME ~ShuttingDown, initialized = <<>>
      PROVE  \A c \in components : compState[c] \notin {"running", "stopping"}
  BY <1>1, <1>a, <1>b DEF ShownInv, HowFar
<1>2. ASSUME NEW S, ShuttingDown, left > 0, ShuttingDown', state' # "running",
             left' \in {left, left - 1}, UNCHANGED <<components, initialized>>,
             compState' = [compState EXCEPT ![NextDown] = S],
             S \in {"running", "stopping"} => left' = left
      PROVE  ShownInv'
  <2>1. /\ UpTo(left) = UpTo(left - 1) \cup {NextDown}
        /\ NextDown \in Components /\ HowFar = left /\ HowFar' = left'
    BY <1>2, <1>a, NextDownUp DEF HowFar
  <2>2. ASSUME NEW c \in components, compState'[c] \in {"running", "stopping"}
        PROVE  c \in UpTo(left')
    <3>1. CASE c = NextDown
      BY <1>2, <1>a, <2>1, <2>2, <3>1
    <3>2. CASE c # NextDown
      <4>1. compState'[c] = compState[c]
        BY <1>2, <1>a, <3>2
      <4>2. c \in UpTo(left)
        BY <1>a, <2>1, <2>2, <4>1 DEF ShownInv
      <4> QED BY <1>2, <2>1, <3>2, <4>2
    <3> QED BY <3>1, <3>2
  <2>3. UpTo(HowFar)' = UpTo(left')
    BY <1>2, <2>1 DEF UpTo
  <2>4. call' # "start"
    BY <1>2 DEF ShuttingDown
  <2> QED BY <1>2, <2>2, <2>3, <2>4 DEF ShownInv
<1>3. ASSUME UNCHANGED <<components, initialized, compState>>, HowFar' = HowFar,
             call' # "start", state' # "running"
      PROVE  ShownInv'
  BY <1>3, <1>a DEF ShownInv, UpTo
<1>4. CASE Register
  <2>1. /\ call' = "idle" /\ state' = "stopped"
        /\ \A c \in components : compState[c] \notin {"running", "stopping"}
    BY <1>1, <1>4, RegisterQuiet DEF ShuttingDown, callVars
  <2>2. \A c \in components' : \/ compState'[c] = "registered"
                               \/ c \in components /\ compState'[c] = compState[c]
    BY <1>4, <1>a DEF Register, RegisterComponent, SetDependencies, SetEnabled,
       ApplyPolicy, ClearComponents
  <2> QED BY <2>1, <2>2 DEF ShownInv
<1>5. CASE StartRefused
  <2>1. /\ ~ShuttingDown /\ initialized = <<>> /\ call' = "idle"
        /\ state' = "failed" /\ UNCHANGED <<components, compState>>
    BY <1>5, <1>a DEF StartRefused, MayStart, CallInv, ShuttingDown, registryVars
  <2> QED BY <1>1, <2>1 DEF ShownInv
<1>6. ASSUME NEW s \in StartOrders, StartRequested(s)
      PROVE  ShownInv'
  <2>1. /\ ~ShuttingDown /\ initialized = <<>> /\ initialized' = <<>>
        /\ state' = "initializing" /\ UNCHANGED <<components, enabled>>
    BY <1>6, <1>a DEF StartRequested, MayStart, CallInv, ShuttingDown,
       registryVars
  <2>2. \A c \in components :
          compState'[c] = IF c \in components \ enabled THEN "disabled"
                                                        ELSE compState[c]
    BY <1>6, <1>a DEF StartRequested
  <2> QED BY <1>1, <2>1, <2>2 DEF ShownInv
<1>7. CASE InitializerCalled
  <2>1. /\ compState' = [compState EXCEPT ![current'] = "starting"]
        /\ current' # NoComponent /\ call = "start" /\ call' = "start"
        /\ state' = "initializing" /\ HowFar' = HowFar
        /\ UNCHANGED <<components, enabled, dependencies, initialized>>
    <3>1. Head(plan) \in components /\ current' = Head(plan)
      BY <1>7, <1>a DEF InitializerCalled, TypeOK
    <3>2. Head(plan) # NoComponent
      BY <1>a, <3>1, ComponentsAssumption
    <3> QED BY <1>7, <1>a, <3>1, <3>2 DEF InitializerCalled, CallInv, HowFar,
            ShuttingDown, registryVars
  <2>2. /\ \A i \in 1 .. n : initialized[i] # current'
        /\ current' \in enabled
    <3>1. TypeOK' /\ PlanInv'
      BY TypeStep, PlanStep
    <3>2. PICK s : StartPlan(s)'
      BY <2>1, <3>1 DEF PlanInv
    <3>3. /\ s \in StartOrders' /\ Len(s) = n + 1 + Len(plan')
          /\ \A i \in 1 .. n : initialized[i] = s[i]
          /\ current' = s[n + 1]
      BY <2>1, <3>2 DEF StartPlan
    <3>4. s \in StartOrders
      BY <2>1, <3>3, OrdersKept
    <3>5. Len(plan') \in Nat
      BY <3>1 DEF TypeOK
    <3>6. n + 1 \in 1 .. Len(s) /\ \A i \in 1 .. n : i \in 1 .. Len(s) /\ i # n + 1
      BY <1>a, <3>3, <3>5
    <3>7. \A i \in 1 .. n : s[i] # s[n + 1]
      BY <1>a, <3>4, <3>6, OrderFacts
    <3>8. s[n + 1] \in enabled
      <4>1. s \in [1 .. Cardinality(enabled) -> enabled]
        BY <3>4 DEF StartOrders, OrdersOf, SetToSeqs
      <4>2. IsFiniteSet(enabled) /\ Cardinality(enabled) \in Nat
        BY <1>a, ComponentsAssumption, FS_Subset, FS_CardinalityType DEF TypeOK
      <4>3. Len(s) = Cardinality(enabled)
        BY <4>1, <4>2
      <4> QED BY <3>6, <4>1, <4>3
    <3> QED BY <3>3, <3>7, <3>8
  <2>3. \A c \in components : c # current' => compState'[c] = compState[c]
    BY <1>a, <2>1
  <2>4. compState'[current'] = "starting"
    BY <1>a, <2>1, <2>2 DEF TypeOK
  <2>5. \A i \in 1 .. n : initialized[i] \in components
    BY <1>a
  <2> QED BY <1>a, <2>1, <2>2, <2>3, <2>4, <2>5 DEF ShownInv, UpTo
<1>8. CASE InitializerReturns
  <2>1. /\ initialized' = Append(initialized, current)
        /\ compState' = [compState EXCEPT ![current] = "running"]
        /\ call = "start" /\ call' = "start" /\ state' = "initializing"
        /\ current \in components
        /\ HowFar = n /\ HowFar' = Len(initialized')
        /\ UNCHANGED <<components, enabled>>
    BY <1>8, <1>a DEF InitializerReturns, CallInv, HowFar, ShuttingDown,
       registryVars, TypeOK
  <2>2. /\ Len(initialized') = n + 1 /\ initialized'[n + 1] = current
        /\ \A i \in 1 .. n : initialized'[i] = initialized[i]
        /\ \A i \in 1 .. n : initialized[i] \in components
    BY <1>a, <2>1
  <2>3. /\ compState'[current] = "running"
        /\ \A c \in components : c # current => compState'[c] = compState[c]
    BY <1>a, <2>1
  <2>4. current \notin components \ enabled
    <3>1. PICK s : StartPlan(s)
      BY <2>1 DEF IInv, PlanInv
    <3>2. current = s[n + 1] /\ Len(s) = n + 1 + Len(plan) /\ s \in StartOrders
      BY <1>8, <3>1 DEF InitializerReturns, StartPlan
    <3>3. s \in [1 .. Cardinality(enabled) -> enabled]
      BY <3>2 DEF StartOrders, OrdersOf, SetToSeqs
    <3>4. IsFiniteSet(enabled) /\ Cardinality(enabled) \in Nat
      BY <1>a, ComponentsAssumption, FS_Subset, FS_CardinalityType DEF TypeOK
    <3>5. Len(s) = Cardinality(enabled) /\ Len(plan) \in Nat
      BY <1>a, <3>3, <3>4 DEF TypeOK
    <3>6. n + 1 \in 1 .. Cardinality(enabled)
      BY <1>a, <3>2, <3>4, <3>5
    <3> QED BY <3>2, <3>3, <3>6
  <2>5. UpTo(HowFar)' = UpTo(n) \cup {current}
    <3>1. 1 .. n + 1 = (1 .. n) \cup {n + 1}
      BY <1>a
    <3> QED BY <2>1, <2>2, <3>1 DEF UpTo
  <2>6. \A i \in 1 .. n + 1 : i = n + 1 \/ i \in 1 .. n
    BY <1>a
  <2> QED BY <1>a, <2>1, <2>2, <2>3, <2>4, <2>5, <2>6 DEF ShownInv
<1>9. CASE InitializerRaises
  <2>1. /\ compState' = [compState EXCEPT ![current] = "failed"]
        /\ call' = "rollback" /\ state' = "failed"
        /\ current \in components /\ HowFar' = HowFar
        /\ UNCHANGED <<components, initialized>>
    BY <1>9, <1>a DEF InitializerRaises, HowFar, ShuttingDown, registryVars,
       TypeOK
  <2>2. \A c \in components : \/ compState'[c] = "failed"
                              \/ compState'[c] = compState[c]
    BY <1>a, <2>1
  <2> QED BY <1>a, <2>1, <2>2 DEF ShownInv, UpTo
<1>10. CASE Interrupted
  <2>1. /\ call' = "idle" /\ state' = "initializing" /\ HowFar' = HowFar
        /\ UNCHANGED <<components, initialized, compState>>
    BY <1>10, <1>a DEF Interrupted, CallInv, HowFar, ShuttingDown, registryVars
  <2> QED BY <1>3, <2>1
<1>11. CASE StartFinished
  <2>1. /\ call = "start" /\ call' = "idle" /\ HowFar' = HowFar
        /\ UNCHANGED <<components, enabled, initialized, compState>>
    BY <1>11 DEF StartFinished, HowFar, ShuttingDown, registryVars
  <2>2. \A c \in enabled : \E i \in 1 .. n : initialized[i] = c
    <3>1. PICK s : StartPlan(s)
      BY <2>1 DEF IInv, PlanInv
    <3>2. /\ s \in StartOrders /\ Len(s) = n
          /\ \A i \in 1 .. n : initialized[i] = s[i]
      BY <1>11, <1>a, <3>1 DEF StartFinished, StartPlan
    <3> QED BY <1>a, <3>2, OrderFacts
  <2>3. \A c \in enabled : compState[c] = "running"
    BY <1>a, <2>1, <2>2 DEF ShownInv
  <2>4. \A c \in components \ enabled : compState[c] = "disabled"
    BY <1>a, <2>1 DEF ShownInv
  <2>5. UpTo(HowFar)' = UpTo(HowFar)
    BY <2>1 DEF UpTo
  <2> QED BY <1>a, <2>1, <2>3, <2>4, <2>5 DEF ShownInv
<1>12. ASSUME NEW r \in BOOLEAN, StopRequested(r)
       PROVE  ShownInv'
  <2>1. /\ call' = "stop" /\ state' = "shutting_down" /\ HowFar' = HowFar
        /\ UNCHANGED <<components, initialized, compState>>
    BY <1>12 DEF StopRequested, HowFar, ShuttingDown, registryVars
  <2>2. call' # "start" /\ state' # "running"
    BY <2>1
  <2> QED BY <1>3, <2>1, <2>2
<1>c. ShuttingDown => state # "running"
  <2>1. /\ call = "rollback" => state = "failed"
        /\ call = "stop" => state = "shutting_down"
    BY <1>a DEF CallInv
  <2> QED BY <2>1 DEF ShuttingDown
<1>13. CASE NoHandler
  <2>1. /\ compState' = [compState EXCEPT ![NextDown] = "stopped"]
        /\ ShuttingDown /\ ShuttingDown' /\ left > 0 /\ left' = left - 1
        /\ state' # "running" /\ UNCHANGED <<components, initialized>>
    BY <1>13, <1>c DEF NoHandler, registryVars, ShuttingDown
  <2> QED BY <1>2, <2>1
<1>14. CASE ShutdownCalled
  <2>1. /\ compState' = [compState EXCEPT ![NextDown] = "stopping"]
        /\ ShuttingDown /\ ShuttingDown' /\ left > 0 /\ left' = left
        /\ state' # "running" /\ UNCHANGED <<components, initialized>>
    BY <1>14, <1>c DEF ShutdownCalled, registryVars, ShuttingDown
  <2> QED BY <1>2, <2>1
<1>15. CASE ShutdownReturns \/ ShutdownRaises
  <2>1. left > 0 /\ current = NextDown
    BY <1>15, <1>a DEF ShutdownReturns, ShutdownRaises, CallInv
  <2> QED BY <1>2, <1>15, <1>c, <2>1 DEF ShutdownReturns, ShutdownRaises,
          registryVars, ShuttingDown
<1>16. ASSUME ShuttingDown, left = 0, call' \in {"idle", "restart"},
              state' # "running", UNCHANGED <<components, compState>>
       PROVE  ShownInv'
  <2>1. \A c \in components : compState[c] \notin {"running", "stopping"}
    BY <1>16, <1>a, <1>b DEF ShownInv, HowFar
  <2>2. call' # "start"
    BY <1>16
  <2> QED BY <1>16, <2>1, <2>2 DEF ShownInv
<1>17. CASE RollbackFinished
  BY <1>16, <1>17, <1>c DEF RollbackFinished, ShuttingDown, registryVars
<1>18. CASE StopFinished
  <2>1. call' \in {"idle", "restart"} /\ state' = "stopped"
    BY <1>18 DEF StopFinished
  <2> QED BY <1>16, <1>18, <2>1 DEF StopFinished, ShuttingDown, registryVars
<1>19. CASE UNCHANGED vars
  <2>1. HowFar' = HowFar /\ ShownInv
    BY <1>19, <1>a DEF vars, HowFar, ShuttingDown
  <2> QED BY <1>19, <2>1 DEF vars, ShownInv, UpTo
<1> QED BY <1>4, <1>5, <1>6, <1>7, <1>8, <1>9, <1>10, <1>11, <1>12, <1>13,
       <1>14, <1>15, <1>17, <1>18, <1>19 DEF Next, Advance

-----------------------------------------------------------------------------
(* The theorems.                                                           *)

LEMMA Invariance == Spec => []IInv
<1>1. IInv /\ [Next]_vars => IInv'
  BY TypeStep, CallStep, ListStep, PlanStep, UpStep, ShownStep DEF IInv
<1> QED BY InvInit, <1>1, PTL DEF Spec

\* The variables of the Runtime have their types: what is initialized, planned,
\* enabled or has a handler is registered.
THEOREM TypeCorrect == Spec => []TypeOK
<1>1. IInv => TypeOK
  BY DEF IInv
<1> QED BY Invariance, <1>1, PTL

\* The dependencies of every component that is up, being initialized or being
\* shut down hold what they acquired: start() goes by dependency order, and the
\* shutdown by the reverse of what was initialized.
THEOREM DependenciesUpHolds == Spec => []DependenciesUp
<1>1. ASSUME IInv PROVE DependenciesUp
  <2> DEFINE n == Len(initialized)
  <2>a. /\ TypeOK /\ ListInv /\ live \ half = UpTo(HowFar) /\ n \in Nat
        /\ initialized \in Seq(components)
        /\ HowFar \in 0 .. n
    BY <1>1 DEF IInv, TypeOK, UpInv, HowFar
  <2>1. ASSUME NEW c \in live \ half PROVE dependencies[c] \subseteq live
    <3>1. PICK i \in 1 .. HowFar : initialized[i] = c
      BY <2>a DEF UpTo
    <3>2. \A d \in dependencies[c] : \E j \in 1 .. i - 1 : initialized[j] = d
      BY <2>a, <3>1 DEF ListInv
    <3>3. \A j \in 1 .. i - 1 : j \in 1 .. HowFar
      BY <2>a, <3>1
    <3>4. \A d \in dependencies[c] : d \in UpTo(HowFar)
      BY <3>2, <3>3 DEF UpTo
    <3> QED BY <2>a, <3>4
  <2>2. ASSUME current # NoComponent PROVE dependencies[current] \subseteq live
    <3>1. CASE ShuttingDown
      <4>1. left > 0 /\ current = NextDown
        BY <1>1, <2>2, <3>1 DEF IInv, CallInv
      <4> QED BY <1>1, <2>1, <3>1, <4>1, NextDownUp
    <3>2. CASE ~ShuttingDown
      <4>1. call = "start" /\ HowFar = n
        BY <1>1, <2>2, <3>2, <2>a DEF IInv, CallInv, HowFar, ShuttingDown, TypeOK
      <4>2. \A d \in dependencies[current] : \E i \in 1 .. n : initialized[i] = d
        BY <1>1, <2>2, <4>1, NextInPlan
      <4> QED BY <2>a, <4>1, <4>2 DEF UpTo
    <3> QED BY <3>1, <3>2
  <2> QED BY <2>1, <2>2 DEF DependenciesUp
<1> QED BY Invariance, <1>1, PTL

\* A shutdown that has come to its end, of stop() or of a start that failed, has
\* left nothing up that was initialized.
THEOREM NothingLeftUpHolds == Spec => []NothingLeftUp
<1>1. ASSUME IInv, Quiet, state \in {"stopped", "failed"}
      PROVE  live \subseteq half
  <2>1. initialized = <<>> /\ HowFar = 0
    BY <1>1 DEF IInv, CallInv, Quiet, HowFar, ShuttingDown
  <2> QED BY <1>1, <2>1 DEF IInv, UpInv, UpTo
<1>2. IInv => NothingLeftUp
  BY <1>1 DEF NothingLeftUp
<1> QED BY Invariance, <1>2, PTL

\* What the Runtime shows of its components agrees with its own state.
THEOREM StatesAgreeHolds == Spec => []StatesAgree
<1>1. ASSUME IInv, Quiet, state \in {"stopped", "failed"}
      PROVE  \A c \in components : compState[c] \notin {"running", "stopping"}
  <2>1. UpTo(HowFar) = {}
    BY <1>1 DEF IInv, CallInv, Quiet, HowFar, ShuttingDown, UpTo
  <2> QED BY <1>1, <2>1 DEF IInv, ShownInv
<1>2. IInv => StatesAgree
  BY <1>1 DEF StatesAgree, IInv, ShownInv
<1> QED BY Invariance, <1>2, PTL

\* What is up, and what the Runtime shows of it, is right at every moment of a
\* start, a stop and a rollback.
THEOREM UpAsShownHolds == Spec => []UpAsShown
<1>1. TypeOK /\ DependenciesUp /\ NothingLeftUp /\ StatesAgree => UpAsShown
  BY DEF UpAsShown
<1> QED
  BY <1>1, TypeCorrect, DependenciesUpHolds, NothingLeftUpHolds, StatesAgreeHolds,
     PTL

\* A shutdown handler is called only for a component that is up.
THEOREM ShutDownOnceHolds == Spec => ShutDownOnce
<1>1. ASSUME IInv, [Next]_vars, NEW c \in Components, ShuttingDown,
             current = NoComponent, current' = c
      PROVE  c \in live \ half
  <2>1. c # NoComponent /\ call \notin {"idle", "start", "restart"}
    BY <1>1, ComponentsAssumption DEF ShuttingDown
  <2>2. CASE ShutdownCalled
    BY <1>1, <2>2, NextDownUp DEF ShutdownCalled
  <2>3. CASE UNCHANGED current
    BY <1>1, <2>1, <2>3
  <2>4. CASE \/ Register \/ StartRefused
             \/ \E s \in StartOrders : StartRequested(s)
             \/ \E r \in BOOLEAN : StopRequested(r)
             \/ Interrupted \/ InitializerCalled
             \/ InitializerReturns \/ InitializerRaises \/ StartFinished
    BY <2>1, <2>4, <1>1, RegisterQuiet DEF StartRefused, StartRequested,
       MayStart, StopRequested, Interrupted, InitializerCalled,
       InitializerReturns, InitializerRaises, StartFinished
  <2>5. CASE NoHandler \/ ShutdownReturns \/ ShutdownRaises
    BY <1>1, <2>1, <2>5 DEF NoHandler, ShutdownReturns, ShutdownRaises
  <2>6. CASE RollbackFinished \/ StopFinished
    BY <2>3, <2>6 DEF RollbackFinished, StopFinished
  <2> QED BY <1>1, <2>2, <2>3, <2>4, <2>5, <2>6 DEF Next, Advance, vars
<1>2. IInv /\ [Next]_vars =>
        [\A c \in Components :
           ShuttingDown /\ current = NoComponent /\ current' = c
             => c \in live \ half]_vars
  BY <1>1
<1> QED BY Invariance, <1>2, PTL DEF Spec, ShutDownOnce

-----------------------------------------------------------------------------
(* The component policy.                                                   *)

\* A set of natural numbers has a least member.
LEMMA LeastNatural ==
  ASSUME NEW T \in SUBSET Nat, T # {}
  PROVE  \E n \in T : \A m \in T : ~(m < n)
<1>1. PICK n \in T : \A m \in T : ~(<<m, n>> \in OpToRel(<, Nat))
  BY NatLessThanWellFounded, WFMin
<1>2. \A m \in T : m < n => <<m, n>> \in OpToRel(<, Nat)
  BY DEF OpToRel
<1> QED BY <1>1, <1>2

\* An order of A is one that has every member of A.
OrderOf(s, A) ==
  /\ IsFiniteSet(A) /\ s \in [1 .. Cardinality(A) -> A]
  /\ \A i, j \in 1 .. Cardinality(A) : i # j => s[i] # s[j]
  /\ \A c \in A : \E i \in 1 .. Cardinality(A) : s[i] = c
  /\ \A i \in 1 .. Cardinality(A) : \A d \in dependencies[s[i]] :
       \E j \in 1 .. i - 1 : s[j] = d

\* A component may be put behind all it depends on.
LEMMA AppendToOrder ==
  ASSUME NEW A, NEW s, OrderOf(s, A), NEW c, c \notin A, dependencies[c] \subseteq A
  PROVE  \E t : OrderOf(t, A \cup {c})
<1> DEFINE n == Cardinality(A)
           t == [i \in 1 .. n + 1 |-> IF i = n + 1 THEN c ELSE s[i]]
<1>1. /\ n \in Nat /\ IsFiniteSet(A \cup {c}) /\ Cardinality(A \cup {c}) = n + 1
  BY FS_AddElement, FS_CardinalityType DEF OrderOf
<1>2. /\ s \in [1 .. n -> A] /\ \A i, j \in 1 .. n : i # j => s[i] # s[j]
      /\ \A d \in A : \E i \in 1 .. n : s[i] = d
      /\ \A i \in 1 .. n : \A d \in dependencies[s[i]] :
           \E j \in 1 .. i - 1 : s[j] = d
  BY DEF OrderOf
<1> HIDE DEF n
<1>3. /\ t \in [1 .. n + 1 -> A \cup {c}] /\ t[n + 1] = c
      /\ \A i \in 1 .. n : t[i] = s[i]
  BY <1>1, <1>2
<1>4. \A i, j \in 1 .. n + 1 : i # j => t[i] # t[j]
  BY <1>1, <1>2
<1>5. \A d \in A \cup {c} : \E i \in 1 .. n + 1 : t[i] = d
  BY <1>1, <1>2, <1>3
<1>6. ASSUME NEW i \in 1 .. n + 1, NEW d \in dependencies[t[i]]
      PROVE  \E j \in 1 .. i - 1 : t[j] = d
  <2>1. CASE i = n + 1
    <3>1. PICK j \in 1 .. n : s[j] = d
      BY <2>1, <1>2, <1>3, <1>6
    <3>2. j \in 1 .. i - 1 /\ t[j] = d
      BY <3>1, <2>1, <1>1, <1>3
    <3> QED BY <3>2
  <2>2. CASE i # n + 1
    <3>1. i \in 1 .. n /\ d \in dependencies[s[i]]
      BY <2>2, <1>1, <1>3, <1>6
    <3>2. PICK j \in 1 .. i - 1 : s[j] = d
      BY <3>1, <1>2
    <3>3. j \in 1 .. n /\ t[j] = d
      BY <3>1, <3>2, <1>1, <1>3
    <3> QED BY <3>2, <3>3
  <2> QED BY <2>1, <2>2
<1> HIDE DEF t
<1>7. OrderOf(t, A \cup {c})
  BY <1>1, <1>3, <1>4, <1>5, <1>6 DEF OrderOf
<1> QED BY <1>7

\* If all components have an order, so has a part of them that has, with a
\* component, all it depends on: the components of the part, in the same order.
LEMMA PartHasOrder ==
  ASSUME TypeOK, NEW s \in OrdersOf(components), NEW A \in SUBSET components,
         \A c \in A : \A d \in dependencies[c] : d \in components => d \in A
  PROVE  \E t : OrderOf(t, A)
<1> DEFINE n == Cardinality(components)
           Part(i) == A \cap {s[j] : j \in 1 .. i}
           Unordered == {i \in 0 .. n : ~\E t : OrderOf(t, Part(i))}
<1>1. /\ IsFiniteSet(components) /\ n \in Nat
      /\ s \in [1 .. n -> components]
      /\ \A i, j \in 1 .. n : i # j => s[i] # s[j]
      /\ Ordered(s) /\ DOMAIN s = 1 .. n
  BY ComponentsAssumption, FS_Subset, FS_CardinalityType
     DEF TypeOK, OrdersOf, SetToSeqs
<1>2. \A c \in components : \E i \in 1 .. n : s[i] = c
  <2>1. s \in Injection(1 .. n, components)
    BY <1>1 DEF Injection, IsInjective
  <2>2. Cardinality(1 .. n) = n
    BY <1>1, FS_Interval
  <2>3. s \in Surjection(1 .. n, components)
    BY <1>1, <2>1, <2>2, FS_Injection
  <2> QED BY <2>3 DEF Surjection
<1> HIDE DEF n
<1>3. \E t : OrderOf(t, Part(0))
  <2>1. Part(0) = {} /\ IsFiniteSet({}) /\ Cardinality({}) = 0
    BY FS_EmptySet
  <2>2. 1 .. 0 = {} /\ <<>> \in [1 .. 0 -> {}]
    OBVIOUS
  <2>3. OrderOf(<<>>, {})
    BY <2>1, <2>2 DEF OrderOf
  <2> QED BY <2>1, <2>3
<1>4. ASSUME NEW i \in 1 .. n, NEW t, OrderOf(t, Part(i - 1))
      PROVE  \E u : OrderOf(u, Part(i))
  <2>1. \A j \in 1 .. i : j = i \/ j \in 1 .. i - 1
    BY <1>1
  <2>2. /\ s[i] \in components /\ 1 .. i - 1 \subseteq 1 .. i /\ i \in 1 .. i
        /\ s[i] \notin {s[j] : j \in 1 .. i - 1}
    BY <1>1
  <2>3. CASE s[i] \in A
    <3>1. Part(i) = Part(i - 1) \cup {s[i]} /\ s[i] \notin Part(i - 1)
      BY <2>1, <2>2, <2>3
    <3>2. \A d \in dependencies[s[i]] : d \in {s[j] : j \in 1 .. i - 1}
      BY <1>1 DEF Ordered
    <3>3. {s[j] : j \in 1 .. i - 1} \subseteq components
      BY <1>1
    <3>4. dependencies[s[i]] \subseteq Part(i - 1)
      BY <2>3, <3>2, <3>3
    <3> HIDE DEF Part
    <3> QED BY <1>4, <3>1, <3>4, AppendToOrder
  <2>4. CASE s[i] \notin A
    <3>1. Part(i) = Part(i - 1)
      BY <2>1, <2>2, <2>4
    <3> QED BY <1>4, <3>1
  <2> QED BY <2>3, <2>4
<1>5. Unordered = {}
  <2> HIDE DEF Part
  <2> SUFFICES ASSUME Unordered # {} PROVE FALSE
    OBVIOUS
  <2>1. PICK i \in Unordered : \A j \in Unordered : ~(j < i)
    <3>1. Unordered \in SUBSET Nat
      BY <1>1
    <3> HIDE DEF Unordered
    <3> QED BY <3>1, LeastNatural
  <2>2. i \in 1 .. n /\ i - 1 \in 0 .. n /\ i - 1 < i
    BY <2>1, <1>1, <1>3
  <2>3. \E t : OrderOf(t, Part(i - 1))
    BY <2>1, <2>2
  <2> QED BY <2>1, <2>2, <2>3, <1>4
<1>6. Part(n) = A
  BY <1>1, <1>2
<1>7. n \in 0 .. n
  BY <1>1
<1> HIDE DEF Part
<1> QED BY <1>5, <1>6, <1>7

\* What is disabled with some components has with each component all that depend
\* on it.
LEMMA DisabledClosed ==
  ASSUME NEW requested \in SUBSET components, NEW c \in components,
         NEW d \in dependencies[c], d \in DisabledBy(requested)
  PROVE  c \in DisabledBy(requested)
BY DEF DisabledBy, Closed

\* "A valid configuration never leaves an enabled component depending on a
\* disabled dependency": whatever a configuration disables, in any graph of any
\* number of components, get_start_order finds an order of what the policy leaves
\* if there is one of all components.
THEOREM PolicyStartableHolds == Spec => PolicyStartable
<1>1. ASSUME TypeOK, NEW requested \in SUBSET components, ApplyPolicy(requested),
             OrdersOf(components) # {}
      PROVE  StartOrders' # {}
  <2> DEFINE A == components \ DisabledBy(requested)
  <2>1. PICK s : s \in OrdersOf(components)
    BY <1>1
  <2>2. \A c \in A : \A d \in dependencies[c] : d \in components => d \in A
    BY <1>1, DisabledClosed
  <2>3. PICK t : OrderOf(t, A)
    <3> HIDE DEF A
    <3>1. A \in SUBSET components
      BY DEF A
    <3> QED BY <1>1, <2>1, <2>2, <3>1, PartHasOrder
  <2>4. enabled' = A /\ dependencies' = dependencies
    BY <1>1 DEF ApplyPolicy
  <2> HIDE DEF A
  <2>5. t \in SetToSeqs(A) /\ DOMAIN t = 1 .. Cardinality(A)
    BY <2>3 DEF OrderOf, SetToSeqs
  <2>6. Ordered(t)'
    BY <2>3, <2>4, <2>5 DEF Ordered, OrderOf
  <2>7. t \in StartOrders'
    BY <2>4, <2>5, <2>6 DEF StartOrders, OrdersOf
  <2> QED BY <2>7
<1>2. TypeOK => [\A requested \in SUBSET components :
                   ApplyPolicy(requested) /\ OrdersOf(components) # {}
                     => StartOrders' # {}]_vars
  BY <1>1
<1> QED BY TypeCorrect, <1>2, PTL DEF PolicyStartable

-----------------------------------------------------------------------------
(* The search for the start order.                                         *)

Calls == [name : Components, todo : SUBSET Components]

SearchTypeOK ==
  /\ search \in {"none", "running", "found", "raised"}
  /\ toVisit \subseteq components
  /\ visits \in Seq(Calls)
  /\ visiting \subseteq Components /\ visited \subseteq Components
  /\ order \in Seq(Components)

\* The calls are those of different components, each for a dependency of the one
\* before. All that a call has taken from its loop has been visited, but for the
\* component of the next call; the last call may have taken one more.
Path(calls, more) ==
  \A i \in 1 .. Len(calls) :
    /\ \A j \in 1 .. Len(calls) : i # j => calls[i].name # calls[j].name
    /\ calls[i].todo \subseteq dependencies[calls[i].name]
    /\ i < Len(calls) =>
         /\ calls[i + 1].name \in dependencies[calls[i].name]
         /\ dependencies[calls[i].name] \subseteq
              calls[i].todo \cup visited \cup {calls[i + 1].name}
    /\ i = Len(calls) =>
         dependencies[calls[i].name] \subseteq calls[i].todo \cup visited \cup more

Called(calls) == {calls[i].name : i \in 1 .. Len(calls)}

\* What has been listed is what has been visited, each component once and after
\* all it depends on.
ListedInv ==
  /\ visited = {order[i] : i \in 1 .. Len(order)}
  /\ \A i, j \in 1 .. Len(order) : i # j => order[i] # order[j]
  /\ \A i \in 1 .. Len(order) : \A d \in dependencies[order[i]] :
       \E j \in 1 .. i - 1 : order[j] = d

VisitInv ==
  /\ visiting = Called(visits) /\ Path(visits, {})
  /\ visiting \cap visited = {}
  /\ visiting \cup visited \subseteq enabled
  /\ enabled \subseteq toVisit \cup visited \cup
                       (IF visits = <<>> THEN {} ELSE {visits[1].name})

SearchInv ==
  /\ SearchTypeOK
  /\ search = "running" => ListedInv /\ VisitInv
  /\ SearchFindsOrder

\* A component that is enabled and has a dependency that is not is in no order.
LEMMA NeedsAllEnabled ==
  ASSUME TypeOK, NEW c \in enabled, NEW d \in dependencies[c], d \notin enabled
  PROVE  StartOrders = {}
<1> SUFFICES ASSUME NEW s \in StartOrders PROVE FALSE
  OBVIOUS
<1>1. PICK i \in 1 .. Len(s) : s[i] = c
  BY OrderFacts
<1>2. PICK j \in 1 .. i - 1 : s[j] = d
  <2>1. \A e \in dependencies[s[i]] : \E j \in 1 .. i - 1 : s[j] = e
    BY OrderFacts
  <2> QED BY <1>1, <2>1
<1>3. Len(s) \in Nat /\ DOMAIN s = 1 .. Len(s) /\ j \in DOMAIN s
  BY <1>1, <1>2, OrderFacts
<1>4. s \in [1 .. Cardinality(enabled) -> enabled]
  BY DEF StartOrders, OrdersOf, SetToSeqs
<1> QED BY <1>2, <1>3, <1>4

\* Nor is there an order if enabled components depend on each other in a circle.
\* Of those of the circle, the one that comes first in it has a dependency that
\* comes earlier.
LEMMA NoCircle ==
  ASSUME TypeOK, NEW circle \in SUBSET enabled, circle # {},
         \A c \in circle : \E d \in circle : d \in dependencies[c]
  PROVE  StartOrders = {}
<1> SUFFICES ASSUME NEW s \in StartOrders PROVE FALSE
  OBVIOUS
<1> DEFINE Places == {i \in 1 .. Len(s) : s[i] \in circle}
<1>1. Len(s) \in Nat
  BY OrderFacts
<1>2. Places # {} /\ Places \in SUBSET Nat
  <2>1. PICK c \in circle : c \in enabled
    OBVIOUS
  <2>2. PICK i \in 1 .. Len(s) : s[i] = c
    BY <2>1, OrderFacts
  <2> QED BY <2>1, <2>2, <1>1
<1>3. PICK i \in Places : \A j \in Places : ~(j < i)
  <2> HIDE DEF Places
  <2> QED BY <1>2, LeastNatural
<1>4. PICK d \in circle : d \in dependencies[s[i]]
  BY <1>3
<1>5. PICK j \in 1 .. i - 1 : s[j] = d
  BY <1>3, <1>4, OrderFacts
<1>6. j \in Places /\ j < i
  BY <1>1, <1>3, <1>4, <1>5
<1> QED BY <1>3, <1>6

\* A circle that a search runs into: the calls from that of d to the last.
LEMMA CircleFound ==
  ASSUME TypeOK, SearchTypeOK, VisitInv, visits # <<>>,
         NEW d \in visiting, d \in Top.todo
  PROVE  StartOrders = {}
<1> DEFINE n == Len(visits)
<1>1. PICK k \in 1 .. n : visits[k].name = d
  BY DEF VisitInv, Called
<1> DEFINE circle == {visits[i].name : i \in k .. n}
<1>2. n \in Nat /\ k \in 1 .. n /\ n \in k .. n
  BY <1>1 DEF SearchTypeOK
<1>3. circle \in SUBSET enabled /\ circle # {}
  BY <1>2 DEF VisitInv, Called
<1>4. ASSUME NEW c \in circle
      PROVE  \E e \in circle : e \in dependencies[c]
  <2>1. PICK i \in k .. n : visits[i].name = c
    BY <1>4
  <2>2. CASE i < n
    <3>1. visits[i + 1].name \in dependencies[c] /\ i + 1 \in k .. n
      BY <2>1, <2>2, <1>2 DEF VisitInv, Path
    <3> QED BY <3>1
  <2>3. CASE i = n
    <3>1. d \in dependencies[c] /\ k \in k .. n
      BY <2>1, <2>3, <1>2 DEF VisitInv, Path, Top
    <3> QED BY <3>1, <1>1
  <2> QED BY <2>1, <2>2, <2>3, <1>2
<1> HIDE DEF circle
<1> QED BY <1>3, <1>4, NoCircle

\* The steps of the search, each of which keeps what is said of it.
LEMMA BeginKeeps ==
  ASSUME TypeOK, SearchInv, BeginSearch, UNCHANGED vars
  PROVE  SearchInv'
<1>1. /\ search' = "running" /\ toVisit' = components' /\ visits' = <<>>
      /\ visiting' = {} /\ visited' = {} /\ order' = <<>>
      /\ enabled' \subseteq components'
  BY DEF BeginSearch, vars, TypeOK
<1>2. <<>> \in Seq(Calls) /\ <<>> \in Seq(Components) /\ Len(<<>>) = 0
  OBVIOUS
<1>3. 1 .. 0 = {}
  OBVIOUS
<1>4. SearchTypeOK'
  BY <1>1, <1>2 DEF SearchTypeOK
<1>5. ListedInv'
  BY <1>1, <1>2, <1>3 DEF ListedInv
<1>6. VisitInv'
  BY <1>1, <1>2, <1>3 DEF VisitInv, Called, Path
<1>7. SearchFindsOrder'
  BY <1>1 DEF SearchFindsOrder
<1> QED BY <1>4, <1>5, <1>6, <1>7 DEF SearchInv

\* A search that raises does so because there is no order.
LEMMA RaiseKeeps ==
  ASSUME TypeOK, SearchInv, Raise, UNCHANGED vars, StartOrders = {},
         toVisit' \subseteq toVisit
  PROVE  SearchInv'
<1>1. /\ search' = "raised" /\ UNCHANGED <<visits, visiting, visited, order>>
      /\ UNCHANGED <<components, enabled, dependencies>>
  BY DEF Raise, vars
<1>2. StartOrders' = {}
  BY <1>1, OrdersKept
<1>3. SearchTypeOK'
  BY <1>1 DEF SearchInv, SearchTypeOK, Calls
<1> QED BY <1>1, <1>2, <1>3 DEF SearchInv, SearchFindsOrder

\* What Visit(c, calls) keeps when it does not raise: the calls lead to c.
LEMMA VisitKeeps ==
  ASSUME TypeOK, SearchInv, search = "running", UNCHANGED vars,
         NEW c \in Components, NEW calls \in Seq(Calls), Visit(c, calls), ~Raise,
         Called(calls) = visiting, Path(calls, {c}),
         calls # <<>> => c \in dependencies[calls[Len(calls)].name],
         c \in components => c \in enabled,
         toVisit' \subseteq toVisit,
         enabled \subseteq toVisit' \cup visited \cup
                             {IF calls = <<>> THEN c ELSE calls[1].name}
  PROVE  SearchInv'
<1> DEFINE n == Len(calls)
<1>1. /\ UNCHANGED <<components, enabled, dependencies>>
      /\ UNCHANGED <<search, visited, order>>
      /\ n \in Nat
  BY DEF vars, Visit
<1>2. ListedInv'
  <2>1. ListedInv
    BY DEF SearchInv
  <2>2. visited' = visited /\ order' = order /\ dependencies' = dependencies
    BY <1>1
  <2>3. visited' = {order'[i] : i \in 1 .. Len(order')}
    BY <2>1, <2>2 DEF ListedInv
  <2>4. \A i, j \in 1 .. Len(order') : i # j => order'[i] # order'[j]
    BY <2>1, <2>2 DEF ListedInv
  <2>5. \A i \in 1 .. Len(order') : \A d \in dependencies'[order'[i]] :
          \E j \in 1 .. i - 1 : order'[j] = d
    BY <2>1, <2>2 DEF ListedInv
  <2> QED BY <2>3, <2>4, <2>5 DEF ListedInv
<1>3. SearchFindsOrder'
  BY <1>1 DEF SearchFindsOrder
<1>4. CASE c \in visited
  <2>1. visits' = calls /\ visiting' = visiting
    BY <1>4, <1>1 DEF Visit, SearchInv, VisitInv
  <2>2. SearchTypeOK'
    BY <1>1, <2>1 DEF SearchInv, SearchTypeOK, vars, Calls
  <2>3. Path(calls, {})'
    BY <1>1, <1>4 DEF Path
  <2>4. VisitInv'
    BY <1>1, <2>1, <2>3, <1>4 DEF SearchInv, VisitInv, Called
  <2> QED BY <1>1, <1>2, <1>3, <2>2, <2>4 DEF SearchInv
<1>5. CASE c \notin visited
  <2> DEFINE frame == [name |-> c, todo |-> dependencies[c]]
  <2>1. /\ visits' = Append(calls, frame) /\ visiting' = visiting \cup {c}
        /\ c \notin visiting /\ c \in components
    BY <1>5, <1>1 DEF Visit
  <2>2. frame \in Calls /\ frame.name = c /\ frame.todo = dependencies[c]
    BY DEF Calls, TypeOK
  <2> HIDE DEF frame
  <2>3. /\ visits' \in Seq(Calls) /\ Len(visits') = n + 1
        /\ visits'[n + 1] = frame /\ \A i \in 1 .. n : visits'[i] = calls[i]
    BY <2>1, <2>2, <1>1
  <2>4. SearchTypeOK'
    BY <1>1, <2>1, <2>3 DEF SearchInv, SearchTypeOK, vars, Calls
  <2>5. \A i \in 1 .. n : calls[i].name # c
    BY <2>1 DEF Called
  <2>6. Called(visits)' = visiting'
    <3>1. 1 .. n + 1 = (1 .. n) \cup {n + 1}
      BY <1>1
    <3> QED BY <2>1, <2>2, <2>3, <3>1 DEF Called
  <2>7. Path(visits, {})'
    <3> SUFFICES ASSUME NEW i \in 1 .. n + 1
                 PROVE  /\ \A j \in 1 .. n + 1 : i # j => visits'[i].name # visits'[j].name
                        /\ visits'[i].todo \subseteq dependencies[visits'[i].name]
                        /\ i < n + 1 =>
                             /\ visits'[i + 1].name \in dependencies[visits'[i].name]
                             /\ dependencies[visits'[i].name] \subseteq
                                  visits'[i].todo \cup visited \cup {visits'[i + 1].name}
                        /\ i = n + 1 =>
                             dependencies[visits'[i].name] \subseteq visits'[i].todo \cup visited
      BY <1>1, <2>3 DEF Path
    <3>1. CASE i = n + 1
      BY <3>1, <1>1, <2>2, <2>3, <2>5
    <3>2. CASE i = n
      <4>1. i \in 1 .. n /\ calls # <<>> /\ visits'[i] = calls[n] /\ visits'[i + 1] = frame
        BY <3>2, <2>3, <1>1
      <4>2. /\ \A j \in 1 .. n : i # j => calls[i].name # calls[j].name
            /\ calls[i].todo \subseteq dependencies[calls[i].name]
            /\ dependencies[calls[i].name] \subseteq calls[i].todo \cup visited \cup {c}
        BY <3>2, <4>1 DEF Path
      <4>3. c \in dependencies[calls[i].name]
        BY <3>2, <4>1
      <4> QED BY <3>2, <4>1, <4>2, <4>3, <2>2, <2>3, <2>5, <1>1
    <3>3. CASE i \in 1 .. n /\ i < n
      <4>1. i + 1 \in 1 .. n /\ visits'[i] = calls[i] /\ visits'[i + 1] = calls[i + 1]
        BY <3>3, <2>3, <1>1
      <4>2. /\ \A j \in 1 .. n : i # j => calls[i].name # calls[j].name
            /\ calls[i].todo \subseteq dependencies[calls[i].name]
            /\ calls[i + 1].name \in dependencies[calls[i].name]
            /\ dependencies[calls[i].name] \subseteq
                 calls[i].todo \cup visited \cup {calls[i + 1].name}
        BY <3>3 DEF Path
      <4>3. \A j \in 1 .. n + 1 : i # j => visits'[i].name # visits'[j].name
        BY SMTT(20), <4>1, <4>2, <2>2, <2>3, <2>5, <3>3, <1>1
      <4> QED BY <4>1, <4>2, <4>3, <3>3
    <3> QED BY <3>1, <3>2, <3>3, <1>1
  <2>8. visits' # <<>> /\ visits'[1].name = IF calls = <<>> THEN c ELSE calls[1].name
    BY <2>2, <2>3, <1>1
  <2>9. VisitInv'
    BY <1>1, <2>1, <2>6, <2>7, <2>8, <1>5 DEF SearchInv, VisitInv
  <2> QED BY <1>1, <1>2, <1>3, <2>4, <2>9 DEF SearchInv
<1> QED BY <1>4, <1>5

LEMMA ComponentKeeps ==
  ASSUME TypeOK, SearchInv, NEW c \in Components, VisitComponent(c), UNCHANGED vars
  PROVE  SearchInv'
<1>1. /\ search = "running" /\ visits = <<>> /\ c \in toVisit
      /\ toVisit' = toVisit \ {c} /\ ListedInv /\ VisitInv
      /\ UNCHANGED <<components, enabled, dependencies>>
  BY DEF VisitComponent, SearchInv, vars
<1>2. CASE c \in enabled
  <2>1. Visit(c, <<>>) /\ c \in components
    BY <1>2 DEF VisitComponent, TypeOK
  <2>2. Called(<<>>) = {} /\ visiting = {} /\ <<>> \in Seq(Calls) /\ Path(<<>>, {c})
    BY <1>1 DEF VisitInv, Called, Path
  <2>3. ~Raise
    BY <2>1, <2>2, <1>1 DEF Visit, Raise
  <2>4. enabled \subseteq toVisit' \cup visited \cup {c}
    BY <1>1 DEF VisitInv
  <2> HIDE DEF Called
  <2> QED BY <1>1, <1>2, <2>1, <2>2, <2>3, <2>4, VisitKeeps
<1>3. CASE c \notin enabled
  <2>1. UNCHANGED <<search, visits, visiting, visited, order>>
    BY <1>3 DEF VisitComponent
  <2>2. SearchTypeOK'
    BY <2>1, <1>1 DEF SearchInv, SearchTypeOK, Calls
  <2>3. ListedInv'
    BY <2>1, <1>1 DEF ListedInv
  <2>4. VisitInv'
    BY <2>1, <1>1, <1>3 DEF VisitInv, Called, Path
  <2> QED BY <1>1, <2>1, <2>2, <2>3, <2>4 DEF SearchInv, SearchFindsOrder
<1> QED BY <1>2, <1>3

\* What the innermost call has taken from its loop is all that changes in the
\* calls.
LEMMA TakenFacts ==
  ASSUME TypeOK, SearchTypeOK, VisitInv, visits # <<>>, NEW d \in Top.todo
  PROVE  /\ Taken(d) \in Seq(Calls) /\ Len(Taken(d)) = Len(visits)
         /\ Called(Taken(d)) = Called(visits)
         /\ Path(Taken(d), {d})
         /\ Taken(d)[Len(visits)].name = Top.name
         /\ Taken(d)[1].name = visits[1].name
         /\ d \in dependencies[Top.name] /\ Top.name \in enabled
<1> DEFINE n == Len(visits)
<1>1. /\ n \in 1 .. n /\ n \in Nat /\ visits \in [1 .. n -> Calls]
      /\ Top = visits[n] /\ Top \in Calls
  BY DEF SearchTypeOK, Top
<1>2. /\ Taken(d) \in [1 .. n -> Calls] /\ Taken(d) \in Seq(Calls)
      /\ Taken(d)[n] = [Top EXCEPT !.todo = @ \ {d}]
      /\ \A i \in 1 .. n : i # n => Taken(d)[i] = visits[i]
  <2>1. [Top EXCEPT !.todo = @ \ {d}] \in Calls
    BY <1>1 DEF Calls
  <2> QED BY <1>1, <2>1 DEF Taken
<1>3. Len(Taken(d)) = n
  BY <1>1, <1>2
<1>4. /\ Taken(d)[n].name = Top.name /\ Taken(d)[n].todo = Top.todo \ {d}
      /\ \A i \in 1 .. n : Taken(d)[i].name = visits[i].name
  BY <1>1, <1>2 DEF Calls
<1>5. Called(Taken(d)) = Called(visits)
  BY <1>3, <1>4 DEF Called
<1>6. d \in dependencies[Top.name] /\ Top.name \in enabled
  BY <1>1 DEF VisitInv, Path, Called
<1>7. Path(Taken(d), {d})
  <2> SUFFICES ASSUME NEW i \in 1 .. n
               PROVE  /\ \A j \in 1 .. n : i # j => Taken(d)[i].name # Taken(d)[j].name
                      /\ Taken(d)[i].todo \subseteq dependencies[Taken(d)[i].name]
                      /\ i < n =>
                           /\ Taken(d)[i + 1].name \in dependencies[Taken(d)[i].name]
                           /\ dependencies[Taken(d)[i].name] \subseteq
                                Taken(d)[i].todo \cup visited \cup {Taken(d)[i + 1].name}
                      /\ i = n =>
                           dependencies[Taken(d)[i].name] \subseteq
                             Taken(d)[i].todo \cup visited \cup {d}
    BY <1>3 DEF Path
  <2>1. /\ \A j \in 1 .. n : i # j => visits[i].name # visits[j].name
        /\ visits[i].todo \subseteq dependencies[visits[i].name]
        /\ i < n =>
             /\ visits[i + 1].name \in dependencies[visits[i].name]
             /\ dependencies[visits[i].name] \subseteq
                  visits[i].todo \cup visited \cup {visits[i + 1].name}
        /\ i = n => dependencies[visits[i].name] \subseteq visits[i].todo \cup visited
    BY DEF VisitInv, Path
  <2>2. CASE i = n
    BY <2>1, <2>2, <1>1, <1>4
  <2>3. CASE i # n
    <3>1. i < n /\ i + 1 \in 1 .. n /\ Taken(d)[i].todo = visits[i].todo
      BY <2>3, <1>1, <1>2
    <3> HIDE DEF n
    <3> QED BY <2>1, <3>1, <1>4
  <2> QED BY <2>2, <2>3
<1>8. Taken(d)[1].name = visits[1].name
  BY <1>1, <1>4
<1> QED BY <1>1, <1>2, <1>3, <1>4, <1>5, <1>6, <1>7, <1>8

LEMMA DependencyKeeps ==
  ASSUME TypeOK, SearchInv, NEW d \in Components, VisitDependency(d), UNCHANGED vars
  PROVE  SearchInv'
<1>1. /\ search = "running" /\ visits # <<>> /\ d \in Top.todo
      /\ toVisit' = toVisit /\ SearchTypeOK /\ ListedInv /\ VisitInv
  BY DEF VisitDependency, SearchInv
<1>2. /\ d \in dependencies[Top.name] /\ Top.name \in enabled
      /\ Top.name \in Components
  BY <1>1, TakenFacts DEF TypeOK
<1>3. CASE Raise
  <2>1. d \in visiting \/ d \notin enabled
    BY <1>1, <1>3 DEF VisitDependency, Visit, Raise, VisitInv, TypeOK
  <2>2. StartOrders = {}
    BY <2>1, <1>1, <1>2, CircleFound, NeedsAllEnabled
  <2> QED BY <1>1, <1>3, <2>2, RaiseKeeps
<1>4. CASE ~Raise
  <2>1. Visit(d, Taken(d)) /\ (d \in components => d \in enabled)
    BY <1>4 DEF VisitDependency
  <2> DEFINE calls == Taken(d)
  <2>2. /\ calls \in Seq(Calls) /\ Called(calls) = visiting /\ Path(calls, {d})
        /\ calls # <<>> /\ d \in dependencies[calls[Len(calls)].name]
        /\ calls[1].name = visits[1].name
    <3>1. Len(visits) \in Nat \ {0}
      BY <1>1 DEF SearchTypeOK
    <3>2. Called(visits) = visiting
      BY <1>1 DEF VisitInv
    <3> QED BY <1>1, <1>2, <3>1, <3>2, TakenFacts
  <2>3. enabled \subseteq toVisit' \cup visited \cup {calls[1].name}
    BY <1>1, <2>2 DEF VisitInv
  <2> HIDE DEF calls
  <2>4. Visit(d, calls)
    BY <2>1 DEF calls
  <2> QED BY <1>1, <1>4, <2>1, <2>2, <2>3, <2>4, VisitKeeps
<1> QED BY <1>3, <1>4

\* A component is listed when all it depends on has been.
LEMMA VisitEndsKeeps ==
  ASSUME TypeOK, SearchInv, VisitEnds, UNCHANGED vars
  PROVE  SearchInv'
<1> DEFINE n == Len(visits)
           m == Len(order)
           c == Top.name
<1>1. /\ search = "running" /\ visits # <<>> /\ Top.todo = {}
      /\ SearchTypeOK /\ ListedInv /\ VisitInv
      /\ visits' = Front(visits)
      /\ visiting' = visiting \ {c} /\ visited' = visited \cup {c}
      /\ order' = Append(order, c)
      /\ UNCHANGED <<search, toVisit, components, enabled, dependencies>>
  BY DEF VisitEnds, SearchInv, ListedLast, vars
<1>2. /\ n \in Nat \ {0} /\ Top = visits[n] /\ Top \in Calls /\ c \in Components
      /\ m \in Nat /\ order \in Seq(Components)
  <2>1. n \in Nat \ {0} /\ visits \in [1 .. n -> Calls] /\ Top = visits[n]
    BY <1>1 DEF SearchTypeOK, Top
  <2>2. Top \in Calls /\ c \in Components
    BY <2>1 DEF Calls
  <2>3. m \in Nat /\ order \in Seq(Components)
    BY <1>1 DEF SearchTypeOK
  <2> QED BY <2>1, <2>2, <2>3
<1>3. /\ visits' \in Seq(Calls) /\ Len(visits') = n - 1
      /\ \A i \in 1 .. n - 1 : visits'[i] = visits[i]
  <2>1. visits' = SubSeq(visits, 1, n - 1)
    BY <1>1 DEF Front
  <2>2. visits \in Seq(Calls)
    BY <1>1 DEF SearchTypeOK
  <2>3. n - 1 \in Nat /\ n - 1 <= Len(visits)
    BY <1>2
  <2> HIDE DEF n
  <2>4. /\ SubSeq(visits, 1, n - 1) = [i \in 1 .. n - 1 |-> visits[i]]
        /\ \A i \in 1 .. n - 1 : visits[i] \in Calls
    BY <2>2, <2>3
  <2> QED BY <2>1, <2>3, <2>4
<1>4. /\ order' \in Seq(Components) /\ Len(order') = m + 1 /\ order'[m + 1] = c
      /\ \A i \in 1 .. m : order'[i] = order[i]
  BY <1>1, <1>2
<1>5. c \in visiting /\ c \in enabled /\ c \notin visited
  BY <1>1, <1>2 DEF VisitInv, Called
<1>6. dependencies[c] \subseteq visited
  BY <1>1, <1>2 DEF VisitInv, Path
<1>7. SearchTypeOK'
  BY <1>1, <1>2, <1>3, <1>4 DEF SearchTypeOK, Calls
<1> HIDE DEF n, m, c
<1>8. ListedInv'
  <2>1. /\ visited = {order[i] : i \in 1 .. m}
        /\ \A i, j \in 1 .. m : i # j => order[i] # order[j]
        /\ \A i \in 1 .. m : \A d \in dependencies[order[i]] :
             \E j \in 1 .. i - 1 : order[j] = d
    BY <1>1 DEF ListedInv, m
  <2>2. 1 .. m + 1 = (1 .. m) \cup {m + 1} /\ (m + 1) - 1 = m
    BY <1>2
  <2>3. visited' = {order'[i] : i \in 1 .. m + 1}
    BY <2>1, <2>2, <1>1, <1>4
  <2>4. \A i, j \in 1 .. m + 1 : i # j => order'[i] # order'[j]
    BY <2>1, <2>2, <1>4, <1>5
  <2>5. ASSUME NEW i \in 1 .. m + 1, NEW d \in dependencies[order'[i]]
        PROVE  \E j \in 1 .. i - 1 : order'[j] = d
    <3>1. CASE i = m + 1
      <4>1. PICK j \in 1 .. m : order[j] = d
        BY <3>1, <2>1, <2>5, <1>4, <1>6
      <4> QED BY <3>1, <4>1, <2>2, <1>4
    <3>2. CASE i # m + 1
      <4>1. i \in 1 .. m /\ d \in dependencies[order[i]]
        BY <3>2, <2>2, <2>5, <1>4
      <4>2. PICK j \in 1 .. i - 1 : order[j] = d
        BY <4>1, <2>1
      <4>3. j \in 1 .. m
        BY <4>1, <4>2, <1>2
      <4> QED BY <4>2, <4>3, <1>4
    <3> QED BY <3>1, <3>2
  <2> QED BY ZenonT(40), <2>3, <2>4, <2>5, <1>1, <1>4 DEF ListedInv
<1>9. VisitInv'
  <2>1. /\ visiting = {visits[i].name : i \in 1 .. n}
        /\ \A i \in 1 .. n :
             /\ \A j \in 1 .. n : i # j => visits[i].name # visits[j].name
             /\ visits[i].todo \subseteq dependencies[visits[i].name]
             /\ i < n =>
                  /\ visits[i + 1].name \in dependencies[visits[i].name]
                  /\ dependencies[visits[i].name] \subseteq
                       visits[i].todo \cup visited \cup {visits[i + 1].name}
    BY <1>1 DEF VisitInv, Called, Path, n
  <2>2. 1 .. n = (1 .. n - 1) \cup {n} /\ visits[n].name = c /\ n \notin 1 .. n - 1
    BY <1>2 DEF c
  <2>3. visiting' = Called(visits)'
    <3>1. \A i \in 1 .. n - 1 : visits[i].name # c
      BY <2>1, <2>2
    <3>2. visiting \ {c} = {visits[i].name : i \in 1 .. n - 1}
      BY <3>1, <2>1, <2>2
    <3> QED BY <3>2, <1>1, <1>3 DEF Called
  <2>4. Path(visits, {})'
    <3> SUFFICES ASSUME NEW i \in 1 .. n - 1
                 PROVE  /\ \A j \in 1 .. n - 1 : i # j => visits'[i].name # visits'[j].name
                        /\ visits'[i].todo \subseteq dependencies[visits'[i].name]
                        /\ i < n - 1 =>
                             /\ visits'[i + 1].name \in dependencies[visits'[i].name]
                             /\ dependencies[visits'[i].name] \subseteq
                                  visits'[i].todo \cup visited' \cup {visits'[i + 1].name}
                        /\ i = n - 1 =>
                             dependencies[visits'[i].name] \subseteq
                               visits'[i].todo \cup visited'
      BY <1>1, <1>3 DEF Path
    <3>1. /\ i \in 1 .. n /\ i < n /\ visits'[i] = visits[i]
          /\ i < n - 1 => visits'[i + 1] = visits[i + 1]
          /\ i = n - 1 => visits[i + 1].name = c
      BY <2>2, <1>2, <1>3
    <3>2. \A j \in 1 .. n - 1 : i # j => visits'[i].name # visits'[j].name
      BY <3>1, <2>1, <2>2, <1>3
    <3> QED BY <3>1, <3>2, <2>1, <1>1
  <2>5. enabled \subseteq toVisit \cup visited' \cup
                            (IF visits' = <<>> THEN {} ELSE {visits'[1].name})
    <3>1. enabled \subseteq toVisit \cup visited \cup {visits[1].name}
      BY <1>1 DEF VisitInv
    <3>2. CASE n = 1
      BY <3>1, <3>2, <2>2, <1>1
    <3>3. CASE n # 1
      <4>1. 1 \in 1 .. n - 1 /\ visits' # <<>>
        BY <3>3, <1>2, <1>3
      <4> QED BY <4>1, <3>1, <1>1, <1>3
    <3> QED BY <3>2, <3>3
  <2>6. visiting' \cap visited' = {} /\ visiting' \cup visited' \subseteq enabled
    BY <1>1, <1>5 DEF VisitInv
  <2> QED BY <2>3, <2>4, <2>5, <2>6, <1>1 DEF VisitInv
<1> QED BY <1>1, <1>7, <1>8, <1>9 DEF SearchInv, SearchFindsOrder

\* When nothing is left, what has been listed is a start order.
LEMMA SearchEndsKeeps ==
  ASSUME TypeOK, SearchInv, SearchEnds, UNCHANGED vars
  PROVE  SearchInv'
<1>1. /\ search = "running" /\ visits = <<>> /\ toVisit = {} /\ search' = "found"
      /\ SearchTypeOK /\ ListedInv /\ VisitInv
      /\ UNCHANGED <<toVisit, visits, visiting, visited, order>>
      /\ UNCHANGED <<components, enabled, dependencies>>
  BY DEF SearchEnds, SearchInv, vars
<1>2. visited = enabled
  BY <1>1 DEF VisitInv
<1> DEFINE m == Len(order)
<1>3. /\ m \in Nat /\ order \in [1 .. m -> enabled] /\ DOMAIN order = 1 .. m
      /\ \A i, j \in 1 .. m : i # j => order[i] # order[j]
      /\ \A c \in enabled : \E i \in 1 .. m : order[i] = c
      /\ \A i \in 1 .. m : \A d \in dependencies[order[i]] :
           \E j \in 1 .. i - 1 : order[j] = d
  BY <1>1, <1>2 DEF ListedInv, SearchTypeOK
<1>4. m = Cardinality(enabled)
  <2>1. order \in Bijection(1 .. m, enabled)
    BY <1>3 DEF Bijection, Injection, Surjection, IsInjective
  <2> HIDE DEF m
  <2>2. IsFiniteSet(1 .. m) /\ Cardinality(1 .. m) = m
    BY <1>3, FS_Interval
  <2>3. ExistsBijection(1 .. m, enabled)
    BY <2>1 DEF ExistsBijection
  <2> QED BY <2>2, <2>3, FS_Bijection
<1>5. order \in StartOrders
  BY <1>3, <1>4 DEF StartOrders, OrdersOf, SetToSeqs, Ordered
<1>6. StartOrders' = StartOrders
  BY <1>1, OrdersKept
<1>7. SearchTypeOK'
  BY <1>1 DEF SearchTypeOK, Calls
<1> QED BY <1>1, <1>5, <1>6, <1>7 DEF SearchInv, SearchFindsOrder

LEMMA SearchKeeps == TypeOK /\ SearchInv /\ [SearchNext]_<<vars, searchVars>> => SearchInv'
<1> SUFFICES ASSUME TypeOK, SearchInv, [SearchNext]_<<vars, searchVars>>
             PROVE  SearchInv'
  OBVIOUS
<1>1. CASE BeginSearch /\ UNCHANGED vars
  BY <1>1, BeginKeeps
<1>2. CASE SearchStep /\ UNCHANGED vars
  BY <1>2, ComponentKeeps, DependencyKeeps, VisitEndsKeeps, SearchEndsKeeps
     DEF SearchStep
<1>3. CASE ForgetSearch
  <2>1. <<>> \in Seq(Calls) /\ <<>> \in Seq(Components)
    OBVIOUS
  <2> QED BY <1>3, <2>1 DEF ForgetSearch, SearchInv, SearchTypeOK, SearchFindsOrder,
          Calls
<1>4. CASE UNCHANGED <<vars, searchVars>>
  <2>1. /\ UNCHANGED <<components, enabled, dependencies>>
        /\ UNCHANGED <<search, toVisit, visits, visiting, visited, order>>
    BY <1>4 DEF vars, searchVars
  <2>2. StartOrders' = StartOrders
    BY <2>1, OrdersKept
  <2>3. ListedInv' = ListedInv
    BY <2>1 DEF ListedInv
  <2>4. VisitInv' = VisitInv
    BY <2>1 DEF VisitInv, Called, Path
  <2>5. SearchTypeOK'
    BY <2>1 DEF SearchInv, SearchTypeOK, Calls
  <2> QED BY <2>1, <2>2, <2>3, <2>4, <2>5 DEF SearchInv, SearchFindsOrder
<1> QED BY <1>1, <1>2, <1>3, <1>4 DEF SearchNext

\* get_start_order finds an order of the enabled components, each after all it
\* depends on, whenever there is one, and raises only if there is none: in any
\* graph of any components, whichever it visits first.
THEOREM SearchFindsOrderHolds == SearchSpec => []SearchFindsOrder
<1>1. SearchSpec => Spec
  <2>1. SearchInit => Init
    BY DEF SearchInit
  <2>2. [SearchNext]_<<vars, searchVars>> => [Next]_vars
    BY DEF SearchNext, vars
  <2> QED BY <2>1, <2>2, PTL DEF SearchSpec, Spec
<1>2. SearchInit => SearchInv
  <2>1. <<>> \in Seq(Calls) /\ <<>> \in Seq(Components)
    OBVIOUS
  <2> QED BY <2>1 DEF SearchInit, NotSearched, SearchInv, SearchTypeOK,
          SearchFindsOrder, Calls
<1>3. SearchInv => SearchFindsOrder
  BY DEF SearchInv
<1> QED BY <1>1, <1>2, <1>3, SearchKeeps, TypeCorrect, PTL DEF SearchSpec

-----------------------------------------------------------------------------
(* The search of the dependency manager.                                   *)

NeedCalls == [name : Names, todo : SUBSET Names]

GraphTypeOK ==
  /\ registered \subseteq Names /\ needs \in [Names -> SUBSET Names]
  /\ answer \in {"none", "pending", "found", "raised"}
  /\ root \in Names \cup {NoName}
  /\ descent \in Seq(NeedCalls)
  /\ entered \subseteq Names /\ done \subseteq Names
  /\ listed \in Seq(Names)

\* AllNeeds, of any graph.
Needed(graph, c) ==
  {d \in Names : \A S \in SUBSET Names :
     graph[c] \subseteq S /\ (\A e \in S : graph[e] \subseteq S) => d \in S}

\* As Path: and each call is for something that all calls before it need.
Route(calls, more) ==
  \A i \in 1 .. Len(calls) :
    /\ \A j \in 1 .. Len(calls) : i # j => calls[i].name # calls[j].name
    /\ \A j \in 1 .. Len(calls) : i < j => calls[j].name \in Needed(needs, calls[i].name)
    /\ calls[i].todo \subseteq needs[calls[i].name]
    /\ i < Len(calls) =>
         needs[calls[i].name] \subseteq
           calls[i].todo \cup done \cup {calls[i + 1].name}
    /\ i = Len(calls) =>
         needs[calls[i].name] \subseteq calls[i].todo \cup done \cup more

\* What has been visited has been listed, once and after all it needs.
NeedsListed ==
  /\ done = {listed[i] : i \in 1 .. Len(listed)}
  /\ \A i, j \in 1 .. Len(listed) : i # j => listed[i] # listed[j]
  /\ \A i \in 1 .. Len(listed) : \A d \in needs[listed[i]] :
       \E j \in 1 .. i - 1 : listed[j] = d

DescentInv ==
  /\ descent # <<>> /\ descent[1].name = root
  /\ entered = {descent[i].name : i \in 1 .. Len(descent)}
  /\ entered \cap done = {} /\ entered \cup done \subseteq registered
  /\ done \subseteq Needed(needs, root)
  /\ Route(descent, {})

\* OrderIsRight, with Needed.
Answered ==
  LET good == \A d \in {root} \cup Needed(needs, root) :
                d \in registered /\ d \notin Needed(needs, d)
  IN  /\ answer = "found" =>
           /\ good
           /\ listed \in SetToSeqs(Needed(needs, root))
           /\ \A i \in 1 .. Len(listed) : \A d \in needs[listed[i]] :
                \E j \in 1 .. i - 1 : listed[j] = d
      /\ answer = "raised" => ~good

GraphInv ==
  /\ GraphTypeOK
  /\ answer = "pending" => NeedsListed /\ DescentInv
  /\ Answered

\* What a component needs has what it needs itself.
LEMMA NeededFacts ==
  ASSUME needs \in [Names -> SUBSET Names], NEW c \in Names
  PROVE  /\ Needed(needs, c) \subseteq Names /\ needs[c] \subseteq Needed(needs, c)
         /\ \A d \in Needed(needs, c) : needs[d] \subseteq Needed(needs, c)
         /\ \A S \in Complete : needs[c] \subseteq S => Needed(needs, c) \subseteq S
BY DEF Needed, Complete

\* One of the needs of a component that the search comes to is one of the root's.
LEMMA InnermostFacts ==
  ASSUME GraphTypeOK, DescentInv
  PROVE  /\ Len(descent) \in Nat \ {0} /\ Innermost = descent[Len(descent)]
         /\ Innermost \in NeedCalls
         /\ root \in Names
         /\ Innermost.name \in {root} \cup Needed(needs, root)
         /\ Innermost.name \in entered
         /\ Innermost.todo \subseteq needs[Innermost.name]
         /\ needs[Innermost.name] \subseteq Needed(needs, root)
<1> DEFINE n == Len(descent)
<1>1. /\ n \in Nat \ {0} /\ descent \in [1 .. n -> NeedCalls]
      /\ Innermost = descent[n]
  BY DEF GraphTypeOK, DescentInv, Innermost
<1>2. descent[1].name = root /\ Innermost \in NeedCalls /\ root \in Names
  BY <1>1 DEF DescentInv, NeedCalls
<1>3. Innermost.name \in {root} \cup Needed(needs, root)
  <2>1. CASE n = 1
    BY <2>1, <1>1, <1>2
  <2>2. CASE n # 1
    <3>1. 1 \in 1 .. n /\ n \in 1 .. n /\ 1 < n
      BY <2>2, <1>1
    <3>2. descent[n].name \in Needed(needs, descent[1].name)
      BY <3>1 DEF DescentInv, Route
    <3> QED BY <3>2, <1>1, <1>2
  <2> QED BY <2>1, <2>2
<1>4. Innermost.name \in entered /\ Innermost.todo \subseteq needs[Innermost.name]
  <2>1. n \in 1 .. n
    BY <1>1
  <2>2. descent[n].name \in entered
    BY <2>1 DEF DescentInv
  <2>3. descent[n].todo \subseteq needs[descent[n].name]
    BY <2>1 DEF DescentInv, Route
  <2> QED BY <2>2, <2>3, <1>1
<1>5. needs[Innermost.name] \subseteq Needed(needs, root)
  BY <1>2, <1>3, NeededFacts DEF GraphTypeOK
<1> QED BY <1>1, <1>2, <1>3, <1>4, <1>5

\* A search raises because of a component that is not registered, or of one that
\* is needed by itself: the one whose visit has not ended.
LEMMA RaisedRightly ==
  ASSUME GraphTypeOK, DescentInv, NEW d \in Innermost.todo,
         d \in entered \/ d \notin registered
  PROVE  \E e \in {root} \cup Needed(needs, root) : e \notin registered \/ e \in Needed(needs, e)
<1> DEFINE n == Len(descent)
<1>1. d \in needs[Innermost.name] /\ d \in Needed(needs, root) /\ d \in Names
  BY InnermostFacts DEF NeedCalls
<1>2. CASE d \notin registered
  BY <1>1, <1>2
<1>3. CASE d \in entered
  <2>1. PICK k \in 1 .. n : descent[k].name = d
    BY <1>3 DEF DescentInv
  <2>2. CASE k = n
    <3>1. d \in needs[d]
      BY <2>1, <2>2, <1>1, InnermostFacts
    <3> QED BY <3>1, <1>1, NeededFacts DEF GraphTypeOK
  <2>3. CASE k # n
    <3>1. k < n /\ n \in 1 .. n
      BY <2>1, <2>3, InnermostFacts
    <3>2. descent[n].name \in Needed(needs, d)
      BY <2>1, <3>1 DEF DescentInv, Route
    <3>3. needs[descent[n].name] \subseteq Needed(needs, d)
      BY <3>2, <1>1, NeededFacts DEF GraphTypeOK
    <3>4. d \in Needed(needs, d)
      BY <3>3, <1>1, InnermostFacts
    <3> QED BY <3>4, <1>1
  <2> QED BY <2>2, <2>3
<1> QED BY <1>2, <1>3

\* When the search is over, what has been listed is what the root needs.
LEMMA ListedIsRight ==
  ASSUME GraphTypeOK, NeedsListed, DescentInv, needs[root] \subseteq done
  PROVE  /\ listed \in SetToSeqs(Needed(needs, root))
         /\ \A d \in {root} \cup Needed(needs, root) : d \in registered /\ d \notin Needed(needs, d)
<1> DEFINE m == Len(listed)
<1>1. /\ m \in Nat /\ listed \in [1 .. m -> done] /\ done \subseteq Names
      /\ \A d \in done : \E i \in 1 .. m : listed[i] = d
      /\ \A i, j \in 1 .. m : i # j => listed[i] # listed[j]
      /\ \A i \in 1 .. m : \A d \in needs[listed[i]] :
           \E j \in 1 .. i - 1 : listed[j] = d
  BY DEF NeedsListed, GraphTypeOK
<1>2. root \in Names /\ root \in entered /\ root \in registered /\ root \notin done
  BY InnermostFacts DEF DescentInv
<1> HIDE DEF m
\* What has been listed up to a place needs nothing else.
<1>3. ASSUME NEW k \in 0 .. m
      PROVE  {listed[j] : j \in 1 .. k} \in Complete
  <2>1. {listed[j] : j \in 1 .. k} \subseteq Names
    BY <1>1
  <2>2. ASSUME NEW j \in 1 .. k, NEW d \in needs[listed[j]]
        PROVE  \E i \in 1 .. k : listed[i] = d
    <3>1. PICK i \in 1 .. j - 1 : listed[i] = d
      BY <2>2, <1>1
    <3> QED BY <3>1, <1>1
  <2> QED BY <2>1, <2>2 DEF Complete
<1>4. Needed(needs, root) = done
  <2>1. done = {listed[j] : j \in 1 .. m}
    BY DEF NeedsListed, m
  <2>2. m \in 0 .. m
    BY <1>1
  <2>3. done \in Complete
    BY <2>1, <2>2, <1>3
  <2> QED BY ZenonT(40), <2>3, <1>2, NeededFacts DEF DescentInv, GraphTypeOK
<1>5. ASSUME NEW d \in done
      PROVE  d \in registered /\ d \notin Needed(needs, d)
  <2>1. PICK i \in 1 .. m : listed[i] = d
    BY <1>1
  <2>2. i - 1 \in 0 .. m /\ i \notin 1 .. i - 1
    BY <1>1
  <2> DEFINE before == {listed[j] : j \in 1 .. i - 1}
  <2>3. before \in Complete
    BY <2>2, <1>3
  <2>4. needs[d] \subseteq before /\ d \notin before
    <3>1. \A j \in 1 .. i - 1 : j \in 1 .. m /\ j # i
      BY <1>1
    <3> QED BY <3>1, <2>1, <1>1
  <2> HIDE DEF before
  <2>5. d \in Names /\ d \in registered
    BY <1>1 DEF DescentInv
  <2> QED BY <2>3, <2>4, <2>5, NeededFacts DEF GraphTypeOK
<1>6. listed \in SetToSeqs(done)
  <2>1. listed \in Bijection(1 .. m, done)
    BY <1>1 DEF Bijection, Injection, Surjection, IsInjective
  <2>2. IsFiniteSet(1 .. m) /\ Cardinality(1 .. m) = m
    BY <1>1, FS_Interval
  <2>3. ExistsBijection(1 .. m, done)
    BY <2>1 DEF ExistsBijection
  <2>4. Cardinality(done) = m
    BY <2>2, <2>3, FS_Bijection
  <2> QED BY <2>4, <1>1 DEF SetToSeqs
<1> QED BY <1>2, <1>4, <1>5, <1>6

LEMMA AskKeeps ==
  ASSUME GraphInv, NEW c \in Names, GetStartOrder(c), UNCHANGED graphVars
  PROVE  GraphInv'
<1>1. /\ UNCHANGED <<registered, needs>> /\ root' = c
      /\ done' = {} /\ listed' = <<>> /\ GraphTypeOK
      /\ needs[c] \subseteq Names
  BY DEF GetStartOrder, graphVars, GraphInv, GraphTypeOK
<1>2. <<>> \in Seq(Names) /\ <<>> \in Seq(NeedCalls) /\ Len(<<>>) = 0 /\ 1 .. 0 = {}
  OBVIOUS
<1>3. CASE c \in registered
  <2> DEFINE frame == [name |-> c, todo |-> needs[c]]
  <2>1. /\ answer' = "pending" /\ descent' = <<frame>> /\ entered' = {c}
    BY <1>3 DEF GetStartOrder
  <2>2. frame \in NeedCalls /\ frame.name = c /\ frame.todo = needs[c]
    BY <1>1 DEF NeedCalls
  <2> HIDE DEF frame
  <2>3. /\ descent' \in Seq(NeedCalls) /\ Len(descent') = 1 /\ descent'[1] = frame
        /\ descent' # <<>> /\ 1 .. 1 = {1}
    BY <2>1, <2>2
  <2>4. GraphTypeOK'
    BY <1>1, <1>2, <2>1, <2>3 DEF GraphTypeOK, NeedCalls
  <2>5. NeedsListed'
    BY <1>1, <1>2 DEF NeedsListed
  <2>6. Route(descent, {})'
    BY <1>1, <2>2, <2>3 DEF Route
  <2>7. DescentInv'
    BY <1>1, <1>3, <2>1, <2>2, <2>3, <2>6 DEF DescentInv
  <2>8. Answered'
    BY <2>1 DEF Answered
  <2> QED BY <2>4, <2>5, <2>7, <2>8 DEF GraphInv
<1>4. CASE c \notin registered
  <2>1. /\ answer' = "raised" /\ descent' = <<>> /\ entered' = {}
    BY <1>4 DEF GetStartOrder
  <2>2. GraphTypeOK'
    BY <1>1, <1>2, <2>1 DEF GraphTypeOK, NeedCalls
  <2>3. Answered'
    BY <1>1, <1>4, <2>1 DEF Answered
  <2> QED BY <2>1, <2>2, <2>3 DEF GraphInv
<1> QED BY <1>3, <1>4

\* What Without(d) leaves of the calls.
LEMMA WithoutFacts ==
  ASSUME GraphTypeOK, DescentInv, NEW d \in Innermost.todo
  PROVE  /\ Without(d) \in Seq(NeedCalls) /\ Len(Without(d)) = Len(descent)
         /\ \A i \in 1 .. Len(descent) : Without(d)[i].name = descent[i].name
         /\ Route(Without(d), {d})
<1> DEFINE n == Len(descent)
<1>1. /\ n \in Nat \ {0} /\ n \in 1 .. n /\ descent \in [1 .. n -> NeedCalls]
      /\ Innermost = descent[n] /\ Innermost \in NeedCalls
  BY InnermostFacts DEF GraphTypeOK
<1>2. /\ Without(d) \in [1 .. n -> NeedCalls] /\ Without(d) \in Seq(NeedCalls)
      /\ Without(d)[n] = [Innermost EXCEPT !.todo = @ \ {d}]
      /\ \A i \in 1 .. n : i # n => Without(d)[i] = descent[i]
  <2>1. [Innermost EXCEPT !.todo = @ \ {d}] \in NeedCalls
    BY <1>1 DEF NeedCalls
  <2> QED BY <1>1, <2>1 DEF Without
<1>3. Len(Without(d)) = n
  BY <1>1, <1>2
<1>4. /\ Without(d)[n].todo = Innermost.todo \ {d}
      /\ \A i \in 1 .. n : Without(d)[i].name = descent[i].name
  BY <1>1, <1>2 DEF NeedCalls
<1>5. Route(Without(d), {d})
  <2> SUFFICES ASSUME NEW i \in 1 .. n
               PROVE  /\ \A j \in 1 .. n : i # j => Without(d)[i].name # Without(d)[j].name
                      /\ \A j \in 1 .. n :
                           i < j => Without(d)[j].name \in Needed(needs, Without(d)[i].name)
                      /\ Without(d)[i].todo \subseteq needs[Without(d)[i].name]
                      /\ i < n =>
                           needs[Without(d)[i].name] \subseteq
                             Without(d)[i].todo \cup done \cup {Without(d)[i + 1].name}
                      /\ i = n =>
                           needs[Without(d)[i].name] \subseteq
                             Without(d)[i].todo \cup done \cup {d}
    BY <1>3 DEF Route
  <2>1. /\ \A j \in 1 .. n : i # j => descent[i].name # descent[j].name
        /\ \A j \in 1 .. n : i < j => descent[j].name \in Needed(needs, descent[i].name)
        /\ descent[i].todo \subseteq needs[descent[i].name]
        /\ i < n =>
             needs[descent[i].name] \subseteq
               descent[i].todo \cup done \cup {descent[i + 1].name}
        /\ i = n => needs[descent[i].name] \subseteq descent[i].todo \cup done
    BY DEF DescentInv, Route
  <2>2. CASE i = n
    BY <2>1, <2>2, <1>1, <1>4
  <2>3. CASE i # n
    <3>1. i < n /\ i + 1 \in 1 .. n /\ Without(d)[i].todo = descent[i].todo
      BY <2>3, <1>1, <1>2
    <3> HIDE DEF n
    <3> QED BY <2>1, <3>1, <1>4
  <2> QED BY <2>2, <2>3
<1> QED BY <1>2, <1>3, <1>4, <1>5

\* A component that has been visited has been listed, so it is not listed again.
LEMMA PassKeeps ==
  ASSUME GraphInv, answer = "pending", NEW d \in Innermost.todo, d \in done,
         descent' = Without(d), listed' = Listed(d),
         UNCHANGED <<answer, entered, done, root, registered, needs>>
  PROVE  GraphInv'
<1>1. GraphTypeOK /\ NeedsListed /\ DescentInv
  BY DEF GraphInv
<1>2. listed' = listed
  BY <1>1 DEF Listed, NeedsListed, Contains
<1>3. /\ descent' \in Seq(NeedCalls) /\ Len(descent') = Len(descent)
      /\ \A i \in 1 .. Len(descent) : descent'[i].name = descent[i].name
      /\ Route(Without(d), {d}) /\ Len(descent) \in Nat \ {0}
  BY <1>1, WithoutFacts, InnermostFacts
<1>4. Route(descent, {})'
  <2> DEFINE calls == Without(d)
  <2>2. descent' = calls /\ Route(calls, {d})
    BY <1>3
  <2> HIDE DEF calls
  <2> QED BY <2>2, <1>3 DEF Route
<1>6. DescentInv'
  <2>1. entered' = {descent'[i].name : i \in 1 .. Len(descent')}
    BY <1>1, <1>3 DEF DescentInv
  <2>2. descent' # <<>> /\ descent'[1].name = root'
    BY <1>1, <1>3 DEF DescentInv
  <2> QED BY <2>1, <2>2, <1>1, <1>4 DEF DescentInv
<1>7. NeedsListed'
  BY <1>1, <1>2 DEF NeedsListed
<1>8. GraphTypeOK'
  BY <1>1, <1>2, <1>3 DEF GraphTypeOK, NeedCalls
<1> QED BY <1>6, <1>7, <1>8 DEF GraphInv, Answered

LEMMA DescendKeeps ==
  ASSUME GraphInv, answer = "pending", NEW d \in Innermost.todo,
         d \notin entered, d \notin done, d \in registered,
         descent' = Append(Without(d), [name |-> d, todo |-> needs[d]]),
         entered' = entered \cup {d},
         UNCHANGED <<answer, done, listed, root, registered, needs>>
  PROVE  GraphInv'
<1> DEFINE n == Len(descent)
           calls == Without(d)
           frame == [name |-> d, todo |-> needs[d]]
<1>1. GraphTypeOK /\ NeedsListed /\ DescentInv
  BY DEF GraphInv
<1>2. /\ calls \in Seq(NeedCalls) /\ Len(calls) = n /\ Route(calls, {d})
      /\ \A i \in 1 .. n : calls[i].name = descent[i].name
      /\ n \in Nat \ {0}
      /\ d \in needs[descent[n].name]
      /\ \A i \in 1 .. n : descent[i].name \in Names
  <2>1. descent \in [1 .. n -> NeedCalls]
    BY <1>1 DEF GraphTypeOK
  <2>2. \A i \in 1 .. n : descent[i].name \in Names
    BY <2>1 DEF NeedCalls
  <2> QED BY <2>2, <1>1, WithoutFacts, InnermostFacts
<1>3. frame \in NeedCalls /\ frame.name = d /\ frame.todo = needs[d] /\ d \in Names
  BY <1>1 DEF NeedCalls, GraphTypeOK
<1>4. descent' = Append(calls, frame)
  OBVIOUS
<1> HIDE DEF calls, frame, n
<1>5. /\ descent' \in Seq(NeedCalls) /\ Len(descent') = n + 1
      /\ descent'[n + 1] = frame /\ \A i \in 1 .. n : descent'[i] = calls[i]
  <2>1. calls \in Seq(NeedCalls) /\ Len(calls) = n /\ n \in Nat /\ frame \in NeedCalls
    BY <1>2, <1>3
  <2>2. /\ Append(calls, frame) \in Seq(NeedCalls) /\ Len(Append(calls, frame)) = n + 1
        /\ Append(calls, frame)[n + 1] = frame
        /\ \A i \in 1 .. n : Append(calls, frame)[i] = calls[i]
    BY <2>1
  <2> QED BY <2>2, <1>4
<1>6. \A i \in 1 .. n : calls[i].name # d
  <2>1. \A i \in 1 .. n : descent[i].name \in entered
    BY <1>1 DEF DescentInv, n
  <2> QED BY <2>1, <1>2
<1>7. \A i \in 1 .. n : d \in Needed(needs, calls[i].name)
  <2> SUFFICES ASSUME NEW i \in 1 .. n PROVE d \in Needed(needs, calls[i].name)
    OBVIOUS
  <2>1. CASE i = n
    <3>1. calls[i].name = descent[n].name /\ calls[i].name \in Names
      BY <2>1, <1>2
    <3> QED BY <3>1, <1>1, <1>2, NeededFacts DEF GraphTypeOK
  <2>2. CASE i # n
    <3>1. i < n /\ n \in 1 .. n
      BY <2>2, <1>2
    <3>2. calls[n].name \in Needed(needs, calls[i].name)
      BY <3>1, <1>2 DEF Route
    <3>3. needs[calls[n].name] \subseteq Needed(needs, calls[i].name)
      BY <3>2, <1>1, <1>2, NeededFacts DEF GraphTypeOK
    <3> QED BY <3>1, <3>3, <1>2
  <2> QED BY <2>1, <2>2
<1>9. Route(descent, {})'
  <2> SUFFICES ASSUME NEW i \in 1 .. n + 1
               PROVE  /\ \A j \in 1 .. n + 1 : i # j => descent'[i].name # descent'[j].name
                      /\ \A j \in 1 .. n + 1 :
                           i < j => descent'[j].name \in Needed(needs, descent'[i].name)
                      /\ descent'[i].todo \subseteq needs[descent'[i].name]
                      /\ i < n + 1 =>
                           needs[descent'[i].name] \subseteq
                             descent'[i].todo \cup done \cup {descent'[i + 1].name}
                      /\ i = n + 1 =>
                           needs[descent'[i].name] \subseteq descent'[i].todo \cup done
    BY <1>2, <1>5 DEF Route
  <2>1. CASE i = n + 1
    BY <2>1, <1>2, <1>3, <1>5, <1>6
  <2>2. CASE i # n + 1
    <3>1. /\ i \in 1 .. n /\ descent'[i] = calls[i]
          /\ i < n => descent'[i + 1] = calls[i + 1]
          /\ i = n => descent'[i + 1] = frame
      BY <2>2, <1>2, <1>5
    <3>2. /\ \A j \in 1 .. n : i # j => calls[i].name # calls[j].name
          /\ \A j \in 1 .. n : i < j => calls[j].name \in Needed(needs, calls[i].name)
          /\ calls[i].todo \subseteq needs[calls[i].name]
          /\ i < n => needs[calls[i].name] \subseteq
                        calls[i].todo \cup done \cup {calls[i + 1].name}
          /\ i = n => needs[calls[i].name] \subseteq calls[i].todo \cup done \cup {d}
      BY <3>1, <1>2 DEF Route
    <3>3. \A j \in 1 .. n + 1 : i # j => descent'[i].name # descent'[j].name
      BY <3>1, <3>2, <1>2, <1>3, <1>5, <1>6
    <3>4. \A j \in 1 .. n + 1 : i < j => descent'[j].name \in Needed(needs, descent'[i].name)
      <4>1. \A j \in 1 .. n + 1 : i < j => descent'[j].name \in Needed(needs, calls[i].name)
        BY <3>1, <3>2, <1>2, <1>3, <1>5, <1>7
      <4> QED BY <4>1, <3>1
    <3>5. /\ descent'[i].todo \subseteq needs[descent'[i].name] /\ i # n + 1
          /\ needs[descent'[i].name] \subseteq
               descent'[i].todo \cup done \cup {descent'[i + 1].name}
      <4>1. CASE i < n
        BY <4>1, <3>1, <3>2, <2>2
      <4>2. CASE i = n
        BY <4>2, <3>1, <3>2, <2>2, <1>3
      <4>3. i < n \/ i = n
        <5>1. n \in Nat
          BY <1>2
        <5> QED BY <5>1, <3>1
      <4>4. i # n + 1
        BY <2>2
      <4> QED BY <4>1, <4>2, <4>3, <4>4
    <3> QED BY <3>3, <3>4, <3>5
  <2> QED BY <2>1, <2>2
<1>10. DescentInv'
  <2>1. 1 .. n + 1 = (1 .. n) \cup {n + 1}
    BY <1>2
  <2>2. entered = {calls[i].name : i \in 1 .. n}
    <3>1. entered = {descent[i].name : i \in 1 .. n}
      BY <1>1 DEF DescentInv, n
    <3> QED BY <3>1, <1>2
  <2>3. entered' = {descent'[i].name : i \in 1 .. Len(descent')}
    BY <2>1, <2>2, <1>3, <1>5
  <2>4. descent' # <<>> /\ descent'[1].name = root'
    BY <1>1, <1>2, <1>5 DEF DescentInv
  <2>5. done' \subseteq Needed(needs, root')
    BY <1>1 DEF DescentInv, Needed
  <2> QED BY <2>3, <2>4, <2>5, <1>1, <1>9 DEF DescentInv
<1>11. NeedsListed'
  BY <1>1 DEF NeedsListed
<1>12. GraphTypeOK'
  BY <1>1, <1>3, <1>5 DEF GraphTypeOK, NeedCalls
<1> QED BY <1>10, <1>11, <1>12 DEF GraphInv, Answered

LEMMA NeededKeeps ==
  ASSUME GraphInv, NEW d \in Names, VisitNeeded(d), UNCHANGED graphVars
  PROVE  GraphInv'
<1>1. /\ answer = "pending" /\ d \in Innermost.todo
      /\ UNCHANGED <<root, registered, needs>>
      /\ GraphTypeOK /\ DescentInv
  BY DEF VisitNeeded, graphVars, GraphInv
<1>2. CASE RaiseError /\ (d \in entered \/ d \notin registered)
  <2>1. \E e \in {root} \cup Needed(needs, root) : e \notin registered \/ e \in Needed(needs, e)
    BY <1>1, <1>2, RaisedRightly
  <2>2. answer' = "raised" /\ UNCHANGED <<descent, entered, done, listed>>
    BY <1>2 DEF RaiseError
  <2>3. Answered'
    BY <2>1, <2>2, <1>1 DEF Answered
  <2>4. GraphTypeOK'
    BY <2>2, <1>1 DEF GraphTypeOK, NeedCalls
  <2> QED BY <2>2, <2>3, <2>4 DEF GraphInv
<1>3. CASE /\ d \in done /\ descent' = Without(d) /\ listed' = Listed(d)
           /\ UNCHANGED <<answer, entered, done>>
  BY <1>1, <1>3, PassKeeps
<1>4. CASE /\ d \notin entered \cup done /\ d \in registered
           /\ descent' = Append(Without(d), [name |-> d, todo |-> needs[d]])
           /\ entered' = entered \cup {d}
           /\ UNCHANGED <<answer, done, listed>>
  BY <1>1, <1>4, DescendKeeps
<1> QED BY <1>2, <1>3, <1>4 DEF VisitNeeded

\* A visit ends: the component is listed by the loop of the call before, or all
\* that the root needs has been.
LEMMA LeaveKeeps ==
  ASSUME GraphInv, Leave, UNCHANGED graphVars
  PROVE  GraphInv'
<1> DEFINE n == Len(descent)
           m == Len(listed)
           c == Innermost.name
<1>1. /\ answer = "pending" /\ Innermost.todo = {}
      /\ descent' = Front(descent)
      /\ entered' = entered \ {c} /\ done' = done \cup {c}
      /\ UNCHANGED <<root, registered, needs>>
      /\ GraphTypeOK /\ NeedsListed /\ DescentInv
  BY DEF Leave, graphVars, GraphInv
<1>2. /\ n \in Nat \ {0} /\ descent[n].name = c /\ c \in Names /\ c \in entered
      /\ c \notin done /\ m \in Nat /\ listed \in Seq(Names)
  BY <1>1, InnermostFacts DEF NeedCalls, DescentInv, GraphTypeOK
<1>3. needs[c] \subseteq done
  <2>1. n \in 1 .. n /\ descent[n].todo = {}
    BY <1>1, <1>2, InnermostFacts
  <2> QED BY <2>1, <1>1, <1>2 DEF DescentInv, Route
<1>4. /\ descent' \in Seq(NeedCalls) /\ Len(descent') = n - 1
      /\ \A i \in 1 .. n - 1 : descent'[i] = descent[i]
  <2>1. descent' = SubSeq(descent, 1, n - 1)
    BY <1>1 DEF Front
  <2>2. descent \in Seq(NeedCalls)
    BY <1>1 DEF GraphTypeOK
  <2>3. n - 1 \in Nat /\ n - 1 <= Len(descent)
    BY <1>2
  <2> HIDE DEF n
  <2>4. /\ SubSeq(descent, 1, n - 1) = [i \in 1 .. n - 1 |-> descent[i]]
        /\ \A i \in 1 .. n - 1 : descent[i] \in NeedCalls
    BY <2>2, <2>3
  <2> QED BY <2>1, <2>3, <2>4
<1>5. CASE Len(descent) = 1
  <2>1. answer' = "found" /\ listed' = listed /\ c = root
    BY <1>1, <1>2, <1>5 DEF Leave, DescentInv
  <2>2. GraphTypeOK'
    BY <1>1, <1>2, <1>4, <2>1 DEF GraphTypeOK, NeedCalls
  <2>3. /\ listed \in SetToSeqs(Needed(needs, root))
        /\ \A d \in {root} \cup Needed(needs, root) :
             d \in registered /\ d \notin Needed(needs, d)
    BY <1>1, <1>3, <2>1, ListedIsRight
  <2>4. Answered'
    BY <1>1, <2>1, <2>3 DEF Answered, NeedsListed
  <2> QED BY <2>1, <2>2, <2>4 DEF GraphInv
<1>6. CASE Len(descent) # 1
  <2>1. /\ 1 \in 1 .. n /\ n \in 1 .. n /\ 1 < n /\ 1 \in 1 .. n - 1
        /\ descent[1].name = root
    <3>1. descent[1].name = root
      BY <1>1 DEF DescentInv
    <3>2. n # 1 /\ n \in Nat \ {0}
      BY <1>2, <1>6
    <3> HIDE DEF n
    <3> QED BY <3>1, <3>2
  <2>2. c # root /\ c \in Needed(needs, root)
    BY <1>1, <1>2, <2>1 DEF DescentInv, Route
  <2>3. answer' = "pending" /\ listed' = Append(listed, c)
    BY <1>1, <1>2, <2>1, <2>2 DEF Leave, Listed, Contains, NeedsListed
  <2> HIDE DEF n, m, c
  <2>4. /\ listed' \in Seq(Names) /\ Len(listed') = m + 1 /\ listed'[m + 1] = c
        /\ \A i \in 1 .. m : listed'[i] = listed[i]
    BY <2>3, <1>2 DEF m
  <2>5. GraphTypeOK'
    BY <1>1, <1>2, <1>4, <2>3, <2>4 DEF GraphTypeOK, NeedCalls
  <2>6. NeedsListed'
    <3>1. /\ done = {listed[i] : i \in 1 .. m}
          /\ \A i, j \in 1 .. m : i # j => listed[i] # listed[j]
          /\ \A i \in 1 .. m : \A d \in needs[listed[i]] :
               \E j \in 1 .. i - 1 : listed[j] = d
      BY <1>1 DEF NeedsListed, m
    <3>2. 1 .. m + 1 = (1 .. m) \cup {m + 1} /\ (m + 1) - 1 = m
      BY <1>2
    <3>3. done' = {listed'[i] : i \in 1 .. m + 1}
      BY <3>1, <3>2, <1>1, <2>4
    <3>4. \A i, j \in 1 .. m + 1 : i # j => listed'[i] # listed'[j]
      BY <3>1, <3>2, <2>4, <1>2
    <3>5. ASSUME NEW i \in 1 .. m + 1, NEW d \in needs[listed'[i]]
          PROVE  \E j \in 1 .. i - 1 : listed'[j] = d
      <4>1. CASE i = m + 1
        <5>1. PICK j \in 1 .. m : listed[j] = d
          BY <4>1, <3>1, <3>5, <2>4, <1>3
        <5> QED BY <4>1, <5>1, <3>2, <2>4
      <4>2. CASE i # m + 1
        <5>1. i \in 1 .. m /\ d \in needs[listed[i]]
          BY <4>2, <3>2, <3>5, <2>4
        <5>2. PICK j \in 1 .. i - 1 : listed[j] = d
          BY <5>1, <3>1
        <5>3. j \in 1 .. m
          BY <5>1, <5>2, <1>2
        <5> QED BY <5>2, <5>3, <2>4
      <4> QED BY <4>1, <4>2
    <3> QED BY <3>3, <3>4, <3>5, <1>1, <2>4 DEF NeedsListed
  <2>7. DescentInv'
    <3>1. /\ entered = {descent[i].name : i \in 1 .. n}
          /\ \A i \in 1 .. n :
               /\ \A j \in 1 .. n : i # j => descent[i].name # descent[j].name
               /\ \A j \in 1 .. n :
                    i < j => descent[j].name \in Needed(needs, descent[i].name)
               /\ descent[i].todo \subseteq needs[descent[i].name]
               /\ i < n =>
                    needs[descent[i].name] \subseteq
                      descent[i].todo \cup done \cup {descent[i + 1].name}
      BY <1>1 DEF DescentInv, Route, n
    <3>2. 1 .. n = (1 .. n - 1) \cup {n} /\ n \notin 1 .. n - 1
      BY <1>2
    <3>3. entered' = {descent'[i].name : i \in 1 .. Len(descent')}
      <4>1. \A i \in 1 .. n - 1 : descent[i].name # c
        BY <3>1, <3>2, <1>2
      <4>2. entered \ {c} = {descent[i].name : i \in 1 .. n - 1}
        BY <4>1, <3>1, <3>2, <1>2
      <4> QED BY <4>2, <1>1, <1>4
    <3>4. Route(descent, {})'
      <4> SUFFICES ASSUME NEW i \in 1 .. n - 1
                   PROVE  /\ \A j \in 1 .. n - 1 :
                               i # j => descent'[i].name # descent'[j].name
                          /\ \A j \in 1 .. n - 1 :
                               i < j => descent'[j].name \in Needed(needs, descent'[i].name)
                          /\ descent'[i].todo \subseteq needs[descent'[i].name]
                          /\ i < n - 1 =>
                               needs[descent'[i].name] \subseteq
                                 descent'[i].todo \cup done' \cup {descent'[i + 1].name}
                          /\ i = n - 1 =>
                               needs[descent'[i].name] \subseteq
                                 descent'[i].todo \cup done'
        BY <1>1, <1>4 DEF Route
      <4>1. /\ i \in 1 .. n /\ i < n /\ descent'[i] = descent[i]
            /\ i < n - 1 => descent'[i + 1] = descent[i + 1]
            /\ i = n - 1 => descent[i + 1].name = c
        BY <1>2, <1>4
      <4>2. /\ \A j \in 1 .. n - 1 : i # j => descent'[i].name # descent'[j].name
            /\ \A j \in 1 .. n - 1 :
                 i < j => descent'[j].name \in Needed(needs, descent'[i].name)
        BY <4>1, <3>1, <3>2, <1>4
      <4> QED BY <4>1, <4>2, <3>1, <1>1
    <3>5. descent' # <<>> /\ descent'[1].name = root'
      BY <2>1, <1>1, <1>4
    <3>6. /\ entered' \cap done' = {} /\ entered' \cup done' \subseteq registered'
          /\ done' \subseteq Needed(needs, root)'
      BY <1>1, <1>2, <2>2 DEF DescentInv
    <3> QED BY <3>3, <3>4, <3>5, <3>6 DEF DescentInv
  <2>8. Answered'
    BY <2>3 DEF Answered
  <2> QED BY <2>5, <2>6, <2>7, <2>8 DEF GraphInv
<1> QED BY <1>5, <1>6

LEMMA ChangeKeeps ==
  ASSUME GraphInv, Change, Forget
  PROVE  GraphInv'
<1>1. registered' \subseteq Names /\ needs' \in [Names -> SUBSET Names]
  <2>1. registered \subseteq Names /\ needs \in [Names -> SUBSET Names]
    BY DEF GraphInv, GraphTypeOK
  <2>2. ASSUME NEW c \in Names, NEW D \in SUBSET Names, AddNeeds(c, D)
        PROVE  registered' \subseteq Names /\ needs' \in [Names -> SUBSET Names]
    BY <2>1, <2>2 DEF AddNeeds
  <2>3. ASSUME NEW c \in Names, NEW D \in SUBSET Names, SetNeeds(c, D)
        PROVE  registered' \subseteq Names /\ needs' \in [Names -> SUBSET Names]
    BY <2>1, <2>3 DEF SetNeeds
  <2>4. ASSUME NEW c \in Names, Unregister(c)
        PROVE  registered' \subseteq Names /\ needs' \in [Names -> SUBSET Names]
    BY <2>1, <2>4 DEF Unregister
  <2>5. CASE Clear
    BY <2>5 DEF Clear
  <2> QED BY <2>2, <2>3, <2>4, <2>5 DEF Change
<1>2. <<>> \in Seq(NeedCalls) /\ <<>> \in Seq(Names)
  OBVIOUS
<1> QED BY <1>1, <1>2 DEF Forget, GraphInv, GraphTypeOK, Answered, NeedCalls

LEMMA GraphKeeps == GraphInv /\ [GraphNext]_<<graphVars, orderVars>> => GraphInv'
<1> SUFFICES ASSUME GraphInv, [GraphNext]_<<graphVars, orderVars>> PROVE GraphInv'
  OBVIOUS
<1>1. CASE OrderStep /\ UNCHANGED graphVars
  BY <1>1, NeededKeeps, LeaveKeeps DEF OrderStep
<1>2. CASE UNCHANGED <<graphVars, orderVars>>
  <2>1. /\ UNCHANGED <<registered, needs>>
        /\ UNCHANGED <<answer, root, descent, entered, done, listed>>
    BY <1>2 DEF graphVars, orderVars
  <2>2. NeedsListed' = NeedsListed
    BY <2>1 DEF NeedsListed
  <2>3. DescentInv' = DescentInv
    BY <2>1 DEF DescentInv, Route, Needed
  <2>4. Answered' = Answered
    BY <2>1 DEF Answered, Needed
  <2>5. GraphTypeOK'
    BY <2>1 DEF GraphInv, GraphTypeOK, NeedCalls
  <2> QED BY <2>1, <2>2, <2>3, <2>4, <2>5 DEF GraphInv
<1> QED BY <1>1, <1>2, AskKeeps, ChangeKeeps DEF GraphNext

\* get_start_order of the dependency manager lists exactly what the component it is
\* asked for needs, directly or not, each after its own needs, and raises exactly if
\* something of it is not registered or needs itself: in any graph of any names.
THEOREM OrderIsRightHolds == GraphSpec => []OrderIsRight
<1>1. GraphInit => GraphInv
  <2>1. <<>> \in Seq(NeedCalls) /\ <<>> \in Seq(Names)
    OBVIOUS
  <2> QED BY <2>1 DEF GraphInit, NotAsked, GraphInv, GraphTypeOK, Answered, NeedCalls
<1>2. GraphInv => OrderIsRight
  <2> SUFFICES ASSUME GraphInv PROVE OrderIsRight
    OBVIOUS
  <2>1. \A c : AllNeeds(c) = Needed(needs, c)
    BY DEF AllNeeds, Complete, Needed
  <2>2. DOMAIN listed = 1 .. Len(listed)
    BY DEF GraphInv, GraphTypeOK
  <2> QED BY <2>1, <2>2 DEF GraphInv, Answered, OrderIsRight
<1> QED BY <1>1, <1>2, GraphKeeps, PTL DEF GraphSpec

=============================================================================
