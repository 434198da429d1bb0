------------------------ MODULE AgentPlacement_proofs ------------------------
(* Proofs about AgentPlacement, checked with the TLA+ proof system.        *)
EXTENDS AgentPlacement, FiniteSetTheorems, TLAPS

-----------------------------------------------------------------------------
(* Types.                                                                  *)

\* The initial state is of the right type.
LEMMA TypeInit == Init => TypeOK
BY ProfilesAssumption DEF Init, TypeOK, PcValues

\* The sets whose sizes the counts are.
LEMMA PlacedFinite ==
  \A p : /\ IsFiniteSet(PlacedOn(p)) /\ Cardinality(PlacedOn(p)) \in Nat
         /\ PlacedOn(p) \subseteq Devices
BY DevicesAssumption, FS_Subset, FS_CardinalityType DEF PlacedOn

\* What a caller's locals look like after it has gone on.
LEMMA GotoTyped ==
  ASSUME TypeOK, NEW t \in Callers, NEW l \in PcValues,
         NEW k \in {"idle", "find", "unregister"}, GotoThen(t, l, k),
         pc[t] # "idle" \/ l = "idle"
  PROVE  /\ pc' \in [Callers -> PcValues]
         /\ dev' \in [Callers -> Devices \cup {NoDev}]
         /\ hint' \in [Callers -> Profiles \cup {NoProfile}]
         /\ then' \in [Callers -> {"idle", "find", "unregister"}]
         /\ pc'[t] = l
         /\ \A u \in Callers : pc'[u] # "idle" => dev'[u] \in Devices
         /\ \A u \in Callers \ {t} : pc'[u] = pc[u]
<1>1. /\ pc' \in [Callers -> PcValues]
      /\ dev' \in [Callers -> Devices \cup {NoDev}]
      /\ hint' \in [Callers -> Profiles \cup {NoProfile}]
  BY DEF TypeOK, GotoThen
<1>2. then' \in [Callers -> {"idle", "find", "unregister"}]
  BY DEF TypeOK, GotoThen
<1>3. pc'[t] = l /\ \A u \in Callers \ {t} : pc'[u] = pc[u]
  BY DEF TypeOK, GotoThen
<1>4. \A u \in Callers : pc'[u] # "idle" => dev'[u] \in Devices
  BY DEF TypeOK, GotoThen
<1> QED BY <1>1, <1>2, <1>3, <1>4

\* A release lowers the count of one profile by at most one, and by one if it is
\* counted and not 0.
LEMMA CountLessTyped ==
  ASSUME count \in [Profiles -> Nat], NEW p \in Profiles
  PROVE  /\ CountLess(p) \in [Profiles -> Nat]
         /\ CountLess(p)[p] <= count[p]
         /\ p \in counted /\ count[p] > 0 => CountLess(p)[p] = count[p] - 1
         /\ \A q \in Profiles \ {p} : CountLess(p)[q] = count[q]
<1> DEFINE n == IF p \in counted /\ count[p] > 0 THEN count[p] - 1
                 ELSE count[p]
<1>2. n \in Nat /\ n <= count[p]
  OBVIOUS
<1>3. CountLess(p) = [count EXCEPT ![p] = n]
  BY DEF CountLess
<1>4. CountLess(p)[p] = n
  BY <1>3
<1>5. p \in counted /\ count[p] > 0 => n = count[p] - 1
  OBVIOUS
<1> HIDE DEF n
<1> QED BY <1>2, <1>3, <1>4, <1>5

\* Every step keeps the types, and with them the arguments that each program
\* counter relies on.
LEMMA TypeStep == TypeOK /\ [Next]_vars => TypeOK'
<1> SUFFICES ASSUME TypeOK, [Next]_vars PROVE TypeOK'
  OBVIOUS
<1> USE ProfilesAssumption, DevicesAssumption, AgentsAssumption
<1>1. ASSUME NEW t \in Callers, Assign(t) PROVE TypeOK'
  <2>1. ASSUME NEW d \in Devices, NEW h \in Profiles \cup {NoProfile},
               AssignRequested(t, d, h)
        PROVE  TypeOK'
    BY <2>1 DEF TypeOK, PcValues, AssignRequested, Call, schedulerVars,
                registryVars
  <2>2. CASE CheckOverride(t)
    <3>1. \/ GotoThen(t, "release", "find") \/ GotoThen(t, "find", then[t])
      BY <2>2 DEF CheckOverride, Goto
    <3>2. then[t] \in {"idle", "find", "unregister"} /\ pc[t] = "override"
      BY <2>2 DEF CheckOverride, TypeOK
    <3>3. UNCHANGED <<profiles, counted, count, assigned, under, agents, known,
                      published, forgotten, withdrawn, chosen, agent>>
      BY <2>2 DEF CheckOverride, schedulerVars, registryVars
    <3>4. CASE GotoThen(t, "release", "find")
      <4> "release" \in PcValues BY DEF PcValues
      <4> QED BY <3>2, <3>3, <3>4, GotoTyped DEF TypeOK
    <3>5. CASE GotoThen(t, "find", then[t])
      <4> "find" \in PcValues BY DEF PcValues
      <4> QED BY <3>2, <3>3, <3>5, GotoTyped DEF TypeOK
    <3> QED BY <3>1, <3>4, <3>5
  <2>3. ASSUME NEW p \in Profiles, FindAgent(t, p) PROVE TypeOK'
    BY <2>3 DEF TypeOK, PcValues, FindAgent, Goto, GotoThen, schedulerVars,
                registryVars
  <2>4. CASE NoSuitableAgent(t)
    BY <2>4 DEF TypeOK, PcValues, NoSuitableAgent, Goto, GotoThen,
                schedulerVars, registryVars
  <2>5. CASE ReuseAssignment(t)
    BY <2>5 DEF TypeOK, PcValues, ReuseAssignment, HasAssignment, Goto,
                GotoThen, schedulerVars, registryVars
  <2>6. ASSUME NEW a \in Agents, CommitAssignment(t, a) PROVE TypeOK'
    BY <2>6 DEF TypeOK, PcValues, CommitAssignment, Record, Goto, GotoThen,
                registryVars
  <2>7. CASE PublishAgent(t)
    BY <2>7 DEF TypeOK, PcValues, PublishAgent, Goto, GotoThen, schedulerVars
  <2> QED BY <1>1, <2>1, <2>2, <2>3, <2>4, <2>5, <2>6, <2>7 DEF Assign
<1>2. ASSUME NEW t \in Callers, Release(t) PROVE TypeOK'
  <2>1. ASSUME NEW d \in Devices, ReleaseRequested(t, d) PROVE TypeOK'
    BY <2>1 DEF TypeOK, PcValues, ReleaseRequested, Call, schedulerVars,
                registryVars
  <2>2. CASE NothingToRelease(t)
    BY <2>2 DEF TypeOK, PcValues, NothingToRelease, Goto, GotoThen,
                schedulerVars, registryVars
  <2>3. CASE ReleaseAssignment(t)
    <3>1. count' \in [Profiles -> Nat]
      <4>1. count' = CountLess(under[dev[t]]) /\ count \in [Profiles -> Nat]
        BY <2>3 DEF TypeOK, ReleaseAssignment
      <4>2. CASE under[dev[t]] \in Profiles
        BY <4>1, <4>2, CountLessTyped
      <4>3. CASE under[dev[t]] \notin Profiles
        BY <4>1, <4>3 DEF CountLess
      <4> QED BY <4>2, <4>3
    <3> QED BY <2>3, <3>1 DEF TypeOK, PcValues, ReleaseAssignment,
               HasAssignment, Goto, GotoThen, registryVars
  <2>4. CASE UnpublishAgent(t)
    BY <2>4 DEF TypeOK, PcValues, UnpublishAgent, Goto, GotoThen, schedulerVars
  <2> QED BY <1>2, <2>1, <2>2, <2>3, <2>4 DEF Release
<1>3. ASSUME NEW t \in Callers, Events(t) PROVE TypeOK'
  <2>1. ASSUME NEW d \in Devices, RegisterDevice(t, d) PROVE TypeOK'
    <3>1. /\ UNCHANGED <<profiles, counted, count, assigned, under, agents,
                          published, forgotten, withdrawn, chosen, agent>>
          /\ known' = known \cup {d}
      BY <2>1 DEF RegisterDevice, schedulerVars
    <3>2. CASE Call(t, d, NoProfile, "connected", "idle")
      BY <3>1, <3>2 DEF TypeOK, PcValues, Call
    <3>3. CASE GotoThen(t, "idle", then[t])
      <4> then[t] \in {"idle", "find", "unregister"} /\ "idle" \in PcValues
        BY DEF TypeOK, PcValues
      <4> QED BY <3>1, <3>3, GotoTyped DEF TypeOK
    <3> QED BY <2>1, <3>2, <3>3 DEF RegisterDevice, Goto
  <2>2. ASSUME NEW d \in Devices, DeviceEvent(t, d) PROVE TypeOK'
    <3>1. CASE Call(t, d, NoProfile, "connected", "idle")
      BY <2>2, <3>1 DEF TypeOK, PcValues, DeviceEvent, Call, schedulerVars,
                        registryVars
    <3>2. CASE Call(t, d, NoProfile, "disconnected", "idle")
      BY <2>2, <3>2 DEF TypeOK, PcValues, DeviceEvent, Call, schedulerVars,
                        registryVars
    <3> QED BY <2>2, <3>1, <3>2 DEF DeviceEvent
  <2>3. CASE HandleConnected(t)
    BY <2>3 DEF TypeOK, PcValues, HandleConnected, Goto, GotoThen,
                schedulerVars, registryVars
  <2>4. CASE HandleDisconnected(t)
    BY <2>4 DEF TypeOK, PcValues, HandleDisconnected, GotoThen, schedulerVars,
                registryVars
  <2>5. ASSUME NEW d \in Devices, RemoveRequested(t, d) PROVE TypeOK'
    BY <2>5 DEF TypeOK, PcValues, RemoveRequested, Call, schedulerVars,
                registryVars
  <2>6. CASE UnregisterDevice(t)
    BY <2>6 DEF TypeOK, PcValues, UnregisterDevice, Goto, GotoThen,
                schedulerVars
  <2> QED BY <1>3, <2>1, <2>2, <2>3, <2>4, <2>5, <2>6 DEF Events
<1>4. ASSUME NEW a \in Agents, RemoveAgentResource(a) PROVE TypeOK'
  BY <1>4 DEF TypeOK, RemoveAgentResource, schedulerVars, callVars
<1>5. ASSUME NEW p \in Profiles, RegisterProfile(p) \/ UnregisterProfile(p)
      PROVE  TypeOK'
  <2>1. CASE RegisterProfile(p)
    BY <2>1, PlacedFinite DEF TypeOK, RegisterProfile, registryVars, callVars
  <2>2. CASE UnregisterProfile(p)
    BY <2>2, PlacedFinite DEF TypeOK, UnregisterProfile, registryVars, callVars
  <2> QED BY <1>5, <2>1, <2>2
<1>6. CASE ClearScheduler
  BY <1>6 DEF TypeOK, ClearScheduler, callVars
<1>7. CASE ClearResources
  BY <1>7 DEF TypeOK, ClearResources, schedulerVars, callVars
<1>8. CASE UNCHANGED vars
  BY <1>8 DEF TypeOK, vars
<1> QED BY <1>1, <1>2, <1>3, <1>4, <1>5, <1>6, <1>7, <1>8 DEF Next

\* Every reachable state is well typed, and each program counter has its device,
\* profile or agent: no operation of app.py uses a local it has not set.
THEOREM TypeCorrect == Spec => []TypeOK
<1>1. Init => TypeOK BY TypeInit
<1>2. TypeOK /\ [Next]_vars => TypeOK' BY TypeStep
<1> QED BY <1>1, <1>2, PTL DEF Spec

-----------------------------------------------------------------------------
(* The steps that matter to the scheduler and its agents, and the rest.    *)

\* Where a caller holds a profile or an agent.
Holding == {"commit", "publish", "unpublish"}

\* A step that changes neither the scheduler nor what callers hold.
Quiet ==
  /\ UNCHANGED <<profiles, counted, count, assigned, under, agents, published,
                 forgotten, withdrawn, chosen, agent>>
  /\ \A t \in Callers :
       pc[t] \in Holding \/ pc'[t] \in Holding => pc'[t] = pc[t]

\* A caller that goes from one place where it holds nothing to another.
LEMMA QuietGoto ==
  ASSUME TypeOK, NEW t \in Callers, NEW l, NEW k, GotoThen(t, l, k),
         pc[t] \notin Holding, l \notin Holding
  PROVE  \A u \in Callers :
           pc[u] \in Holding \/ pc'[u] \in Holding => pc'[u] = pc[u]
<1> ASSUME NEW u \in Callers
    PROVE  pc[u] \in Holding \/ pc'[u] \in Holding => pc'[u] = pc[u]
  BY DEF TypeOK, GotoThen
<1> QED OBVIOUS

\* The same for a caller that starts an operation.
LEMMA QuietCall ==
  ASSUME TypeOK, NEW t \in Callers, NEW d, NEW h, NEW l, NEW k,
         Call(t, d, h, l, k), l \notin Holding
  PROVE  \A u \in Callers :
           pc[u] \in Holding \/ pc'[u] \in Holding => pc'[u] = pc[u]
<1>1. pc[t] \notin Holding
  BY DEF Call, Holding
<1> ASSUME NEW u \in Callers
    PROVE  pc[u] \in Holding \/ pc'[u] \in Holding => pc'[u] = pc[u]
  BY <1>1 DEF TypeOK, Call
<1> QED OBVIOUS

\* The requests, checks and event handlers are quiet.
LEMMA QuietSteps ==
  ASSUME TypeOK, NEW t \in Callers,
         \/ \E d \in Devices : \/ \E h \in Profiles \cup {NoProfile} :
                                    AssignRequested(t, d, h)
                               \/ ReleaseRequested(t, d) \/ RegisterDevice(t, d)
                               \/ DeviceEvent(t, d) \/ RemoveRequested(t, d)
         \/ CheckOverride(t) \/ NoSuitableAgent(t) \/ NothingToRelease(t)
         \/ HandleConnected(t) \/ HandleDisconnected(t) \/ UnregisterDevice(t)
  PROVE  Quiet
<1> USE DEF schedulerVars, registryVars
<1>1. ASSUME NEW d \in Devices, NEW h \in Profiles \cup {NoProfile},
             AssignRequested(t, d, h)
      PROVE  Quiet
  <2>1. "override" \notin Holding BY DEF Holding
  <2> QED BY <1>1, <2>1, QuietCall DEF Quiet, AssignRequested
<1>2. ASSUME NEW d \in Devices, ReleaseRequested(t, d) \/ RemoveRequested(t, d)
      PROVE  Quiet
  <2>1. "release" \notin Holding BY DEF Holding
  <2>2. CASE ReleaseRequested(t, d)
    BY <2>1, <2>2, QuietCall DEF Quiet, ReleaseRequested
  <2>3. CASE RemoveRequested(t, d)
    BY <2>1, <2>3, QuietCall DEF Quiet, RemoveRequested
  <2> QED BY <1>2, <2>2, <2>3
<1>3. ASSUME NEW d \in Devices, RegisterDevice(t, d) \/ DeviceEvent(t, d)
      PROVE  Quiet
  <2>1. /\ "connected" \notin Holding /\ "disconnected" \notin Holding
        /\ "idle" \notin Holding
    BY DEF Holding
  <2>2. UNCHANGED <<profiles, counted, count, assigned, under, agents,
                    published, forgotten, withdrawn, chosen, agent>>
    BY <1>3 DEF RegisterDevice, DeviceEvent
  <2>3. \/ Call(t, d, NoProfile, "connected", "idle")
        \/ Call(t, d, NoProfile, "disconnected", "idle")
        \/ pc[t] = "idle" /\ GotoThen(t, "idle", then[t])
    BY <1>3 DEF RegisterDevice, DeviceEvent, Goto
  <2> QED BY <2>1, <2>2, <2>3, QuietCall, QuietGoto DEF Quiet
<1>4. ASSUME \/ CheckOverride(t) \/ NoSuitableAgent(t) \/ NothingToRelease(t)
             \/ HandleConnected(t) \/ HandleDisconnected(t)
             \/ UnregisterDevice(t)
      PROVE  Quiet
  <2>1. UNCHANGED <<profiles, counted, count, assigned, under, agents,
                    published, forgotten, withdrawn, chosen, agent>>
    BY <1>4 DEF CheckOverride, NoSuitableAgent, NothingToRelease,
                HandleConnected, HandleDisconnected, UnregisterDevice
  <2>2. pc[t] \notin Holding
    BY <1>4 DEF CheckOverride, NoSuitableAgent, NothingToRelease,
                HandleConnected, HandleDisconnected, UnregisterDevice, Holding
  <2>3. \E l, k : l \notin Holding /\ GotoThen(t, l, k)
    <3>1. CASE CheckOverride(t)
      BY <3>1 DEF CheckOverride, Goto, Holding
    <3>2. CASE NoSuitableAgent(t)
      BY <3>2 DEF NoSuitableAgent, Goto, Holding
    <3>3. CASE NothingToRelease(t)
      <4>1. then[t] \notin Holding BY DEF TypeOK, Holding
      <4> QED BY <3>3, <4>1 DEF NothingToRelease, Goto
    <3>4. CASE HandleConnected(t)
      BY <3>4 DEF HandleConnected, Goto, Holding
    <3>5. CASE HandleDisconnected(t)
      BY <3>5 DEF HandleDisconnected, Holding
    <3>6. CASE UnregisterDevice(t)
      BY <3>6 DEF UnregisterDevice, Goto, Holding
    <3> QED BY <1>4, <3>1, <3>2, <3>3, <3>4, <3>5, <3>6
  <2> QED BY <2>1, <2>2, <2>3, QuietGoto DEF Quiet
<1> QED BY <1>1, <1>2, <1>3, <1>4

\* Every step is quiet or one of these.
LEMMA StepKinds ==
  ASSUME TypeOK, [Next]_vars
  PROVE  \/ \E t \in Callers : \/ \E p \in Profiles : FindAgent(t, p)
                               \/ ReuseAssignment(t)
                               \/ \E a \in Agents : CommitAssignment(t, a)
                               \/ PublishAgent(t) \/ ReleaseAssignment(t)
                               \/ UnpublishAgent(t)
         \/ \E a \in Agents : RemoveAgentResource(a)
         \/ \E p \in Profiles : RegisterProfile(p) \/ UnregisterProfile(p)
         \/ ClearScheduler \/ ClearResources
         \/ Quiet
<1>1. CASE UNCHANGED vars
  BY <1>1 DEF vars, Quiet
<1>2. CASE Next
  BY <1>2, QuietSteps DEF Next, Assign, Release, Events
<1> QED BY <1>1, <1>2

-----------------------------------------------------------------------------
(* The two tables of the scheduler.                                        *)

\* A new assignment gives a device without agent an agent nothing refers to.
LEMMA CommitFacts ==
  ASSUME TypeOK, AgentsMatch, NEW t \in Callers, NEW a \in Agents,
         CommitAssignment(t, a)
  PROVE  /\ dev[t] \in Devices /\ assigned[dev[t]] = NoAgent
         /\ a # NoAgent /\ a \notin agents /\ a \notin published
         /\ \A d \in Devices : assigned[d] # a
         /\ \A u \in Callers : agent[u] # a
<1>1. dev[t] \in Devices
  BY DEF TypeOK, CommitAssignment
<1>2. assigned[dev[t]] = NoAgent
  BY <1>1 DEF CommitAssignment, HasAssignment, AgentsMatch
<1>3. a \in FreshAgents
  BY DEF CommitAssignment
<1> QED BY <1>1, <1>2, <1>3, AgentsAssumption DEF FreshAgents

\* No agent is assigned at the start.
LEMMA MatchInit == Init => AgentsMatch
BY DEF Init, AgentsMatch

\* Every step keeps the two tables in agreement.
LEMMA MatchStep ==
  ASSUME TypeOK, AgentsMatch, [Next]_vars
  PROVE  AgentsMatch'
<1>1. ASSUME NEW t \in Callers, NEW a \in Agents, CommitAssignment(t, a)
      PROVE  AgentsMatch'
  <2>1. assigned' = [assigned EXCEPT ![dev[t]] = a] /\ agents' = agents \cup {a}
    BY <1>1 DEF CommitAssignment, Record
  <2> QED BY <1>1, <2>1, CommitFacts DEF AgentsMatch, TypeOK
<1>2. ASSUME NEW t \in Callers, ReleaseAssignment(t) PROVE AgentsMatch'
  <2>1. /\ dev[t] \in Devices /\ assigned[dev[t]] # NoAgent
        /\ assigned' = [assigned EXCEPT ![dev[t]] = NoAgent]
        /\ agents' = agents \ {assigned[dev[t]]}
    BY <1>2 DEF ReleaseAssignment, HasAssignment, TypeOK
  <2> QED BY <2>1 DEF AgentsMatch, TypeOK
<1>3. CASE ClearScheduler
  BY <1>3 DEF ClearScheduler, AgentsMatch
<1>4. CASE UNCHANGED <<assigned, agents>>
  BY <1>4 DEF AgentsMatch
<1>5. ASSUME NEW t \in Callers,
             \/ \E p \in Profiles : FindAgent(t, p)
             \/ ReuseAssignment(t) \/ PublishAgent(t) \/ UnpublishAgent(t)
      PROVE  UNCHANGED <<assigned, agents>>
  BY <1>5 DEF FindAgent, ReuseAssignment, PublishAgent, UnpublishAgent,
              schedulerVars
<1>6. ASSUME \/ \E a \in Agents : RemoveAgentResource(a)
             \/ \E p \in Profiles : RegisterProfile(p) \/ UnregisterProfile(p)
             \/ ClearResources \/ Quiet
      PROVE  UNCHANGED <<assigned, agents>>
  BY <1>6 DEF RemoveAgentResource, RegisterProfile, UnregisterProfile,
              ClearResources, Quiet, schedulerVars
<1> QED BY <1>1, <1>2, <1>3, <1>4, <1>5, <1>6, StepKinds

\* _assignments and _agent_resources of the scheduler agree in every reachable
\* state, whatever callers, events and shutdown interleave.
THEOREM AgentsMatchHolds == Spec => []AgentsMatch
<1>1. Init => TypeOK /\ AgentsMatch BY TypeInit, MatchInit
<1>2. (TypeOK /\ AgentsMatch) /\ [Next]_vars => (TypeOK /\ AgentsMatch)'
  BY TypeStep, MatchStep
<1> QED BY <1>1, <1>2, PTL DEF Spec

\* scheduler.assign never replaces an assignment that was made between its two
\* lock sections.
THEOREM NeverReplacedHolds == Spec => NeverReplaced
<1> DEFINE Kept == \A d \in Devices :
             HasAssignment(d) => assigned'[d] \in {assigned[d], NoAgent}
<1>1. ASSUME TypeOK, AgentsMatch, Next PROVE Kept
  <2>1. ASSUME NEW t \in Callers, NEW a \in Agents, CommitAssignment(t, a)
        PROVE  Kept
    <3>1. assigned' = [assigned EXCEPT ![dev[t]] = a]
      BY <2>1 DEF CommitAssignment, Record
    <3> QED BY <2>1, <3>1, <1>1, CommitFacts DEF HasAssignment, TypeOK
  <2>2. ASSUME NEW t \in Callers, ReleaseAssignment(t) PROVE Kept
    BY <2>2, <1>1 DEF ReleaseAssignment, TypeOK
  <2>3. CASE ClearScheduler
    BY <2>3 DEF ClearScheduler
  <2>4. ASSUME \/ \E t \in Callers : \/ \E p \in Profiles : FindAgent(t, p)
                                     \/ ReuseAssignment(t) \/ PublishAgent(t)
                                     \/ UnpublishAgent(t)
               \/ \E a \in Agents : RemoveAgentResource(a)
               \/ \E p \in Profiles : RegisterProfile(p) \/ UnregisterProfile(p)
               \/ ClearResources \/ Quiet
        PROVE  assigned' = assigned
    BY <2>4 DEF FindAgent, ReuseAssignment, PublishAgent, UnpublishAgent,
                RemoveAgentResource, RegisterProfile, UnregisterProfile,
                ClearResources, Quiet, schedulerVars
  <2> QED BY <1>1, <2>1, <2>2, <2>3, <2>4, StepKinds
<1>2. ASSUME TypeOK, AgentsMatch, [Next]_vars PROVE [Kept]_vars
  BY <1>1, <1>2
<1>3. [](TypeOK /\ AgentsMatch) /\ [][Next]_vars => [][Kept]_vars
  BY <1>2, PTL
<1>4. [][Kept]_vars => NeverReplaced
  BY DEF NeverReplaced
<1>5. Spec => []TypeOK BY TypeCorrect
<1>6. Spec => []AgentsMatch BY AgentsMatchHolds
<1>7. Spec => [][Next]_vars BY DEF Spec
<1>8. []TypeOK /\ []AgentsMatch => [](TypeOK /\ AgentsMatch) BY PTL
<1> QED BY <1>3, <1>4, <1>5, <1>6, <1>7, <1>8

-----------------------------------------------------------------------------
(* The agents in the resource registry.                                    *)

\* A caller about to withdraw an agent has released it: nobody is served by it.
Withdrawn == \A t \in Callers : pc[t] = "unpublish" => agent[t] \notin agents

PublishInv == TypeOK /\ AgentsMatch /\ Withdrawn /\ AgentPublished

\* No agent is assigned, published or withdrawn at the start.
LEMMA PublishInit == Init => PublishInv
BY TypeInit, MatchInit DEF Init, PublishInv, Withdrawn, AgentPublished,
   HasAssignment

\* One caller's program counter and agent change, at most.
OnlyCaller(t) ==
  \A u \in Callers \ {t} : pc'[u] = pc[u] /\ agent'[u] = agent[u]

\* No step of an operation withdraws the resource of an agent that serves a
\* device; what removes it by hand or stops the application is written down.
LEMMA PublishStep ==
  ASSUME PublishInv, [Next]_vars
  PROVE  Withdrawn' /\ AgentPublished'
<1> USE DEF PublishInv
<1>1. ASSUME NEW t \in Callers, NEW a \in Agents, CommitAssignment(t, a)
      PROVE  Withdrawn' /\ AgentPublished'
  <2>1. /\ assigned' = [assigned EXCEPT ![dev[t]] = a]
        /\ agents' = agents \cup {a}
        /\ UNCHANGED <<published, withdrawn>>
        /\ agent' = [agent EXCEPT ![t] = a]
    BY <1>1 DEF CommitAssignment, Record, registryVars
  <2>2. OnlyCaller(t) /\ agent'[t] = a /\ pc'[t] = "publish" /\ pc[t] = "commit"
    BY <1>1, <2>1 DEF CommitAssignment, Goto, GotoThen, OnlyCaller, TypeOK
  <2>3. Withdrawn'
    BY <1>1, <2>1, <2>2, CommitFacts DEF Withdrawn, OnlyCaller
  <2>4. AgentPublished'
    <3> SUFFICES ASSUME NEW d \in Devices, assigned'[d] # NoAgent
                 PROVE  \/ assigned'[d] \in published' \cup withdrawn'
                        \/ \E u \in Callers : pc'[u] = "publish"
                                             /\ agent'[u] = assigned'[d]
      BY DEF AgentPublished, HasAssignment
    <3>1. CASE d = dev[t]
      BY <3>1, <2>1, <2>2 DEF TypeOK
    <3>2. CASE d # dev[t]
      <4>1. assigned'[d] = assigned[d] BY <3>2, <2>1 DEF TypeOK
      <4> QED BY <4>1, <2>1, <2>2 DEF AgentPublished, HasAssignment, OnlyCaller
    <3> QED BY <3>1, <3>2
  <2> QED BY <2>3, <2>4
<1>2. ASSUME NEW t \in Callers, ReleaseAssignment(t)
      PROVE  Withdrawn' /\ AgentPublished'
  <2>1. /\ dev[t] \in Devices /\ assigned[dev[t]] # NoAgent
        /\ assigned' = [assigned EXCEPT ![dev[t]] = NoAgent]
        /\ agents' = agents \ {assigned[dev[t]]} /\ published' = published
        /\ withdrawn' = withdrawn \ {assigned[dev[t]]}
        /\ agent' = [agent EXCEPT ![t] = assigned[dev[t]]]
    BY <1>2 DEF ReleaseAssignment, HasAssignment, TypeOK
  <2>2. /\ OnlyCaller(t) /\ agent'[t] = assigned[dev[t]]
        /\ pc[t] = "release"
    BY <1>2, <2>1 DEF ReleaseAssignment, Goto, GotoThen, OnlyCaller, TypeOK
  <2>3. Withdrawn'
    BY <2>1, <2>2 DEF Withdrawn, OnlyCaller
  <2>4. \A d \in Devices :
          assigned'[d] # NoAgent
            => assigned'[d] = assigned[d] /\ assigned[d] # assigned[dev[t]]
    BY <2>1 DEF TypeOK, AgentsMatch
  <2>5. AgentPublished'
    BY <2>1, <2>2, <2>4 DEF AgentPublished, HasAssignment, OnlyCaller
  <2> QED BY <2>3, <2>5
<1>3. ASSUME NEW t \in Callers, PublishAgent(t)
      PROVE  Withdrawn' /\ AgentPublished'
  <2>1. /\ UNCHANGED <<assigned, agents>> /\ pc[t] = "publish"
        /\ published' = published \cup {agent[t]}
        /\ withdrawn' = withdrawn \ {agent[t]}
    BY <1>3 DEF PublishAgent, schedulerVars
  <2>2. OnlyCaller(t) /\ pc'[t] = "idle"
    BY <1>3 DEF PublishAgent, Goto, GotoThen, OnlyCaller, TypeOK
  <2> QED BY <2>1, <2>2 DEF Withdrawn, AgentPublished, HasAssignment, OnlyCaller
<1>4. ASSUME NEW t \in Callers, UnpublishAgent(t)
      PROVE  Withdrawn' /\ AgentPublished'
  <2>1. /\ UNCHANGED <<assigned, agents>> /\ agent[t] \notin agents
        /\ published' = published \ {agent[t]} /\ pc[t] = "unpublish"
        /\ withdrawn' = withdrawn
    BY <1>4 DEF UnpublishAgent, schedulerVars, Withdrawn
  <2>2. OnlyCaller(t) /\ pc'[t] # "unpublish"
    BY <1>4 DEF UnpublishAgent, Goto, GotoThen, OnlyCaller, TypeOK
  <2>3. \A d \in Devices : assigned[d] # NoAgent => assigned[d] # agent[t]
    BY <2>1 DEF AgentsMatch
  <2> QED BY <2>1, <2>2, <2>3
          DEF Withdrawn, AgentPublished, HasAssignment, OnlyCaller
<1>5. ASSUME NEW t \in Callers, ReuseAssignment(t)
      PROVE  Withdrawn' /\ AgentPublished'
  <2>1. UNCHANGED <<assigned, agents, published, withdrawn>> /\ pc[t] = "commit"
    BY <1>5 DEF ReuseAssignment, schedulerVars, registryVars
  <2>2. OnlyCaller(t) /\ pc'[t] = "publish"
    BY <1>5 DEF ReuseAssignment, Goto, GotoThen, OnlyCaller, TypeOK
  <2> QED BY <2>1, <2>2 DEF Withdrawn, AgentPublished, HasAssignment, OnlyCaller
<1>6. ASSUME NEW t \in Callers, NEW p \in Profiles, FindAgent(t, p)
      PROVE  Withdrawn' /\ AgentPublished'
  <2>1. /\ UNCHANGED <<assigned, agents, published, withdrawn, agent>>
        /\ pc[t] = "find"
    BY <1>6 DEF FindAgent, schedulerVars, registryVars
  <2>2. OnlyCaller(t) /\ pc'[t] = "commit"
    BY <1>6 DEF FindAgent, Goto, GotoThen, OnlyCaller, TypeOK
  <2> QED BY <2>1, <2>2 DEF Withdrawn, AgentPublished, HasAssignment, OnlyCaller
<1>7. ASSUME (\E a \in Agents : RemoveAgentResource(a)) \/ ClearResources
      PROVE  Withdrawn' /\ AgentPublished'
  <2>1. UNCHANGED <<assigned, agents, pc, agent>>
    BY <1>7 DEF RemoveAgentResource, ClearResources, schedulerVars, callVars
  <2>2. agents \cap (published \cup withdrawn)
          \subseteq published' \cup withdrawn'
    BY <1>7 DEF RemoveAgentResource, ClearResources
  <2>3. \A d \in Devices : assigned[d] # NoAgent => assigned[d] \in agents
    BY DEF AgentsMatch
  <2> QED BY <2>1, <2>2, <2>3 DEF Withdrawn, AgentPublished, HasAssignment
<1>8. ASSUME NEW p \in Profiles, RegisterProfile(p) \/ UnregisterProfile(p)
      PROVE  Withdrawn' /\ AgentPublished'
  <2>1. UNCHANGED <<assigned, agents, published, withdrawn, pc, agent>>
    BY <1>8 DEF RegisterProfile, UnregisterProfile, registryVars, callVars
  <2> QED BY <2>1 DEF Withdrawn, AgentPublished, HasAssignment
<1>9. CASE Quiet
  <2>1. \A t \in Callers : pc[t] = "publish" <=> pc'[t] = "publish"
    BY <1>9 DEF Quiet, Holding
  <2>2. \A t \in Callers : pc[t] = "unpublish" <=> pc'[t] = "unpublish"
    BY <1>9 DEF Quiet, Holding
  <2> QED BY <1>9, <2>1, <2>2 DEF Quiet, Withdrawn, AgentPublished, HasAssignment
<1>10. CASE ClearScheduler
  <2>1. /\ agents' = {} /\ UNCHANGED <<pc, agent>>
        /\ \A d \in Devices : assigned'[d] = NoAgent
    BY <1>10 DEF ClearScheduler, callVars
  <2> QED BY <2>1 DEF Withdrawn, AgentPublished, HasAssignment
<1> QED BY <1>1, <1>2, <1>3, <1>4, <1>5, <1>6, <1>7, <1>8, <1>9, <1>10,
           StepKinds

\* Every agent that serves a device is in the resource registry, or about to be
\* put there by the caller that placed it, unless its own resource was removed.
THEOREM AgentPublishedHolds == Spec => []AgentPublished
<1>1. Init => PublishInv BY PublishInit
<1>2. PublishInv /\ [Next]_vars => PublishInv'
  BY TypeStep, MatchStep, PublishStep DEF PublishInv
<1>3. PublishInv => AgentPublished BY DEF PublishInv
<1> QED BY <1>1, <1>2, <1>3, PTL DEF Spec

-----------------------------------------------------------------------------
(* Capacity, as the scheduler counts it.                                   *)

\* The callers that have found profile p and not yet used the place.
Pending(p) == {t \in Callers : pc[t] = "commit" /\ chosen[t] = p}

\* The places taken and about to be taken: what is inductive about
\* OvercommitBounded.
CapacityInv ==
  \A p \in Profiles :
    count[p] + Cardinality(Pending(p))
      < MaxAssignments[p] + Cardinality(Callers)

\* No more callers are in between than there are.
LEMMA PendingBounded ==
  \A p : /\ IsFiniteSet(Pending(p)) /\ Cardinality(Pending(p)) \in Nat
         /\ Cardinality(Pending(p)) <= Cardinality(Callers)
         /\ Cardinality(Callers) \in Nat \ {0}
<1> TAKE p
<1>1. Pending(p) \subseteq Callers BY DEF Pending
<1> QED BY <1>1, CallersAssumption, FS_Subset, FS_CardinalityType, FS_EmptySet

\* A step that takes no place and finds none leaves the bound alone.
LEMMA CapacityKept ==
  ASSUME TypeOK, TypeOK', CapacityInv,
         \A p \in Profiles : count'[p] <= count[p] \/ count'[p] = 0,
         \A p \in Profiles : Pending(p)' \subseteq Pending(p)
  PROVE  CapacityInv'
<1> SUFFICES ASSUME NEW p \in Profiles
             PROVE  count'[p] + Cardinality(Pending(p)')
                      < MaxAssignments[p] + Cardinality(Callers)
  BY DEF CapacityInv
<1> DEFINE m == Cardinality(Pending(p))
           n == Cardinality(Pending(p)')
           all == Cardinality(Callers)
<1>1. n \in Nat /\ m \in Nat /\ n <= m /\ m <= all /\ all \in Nat
  BY PendingBounded, FS_Subset, FS_CardinalityType
<1>2. /\ count[p] \in Nat /\ count'[p] \in Nat /\ MaxAssignments[p] \in Nat
      /\ MaxAssignments[p] > 0
  BY ProfilesAssumption DEF TypeOK
<1>3. count[p] + m < MaxAssignments[p] + all
  BY DEF CapacityInv
<1>4. count'[p] <= count[p] \/ count'[p] = 0
  OBVIOUS
<1> HIDE DEF m, n, all
<1>5. count'[p] + n < MaxAssignments[p] + all
  BY <1>1, <1>2, <1>3, <1>4
<1> QED BY <1>5 DEF n, all

\* At the start every profile counts zero agents and no call is pending.
LEMMA CapacityInit == Init => CapacityInv
<1> SUFFICES ASSUME Init, NEW p \in Profiles
             PROVE  count[p] + Cardinality(Pending(p))
                      < MaxAssignments[p] + Cardinality(Callers)
  BY DEF CapacityInv
<1>1. Pending(p) = {} BY DEF Init, Pending
<1>2. MaxAssignments[p] \in Nat /\ MaxAssignments[p] > 0
  BY ProfilesAssumption
<1> QED BY <1>1, <1>2, PendingBounded, FS_EmptySet DEF Init

\* Every step keeps the bound: only a commit raises a count, and it takes
\* the place of the pending call that made it.
LEMMA CapacityStep ==
  ASSUME TypeOK, TypeOK', CapacityInv, [Next]_vars PROVE CapacityInv'
<1>1. ASSUME NEW t \in Callers, NEW q \in Profiles, FindAgent(t, q)
      PROVE  CapacityInv'
  <2>1. /\ count' = count /\ pc[t] = "find"
        /\ chosen' = [chosen EXCEPT ![t] = q]
    BY <1>1 DEF FindAgent, schedulerVars
  <2>2. pc'[t] = "commit" /\ \A u \in Callers \ {t} : pc'[u] = pc[u]
    BY <1>1 DEF FindAgent, Goto, GotoThen, TypeOK
  <2>3. count[q] < MaxAssignments[q]
    <3>1. q \in Suitable(dev[t], hint[t])
      BY <1>1 DEF FindAgent
    <3>2. ASSUME NEW d, NEW h, q \in Suitable(d, h) PROVE HasCapacity(q)
      <4>1. CASE q \in Candidates(d)
        BY <4>1 DEF Candidates
      <4>2. CASE q \notin Candidates(d)
        <5>1. q \notin {h} \cap Candidates(d)
          BY <4>2
        <5>2. q \notin {p \in Candidates(d) :
                         \A r \in Candidates(d) : Score[d][p] >= Score[d][r]}
          BY <4>2
        <5> QED BY <3>2, <5>1, <5>2 DEF Suitable
      <4> QED BY <4>1, <4>2
    <3> QED BY <3>1, <3>2 DEF HasCapacity
  <2> SUFFICES ASSUME NEW p \in Profiles
               PROVE  count'[p] + Cardinality(Pending(p)')
                        < MaxAssignments[p] + Cardinality(Callers)
    BY DEF CapacityInv
  <2>4. CASE p = q
    <3>1. Pending(p)' \subseteq Callers BY DEF Pending
    <3>2. /\ Cardinality(Pending(p)') \in Nat
          /\ Cardinality(Pending(p)') <= Cardinality(Callers)
      BY <3>1, CallersAssumption, FS_Subset, FS_CardinalityType
    <3>3. count[p] \in Nat /\ MaxAssignments[p] \in Nat
      BY ProfilesAssumption DEF TypeOK
    <3> QED BY <2>1, <2>3, <2>4, <3>2, <3>3, PendingBounded
  <2>5. CASE p # q
    <3>1. Pending(p)' = Pending(p)
      BY <2>1, <2>2, <2>5 DEF Pending, TypeOK
    <3> QED BY <2>1, <3>1 DEF CapacityInv
  <2> QED BY <2>4, <2>5
<1>2. ASSUME NEW t \in Callers, NEW a \in Agents, CommitAssignment(t, a)
      PROVE  CapacityInv'
  <2> DEFINE q == chosen[t]
  <2>1. /\ q \in Profiles /\ pc[t] = "commit"
        /\ count' = [count EXCEPT ![q] = @ + 1]
        /\ chosen' = [chosen EXCEPT ![t] = NoProfile]
    BY <1>2 DEF CommitAssignment, Record, TypeOK
  <2>2. pc'[t] = "publish" /\ \A u \in Callers \ {t} : pc'[u] = pc[u]
    BY <1>2 DEF CommitAssignment, Goto, GotoThen, TypeOK
  <2> SUFFICES ASSUME NEW p \in Profiles
               PROVE  count'[p] + Cardinality(Pending(p)')
                        < MaxAssignments[p] + Cardinality(Callers)
    BY DEF CapacityInv
  <2>3. count[p] + Cardinality(Pending(p))
          < MaxAssignments[p] + Cardinality(Callers)
    BY DEF CapacityInv
  <2>4. CASE p = q
    <3>1. Pending(p)' = Pending(p) \ {t} /\ t \in Pending(p)
      BY <2>1, <2>2, <2>4 DEF Pending, TypeOK
    <3>2. Cardinality(Pending(p)') = Cardinality(Pending(p)) - 1
      <4>1. IsFiniteSet(Pending(p)) BY PendingBounded
      <4> QED BY <3>1, <4>1, FS_RemoveElement
    <3>3. /\ count[p] \in Nat /\ count'[p] = count[p] + 1
          /\ MaxAssignments[p] \in Nat
      BY <2>1, <2>4, ProfilesAssumption DEF TypeOK
    <3> QED BY <2>3, <3>2, <3>3, PendingBounded
  <2>5. CASE p # q
    <3>1. Pending(p)' = Pending(p)
      BY <2>1, <2>2, <2>5 DEF Pending, TypeOK
    <3>2. count'[p] = count[p]
      BY <2>1, <2>5 DEF TypeOK
    <3> QED BY <2>3, <3>1, <3>2
  <2> QED BY <2>4, <2>5
<1>3. ASSUME NEW t \in Callers, ReuseAssignment(t) PROVE CapacityInv'
  <2>1. count' = count
    BY <1>3 DEF ReuseAssignment, schedulerVars
  <2>2. /\ pc'[t] = "publish" /\ \A u \in Callers \ {t} : pc'[u] = pc[u]
        /\ \A u \in Callers \ {t} : chosen'[u] = chosen[u]
    BY <1>3 DEF ReuseAssignment, Goto, GotoThen, TypeOK
  <2>3. \A p \in Profiles : Pending(p)' \subseteq Pending(p)
    BY <2>2 DEF Pending
  <2>4. \A p \in Profiles : count'[p] <= count[p]
    BY <2>1 DEF TypeOK
  <2> QED BY <2>3, <2>4, CapacityKept
<1>4. ASSUME NEW t \in Callers, PublishAgent(t) \/ UnpublishAgent(t)
      PROVE  CapacityInv'
  <2>1. count' = count /\ chosen' = chosen
    BY <1>4 DEF PublishAgent, UnpublishAgent, schedulerVars
  <2>2. pc'[t] # "commit" /\ \A u \in Callers \ {t} : pc'[u] = pc[u]
    BY <1>4 DEF PublishAgent, UnpublishAgent, Goto, GotoThen, TypeOK
  <2>3. \A p \in Profiles : Pending(p)' \subseteq Pending(p)
    BY <2>1, <2>2 DEF Pending
  <2>4. \A p \in Profiles : count'[p] <= count[p]
    BY <2>1 DEF TypeOK
  <2> QED BY <2>3, <2>4, CapacityKept
<1>5. ASSUME NEW t \in Callers, ReleaseAssignment(t) PROVE CapacityInv'
  <2>1. count' = CountLess(under[dev[t]]) /\ chosen' = chosen
    BY <1>5 DEF ReleaseAssignment
  <2>2. pc'[t] # "commit" /\ \A u \in Callers \ {t} : pc'[u] = pc[u]
    BY <1>5 DEF ReleaseAssignment, Goto, GotoThen, TypeOK
  <2>3. \A p \in Profiles : Pending(p)' \subseteq Pending(p)
    BY <2>1, <2>2 DEF Pending
  <2>4. \A p \in Profiles : count'[p] <= count[p]
    <3>1. ASSUME NEW q \in Profiles, count' = CountLess(q), NEW p \in Profiles
          PROVE  count'[p] <= count[p]
      <4>1. CASE p = q
        BY <3>1, <4>1, CountLessTyped DEF TypeOK
      <4>2. CASE p # q
        <5>1. count'[p] = count[p] /\ count[p] \in Nat
          BY <3>1, <4>2, CountLessTyped DEF TypeOK
        <5> QED BY <5>1
      <4> QED BY <4>1, <4>2
    <3>2. CASE under[dev[t]] \notin Profiles
      <4>1. CountLess(under[dev[t]]) = count
        BY <3>2 DEF TypeOK, CountLess
      <4> QED BY <2>1, <4>1 DEF TypeOK
    <3> QED BY <2>1, <3>1, <3>2
  <2> QED BY <2>3, <2>4, CapacityKept
<1>6. ASSUME \/ \E a \in Agents : RemoveAgentResource(a)
             \/ \E p \in Profiles : RegisterProfile(p) \/ UnregisterProfile(p)
             \/ ClearScheduler \/ ClearResources
      PROVE  CapacityInv'
  <2>1. pc' = pc /\ chosen' = chosen
    BY <1>6 DEF RemoveAgentResource, RegisterProfile, UnregisterProfile,
                ClearScheduler, ClearResources, callVars
  <2>2. \A p \in Profiles : Pending(p)' \subseteq Pending(p)
    BY <2>1 DEF Pending
  <2>3. \A p \in Profiles : count'[p] = count[p] \/ count'[p] = 0
    BY <1>6 DEF RemoveAgentResource, RegisterProfile, UnregisterProfile,
                ClearScheduler, ClearResources, schedulerVars, TypeOK
  <2>4. \A p \in Profiles : count'[p] <= count[p] \/ count'[p] = 0
    BY <2>3 DEF TypeOK
  <2> QED BY <2>2, <2>4, CapacityKept
<1>7. CASE Quiet
  <2>1. \A p \in Profiles : Pending(p)' \subseteq Pending(p)
    BY <1>7 DEF Quiet, Pending, Holding
  <2>2. \A p \in Profiles : count'[p] <= count[p]
    BY <1>7 DEF Quiet, TypeOK
  <2> QED BY <2>1, <2>2, CapacityKept
<1> QED BY <1>1, <1>2, <1>3, <1>4, <1>5, <1>6, <1>7, StepKinds

-----------------------------------------------------------------------------
(* The counts of the profiles.                                             *)

\* What is inductive about CountsMatch: a profile without a count counts nothing.
CountInv ==
  CountsMatch /\ \A p \in Profiles \ counted : count[p] = 0

\* At the start no agent is placed and every count is zero.
LEMMA CountInit == Init => CountInv
<1> SUFFICES ASSUME Init PROVE CountInv
  OBVIOUS
<1>1. \A p \in Profiles : PlacedOn(p) = {}
  BY ProfilesAssumption DEF Init, PlacedOn
<1>2. \A p \in Profiles : count[p] = 0 /\ forgotten[p] = 0
                          /\ Cardinality(PlacedOn(p)) = 0
  BY <1>1, FS_EmptySet DEF Init
<1> QED BY <1>2 DEF Init, CountInv, CountsMatch

\* A new assignment adds one to the devices on its profile and to their count.
LEMMA CountCommit ==
  ASSUME TypeOK, AgentsMatch, CountInv, NEW t \in Callers, NEW a \in Agents,
         CommitAssignment(t, a)
  PROVE  CountInv'
<1> DEFINE q == chosen[t]
           d == dev[t]
<1>1. /\ q \in Profiles /\ d \in Devices /\ assigned[d] = NoAgent
      /\ count' = [count EXCEPT ![q] = @ + 1] /\ counted' = counted \cup {q}
      /\ assigned' = [assigned EXCEPT ![d] = a] /\ forgotten' = forgotten
      /\ under' = [under EXCEPT ![d] = q]
  BY CommitFacts DEF CommitAssignment, Record, TypeOK
<1>2. under[d] = NoProfile
  BY <1>1, ProfilesAssumption DEF CountInv, CountsMatch, TypeOK
<1>3. ASSUME NEW e \in Devices
      PROVE  assigned'[e] = NoAgent <=> under'[e] = NoProfile
  <2>1. assigned[e] = NoAgent <=> under[e] = NoProfile
    BY DEF CountInv, CountsMatch
  <2> QED BY <1>1, <2>1, ProfilesAssumption, AgentsAssumption DEF TypeOK
<1>4. ASSUME NEW p \in Profiles
      PROVE  /\ count'[p] <= Cardinality(PlacedOn(p)')
             /\ Cardinality(PlacedOn(p)') <= count'[p] + forgotten'[p]
  <2>1. /\ count[p] \in Nat /\ forgotten[p] \in Nat
        /\ Cardinality(PlacedOn(p)) \in Nat /\ IsFiniteSet(PlacedOn(p))
        /\ count[p] <= Cardinality(PlacedOn(p))
        /\ Cardinality(PlacedOn(p)) <= count[p] + forgotten[p]
    BY PlacedFinite DEF CountInv, CountsMatch, TypeOK
  <2>2. CASE p = q
    <3>1. PlacedOn(p)' = PlacedOn(p) \cup {d} /\ d \notin PlacedOn(p)
      BY <1>1, <1>2, <2>2, ProfilesAssumption DEF PlacedOn, TypeOK
    <3>2. Cardinality(PlacedOn(p)') = Cardinality(PlacedOn(p)) + 1
      <4>1. IsFiniteSet(PlacedOn(p)) BY PlacedFinite
      <4> QED BY <3>1, <4>1, FS_AddElement
    <3>3. count'[p] = count[p] + 1
      BY <1>1, <2>2 DEF TypeOK
    <3> QED BY <1>1, <2>1, <3>2, <3>3
  <2>3. CASE p # q
    <3>1. PlacedOn(p)' = PlacedOn(p)
      BY <1>1, <1>2, <2>3, ProfilesAssumption DEF PlacedOn, TypeOK
    <3>2. count'[p] = count[p]
      BY <1>1, <2>3 DEF TypeOK
    <3> QED BY <1>1, <2>1, <3>1, <3>2
  <2> QED BY <2>2, <2>3
<1>5. ASSUME NEW p \in Profiles \ counted' PROVE count'[p] = 0
  BY <1>1, <1>5 DEF CountInv, TypeOK
<1> QED BY <1>3, <1>4, <1>5 DEF CountInv, CountsMatch

\* A release takes one from the devices on its profile and, unless the count is
\* gone or 0, one from their count.
LEMMA CountRelease ==
  ASSUME TypeOK, CountInv, NEW t \in Callers, ReleaseAssignment(t)
  PROVE  CountInv'
<1> DEFINE d == dev[t]
           q == under[d]
<1>1. /\ d \in Devices /\ assigned[d] # NoAgent
      /\ count' = CountLess(q) /\ counted' = counted
      /\ assigned' = [assigned EXCEPT ![d] = NoAgent]
      /\ under' = [under EXCEPT ![d] = NoProfile] /\ forgotten' = forgotten
  BY DEF ReleaseAssignment, HasAssignment, TypeOK
<1>2. q \in Profiles
  BY <1>1 DEF CountInv, CountsMatch, TypeOK
<1>3. ASSUME NEW e \in Devices
      PROVE  assigned'[e] = NoAgent <=> under'[e] = NoProfile
  <2>1. assigned[e] = NoAgent <=> under[e] = NoProfile
    BY DEF CountInv, CountsMatch
  <2> QED BY <1>1, <2>1 DEF TypeOK
<1>4. ASSUME NEW p \in Profiles
      PROVE  /\ count'[p] <= Cardinality(PlacedOn(p)')
             /\ Cardinality(PlacedOn(p)') <= count'[p] + forgotten'[p]
             /\ p \notin counted' => count'[p] = 0
  <2>1. /\ count[p] \in Nat /\ forgotten[p] \in Nat
        /\ Cardinality(PlacedOn(p)) \in Nat /\ IsFiniteSet(PlacedOn(p))
        /\ count[p] <= Cardinality(PlacedOn(p))
        /\ Cardinality(PlacedOn(p)) <= count[p] + forgotten[p]
        /\ p \notin counted => count[p] = 0
    BY PlacedFinite DEF CountInv, CountsMatch, TypeOK
  <2>2. CASE p = q
    <3>1. PlacedOn(p)' = PlacedOn(p) \ {d} /\ d \in PlacedOn(p)
      BY <1>1, <2>2, ProfilesAssumption DEF PlacedOn, TypeOK
    <3>2. Cardinality(PlacedOn(p)') = Cardinality(PlacedOn(p)) - 1
      <4>1. IsFiniteSet(PlacedOn(p)) BY PlacedFinite
      <4> QED BY <3>1, <4>1, FS_RemoveElement
    <3>3. Cardinality(PlacedOn(p)) > 0
      <4>1. IsFiniteSet(PlacedOn(p)) BY PlacedFinite
      <4>2. Cardinality(PlacedOn(p)) # 0 BY <3>1, <4>1, FS_EmptySet
      <4> QED BY <2>1, <4>2
    <3>4. CASE p \in counted /\ count[p] > 0
      <4>1. count'[p] = count[p] - 1
        BY <1>1, <2>2, <3>4, CountLessTyped DEF TypeOK
      <4> QED BY <1>1, <2>1, <3>2, <3>3, <3>4, <4>1
    <3>5. CASE ~(p \in counted /\ count[p] > 0)
      <4>1. count[p] = 0
        BY <2>1, <3>5
      <4>2. count'[p] \in Nat /\ count'[p] <= count[p]
        BY <1>1, <2>2, CountLessTyped DEF TypeOK
      <4> QED BY <1>1, <2>1, <3>2, <3>3, <4>1, <4>2
    <3> QED BY <3>4, <3>5
  <2>3. CASE p # q
    <3>1. PlacedOn(p)' = PlacedOn(p)
      BY <1>1, <2>3, ProfilesAssumption DEF PlacedOn, TypeOK
    <3>2. count'[p] = count[p]
      BY <1>1, <1>2, <2>3, CountLessTyped DEF TypeOK
    <3> QED BY <1>1, <2>1, <3>1, <3>2
  <2> QED BY <2>2, <2>3
<1> QED BY <1>3, <1>4 DEF CountInv, CountsMatch

\* A profile that is registered or unregistered counts nothing, and what is on
\* it is forgotten.
LEMMA CountReprofile ==
  ASSUME TypeOK, CountInv, NEW q \in Profiles,
         RegisterProfile(q) \/ UnregisterProfile(q)
  PROVE  CountInv'
<1>1. /\ count' = [count EXCEPT ![q] = 0]
      /\ forgotten' = [forgotten EXCEPT ![q] = Cardinality(PlacedOn(q))]
      /\ counted' = counted \cup {q} \/ counted' = counted \ {q}
      /\ UNCHANGED <<assigned, under>>
  BY DEF RegisterProfile, UnregisterProfile
<1>2. ASSUME NEW p \in Profiles
      PROVE  /\ count'[p] <= Cardinality(PlacedOn(p)')
             /\ Cardinality(PlacedOn(p)') <= count'[p] + forgotten'[p]
             /\ p \notin counted' => count'[p] = 0
  <2>1. PlacedOn(p)' = PlacedOn(p) /\ Cardinality(PlacedOn(p)) \in Nat
    BY <1>1, PlacedFinite DEF PlacedOn
  <2>2. CASE p = q
    <3>1. count'[p] = 0 /\ forgotten'[p] = Cardinality(PlacedOn(p))
      BY <1>1, <2>2 DEF TypeOK
    <3> QED BY <2>1, <3>1
  <2>3. CASE p # q
    <3>1. /\ count'[p] = count[p] /\ forgotten'[p] = forgotten[p]
          /\ p \in counted => p \in counted'
      BY <1>1, <2>3 DEF TypeOK
    <3> QED BY <2>1, <3>1 DEF CountInv, CountsMatch
  <2> QED BY <2>2, <2>3
<1> QED BY <1>1, <1>2 DEF CountInv, CountsMatch

\* Every step moves the counts with the assignments.
LEMMA CountStep ==
  ASSUME TypeOK, AgentsMatch, CountInv, [Next]_vars
  PROVE  CountInv'
<1>1. CASE ClearScheduler
  <2>1. /\ counted' = counted /\ count' = [p \in Profiles |-> 0]
        /\ forgotten' = [p \in Profiles |-> 0]
        /\ assigned' = [d \in Devices |-> NoAgent]
        /\ under' = [d \in Devices |-> NoProfile]
    BY <1>1 DEF ClearScheduler
  <2>2. \A p \in Profiles : PlacedOn(p)' = {}
    BY <2>1, ProfilesAssumption DEF PlacedOn
  <2>3. \A p \in Profiles : /\ count'[p] = 0 /\ forgotten'[p] = 0
                            /\ Cardinality(PlacedOn(p)') = 0
    BY <2>1, <2>2, FS_EmptySet
  <2> QED BY <2>1, <2>3 DEF CountInv, CountsMatch
<1>2. ASSUME \/ \E t \in Callers : \/ \E p \in Profiles : FindAgent(t, p)
                                   \/ ReuseAssignment(t) \/ PublishAgent(t)
                                   \/ UnpublishAgent(t)
             \/ \E a \in Agents : RemoveAgentResource(a)
             \/ ClearResources \/ Quiet
      PROVE  CountInv'
  <2>1. UNCHANGED <<counted, count, assigned, under, forgotten>>
    BY <1>2 DEF FindAgent, ReuseAssignment, PublishAgent, UnpublishAgent,
                RemoveAgentResource, ClearResources, Quiet, schedulerVars
  <2> QED BY <2>1 DEF CountInv, CountsMatch, PlacedOn
<1> QED BY <1>1, <1>2, CountCommit, CountRelease, CountReprofile, StepKinds

\* The scheduler's counts, its capacity and its tables, in every reachable state.
LEMMA CountsKept == Spec => [](TypeOK /\ CapacityInv /\ CountInv)
<1> DEFINE Inv == TypeOK /\ AgentsMatch /\ CapacityInv /\ CountInv
<1>1. Init => Inv
  BY TypeInit, MatchInit, CapacityInit, CountInit
<1>2. Inv /\ [Next]_vars => Inv'
  BY TypeStep, MatchStep, CapacityStep, CountStep
<1>3. Inv => TypeOK /\ CapacityInv /\ CountInv
  OBVIOUS
<1> QED BY <1>1, <1>2, <1>3, PTL DEF Spec

\* The count the capacity check reads is the number of devices placed on the
\* profile, less at most those that were on it when it was last (un)registered.
THEOREM CountsMatchHolds == Spec => []CountsMatch
<1>1. TypeOK /\ CapacityInv /\ CountInv => CountsMatch BY DEF CountInv
<1> QED BY <1>1, CountsKept, PTL

\* find_suitable_agent checks the capacity under another lock section than the
\* one that takes the place, yet the devices placed on a profile exceed its
\* maximum by fewer than there are callers, and those it was made to forget.
THEOREM OvercommitBoundedHolds == Spec => []OvercommitBounded
<1>1. ASSUME TypeOK, CapacityInv, CountInv, NEW p \in Profiles
      PROVE  Cardinality(PlacedOn(p))
               < MaxAssignments[p] + forgotten[p] + Cardinality(Callers)
  <2>1. /\ count[p] + Cardinality(Pending(p))
             < MaxAssignments[p] + Cardinality(Callers)
        /\ count[p] \in Nat /\ forgotten[p] \in Nat
        /\ MaxAssignments[p] \in Nat
    BY <1>1, ProfilesAssumption DEF CapacityInv, TypeOK
  <2>2. Cardinality(PlacedOn(p)) <= count[p] + forgotten[p]
    BY <1>1 DEF CountInv, CountsMatch
  <2> QED BY <2>1, <2>2, PendingBounded, PlacedFinite
<1>2. TypeOK /\ CapacityInv /\ CountInv => OvercommitBounded
  BY <1>1 DEF OvercommitBounded
<1> QED BY <1>2, CountsKept, PTL

\* The scheduler's tables agree, and the overcommitment is bounded, whatever
\* happens to profiles, resources and the application.
THEOREM TablesKeptHolds == Spec => []TablesKept
<1>1. TypeOK /\ AgentsMatch /\ OvercommitBounded => TablesKept
  BY DEF TablesKept
<1> QED
  BY <1>1, TypeCorrect, AgentsMatchHolds, OvercommitBoundedHolds, PTL

=============================================================================
