--------------------------- MODULE AgentPlacement ---------------------------
(***************************************************************************)
(* Placement of devices on host agents: AgentScheduler                     *)
(* (core/scheduler/scheduler.py) and the operations of CoreApplication     *)
(* (core/application/app.py) that drive it and publish its agents in the   *)
(* resource registry.                                                      *)
(*                                                                         *)
(* The portal's threads, the handler threads of the transport and the      *)
(* event handlers they run call these operations concurrently. The         *)
(* scheduler holds its lock for one method at a time, so an operation of   *)
(* the application is a sequence of steps, and other callers run in        *)
(* between.                                                                *)
(***************************************************************************)
EXTENDS Naturals, FiniteSets

CONSTANTS Callers,             \* threads that call the operations
          Devices, Profiles,   \* resources of type device, AgentProfiles
          Agents,              \* agent ids, fresh UUIDs in the code
          NoDev, NoAgent, NoProfile,
          MaxAssignments,      \* profile.max_assignments
          Score,               \* score_for, ties broken by the profile id
          Fallback,            \* the profile "asis-local"
          AutoAssign           \* agent.auto_assign

ASSUME CallersAssumption == IsFiniteSet(Callers) /\ Callers # {}
ASSUME DevicesAssumption == IsFiniteSet(Devices) /\ NoDev \notin Devices
ASSUME AgentsAssumption == NoAgent \notin Agents
ASSUME ProfilesAssumption ==
  /\ NoProfile \notin Profiles
  /\ MaxAssignments \in [Profiles -> Nat \ {0}]
  /\ Score \in [Devices -> [Profiles -> Nat]]
ASSUME AutoAssignAssumption == AutoAssign \in BOOLEAN

VARIABLES
  profiles,   \* keys of _profiles
  counted,    \* keys of _profile_assignment_counts
  count,      \* its values, 0 where there is no key
  assigned,   \* _assignments[device].agent_id
  under,      \* _assignments[device].profile_id
  agents,     \* keys of _agent_resources
  known,      \* devices in the resource registry
  published,  \* agents in the resource registry
  forgotten,  \* history: devices on a profile when it was last (un)registered
  withdrawn,  \* history: live agents whose resource somebody else removed
  pc,         \* where each caller is
  dev, hint,  \* its arguments
  chosen,     \* the profile find_suitable_agent gave it
  agent,      \* the agent it has assigned or released
  then        \* where it goes on after a release

schedulerVars == <<counted, count, assigned, under, agents, forgotten>>
registryVars == <<known, published, withdrawn>>
callVars == <<pc, dev, hint, chosen, agent, then>>
vars == <<profiles, counted, count, assigned, under, agents, known, published,
          forgotten, withdrawn, pc, dev, hint, chosen, agent, then>>

PcValues == {"idle", "connected", "disconnected", "override", "find", "commit",
             "publish", "release", "unpublish", "unregister"}

-----------------------------------------------------------------------------
\* A caller goes on at l, and from there at k after a release; the locals of an
\* operation end with it.
GotoThen(t, l, k) ==
  /\ pc' = [pc EXCEPT ![t] = l]
  /\ dev' = [dev EXCEPT ![t] = IF l = "idle" THEN NoDev ELSE @]
  /\ hint' = [hint EXCEPT ![t] = IF l = "idle" THEN NoProfile ELSE @]
  /\ then' = [then EXCEPT ![t] = IF l = "idle" THEN "idle" ELSE k]

Goto(t, l) == GotoThen(t, l, then[t])

\* A caller starts an operation on device d.
Call(t, d, h, l, k) ==
  /\ pc[t] = "idle"
  /\ pc' = [pc EXCEPT ![t] = l]
  /\ dev' = [dev EXCEPT ![t] = d]
  /\ hint' = [hint EXCEPT ![t] = h]
  /\ then' = [then EXCEPT ![t] = k]

\* _assignments.get(device_id) is not None
HasAssignment(d) == assigned[d] # NoAgent

\* Faulty: the last free place is one too many.
HasCapacityOffByOne(p) == count[p] <= MaxAssignments[p]

\* count < max_assignments
HasCapacity(p) == count[p] < MaxAssignments[p]

\* Profiles that have capacity and a positive score for d.
Candidates(d) == {p \in profiles : HasCapacity(p) /\ Score[d][p] > 0}

\* find_suitable_agent: the hinted profile if it qualifies, else the candidate
\* with the highest score, else the fallback if it has capacity.
Suitable(d, h) ==
  LET C == Candidates(d)
  IN  IF h # NoProfile THEN {h} \cap C
      ELSE IF C # {} THEN {p \in C : \A q \in C : Score[d][p] >= Score[d][q]}
      ELSE {p \in profiles : p = Fallback /\ HasCapacity(p)}

\* uuid4: an id nothing refers to.
FreshAgents ==
  Agents \ (agents \cup published \cup {agent[t] : t \in Callers}
                   \cup {assigned[d] : d \in Devices})

Init ==
  /\ profiles = Profiles /\ counted = Profiles
  /\ count = [p \in Profiles |-> 0]
  /\ assigned = [d \in Devices |-> NoAgent]
  /\ under = [d \in Devices |-> NoProfile]
  /\ agents = {} /\ known = {} /\ published = {}
  /\ forgotten = [p \in Profiles |-> 0] /\ withdrawn = {}
  /\ pc = [t \in Callers |-> "idle"]
  /\ dev = [t \in Callers |-> NoDev]
  /\ hint = [t \in Callers |-> NoProfile]
  /\ chosen = [t \in Callers |-> NoProfile]
  /\ agent = [t \in Callers |-> NoAgent]
  /\ then = [t \in Callers |-> "idle"]

-----------------------------------------------------------------------------
(* _assign_agent: agent.assign, agent.infer, the portal, the auto handler. *)

\* The device is fetched from the resource registry.
AssignRequested(t, d, h) ==
  /\ d \in known
  /\ Call(t, d, h, "override", "idle")
  /\ UNCHANGED <<profiles, schedulerVars, registryVars, chosen, agent>>

\* An assignment under another profile than the hinted one is released first.
CheckOverride(t) ==
  /\ pc[t] = "override"
  /\ IF /\ HasAssignment(dev[t])
        /\ hint[t] # NoProfile /\ under[dev[t]] # hint[t]
       THEN GotoThen(t, "release", "find")
       ELSE Goto(t, "find")
  /\ UNCHANGED <<profiles, schedulerVars, registryVars, chosen, agent>>

\* scheduler.assign: find_suitable_agent, under the lock.
FindAgent(t, p) ==
  /\ pc[t] = "find" /\ p \in Suitable(dev[t], hint[t])
  /\ chosen' = [chosen EXCEPT ![t] = p]
  /\ Goto(t, "commit")
  /\ UNCHANGED <<profiles, schedulerVars, registryVars, agent>>

\* NoSuitableAgent is raised.
NoSuitableAgent(t) ==
  /\ pc[t] = "find" /\ Suitable(dev[t], hint[t]) = {}
  /\ Goto(t, "idle")
  /\ UNCHANGED <<profiles, schedulerVars, registryVars, chosen, agent>>

\* scheduler.assign, under the lock again: an existing assignment is returned.
ReuseAssignment(t) ==
  /\ pc[t] = "commit"
  /\ HasAssignment(dev[t]) /\ assigned[dev[t]] \in agents
  /\ agent' = [agent EXCEPT ![t] = assigned[dev[t]]]
  /\ chosen' = [chosen EXCEPT ![t] = NoProfile]
  /\ Goto(t, "publish")
  /\ UNCHANGED <<profiles, schedulerVars, registryVars>>

\* The records of a new assignment of agent a, and the count of the profile.
Record(t, a) ==
  /\ agents' = agents \cup {a}
  /\ assigned' = [assigned EXCEPT ![dev[t]] = a]
  /\ under' = [under EXCEPT ![dev[t]] = chosen[t]]
  /\ count' = [count EXCEPT ![chosen[t]] = @ + 1]
  /\ counted' = counted \cup {chosen[t]}
  /\ agent' = [agent EXCEPT ![t] = a]
  /\ chosen' = [chosen EXCEPT ![t] = NoProfile]
  /\ UNCHANGED <<profiles, forgotten, registryVars>>

\* Faulty: an assignment made since is not looked for, or the agent is never
\* published.
CommitBlindly(t, a) ==
  pc[t] = "commit" /\ a \in FreshAgents /\ Record(t, a) /\ Goto(t, "publish")
CommitUnpublished(t, a) ==
  /\ pc[t] = "commit" /\ a \in FreshAgents
  /\ ~(HasAssignment(dev[t]) /\ assigned[dev[t]] \in agents)
  /\ Record(t, a) /\ Goto(t, "idle")

\* Otherwise an agent is created. An assignment whose agent is missing is
\* dropped first, and the count of its profile left as it is.
CommitAssignment(t, a) ==
  /\ pc[t] = "commit" /\ a \in FreshAgents
  /\ ~(HasAssignment(dev[t]) /\ assigned[dev[t]] \in agents)
  /\ Record(t, a) /\ Goto(t, "publish")

\* resources.register(agent), or an update in place when it is there already.
PublishAgent(t) ==
  /\ pc[t] = "publish"
  /\ published' = published \cup {agent[t]}
  /\ withdrawn' = withdrawn \ {agent[t]}
  /\ agent' = [agent EXCEPT ![t] = NoAgent]
  /\ Goto(t, "idle")
  /\ UNCHANGED <<profiles, schedulerVars, known, chosen>>

-----------------------------------------------------------------------------
(* _release_agent: agent.release, the portal, an override, a removal, the  *)
(* DEVICE_DISCONNECTED handler.                                            *)

ReleaseRequested(t, d) ==
  /\ Call(t, d, NoProfile, "release", "idle")
  /\ UNCHANGED <<profiles, schedulerVars, registryVars, chosen, agent>>

\* AssignmentNotFound: raised to the caller of a plain release, swallowed where
\* the release is part of something else.
NothingToRelease(t) ==
  /\ pc[t] = "release" /\ ~HasAssignment(dev[t])
  /\ Goto(t, then[t])
  /\ UNCHANGED <<profiles, schedulerVars, registryVars, chosen, agent>>

\* The count of a profile, floored at 0, if the profile is still counted.
CountLess(p) ==
  [count EXCEPT ![p] = IF p \in counted /\ @ > 0 THEN @ - 1 ELSE @]

\* Faulty: the count is not decremented, or the agent is kept.
ReleaseUncounted(t) ==
  /\ pc[t] = "release" /\ HasAssignment(dev[t])
  /\ assigned' = [assigned EXCEPT ![dev[t]] = NoAgent]
  /\ under' = [under EXCEPT ![dev[t]] = NoProfile]
  /\ agents' = agents \ {assigned[dev[t]]}
  /\ agent' = [agent EXCEPT ![t] = assigned[dev[t]]]
  /\ withdrawn' = withdrawn \ {assigned[dev[t]]}
  /\ Goto(t, "unpublish")
  /\ UNCHANGED <<profiles, counted, count, known, published, forgotten, chosen>>

\* scheduler.release, under the lock.
ReleaseAssignment(t) ==
  /\ pc[t] = "release" /\ HasAssignment(dev[t])
  /\ assigned' = [assigned EXCEPT ![dev[t]] = NoAgent]
  /\ under' = [under EXCEPT ![dev[t]] = NoProfile]
  /\ count' = CountLess(under[dev[t]])
  /\ agents' = agents \ {assigned[dev[t]]}
  /\ agent' = [agent EXCEPT ![t] = assigned[dev[t]]]
  /\ withdrawn' = withdrawn \ {assigned[dev[t]]}
  /\ Goto(t, "unpublish")
  /\ UNCHANGED <<profiles, counted, known, published, forgotten, chosen>>

\* resources.unregister(agent_id); that it is not there is swallowed.
UnpublishAgent(t) ==
  /\ pc[t] = "unpublish"
  /\ published' = published \ {agent[t]}
  /\ agent' = [agent EXCEPT ![t] = NoAgent]
  /\ Goto(t, then[t])
  /\ UNCHANGED <<profiles, schedulerVars, known, withdrawn, chosen>>

-----------------------------------------------------------------------------
(* The resource registry, and the events about devices that                *)
(* _track_resource_start, _track_resource_end and the transport emit.      *)

\* resources.register of a device, which emits DEVICE_CONNECTED: the same thread
\* runs the handler, which does nothing unless agent.auto_assign is set.
RegisterDevice(t, d) ==
  /\ d \notin known
  /\ known' = known \cup {d}
  /\ IF AutoAssign THEN Call(t, d, NoProfile, "connected", "idle")
                   ELSE pc[t] = "idle" /\ Goto(t, "idle")
  /\ UNCHANGED <<profiles, schedulerVars, published, withdrawn, chosen, agent>>

\* A session of the transport begins or ends, or the status of the resource is
\* updated: DEVICE_CONNECTED or DEVICE_DISCONNECTED is emitted.
DeviceEvent(t, d) ==
  /\ AutoAssign
  /\ \/ Call(t, d, NoProfile, "connected", "idle")
     \/ Call(t, d, NoProfile, "disconnected", "idle")
  /\ UNCHANGED <<profiles, schedulerVars, registryVars, chosen, agent>>

\* _handle_device_connected: assign unless there is an assignment or the device
\* is not a resource. No configuration that sets agent.auto_assign to true has
\* an agent.auto_assign.profile_id beneath it, so there is never a hint.
HandleConnected(t) ==
  /\ pc[t] = "connected"
  /\ Goto(t, IF HasAssignment(dev[t]) \/ dev[t] \notin known
             THEN "idle" ELSE "override")
  /\ UNCHANGED <<profiles, schedulerVars, registryVars, chosen, agent>>

\* _handle_device_disconnected: release if there is an assignment.
HandleDisconnected(t) ==
  /\ pc[t] = "disconnected"
  /\ GotoThen(t, IF HasAssignment(dev[t]) THEN "release" ELSE "idle", "idle")
  /\ UNCHANGED <<profiles, schedulerVars, registryVars, chosen, agent>>

\* _remove_resource of a device: its agent is released first.
RemoveRequested(t, d) ==
  /\ d \in known
  /\ Call(t, d, NoProfile, "release", "unregister")
  /\ UNCHANGED <<profiles, schedulerVars, registryVars, chosen, agent>>

\* resources.unregister, which emits DEVICE_DISCONNECTED; ResourceNotFound is
\* raised if somebody else was faster.
UnregisterDevice(t) ==
  /\ pc[t] = "unregister"
  /\ known' = known \ {dev[t]}
  /\ Goto(t, IF dev[t] \in known /\ AutoAssign THEN "disconnected" ELSE "idle")
  /\ UNCHANGED <<profiles, schedulerVars, published, withdrawn, chosen, agent>>

\* _remove_resource of an agent: the scheduler is not told.
RemoveAgentResource(a) ==
  /\ a \in published
  /\ published' = published \ {a}
  /\ withdrawn' = withdrawn \cup ({a} \cap agents)
  /\ UNCHANGED <<profiles, schedulerVars, known, callVars>>

-----------------------------------------------------------------------------
(* Profiles and shutdown. Nothing in src/ but its tests (un)registers a    *)
(* profile; the two methods are there for those who use the scheduler.     *)

\* The devices placed on profile p.
PlacedOn(p) == {d \in Devices : under[d] = p}

\* Faulty: a profile that is registered again keeps the count it has.
RegisterCounting(p) ==
  /\ p \notin profiles
  /\ profiles' = profiles \cup {p}
  /\ counted' = counted \cup {p}
  /\ count' = [count EXCEPT ![p] = @ + Cardinality(PlacedOn(p))]
  /\ UNCHANGED <<assigned, under, agents, forgotten, registryVars, callVars>>

\* The count starts at 0, whatever is placed on a profile of that id.
RegisterProfile(p) ==
  /\ p \notin profiles
  /\ profiles' = profiles \cup {p}
  /\ counted' = counted \cup {p}
  /\ count' = [count EXCEPT ![p] = 0]
  /\ forgotten' = [forgotten EXCEPT ![p] = Cardinality(PlacedOn(p))]
  /\ UNCHANGED <<assigned, under, agents, registryVars, callVars>>

\* The count goes, the assignments stay.
UnregisterProfile(p) ==
  /\ p \in profiles
  /\ profiles' = profiles \ {p}
  /\ counted' = counted \ {p}
  /\ count' = [count EXCEPT ![p] = 0]
  /\ forgotten' = [forgotten EXCEPT ![p] = Cardinality(PlacedOn(p))]
  /\ UNCHANGED <<assigned, under, agents, registryVars, callVars>>

\* _shutdown_resources: scheduler.clear(), then resources.clear(). The scheduler
\* and the registry outlive a restart, and other threads may still be running.
ClearScheduler ==
  /\ assigned' = [d \in Devices |-> NoAgent]
  /\ under' = [d \in Devices |-> NoProfile]
  /\ agents' = {}
  /\ count' = [p \in Profiles |-> 0]
  /\ forgotten' = [p \in Profiles |-> 0] /\ withdrawn' = {}
  /\ UNCHANGED <<profiles, counted, known, published, callVars>>

ClearResources ==
  /\ known' = {} /\ published' = {}
  /\ withdrawn' = withdrawn \cup (agents \cap published)
  /\ UNCHANGED <<profiles, schedulerVars, callVars>>

-----------------------------------------------------------------------------
Assign(t) ==
  \/ \E d \in Devices, h \in Profiles \cup {NoProfile} :
       AssignRequested(t, d, h)
  \/ CheckOverride(t)
  \/ \E p \in Profiles : FindAgent(t, p)
  \/ NoSuitableAgent(t) \/ ReuseAssignment(t)
  \/ \E a \in Agents : CommitAssignment(t, a)
  \/ PublishAgent(t)

Release(t) ==
  \/ \E d \in Devices : ReleaseRequested(t, d)
  \/ NothingToRelease(t) \/ ReleaseAssignment(t) \/ UnpublishAgent(t)

Events(t) ==
  \/ \E d \in Devices : RegisterDevice(t, d) \/ DeviceEvent(t, d)
  \/ HandleConnected(t) \/ HandleDisconnected(t)
  \/ \E d \in Devices : RemoveRequested(t, d)
  \/ UnregisterDevice(t)

Next ==
  \/ \E t \in Callers : Assign(t) \/ Release(t) \/ Events(t)
  \/ \E a \in Agents : RemoveAgentResource(a)
  \/ \E p \in Profiles : RegisterProfile(p) \/ UnregisterProfile(p)
  \/ ClearScheduler \/ ClearResources

Spec == Init /\ [][Next]_vars

-----------------------------------------------------------------------------
(* Correctness.                                                            *)

TypeOK ==
  /\ profiles \subseteq Profiles /\ counted \subseteq Profiles
  /\ count \in [Profiles -> Nat]
  /\ assigned \in [Devices -> Agents \cup {NoAgent}]
  /\ under \in [Devices -> Profiles \cup {NoProfile}]
  /\ agents \subseteq Agents
  /\ known \subseteq Devices /\ published \subseteq Agents
  /\ forgotten \in [Profiles -> Nat] /\ withdrawn \subseteq Agents
  /\ pc \in [Callers -> PcValues]
  /\ dev \in [Callers -> Devices \cup {NoDev}]
  /\ hint \in [Callers -> Profiles \cup {NoProfile}]
  /\ chosen \in [Callers -> Profiles \cup {NoProfile}]
  /\ agent \in [Callers -> Agents \cup {NoAgent}]
  /\ then \in [Callers -> {"idle", "find", "unregister"}]
  /\ \A t \in Callers :
       /\ pc[t] # "idle" => dev[t] \in Devices
       /\ pc[t] = "commit" => chosen[t] \in Profiles
       /\ pc[t] \in {"publish", "unpublish"} => agent[t] \in Agents

\* The count the capacity check reads is the number of devices placed on the
\* profile, however assignments, releases, overrides, removals and
\* scheduler.clear() interleave. (Un)registering a profile forgets the devices
\* on it: from then on the count may lag by as many, and never by more.
CountsMatch ==
  /\ \A d \in Devices : assigned[d] = NoAgent <=> under[d] = NoProfile
  /\ \A p \in Profiles :
       /\ count[p] <= Cardinality(PlacedOn(p))
       /\ Cardinality(PlacedOn(p)) <= count[p] + forgotten[p]

\* The capacity check is not atomic with the assignment, but the devices placed
\* on a profile never exceed its maximum by more than the callers that can be
\* in between, one fewer than there are callers, and those that were on it when
\* it was last (un)registered.
OvercommitBounded ==
  \A p \in Profiles :
    Cardinality(PlacedOn(p))
      < MaxAssignments[p] + forgotten[p] + Cardinality(Callers)

\* The scheduler's two tables agree: it has exactly the agents its assignments
\* name, and no agent serves two devices.
AgentsMatch ==
  /\ agents = {assigned[d] : d \in Devices} \ {NoAgent}
  /\ \A d, e \in Devices : assigned[d] = assigned[e] /\ d # e
                             => assigned[d] = NoAgent

\* The scheduler's tables survive profiles that come and go, resources removed
\* under live agents and the shutdown of the application: they agree with each
\* other, and no profile carries more devices than that bound.
TablesKept == TypeOK /\ AgentsMatch /\ OvercommitBounded

\* "Check idempotency: if already assigned, return existing": whatever a caller
\* found before it got the lock again, it never replaces the agent of a device;
\* an agent goes only when somebody releases it or the scheduler is cleared.
NeverReplaced ==
  [][\A d \in Devices :
       HasAssignment(d) => assigned'[d] \in {assigned[d], NoAgent}]_vars

\* An agent that serves a device can be found in the resource registry, or the
\* caller that placed it there is about to publish it: no concurrent release,
\* override or removal of a device withdraws the resource of another assignment.
\* Only removing the agent's own resource, or the shutdown's clear, does that.
AgentPublished ==
  \A d \in Devices : HasAssignment(d) =>
    \/ assigned[d] \in published \cup withdrawn
    \/ \E t \in Callers : pc[t] = "publish" /\ agent[t] = assigned[d]

\* tests/test_audit_regressions.py, test_scheduler_capacity_check_is_atomic: of
\* four concurrent calls for a profile with one place, one is successful.
WithinCapacity == \A p \in Profiles : count[p] <= MaxAssignments[p]

=============================================================================
