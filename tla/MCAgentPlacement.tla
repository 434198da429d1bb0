-------------------------- MODULE MCAgentPlacement --------------------------
(* Small instances of AgentPlacement for TLC.                              *)
EXTENDS AgentPlacement, TLC

CONSTANTS t1, t2, d1, d2, d3, a1, a2, a3, a4, p1, p2

TwoCallers == {t1, t2}
OneCaller == {t1}
OneDevice == {d1}
TwoDevices == {d1, d2}
ThreeDevices == {d1, d2, d3}
FourAgents == {a1, a2, a3, a4}
OneProfile == {p1}
TwoProfiles == {p1, p2}

\* One place each: a second assignment is already at the limit.
OnePlace == [p \in Profiles |-> 1]

\* p1 does not suit d2; p2 is the better one for the others.
Suits == [d \in Devices |-> [p \in Profiles |->
            IF p = p2 THEN 2 ELSE IF d = d2 THEN 0 ELSE 1]]

\* The same operations with agent.auto_assign off.
Manual == INSTANCE AgentPlacement WITH AutoAssign <- FALSE

\* One run asks two questions. "places": two profiles and two devices that come
\* and go, whose events assign and release agents, while the application is
\* stopped. "changes": one profile for three devices, placed on request, while
\* the profile is (un)registered and resources of agents are removed.
VARIABLE usage

\* In "changes" p2 has been unregistered and the devices are registered.
PlacementInit ==
  /\ usage \in {"places", "changes"}
  /\ LET P == IF usage = "places" THEN Profiles ELSE {p1}
     IN  profiles = P /\ counted = P
  /\ known = IF usage = "places" THEN {} ELSE Devices
  /\ count = [p \in Profiles |-> 0]
  /\ assigned = [d \in Devices |-> NoAgent]
  /\ under = [d \in Devices |-> NoProfile]
  /\ agents = {} /\ published = {}
  /\ forgotten = [p \in Profiles |-> 0] /\ withdrawn = {}
  /\ pc = [t \in Callers |-> "idle"]
  /\ dev = [t \in Callers |-> NoDev]
  /\ hint = [t \in Callers |-> NoProfile]
  /\ chosen = [t \in Callers |-> NoProfile]
  /\ agent = [t \in Callers |-> NoAgent]
  /\ then = [t \in Callers |-> "idle"]

Places ==
  /\ usage = "places"
  /\ \/ \E t \in Callers : Assign(t) \/ Release(t) \/ Events(t)
     \/ \E a \in Agents \ agents : RemoveAgentResource(a)
     \/ ClearScheduler \/ ClearResources
  /\ known' \subseteq {d1, d2} /\ \A t \in Callers : dev'[t] # d3

Changes ==
  /\ usage = "changes"
  /\ Manual!Next
  /\ known' = known /\ \A t \in Callers : then'[t] # "unregister"
  /\ profiles' \subseteq {p1} /\ hint' = hint

PlacementSpec ==
  PlacementInit /\ [][(Places \/ Changes) /\ UNCHANGED usage]_<<vars, usage>>

Interchangeable == Permutations(Callers) \cup Permutations(Agents)
=============================================================================
