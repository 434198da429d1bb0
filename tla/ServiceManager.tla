--------------------------- MODULE ServiceManager ---------------------------
(***************************************************************************)
(* The internal services of the application (core/services/manager.py):    *)
(* their life cycle along the dependency graph, and the execution of their *)
(* operations for requests.                                                *)
(*                                                                         *)
(* One thread, that of the runtime, registers, starts and stops services;  *)
(* requests are executed on threads of their own, and nothing is locked.   *)
(* start() and stop() call themselves, so a call is an agenda of what is   *)
(* left to do, one status at a time. Statuses that are replaced at once    *)
(* (initializing, starting, stopping) are left out, as is the health,      *)
(* which follows the status; a service has one operation.                  *)
(***************************************************************************)
EXTENDS Naturals, FiniteSets, Sequences, SequencesExt

CONSTANTS Services, Requests,
          NoService,     \* a request that executes nothing
          Unregistered,  \* the service object of a request has been removed
          DependencySets \* the sets of dependencies services are defined with

ASSUME ServicesAssumption ==
  /\ IsFiniteSet(Services) /\ \A needs \in DependencySets : needs \subseteq Services
  /\ NoService \notin Services /\ Unregistered \notin Services
  /\ NoService # Unregistered

VARIABLES
  registered,    \* keys of ServiceManager._services
  dependencies,  \* service.dependencies
  status,        \* service.status
  handlers,      \* services with an entry in ServiceManager._handlers
  agenda,        \* what the life cycle call in progress has left to do
  executing,     \* for each request, the service whose handler it is in
  failed         \* services whose handler raised since they were last started

serviceVars == <<registered, dependencies, status, handlers, agenda, executing,
                 failed>>

-----------------------------------------------------------------------------
Running(s) == s \in registered /\ status[s] = "running"

\* _dependency_order(s): what s needs, each after what it needs itself. There is
\* no order if something is missing, or needs itself.
Needs(s) ==
  {N \in SUBSET registered :
     /\ dependencies[s] \subseteq N
     /\ \A d \in N : dependencies[d] \subseteq N}

Needed(s) == {d \in registered : \A N \in Needs(s) : d \in N}

\* Faulty: only the dependencies of s itself are looked at.
DirectOrders(s) == {order \in SetToSeqs(dependencies[s]) :
                      dependencies[s] \subseteq registered}

Orders(s) ==
  IF Needs(s) = {} \/ s \in Needed(s) THEN {}
  ELSE {order \in SetToSeqs(Needed(s)) :
          \A i, j \in DOMAIN order : order[j] \in dependencies[order[i]] => j < i}

Item(op, s) == [op |-> op, service |-> s]

Each(op, order) == [i \in DOMAIN order |-> Item(op, order[i])]

Init ==
  /\ registered = {} /\ handlers = {} /\ agenda = <<>> /\ failed = {}
  /\ dependencies = [s \in Services |-> {}]
  /\ status = [s \in Services |-> "registered"]
  /\ executing = [r \in Requests |-> NoService]

-----------------------------------------------------------------------------
(* The calls of the runtime's thread.                                      *)

Register(s, needs) ==
  /\ agenda = <<>> /\ s \notin registered
  /\ registered' = registered \cup {s}
  /\ dependencies' = [dependencies EXCEPT ![s] = needs]
  /\ status' = [status EXCEPT ![s] = "registered"]
  /\ handlers' = handlers \ {s}
  /\ UNCHANGED <<agenda, executing, failed>>

RegisterHandler(s) ==
  /\ agenda = <<>> /\ s \in registered
  /\ handlers' = handlers \cup {s}
  /\ UNCHANGED <<registered, dependencies, status, agenda, executing, failed>>

UnregisterHandler(s) ==
  /\ agenda = <<>> /\ s \in registered
  /\ handlers' = handlers \ {s}
  /\ UNCHANGED <<registered, dependencies, status, agenda, executing, failed>>

\* initialize() sets a service that is not running back, whatever runs on it.
Initialize(s) ==
  /\ agenda = <<>> /\ s \in registered /\ ~Running(s)
  /\ status' = [status EXCEPT ![s] = "stopped"]
  /\ UNCHANGED <<registered, dependencies, handlers, agenda, executing, failed>>

\* start(), stop(), restart() and unregister(), which stops what is running.
Call(s, items) ==
  /\ agenda = <<>> /\ s \in registered
  /\ agenda' = items
  /\ UNCHANGED <<registered, dependencies, status, handlers, executing, failed>>

StartRequested(s) == Call(s, <<Item("start", s)>>)

StopRequested(s) == Call(s, <<Item("stop", s)>>)

RestartRequested(s) == Call(s, <<Item("stop", s), Item("start", s)>>)

UnregisterRequested(s) ==
  Call(s, IF Running(s) THEN <<Item("stop", s), Item("remove", s)>>
                        ELSE <<Item("remove", s)>>)

\* A handler that is running goes on with an object nobody knows any more.
Forget(gone) ==
  /\ registered' = registered \ gone /\ handlers' = handlers \ gone
  /\ dependencies' = [s \in Services |-> IF s \in gone THEN {} ELSE dependencies[s]]
  /\ status' = [s \in Services |-> IF s \in gone THEN "registered" ELSE status[s]]
  /\ executing' = [r \in Requests |-> IF executing[r] \in gone THEN Unregistered
                                                             ELSE executing[r]]

ClearServices ==
  /\ agenda = <<>>
  /\ Forget(registered)
  /\ UNCHANGED <<agenda, failed>>

-----------------------------------------------------------------------------
(* The steps of those calls.                                               *)

At(op) == agenda # <<>> /\ Head(agenda).op = op

Subject == Head(agenda).service

StartNotNeeded ==
  /\ At("start") /\ Running(Subject)
  /\ agenda' = Tail(agenda)
  /\ UNCHANGED <<registered, dependencies, status, handlers, executing, failed>>

\* Something is missing, or depends on itself: the exception ends the call.
StartRaises ==
  /\ At("start") /\ ~Running(Subject) /\ Orders(Subject) = {}
  /\ agenda' = <<>>
  /\ UNCHANGED <<registered, dependencies, status, handlers, executing, failed>>

StartDependencies ==
  /\ At("start") /\ ~Running(Subject)
  /\ \E order \in Orders(Subject) :
       agenda' = Each("start", order) \o <<Item("up", Subject)>> \o Tail(agenda)
  /\ UNCHANGED <<registered, dependencies, status, handlers, executing, failed>>

StartItself ==
  /\ At("up")
  /\ status' = [status EXCEPT ![Subject] = "running"]
  /\ failed' = failed \ {Subject}
  /\ agenda' = Tail(agenda)
  /\ UNCHANGED <<registered, dependencies, handlers, executing>>

\* Faulty: a service is stopped without those that depend on it.
StopAlone ==
  /\ At("stop")
  /\ agenda' = <<Item("down", Subject)>> \o Tail(agenda)
  /\ UNCHANGED <<registered, dependencies, status, handlers, executing, failed>>

\* The dependents that are running now are stopped first, one after the other.
StopDependents ==
  /\ At("stop")
  /\ LET dependents == {s \in registered : Running(s) /\ Subject \in dependencies[s]}
     IN  \E order \in SetToSeqs(dependents) :
           agenda' = Each("stop", order) \o <<Item("down", Subject)>> \o Tail(agenda)
  /\ UNCHANGED <<registered, dependencies, status, handlers, executing, failed>>

StopItself ==
  /\ At("down")
  /\ status' = [status EXCEPT ![Subject] = "stopped"]
  /\ agenda' = Tail(agenda)
  /\ UNCHANGED <<registered, dependencies, handlers, executing, failed>>

RemoveItself ==
  /\ At("remove")
  /\ Forget({Subject})
  /\ agenda' = Tail(agenda)
  /\ UNCHANGED failed

Advance == \/ StartNotNeeded \/ StartRaises \/ StartDependencies \/ StartItself
           \/ StopDependents \/ StopItself \/ RemoveItself

-----------------------------------------------------------------------------
(* execute(), on the thread of a request.                                  *)

\* The service runs and has the operation; anything else is an exception.
Executable(s) == Running(s) /\ s \in handlers

ExecuteCalls(r, s) ==
  /\ executing[r] = NoService /\ Executable(s)
  /\ executing' = [executing EXCEPT ![r] = s]
  /\ UNCHANGED <<registered, dependencies, status, handlers, agenda, failed>>

HandlerReturns(r) ==
  /\ executing[r] # NoService
  /\ executing' = [executing EXCEPT ![r] = NoService]
  /\ UNCHANGED <<registered, dependencies, status, handlers, agenda, failed>>

\* The service whose status an exception sets: the handler's, if it is known.
Failing(s) == {s} \cap registered

HandlerRaises(r) ==
  /\ executing[r] # NoService
  /\ status' = [s \in Services |->
                  IF s \in Failing(executing[r]) THEN "failed" ELSE status[s]]
  /\ failed' = failed \cup Failing(executing[r])
  /\ executing' = [executing EXCEPT ![r] = NoService]
  /\ UNCHANGED <<registered, dependencies, handlers, agenda>>

-----------------------------------------------------------------------------
Lifecycle ==
  \/ \E s \in Services :
       \/ \E needs \in DependencySets : Register(s, needs)
       \/ RegisterHandler(s) \/ UnregisterHandler(s) \/ Initialize(s)
       \/ StartRequested(s) \/ StopRequested(s) \/ RestartRequested(s)
       \/ UnregisterRequested(s)
  \/ ClearServices
  \/ Advance

Next ==
  \/ Lifecycle
  \/ \E r \in Requests :
       \/ \E s \in Services : ExecuteCalls(r, s)
       \/ HandlerReturns(r) \/ HandlerRaises(r)

Spec == Init /\ [][Next]_serviceVars

-----------------------------------------------------------------------------
Items == [op : {"start", "up", "stop", "down", "remove"}, service : Services]

ServicesOK ==
  /\ registered \subseteq Services /\ handlers \subseteq registered
  /\ dependencies \in [Services -> SUBSET Services]
  /\ status \in [Services -> {"registered", "stopped", "running", "failed"}]
  /\ agenda \in Seq(Items)
  /\ executing \in [Requests -> Services \cup {NoService, Unregistered}]
  /\ failed \subseteq Services

\* The tables are well formed, and a service that is running has everything it depends on running, but for what
\* failed in a handler since it was started: start() brings up the whole of its
\* closure, stop() and unregister() take down all that depends on a service,
\* each through the calls they make to themselves.
DependenciesRunning ==
  /\ ServicesOK
  /\ \A s \in registered : Running(s) =>
       \A d \in dependencies[s] : Running(d) \/ d \in failed

\* A start that raises has changed nothing: what is missing, or circular, is
\* found before the first dependency is started, and not by the call for it.
StartRefusedWhole == [][StartRaises => Len(agenda) = 1]_serviceVars
=============================================================================
