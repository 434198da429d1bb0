------------------------------- MODULE Runtime -------------------------------
(***************************************************************************)
(* The component lifecycle of C.O.R.E.-HOST (core/runtime/runtime.py), and *)
(* the application's enable/disable policy that prepares it                *)
(* (core/application/app.py, _apply_component_policy).                     *)
(*                                                                         *)
(* One thread drives a Runtime: run_application calls start(), sleeps, and *)
(* calls stop() in a finally block. What varies is what the components'    *)
(* callbacks do: an initializer returns, raises, or is interrupted by      *)
(* Ctrl+C; a shutdown handler returns or raises. One action is one call of *)
(* the Runtime, or the stretch from one callback to the next.              *)
(***************************************************************************)
EXTENDS Naturals, Sequences, SequencesExt

CONSTANTS Components,      \* names a component may have
          DependencySets,  \* the dependencies given to one
          NoComponent

ASSUME ComponentsAssumption ==
  IsFiniteSet(Components) /\ NoComponent \notin Components
ASSUME DependencySetsAssumption == DependencySets \subseteq SUBSET Components

VARIABLES
  state,         \* _state; STARTING is left within start() and not told apart
  components,    \* keys of _components
  dependencies,  \* _component_dependencies
  handlers,      \* keys of _shutdown_handlers
  enabled,       \* components for which _enabled is True
  compState,     \* _component_state
  initialized,   \* _initialized_components
  errors,        \* components in _shutdown_errors
  call,          \* what the driving thread is in
  again,         \* whether that is a restart() that has yet to start
  plan,          \* in start(): what is left of start_order
  current,       \* the component whose callback is running
  left,          \* in a shutdown: how many of initialized are left
  live,          \* components that hold what their initializer acquired
  half           \* of those, the ones whose initializer was interrupted

registryVars == <<components, dependencies, handlers, enabled>>
callVars == <<call, again, plan, current, left>>
vars == <<state, components, dependencies, handlers, enabled, compState,
          initialized, errors, call, again, plan, current, left, live, half>>

-----------------------------------------------------------------------------
\* The sequences of the members of S in which each comes after its dependencies.
Ordered(s) ==
  \A i \in DOMAIN s : \A d \in dependencies[s[i]] :
    \E j \in 1 .. i - 1 : s[j] = d

OrdersOf(S) == {s \in SetToSeqs(S) : Ordered(s)}

\* get_start_order: the enabled components, each after its dependencies. There
\* is no such order, and the code raises, if the dependencies of the enabled
\* components are circular, missing or disabled. Which one it is when there are
\* several depends on names; module StartOrder has the search itself.
StartOrders == OrdersOf(enabled)

\* Faulty: only the direct dependents are disabled as well.
DirectlyDisabledBy(requested) ==
  requested \cup {c \in components : dependencies[c] \cap requested # {}}

\* The sets of components that have with a component all that depend on it.
Closed ==
  {off \in SUBSET components :
     \A c \in components : dependencies[c] \cap off # {} => c \in off}

\* _apply_component_policy: what depends on a disabled component is disabled,
\* until nothing changes. The loop ends with the least such set.
DisabledBy(requested) ==
  LET closed == {off \in Closed : requested \subseteq off}
  IN  {c \in components : \A off \in closed : c \in off}

NeverStarted ==
  /\ state = "stopped"
  /\ compState = [c \in Components |-> "registered"]
  /\ initialized = <<>> /\ errors = {}
  /\ call = "idle" /\ again = FALSE
  /\ plan = <<>> /\ current = NoComponent /\ left = 0
  /\ live = {} /\ half = {}

Init ==
  /\ NeverStarted
  /\ components = {} /\ handlers = {} /\ enabled = {}
  /\ dependencies = [c \in Components |-> {}]

-----------------------------------------------------------------------------
(* Registration: every operation is refused unless the runtime is stopped. *)

Configurable == call = "idle" /\ state = "stopped"

RegisterComponent(c, D, hasHandler) ==
  /\ Configurable /\ c \notin components
  /\ components' = components \cup {c}
  /\ dependencies' = [dependencies EXCEPT ![c] = D]
  /\ compState' = [compState EXCEPT ![c] = "registered"]
  /\ enabled' = enabled \cup {c}
  /\ handlers' = IF hasHandler THEN handlers \cup {c} ELSE handlers
  /\ UNCHANGED <<state, initialized, errors, callVars, live, half>>

SetDependencies(c, D) ==
  /\ Configurable /\ c \in components
  /\ dependencies' = [dependencies EXCEPT ![c] = D]
  /\ UNCHANGED <<state, components, handlers, enabled, compState, initialized,
                 errors, callVars, live, half>>

SetEnabled(c, e) ==
  /\ Configurable /\ c \in components
  /\ enabled' = IF e THEN enabled \cup {c} ELSE enabled \ {c}
  /\ UNCHANGED <<state, components, dependencies, handlers, compState,
                 initialized, errors, callVars, live, half>>

\* The application's policy sets all of them, before every start().
ApplyPolicy(requested) ==
  /\ Configurable
  /\ enabled' = components \ DisabledBy(requested)
  /\ UNCHANGED <<state, components, dependencies, handlers, compState,
                 initialized, errors, callVars, live, half>>

ClearComponents ==
  /\ Configurable
  /\ components' = {} /\ handlers' = {} /\ enabled' = {}
  /\ dependencies' = [c \in Components |-> {}]
  /\ compState' = [c \in Components |-> "registered"]
  /\ initialized' = <<>> /\ errors' = {}
  /\ UNCHANGED <<state, callVars, live, half>>

-----------------------------------------------------------------------------
(* start().                                                                *)

\* restart() starts what it has stopped, before anything else is called.
MayStart == call = "idle" \/ call = "restart"

\* The runtime is stopped or has failed, and there is a start order.
StartRequested(s) ==
  /\ MayStart /\ state \in {"stopped", "failed"} /\ s \in StartOrders
  /\ state' = "initializing"
  /\ errors' = {} /\ initialized' = <<>>
  /\ compState' = [c \in Components |->
                     IF c \in components \ enabled THEN "disabled"
                                                   ELSE compState[c]]
  /\ call' = "start" /\ plan' = s
  /\ UNCHANGED <<registryVars, again, current, left, live, half>>

\* There is none: get_start_order raises, with nothing to shut down.
StartRefused ==
  /\ MayStart /\ state \in {"stopped", "failed"} /\ StartOrders = {}
  /\ state' = "failed"
  /\ errors' = {} /\ initialized' = <<>>
  /\ call' = "idle"
  /\ UNCHANGED <<registryVars, compState, again, plan, current, left, live,
                 half>>

InitializerCalled ==
  /\ call = "start" /\ current = NoComponent /\ plan # <<>>
  /\ current' = Head(plan)
  /\ plan' = Tail(plan)
  /\ compState' = [compState EXCEPT ![Head(plan)] = "starting"]
  /\ UNCHANGED <<state, registryVars, initialized, errors, call, again, left,
                 live, half>>

InitializerReturns ==
  /\ call = "start" /\ current # NoComponent
  /\ initialized' = Append(initialized, current)
  /\ compState' = [compState EXCEPT ![current] = "running"]
  /\ live' = live \cup {current} /\ half' = half \ {current}
  /\ current' = NoComponent
  /\ UNCHANGED <<state, registryVars, errors, call, again, plan, left>>

\* Exception: the runtime fails, and shuts down what has been initialized.
InitializerRaises ==
  /\ call = "start" /\ current # NoComponent
  /\ state' = "failed"
  /\ compState' = [compState EXCEPT ![current] = "failed"]
  /\ call' = "rollback" /\ left' = Len(initialized)
  /\ plan' = <<>> /\ current' = NoComponent
  /\ UNCHANGED <<registryVars, initialized, errors, again, live, half>>

\* KeyboardInterrupt is not an Exception: it leaves start() as it is, with the
\* work of the initializer done or not.
Interrupted ==
  /\ call = "start" /\ current # NoComponent
  /\ \/ live' = live \cup {current} /\ half' = half \cup {current}
     \/ UNCHANGED <<live, half>>
  /\ call' = "idle" /\ plan' = <<>> /\ current' = NoComponent
  /\ UNCHANGED <<state, registryVars, compState, initialized, errors, again,
                 left>>

StartFinished ==
  /\ call = "start" /\ current = NoComponent /\ plan = <<>>
  /\ state' = "running"
  /\ call' = "idle"
  /\ UNCHANGED <<registryVars, compState, initialized, errors, again, plan,
                 current, left, live, half>>

-----------------------------------------------------------------------------
(* stop(), restart(), and the shutdown that stop() and a failed start()    *)
(* share (_shutdown_initialized_components).                               *)

\* restart() = stop() and start(), or start() alone if the runtime is stopped.
StopRequested(restart) ==
  /\ call = "idle" /\ state \notin {"stopped", "shutting_down"}
  /\ state' = "shutting_down"
  /\ call' = "stop" /\ again' = restart /\ left' = Len(initialized)
  /\ UNCHANGED <<registryVars, compState, initialized, errors, plan, current,
                 live, half>>

ShuttingDown == call \in {"stop", "rollback"}

\* Faulty: from the first to the last.
InStartOrder == initialized[Len(initialized) + 1 - left]

\* reversed(initialized)
NextDown == initialized[left]

\* A component without a handler is stopped as it is.
NoHandler ==
  /\ ShuttingDown /\ current = NoComponent /\ left > 0
  /\ NextDown \notin handlers
  /\ compState' = [compState EXCEPT ![NextDown] = "stopped"]
  /\ live' = live \ {NextDown}
  /\ left' = left - 1
  /\ UNCHANGED <<state, registryVars, initialized, errors, call, again, plan,
                 current, half>>

ShutdownCalled ==
  /\ ShuttingDown /\ current = NoComponent /\ left > 0
  /\ NextDown \in handlers
  /\ compState' = [compState EXCEPT ![NextDown] = "stopping"]
  /\ current' = NextDown
  /\ UNCHANGED <<state, registryVars, initialized, errors, call, again, plan,
                 left, live, half>>

ShutdownReturns ==
  /\ ShuttingDown /\ current # NoComponent
  /\ compState' = [compState EXCEPT ![current] = "stopped"]
  /\ live' = live \ {current}
  /\ left' = left - 1 /\ current' = NoComponent
  /\ UNCHANGED <<state, registryVars, initialized, errors, call, again, plan,
                 half>>

\* The failure is recorded, and the shutdown goes on.
ShutdownRaises ==
  /\ ShuttingDown /\ current # NoComponent
  /\ compState' = [compState EXCEPT ![current] = "failed"]
  /\ errors' = errors \cup {current}
  /\ live' = live \ {current}
  /\ left' = left - 1 /\ current' = NoComponent
  /\ UNCHANGED <<state, registryVars, initialized, call, again, plan, half>>

\* Faulty: the list is kept, and shut down again by a later stop().
RollbackKept ==
  /\ call = "rollback" /\ left = 0
  /\ call' = "idle"
  /\ UNCHANGED <<state, registryVars, compState, initialized, errors, again,
                 plan, current, left, live, half>>

\* start() raises what the initializer raised.
RollbackFinished ==
  /\ call = "rollback" /\ left = 0
  /\ initialized' = <<>>
  /\ call' = "idle"
  /\ UNCHANGED <<state, registryVars, compState, errors, again, plan, current,
                 left, live, half>>

\* Faulty: the state is not reset after a handler has failed.
StopUnlessErrors ==
  /\ call = "stop" /\ left = 0
  /\ initialized' = <<>>
  /\ state' = IF errors = {} THEN "stopped" ELSE state
  /\ call' = (IF again THEN "restart" ELSE "idle") /\ again' = FALSE
  /\ UNCHANGED <<registryVars, compState, errors, plan, current, left, live,
                 half>>

\* finally: the list is cleared and the runtime stopped.
StopFinished ==
  /\ call = "stop" /\ left = 0
  /\ initialized' = <<>>
  /\ state' = "stopped"
  /\ call' = (IF again THEN "restart" ELSE "idle") /\ again' = FALSE
  /\ UNCHANGED <<registryVars, compState, errors, plan, current, left, live,
                 half>>

-----------------------------------------------------------------------------
Register ==
  \/ \E c \in Components, D \in DependencySets, h \in BOOLEAN :
       RegisterComponent(c, D, h)
  \/ \E c \in Components, D \in DependencySets : SetDependencies(c, D)
  \/ \E c \in Components, e \in BOOLEAN : SetEnabled(c, e)
  \/ \E requested \in SUBSET components : ApplyPolicy(requested)
  \/ ClearComponents

\* What the Runtime does, once called, whatever the callbacks do.
Advance ==
  \/ InitializerCalled \/ InitializerReturns \/ InitializerRaises
  \/ StartFinished
  \/ NoHandler \/ ShutdownCalled \/ ShutdownReturns \/ ShutdownRaises
  \/ RollbackFinished \/ StopFinished
  \/ call = "restart" /\ StartRefused
  \/ call = "restart" /\ \E s \in StartOrders : StartRequested(s)

Next ==
  \/ Register
  \/ StartRefused \/ \E s \in StartOrders : StartRequested(s)
  \/ \E r \in BOOLEAN : StopRequested(r)
  \/ Interrupted
  \/ Advance

Spec == Init /\ [][Next]_vars

\* Callbacks return or raise in the end, and the thread goes on.
FairSpec == Spec /\ WF_vars(Advance)

-----------------------------------------------------------------------------
(* Correctness.                                                            *)

ComponentStates ==
  {"registered", "starting", "running", "stopping", "stopped", "failed",
   "disabled"}

TypeOK ==
  /\ state \in {"stopped", "initializing", "running", "shutting_down", "failed"}
  /\ components \subseteq Components
  /\ handlers \subseteq components /\ enabled \subseteq components
  /\ dependencies \in [Components -> SUBSET Components]
  /\ compState \in [Components -> ComponentStates]
  /\ initialized \in Seq(components) /\ plan \in Seq(components)
  /\ errors \subseteq components
  /\ call \in {"idle", "start", "stop", "rollback", "restart"}
  /\ again \in BOOLEAN
  /\ current \in components \cup {NoComponent}
  /\ left \in 0 .. Len(initialized)
  /\ half \subseteq live /\ live \subseteq Components

\* Nobody is inside the Runtime.
Quiet == call = "idle"

\* README, "The runtime graph is started according to dependency order and shut
\* down in reverse order": what a component depends on is up from before its
\* initializer is called until after its shutdown handler has returned, when a
\* start fails half way and when other handlers raise, too.
DependenciesUp ==
  \A c \in (live \ half) \cup {current} : c # NoComponent =>
    dependencies[c] \subseteq live

\* Once stop() has returned, or a start has failed, nothing that was initialized
\* is still up, except a component whose own initializer Ctrl+C cut short: the
\* runtime never learns of it.
NothingLeftUp ==
  Quiet /\ state \in {"stopped", "failed"} => live \subseteq half

\* A shutdown handler is called only for a component that is up, so never twice
\* for one initialization.
ShutDownOnce ==
  [][\A c \in Components :
       ShuttingDown /\ current = NoComponent /\ current' = c
         => c \in live \ half]_vars

\* A running runtime has every component running or disabled; when it is stopped
\* or has failed, no component is said to be running or stopping.
StatesAgree ==
  /\ state = "running" =>
       \A c \in components :
         compState[c] = IF c \in enabled THEN "running" ELSE "disabled"
  /\ Quiet /\ state \in {"stopped", "failed"} =>
       \A c \in components : compState[c] \notin {"running", "stopping"}

\* The runtime says what is so: nothing is up without what it depends on, nothing
\* is left up behind a stop or a failed start, and the states it shows agree.
UpAsShown == TypeOK /\ DependenciesUp /\ NothingLeftUp /\ StatesAgree

\* "A valid configuration never leaves an enabled component depending on a
\* disabled dependency" (_apply_component_policy): whatever is disabled, the
\* policy leaves a runtime that can be started, if all of it could be.
PolicyStartable ==
  [][\A requested \in SUBSET components :
       ApplyPolicy(requested) /\ OrdersOf(components) # {}
         => StartOrders' # {}]_vars

=============================================================================
