----------------------------- MODULE MCRuntime -----------------------------
(* Small instances of Runtime for TLC, in four uses: by anybody, with two  *)
(* components and every operation in any order; by the application, with   *)
(* three components in every acyclic graph; and, for the two searches of   *)
(* the code, that of the runtime and that of the services, with every      *)
(* graph of three components. A fifth use is that of the portal's jobs,    *)
(* which like the calls of the runtime must come to an end.                *)
EXTENDS StartOrder, DependencyManager

CONSTANTS Jobs, Users, NoUser, NoJob, MAX_ACTIVE, MAX_JOBS

VARIABLES
  usage,      \* "any", "application", "search", "services" or "jobs", for ever
  jobs, user, service, jobStatus, cancel, process, lock, run, closed, toClose,
  closing

jobsVars == <<jobs, user, service, jobStatus, cancel, process, lock, run, closed,
              toClose, closing>>

Host == INSTANCE HostJobs WITH status <- jobStatus

\* Jobs that have not been started, and profiles without one, are all alike.
InTurn ==
  LET first == CHOOSE j \in Jobs : TRUE
      one == CHOOSE u \in Users : TRUE
  IN  /\ user'[first] \in {NoUser, one}
      /\ user'[first] = NoUser => user' = user

OneToThree == 1 .. 3
AnyDependency == SUBSET Components
OneOrTwo == SUBSET {1, 2}

\* Every acyclic graph of three components, up to their names.
Acyclic ==
  {g \in [Components -> AnyDependency] :
     /\ g[1] = {} /\ g[2] \subseteq {1} /\ 3 \notin g[3]
     /\ g[2] = {} => g[3] \in {{}, {1, 2}}}

\* The application registers its components once, each with a handler.
RegisteredInit ==
  /\ NeverStarted
  /\ components = Components /\ enabled = Components
  /\ handlers = Components
  /\ dependencies \in Acyclic

\* Any graph, circular or with a component that is not registered, up to the
\* names of the components.
SearchedInit ==
  /\ NeverStarted
  /\ components \in {OneToThree, {1, 2}} /\ enabled \in {components, {1, 2}}
  /\ handlers = {}
  /\ dependencies \in [Components -> AnyDependency]
  /\ \A c \in Components \ components : dependencies[c] = {}
  /\ Cardinality(dependencies[1]) <= Cardinality(dependencies[2])

MCInit ==
  /\ \/ usage \in {"any", "services", "jobs"} /\ Init
     \/ usage = "application" /\ RegisteredInit
     \/ usage = "search" /\ SearchedInit
  /\ NotSearched /\ GraphInit /\ Host!HostInit

\* It applies its policy before every start.
RegisteredNext ==
  \/ \E requested \in SUBSET components : ApplyPolicy(requested)
  \/ StartRefused \/ \E s \in StartOrders : StartRequested(s)
  \/ \E r \in BOOLEAN : StopRequested(r)
  \/ Interrupted
  \/ Advance

\* The two components of anybody, named in the order they come in; either may
\* name the other before that, and itself.
TwoOfThree ==
  /\ 3 \notin components'
  /\ 2 \in components' => 1 \in components'

RuntimeNext ==
  \/ usage = "any" /\ Next /\ TwoOfThree
  \/ usage = "application" /\ RegisteredNext

\* One search of each graph; it looks at nothing else.
SearchedNext ==
  \/ search = "none" /\ BeginSearch
  \/ SearchStep
  \/ search \in {"found", "raised"} /\ UNCHANGED searchVars

\* The host is closed and its jobs are over.
HostDown ==
  /\ closed = "closed"
  /\ \A j \in Jobs : run[j] \in {"none", "done"} /\ lock[j] = "free"

MCNext ==
  /\ UNCHANGED usage
  /\ \/ RuntimeNext /\ UNCHANGED <<searchVars, graphVars, orderVars, jobsVars>>
     \/ /\ usage = "search" /\ SearchedNext
        /\ UNCHANGED <<vars, graphVars, orderVars, jobsVars>>
     \/ /\ usage = "services" /\ GraphNext
        /\ UNCHANGED <<vars, searchVars, jobsVars>>
     \/ /\ usage = "jobs"
        /\ (Host!HostNext /\ InTurn) \/ (HostDown /\ UNCHANGED jobsVars)
        /\ UNCHANGED <<vars, searchVars, graphVars, orderVars>>

callsVars == <<vars, searchVars, orderVars>>

\* The call of the runtime, or of a search, goes on.
CallGoesOn ==
  \/ Advance /\ UNCHANGED <<searchVars, orderVars>>
  \/ SearchStep /\ UNCHANGED <<vars, orderVars>>
  \/ OrderStep /\ UNCHANGED <<vars, searchVars>>

MCSpec ==
  /\ MCInit
  /\ [][MCNext]_<<usage, vars, searchVars, graphVars, orderVars, jobsVars>>
  /\ WF_callsVars(CallGoesOn) /\ Host!Fairness

\* A call that has begun and not ended: of the runtime, which is left in no state
\* between two others, or of a search for an order.
Busy ==
  \/ ~Quiet \/ state = "shutting_down"
  \/ search = "running" \/ answer = "pending"

\* Every call comes to an end: a stop() in the stopped state or, if it was a
\* restart, in a new start; a start() running or failed; and a search found or
\* raised, in a circle of dependencies as well.
CallsReturn == Busy ~> ~Busy

\* HostJobs!TasksEnd: a task that runs is over in the end.
TasksEnd == Host!TasksEnd

\* HostJobs!CloseEnds: close() returns.
CloseEnds == Host!CloseEnds
=============================================================================
