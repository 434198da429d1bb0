---------------------------- MODULE MCApplication ----------------------------
(* Three parts of the application for TLC, each in a use of its own: its     *)
(* life cycle with everything it builds; checks and events among concurrent  *)
(* threads; and the jobs of the web portal, whose ends are in MCRuntime.     *)
EXTENDS AppLifecycle, HealthEvents, HostJobs, TLC

VARIABLE usage     \* "lifecycle", "health" or "jobs", once and for all

ASSUME HostConstants /\ HealthConstants

\* A configuration may disable nothing, or one of these and what needs it.
SomeRequests ==
  {{}, {"communication"}, {"services"}, {"health"}, {"security"}}

Interchangeable == Permutations(Users) \cup Permutations(Jobs)

\* A check is begun by the first thread that is idle: they are all alike.
InTurn ==
  \A t \in Threads : step[t] = "idle" /\ step'[t] # "idle" =>
    t = CHOOSE other \in Threads : step[other] = "idle"

\* The bus is stopped and started when an announcement is due, and the monitor when
\* no check is under way: only then do they look whether they are.
Meanwhile ==
  /\ running' # running => \E t \in Threads : step[t] = "notify"
  /\ monitoring' # monitoring => \A t \in Threads : step[t] = "idle"

\* How a process ends by itself shows in the status of its job only.
EndsWell ==
  \A j \in Jobs : process[j] = "alive" /\ process'[j] = "error" => lock[j] # "free"

MCInit ==
  /\ usage \in {"lifecycle", "health", "jobs"}
  /\ Init /\ HealthInit /\ HostInit

\* A step that changes nothing is not worth its permutations.
MCNext ==
  /\ UNCHANGED usage
  /\ \/ usage = "lifecycle" /\ Next /\ UNCHANGED <<healthVars, hostVars>>
     \/ /\ usage = "health" /\ HealthNext /\ InTurn /\ Meanwhile
        /\ healthVars' # healthVars /\ UNCHANGED <<vars, hostVars>>
     \/ usage = "jobs" /\ HostNext /\ EndsWell /\ UNCHANGED <<vars, healthVars>>

MCSpec == MCInit /\ [][MCNext]_<<usage, vars, healthVars, hostVars>>
=============================================================================
