------------------------------ MODULE HostJobs ------------------------------
(***************************************************************************)
(* The jobs of the web portal (core/web/services.py, Job and Services): a  *)
(* job is a service process started for a profile, the thread that reads   *)
(* its output, and the requests, the 15-minute timer and the shutdown of   *)
(* the host that may stop it.                                              *)
(*                                                                         *)
(* Services.lock guards the table of jobs, a lock of its own the status of *)
(* each job. stop() holds the latter until the process is dead, so it has  *)
(* two actions; every other section under a lock is one action. SIGKILL    *)
(* (taskkill) is taken to end the process before stop() goes on.           *)
(***************************************************************************)
EXTENDS Naturals, FiniteSets

CONSTANTS Jobs,        \* job ids, fresh UUIDs in the code
          Users,       \* profiles
          NoUser, NoJob,
          MAX_ACTIVE,  \* 5 in the code
          MAX_JOBS     \* 100 in the code

\* What the constants are meant to be.
HostConstants ==
  /\ IsFiniteSet(Jobs) /\ NoJob \notin Jobs /\ NoUser \notin Users
  /\ MAX_ACTIVE \in Nat /\ MAX_JOBS \in Nat /\ MAX_ACTIVE <= MAX_JOBS

VARIABLES
  jobs,       \* keys of Services.jobs
  user,       \* job.user
  service,    \* job.service: "rescs", or a "task" of one of the others
  status,     \* job.status
  cancel,     \* job.cancel is set
  process,    \* job.process: "none" yet, "alive", or how it ended
  lock,       \* job.lock: "free", or who is in stop() with it
  run,        \* where the thread of the job is
  closed,     \* Services.closed, and whether close() has returned
  toClose,    \* a local of close(): the jobs it has yet to look at
  closing     \* a local of close(): the job it is about to stop

jobVars == <<user, service, status, cancel, process, lock, run>>
closeVars == <<closed, toClose, closing>>
hostVars == <<jobs, user, service, status, cancel, process, lock, run, closed,
             toClose, closing>>

Finished == {"cancelled", "completed", "failed"}

-----------------------------------------------------------------------------
\* The status of a job is read without its lock.
Active(j) == status[j] \in {"starting", "running"}

ActiveJobs == {j \in jobs : Active(j)}

\* The host has capacity, and the profile no other task.
MayLaunch(u, s) ==
  /\ Cardinality(ActiveJobs) < MAX_ACTIVE
  /\ s = "task" => ~\E j \in ActiveJobs : user[j] = u /\ service[j] = "task"
  /\ s = "rescs" => ~\E j \in ActiveJobs : service[j] = "rescs"

\* The jobs dropped from a full table: the first that are not active, which of
\* them they are does not matter here.
Dropped ==
  {E \in SUBSET (jobs \ ActiveJobs) :
     Cardinality(E) = IF Cardinality(jobs) < MAX_JOBS THEN 0
                      ELSE Cardinality(jobs) - MAX_JOBS + 1}

HostInit ==
  /\ jobs = {}
  /\ user = [j \in Jobs |-> NoUser]
  /\ service = [j \in Jobs |-> "none"]
  /\ status = [j \in Jobs |-> "none"]
  /\ cancel = [j \in Jobs |-> FALSE]
  /\ process = [j \in Jobs |-> "none"]
  /\ lock = [j \in Jobs |-> "free"]
  /\ run = [j \in Jobs |-> "none"]
  /\ closed = "open" /\ toClose = {} /\ closing = NoJob

-----------------------------------------------------------------------------
(* Services.start and the thread of a job.                                 *)

Start(j, u, s) ==
  /\ closed = "open" /\ run[j] = "none" /\ MayLaunch(u, s)
  /\ \E E \in Dropped : jobs' = (jobs \ E) \cup {j}
  /\ user' = [user EXCEPT ![j] = u]
  /\ service' = [service EXCEPT ![j] = s]
  /\ status' = [status EXCEPT ![j] = "starting"]
  /\ run' = [run EXCEPT ![j] = "begin"]
  /\ UNCHANGED <<cancel, process, lock, closeVars>>

\* The job was stopped before its thread began.
RunCancelled(j) ==
  /\ run[j] = "begin" /\ lock[j] = "free" /\ cancel[j]
  /\ status' = [status EXCEPT ![j] = "cancelled"]
  /\ run' = [run EXCEPT ![j] = "done"]
  /\ UNCHANGED <<jobs, user, service, cancel, process, lock, closeVars>>

\* Faulty: a stop before the launch is overlooked.
RunRegardless(j) ==
  /\ run[j] = "begin" /\ lock[j] = "free"
  /\ process' = [process EXCEPT ![j] = "alive"]
  /\ status' = [status EXCEPT ![j] = "running"]
  /\ run' = [run EXCEPT ![j] = "reading"]
  /\ UNCHANGED <<jobs, user, service, cancel, lock, closeVars>>

RunLaunches(j) ==
  /\ run[j] = "begin" /\ lock[j] = "free" /\ ~cancel[j]
  /\ process' = [process EXCEPT ![j] = "alive"]
  /\ status' = [status EXCEPT ![j] = "running"]
  /\ run' = [run EXCEPT ![j] = "reading"]
  /\ UNCHANGED <<jobs, user, service, cancel, lock, closeVars>>

\* Popen raises; the exception leaves the lock, which is then taken again.
LaunchRaises(j) ==
  /\ run[j] = "begin" /\ lock[j] = "free" /\ ~cancel[j]
  /\ run' = [run EXCEPT ![j] = "raised"]
  /\ UNCHANGED <<jobs, user, service, status, cancel, process, lock, closeVars>>

RunFails(j) ==
  /\ run[j] = "raised" /\ lock[j] = "free"
  /\ status' = [status EXCEPT ![j] = "failed"]
  /\ run' = [run EXCEPT ![j] = "done"]
  /\ UNCHANGED <<jobs, user, service, cancel, process, lock, closeVars>>

\* The process ends by itself.
ProcessExits(j) ==
  /\ process[j] = "alive"
  /\ \E code \in {"ok", "error"} : process' = [process EXCEPT ![j] = code]
  /\ UNCHANGED <<jobs, user, service, status, cancel, lock, run, closeVars>>

\* The output ends; emit() takes the job's lock for what is left of it.
OutputEnds(j) ==
  /\ run[j] = "reading" /\ process[j] # "alive" /\ lock[j] = "free"
  /\ run' = [run EXCEPT ![j] = "ended"]
  /\ UNCHANGED <<jobs, user, service, status, cancel, process, lock, closeVars>>

RunFinishes(j) ==
  /\ run[j] = "ended" /\ lock[j] = "free"
  /\ status' = [status EXCEPT ![j] = IF cancel[j] THEN "cancelled"
                                     ELSE IF process[j] = "ok" THEN "completed"
                                     ELSE "failed"]
  /\ run' = [run EXCEPT ![j] = "done"]
  /\ UNCHANGED <<jobs, user, service, cancel, process, lock, closeVars>>

-----------------------------------------------------------------------------
(* Services.stop, by a request, by the timer, or by close().               *)

\* Faulty: the status changes as soon as the process has been signalled.
StopsAtOnce(j, who) ==
  /\ lock[j] = "free"
  /\ cancel' = [cancel EXCEPT ![j] = TRUE]
  /\ lock' = [lock EXCEPT ![j] = IF process[j] = "alive" THEN who ELSE "free"]
  /\ status' = [status EXCEPT ![j] = "cancelled"]

\* stop() takes the job's lock and sets job.cancel. A live process is sent
\* SIGTERM and waited for; otherwise the job is cancelled, whatever its status.
Stops(j, who) ==
  /\ lock[j] = "free"
  /\ cancel' = [cancel EXCEPT ![j] = TRUE]
  /\ IF process[j] = "alive"
       THEN lock' = [lock EXCEPT ![j] = who] /\ UNCHANGED status
       ELSE status' = [status EXCEPT ![j] = "cancelled"] /\ UNCHANGED lock

StopRequested(j) ==
  /\ j \in jobs /\ Stops(j, "caller")
  /\ UNCHANGED <<jobs, user, service, process, run, closeVars>>

\* Faulty: RESCS is timed and the tasks are not.
TimedRescs(j) == service[j] = "rescs"

Timed(j) == service[j] # "rescs"

\* The 15-minute timer, started with the process unless it is that of RESCS.
\* Services.get finds the job, for a job with a process is never dropped.
TimerFires(j) ==
  /\ run[j] = "reading" /\ Timed(j)
  /\ j \in jobs /\ Stops(j, "caller")
  /\ UNCHANGED <<jobs, user, service, process, run, closeVars>>

\* Faulty: a process that outlives SIGTERM is waited for, not killed.
StopEndsUnkilled(j) ==
  /\ lock[j] # "free" /\ process[j] # "alive"
  /\ status' = [status EXCEPT ![j] = "cancelled"]
  /\ lock' = [lock EXCEPT ![j] = "free"]
  /\ closing' = IF lock[j] = "close" THEN NoJob ELSE closing
  /\ UNCHANGED <<jobs, user, service, cancel, process, run, closed, toClose>>

\* The process has ended, or is killed after three seconds.
StopEnds(j) ==
  /\ lock[j] # "free"
  /\ process' = [process EXCEPT ![j] = IF @ = "alive" THEN "error" ELSE @]
  /\ status' = [status EXCEPT ![j] = "cancelled"]
  /\ lock' = [lock EXCEPT ![j] = "free"]
  /\ closing' = IF lock[j] = "close" THEN NoJob ELSE closing
  /\ UNCHANGED <<jobs, user, service, cancel, run, closed, toClose>>

-----------------------------------------------------------------------------
(* Services.close, at Ctrl+C.                                              *)

CloseRequested ==
  /\ closed = "open"
  /\ closed' = "closing" /\ toClose' = jobs
  /\ UNCHANGED <<jobs, jobVars, closing>>

\* Faulty: a job that is about to be launched is passed over.
CloseLooksForRunning(j) ==
  /\ closed = "closing" /\ closing = NoJob /\ j \in toClose
  /\ toClose' = toClose \ {j}
  /\ closing' = IF status[j] = "running" THEN j ELSE NoJob
  /\ UNCHANGED <<jobs, jobVars, closed>>

\* close() looks at the status of the next job, without its lock.
CloseLooks(j) ==
  /\ closed = "closing" /\ closing = NoJob /\ j \in toClose
  /\ toClose' = toClose \ {j}
  /\ closing' = IF Active(j) THEN j ELSE NoJob
  /\ UNCHANGED <<jobs, jobVars, closed>>

CloseStops(j) ==
  /\ closing = j /\ Stops(j, "close")
  /\ closing' = IF process[j] = "alive" THEN j ELSE NoJob
  /\ UNCHANGED <<jobs, user, service, process, run, closed, toClose>>

CloseReturns ==
  /\ closed = "closing" /\ toClose = {} /\ closing = NoJob
  /\ closed' = "closed"
  /\ UNCHANGED <<jobs, jobVars, toClose, closing>>

-----------------------------------------------------------------------------
Run(j) ==
  \/ RunCancelled(j) \/ RunLaunches(j) \/ LaunchRaises(j) \/ RunFails(j)
  \/ OutputEnds(j) \/ RunFinishes(j)

HostNext ==
  \/ \E j \in Jobs, u \in Users, s \in {"task", "rescs"} : Start(j, u, s)
  \/ \E j \in Jobs : \/ Run(j) \/ ProcessExits(j)
                     \/ StopRequested(j) \/ TimerFires(j) \/ StopEnds(j)
                     \/ CloseLooks(j) \/ CloseStops(j)
  \/ CloseRequested \/ CloseReturns

HostSpec == HostInit /\ [][HostNext]_hostVars

\* The thread in close().
CloseGoesOn ==
  \/ \E j \in Jobs : CloseLooks(j) \/ CloseStops(j)
  \/ CloseReturns

\* Threads go on, the timer fires, and a killed process ends. A job's lock is
\* held across a wait once at most, for its process dies under it.
Fairness ==
  /\ \A j \in Jobs : /\ WF_hostVars(Run(j)) /\ WF_hostVars(TimerFires(j))
                     /\ WF_hostVars(StopEnds(j))
  /\ WF_hostVars(CloseGoesOn)

FairHostSpec == HostSpec /\ Fairness

-----------------------------------------------------------------------------
(* Correctness.                                                            *)

TypeOK ==
  /\ jobs \subseteq Jobs
  /\ user \in [Jobs -> Users \cup {NoUser}]
  /\ service \in [Jobs -> {"none", "task", "rescs"}]
  /\ status \in [Jobs -> Finished \cup {"none", "starting", "running"}]
  /\ cancel \in [Jobs -> BOOLEAN]
  /\ process \in [Jobs -> {"none", "alive", "ok", "error"}]
  /\ lock \in [Jobs -> {"free", "caller", "close"}]
  /\ run \in [Jobs -> {"none", "begin", "raised", "reading", "ended", "done"}]
  /\ closed \in {"open", "closing", "closed"}
  /\ toClose \subseteq Jobs
  /\ closing \in Jobs \cup {NoJob}

Alive == {j \in Jobs : process[j] = "alive"}

\* The limits hold for the processes, although start() counts statuses that
\* other threads are changing: five processes, one task for a profile, one
\* RESCS.
ProcessesLimited ==
  /\ Cardinality(Alive) <= MAX_ACTIVE
  /\ \A j, k \in Alive :
       j # k => \/ service[j] # service[k]
                \/ service[j] = "task" /\ user[j] # user[k]

\* A process can always be stopped: its job is in the table, which never holds
\* more than a hundred.
ProcessesListed == Alive \subseteq jobs /\ Cardinality(jobs) <= MAX_JOBS

\* A stop that has returned has taken effect: the job has no live process, and
\* its thread will not launch one.
StopTakesEffect ==
  \A j \in Jobs : cancel[j] /\ lock[j] = "free" => process[j] # "alive"

\* A status that says the job is over is true.
FinishedIsDead == \A j \in Jobs : status[j] \in Finished => process[j] # "alive"

\* The limits bound what really runs, whatever the threads of the jobs, their
\* callers and the timers do between a look at a status and its use.
JobsBounded == TypeOK /\ ProcessesLimited /\ ProcessesListed /\ FinishedIsDead

\* docs/terminal-commands.md: "Ctrl+C stops processes launched by this CORE
\* instance": once close() has returned no process is alive, and none will be.
CloseStopsAll ==
  closed = "closed" =>
    \A j \in Jobs : /\ process[j] # "alive"
                    /\ run[j] = "begin" => cancel[j]

\* docs/web-portal.md: "Tasks have a 15-minute execution limit": a task that
\* runs is over in the end, whatever its process does.
TasksEnd ==
  \A j \in Jobs :
    process[j] = "alive" /\ service[j] = "task" ~> status[j] \in Finished

\* close() returns.
CloseEnds == closed = "closing" ~> closed = "closed"

=============================================================================
