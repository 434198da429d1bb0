---------------------------- MODULE HostJobs_proofs ----------------------------
(***************************************************************************)
(* Proofs about HostJobs, for any number of jobs, profiles and any limits. *)
(***************************************************************************)
EXTENDS HostJobs, FiniteSetTheorems, TLAPS

\* Where the thread of a job is says what its process and its status can be; a
\* job that holds its lock in stop() has been told so.
ThreadInv ==
  \A j \in Jobs :
    /\ run[j] \in {"none", "begin"} => process[j] = "none"
    /\ process[j] = "alive" => run[j] = "reading" /\ status[j] = "running"
    /\ run[j] = "begin" /\ ~cancel[j] => status[j] = "starting"
    /\ lock[j] # "free" => cancel[j]

\* The limits hold for the jobs that are active, not only for their processes.
ActiveInv ==
  /\ \A j \in Jobs : Active(j) => j \in jobs
  /\ Cardinality(ActiveJobs) <= MAX_ACTIVE
  /\ Cardinality(jobs) <= MAX_JOBS
  /\ \A j, k \in ActiveJobs :
       j # k => \/ service[j] # service[k]
                \/ service[j] = "task" /\ user[j] # user[k]

\* What close() has yet to do: it has not passed over an active job, and waits
\* for the stop it is in.
CloseInv ==
  /\ closed # "open" => \A j \in Jobs : Active(j) => j \in toClose \/ closing = j
  /\ closed = "closed" => toClose = {} /\ closing = NoJob
  /\ \A j \in Jobs : lock[j] = "close" => closing = j

IInv == TypeOK /\ ThreadInv /\ StopTakesEffect /\ ActiveInv /\ CloseInv

LEMMA InvInit == HostConstants /\ HostInit => IInv
<1> SUFFICES ASSUME HostConstants, HostInit PROVE IInv
  OBVIOUS
<1>1. ActiveJobs = {} /\ jobs = {}
  BY DEF HostInit, ActiveJobs
<1>2. ActiveInv
  BY <1>1, FS_EmptySet DEF HostConstants, HostInit, ActiveInv, Active
<1> QED
  BY <1>2 DEF HostConstants, HostInit, IInv, TypeOK, ThreadInv, StopTakesEffect, CloseInv

-----------------------------------------------------------------------------
(* How many jobs are active.                                               *)

LEMMA TablesFinite ==
  ASSUME HostConstants, IInv
  PROVE  /\ IsFiniteSet(jobs) /\ Cardinality(jobs) \in Nat
         /\ IsFiniteSet(ActiveJobs) /\ Cardinality(ActiveJobs) \in Nat
<1>1. jobs \in SUBSET Jobs /\ ActiveJobs \in SUBSET Jobs
  BY DEF IInv, TypeOK, ActiveJobs
<1> QED BY <1>1, FS_Subset, FS_CardinalityType DEF HostConstants

\* Only start() makes a job active: what leaves the others as they were, or over,
\* keeps the limits.
LEMMA ActiveShrinks ==
  ASSUME HostConstants, IInv, UNCHANGED <<jobs, user, service>>,
         \A j \in Jobs : Active(j)' => Active(j)
  PROVE  ActiveInv'
<1>1. ActiveJobs' \subseteq ActiveJobs
  BY DEF IInv, TypeOK, ActiveJobs
<1>2. Cardinality(ActiveJobs') <= Cardinality(ActiveJobs) /\ Cardinality(ActiveJobs') \in Nat
  BY <1>1, TablesFinite, FS_Subset, FS_CardinalityType
<1>3. Cardinality(ActiveJobs)' <= MAX_ACTIVE
  BY <1>2, TablesFinite DEF HostConstants, IInv, ActiveInv
<1> QED BY <1>1, <1>3 DEF IInv, ActiveInv

\* start() looks at the statuses without the locks of the jobs: since it alone
\* makes them active, under the lock of the table, the limits hold when it is done.
LEMMA StartKeepsLimits ==
  ASSUME HostConstants, IInv, NEW j \in Jobs, NEW u \in Users,
         NEW s \in {"task", "rescs"}, Start(j, u, s)
  PROVE  ActiveInv'
<1> DEFINE count == Cardinality(jobs)
<1>1. PICK E \in Dropped : jobs' = (jobs \ E) \cup {j}
  BY DEF Start
<1>2. /\ E \subseteq jobs \ ActiveJobs
      /\ Cardinality(E) = IF count < MAX_JOBS THEN 0 ELSE count - MAX_JOBS + 1
  BY <1>1 DEF Dropped
<1>3. Cardinality(ActiveJobs) < MAX_ACTIVE
  BY DEF Start, MayLaunch
<1>4. ActiveJobs' = ActiveJobs \cup {j}
  BY <1>1, <1>2 DEF Start, ActiveJobs, Active, IInv, TypeOK, ActiveInv
<1>5. Cardinality(ActiveJobs') <= MAX_ACTIVE
  <2>1. \/ Cardinality(ActiveJobs \cup {j}) = Cardinality(ActiveJobs)
        \/ Cardinality(ActiveJobs \cup {j}) = Cardinality(ActiveJobs) + 1
    BY TablesFinite, FS_AddElement
  <2> QED BY <1>3, <1>4, <2>1, TablesFinite DEF HostConstants
<1>6. Cardinality(jobs') <= MAX_JOBS
  <2>1. IsFiniteSet(E) /\ Cardinality(E) \in Nat /\ jobs \cap E = E
    BY <1>2, TablesFinite, FS_Subset, FS_CardinalityType
  <2>2. IsFiniteSet(jobs \ E) /\ Cardinality(jobs \ E) = count - Cardinality(E)
    BY <2>1, TablesFinite, FS_Difference
  <2>3. \/ Cardinality((jobs \ E) \cup {j}) = Cardinality(jobs \ E)
        \/ Cardinality((jobs \ E) \cup {j}) = Cardinality(jobs \ E) + 1
    BY <2>2, FS_AddElement
  <2>4. Cardinality(jobs') \in Int /\ Cardinality(jobs') <= count - Cardinality(E) + 1
    BY <1>1, <2>1, <2>2, <2>3, TablesFinite
  <2>5. count <= MAX_JOBS /\ 1 <= MAX_JOBS /\ MAX_JOBS \in Nat
    BY <1>3, TablesFinite DEF IInv, ActiveInv, HostConstants
  <2> HIDE DEF count
  <2>6. count \in Nat
    BY TablesFinite DEF count
  <2> QED BY <1>2, <2>1, <2>4, <2>5, <2>6
<1>7. \A k, l \in ActiveJobs' :
        k # l => \/ service'[k] # service'[l]
                 \/ service'[k] = "task" /\ user'[k] # user'[l]
  BY <1>4 DEF Start, MayLaunch, ActiveJobs, IInv, TypeOK, ActiveInv
<1>8. \A k \in Jobs : Active(k)' => k \in jobs'
  BY <1>1, <1>2 DEF Start, ActiveJobs, Active, IInv, TypeOK, ActiveInv
<1> QED BY <1>5, <1>6, <1>7, <1>8 DEF ActiveInv

-----------------------------------------------------------------------------
(* Every step keeps IInv.                                                  *)

LEMMA StartStep ==
  ASSUME HostConstants, IInv, NEW j \in Jobs, NEW u \in Users,
         NEW s \in {"task", "rescs"}, Start(j, u, s)
  PROVE  IInv'
<1>1. TypeOK'
  BY DEF Start, Dropped, IInv, TypeOK, Finished, closeVars
<1>2. ThreadInv' /\ StopTakesEffect'
  BY DEF Start, IInv, TypeOK, ThreadInv, StopTakesEffect, closeVars
<1>3. CloseInv'
  BY DEF Start, IInv, TypeOK, CloseInv, closeVars
<1> QED BY <1>1, <1>2, <1>3, StartKeepsLimits DEF IInv

LEMMA JobStep ==
  ASSUME HostConstants, IInv, NEW j \in Jobs,
         \/ Run(j) \/ ProcessExits(j) \/ StopRequested(j) \/ TimerFires(j)
         \/ StopEnds(j) \/ CloseLooks(j) \/ CloseStops(j)
  PROVE  IInv'
<1>1. CASE RunCancelled(j)
  <2>1. TypeOK'
    BY <1>1 DEF RunCancelled, IInv, TypeOK, Finished, hostVars, jobVars, closeVars
  <2>2. ThreadInv' /\ StopTakesEffect'
    BY <1>1 DEF RunCancelled, IInv, TypeOK, ThreadInv, StopTakesEffect, Finished, jobVars, closeVars
  <2>3. CloseInv'
    BY <1>1 DEF RunCancelled, IInv, TypeOK, ThreadInv, CloseInv, ActiveInv, Active, Finished, jobVars, closeVars, HostConstants
  <2>4. \A k \in Jobs : Active(k)' => Active(k)
    BY <1>1 DEF RunCancelled, IInv, TypeOK, ThreadInv, Active, Finished, jobVars, closeVars
  <2>5. UNCHANGED <<jobs, user, service>>
    BY <1>1 DEF RunCancelled, jobVars, hostVars
  <2> QED BY <2>1, <2>2, <2>3, <2>4, <2>5, ActiveShrinks DEF IInv
<1>2. CASE RunLaunches(j)
  <2>1. TypeOK'
    BY <1>2 DEF RunLaunches, IInv, TypeOK, Finished, hostVars, jobVars, closeVars
  <2>2. ThreadInv' /\ StopTakesEffect'
    BY <1>2 DEF RunLaunches, IInv, TypeOK, ThreadInv, StopTakesEffect, Finished, jobVars, closeVars
  <2>3. CloseInv'
    BY <1>2 DEF RunLaunches, IInv, TypeOK, ThreadInv, CloseInv, ActiveInv, Active, Finished, jobVars, closeVars, HostConstants
  <2>4. \A k \in Jobs : Active(k)' => Active(k)
    BY <1>2 DEF RunLaunches, IInv, TypeOK, ThreadInv, Active, Finished, jobVars, closeVars
  <2>5. UNCHANGED <<jobs, user, service>>
    BY <1>2 DEF RunLaunches, jobVars, hostVars
  <2> QED BY <2>1, <2>2, <2>3, <2>4, <2>5, ActiveShrinks DEF IInv
<1>3. CASE LaunchRaises(j)
  <2>1. TypeOK'
    BY <1>3 DEF LaunchRaises, IInv, TypeOK, Finished, hostVars, jobVars, closeVars
  <2>2. ThreadInv' /\ StopTakesEffect'
    BY <1>3 DEF LaunchRaises, IInv, TypeOK, ThreadInv, StopTakesEffect, Finished, jobVars, closeVars
  <2>3. CloseInv'
    BY <1>3 DEF LaunchRaises, IInv, TypeOK, ThreadInv, CloseInv, ActiveInv, Active, Finished, jobVars, closeVars, HostConstants
  <2>4. \A k \in Jobs : Active(k)' => Active(k)
    BY <1>3 DEF LaunchRaises, IInv, TypeOK, ThreadInv, Active, Finished, jobVars, closeVars
  <2>5. UNCHANGED <<jobs, user, service>>
    BY <1>3 DEF LaunchRaises, jobVars, hostVars
  <2> QED BY <2>1, <2>2, <2>3, <2>4, <2>5, ActiveShrinks DEF IInv
<1>4. CASE RunFails(j)
  <2>1. TypeOK'
    BY <1>4 DEF RunFails, IInv, TypeOK, Finished, hostVars, jobVars, closeVars
  <2>2. ThreadInv' /\ StopTakesEffect'
    BY <1>4 DEF RunFails, IInv, TypeOK, ThreadInv, StopTakesEffect, Finished, jobVars, closeVars
  <2>3. CloseInv'
    BY <1>4 DEF RunFails, IInv, TypeOK, ThreadInv, CloseInv, ActiveInv, Active, Finished, jobVars, closeVars, HostConstants
  <2>4. \A k \in Jobs : Active(k)' => Active(k)
    BY <1>4 DEF RunFails, IInv, TypeOK, ThreadInv, Active, Finished, jobVars, closeVars
  <2>5. UNCHANGED <<jobs, user, service>>
    BY <1>4 DEF RunFails, jobVars, hostVars
  <2> QED BY <2>1, <2>2, <2>3, <2>4, <2>5, ActiveShrinks DEF IInv
<1>5. CASE ProcessExits(j)
  <2>1. TypeOK'
    BY <1>5 DEF ProcessExits, IInv, TypeOK, Finished, hostVars, jobVars, closeVars
  <2>2. ThreadInv' /\ StopTakesEffect'
    BY <1>5 DEF ProcessExits, IInv, TypeOK, ThreadInv, StopTakesEffect, Finished, jobVars, closeVars
  <2>3. CloseInv'
    BY <1>5 DEF ProcessExits, IInv, TypeOK, ThreadInv, CloseInv, ActiveInv, Active, Finished, jobVars, closeVars, HostConstants
  <2>4. \A k \in Jobs : Active(k)' => Active(k)
    BY <1>5 DEF ProcessExits, IInv, TypeOK, ThreadInv, Active, Finished, jobVars, closeVars
  <2>5. UNCHANGED <<jobs, user, service>>
    BY <1>5 DEF ProcessExits, jobVars, hostVars
  <2> QED BY <2>1, <2>2, <2>3, <2>4, <2>5, ActiveShrinks DEF IInv
<1>6. CASE OutputEnds(j)
  <2>1. TypeOK'
    BY <1>6 DEF OutputEnds, IInv, TypeOK, Finished, hostVars, jobVars, closeVars
  <2>2. ThreadInv' /\ StopTakesEffect'
    BY <1>6 DEF OutputEnds, IInv, TypeOK, ThreadInv, StopTakesEffect, Finished, jobVars, closeVars
  <2>3. CloseInv'
    BY <1>6 DEF OutputEnds, IInv, TypeOK, ThreadInv, CloseInv, ActiveInv, Active, Finished, jobVars, closeVars, HostConstants
  <2>4. \A k \in Jobs : Active(k)' => Active(k)
    BY <1>6 DEF OutputEnds, IInv, TypeOK, ThreadInv, Active, Finished, jobVars, closeVars
  <2>5. UNCHANGED <<jobs, user, service>>
    BY <1>6 DEF OutputEnds, jobVars, hostVars
  <2> QED BY <2>1, <2>2, <2>3, <2>4, <2>5, ActiveShrinks DEF IInv
<1>7. CASE RunFinishes(j)
  <2>1. TypeOK'
    BY <1>7 DEF RunFinishes, IInv, TypeOK, Finished, hostVars, jobVars, closeVars
  <2>2. ThreadInv' /\ StopTakesEffect'
    BY <1>7 DEF RunFinishes, IInv, TypeOK, ThreadInv, StopTakesEffect, Finished, jobVars, closeVars
  <2>3. CloseInv'
    BY <1>7 DEF RunFinishes, IInv, TypeOK, ThreadInv, CloseInv, ActiveInv, Active, Finished, jobVars, closeVars, HostConstants
  <2>4. \A k \in Jobs : Active(k)' => Active(k)
    BY <1>7 DEF RunFinishes, IInv, TypeOK, ThreadInv, Active, Finished, jobVars, closeVars
  <2>5. UNCHANGED <<jobs, user, service>>
    BY <1>7 DEF RunFinishes, jobVars, hostVars
  <2> QED BY <2>1, <2>2, <2>3, <2>4, <2>5, ActiveShrinks DEF IInv
<1>8. CASE StopRequested(j)
  <2>1. TypeOK'
    BY <1>8 DEF StopRequested, Stops, IInv, TypeOK, Finished, hostVars, jobVars, closeVars
  <2>2. ThreadInv' /\ StopTakesEffect'
    BY <1>8 DEF StopRequested, Stops, IInv, TypeOK, ThreadInv, StopTakesEffect, Finished, jobVars, closeVars
  <2>3. CloseInv'
    BY <1>8 DEF StopRequested, Stops, IInv, TypeOK, ThreadInv, CloseInv, ActiveInv, Active, Finished, jobVars, closeVars, HostConstants
  <2>4. \A k \in Jobs : Active(k)' => Active(k)
    BY <1>8 DEF StopRequested, Stops, IInv, TypeOK, ThreadInv, Active, Finished, jobVars, closeVars
  <2>5. UNCHANGED <<jobs, user, service>>
    BY <1>8 DEF StopRequested, Stops, jobVars, hostVars
  <2> QED BY <2>1, <2>2, <2>3, <2>4, <2>5, ActiveShrinks DEF IInv
<1>9. CASE TimerFires(j)
  <2>1. TypeOK'
    BY <1>9 DEF TimerFires, Stops, IInv, TypeOK, Finished, hostVars, jobVars, closeVars
  <2>2. ThreadInv' /\ StopTakesEffect'
    BY <1>9 DEF TimerFires, Stops, IInv, TypeOK, ThreadInv, StopTakesEffect, Finished, jobVars, closeVars
  <2>3. CloseInv'
    BY <1>9 DEF TimerFires, Stops, IInv, TypeOK, ThreadInv, CloseInv, ActiveInv, Active, Finished, jobVars, closeVars, HostConstants
  <2>4. \A k \in Jobs : Active(k)' => Active(k)
    BY <1>9 DEF TimerFires, Stops, IInv, TypeOK, ThreadInv, Active, Finished, jobVars, closeVars
  <2>5. UNCHANGED <<jobs, user, service>>
    BY <1>9 DEF TimerFires, Stops, jobVars, hostVars
  <2> QED BY <2>1, <2>2, <2>3, <2>4, <2>5, ActiveShrinks DEF IInv
<1>10. CASE StopEnds(j)
  <2>1. TypeOK'
    BY <1>10 DEF StopEnds, IInv, TypeOK, Finished, hostVars, jobVars, closeVars
  <2>2. ThreadInv' /\ StopTakesEffect'
    BY <1>10 DEF StopEnds, IInv, TypeOK, ThreadInv, StopTakesEffect, Finished, jobVars, closeVars
  <2>3. CloseInv'
    BY <1>10 DEF StopEnds, IInv, TypeOK, ThreadInv, CloseInv, ActiveInv, Active, Finished, jobVars, closeVars, HostConstants
  <2>4. \A k \in Jobs : Active(k)' => Active(k)
    BY <1>10 DEF StopEnds, IInv, TypeOK, ThreadInv, Active, Finished, jobVars, closeVars
  <2>5. UNCHANGED <<jobs, user, service>>
    BY <1>10 DEF StopEnds, jobVars, hostVars
  <2> QED BY <2>1, <2>2, <2>3, <2>4, <2>5, ActiveShrinks DEF IInv
<1>11. CASE CloseLooks(j)
  <2>1. TypeOK'
    BY <1>11 DEF CloseLooks, Active, IInv, TypeOK, Finished, hostVars, jobVars, closeVars
  <2>2. ThreadInv' /\ StopTakesEffect'
    BY <1>11 DEF CloseLooks, Active, IInv, TypeOK, ThreadInv, StopTakesEffect, Finished, jobVars, closeVars
  <2>3. CloseInv'
    BY <1>11 DEF CloseLooks, Active, IInv, TypeOK, ThreadInv, CloseInv, ActiveInv, Active, Finished, jobVars, closeVars, HostConstants
  <2>4. \A k \in Jobs : Active(k)' => Active(k)
    BY <1>11 DEF CloseLooks, Active, IInv, TypeOK, ThreadInv, Active, Finished, jobVars, closeVars
  <2>5. UNCHANGED <<jobs, user, service>>
    BY <1>11 DEF CloseLooks, Active, jobVars, hostVars
  <2> QED BY <2>1, <2>2, <2>3, <2>4, <2>5, ActiveShrinks DEF IInv
<1>12. CASE CloseStops(j)
  <2>1. TypeOK'
    BY <1>12 DEF CloseStops, Stops, IInv, TypeOK, Finished, hostVars, jobVars, closeVars
  <2>2. ThreadInv' /\ StopTakesEffect'
    BY <1>12 DEF CloseStops, Stops, IInv, TypeOK, ThreadInv, StopTakesEffect, Finished, jobVars, closeVars
  <2>3. CloseInv'
    BY <1>12 DEF CloseStops, Stops, IInv, TypeOK, ThreadInv, CloseInv, ActiveInv, Active, Finished, jobVars, closeVars, HostConstants
  <2>4. \A k \in Jobs : Active(k)' => Active(k)
    BY <1>12 DEF CloseStops, Stops, IInv, TypeOK, ThreadInv, Active, Finished, jobVars, closeVars
  <2>5. UNCHANGED <<jobs, user, service>>
    BY <1>12 DEF CloseStops, Stops, jobVars, hostVars
  <2> QED BY <2>1, <2>2, <2>3, <2>4, <2>5, ActiveShrinks DEF IInv
<1> QED
  BY <1>1, <1>2, <1>3, <1>4, <1>5, <1>6, <1>7, <1>8, <1>9, <1>10, <1>11, <1>12 DEF Run

LEMMA CloseStep ==
  ASSUME HostConstants, IInv, CloseRequested \/ CloseReturns \/ UNCHANGED hostVars
  PROVE  IInv'
<1>1. /\ TypeOK' /\ ThreadInv' /\ StopTakesEffect'
      /\ UNCHANGED <<jobs, user, service>>
      /\ \A k \in Jobs : Active(k)' => Active(k)
  BY DEF CloseRequested, CloseReturns, hostVars, jobVars, IInv, TypeOK, ThreadInv,
         StopTakesEffect, Active
<1>2. CloseInv'
  BY DEF CloseRequested, CloseReturns, hostVars, jobVars, IInv, TypeOK, CloseInv,
         ActiveInv, Active
<1> QED BY <1>1, <1>2, ActiveShrinks DEF IInv

LEMMA Invariance == ASSUME HostConstants PROVE HostSpec => []IInv
<1>1. HostInit => IInv
  BY InvInit
<1>2. IInv /\ [HostNext]_hostVars => IInv'
  BY StartStep, JobStep, CloseStep DEF HostNext
<1> QED BY <1>1, <1>2, PTL DEF HostSpec

-----------------------------------------------------------------------------
(* The theorems.                                                           *)

\* The limits of start() hold for the processes that run, every one of which
\* has its job in the table, and no job is reported over while its process
\* lives: for every number of jobs, and for every MAX_ACTIVE <= MAX_JOBS. The
\* hypothesis says what the constants are.
THEOREM JobsBoundedHolds == ASSUME HostConstants PROVE HostSpec => []JobsBounded
<1>1. ASSUME IInv PROVE JobsBounded
  <2>1. Alive \subseteq ActiveJobs
    BY <1>1 DEF Alive, ActiveJobs, Active, IInv, ThreadInv, ActiveInv
  <2>2. Cardinality(Alive) <= Cardinality(ActiveJobs) /\ Cardinality(Alive) \in Nat
    BY <1>1, <2>1, TablesFinite, FS_Subset, FS_CardinalityType
  <2>3. ProcessesLimited
    BY <1>1, <2>1, <2>2, TablesFinite DEF ProcessesLimited, IInv, ActiveInv, HostConstants
  <2>4. ProcessesListed /\ FinishedIsDead
    BY <1>1, <2>1 DEF ProcessesListed, FinishedIsDead, Finished, ActiveJobs,
                      IInv, ActiveInv, ThreadInv
  <2> QED BY <1>1, <2>3, <2>4 DEF JobsBounded, IInv
<1> QED BY <1>1, Invariance, PTL

\* A job that has been stopped has no process when stop() is done with it, and
\* its thread launches none later.
THEOREM StopTakesEffectHolds == ASSUME HostConstants PROVE HostSpec => []StopTakesEffect
BY Invariance, PTL DEF IInv

\* Once close() has returned no process lives and none will be launched, though
\* it reads the statuses without the locks of the jobs and other threads may be
\* in the middle of a start or a stop.
THEOREM CloseStopsAllHolds == ASSUME HostConstants PROVE HostSpec => []CloseStopsAll
<1>1. ASSUME IInv PROVE CloseStopsAll
  BY <1>1 DEF CloseStopsAll, IInv, CloseInv, ThreadInv, Active, HostConstants
<1> QED BY <1>1, Invariance, PTL

=============================================================================
