----------------------------- MODULE HealthEvents -----------------------------
(***************************************************************************)
(* The event bus (core/events/bus.py) and the health monitor               *)
(* (core/health/monitor.py), which announces every change of a component's *)
(* status on it (_emit_health_changed in core/application/app.py).         *)
(*                                                                         *)
(* Checks are run by whichever thread asks for them: the one that starts   *)
(* the application, the portal's and the transport's. Each takes the lock  *)
(* of the monitor three times, and calls the check, and later the bus,     *)
(* without it; the bus calls its handlers without a lock, too. One kind of *)
(* event is enough: HEALTH_CHANGED.                                        *)
(***************************************************************************)
EXTENDS Naturals, Sequences, SequencesExt, FiniteSets

CONSTANTS Threads, Handlers, Monitored,
          Nobody    \* no member of Monitored

\* What the constants satisfy.
HealthConstants == Nobody \notin Monitored

VARIABLES
  running,      \* EventBus._active
  subscribers,  \* EventBus._subscribers
  monitoring,   \* HealthMonitor._active
  checks,       \* keys of _checks, and of the two counters
  results,      \* the status in _results, "none" without one
  step,         \* what a thread is about to do
  subject,      \* the component it is checking
  outcome,      \* the status that came out
  pending,      \* the handlers it has yet to call
  view,         \* the status each handler was told last
  owed,         \* handlers subscribed all the time since the event came
  muddled       \* components whose checks have overlapped, or with a lost event

busVars == <<running, subscribers>>
monitorVars == <<monitoring, checks, results>>
threadVars == <<step, subject, outcome, pending>>
healthVars == <<busVars, monitorVars, threadVars, view, owed, muddled>>

Statuses == {"healthy", "unhealthy"}

HealthInit ==
  /\ running = TRUE /\ subscribers = <<>>
  /\ monitoring = TRUE /\ checks = {}
  /\ results = [m \in Monitored |-> "none"]
  /\ step = [t \in Threads |-> "idle"]
  /\ subject = [t \in Threads |-> Nobody]
  /\ outcome = [t \in Threads |-> "none"]
  /\ pending = [t \in Threads |-> <<>>]
  /\ view = [h \in Handlers |-> [m \in Monitored |-> "none"]]
  /\ owed = [t \in Threads |-> {}]
  /\ muddled = {}

-----------------------------------------------------------------------------
(* The bus.                                                                *)

\* A subscriber starts without a view, and is subscribed once.
Subscribe(h) ==
  /\ h \notin ToSet(subscribers)
  /\ subscribers' = Append(subscribers, h)
  /\ view' = [view EXCEPT ![h] = results]
  /\ UNCHANGED <<running, monitorVars, threadVars, owed, muddled>>

\* The handler is removed where it stands in the list.
Unsubscribe(i) ==
  /\ subscribers' = RemoveAt(subscribers, i)
  /\ owed' = [t \in Threads |-> owed[t] \ {subscribers[i]}]
  /\ UNCHANGED <<running, monitorVars, threadVars, view, muddled>>

ClearSubscribers ==
  /\ subscribers' = <<>>
  /\ owed' = [t \in Threads |-> owed[t] \ ToSet(subscribers)]
  /\ UNCHANGED <<running, monitorVars, threadVars, view, muddled>>

SetRunning(on) ==
  /\ running' = on
  /\ UNCHANGED <<subscribers, monitorVars, threadVars, view, owed, muddled>>

-----------------------------------------------------------------------------
(* The monitor.                                                            *)

\* A check that is registered again starts anew, its status unknown.
RegisterCheck(m) ==
  /\ checks' = checks \cup {m}
  /\ results' = [results EXCEPT ![m] = "unknown"]
  /\ UNCHANGED <<busVars, monitoring, threadVars, view, owed, muddled>>

Drop(gone) ==
  /\ checks' = checks \ gone
  /\ results' = [m \in Monitored |-> IF m \in gone THEN "none" ELSE results[m]]
  /\ UNCHANGED <<busVars, monitoring, threadVars, view, owed, muddled>>

UnregisterCheck(m) == m \in checks /\ Drop({m})

ClearChecks == Drop(Monitored)

SetMonitoring(on) ==
  /\ monitoring' = on
  /\ UNCHANGED <<busVars, checks, results, threadVars, view, owed, muddled>>

-----------------------------------------------------------------------------
(* check(), step by step.                                                  *)

Checking(m) == {t \in Threads : subject[t] = m}

Goto(t, next) == step' = [step EXCEPT ![t] = next]

\* An inactive monitor raises, and an unknown component is answered at once.
CheckCalled(t, m) ==
  /\ step[t] = "idle" /\ monitoring /\ m \in checks
  /\ Goto(t, "count") /\ subject' = [subject EXCEPT ![t] = m]
  /\ muddled' = IF Checking(m) # {} THEN muddled \cup {m} ELSE muddled
  /\ UNCHANGED <<busVars, monitorVars, outcome, pending, view, owed>>

End(t) ==
  /\ Goto(t, "idle")
  /\ subject' = [subject EXCEPT ![t] = Nobody]
  /\ outcome' = [outcome EXCEPT ![t] = "none"]

\* The counter is gone if the check has been unregistered since: KeyError.
CountRaises(t) ==
  /\ step[t] = "count" /\ subject[t] \notin checks
  /\ End(t)
  /\ UNCHANGED <<busVars, monitorVars, pending, view, owed, muddled>>

Count(t) ==
  /\ step[t] = "count" /\ subject[t] \in checks
  /\ Goto(t, "run")
  /\ UNCHANGED <<busVars, monitorVars, subject, outcome, pending, view, owed,
                 muddled>>

CheckReturns(t, status) ==
  /\ step[t] = "run"
  /\ Goto(t, "store") /\ outcome' = [outcome EXCEPT ![t] = status]
  /\ UNCHANGED <<busVars, monitorVars, subject, pending, view, owed, muddled>>

\* A check that raises, or returns nonsense, counts as a failure of its
\* component, and raises itself if there is no longer a count.
CheckRaises(t) ==
  /\ step[t] = "run"
  /\ IF subject[t] \in checks
       THEN /\ Goto(t, "store") /\ UNCHANGED subject
            /\ outcome' = [outcome EXCEPT ![t] = "unhealthy"]
       ELSE End(t)
  /\ UNCHANGED <<busVars, monitorVars, pending, view, owed, muddled>>

\* Faulty: only a change for the worse is announced.
StoreWorse(t) ==
  /\ step[t] = "store"
  /\ results' = [results EXCEPT ![subject[t]] = outcome[t]]
  /\ IF results[subject[t]] # outcome[t] /\ outcome[t] = "unhealthy"
       THEN Goto(t, "notify") /\ UNCHANGED <<subject, outcome>> ELSE End(t)
  /\ UNCHANGED <<busVars, monitoring, checks, pending, view, owed, muddled>>

\* The result is stored whether the component is registered or not, and what
\* it replaces decides whether there is a change to announce.
Store(t) ==
  /\ step[t] = "store"
  /\ results' = [results EXCEPT ![subject[t]] = outcome[t]]
  /\ IF results[subject[t]] # outcome[t]
       THEN Goto(t, "notify") /\ UNCHANGED <<subject, outcome>> ELSE End(t)
  /\ UNCHANGED <<busVars, monitoring, checks, pending, view, owed, muddled>>

\* publish(): the bus is running, and the handlers are those of the moment.
Publish(t) ==
  /\ step[t] = "notify" /\ running
  /\ Goto(t, "deliver")
  /\ pending' = [pending EXCEPT ![t] = subscribers]
  /\ owed' = [owed EXCEPT ![t] = ToSet(subscribers)]
  /\ UNCHANGED <<busVars, monitorVars, subject, outcome, view, muddled>>

\* Otherwise nobody is told: the exception ends in the monitor.
PublishRefused(t) ==
  /\ step[t] = "notify" /\ ~running
  /\ End(t) /\ muddled' = muddled \cup {subject[t]}
  /\ UNCHANGED <<busVars, monitorVars, pending, view, owed>>

\* Faulty: an exception of a handler ends the delivery.
CallHandlers(t) ==
  /\ step[t] = "deliver" /\ pending[t] # <<>>
  /\ \/ /\ view' = [view EXCEPT ![Head(pending[t])][subject[t]] = outcome[t]]
        /\ pending' = [pending EXCEPT ![t] = Tail(@)]
        /\ owed' = [owed EXCEPT ![t] = @ \ {Head(pending[t])}]
     \/ pending' = [pending EXCEPT ![t] = <<>>] /\ UNCHANGED <<view, owed>>
  /\ UNCHANGED <<busVars, monitorVars, step, subject, outcome, muddled>>

\* A handler is told, and may raise; the next is told all the same.
CallHandler(t) ==
  /\ step[t] = "deliver" /\ pending[t] # <<>>
  /\ view' = [view EXCEPT ![Head(pending[t])][subject[t]] = outcome[t]]
  /\ pending' = [pending EXCEPT ![t] = Tail(@)]
  /\ owed' = [owed EXCEPT ![t] = @ \ {Head(pending[t])}]
  /\ UNCHANGED <<busVars, monitorVars, step, subject, outcome, muddled>>

Delivered(t) ==
  /\ step[t] = "deliver" /\ pending[t] = <<>>
  /\ End(t)
  /\ UNCHANGED <<busVars, monitorVars, pending, view, owed, muddled>>

Check(t) ==
  \/ \E m \in Monitored : CheckCalled(t, m)
  \/ CountRaises(t) \/ Count(t) \/ CheckRaises(t)
  \/ \E status \in Statuses : CheckReturns(t, status)
  \/ Store(t) \/ Publish(t) \/ PublishRefused(t) \/ CallHandler(t) \/ Delivered(t)

HealthNext ==
  \/ \E t \in Threads : Check(t)
  \/ \E h \in Handlers : Subscribe(h)
  \/ \E i \in DOMAIN subscribers : Unsubscribe(i)
  \/ ClearSubscribers \/ SetRunning(~running)
  \/ \E m \in Monitored : RegisterCheck(m) \/ UnregisterCheck(m)
  \/ ClearChecks \/ SetMonitoring(~monitoring)

HealthSpec == HealthInit /\ [][HealthNext]_healthVars

-----------------------------------------------------------------------------
HealthOK ==
  /\ IsInjective(subscribers) /\ ToSet(subscribers) \subseteq Handlers
  /\ checks \subseteq Monitored
  /\ results \in [Monitored -> Statuses \cup {"none", "unknown"}]
  /\ subject \in [Threads -> Monitored \cup {Nobody}]
  /\ \A t \in Threads : step[t] = "idle" <=> subject[t] = Nobody

\* An event reaches every handler that is subscribed from its publication to the
\* end of its delivery, whoever else subscribes, unsubscribes or raises.
EventDelivered ==
  /\ HealthOK
  /\ \A t \in Threads : step[t] = "deliver" => owed[t] \subseteq ToSet(pending[t])

\* "A notification fires whenever the resulting status differs from the
\* previously stored status" (monitor.py): what a subscriber was told last of a
\* component is its status in the monitor, unless that has been reset to unknown
\* or removed since. Two things break this: checks of one component that overlap,
\* as they announce their results outside the lock, and a bus that is off.
ViewCurrent ==
  \A h \in ToSet(subscribers), m \in Monitored \ muddled :
    Checking(m) = {} => results[m] \in {view[h][m], "unknown", "none"}
=============================================================================
