-------------------------- MODULE Application_proofs --------------------------
(***************************************************************************)
(* Proofs about AppLifecycle, for any devices, tokens and configurations,  *)
(* and about HealthEvents, for any threads, handlers and components.       *)
(***************************************************************************)
EXTENDS AppLifecycle, HealthEvents, SequenceTheorems, TLAPS

-----------------------------------------------------------------------------
(* The life cycle: its inductive invariant.                                *)

\* What a call of the runtime has initialized is gone when it ends, but for a
\* start that has succeeded.
PhaseInv ==
  /\ phase \in {"stopped", "failed", "again"} => up = {}
  /\ phase = "running" => up = Enabled
  /\ phase \in {"starting", "running"} =>
       /\ "configuration" \in active
       /\ disabled \cap active \cap {"communication", "events", "security"} = {}

\* A component that is up has its subsystem running and its things attached,
\* during start() and until its own handler of stop().
UpInv ==
  /\ up \cap Subsystems \subseteq active
  /\ "events" \in up => "consumers" \in attached
  /\ "routing" \in up => "routes" \in attached
  /\ "health" \in up => "checks" \in attached
  /\ "listener" \in attached => "communication" \in up
  /\ "portal" \in attached => phase = "running"

\* The runtime is taking down what was up, or has just done so in a restart().
Ending == phase \in {"rollback", "stopping"} \/ (phase = "stopped" /\ restarting)

\* The services are up when all that are enabled have been started, and their
\* endpoints are on the transport of this start.
ServicesInv ==
  /\ serving = IF "services" \in up THEN ServiceEnabled ELSE {}
  /\ "services" \in up /\ phase \in {"starting", "running"} =>
       ServiceEnabled \subseteq endpoints
  /\ "services" \in taken /\ Ending => registered = {}
  /\ phase = "starting" => taken = {}

\* As long as security has always been active no identity is forgotten.
CredentialsInv ==
  /\ {identities, file, memory} \subseteq [Devices -> Tokens \cup {Absent}]
  /\ ~lapsed => "security" \in active
  /\ ~lapsed /\ phase \in {"starting", "running"} =>
       \A d \in Stored(Table) : identities[d] # Absent

IInv == LifecycleOK /\ PhaseInv /\ UpInv /\ ServicesInv /\ CredentialsInv

-----------------------------------------------------------------------------
(* Health: its inductive invariant.                                        *)

HealthTypes ==
  /\ HealthOK
  /\ subscribers \in Seq(Handlers)
  /\ step \in [Threads -> {"idle", "count", "run", "store", "notify", "deliver"}]
  /\ outcome \in [Threads -> Statuses \cup {"none"}]
  /\ pending \in [Threads -> Seq(Handlers)]
  /\ view \in [Handlers -> [Monitored -> Statuses \cup {"none", "unknown"}]]
  /\ owed \in [Threads -> SUBSET Handlers]

\* Of a component whose checks have not overlapped one thread has the result.
OneCheck ==
  \A t, u \in Threads :
    subject[t] = subject[u] /\ subject[t] \in Monitored \ muddled => t = u

\* What a thread announces is the result, unless that has been reset since.
AnnouncedIsStored ==
  \A t \in Threads :
    subject[t] \in Monitored \ muddled /\ step[t] \in {"notify", "deliver"} =>
      results[subject[t]] \in {outcome[t], "unknown", "none"}

\* The thread has yet to tell the handler of its component.
WillTell(t, h, m) ==
  /\ subject[t] = m
  /\ step[t] = "notify" \/ (step[t] = "deliver" /\ h \in ToSet(pending[t]))

\* A subscriber that has not been told the result yet will be.
ToldOrToBe ==
  \A h \in ToSet(subscribers), m \in Monitored \ muddled :
    \/ results[m] \in {view[h][m], "unknown", "none"}
    \/ \E t \in Threads : WillTell(t, h, m)

HealthInv ==
  HealthTypes /\ EventDelivered /\ OneCheck /\ AnnouncedIsStored /\ ToldOrToBe

-----------------------------------------------------------------------------
(* What the operators of the life cycle do.                                *)

LEMMA InvInit == Init => IInv
<1> SUFFICES ASSUME Init PROVE IInv
  OBVIOUS
<1>1. LifecycleOK /\ PhaseInv /\ UpInv /\ ServicesInv
  BY DEF Init, NewProcess, LifecycleOK, PhaseInv, UpInv, ServicesInv, Subsystems, Ending
<1>2. CredentialsInv
  BY DEF Init, NewProcess, CredentialsInv, Subsystems, Nothing
<1> QED BY <1>1, <1>2 DEF IInv

\* What reading a configuration leaves running, whatever it disables.
LEMMA Activated ==
  ASSUME LifecycleOK, NEW off, NEW config
  PROVE  /\ ActiveAfter(off, config) \subseteq Subsystems
         /\ "configuration" \in ActiveAfter(off, config)
         /\ off \cap ActiveAfter(off, config)
              \cap {"communication", "events", "security"} = {}
         /\ ActiveWithout(off) \subseteq ActiveAfter(off, config)
         /\ "configuration" \in ActiveWithout(off)
BY DEF ActiveAfter, ActiveWithout, LifecycleOK, Subsystems

\* A configuration that has been read, by a call that finds nothing up.
LEMMA Loaded ==
  ASSUME IInv, NEW config \in Configuration, Load(config)
  PROVE  /\ disabled' \subseteq ToSet(Components)
         /\ active' \subseteq Subsystems /\ "configuration" \in active'
         /\ disabled' \cap active' \cap {"communication", "events", "security"} = {}
         /\ endpoints' \in {endpoints, {}} /\ known' \subseteq Devices
         /\ UNCHANGED <<attached, registered, serving>>
         /\ {identities', file', memory'} \subseteq [Devices -> Tokens \cup {Absent}]
         /\ ~lapsed' => "security" \in active'
         /\ ~lapsed' => \A d \in Stored(Table)' : identities'[d] # Absent
<1> DEFINE off == DisabledBy[config.requested]
<1>1. off \subseteq ToSet(Components)
  BY DEF DisabledBy, Configuration
<1>2. disabled' = off /\ active' = ActiveAfter(off, config)
  BY DEF Load
<1>3. endpoints' \in {endpoints, {}} /\ known' \subseteq Devices
  BY DEF Load, ApplyTransportPolicy, IInv, LifecycleOK, Stored
<1>4. /\ {file', memory'} \subseteq [Devices -> Tokens \cup {Absent}]
      /\ Table' \in [Devices -> Tokens \cup {Absent}]
      /\ identities' = [d \in Devices |->
           IF identities[d] = Absent /\ "security" \in active' THEN Table'[d]
                                                               ELSE identities[d]]
  BY DEF Load, Restored, Table, Nothing, IInv, CredentialsInv
<1>5. identities' \in [Devices -> Tokens \cup {Absent}]
  BY <1>4 DEF IInv, CredentialsInv
<1>6. ~lapsed' => "security" \in active'
  BY DEF Load
<1>7. ~lapsed' => \A d \in Stored(Table)' : identities'[d] # Absent
  BY <1>4, <1>6 DEF Stored
<1>8. UNCHANGED <<attached, registered, serving>>
  BY DEF Load
<1> HIDE DEF off
<1> QED BY <1>1, <1>2, <1>3, <1>4, <1>5, <1>6, <1>7, <1>8, Activated DEF IInv

\* The initializer of a component starts its own subsystem and nothing else.
LEMMA Initialized ==
  ASSUME NEW c, Initialize(c)
  PROVE  /\ registered' = registered
         /\ c # "services" => UNCHANGED <<serving, endpoints>>
         /\ c = "services" => InitializeServices
         /\ active' = active \cup ({c} \cap Subsystems)
         /\ attached \subseteq attached'
         /\ attached' \subseteq attached \cup
              {"bridge", "consumers", "listener", "routes", "checks"}
         /\ "listener" \in attached' => "listener" \in attached \/ c = "communication"
         /\ c = "events" => "consumers" \in attached'
         /\ c = "routing" => "routes" \in attached'
         /\ c = "health" => "checks" \in attached'
<1>1. CASE c = "communication"
  BY <1>1 DEF Initialize, InitializeCommunication, Attach, Subsystems
<1>2. CASE c = "services"
  BY <1>2 DEF Initialize, InitializeServices, Subsystems
<1>3. CASE c \in {"configuration", "security", "events", "routing", "health"}
  <2>1. CASE c = "configuration"
    BY <2>1 DEF Initialize, Attach, Subsystems
  <2>2. CASE c = "security"
    BY <2>2 DEF Initialize, Attach, Subsystems
  <2>3. CASE c = "events"
    BY <2>3 DEF Initialize, Attach, Subsystems
  <2>4. CASE c = "routing"
    BY <2>4 DEF Initialize, Attach, Subsystems
  <2>5. CASE c = "health"
    BY <2>5 DEF Initialize, Attach, Subsystems
  <2> QED BY <1>3, <2>1, <2>2, <2>3, <2>4, <2>5
<1>4. CASE c \notin Subsystems \cup {"services"}
  BY <1>4 DEF Initialize, Subsystems, wiringVars
<1> QED BY <1>1, <1>2, <1>3, <1>4 DEF Subsystems

\* Its shutdown handler stops that subsystem and detaches its things.
LEMMA ShutDown ==
  ASSUME NEW c, ShutdownReturns(c)
  PROVE  /\ IF c = "services" THEN registered' = {} /\ serving' = {}
                              ELSE UNCHANGED <<registered, serving>>
         /\ endpoints' \in {endpoints, {}}
         /\ active' = active \ ({c} \cap Subsystems)
         /\ attached' \subseteq attached
         /\ "consumers" \in attached /\ c # "events" => "consumers" \in attached'
         /\ "routes" \in attached /\ c # "routing" => "routes" \in attached'
         /\ "checks" \in attached /\ c # "health" => "checks" \in attached'
         /\ c = "communication" => "listener" \notin attached'
         /\ IF c = "security" THEN lapsed' /\ identities' = Nothing
                              ELSE UNCHANGED <<lapsed, identities>>
         /\ memory' \in {memory, Nothing} /\ UNCHANGED file
<1>1. CASE c = "communication"
  BY <1>1 DEF ShutdownReturns, ShutdownCommunication, Detach, Subsystems
<1>2. CASE c = "services"
  BY <1>2 DEF ShutdownReturns, ShutdownServices, Subsystems
<1>3. CASE c = "security"
  BY <1>3 DEF ShutdownReturns, ShutdownSecurity, Detach, Subsystems
<1>4. CASE c \in {"configuration", "events", "routing", "health"}
  BY <1>4 DEF ShutdownReturns, ShutdownOther, Detach, Subsystems
<1>5. CASE c = "rescs"
  BY <1>5 DEF ShutdownReturns, ShutdownRescs, Subsystems, wiringVars
<1>6. CASE c \notin Subsystems \cup {"services", "rescs"}
  BY <1>6 DEF ShutdownReturns, ShutdownOther, Subsystems
<1> QED BY <1>1, <1>2, <1>3, <1>4, <1>5, <1>6 DEF Subsystems

-----------------------------------------------------------------------------
(* The invariant is inductive.                                             *)

\* A configuration is read when nothing is up, by start() or for provisioning.
LEMMA LoadStep ==
  ASSUME IInv, NEW config \in Configuration,
         StartCalled(config) \/ LoadToProvision(config)
  PROVE  IInv'
<1>1. Load(config) /\ up = {} /\ serving = {} /\ up' = {} /\ taken' \subseteq taken
  BY DEF StartCalled, LoadToProvision, MayStart, Idle, callVars, IInv, PhaseInv, ServicesInv
<1>2. /\ phase \in {"stopped", "failed", "again"}
      /\ \/ phase' = "starting" /\ taken' = {}
         \/ UNCHANGED callVars
  BY DEF StartCalled, LoadToProvision, MayStart, Idle, IInv, PhaseInv, LifecycleOK
<1>3. LifecycleOK'
  BY <1>1, <1>2, Loaded DEF IInv, LifecycleOK, callVars, Enabled
<1>4. PhaseInv'
  BY <1>1, <1>2, Loaded DEF IInv, PhaseInv, callVars
<1>5. UpInv'
  BY <1>1, <1>2, Loaded DEF IInv, UpInv, callVars
<1>6. ServicesInv'
  BY <1>1, <1>2, Loaded DEF IInv, ServicesInv, callVars, Ending
<1>7. CredentialsInv'
  BY <1>1, <1>2, Loaded DEF IInv, CredentialsInv, callVars
<1> QED BY <1>3, <1>4, <1>5, <1>6, <1>7 DEF IInv

LEMMA InitializerStep ==
  ASSUME IInv, NEW c \in ToSet(Components), InitializerReturns(c)
  PROVE  IInv'
<1>1. /\ phase = "starting" /\ c \in Enabled \ up /\ Initialize(c)
      /\ \A d \in Enabled \ up : d = c \/ Place[c] < Place[d]
      /\ c = "services" => registered = Services
      /\ up' = up \cup {c}
      /\ UNCHANGED <<phase, restarting, taken, disabled, onFile, file, memory,
                     identities, known, lapsed>>
  BY DEF InitializerReturns, NextUp, storeVars, deviceVars
<1>2. c \notin disabled
  BY <1>1 DEF Enabled
<1>3. c = "services" => serving' = ServiceEnabled /\ ServiceEnabled \subseteq endpoints'
  BY <1>1, Initialized DEF InitializeServices, IInv, ServicesInv, ServiceEnabled
<1>4. c = "services" => endpoints' \subseteq Services
  BY <1>1, Initialized DEF InitializeServices, IInv, LifecycleOK, ServiceEnabled
<1>5. LifecycleOK'
  <2>1. /\ up' \subseteq Enabled
        /\ \A e \in up', d \in Enabled \ up' : Place[e] < Place[d]
    BY <1>1 DEF IInv, LifecycleOK
  <2>2. serving' \subseteq registered'
    BY <1>1, <1>3, Initialized DEF IInv, LifecycleOK, ServiceEnabled
  <2> QED BY <1>1, <1>4, <2>1, <2>2, Initialized DEF IInv, LifecycleOK, Enabled
<1>6. PhaseInv'
  BY <1>1, <1>2, Initialized DEF IInv, PhaseInv
<1>7. UpInv'
  BY <1>1, Initialized DEF IInv, UpInv
<1>8. ServicesInv'
  BY <1>1, <1>3, Initialized DEF IInv, ServicesInv, Ending, ServiceEnabled
<1>9. CredentialsInv'
  BY <1>1, Initialized DEF IInv, CredentialsInv, Stored, Table
<1> QED BY <1>5, <1>6, <1>7, <1>8, <1>9 DEF IInv

LEMMA ShutdownStep ==
  ASSUME IInv, NEW c \in ToSet(Components), ShutdownReturns(c)
  PROVE  IInv'
<1>1. /\ phase \in {"rollback", "stopping"} /\ c \in up
      /\ \A d \in up : d = c \/ Place[d] < Place[c]
      /\ up' = up \ {c} /\ taken' = taken \cup {c}
      /\ UNCHANGED <<phase, restarting, disabled, onFile, file, known>>
  BY DEF ShutdownReturns, LastUp
<1>2. LifecycleOK'
  <2>1. /\ up' \subseteq Enabled
        /\ \A e \in up', d \in Enabled \ up' : Place[e] < Place[d]
    BY <1>1 DEF IInv, LifecycleOK
  <2> QED BY <1>1, <2>1, ShutDown DEF IInv, LifecycleOK, Enabled
<1>3. PhaseInv'
  BY <1>1 DEF IInv, PhaseInv
<1>4. UpInv'
  BY <1>1, ShutDown DEF IInv, UpInv
<1>5. ServicesInv'
  BY <1>1, ShutDown DEF IInv, ServicesInv, ServiceEnabled, Ending
<1>6. CredentialsInv'
  BY <1>1, ShutDown DEF IInv, CredentialsInv, Nothing, Subsystems
<1> QED BY <1>2, <1>3, <1>4, <1>5, <1>6 DEF IInv

\* A start that raises before the runtime is asked to do anything.
LEMMA RefusalStep ==
  ASSUME IInv, StartRaises \/ ProvisioningRaises
  PROVE  IInv'
<1>1. CASE LoadRaises /\ (StartRaises \/ ProvisioningRaises)
  <2>1. /\ phase' = phase \/ (phase' = "stopped" /\ up = {} /\ ~restarting')
        /\ phase' \in {"stopped", "failed", "running"}
        /\ phase = "running" => phase' = "running"
        /\ phase' = phase => restarting' = restarting \/ ~restarting'
        /\ UNCHANGED <<up, taken, disabled, attached, endpoints, registered,
                       serving, storeVars, deviceVars>>
        /\ active' = active \cup {"configuration"}
    BY <1>1 DEF StartRaises, ProvisioningRaises, LoadRaises, MayStart, Idle, IInv,
                LifecycleOK, PhaseInv, callVars
  <2>2. phase' = "running" => "configuration" \in active /\ phase = "running"
    BY <2>1 DEF IInv, PhaseInv
  <2>3. LifecycleOK'
    BY <2>1 DEF IInv, LifecycleOK, Enabled, Subsystems, deviceVars
  <2>4. PhaseInv'
    BY <2>1, <2>2 DEF IInv, PhaseInv, Enabled
  <2>5. UpInv'
    BY <2>1, <2>2 DEF IInv, UpInv, PhaseInv
  <2>6. ServicesInv'
    BY <1>1, <2>1, <2>2 DEF IInv, ServicesInv, ServiceEnabled, Ending, PhaseInv,
        StartRaises, ProvisioningRaises, callVars
  <2>7. CredentialsInv'
    BY <2>1, <2>2 DEF IInv, CredentialsInv, storeVars, deviceVars, Stored, Table
  <2> QED BY <2>3, <2>4, <2>5, <2>6, <2>7 DEF IInv
<1>2. CASE StartRaises /\ ~LoadRaises
  <2>1. PICK config \in Configuration : LoadRefused(config)
    BY <1>2 DEF StartRaises
  <2>2. /\ phase' = "stopped" /\ restarting' = FALSE /\ up = {}
        /\ UNCHANGED <<up, taken>>
    BY <1>2 DEF StartRaises, MayStart, Idle, IInv, PhaseInv, LifecycleOK
  <2>3. /\ disabled' = DisabledBy[config.requested]
        /\ active' \in {ActiveAfter(disabled', config), ActiveWithout(disabled')}
        /\ endpoints' \in {endpoints, {}}
        /\ lapsed' = (lapsed \/ "security" \notin active')
        /\ UNCHANGED <<attached, registered, serving, storeVars, identities, known>>
    BY <2>1 DEF LoadRefused, ApplyTransportPolicy
  <2>4. disabled' \subseteq ToSet(Components) /\ active' \subseteq Subsystems
    BY <2>3, Activated DEF DisabledBy, Configuration, IInv
  <2>5. LifecycleOK'
    BY <2>2, <2>3, <2>4 DEF IInv, LifecycleOK
  <2>6. PhaseInv' /\ UpInv'
    BY <1>2, <2>2, <2>3 DEF IInv, PhaseInv, UpInv, StartRaises, MayStart
  <2>7. ServicesInv'
    BY <2>2, <2>3 DEF IInv, ServicesInv, Ending
  <2>8. CredentialsInv'
    BY <2>2, <2>3 DEF IInv, CredentialsInv, storeVars
  <2> QED BY <2>5, <2>6, <2>7, <2>8 DEF IInv
<1>3. ProvisioningRaises => LoadRaises
  BY DEF ProvisioningRaises
<1> QED BY <1>1, <1>2, <1>3

\* The steps of the runtime between the handlers of the components.
LEMMA RuntimeStep ==
  ASSUME IInv,
         \/ InitializerRaises \/ Started \/ \E restart \in BOOLEAN : StopCalled(restart)
         \/ ShutdownEnds \/ RegisterAgain \/ RegisterAgainRaises
  PROVE  IInv'
<1>1. CASE InitializerRaises
  <2>1. /\ phase = "starting" /\ phase' = "rollback"
        /\ active' = active \/ active' = active \cup {"communication"}
        /\ UNCHANGED <<restarting, up, taken, disabled, attached, endpoints,
                       registered, serving, storeVars, deviceVars>>
    BY <1>1 DEF InitializerRaises
  <2>2. LifecycleOK' /\ PhaseInv' /\ UpInv'
    BY <2>1 DEF IInv, LifecycleOK, PhaseInv, UpInv, Enabled, Subsystems, deviceVars
  <2>3. ServicesInv'
    BY <2>1 DEF IInv, ServicesInv, ServiceEnabled, Ending
  <2>4. CredentialsInv'
    BY <2>1 DEF IInv, CredentialsInv, storeVars, deviceVars
  <2> QED BY <2>2, <2>3, <2>4 DEF IInv
<1>2. CASE Started
  <2>1. /\ phase = "starting" /\ phase' = "running" /\ up = Enabled
        /\ attached' = attached \/ attached' = attached \cup {"portal"}
        /\ UNCHANGED <<restarting, up, taken, disabled, active, endpoints, registered,
                       serving, storeVars, deviceVars>>
    BY <1>2 DEF Started
  <2>2. LifecycleOK' /\ PhaseInv' /\ UpInv'
    BY <2>1 DEF IInv, LifecycleOK, PhaseInv, UpInv, Enabled, deviceVars
  <2>3. ServicesInv'
    BY <2>1 DEF IInv, ServicesInv, ServiceEnabled, Ending
  <2>4. CredentialsInv'
    BY <2>1 DEF IInv, CredentialsInv, storeVars, deviceVars, Stored, Table
  <2> QED BY <2>2, <2>3, <2>4 DEF IInv
<1>3. CASE \E restart \in BOOLEAN : StopCalled(restart)
  <2>1. /\ phase' \in {"stopped", "stopping"}
        /\ phase' = "stopped" => phase = "stopped"
        /\ taken' = {} /\ attached' = attached \ {"portal"}
        /\ UNCHANGED <<up, disabled, active, endpoints, registered, serving,
                       storeVars, deviceVars>>
    BY <1>3 DEF StopCalled
  <2>2. LifecycleOK' /\ PhaseInv' /\ UpInv'
    BY <2>1 DEF IInv, LifecycleOK, PhaseInv, UpInv, Enabled, deviceVars
  <2>3. ServicesInv'
    BY <2>1 DEF IInv, ServicesInv, ServiceEnabled
  <2>4. CredentialsInv'
    BY <2>1 DEF IInv, CredentialsInv, storeVars, deviceVars
  <2> QED BY <2>2, <2>3, <2>4 DEF IInv
<1>4. CASE ShutdownEnds
  <2>1. /\ phase \in {"rollback", "stopping"} /\ phase' \in {"failed", "stopped"}
        /\ up = {}
        /\ UNCHANGED <<up, taken, disabled, active, attached, endpoints, registered,
                       serving, storeVars, deviceVars>>
    BY <1>4 DEF ShutdownEnds, wiringVars
  <2>2. LifecycleOK' /\ PhaseInv' /\ UpInv'
    BY <2>1 DEF IInv, LifecycleOK, PhaseInv, UpInv, Enabled, deviceVars
  <2>3. ServicesInv'
    BY <2>1 DEF IInv, ServicesInv, ServiceEnabled, Ending
  <2>4. CredentialsInv'
    BY <2>1 DEF IInv, CredentialsInv, storeVars, deviceVars
  <2> QED BY <2>2, <2>3, <2>4 DEF IInv
<1>5. CASE RegisterAgain
  <2>1. /\ phase = "stopped" /\ phase' = "again"
        /\ registered = {} /\ registered' = Services
        /\ UNCHANGED <<up, taken, disabled, active, attached, endpoints, serving,
                       storeVars, deviceVars>>
    BY <1>5 DEF RegisterAgain
  <2>2. LifecycleOK' /\ PhaseInv' /\ UpInv'
    BY <2>1 DEF IInv, LifecycleOK, PhaseInv, UpInv, Enabled, deviceVars
  <2>3. ServicesInv'
    BY <2>1 DEF IInv, ServicesInv, ServiceEnabled, Ending
  <2>4. CredentialsInv'
    BY <2>1 DEF IInv, CredentialsInv, storeVars, deviceVars
  <2> QED BY <2>2, <2>3, <2>4 DEF IInv
<1>6. CASE RegisterAgainRaises
  <2>1. /\ phase = "stopped" /\ restarting' = FALSE
        /\ UNCHANGED <<phase, up, taken, disabled, active, attached, endpoints,
                       registered, serving, storeVars, deviceVars>>
    BY <1>6 DEF RegisterAgainRaises, wiringVars
  <2>2. LifecycleOK' /\ PhaseInv' /\ UpInv'
    BY <2>1 DEF IInv, LifecycleOK, PhaseInv, UpInv, Enabled, deviceVars
  <2>3. ServicesInv'
    BY <2>1 DEF IInv, ServicesInv, ServiceEnabled, Ending
  <2>4. CredentialsInv'
    BY <2>1 DEF IInv, CredentialsInv, storeVars, deviceVars
  <2> QED BY <2>2, <2>3, <2>4 DEF IInv
<1> QED BY <1>1, <1>2, <1>3, <1>4, <1>5, <1>6

\* A device is stored together with its identity unless security is inactive.
LEMMA DeviceStep ==
  ASSUME IInv, NEW d \in Devices,
         DeviceRegisters(d) \/ \E t \in Tokens : ProvisionDevice(d, t)
  PROVE  IInv'
<1>1. /\ UNCHANGED <<phase, restarting, up, taken, disabled, active, attached,
                     endpoints, registered, serving, onFile, lapsed>>
      /\ known' \in {known, known \cup {d}}
  BY DEF DeviceRegisters, ProvisionDevice, callVars, wiringVars
<1>2. LifecycleOK' /\ PhaseInv' /\ UpInv'
  BY <1>1 DEF IInv, LifecycleOK, PhaseInv, UpInv, Enabled
<1>3. ServicesInv'
  BY <1>1 DEF IInv, ServicesInv, ServiceEnabled, Ending
<1>4. CredentialsInv'
  <2>1. CASE DeviceRegisters(d) /\ ~shared
    BY <1>1, <2>1 DEF DeviceRegisters, IInv, CredentialsInv, Stored, Table
  <2>2. ASSUME NEW token \in Tokens, Persist(d, token, onFile),
               \/ UNCHANGED identities /\ (lapsed \/ identities[d] # Absent)
               \/ identities' = [identities EXCEPT ![d] = token]
        PROVE  CredentialsInv'
    <3>1. {identities', file', memory'} \subseteq [Devices -> Tokens \cup {Absent}]
      BY <2>2 DEF Persist, IInv, CredentialsInv
    <3>2. \A e \in Devices \ {d} : e \in Stored(Table)' => e \in Stored(Table)
      BY <1>1, <2>2 DEF Persist, Stored, Table, IInv, CredentialsInv
    <3>3. ~lapsed => identities'[d] # Absent
      BY <2>2, LifecycleAssumption DEF IInv, CredentialsInv
    <3>4. \A e \in Devices \ {d} : identities'[e] = identities[e]
      BY <2>2 DEF IInv, CredentialsInv
    <3>5. Stored(Table)' \subseteq Devices
      BY DEF Stored
    <3>6. ~lapsed /\ phase \in {"starting", "running"} =>
            \A e \in Stored(Table)' : identities'[e] # Absent
      BY <3>2, <3>3, <3>4, <3>5 DEF IInv, CredentialsInv
    <3> QED BY <1>1, <3>1, <3>6 DEF IInv, CredentialsInv
  <2>3. CASE DeviceRegisters(d) /\ shared
    <3>1. identities[d] \in Tokens
      BY <2>3 DEF DeviceRegisters, IInv, CredentialsInv
    <3> QED BY <2>2, <2>3, <3>1 DEF DeviceRegisters
  <2>4. CASE \E t \in Tokens : ProvisionDevice(d, t)
    BY <2>2, <2>4 DEF ProvisionDevice, IInv, CredentialsInv
  <2> QED BY <2>1, <2>3, <2>4
<1> QED BY <1>2, <1>3, <1>4 DEF IInv

LEMMA ProcessStep == ASSUME IInv, ProcessEnds PROVE IInv'
<1>1. LifecycleOK' /\ PhaseInv' /\ UpInv'
  BY DEF ProcessEnds, LifecycleOK, PhaseInv, UpInv, Subsystems
<1>2. ServicesInv' /\ CredentialsInv'
  BY DEF ProcessEnds, IInv, ServicesInv, Ending, CredentialsInv, Nothing, Subsystems
<1> QED BY <1>1, <1>2 DEF IInv

LEMMA Invariance == Spec => []IInv
<1>1. IInv /\ UNCHANGED vars => IInv'
  BY DEF IInv, LifecycleOK, PhaseInv, UpInv, ServicesInv, CredentialsInv, Enabled,
      ServiceEnabled, Ending, Stored, Table, vars, callVars, wiringVars, storeVars,
      deviceVars, transportVars
<1>2. IInv /\ Next => IInv'
  BY LoadStep, InitializerStep, ShutdownStep, RefusalStep, RuntimeStep, DeviceStep,
     ProcessStep DEF Next
<1> QED BY InvInit, <1>1, <1>2, PTL DEF Spec

-----------------------------------------------------------------------------
(* The theorems about the life cycle.                                      *)

\* An application that is running serves everything its configuration enables,
\* and nothing it disables, after any history of calls, of failures and of
\* configurations: for any devices, and whatever a configuration may disable.
THEOREM ServingHolds == Spec => []Serving
<1>1. IInv => Serving
  BY DEF IInv, PhaseInv, UpInv, ServicesInv, Serving
<1> QED BY <1>1, Invariance, PTL

\* After a stop or a failed start there is no server, no portal and no service.
THEOREM SilentHolds == Spec => []Silent
<1>1. IInv => Silent
  BY DEF IInv, PhaseInv, UpInv, ServicesInv, Silent, Idle
<1> QED BY <1>1, Invariance, PTL

\* Every stored device can authenticate, in a process that has always had
\* security active, whichever adapter is in use and whatever is stored.
THEOREM CredentialsRestoredHolds == Spec => []CredentialsRestored
<1>1. IInv => CredentialsRestored
  BY DEF IInv, CredentialsInv, CredentialsRestored
<1> QED BY <1>1, Invariance, PTL

\* A restart() fails to register the services only if the run it has ended never
\* had them up.
THEOREM RestartRegistersHolds == Spec => RestartRegisters
<1>1. IInv /\ RegisterAgainRaises => "services" \notin taken
  BY DEF IInv, ServicesInv, Ending, RegisterAgainRaises
<1> QED BY <1>1, Invariance, PTL DEF RestartRegisters

-----------------------------------------------------------------------------
(* Lists of subscribers.                                                   *)

\* A new subscriber comes last, and is there once.
LEMMA Added ==
  ASSUME NEW T, NEW s \in Seq(T), NEW h \in T, IsInjective(s),
         h \notin ToSet(s)
  PROVE  /\ Append(s, h) \in Seq(T) /\ IsInjective(Append(s, h))
         /\ ToSet(Append(s, h)) = ToSet(s) \cup {h}
<1> DEFINE a == Append(s, h)
<1>1. /\ a \in Seq(T) /\ Len(a) = Len(s) + 1 /\ Len(s) \in Nat
      /\ a[Len(s) + 1] = h /\ DOMAIN s = 1..Len(s) /\ DOMAIN a = 1..Len(a)
      /\ \A i \in 1..Len(s) : a[i] = s[i]
  BY AppendProperties, LenProperties
<1> HIDE DEF a
<1>2. DOMAIN a = 1..Len(s) \cup {Len(s) + 1}
  BY <1>1
<1>3. \A i \in 1..Len(s) : s[i] # h
  BY <1>1 DEF ToSet
<1>4. IsInjective(a)
  BY <1>1, <1>2, <1>3 DEF IsInjective
<1>5. ToSet(a) = ToSet(s) \cup {h}
  BY <1>1, <1>2 DEF ToSet
<1> QED BY <1>1, <1>4, <1>5 DEF a

\* A list from which the handler at one place has been removed.
LEMMA Removed ==
  ASSUME NEW T, NEW s \in Seq(T), NEW i \in DOMAIN s, IsInjective(s)
  PROVE  /\ RemoveAt(s, i) \in Seq(T)
         /\ IsInjective(RemoveAt(s, i))
         /\ ToSet(RemoveAt(s, i)) = ToSet(s) \ {s[i]}
<1> DEFINE before == SubSeq(s, 1, i - 1)
           after == SubSeq(s, i + 1, Len(s))
           rest == before \o after
<1>1. Len(s) \in Nat /\ i \in 1..Len(s) /\ DOMAIN s = 1..Len(s)
  BY LenProperties
<1>2. /\ before \in Seq(T) /\ Len(before) = i - 1
      /\ \A k \in 1..(i - 1) : before[k] = s[k]
  <2>1. \A k \in 1..(i - 1) : s[k] \in T
    BY <1>1, ElementOfSeq
  <2> QED BY <1>1, <2>1, SubSeqProperties
<1>3. /\ after \in Seq(T) /\ Len(after) = Len(s) - i
      /\ \A k \in 1..(Len(s) - i) : after[k] = s[i + k]
  <2>1. \A k \in (i + 1)..Len(s) : s[k] \in T
    BY <1>1, ElementOfSeq
  <2>2. /\ after \in Seq(T)
        /\ Len(after) = IF i + 1 <= Len(s) THEN Len(s) - (i + 1) + 1 ELSE 0
        /\ \A k \in 1..(Len(s) - (i + 1) + 1) : after[k] = s[(i + 1) + k - 1]
    BY <1>1, <2>1, SubSeqProperties
  <2> HIDE DEF after
  <2>3. Len(after) = Len(s) - i /\ Len(s) - (i + 1) + 1 = Len(s) - i
    BY <1>1, <2>2
  <2>4. ASSUME NEW k \in 1..(Len(s) - i) PROVE after[k] = s[i + k]
    <3>1. (i + 1) + k - 1 = i + k
      BY <1>1
    <3> QED BY <2>2, <2>3, <3>1
  <2> QED BY <2>2, <2>3, <2>4
<1> HIDE DEF before, after
<1>4. /\ rest \in Seq(T) /\ Len(rest) = Len(before) + Len(after)
      /\ \A k \in 1..(Len(before) + Len(after)) :
           rest[k] = IF k <= Len(before) THEN before[k] ELSE after[k - Len(before)]
      /\ DOMAIN rest = 1..Len(rest)
  BY <1>2, <1>3, ConcatProperties, LenProperties
<1> HIDE DEF rest
<1>5. DOMAIN rest = 1..(Len(s) - 1)
  BY <1>1, <1>2, <1>3, <1>4
<1>6. \A k \in 1..(Len(s) - 1) : rest[k] = s[IF k < i THEN k ELSE k + 1]
  <2>1. ASSUME NEW k \in 1..(Len(s) - 1), k < i PROVE rest[k] = s[k]
    BY <1>1, <1>2, <1>3, <1>4, <2>1
  <2>2. ASSUME NEW k \in 1..(Len(s) - 1), ~(k < i) PROVE rest[k] = s[k + 1]
    <3>1. k - (i - 1) \in 1..(Len(s) - i) /\ i + (k - (i - 1)) = k + 1
      BY <1>1, <2>2
    <3>2. rest[k] = after[k - (i - 1)]
      BY <1>1, <1>2, <1>3, <1>4, <2>2
    <3> QED BY <1>3, <3>1, <3>2
  <2> QED BY <2>1, <2>2
<1>7. IsInjective(rest)
  <2> SUFFICES ASSUME NEW j \in 1..(Len(s) - 1), NEW k \in 1..(Len(s) - 1),
                      rest[j] = rest[k]
               PROVE  j = k
    BY <1>5 DEF IsInjective
  <2> DEFINE at(n) == IF n < i THEN n ELSE n + 1
  <2>1. at(j) \in DOMAIN s /\ at(k) \in DOMAIN s /\ s[at(j)] = s[at(k)]
    BY <1>1, <1>6
  <2>2. at(j) = at(k)
    BY <2>1 DEF IsInjective
  <2>3. i \in Int /\ j \in Int /\ k \in Int
    BY <1>1
  <2> QED BY ONLY <2>2, <2>3
<1>8. ToSet(rest) = ToSet(s) \ {s[i]}
  <2>1. ASSUME NEW h \in ToSet(rest) PROVE h \in ToSet(s) \ {s[i]}
    <3>1. PICK k \in 1..(Len(s) - 1) : h = rest[k]
      BY <1>5 DEF ToSet
    <3>2. PICK n \in DOMAIN s \ {i} : h = s[n]
      BY <1>1, <1>6, <3>1
    <3> QED BY <3>2 DEF ToSet, IsInjective
  <2>2. ASSUME NEW h \in ToSet(s) \ {s[i]} PROVE h \in ToSet(rest)
    <3>1. PICK n \in 1..Len(s) : h = s[n] /\ n # i
      BY <1>1 DEF ToSet
    <3>2. CASE n < i
      BY <1>1, <1>5, <1>6, <3>1, <3>2 DEF ToSet
    <3>3. CASE ~(n < i)
      <4>1. n - 1 \in 1..(Len(s) - 1) /\ ~(n - 1 < i) /\ n - 1 + 1 = n
        BY <1>1, <3>1, <3>3
      <4> QED BY <1>5, <1>6, <3>1, <4>1 DEF ToSet
    <3> QED BY <3>2, <3>3
  <2> QED BY <2>1, <2>2
<1> QED BY <1>4, <1>7, <1>8 DEF rest, before, after, RemoveAt

\* Of the handlers to call all but the first remain when that has been called.
LEMMA Called ==
  ASSUME NEW T, NEW s \in Seq(T), s # <<>>
  PROVE  /\ Head(s) \in T /\ Tail(s) \in Seq(T)
         /\ ToSet(s) \subseteq {Head(s)} \cup ToSet(Tail(s))
<1>1. /\ Head(s) \in T /\ Tail(s) \in Seq(T) /\ Len(Tail(s)) = Len(s) - 1
      /\ \A i \in 1..Len(Tail(s)) : Tail(s)[i] = s[i + 1]
      /\ Len(s) \in Nat /\ DOMAIN s = 1..Len(s)
      /\ DOMAIN Tail(s) = 1..Len(Tail(s)) /\ Head(s) = s[1]
  BY HeadTailProperties, LenProperties
<1>2. ASSUME NEW k \in DOMAIN s, k # 1 PROVE s[k] \in ToSet(Tail(s))
  <2>1. k - 1 \in DOMAIN Tail(s) /\ Tail(s)[k - 1] = s[k]
    BY <1>1, <1>2
  <2> QED BY <2>1 DEF ToSet
<1>3. ToSet(s) \subseteq {Head(s)} \cup ToSet(Tail(s))
  BY <1>1, <1>2 DEF ToSet
<1> QED BY <1>1, <1>3

-----------------------------------------------------------------------------
(* The invariant of health is inductive.                                   *)

LEMMA HealthInitial == HealthConstants /\ HealthInit => HealthInv
<1> SUFFICES ASSUME HealthConstants, HealthInit PROVE HealthInv
  OBVIOUS
<1>1. <<>> \in Seq(Handlers)
  BY EmptySeq
<1>2. HealthOK
  BY DEF HealthInit, HealthOK, IsInjective, ToSet
<1>3. HealthTypes
  BY <1>1, <1>2 DEF HealthTypes, HealthInit, Statuses
<1>4. OneCheck /\ AnnouncedIsStored /\ ToldOrToBe
  BY DEF HealthConstants, HealthInit, OneCheck, AnnouncedIsStored, ToldOrToBe,
         ToSet
<1>5. EventDelivered
  BY <1>2 DEF EventDelivered, HealthInit
<1> QED BY <1>3, <1>4, <1>5 DEF HealthInv

\* The steps before the result is stored, and the last one, tell nobody.
Quiet(t, next, m, o) ==
  /\ UNCHANGED <<running, subscribers, monitoring, checks, results, pending, view, owed>>
  /\ step' = [step EXCEPT ![t] = next]
  /\ subject' = [subject EXCEPT ![t] = m]
  /\ outcome' = [outcome EXCEPT ![t] = o]
  /\ muddled \subseteq muddled'
  /\ step[t] \notin {"notify", "deliver"} \/ (step[t] = "deliver" /\ pending[t] = <<>>)
  /\ next \in {"idle", "count", "run", "store"}
  /\ next = "idle" <=> m = Nobody
  /\ o \in Statuses \cup {"none"}
  /\ \/ m \in {subject[t], Nobody}
     \/ m \in Monitored /\ (Checking(m) = {} \/ m \in muddled')

LEMMA QuietSteps ==
  ASSUME HealthConstants, HealthInv, NEW t \in Threads,
         \/ \E m \in Monitored : CheckCalled(t, m)
         \/ CountRaises(t) \/ Count(t) \/ CheckRaises(t)
         \/ \E status \in Statuses : CheckReturns(t, status)
         \/ Delivered(t)
  PROVE  \E next, m, o : Quiet(t, next, m, o)
<1> USE DEF Goto, busVars, monitorVars, HealthInv, HealthTypes,
            HealthOK
<1>0. /\ subject = [subject EXCEPT ![t] = subject[t]]
      /\ outcome = [outcome EXCEPT ![t] = outcome[t]]
      /\ outcome[t] \in Statuses \cup {"none"}
      /\ step[t] = "idle" <=> subject[t] = Nobody
  OBVIOUS
<1>1. CASE \E m \in Monitored : CheckCalled(t, m)
  <2>1. PICK m \in Monitored : CheckCalled(t, m)
    BY <1>1
  <2>2. Quiet(t, "count", m, outcome[t])
    BY <1>0, <2>1 DEF Quiet, CheckCalled, HealthConstants
  <2> QED BY <2>2
<1>2. CASE CountRaises(t)
  <2>1. Quiet(t, "idle", Nobody, "none")
    BY <1>0, <1>2 DEF Quiet, CountRaises, End
  <2> QED BY <2>1
<1>3. CASE Count(t)
  <2>1. Quiet(t, "run", subject[t], outcome[t])
    BY <1>0, <1>3 DEF Quiet, Count
  <2> QED BY <2>1
<1>4. CASE CheckRaises(t)
  <2>1. Quiet(t, "store", subject[t], "unhealthy") \/ Quiet(t, "idle", Nobody, "none")
    BY <1>0, <1>4 DEF Quiet, CheckRaises, End, Statuses
  <2> QED BY <2>1
<1>5. CASE \E status \in Statuses : CheckReturns(t, status)
  <2>1. PICK status \in Statuses : CheckReturns(t, status)
    BY <1>5
  <2>2. Quiet(t, "store", subject[t], status)
    BY <1>0, <2>1 DEF Quiet, CheckReturns
  <2> QED BY <2>2
<1>6. CASE Delivered(t)
  <2>1. Quiet(t, "idle", Nobody, "none")
    BY <1>0, <1>6 DEF Quiet, Delivered, End
  <2> QED BY <2>1
<1> QED BY <1>1, <1>2, <1>3, <1>4, <1>5, <1>6

LEMMA QuietStep ==
  ASSUME HealthConstants, HealthInv, NEW t \in Threads,
         NEW next, NEW m, NEW o, Quiet(t, next, m, o)
  PROVE  HealthInv'
<1> USE DEF HealthInv, HealthTypes, HealthOK, Quiet
<1>1. HealthTypes'
  BY DEF HealthConstants
<1>2. EventDelivered'
  BY <1>1 DEF EventDelivered
<1>3. OneCheck'
  BY DEF OneCheck, Checking, HealthConstants
<1>4. AnnouncedIsStored'
  BY DEF AnnouncedIsStored
<1>5. ToldOrToBe'
  <2>1. \A u \in Threads : \A h, c : WillTell(u, h, c) => WillTell(u, h, c)'
    BY DEF WillTell, ToSet
  <2> QED BY <2>1 DEF ToldOrToBe
<1> QED BY <1>1, <1>2, <1>3, <1>4, <1>5

\* The thread whose result is a change is the one that will tell it.
LEMMA StoreStep ==
  ASSUME HealthConstants, HealthInv, NEW t \in Threads, Store(t)
  PROVE  HealthInv'
<1> DEFINE m == subject[t]
           o == outcome[t]
<1> USE DEF HealthInv, HealthTypes, HealthOK, busVars
<1>1. /\ step[t] = "store" /\ m \in Monitored /\ o \in Statuses \cup {"none"}
      /\ results' = [results EXCEPT ![m] = o]
      /\ UNCHANGED <<running, subscribers, monitoring, checks, pending, view, owed,
                     muddled>>
  BY DEF Store
<1>2. \/ /\ results[m] # o /\ step' = [step EXCEPT ![t] = "notify"]
         /\ UNCHANGED <<subject, outcome>>
      \/ /\ results[m] = o /\ step' = [step EXCEPT ![t] = "idle"]
         /\ subject' = [subject EXCEPT ![t] = Nobody]
         /\ outcome' = [outcome EXCEPT ![t] = "none"]
  BY DEF Store, Goto, End
<1>3. HealthTypes'
  <2>1. /\ results' \in [Monitored -> Statuses \cup {"none", "unknown"}]
        /\ outcome' \in [Threads -> Statuses \cup {"none"}]
    BY <1>1, <1>2
  <2>2. /\ step' \in [Threads -> {"idle", "count", "run", "store", "notify", "deliver"}]
        /\ subject' \in [Threads -> Monitored \cup {Nobody}]
    BY <1>1, <1>2
  <2>3. ASSUME NEW u \in Threads PROVE step'[u] = "idle" <=> subject'[u] = Nobody
    <3>1. CASE u = t
      BY <1>1, <1>2, <3>1 DEF HealthConstants
    <3>2. CASE u # t
      BY <1>1, <1>2, <3>2
    <3> QED BY <3>1, <3>2
  <2> QED BY <1>1, <2>1, <2>2, <2>3 DEF IsInjective, ToSet
<1>4. EventDelivered'
  <2>1. \A u \in Threads : step'[u] = "deliver" => step[u] = "deliver"
    BY <1>1, <1>2
  <2> QED BY <1>1, <1>3, <2>1 DEF EventDelivered, ToSet
<1>5. OneCheck'
  <2> SUFFICES ASSUME NEW u \in Threads, NEW v \in Threads, subject'[u] = subject'[v],
                      subject'[u] \in Monitored \ muddled'
               PROVE  u = v
    BY DEF OneCheck
  <2>1. \A w \in Threads : subject'[w] = subject[w] \/ subject'[w] = Nobody
    BY <1>1, <1>2
  <2>2. subject[u] = subject[v] /\ subject[u] \in Monitored \ muddled
    BY <1>1, <2>1 DEF HealthConstants
  <2> QED BY <2>2 DEF OneCheck
<1>6. AnnouncedIsStored'
  BY <1>1, <1>2 DEF AnnouncedIsStored, OneCheck, HealthConstants
<1>7. ToldOrToBe'
  <2>1. ASSUME NEW h \in ToSet(subscribers), NEW c \in Monitored \ muddled
        PROVE  \/ results'[c] \in {view[h][c], "unknown", "none"}
               \/ \E u \in Threads : WillTell(u, h, c)'
    <3>1. CASE c = m /\ results[m] # o
      BY <1>1, <1>2, <3>1 DEF WillTell
    <3>2. CASE c # m \/ results[m] = o
      <4>1. results'[c] = results[c]
        BY <1>1, <3>2
      <4>2. \A u \in Threads : WillTell(u, h, c) => WillTell(u, h, c)'
        BY <1>1, <1>2 DEF WillTell, ToSet
      <4> QED BY <2>1, <4>1, <4>2 DEF ToldOrToBe
    <3> QED BY <3>1, <3>2
  <2>2. ToSet(subscribers)' = ToSet(subscribers)
    BY <1>1 DEF ToSet
  <2> QED BY <1>1, <2>1, <2>2 DEF ToldOrToBe
<1> QED BY <1>3, <1>4, <1>5, <1>6, <1>7

\* Everybody who is subscribed then is told.
LEMMA PublishStep ==
  ASSUME HealthConstants, HealthInv, NEW t \in Threads,
         Publish(t) \/ PublishRefused(t)
  PROVE  HealthInv'
<1> USE DEF HealthInv, HealthTypes, HealthOK, busVars, monitorVars
<1>1. CASE Publish(t)
  <2>1. /\ step[t] = "notify" /\ step' = [step EXCEPT ![t] = "deliver"]
        /\ pending' = [pending EXCEPT ![t] = subscribers]
        /\ owed' = [owed EXCEPT ![t] = ToSet(subscribers)]
        /\ UNCHANGED <<running, subscribers, monitoring, checks, results, subject,
                       outcome, view, muddled>>
    BY <1>1 DEF Publish, Goto
  <2>2. HealthTypes'
    BY <2>1
  <2>3. EventDelivered'
    BY <2>1, <2>2 DEF EventDelivered
  <2>4. OneCheck' /\ AnnouncedIsStored'
    BY <2>1 DEF OneCheck, AnnouncedIsStored
  <2>5. ToldOrToBe'
    <3>1. \A u \in Threads, h \in ToSet(subscribers) :
            \A c : WillTell(u, h, c) => WillTell(u, h, c)'
      BY <2>1 DEF WillTell
    <3>2. ToSet(subscribers)' = ToSet(subscribers)
      BY <2>1 DEF ToSet
    <3> QED BY <2>1, <3>1, <3>2 DEF ToldOrToBe
  <2> QED BY <2>2, <2>3, <2>4, <2>5
<1>2. CASE PublishRefused(t)
  <2>1. /\ step[t] = "notify" /\ step' = [step EXCEPT ![t] = "idle"]
        /\ subject' = [subject EXCEPT ![t] = Nobody]
        /\ outcome' = [outcome EXCEPT ![t] = "none"]
        /\ muddled' = muddled \cup {subject[t]}
        /\ UNCHANGED <<running, subscribers, monitoring, checks, results, pending,
                       view, owed>>
    BY <1>2 DEF PublishRefused, End, Goto
  <2>2. HealthTypes'
    BY <2>1 DEF HealthConstants
  <2>3. EventDelivered'
    BY <2>1, <2>2 DEF EventDelivered
  <2>4. OneCheck' /\ AnnouncedIsStored'
    BY <2>1 DEF OneCheck, AnnouncedIsStored, HealthConstants
  <2>5. ToldOrToBe'
    <3>1. \A u \in Threads, c \in Monitored \ muddled' :
            \A h : WillTell(u, h, c) => WillTell(u, h, c)'
      BY <2>1 DEF WillTell, ToSet
    <3>2. ToSet(subscribers)' = ToSet(subscribers)
      BY <2>1 DEF ToSet
    <3> QED BY <2>1, <3>1, <3>2 DEF ToldOrToBe
  <2> QED BY <2>2, <2>3, <2>4, <2>5
<1> QED BY <1>1, <1>2

\* Who has been told knows the result, if it has not been reset since.
LEMMA TellStep ==
  ASSUME HealthInv, NEW t \in Threads, CallHandler(t)
  PROVE  HealthInv'
<1> DEFINE first == Head(pending[t])
           m == subject[t]
           o == outcome[t]
<1> USE DEF HealthInv, HealthTypes, HealthOK, busVars, monitorVars
<1>1. /\ step[t] = "deliver" /\ pending[t] # <<>> /\ m \in Monitored
      /\ view' = [view EXCEPT ![first][m] = o]
      /\ pending' = [pending EXCEPT ![t] = Tail(pending[t])]
      /\ owed' = [owed EXCEPT ![t] = owed[t] \ {first}]
      /\ UNCHANGED <<running, subscribers, monitoring, checks, results, step, subject,
                     outcome, muddled>>
  BY DEF CallHandler
<1>2. /\ first \in Handlers /\ Tail(pending[t]) \in Seq(Handlers)
      /\ ToSet(pending[t]) \subseteq {first} \cup ToSet(Tail(pending[t]))
  BY <1>1, Called
<1> HIDE DEF first
<1>3. view' \in [Handlers -> [Monitored -> Statuses \cup {"none", "unknown"}]]
  BY <1>1, <1>2
<1>4. HealthTypes'
  BY <1>1, <1>2, <1>3
<1>5. EventDelivered'
  <2>1. ASSUME NEW u \in Threads, step'[u] = "deliver"
        PROVE  owed'[u] \subseteq ToSet(pending'[u])
    BY <1>1, <1>2, <2>1 DEF EventDelivered
  <2> QED BY <1>4, <2>1 DEF EventDelivered, ToSet
<1>6. OneCheck' /\ AnnouncedIsStored'
  BY <1>1 DEF OneCheck, AnnouncedIsStored
<1>7. ToldOrToBe'
  <2>1. ASSUME NEW h \in ToSet(subscribers), NEW c \in Monitored \ muddled
        PROVE  \/ results[c] \in {view'[h][c], "unknown", "none"}
               \/ \E u \in Threads : WillTell(u, h, c)'
    <3>0. h \in Handlers
      OBVIOUS
    <3>1. CASE h = first /\ c = m
      <4>1. view'[h][c] = o
        BY <1>1, <1>2, <3>1
      <4> QED BY <1>1, <2>1, <3>1, <4>1 DEF AnnouncedIsStored
    <3>2. CASE h # first \/ c # m
      <4>1. view'[h][c] = view[h][c]
        BY <1>1, <1>2, <3>0, <3>2
      <4>2. ASSUME NEW u \in Threads, WillTell(u, h, c) PROVE WillTell(u, h, c)'
        <5>1. CASE u = t
          <6>1. c = m /\ h \in ToSet(pending[t])
            BY <1>1, <4>2, <5>1 DEF WillTell
          <6>2. h \in ToSet(Tail(pending[t]))
            BY <1>2, <3>2, <6>1
          <6>3. pending'[t] = Tail(pending[t]) /\ step'[t] = "deliver" /\ subject'[t] = m
            BY <1>1
          <6> QED BY <5>1, <6>1, <6>2, <6>3 DEF WillTell, ToSet
        <5>2. CASE u # t
          BY <1>1, <4>2, <5>2 DEF WillTell, ToSet
        <5> QED BY <5>1, <5>2
      <4> QED BY <2>1, <4>1, <4>2 DEF ToldOrToBe
    <3> QED BY <3>1, <3>2
  <2>2. ToSet(subscribers)' = ToSet(subscribers)
    BY <1>1 DEF ToSet
  <2> QED BY <1>1, <2>1, <2>2 DEF ToldOrToBe
<1> QED BY <1>4, <1>5, <1>6, <1>7

\* Subscribing and unsubscribing, in the middle of any delivery.
LEMMA SubscriberStep ==
  ASSUME HealthInv,
         \/ \E h \in Handlers : Subscribe(h)
         \/ \E i \in DOMAIN subscribers : Unsubscribe(i)
         \/ ClearSubscribers
  PROVE  HealthInv'
<1> USE DEF HealthInv, HealthTypes, HealthOK, monitorVars, threadVars
<1>1. CASE \E h \in Handlers : Subscribe(h)
  <2>1. PICK h \in Handlers : Subscribe(h)
    BY <1>1
  <2>2. /\ h \notin ToSet(subscribers)
        /\ subscribers' = Append(subscribers, h)
        /\ view' = [view EXCEPT ![h] = results]
        /\ UNCHANGED <<running, monitoring, checks, results, step, subject, outcome,
                       pending, owed, muddled>>
    BY <2>1 DEF Subscribe
  <2>3. /\ subscribers' \in Seq(Handlers) /\ IsInjective(subscribers')
        /\ ToSet(subscribers') = ToSet(subscribers) \cup {h}
    BY <2>2, Added
  <2>4. HealthTypes'
    BY <2>2, <2>3 DEF IsInjective, ToSet
  <2>5. EventDelivered' /\ OneCheck' /\ AnnouncedIsStored'
    BY <2>2, <2>4 DEF EventDelivered, OneCheck, AnnouncedIsStored, ToSet
  <2>6. ToldOrToBe'
    <3>1. ASSUME NEW g \in ToSet(subscribers'), NEW c \in Monitored \ muddled
          PROVE  \/ results[c] \in {view'[g][c], "unknown", "none"}
                 \/ \E u \in Threads : WillTell(u, g, c)
      BY <2>2, <2>3, <3>1 DEF ToldOrToBe
    <3>2. \A u, g, c : WillTell(u, g, c)' <=> WillTell(u, g, c)
      BY <2>2 DEF WillTell, ToSet
    <3>3. ToSet(subscribers)' = ToSet(subscribers')
      BY DEF ToSet
    <3> QED BY <2>2, <3>1, <3>2, <3>3 DEF ToldOrToBe
  <2> QED BY <2>4, <2>5, <2>6
<1>2. CASE \/ \E i \in DOMAIN subscribers : Unsubscribe(i)
           \/ ClearSubscribers
  <2>1. /\ subscribers' \in Seq(Handlers) /\ IsInjective(subscribers')
        /\ ToSet(subscribers') \subseteq ToSet(subscribers)
    <3>1. CASE \E i \in DOMAIN subscribers : Unsubscribe(i)
      BY <3>1, Removed DEF Unsubscribe
    <3>2. CASE ClearSubscribers
      BY <3>2, EmptySeq DEF ClearSubscribers, IsInjective, ToSet
    <3> QED BY <1>2, <3>1, <3>2
  <2>2. /\ \E gone : owed' = [t \in Threads |-> owed[t] \ gone]
        /\ UNCHANGED <<running, monitoring, checks, results, step, subject, outcome,
                       pending, view, muddled>>
    BY <1>2 DEF Unsubscribe, ClearSubscribers
  <2>3. HealthTypes'
    BY <2>1, <2>2 DEF IsInjective, ToSet
  <2>4. EventDelivered' /\ OneCheck' /\ AnnouncedIsStored'
    BY <2>2, <2>3 DEF EventDelivered, OneCheck, AnnouncedIsStored, ToSet
  <2>5. ToldOrToBe'
    <3>1. \A u, g, c : WillTell(u, g, c)' <=> WillTell(u, g, c)
      BY <2>2 DEF WillTell, ToSet
    <3>2. ToSet(subscribers)' = ToSet(subscribers')
      BY DEF ToSet
    <3> QED BY <2>1, <2>2, <3>1, <3>2 DEF ToldOrToBe
  <2> QED BY <2>3, <2>4, <2>5
<1> QED BY <1>1, <1>2

\* The tables of the monitor, and the switches.
LEMMA TableStep ==
  ASSUME HealthInv,
         \/ \E on : SetRunning(on) \/ SetMonitoring(on)
         \/ \E m \in Monitored : RegisterCheck(m) \/ UnregisterCheck(m)
         \/ ClearChecks
         \/ UNCHANGED healthVars
  PROVE  HealthInv'
<1> USE DEF HealthInv, HealthTypes, HealthOK, busVars, monitorVars,
            threadVars
<1>1. /\ UNCHANGED <<subscribers, step, subject, outcome, pending, view, owed, muddled>>
      /\ checks' \subseteq Monitored
      /\ results' \in [Monitored -> Statuses \cup {"none", "unknown"}]
      /\ \A m \in Monitored : results'[m] \in {results[m], "none", "unknown"}
  <2>1. CASE \/ \E on : SetRunning(on) \/ SetMonitoring(on)
             \/ UNCHANGED healthVars
    BY <2>1 DEF SetRunning, SetMonitoring, healthVars
  <2>2. CASE \E m \in Monitored : RegisterCheck(m)
    BY <2>2 DEF RegisterCheck
  <2>3. CASE (\E m \in Monitored : UnregisterCheck(m)) \/ ClearChecks
    BY <2>3 DEF UnregisterCheck, ClearChecks, Drop
  <2> QED BY <2>1, <2>2, <2>3
<1>2. HealthTypes'
  BY <1>1 DEF IsInjective, ToSet
<1>3. EventDelivered' /\ OneCheck'
  BY <1>1, <1>2 DEF EventDelivered, OneCheck, ToSet
<1>4. AnnouncedIsStored'
  BY <1>1 DEF AnnouncedIsStored
<1>5. ToldOrToBe'
  <2>1. \A u, h, m : WillTell(u, h, m)' <=> WillTell(u, h, m)
    BY <1>1 DEF WillTell, ToSet
  <2>2. ToSet(subscribers)' = ToSet(subscribers)
    BY <1>1 DEF ToSet
  <2> QED BY <1>1, <2>1, <2>2 DEF ToldOrToBe
<1> QED BY <1>2, <1>3, <1>4, <1>5

LEMMA HealthInvariance == ASSUME HealthConstants PROVE HealthSpec => []HealthInv
<1>1. HealthInit => HealthInv
  BY HealthInitial
<1>2. ASSUME HealthInv, [HealthNext]_healthVars PROVE HealthInv'
  <2>1. ASSUME NEW t \in Threads, Check(t) PROVE HealthInv'
    BY <1>2, <2>1, QuietSteps, QuietStep, StoreStep, PublishStep, TellStep
       DEF Check
  <2>2. CASE SetRunning(~running) \/ SetMonitoring(~monitoring)
    BY <1>2, <2>2, TableStep
  <2> QED BY <1>2, <2>1, <2>2, SubscriberStep, TableStep DEF HealthNext
<1> QED BY <1>1, <1>2, PTL DEF HealthSpec

-----------------------------------------------------------------------------
(* The theorems about health.                                              *)

\* An event reaches every handler that is subscribed from its publication to the
\* end of its delivery, whatever others do. Of the constants this needs no more
\* than that Nobody is no component.
THEOREM EventDeliveredHolds ==
  ASSUME HealthConstants PROVE HealthSpec => []EventDelivered
<1>1. HealthInv => EventDelivered
  BY DEF HealthInv, EventDelivered
<1> QED BY <1>1, HealthInvariance, PTL

\* What a subscriber was told last of a component is its status, for any number of
\* threads that check, and of subscribers.
THEOREM ViewCurrentHolds ==
  ASSUME HealthConstants PROVE HealthSpec => []ViewCurrent
<1>1. HealthInv => ViewCurrent
  BY DEF HealthInv, ToldOrToBe, WillTell, ViewCurrent, Checking
<1> QED BY <1>1, HealthInvariance, PTL

=============================================================================
