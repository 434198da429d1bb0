----------------------------- MODULE AppLifecycle -----------------------------
(***************************************************************************)
(* CoreApplication (core/application/app.py): what it builds once, what    *)
(* every start() derives from the configuration, what each component's     *)
(* initializer and shutdown handler do to the subsystems, and what         *)
(* start(), stop(), restart() and provision_device() leave behind.         *)
(*                                                                         *)
(* One thread makes the calls, and a process may end at any moment; only   *)
(* the file of the R.E.S.C.S. adapter survives it. Module Runtime has the  *)
(* lifecycle of components for any graph; here are the thirteen of the     *)
(* application. A configuration is read again by every start() and may     *)
(* have changed.                                                           *)
(***************************************************************************)
EXTENDS Naturals, Sequences, SequencesExt

CONSTANTS Devices, Tokens, Absent,
          Requests    \* sets of components a configuration may disable

\* _register_runtime_components: also the order in which they are started.
Components ==
  <<"configuration", "logging", "security", "resources", "organization",
    "events", "communication", "routing", "health", "rescs", "dependencies",
    "services", "core">>

ASSUME LifecycleAssumption ==
  Absent \notin Tokens /\ \A requested \in Requests : requested \subseteq ToSet(Components)

\* The place of a component in that order.
Place == [c \in ToSet(Components) |->
            CHOOSE i \in DOMAIN Components : Components[i] = c]

Configured == {"logging", "security", "resources", "events", "rescs"}

DependsOn(c) ==
  CASE c \in {"configuration", "dependencies"} -> {}
    [] c = "organization" -> {"resources"}
    [] c = "communication" -> {"events", "security"}
    [] c = "routing" -> {"communication"}
    [] c = "health" -> {"events"}
    [] c = "services" -> {"dependencies", "health"}
    [] c = "core" -> ToSet(Components) \ {"core"}
    [] c \in Configured ->
         {"configuration"} \cup (IF c = "rescs" THEN {"events"} ELSE {})

\* _register_internal_services
Services == {"communication", "events", "resources", "organization", "routing",
             "health", "runtime", "rescs", "agent"}

\* What a configuration says, as far as it matters here.
Configuration == [requested : Requests, tcp : BOOLEAN, file : BOOLEAN]

VARIABLES
  phase,        \* of the runtime, and of the call that drives it
  restarting,   \* whether that call is a restart()
  up,           \* components initialized so far
  taken,        \* components this call of stop() or start() has taken down
  disabled,     \* _disabled_components
  active,       \* subsystems that are running
  attached,     \* what is attached to them: consumers, routes, checks, ...
  tcp,          \* whether self.communication is a TcpTransport
  shared,       \* whether that has the application's device registry
  endpoints,    \* services with an endpoint on self.communication
  registered,   \* services known to the ServiceManager
  serving,      \* those it has started
  onFile,       \* whether self.rescs is the file adapter
  file, memory, \* what the adapters hold: a token for each stored device
  identities,   \* the token of each identity of the SecurityManager
  known,        \* devices in the application's registry
  lapsed        \* whether this process has seen security inactive

callVars == <<phase, restarting, up, taken>>
wiringVars == <<active, attached, endpoints, registered, serving>>
storeVars == <<onFile, file, memory>>
deviceVars == <<identities, known, lapsed>>
transportVars == <<tcp, shared>>
vars == <<callVars, disabled, wiringVars, transportVars, storeVars, deviceVars>>

-----------------------------------------------------------------------------
\* With a component everything is disabled that depends on it.
Closed ==
  {off \in SUBSET ToSet(Components) :
     \A c \in ToSet(Components) : DependsOn(c) \cap off # {} => c \in off}

\* Of the requested components the least such set.
DisabledBy ==
  [requested \in Requests |->
     {c \in ToSet(Components) : \A off \in Closed : requested \subseteq off => c \in off}]

Enabled == ToSet(Components) \ disabled

\* A service without a component of its name is always enabled.
ServiceEnabled == Services \ disabled

Subsystems == {"configuration", "security", "events", "communication",
               "routing", "health"}

Nothing == [d \in Devices |-> Absent]

Table == IF onFile THEN file ELSE memory

Stored(table) == {d \in Devices : table[d] # Absent}

\* __init__: every subsystem but the configuration is created running.
NewProcess ==
  /\ phase = "stopped" /\ restarting = FALSE /\ up = {} /\ taken = {}
  /\ disabled = {} /\ active = Subsystems \ {"configuration"}
  /\ attached = {} /\ endpoints = {} /\ registered = Services /\ serving = {}
  /\ tcp = FALSE /\ shared = FALSE
  /\ onFile = FALSE /\ memory = Nothing
  /\ identities = Nothing /\ known = {} /\ lapsed = FALSE

Init == NewProcess /\ file = Nothing

Idle == phase \in {"stopped", "running", "failed"} /\ ~restarting

-----------------------------------------------------------------------------
(* _load_configuration.                                                    *)

\* _deactivate_disabled_components.
ActiveWithout(off) ==
  (active \cup {"configuration"}) \ (off \cap {"communication", "events", "security"})

\* And a new TcpTransport, which is active.
ActiveAfter(off, config) ==
  ActiveWithout(off) \cup
    (IF config.tcp /\ "communication" \notin off THEN {"communication"} ELSE {})

\* _apply_transport_policy: if TCP is wanted there is a new transport, without
\* endpoints. It gets the device registry of the application, and takes one
\* of its own if that is empty. Otherwise the transport is what it was.
ApplyTransportPolicy(off, config) ==
  IF config.tcp /\ "communication" \notin off
    THEN tcp' = TRUE /\ shared' = (known # {}) /\ endpoints' = {}
    ELSE UNCHANGED <<tcp, shared, endpoints>>

\* _restore_persisted_devices: a stored device becomes known, and gets an
\* identity unless it has one or the SecurityManager is inactive.
Restored(table, running) ==
  [d \in Devices |-> IF identities[d] = Absent /\ "security" \in running
                       THEN table[d] ELSE identities[d]]

\* Faulty: the devices are restored before the adapter is selected.
LoadRestoringFirst(config) ==
  LET off == DisabledBy[config.requested]
  IN  /\ UNCHANGED <<attached, registered, serving, file>>
      /\ disabled' = off
      /\ active' = ActiveAfter(off, config)
      /\ ApplyTransportPolicy(off, config)
      /\ onFile' = config.file
      /\ memory' = IF onFile /\ ~config.file THEN Nothing ELSE memory
      /\ known' = known \cup Stored(Table)
      /\ identities' = Restored(Table, active')
      /\ lapsed' = (lapsed \/ "security" \notin active')

Load(config) ==
  LET off == DisabledBy[config.requested]
  IN  /\ UNCHANGED <<attached, registered, serving, file>>
      /\ disabled' = off
      /\ active' = ActiveAfter(off, config)
      /\ ApplyTransportPolicy(off, config)
      /\ onFile' = config.file
      /\ memory' = IF onFile /\ ~config.file THEN Nothing ELSE memory
      /\ known' = known \cup Stored(Table')
      /\ identities' = Restored(Table', active')
      /\ lapsed' = (lapsed \/ "security" \notin active')

\* The file is missing or invalid, or the runtime has failed and its components
\* cannot be enabled; nothing but the configuration has been touched.
LoadRaises ==
  /\ active' = active \cup {"configuration"}
  /\ UNCHANGED <<disabled, attached, endpoints, registered, serving,
                 transportVars, storeVars, deviceVars>>

\* The security policy refuses the configuration, after the transport policy; or
\* before it, without a configuration file; or there is no TcpTransport for 0.0.0.0.
LoadRefused(config) ==
  LET off == DisabledBy[config.requested]
  IN  /\ config.tcp
      /\ disabled' = off
      /\ \/ active' = ActiveAfter(off, config) /\ ApplyTransportPolicy(off, config)
         \/ active' = ActiveWithout(off) /\ UNCHANGED <<tcp, shared, endpoints>>
      /\ lapsed' = (lapsed \/ "security" \notin active')
      /\ UNCHANGED <<attached, registered, serving, storeVars, identities, known>>

-----------------------------------------------------------------------------
(* start().                                                                *)

MayStart == phase # "running" /\ (Idle \/ phase = "again")

StartCalled(config) ==
  /\ MayStart /\ phase # "failed"
  /\ Load(config)
  /\ phase' = "starting" /\ up' = {} /\ taken' = {} /\ restarting' = FALSE

StartRaises ==
  /\ MayStart
  /\ \/ LoadRaises
     \/ phase # "failed" /\ \E config \in Configuration : LoadRefused(config)
  /\ phase' = (IF phase = "failed" THEN "failed" ELSE "stopped")
  /\ restarting' = FALSE
  /\ UNCHANGED <<up, taken>>

\* The first enabled component that is not up, and the last one that is.
NextUp(c) ==
  c \in Enabled \ up /\ \A d \in Enabled \ up : d = c \/ Place[c] < Place[d]

LastUp(c) == c \in up /\ \A d \in up : d = c \/ Place[d] < Place[c]

Attach(subsystems, things) ==
  /\ active' = active \cup subsystems
  /\ attached' = attached \cup things
  /\ UNCHANGED <<endpoints, registered, serving>>

\* Faulty: a service is taken to be enabled only if a component has its name.
InitializeServicesNamed ==
  /\ endpoints' = endpoints \cup (registered \cap Enabled)
  /\ serving' = serving \cup (registered \cap Enabled)
  /\ UNCHANGED <<active, attached, registered>>

InitializeServices ==
  /\ endpoints' = endpoints \cup (registered \cap ServiceEnabled)
  /\ serving' = serving \cup (registered \cap ServiceEnabled)
  /\ UNCHANGED <<active, attached, registered>>

\* A server that cannot be bound locally is done without.
InitializeCommunication ==
  \E bound \in {{}, {"listener"}} :
    (~tcp => bound = {}) /\ Attach({"communication"}, bound)

\* The initializers of the components, _initialize_<c>.
Initialize(c) ==
  CASE c = "configuration" -> Attach({"configuration"}, {})
    [] c = "security" -> Attach({"security"}, {"bridge"})
    [] c = "events" -> Attach({"events"}, {"consumers"})
    [] c = "communication" -> InitializeCommunication
    [] c = "routing" -> Attach({"routing"}, {"routes"})
    [] c = "health" -> Attach({"health"}, {"checks"})
    [] c = "services" -> InitializeServices
    [] OTHER -> UNCHANGED wiringVars

\* Services that are not registered have no use for the handlers.
InitializerReturns(c) ==
  /\ phase = "starting" /\ NextUp(c)
  /\ c = "services" => registered = Services
  /\ Initialize(c)
  /\ up' = up \cup {c}
  /\ UNCHANGED <<phase, restarting, taken, disabled, transportVars, storeVars,
                 deviceVars>>

\* They raise, and so does an external server that cannot be bound.
InitializerRaises ==
  /\ phase = "starting"
  /\ \/ NextUp("services") /\ registered # Services /\ UNCHANGED active
     \/ NextUp("communication") /\ tcp /\ active' = active \cup {"communication"}
  /\ phase' = "rollback"
  /\ UNCHANGED <<restarting, up, taken, disabled, attached, endpoints,
                 registered, serving, transportVars, storeVars, deviceVars>>

\* The portal is opened if there are events to announce the start with.
Started ==
  /\ phase = "starting" /\ up = Enabled
  /\ phase' = "running"
  /\ \E opened \in {{}, {"portal"}} :
       /\ "events" \notin active => opened = {}
       /\ attached' = attached \cup opened
  /\ UNCHANGED <<restarting, up, taken, disabled, active, endpoints, registered,
                 serving, transportVars, storeVars, deviceVars>>

-----------------------------------------------------------------------------
(* stop() and restart().                                                   *)

\* The runtime has nothing to do if it is stopped.
StopCalled(restart) ==
  /\ Idle
  /\ phase' = (IF phase = "stopped" THEN "stopped" ELSE "stopping")
  /\ restarting' = restart /\ taken' = {}
  /\ attached' = attached \ {"portal"}
  /\ UNCHANGED <<up, disabled, active, endpoints, registered, serving,
                 transportVars, storeVars, deviceVars>>

Detach(subsystems, things) ==
  /\ active' = active \ subsystems
  /\ attached' = attached \ things

\* Faulty: the services are stopped and stay registered.
StopServices ==
  /\ serving' = {}
  /\ UNCHANGED <<active, attached, registered, endpoints, memory, identities,
                 lapsed>>

ShutdownServices ==
  /\ registered' = {} /\ serving' = {}
  /\ UNCHANGED <<active, attached, endpoints, memory, identities, lapsed>>

\* Faulty: the endpoints go, the server stays.
ClearCommunication ==
  /\ endpoints' = {}
  /\ Detach({"communication"}, {})
  /\ UNCHANGED <<registered, serving, memory, identities, lapsed>>

ShutdownCommunication ==
  /\ endpoints' = {}
  /\ Detach({"communication"}, {"listener"})
  /\ UNCHANGED <<registered, serving, memory, identities, lapsed>>

ShutdownSecurity ==
  /\ Detach({"security"}, {})
  /\ identities' = Nothing /\ lapsed' = TRUE
  /\ UNCHANGED <<endpoints, registered, serving, memory>>

ShutdownRescs ==
  /\ memory' = IF onFile THEN memory ELSE Nothing
  /\ UNCHANGED <<wiringVars, identities, lapsed>>

ShutdownOther(c) ==
  /\ CASE c = "configuration" -> Detach({"configuration"}, {})
       [] c = "events" -> Detach({"events"}, {"consumers"})
       [] c = "routing" -> Detach({"routing"}, {"routes"})
       [] c = "health" -> Detach({"health"}, {"checks"})
       [] OTHER -> UNCHANGED <<active, attached>>
  /\ UNCHANGED <<endpoints, registered, serving, memory, identities, lapsed>>

\* The shutdown handlers of the components, _shutdown_<c>, the last one first.
ShutdownReturns(c) ==
  /\ phase \in {"rollback", "stopping"} /\ LastUp(c)
  /\ CASE c = "services" -> ShutdownServices
       [] c = "communication" -> ShutdownCommunication
       [] c = "security" -> ShutdownSecurity
       [] c = "rescs" -> ShutdownRescs
       [] OTHER -> ShutdownOther(c)
  /\ up' = up \ {c} /\ taken' = taken \cup {c}
  /\ UNCHANGED <<phase, restarting, disabled, transportVars, onFile, file, known>>

\* A start that has failed leaves the runtime failed, stop() leaves it stopped.
ShutdownEnds ==
  /\ phase \in {"rollback", "stopping"} /\ up = {}
  /\ phase' = (IF phase = "rollback" THEN "failed" ELSE "stopped")
  /\ restarting' = (restarting /\ phase = "stopping")
  /\ UNCHANGED <<up, taken, disabled, wiringVars, transportVars, storeVars,
                 deviceVars>>

\* restart() registers the internal services anew, and starts.
RegisterAgain ==
  /\ phase = "stopped" /\ restarting /\ registered = {}
  /\ registered' = Services
  /\ phase' = "again"
  /\ UNCHANGED <<restarting, up, taken, disabled, active, attached, endpoints,
                 serving, transportVars, storeVars, deviceVars>>

\* ServiceAlreadyRegistered: the application remains stopped.
RegisterAgainRaises ==
  /\ phase = "stopped" /\ restarting /\ registered # {}
  /\ restarting' = FALSE
  /\ UNCHANGED <<phase, up, taken, disabled, wiringVars, transportVars,
                 storeVars, deviceVars>>

-----------------------------------------------------------------------------
(* Devices.                                                                *)

Persist(d, t, inFile) ==
  IF inFile THEN file' = [file EXCEPT ![d] = t] /\ UNCHANGED memory
            ELSE memory' = [memory EXCEPT ![d] = t] /\ UNCHANGED file

\* provision_device: the device is stored, and then given an identity, which an
\* inactive SecurityManager refuses, with an exception. The first half is done.
ProvisionDevice(d, t) ==
  /\ Idle /\ "configuration" \in active
  /\ Persist(d, t, onFile)
  /\ identities' = IF "security" \in active THEN [identities EXCEPT ![d] = t]
                                            ELSE identities
  /\ UNCHANGED <<callVars, disabled, wiringVars, transportVars, onFile, known,
                 lapsed>>

\* If no configuration is loaded, it begins by loading one.
LoadToProvision(config) ==
  /\ Idle /\ "configuration" \notin active /\ phase # "failed"
  /\ Load(config)
  /\ UNCHANGED callVars

ProvisioningRaises ==
  /\ Idle /\ "configuration" \notin active
  /\ LoadRaises
  /\ UNCHANGED callVars

\* A device that has authenticated registers over TCP. A registry shared with
\* the application persists it, one of the transport's own has no store.
DeviceRegisters(d) ==
  /\ phase = "running" /\ Idle /\ "listener" \in attached
  /\ "security" \in active /\ identities[d] # Absent
  /\ known' = IF shared THEN known \cup {d} ELSE known
  /\ IF shared THEN Persist(d, identities[d], onFile) ELSE UNCHANGED <<file, memory>>
  /\ UNCHANGED <<callVars, disabled, wiringVars, transportVars, onFile,
                 identities, lapsed>>

\* The process ends, whatever it is doing, and another is begun.
ProcessEnds ==
  /\ phase' = "stopped" /\ restarting' = FALSE /\ up' = {} /\ taken' = {}
  /\ disabled' = {} /\ active' = Subsystems \ {"configuration"}
  /\ attached' = {} /\ endpoints' = {} /\ registered' = Services /\ serving' = {}
  /\ tcp' = FALSE /\ shared' = FALSE
  /\ onFile' = FALSE /\ memory' = Nothing
  /\ identities' = Nothing /\ known' = {} /\ lapsed' = FALSE
  /\ UNCHANGED file

Next ==
  \/ \E config \in Configuration : StartCalled(config) \/ LoadToProvision(config)
  \/ \E c \in ToSet(Components) : InitializerReturns(c) \/ ShutdownReturns(c)
  \/ StartRaises \/ InitializerRaises \/ Started
  \/ \E restart \in BOOLEAN : StopCalled(restart)
  \/ ShutdownEnds \/ RegisterAgain \/ RegisterAgainRaises
  \/ \E d \in Devices : DeviceRegisters(d) \/ \E t \in Tokens : ProvisionDevice(d, t)
  \/ ProvisioningRaises
  \/ ProcessEnds

Spec == Init /\ [][Next]_vars

-----------------------------------------------------------------------------
(* Correctness.                                                            *)

LifecycleOK ==
  /\ phase \in {"stopped", "starting", "running", "rollback", "failed",
                "stopping", "again"}
  /\ up \subseteq Enabled
  /\ \A c \in up, d \in Enabled \ up : Place[c] < Place[d]
  /\ disabled \subseteq ToSet(Components) /\ taken \subseteq ToSet(Components)
  /\ active \subseteq Subsystems
  /\ attached \subseteq {"bridge", "consumers", "listener", "routes", "checks",
                         "portal"}
  /\ endpoints \subseteq Services /\ registered \in {{}, Services}
  /\ serving \subseteq registered
  /\ known \subseteq Devices

\* The variables are well formed, and an application that is running has every
\* enabled subsystem running with all that hangs on it, in particular each
\* enabled service started and with an endpoint on the transport in use now;
\* what the policy stops is stopped. This is so after any history of failed
\* starts, restarts and changes of the configuration and the transport.
Serving ==
  /\ LifecycleOK
  /\ Idle /\ phase = "running" =>
       /\ Enabled \cap Subsystems \subseteq active
       /\ disabled \cap active \cap {"communication", "events", "security"} = {}
       /\ "events" \in Enabled => "consumers" \in attached
       /\ "routing" \in Enabled => "routes" \in attached
       /\ "health" \in Enabled => "checks" \in attached
       /\ "services" \in Enabled =>
            serving = ServiceEnabled /\ ServiceEnabled \subseteq endpoints

\* Once a start has failed or a stop has returned nobody is served: no server,
\* no portal, no service and, but for what was left on a disabled transport, no
\* endpoint.
Silent ==
  Idle /\ phase \in {"stopped", "failed"} =>
    attached \cap {"listener", "portal"} = {} /\ serving = {}

\* A restart finds the services gone and registers them if the run it ends has
\* had them: what cannot be restarted is an application whose services were not
\* up, because their component is disabled or the start has failed before them.
RestartRegisters == [][RegisterAgainRaises => "services" \notin taken]_vars

\* docs/device-communication.md, "On startup C.O.R.E. restores every persisted
\* identity": a device that was stored by any earlier process can authenticate
\* in the first run of a later one.
CredentialsRestored ==
  Idle /\ phase = "running" /\ ~lapsed =>
    \A d \in Stored(Table) : identities[d] # Absent

\* docs/device-communication.md, "Disconnect, C.O.R.E. restart and reconnect
\* therefore all preserve the registered identity": a device that is in the file
\* can authenticate in every run, one that follows a restart() included.
RestartAuthenticates ==
  Idle /\ phase = "running" /\ "security" \in Enabled /\ onFile =>
    \A d \in Stored(file) : identities[d] # Absent
=============================================================================
