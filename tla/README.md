# A verification of C.O.R.E.-HOST

C.O.R.E.-HOST is a coordination server in Python: devices connect to it over
TCP and TLS, authenticate, register, exchange messages and are given agents; a
runtime starts and stops the components the server is made of. This directory
holds TLA+ models of its concurrent and stateful parts, the TLC configurations
that check them on small instances, and proofs, checked by TLAPS, that the
central properties hold for every size.

Paths below are relative to `src/`. `PROJECT.json` names, for every definition
that models code, the lines it models.

Contents: 1 the system, 2 the modules, 3 the transport, 4 agent placement,
5 the runtime, 6 the dependency manager, 7 web jobs, 8 the application's life
cycle, 9 health and events, 10 services and messages, 11 records, 12 data
requests, 13 the runs, 14 the disagreements found, 15 the proofs, 16 what is not
modelled, 17 the plan.

## 1. The system

### 1.1 Components

For each: its **state**, its **operations**, how it **interacts** with others,
what is **hard** about it, and what makes it **correct**.

**TCP transport** (`core/communication/tcp.py`, `connection.py`). State: the
sessions (`_connections`), the reserved slots (`_reserved`), the counters, the
binding of devices to sockets (`_device_sockets`), the stop event, the listening
socket. Operations: accept a connection and reserve a slot, TLS handshake,
session handshake and authentication, serve frames (messages, registration,
forwarding to another device, data requests), clean up after a connection,
`stop()`. Interacts: with the device registry, the security manager, the event
bus and the application's handlers. Hard: one thread accepts, one thread per
connection serves, any thread may call `stop()`; every shared structure is read
and written in separate lock sections; peers vanish, stall, and come back over
another connection. Correct: the limit on connections is kept, slots are given
back exactly once, a device is bound only to a connection authenticated as it,
a forward reaches the device it names, a device that is online is served.

**Device registry** (`devices.py`). State: one record per device (status,
connection, times). Operations: register, mark offline, mark all offline, find
by connection, persist and restore identities. Interacts: called by the
transport's threads; mirrors into the resource registry; reads and writes the
R.E.S.C.S. store. Hard: a stale close against a new registration; a shutdown in
several lock sections; read-modify-write of persisted records. Correct: a record
names the connection that serves the device, or none.

**Envelope, codec, in-process transport** (`protocol.py`, `models.py`,
`serializer.py`, `transport.py`, `local.py`). State: endpoints and counters of
the in-process transport. Operations: validate, encode, decode, deliver. Hard:
little; pure functions, and one table under a lock.

**Agent scheduler** (`core/scheduler/scheduler.py`). State: profiles,
assignments of devices, agents, a count for each profile. Operations: register
and unregister profiles, find a suitable agent, assign, release, clear.
Interacts: with the resource registry, through the application. Hard: the search
for a place is not in the section that commits. Correct: counts, assignments and
agents agree; no profile has more devices than its maximum.

**Capability router** (`capability_router.py`). State: model profiles and their
usage counts. Operations: register, select, record and release usage.

**Application** (`core/application/app.py`). State: all the components, which of
them are disabled, whether the application is initialised. Operations: start,
stop, restart; load and apply the configuration; assign and release agents;
register, update and remove resources; react to device events; some thirty
message handlers. Interacts: with everything; it is the composition. Hard: its
operations touch several components in turn with no lock of their own; a restart
has to undo what a start did. Correct: an assigned agent is published as a
resource; a restarted application works as a started one.

**Resource registry** (`core/resources/registry.py`). State: the resources.
Operations: register, unregister, update, mark seen, discover. Hard: no lock.

**Runtime** (`core/runtime/runtime.py`). State: the components, their
dependencies, handlers and states, the list of initialized ones, its own state.
Operations: register, set dependencies, enable, start, stop, restart, clear.
Interacts: calls an initializer and a shutdown handler of each component. Hard:
initializers and handlers fail, and Ctrl+C strikes anywhere. Correct: started
after their dependencies, shut down before them, each once, none left.

**Runtime history** (`history.py`). State: active and completed records of runs.

**Service manager and dispatch** (`core/services/manager.py`, `dispatch.py`,
`rescs_proxy.py`). State: the services, their status and health, the handlers of
their operations. Operations: register, start with dependencies, stop with
dependents, execute, health check; translate messages into requests and enforce
the policy. Hard: no lock; a failing handler marks the service failed. Correct:
a running service has its dependencies running.

**Router** (`core/routing/router.py`). State: routes, counters. Operations:
add and remove routes, route a message to an endpoint or to a device.

**Event bus** (`core/events/bus.py`). State: the subscribers, active or not.
Operations: subscribe, unsubscribe, publish, stop. Hard: handlers are called
outside the lock, after the list was copied.

**Health monitor** (`core/health/monitor.py`). State: checks, results, counts.
Operations: register, unregister, run checks, notify of changes. Hard: several
lock sections in one check.

**Security** (`core/security/`). State: identities, the policy, counters.
Operations: register and unregister identities, authenticate, authorize. Hard:
look-up and verification in separate sections.

**Configuration** (`core/configuration/`). State: the current configuration and
its counters. Operations: load, validate, replace, clear.

**Dependency manager** (`core/dependencies/manager.py`). State: a graph.
Operations: register, unregister, set dependencies, find a start order,
validate. Correct: the order lists everything needed, once, and first.

**Data organizer** (`core/data/`). State: counters. Operations: one pipeline,
validate, authorize, retrieve, check the size, deliver. Interacts: security, the
device registry, the R.E.S.C.S. reader. Hard: the destination may change while
the data is fetched.

**Organization and ingestion** (`core/organization/`). State: categories and
entries. Operations: organize, ingest, reconcile with the store.

**R.E.S.C.S. adapters** (`core/rescs/adapter.py`). State: the records, in
memory, in a file, or remote with a fall-back. Operations: persist, fetch,
delete, list. Hard: a file shared by two processes; a fall-back that is not
replayed. Correct: what was persisted is fetched.

**Host portal** (`core/portal/`). State: a ring of events, locations, a server
thread. Operations: HTTP views over the application, and a few commands.

**Web portal services** (`core/web/`). State: jobs and their processes, accounts
in SQLite, sessions, settings. Operations: start and stop a job, stream its
output, close; sign up, log in and out. Hard: job thread, timer, requests and
shutdown all change one status. Correct: a stop stops, limits hold, no process
outlives the host.

**Monitoring, logging, errors, version, command line**: formatting, set-up and
printing; no state to speak of.

### 1.2 How they interact

```
 peers --TLS--> TCP transport --register/offline--> Device registry --> R.E.S.C.S.
                    |  \--events--> Event bus --> Application --> Agent scheduler
                    |                                 |      \--> Resource registry
                    \--messages--> Application handlers --> Service manager, ...
 run_application --> Application --> Runtime --initializers/handlers--> all of them
 web gateway --> Services (jobs) --> processes
```

The threads: the main thread (`run_application`), the acceptor, one thread per
connection, whoever calls the application (portal, web gateway, tests), one
thread per web job and its timer.

## 2. The modules

| module | models | extends or instantiates |
|---|---|---|
| `DeviceTransport` | the hardened TCP transport with the device registry it drives | |
| `DevicePresence` | what the two promise: the abstract presence service | |
| `MCDeviceTransport` | small instances | `DeviceTransport` |
| `DeviceTransport_proofs` | its theorems | `DeviceTransport` |
| `AgentPlacement` | the scheduler and the application's operations that drive it | |
| `MCAgentPlacement` | small instances | `AgentPlacement` |
| `AgentPlacement_proofs` | its theorems | `AgentPlacement` |
| `Runtime` | the component lifecycle and the component policy | |
| `StartOrder` | the depth-first search of the runtime, a step at a time | `Runtime` |
| `DependencyManager` | the service graph and its search, a step at a time | |
| `Runtime_proofs` | theorems of the three | `StartOrder`, `DependencyManager` |
| `MCRuntime` | the runtime as anybody and as the application uses it, both searches, and the jobs' ends | `StartOrder`, `DependencyManager`, `HostJobs` |
| `HostJobs` | the jobs of the web portal | |
| `HostJobs_proofs` | its theorems | `HostJobs` |
| `AppLifecycle` | start, stop and restart of the whole application, and what devices keep through them | |
| `HealthEvents` | the health monitor and the event bus it announces changes on | |
| `MCApplication` | small instances of the last three | `AppLifecycle`, `HealthEvents`, `HostJobs` |
| `Application_proofs` | theorems of the first two | `AppLifecycle`, `HealthEvents` |
| `ServiceManager` | the internal services and their dependencies | |
| `MessageSpine` | a request from the router to the service and its events | `ServiceManager` |
| `MCMessageSpine` | small instances of both | `MessageSpine` |
| `MessageSpine_proofs` | theorems of both | `MessageSpine` |
| `RescsTables` | the tables that both adapters keep | |
| `RescsStore` | the file adapter, the file system and killed processes | `RescsTables` |
| `DurableTable` | what the file adapter promises: an abstract durable table | |
| `RescsStore_proofs` | its theorems | `RescsStore` |
| `RescsRemote` | the HTTP adapter over an unreliable network | `RescsTables` |
| `Organization` | the resource registry, the index over it, and ingestion | `RescsRemote` |
| `RecordPages` | the order and the pages of records | |
| `DataOrganizer` | a data request from its arrival to its answer | |
| `MCRecords` | small instances of the record modules | `RescsStore`, and the four others |
| `Records_proofs` | theorems of four of them | `Organization`, `DataOrganizer`, `RecordPages` |

A definition marked "Faulty" is a variant of the one that follows it, the way a
plausible mistake would have it. It is used nowhere in the specification; put in
the place of the right one it makes the property it is paired with (see
`PROJECT.json`, "mutants") fail under that property's own configuration, which
shows that the property can tell them apart.

An MC module with several uses has a variable `usage` that is chosen at the start
and never changes, and in each use only one module's variables move; so one run
explores several instances side by side, never their product, but for
`MessageSpine` and `Organization`, which are compositions themselves. A property
of one use is stated for all states; the other uses satisfy it from their first.

In all of them an action is what one thread does between two points at which
another may run: a section under a lock, a blocking call, or the code from one
callback to the next. Log lines, formatting, counters nobody reads and message
contents are left out.

## 3. The transport (`DeviceTransport`)

State: `_connections` and `_reserved` are `connections` and `reserved`; a
session's identity, token and lease are functions of the connection; a
`DeviceRecord` is `status` and `cid`; `_device_sockets` is `binding`. A
connection id is a fresh UUID, so one value stands for a connection, its socket,
its session, its token and its thread. `pc` is where that thread is, `target`
and `via` are its locals across lock sections. `delivered`, `lastEvent` and
`held` record what the outside has seen: frames forwarded, the last event about a
device with the connection it names, connections whose registration was
acknowledged.

Actions, in the order a connection meets them: `AcceptReserve` / `AcceptRefuse`
(the slot test under the lock), `TlsEstablished` / `TlsFailed`,
`RegisterSession` (reservation turned into session), `HelloReadable`,
`RejectHandshake` / `Authenticate`, then the loop `FrameReadable`, `ReadFrame`,
and for each kind of message `RejectMessage`, `AnswerMessage`, the registration
`RegisterDevice`, `BindSocket`, `AnnounceDevice`, or the forward `ForwardTo`,
`SnapshotBinding`, `CheckStatus` / `CompareConnection`, `SendForward`. The
`finally` block is `FindRecord`, `UnbindSocket`, `MarkOffline`,
`EmitDisconnected`, `CloseSocket`, `RemoveSession`. `stop()` runs beside them:
`StopRequested`, `StopListSessions`, `StopRemoveSession`, `StopServer`,
the two sections of `mark_all_offline` for each device, the bindings.

Faithful points that matter: `stop()` sets `_reserved` to 0 under running TLS
handshakes, and `release_reservation` has a floor; `mark_all_offline` marks a
record and clears its connection in two lock sections; a forward reads the
binding under one lock, the record without one, and writes to the socket under a
third; a close compares connection ids under the registry's lock.
`_wait_readable` polls at most every second and sees the stop event and the
lease; `_recv_exact` (the rest of a frame) sees the lease and the idle timeout
only.

Two merges: `CompareConnection` reads `record.connection_id` once where the code
reads it twice in a row, and the tests at the top of the loop are part of the
step before them (`LoopTop`).

Left out: the plaintext loop for hosts without TLS; the client half;
`deliver_to_device`; restarting a transport object (the application makes a new
one for each start); message contents, with every check of them folded into the
choice between `RejectMessage` and the handled kinds; a reply that fails to be
written, which ends as any other exception in a handler does.

**Abstract specification.** `DevicePresence`: a device is represented by at most
one connection at a time; a connection comes to represent a device nobody else
represents, and gives it up for good. `PresenceRefined` is that specification
with `holder <- cid`, `used <- held`. It is claimed until `stop()` is called,
because `mark_all_offline` does not keep it (section 14).

**Events.** Both events are emitted after the locks have been released, and
`_cleanup_device_binding` may emit the DISCONNECTED of an old connection after
the CONNECTED of the next: a device may be connected although the last event about
it says that it is not. So `EventsTellConnection` (part of `PresenceTrue`) says what
the events can be relied on for: each names its connection, a CONNECTED one that
has not been cleaned up, a DISCONNECTED one that record and binding no longer
name; and while a connection represents a device, the last event is its own
CONNECTED or another's late DISCONNECTED. The application's handlers go by the
device only (hazard at `app.py:2168`).

## 4. Agent placement (`AgentPlacement`)

State: the scheduler's four tables (`profiles`, `counted`/`count`,
`assigned`/`under`, `agents`), the resource registry as far as it concerns them
(`known`, `published`), and for each caller where it is and its locals. Callers
are the portal's threads, the transport's threads and the event handlers.

An assignment is `AssignRequested`, `CheckOverride` (an override releases the
old assignment first), `FindAgent` / `NoSuitableAgent` (the search, outside the
lock that commits), `ReuseAssignment` / `CommitAssignment` (the section that
commits), `PublishAgent`. A release is `ReleaseRequested`, `NothingToRelease` /
`ReleaseAssignment`, `UnpublishAgent`. Device events, the removal of devices,
the direct removal of agents' resources, registration and removal of profiles
and the shutdown's two clears are actions too. Nothing in `src/` but its tests
registers or unregisters a profile after the scheduler's construction
(`scheduler.py:100-115`); the two methods are modelled as what anybody with the
scheduler may call. Re-registering a profile sets its count to 0 with devices
placed on it (`scheduler.py:105`). The ghost `forgotten` is how many those were:
`CountsMatch` and `OvercommitBounded` are about the devices placed on a profile
and say how far the counter may lag behind them, and the devices exceed the
maximum. The ghost `withdrawn` are live agents whose own resource somebody
removed, which `AgentPublished` excepts.

Abstractions: the score of a device under a profile is a constant function
(`Score`), with the tie-break by profile id folded in; agent ids are fresh
(`FreshAgents`), collisions of UUIDs are neglected; the copy of the agent's id
in the device's metadata is left out. The hint of an automatic assignment is
always none: a configuration in which `agent.auto_assign` is `true` cannot hold
`agent.auto_assign.profile_id` (the branch at `app.py:2121` is dead).

## 5. The runtime (`Runtime`, `StartOrder`)

State: the runtime's own (see the comments on the variables), `call`/`plan`/
`current`/`left` for where the driving thread is, and two ghost variables:
`live`, the components that hold what their initializer acquired, and `half`,
those of them whose initializer was interrupted after it took effect.

One thread drives a runtime: `run_application` (or the web server's main)
calls `start()`, sleeps and calls `stop()` in a `finally`. Initializers return,
raise or are interrupted; handlers return or raise. `KeyboardInterrupt` is not an
`Exception`, so `Interrupted` leaves `start()` without roll-back, in state
`initializing`, and the `stop()` that follows finds the list of those
initialized so far. A second Ctrl+C during that `stop()` is not modelled, nor an
initializer that never returns. `STARTING` is set and replaced within one
step and not told apart from `INITIALIZING`; the stored error is left out. An initializer
that raises is taken to have released what it had acquired: the runtime never
learns what it was, and `live` is about what the runtime answers for.

`StartOrders` is the set of topological orders of the enabled components, and the
`start()` of `Runtime` takes one of them. `StartOrder` has the search itself, as
steps: an action is one turn of a loop, over the components (`VisitComponent`) or
over the dependencies of one (`VisitDependency`), with the call of `visit()` that
it makes, or the return of `visit()` (`VisitEnds`). `visits` is the stack of calls,
each with what is left of its loop. The code goes by registration and by name; the
model takes what is left in any order, so what is shown does not depend on either.
`SearchFindsOrder` is what `Runtime` takes for granted: the search ends with a
member of `StartOrders`, or raises if there is none. That it ends is part of
`CallsReturn` (`MCRuntime`).

`ApplyPolicy` is the application's `_apply_component_policy`. The code iterates
until nothing changes, which ends with the least set that has the requested
components and all that depend on one of its own (`Closed`, `DisabledBy`).

Observation: `Runtime.start()` accepts the state `FAILED`, but `app.start()`
applies the policy first, and `set_enabled` refuses unless `STOPPED`; so only a
caller of `Runtime` itself can retry a failed start without a `stop()`.

## 6. The dependency manager (`DependencyManager`)

The graph of services and its search, which differs from the runtime's: it
starts at one component, leaves it out of the result, and the loop that called
`visit()` lists the dependency. Its steps are `VisitNeeded`, one turn of the loop,
and `Leave`, the return of `visit()` and the listing that follows; `descent` is the
stack. `OrderIsRight` compares the result with the transitive closure (`AllNeeds`,
the least set that has the needs of its members), in any graph that `register`,
`set_dependencies`, `unregister` and `clear` lead to. Two modules and not one,
because the code has two searches.

## 7. Web jobs (`HostJobs`)

State: the table of jobs, and of each job its owner, kind, status, `cancel`
event, process and lock, with `run` for where its thread is. `stop()` holds the
job's lock while it waits for the process, so it is two actions (`Stops`,
`StopEnds`); its callers are requests (`StopRequested`), the timer
(`TimerFires`) and `close()` (`CloseStops`). `start()` and `close()` read
statuses without the jobs' locks, as in the code.

Abstractions: SIGKILL (or `taskkill`) ends the process before `stop()` goes on;
an exception in the thread is one of `Popen` (the `except` at `services.py:164`
would also catch one of `Timer.start` or of reading the output, after the launch,
and leave a process alive in a failed job); the jobs dropped from a full table
are any inactive ones (the code drops the oldest of them).

Observation: `stop()` of a job that has completed makes its status `cancelled`
(`services.py:194`). No document says otherwise, and no property forbids it.

## 8. The application's life cycle (`AppLifecycle`)

State: which call drives the application and how far it is (`phase`,
`restarting`, `up`, `taken`); what the configuration disables; which subsystems
are active and what is attached to them (`attached`: event consumers, routes,
health checks, the listening server, the portal); the kind of transport, whether
it shares the device registry, and its endpoints; the services registered and
started; the adapter and what it holds; the identities, the known devices.

`Runtime` has the lifecycle for any graph and callback. Here are the thirteen
components as `_register_runtime_components` lists them, whose order is already
an order of their dependencies, so that the set `up` of those that have been
initialized tells which is next (`NextUp`) and which is taken down first
(`LastUp`); with what each initializer and shutdown handler does to the state: `Initialize`,
`ShutdownServices` and its neighbours. The initializers and handlers run one
after the other; which can raise, and when, is `InitializerRaises`.

`Load` is `_load_configuration`: transport, security, R.E.S.C.S. and component
policies in the order of the code, then the restoration of devices. The component
policy disables the least set with the requested components that is closed under
dependence (`DisabledBy`). A configuration says which components it disables, whether it wants TCP, and
whether it wants the file adapter; each `start()` may find a different one.
`LoadRaises` and `LoadRefused` are the ways it fails: before anything, or with the
components deactivated and the transport replaced or not (without a path the
security policy comes first, and TCP is refused on `0.0.0.0` before there is a
new transport). `provision_device` loads a configuration if
none is loaded. `ProcessEnds` replaces the process at any moment; only `file`
survives.

Ghost variables: `taken`, what the last shutdown has taken down, and `lapsed`,
whether this process has ever had security inactive.

Left out: the scheduler and the resources (section 4), the history, the texts.
The service registrations of `_register_service_capabilities` are one step that
needs every service to be registered, as each registration of a handler does.

`Serving` and `Silent` are what a restarted application owes: everything that is
enabled runs and is reachable, on whatever transport it has now; and after a
failed start or a stop there is no server, no portal and no service.

## 9. Health and events (`HealthEvents`)

A check is four sections with the check itself and the announcement between them
(`CheckCalled`, `Count`, `CheckReturns` or `CheckRaises`, `Store`), and an
announcement is `Publish` and a `CallHandler` for each subscriber of the moment.
Any number of threads run checks; subscriptions, registrations and both active
flags change at any time.

`ViewCurrent` relates the two components: what a subscriber heard last is what
the monitor says. Two threads that check one component at a time may announce
their results in the opposite order, and a stopped bus tells nobody; the ghost
`muddled` keeps the components this has happened to out of the claim. `owed` are
the subscribers a publication must still reach (`EventDelivered`).

## 10. Services and messages (`ServiceManager`, `MessageSpine`)

`ServiceManager`: `start()` and `stop()` call themselves, so a call is an
`agenda`, and one item is done at a time. The lifecycle is one thread's; requests
execute operations on others, and a handler that raises fails its service at any
point of a start or stop. `Orders` is the search of `_dependency_order`: the
closure of what a service needs, in any order that puts needs first.
`DependenciesRunning` excepts what a handler has failed: the code does not stop
its dependents.

`MessageSpine` carries requests through the lock sections of five components:
`Arrives`, `RouterRuns`, `GetRoute`, `Send`, `ToRequest`, `EnforcementActive`,
`Required`, `Authenticate`, `Authorize`, `Execute` or `ExecuteRefused`,
`OperationReturns` or `OperationRaises`, `Announce`, `Publish`. Between any two of
them the router, the transport, the bus, the policy and the security manager may
be started, stopped and changed, and the provider may be any of three:
existence, tokens, or tokens where there are some (`allow_insecure_fallback`). A
request's operation may be one whose payload clashes with a parameter of
`execute()`: that call raises before the operation. `since` remembers what has been so at some time
since the request arrived.

`OnlyAllowedExecute` is what two separate look-ups can promise: a right
credential and a permission, each at some time since the request arrived, but
perhaps of two successive identities of one name. `OutcomeReported` has two
exceptions that are the code's: a bus stopped between `_emit_service_event`'s two
looks at it, and an operation named by blanks, for which the policy raises.

## 11. Records (`RescsStore`, `RescsRemote`, `Organization`, `RecordPages`)

`RescsStore`: inodes, the file's and the temporary file's path, a handle of each
process that writes. `OpenTemp` truncates, `WriteTemp` writes, `Replace` renames;
each may fail (`SaveFails`, with memory already changed), and a process may be
killed between any two (`Gone`). `Change` is one operation on the memory. Any
number of processes have the file open at once, as the host and the
`provision-device` command may.

Starting is `Load` or `StartAnew`. Reading back is not lossless: `Hydrated` drops
the records nothing can be made of (`Unreadable`), and gives those before the first
with a `last_seen` a new `registered_at` (`Restamped`), as the name `datetime` is
bound there (`adapter.py:252`, `:257`). A read that fails for any reason starts the
adapter empty, with the file renamed or, if that fails too, still in place for the
next save to replace.

What all this leaves of "never silently lose data" is `SavedSurvives`: what was
saved survives failing saves and kills, and is undone by four things only, which
its comment names and the ghost `disturbed` records. `stale` are the keys a process
does not know the file's value of, and `tangled` the processes whose saves overlap.
`DurableTable` is the abstract specification: a table that is changed, committed
whole, and recovered as far as it can be read; `TableRefined` maps the file to its
durable part, for all steps but those of overlapping saves.

`RescsRemote`: a call that fails may have reached the store, or may reach it
later (`late`), after others; the adapter's copy takes every write, and answers
when the store does not. `unsure` are the keys for which nothing can be
promised: a write failed, or somebody else changed the store.

`Organization`: a call is an agenda of steps on the registry and on the index.
Between them other threads ingest, reconcile, mirror devices and remove. A step
may fail, ending the call unless the code catches it (`quiet`). `doubtful` are
ids two calls have worked on at a time, and ids with a name that is blank: the
registry takes it and the index does not. `target` is what a reconciliation
should end with, forgotten as soon as another thread changes the registry.
`ReconcileExact` demands nothing of a resource whose record is invalid: that is
`InvalidKept`, which fails (section 14).

`RecordPages`: the sorts and the slices of `normalize.py`. A device asks for one
page after the other (`AskPage`), of any size, and the store lists the same records
in another order in between (`Relist`). `list.sort` is what Python promises of it:
sorted by the key, with elements of equal keys in the order they had
(`StableSort`); so the two sorts of the code are two sorts here.

## 12. Data requests (`DataOrganizer`)

One thread for each session; `Arrives`, `Invalid`, `Authorize`, `Destination`,
`Retrieve` and its failures, `TooLarge`, `Package`, `Deliver` or `NotDelivered`.
Permissions, devices, records and the store's reach change in between. Records and
files are told apart by their owner; `admitted` remembers whose data the sender was
allowed to see when it was authorized. The counters are kept, as `AnsweredOnce`
relates them to the answers: a success is counted before it is delivered.

There are two readers (`overHttp`). `AdapterDataReader` compares the owner of each
record and has no files (`Matching`). `HttpDataReader` puts the owner into the query
for records and looks at none in the answer, and asks for files by their id alone;
what a store makes of the query is not in `src/`, so `Results` takes any records it
holds. `OwnerScoped` therefore says of an answer over HTTP only in whose name it
was asked for, and of one from an adapter whose the records are. Files are the
subject of `FileOwnerChecked`, which fails (section 14).

## 13. The runs

The passing runs take TLC up to three minutes on two workers.
`CHECK_DEADLOCK` is off where a system may come to rest: a host that has closed
(`application`), requests that have all been answered (`spine`, `records`). The
transport's model has an explicit `AllServed` stutter that is enabled only when
every connection is finished, and `MCRuntime` one for a host that is closed, so
that `transport_sessions`, `transport_ends` and `runtime` would find a deadlock
elsewhere.

| run | instance | distinct states | checks |
|---|---|---|---|
| `transport_sessions` | 3 connections, 2 devices, 2 slots, stop while 2 have come | 1.01 M | slots, bindings, deliveries, events, stale closes, refinement of `DevicePresence` |
| `transport_ends` | 2 connections, 1 device, 1 slot, stop, fair | 58 k | leases end connections, stop drains |
| `placement` | 2 callers; 2 devices on 2 profiles of 1 place, with events, removals, shutdown; 3 devices on 1 place whose profile comes and goes | 443 k | counts, published agents, the tables and the bound on overcommitment, no replacement |
| `runtime` | 2 components under all operations, 3 in every acyclic graph, fair; every graph of 3 for the searches, fair; 2 jobs, fair | 170 k | what is up, one shutdown each, policy, both searches, calls and searches end; tasks end, close returns |
| `application` | 13 components, 5 policies, both transports and adapters, 1 device; 2 threads, 2 subscribers; 3 jobs, 2 users, 2 active, table of 2 | 786 k | serving, silence, credentials, restarts; delivery, current views; jobs |
| `spine` | 3 services in every graph with 1 request; 1 request through every configuration | 3.38 M | dependencies, refused starts, allowed execution, outcomes |
| `records` | 2 processes on one file, 2 inodes, 2 changes; 2 keys remote; 2 threads on 2 resources (1 thread without a fallback); 3 records of 2 stamps in pages of 1 and 2; 1 request of 2 devices, 2 records, 1 file, both readers | 511 k | sections 11 and 12 |
| `transport_shutdown`, `placement_atomic`, `restart_credentials`, `records_invalid`, `files_owner` | the same or smaller | | violated: section 14 |

**Bounds.** The transport's conflicts are between two connections of one device,
or two for one slot, or a third arriving while two are in some state; three
connections and two slots have all of these. Placement's are between two callers
for one place; a third device is needed for an overcommitment to be visible
after one was assigned. Three components are the least with a shared dependency
and a chain. Two jobs race for one place, and a third pushes one out of the
table. The life cycle of the application has no bound but its configurations: any
number of starts, stops and processes. Two threads make checks of one component
overlap, and two subscribers come and go under a delivery. Three services are a
chain or a fork; one request meets every change of the rest, and requests share
nothing but the services, whose failures the first use has. One inode is the
file and one the temporary file; two changes (`MaxChanges`) are one of each process
or one after the other. `StopsWithTwo` has `transport_sessions` stop only while
at most two connections have come: a third one is about slots and hand-overs,
which a `stop()` ends. Two threads disturb each other on the same resource, or on two.
`MCMessageSpine`, `MCRecords` and `MCApplication` let something change only before
the place where it is read (`Meanwhile`): a change at another time leads to the
same states as another configuration at the start, or as the same change later. The `MAX_CONNECTIONS` of 64, the 5 active jobs
and the 100 listed ones are constants of the models. For what is proved (section
15) the bounds do not matter at all.

**Symmetry** is declared where connections, devices, callers, agents, components
or jobs are interchangeable, in runs without liveness properties only.

**Fairness.** `DeviceTransport!FairSpec`: a handler thread that is not waiting
for its peer goes on (no lock is held across a wait for a peer in the TLS
server), `_wait_readable` returns every second, `recv` on a TLS socket at least
every five (the accept loop leaves its timeout of 5 s on TLS sockets), and the
thread in `stop()` goes on. Nothing is assumed of peers, not even that they send
or close. `StopDrains` therefore excepts threads that wait for the rest of a
frame. On a plaintext hardened socket there is no timeout, and a peer that sends
half a frame keeps its thread; `LeaseEnforced` is claimed for TLS only.
`MCRuntime!MCSpec`: callbacks return or raise in the end, and the thread that
calls or searches goes on. `HostJobs!Fairness`: the thread of each job and the
thread in `close()` go on, the timer fires, a killed process dies; that a
process ends by itself is not assumed.

The properties are stated, each with the behaviour it is about, at the end of
each module; `PROJECT.json` ("hazards") says which hazard of the code each is
for.

## 14. The disagreements found

1. **Shutdown may leave a device online** (`transport_shutdown`,
   `ShutdownMarksOffline`). `mark_all_offline` (`devices.py:521-529`) takes its
   lock once to mark a record and once more to clear its connection; a
   registration whose thread still runs may come between the two or after them.
   `docs/device-communication.md:155-156` says shutdown marks the device offline
   and clears its connection.
2. **The capacity check is not atomic** (`placement_atomic`, `WithinCapacity`).
   `assign` searches for a place (`scheduler.py:204`) before it takes the lock
   (`:208`) and does not look again.
   `tests/test_audit_regressions.py:147` expects one of several concurrent
   assignments to succeed. `OvercommitBounded` says how far it can go.
3. **A restart in one process loses the devices' identities**
   (`restart_credentials`, `RestartAuthenticates`). `start()` restores the stored
   devices (`app.py:849`) before the runtime starts the security component. In the
   first run the security manager is active from its construction; in one that
   follows a `stop()`, as in `restart()`, it is not, its identities have been cleared, and the refusal of
   `register_identity` is swallowed (`app.py:907`).
   `docs/device-communication.md:221-228` says that a restart preserves the
   registered identity. A new process does, which is `CredentialsRestored`.
4. **A reconciliation removes the resources of invalid records** (`records_invalid`,
   `InvalidKept`). `reconcile()` leaves them out of what the store has
   (`ingestion.py:293-308`) and unregisters what is not there (`:334-340`). Its
   docstring (`:272-273`) says that invalid items "never cause deletion", and
   `tests/test_audit_regressions.py:259` expects the resource to stay.
5. **Nobody checks the owner of a file** (`files_owner`, `FileOwnerChecked`).
   The HTTP reader returns a file's metadata and contents by its id
   (`rescs_reader.py:325-346`). `docs/audit-notes.md:8` says that missing or foreign
   ownership fails closed, and `tests/test_audit_regressions.py:86` expects
   `DataAccessDenied`.

Seen while modelling, and not claimed by a run:

- A full profile refuses the device that fills it: the search for a place
  (`scheduler.py:204`) comes before the test for the device's own assignment
  (`:210`). `tests/test_audit_regressions.py:129` expects the same assignment back.
- The owner of a record is only a parameter of the HTTP reader's query
  (`rescs_reader.py:267-323`): whatever the store answers is passed on.
- "Never silently lose data" (`adapter.py:192`): the file is renamed after any
  failure to read it, one that would pass included; if the rename fails, nothing
  says so and the next save replaces the file; and items that raise are dropped, to
  be gone after the next save.
- `registered_at` is not restored before the first resource with a `last_seen`
  (`adapter.py:251-257`); `tests/test_audit_regressions.py:197-202` expects it to be.
- `docs/lan-readiness.md:139-140` says that running `provision-device` again rotates
  the stored token. A host that has the file open saves the records it read when it
  started over it. Two saves at once share one temporary file. (`SavedSurvives` names
  both.)
- The DISCONNECTED of an old connection may be emitted after the CONNECTED of the
  next (section 3).
- `register_profile` sets the count of a profile to 0 with devices placed on it
  (`scheduler.py:105`; section 4).
- An injected device registry that is empty is not used (`tcp.py:193` tests its
  truth, and it has a `__len__`): until a device is stored, the application and
  the transport have different registries. `AppLifecycle` has this as `shared`.
- A handler that raises makes its service failed for every later request
  (`services/manager.py:256`); `tests/test_audit_regressions.py:270-279` expects
  otherwise.
- `ResourceRegistry.update` cannot clear an owner (`registry.py:82`);
  `tests/test_audit_regressions.py:170-175` expects that it can. It is why
  `ReconcileExact` makes an exception for owners.
- A reply to a device is written without the lock that forwards to the same
  socket take (`tcp.py:1949`); see the hazards.
- The first `start()` after a `stop()` fails in the services' initializer, as
  nothing has registered them anew; `restart()` does. A `restart()` that fails
  while loading the configuration cannot be repeated: the services are
  registered already.
- `SYSTEM_STOPPED` is never announced when the core component is disabled: `stop()`
  looks at the bus after the runtime has shut it down.

## 15. The proofs

`tlapm` checks eight modules of proofs to the last leaf; the theorems are listed
in `PROJECT.json`. They hold for any connections, callers, components, jobs,
services, requests, keys, records, pages and threads, and any limits. What they assume
of these is named: the `ASSUME`s of the modules, and `HealthConstants`,
`HostConstants`, `RemoteConstants`, `OrganizationConstants`, `DataConstants` and
`PagesConstants`, which the theorems about these modules take as a hypothesis
(the MC modules assume them, so that TLC evaluates them). They say that
None values are none of the others, that sets that are counted are finite, that
limits are positive and that the sets that a step chooses from are not empty.

In each case the property is not inductive. The strengthening was checked as an
invariant of the run's instance by TLC before it was proved.

**Transport.** `Inv == TypeInv /\ IdentityInv /\ CountInv /\ RunInv` is
inductive (`Invariance`). None of the safety properties is by itself:

- `TypeInv` adds to the types that a thread in a registration, a forward or a
  cleanup has a device in its local (`LocalsOK`).
- `IdentityInv` carries `BindingIdentity` and `DeliverySafe`: a session before
  its handshake has no identity; a thread that registers or cleans up does so
  for its own; a socket read before a forward was authenticated as the
  destination, which stays true as identities never change.
- `CountInv` carries `AdmissionCap`, `SlotAccounting` and `CountedOnce`:
  reservations and sessions count the threads at the places that own one, until
  `stop()`, after which only the inequality is left, and it is kept since
  reservations only shrink.
- `RunInv` carries `NoGhostDevice`, `ReachableWhenOnline` and
  `EventsTellConnection`, while no `stop()` has been called: who is named by a
  record, by a binding and by the last event at each place of the cleanup.

From it follow the invariants, the action properties `ReservationHonoured` and
`StaleCloseSafe`, and `PresenceRefinedHolds`: a step of the transport is one of
`DevicePresence` or leaves it alone, until `stop()` is called.

**Placement.** `TypeOK` (with the callers' locals) and `AgentsMatch` are
inductive; `NeverReplaced` follows from the second. `AgentPublished` needs
`Withdrawn` (an agent whose resource a caller is about to withdraw is no longer
the scheduler's). `CountsMatch` needs that a profile
without a count counts nothing (`CountInv`); a release that finds its profile registered anew is why the counter
is bounded from both sides and not equal. `OvercommitBounded` combines it with
`CapacityInv`: the count of a profile and the callers about to commit to it exceed
the maximum by less than the number of callers. None of them assumes anything of
who calls what.

**Runtime.** `IInv` is inductive (`Invariance`). `DependenciesUp` says nothing of
the list, which is what the code goes by, so the invariant relates the two:

- `ListInv`: the list names each component once, after its dependencies. That an
  initializer appends a component of which this is true needs `PlanInv`: the
  list, the component being initialized and the plan are, in this order, one of
  `StartOrders` (`OrderFacts`: it has every enabled component exactly once).
- `UpInv`: what is up is the beginning of the list, up to `left` in a shutdown;
  so dependencies, which come earlier, are up as well, a handler is called only
  for what is up, and nothing is left when the list has been gone through.
- `CallInv` ties the locals and `_state` to the place of the thread. `ShownInv`
  says of the component states what `StatesAgree` leaves out: those of a start
  that is under way, and that what is shown running is up.

`PolicyStartable` is about the policy and not about steps. What is left enabled has
none of its dependencies disabled (`DisabledClosed`), so it is to be shown that any
such part of a graph that has a start order has one (`PartHasOrder`). As no
induction schema can be used, the proof is by the least counterexample
(`LeastNatural`): of the first `n` components of an order of the whole, those of the
part have an order (`OrderOf`), and the next one is appended or left out
(`AppendToOrder`).

**The searches** (`SearchFindsOrder`, `OrderIsRight`). No induction over the depth of
the recursion is needed, since the stack is part of the state. `ListedInv`: what
has been visited is what has been listed, each once and after what it depends on.
`VisitInv`: the calls on the stack are a path in the graph, of different components,
and what a call has taken from its loop has been visited, or is the next call
(`Path`). When nothing is left, all that is enabled is listed, so the list is a
member of `StartOrders`. When the search raises, it has come from the last call back
to one on the path, which with those after it is a circle (`CircleFound`), or to
what is disabled or not registered. Then there is no order: the first of a circle
to come in an order would have to come after another of them (`NoCircle`, by
`LeastNatural`). The search of `DependencyManager` has the same shape, with
reachability in the place of enabling: on its stack each call needs all those after
it (`Route`), and what has been listed is complete, so nothing listed needs itself
(`ListedIsRight`). It also shows the converse: whenever it finds an order, nothing
needed is missing or in a circle.

The run of each module checks a conjunction where the parts belong together:
`SlotsKept`, `BoundRight`, `PresenceTrue`, `TablesKept` and `UpAsShown` are the
conjunctions of the invariants named above, and their theorems combine those of
the parts.

**The file store** (`SavedSurvives`, `TableRefined`), for any processes with the
file open at once, inodes, keys and values. `SaveInv` says of a process that is not
tangled up with another that the temporary file it writes to is empty and never
the file itself, and then holds its memory; and that any two which save at once are
`tangled`. `KnownInv`: a process knows the last saved value of each key but those it
has changed, those that are `stale` for it, and the `disturbed` ones. So what a
`Replace` puts in the place of the file is the last saved value of every key, or the
key has been recorded (`SavedInv`). A kill leaves a temporary file with anything in
it, which is truncated before the next save uses it. `TableRefinedHolds` maps
`Replace` to a commit, `Load` to a recovery, `StartAnew` to a start with nothing,
`Gone` to an end, and the other steps to a change or a stutter.

**Jobs** (`JobsBounded`, `StopTakesEffect`, `CloseStopsAll`). A process lives
unlocked: between a launch and the lock, between a timer and the kill. `ThreadInv`
says what the thread of a job may be doing for each status and lock, `ActiveInv`
that the processes alive are those of jobs the table counts as active, so that
the limits, which the code checks on the table, bound them; `CloseInv` that every
job that `close()` has passed is cancelled or over, whichever were added since.

**Services** (`DependenciesRunning`, `StartRefusedWhole`). `AgendaInv` is about
the calls `start()` and `stop()` still have to make: what brings services up comes
after what takes them down (`AgendaShape`); a service is brought up after what it
needs (`AgendaUp`), and taken down after what needs it (`AgendaDown`), or its
dependency has failed; and what a call starts on its way can be started
(`AgendaStarts`), which is why only a call from outside is refused. The proofs
rest on lemmas about the agenda, a sequence whose first item is replaced by
others (`AgendaCalls`, `AheadAfterCalls`).

**Messages** (`OnlyAllowedExecute`, `OutcomeReported`). `SpineImplementsServices`
shows that the spine, with everything that changes around it, takes only steps of
the service manager, so that both theorems above are theorems of the spine
(`SpineDependenciesRunning`). `Cleared` says what has been so since a request
arrived at each place on its way, and `NotHandledYet` that none has been handled
before it reaches the endpoint. `HandlingLeads` reduces the fifteen steps of a
request to one description of what any of them does (`HandlingGoes`).

**Application** (`Serving`, `Silent`, `CredentialsRestored`, `RestartRegisters`).
`UpInv` says for each component what its being up has attached, and that nothing
but it is attached otherwise; `ServicesInv` ties the registered services to the
phase and to what has been taken down. It had to be strengthened in the proof: in
a start nothing has been taken down by the same call. `CredentialsInv` says of
devices in the table that they have identities, from the moment the configuration
is loaded, unless security has been seen inactive.

**Health** (`EventDelivered`, `ViewCurrent`). `OneCheck`: two threads check one
component only if it is `muddled`. `AnnouncedIsStored`: what is announced is the
result, unless that has been reset. `ToldOrToBe`: a subscriber has been told the
result, or a thread is on its way to tell it.

**Remote records** (`ReadYourWrites`). `CopiesAgree`: both copies of a key that is
not `unsure` are what was acknowledged, and no late request is for it.

**Index** (`IndexAgrees`). `IndexInv` is about every agenda: an insertion is
followed by the entry of what it inserts, an entry is removed at once, and between
the moment an entry is planned and the moment it is made nobody changes the type
(`Ordered`, `Typed`), or the key is `doubtful`. `Settled` has the property for
each key but for those that the next step of a thread settles. A step replaces the
first item of an agenda by the items it plans (`ProceedsStep`), or ends the call
(`FailsStep`); with one lemma for each kind of step.

**Reconciliation** (`ReconcileExact`). `ReconcileInv`: while nobody else has
changed the registry, the agenda has only steps that write the given records
(`Planned`), and each key has been reconciled or will be (`Reached`). That the
plan of `reconcile()` has a step for each key is `ReconcilePlan`, for any order of
the keys; a step does its part for its own key and leaves the others'
(`ActsFollow`, `FailsFollow`).

**Data requests** (`OwnerScoped`, `AnsweredOnce`). `Proper` says of each request,
at each place of its way, what has been found and who has been admitted; `Counted`
that the counters are those of the requests under way, whose number is finite
although that of the requests need not be.

**Pages** (`PagesComplete`). `PagesInv`: what has been received is the beginning of
the ordered listing, up to the offset. That a finite set with a strict total order
can be put in sequence (`OrderExists`) is shown without induction: the place of an
element is the number of those before it, which is different for each, so each
place has an element. From it follow the facts about the two sorts (`SortFacts`,
`SortedById`, `SortedByAge`) and that `OrderRecords` lists all records, each before
those it should come before (`OrderedRecords`). Another listing of the same records
has the same order, as two orders would differ first at some place (`OneOrder`), so
`Relist` changes nothing of what the next page continues.

**Only model-checked**: the liveness properties (`LeaseEnforced`, `StopDrains`,
`CallsReturn`, `TasksEnd`, `CloseEnds`), as TLAPS has no rule for fairness; and the
five violations.

## 16. What is not modelled

`PROJECT.json` ("components") lists every part with its status, and for those
that are modelled in part what is left. Not modelled at all, because they keep no
state that two steps could get wrong: message envelopes and their codec, the
ranking of the capability router, the runtime history, the accounts, gateway and
storage client of the web portal (each request is one transaction), monitoring,
logging and errors. Not modelled although they have hazards: sends split into
pieces and blocked sends (`tcp.py:1949`, `:1821`), and the transport's events
composed with the application's handlers (`app.py:2168`), as their product with
the transport's states is beyond the time of a run.

## 17. The plan

Every safety property of the passing runs is now a theorem. What is left, in this
order: a module of the frame writer (`tcp.py:1949`, `:1821`), and one of the
transport's events with the placement's handlers over `DevicePresence` in the place
of the transport, with the theorems of both; the configuration validator and the
host portal's ring of events, if a property worth its run is found there.
