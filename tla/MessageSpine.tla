---------------------------- MODULE MessageSpine ----------------------------
(***************************************************************************)
(* The way of a service request through the host: Router.route             *)
(* (core/routing/router.py), the send of a transport                       *)
(* (core/communication/transport.py and tcp.py), ServiceDispatcher         *)
(* (core/services/dispatch.py), SecurityPolicy and SecurityManager         *)
(* (core/security), ServiceManager.execute and the event bus               *)
(* (core/events/bus.py). Every part has a lock of its own and every        *)
(* section under one is a step, so anything may be stopped, replaced or    *)
(* removed while a request is between two of them.                         *)
(*                                                                         *)
(* A service has one operation and there is one permission. The counters   *)
(* and the text of the answers are left out, as are the events that nobody *)
(* waits for (MESSAGE_SENT, those of SecurityManager), whose failures are  *)
(* swallowed where they are emitted.                                       *)
(***************************************************************************)
EXTENDS ServiceManager

CONSTANTS Identities, Tokens, NoIdentity, NoToken

ASSUME IdentitiesAssumption == NoIdentity \notin Identities /\ NoToken \notin Tokens

VARIABLES
  active,      \* the parts that run: their _active flags
  routes,      \* services with an entry in Router._routes
  endpoints,   \* services with an entry in the transport's _handlers
  enforced,    \* SecurityPolicy._enforced
  guarded,     \* services whose operation is in SecurityPolicy._requirements
  identities,  \* SecurityManager._identities
  provider,    \* what SecurityManager._provider asks for
  request,     \* for each request, the message,
  at,          \* where its thread is,
  result,      \* what has come of it,
  told,        \* whether an event said so to the subscribers,
  since        \* and what has been the case at some time since it arrived

configVars == <<active, routes, endpoints, enforced, guarded, identities, provider>>
requestVars == <<request, at, result, told>>
vars == <<serviceVars, configVars, requestVars, since>>

Parts == {"routing", "communication", "events", "security"}

Absent == [known |-> FALSE, token |-> NoToken, permitted |-> FALSE]

Identity == {Absent} \cup [known : {TRUE}, token : Tokens \cup {NoToken},
                           permitted : BOOLEAN]

\* operation: "named", "missing" (no string, or no payload), or only "blanks"; or it
\* is named and its arguments have names of execute()'s own parameters.
Message == [service : Services, identity : Identities \cup {NoIdentity},
            credential : Tokens \cup {NoToken},
            operation : {"named", "missing", "blanks", "clashing"}]

Places == {"router", "route", "send", "handle", "enforcement", "required",
           "authenticate", "authorize", "dispatch", "execute", "announce",
           "publish", "answered", "raised"}

Ended(r) == at[r] \in {"answered", "raised"}

\* ExistenceAuthenticationProvider, and TokenAuthenticationProvider without and with
\* allow_insecure_fallback.
Providers == {"existence", "tokens", "tokens or existence"}

\* authenticate() of the provider: without a token of its own an identity is
\* refused, unless its existence is all that is asked for then.
Authentic(identity, credential) ==
  CASE provider = "existence" -> TRUE
    [] identity.token # NoToken -> credential = identity.token
    [] OTHER -> provider = "tokens or existence"

-----------------------------------------------------------------------------
(* Router.route and send.                                                  *)

Go(r, place) ==
  /\ at' = [at EXCEPT ![r] = place]
  /\ UNCHANGED <<request, told, configVars>>

\* One step of the thread: on if the condition holds, or else to another place.
Step(r, from, condition, to, otherwise) ==
  /\ at[r] = from
  /\ Go(r, IF condition THEN to ELSE otherwise)
  /\ UNCHANGED <<result, serviceVars>>

\* The step after which the outcome is certain, and to be announced.
Conclude(r, outcome) ==
  /\ result' = [result EXCEPT ![r] = outcome]
  /\ Go(r, "announce")

\* A message of the application comes by the router, one of a peer does not.
Arrives(r, message, place) ==
  /\ Ended(r)
  /\ request' = [request EXCEPT ![r] = message]
  /\ at' = [at EXCEPT ![r] = place]
  /\ result' = [result EXCEPT ![r] = "none"]
  /\ told' = [told EXCEPT ![r] = FALSE]
  /\ UNCHANGED <<serviceVars, configVars>>

RouterRuns(r) == Step(r, "router", "routing" \in active, "route", "raised")

GetRoute(r) == Step(r, "route", request[r].service \in routes, "send", "raised")

\* Active and endpoint are looked at in one section.
Send(r) ==
  Step(r, "send", "communication" \in active /\ request[r].service \in endpoints,
       "handle", "raised")

-----------------------------------------------------------------------------
(* ServiceDispatcher.handle and _enforce.                                  *)

\* A request that names no operation is answered with an error.
ToRequest(r) ==
  /\ at[r] = "handle"
  /\ IF request[r].operation = "missing"
       THEN Go(r, "answered") /\ result' = [result EXCEPT ![r] = "invalid"]
       ELSE Go(r, "enforcement") /\ UNCHANGED result
  /\ UNCHANGED serviceVars

EnforcementActive(r) == Step(r, "enforcement", enforced, "required", "dispatch")

\* SecurityPolicy.required raises for a name of blanks, which to_request took.
Required(r) ==
  /\ at[r] = "required"
  /\ Go(r, IF request[r].operation = "blanks" THEN "raised"
           ELSE IF request[r].service \in guarded THEN "authenticate" ELSE "dispatch")
  /\ UNCHANGED <<result, serviceVars>>

Known(r) ==
  /\ request[r].identity # NoIdentity /\ "security" \in active
  /\ identities[request[r].identity].known

Denied(r) == Conclude(r, "denied") /\ UNCHANGED serviceVars

\* The identity is found in one section, and verified as it was then.
Authenticate(r) ==
  /\ at[r] = "authenticate"
  /\ IF Known(r) /\ Authentic(identities[request[r].identity], request[r].credential)
       THEN Go(r, "authorize") /\ UNCHANGED <<result, serviceVars>>
       ELSE Denied(r)

\* Faulty: an identity that is known is let through.
AuthorizeKnown(r) ==
  /\ at[r] = "authorize"
  /\ IF Known(r) THEN Go(r, "dispatch") /\ UNCHANGED <<result, serviceVars>>
                 ELSE Denied(r)

\* It is looked up again, and may have been replaced meanwhile.
Authorize(r) ==
  /\ at[r] = "authorize"
  /\ IF Known(r) /\ identities[request[r].identity].permitted
       THEN Go(r, "dispatch") /\ UNCHANGED <<result, serviceVars>>
       ELSE Denied(r)

-----------------------------------------------------------------------------
(* ServiceDispatcher.dispatch.                                             *)

\* execute() finds the service running, and calls the handler.
Execute(r) ==
  /\ at[r] = "dispatch" /\ request[r].operation = "named"
  /\ ExecuteCalls(r, request[r].service)
  /\ Go(r, "execute") /\ UNCHANGED result

\* Or it raises, which dispatch() catches.
ExecuteRefused(r) ==
  /\ at[r] = "dispatch"
  /\ request[r].operation # "named" \/ ~Executable(request[r].service)
  /\ Conclude(r, "failed") /\ UNCHANGED serviceVars

OperationReturns(r) ==
  /\ at[r] = "execute" /\ HandlerReturns(r) /\ Conclude(r, "executed")

OperationRaises(r) ==
  /\ at[r] = "execute" /\ HandlerRaises(r) /\ Conclude(r, "failed")

\* _emit_service_event: there is nothing to do while the bus is stopped.
Announce(r) == Step(r, "announce", "events" \in active, "publish", "answered")

\* Faulty: the subscribers hear of what was executed or failed, not of denials.
PublishUnlessDenied(r) ==
  /\ at[r] = "publish"
  /\ told' = [told EXCEPT ![r] = "events" \in active /\ result[r] # "denied"]
  /\ at' = [at EXCEPT ![r] = IF "events" \in active THEN "answered" ELSE "raised"]
  /\ UNCHANGED <<request, result, serviceVars, configVars>>

\* publish() takes the handlers in its section and calls them after it. It
\* raises if the bus was stopped since, and neither dispatch() nor _deny()
\* catches that.
Publish(r) ==
  /\ at[r] = "publish"
  /\ told' = [told EXCEPT ![r] = "events" \in active]
  /\ at' = [at EXCEPT ![r] = IF "events" \in active THEN "answered" ELSE "raised"]
  /\ UNCHANGED <<request, result, serviceVars, configVars>>

Handling(r) ==
  \/ RouterRuns(r) \/ GetRoute(r) \/ Send(r) \/ ToRequest(r)
  \/ EnforcementActive(r) \/ Required(r)
  \/ Authenticate(r) \/ Authorize(r) \/ Execute(r) \/ ExecuteRefused(r)
  \/ OperationReturns(r) \/ OperationRaises(r) \/ Announce(r) \/ Publish(r)

-----------------------------------------------------------------------------
(* What the application and its threads do meanwhile.                      *)

SetActive(parts) ==
  /\ active' = parts
  /\ UNCHANGED <<routes, endpoints, enforced, guarded, identities, provider>>

SetRoutes(services) ==
  /\ routes' = services
  /\ UNCHANGED <<active, endpoints, enforced, guarded, identities, provider>>

SetEndpoints(services) ==
  /\ endpoints' = services
  /\ UNCHANGED <<active, routes, enforced, guarded, identities, provider>>

SetPolicy(enforce, required) ==
  /\ enforced' = enforce /\ guarded' = required
  /\ UNCHANGED <<active, routes, endpoints, identities, provider>>

SetIdentity(i, identity) ==
  /\ identities' = [identities EXCEPT ![i] = identity]
  /\ UNCHANGED <<active, routes, endpoints, enforced, guarded, provider>>

StartOrStop(part) == SetActive(active \cup {part}) \/ SetActive(active \ {part})

\* start, stop, add_route, remove_route and clear of the router.
ChangeRouter ==
  \/ StartOrStop("routing") \/ SetRoutes({})
  \/ \E s \in Services : SetRoutes(routes \cup {s}) \/ SetRoutes(routes \ {s})

\* start, stop, register, unregister and clear of the transport.
ChangeTransport ==
  \/ StartOrStop("communication") \/ SetEndpoints({})
  \/ \E s \in Services : SetEndpoints(endpoints \cup {s}) \/ SetEndpoints(endpoints \ {s})

\* start and stop of the event bus.
ChangeBus == StartOrStop("events")

\* set_enforced; grant, revoke and clear of the policy.
ChangePolicy ==
  \/ SetPolicy(~enforced, guarded)
  \/ \E s \in Services : SetPolicy(enforced, guarded \cup {s})
                       \/ SetPolicy(enforced, guarded \ {s})
  \/ SetPolicy(enforced, {})

\* start, stop and set_provider of the security manager; register_identity and
\* unregister_identity, refused while it is stopped, and clear, which is not.
ChangeSecurity ==
  \/ StartOrStop("security")
  \/ /\ provider' \in Providers
     /\ UNCHANGED <<active, routes, endpoints, enforced, guarded, identities>>
  \/ /\ "security" \in active
     /\ \E i \in Identities : \E identity \in Identity :
          (identities[i].known # identity.known) /\ SetIdentity(i, identity)
  \/ /\ identities' = [i \in Identities |-> Absent]
     /\ UNCHANGED <<active, routes, endpoints, enforced, guarded, provider>>

FactNames == {"open", "authentic", "permitted", "bus stopped", "handled"}

\* What is so now, for a request that has arrived.
Facts(r) ==
  LET known == request[r].identity \in Identities
               /\ identities[request[r].identity].known
  IN  {fact \in FactNames :
         CASE fact = "open" -> ~enforced \/ request[r].service \notin guarded
           [] fact = "authentic" ->
                known /\ Authentic(identities[request[r].identity], request[r].credential)
           [] fact = "permitted" -> known /\ identities[request[r].identity].permitted
           [] fact = "bus stopped" -> "events" \notin active
           [] fact = "handled" -> at[r] = "handle"}

Remember ==
  since' = [r \in Requests |-> IF ~Ended(r) THEN since[r] \cup Facts(r)
                               ELSE IF at'[r] = at[r] THEN since[r] ELSE {}]

SpineInit ==
  /\ Init
  /\ active = {} /\ routes = {} /\ endpoints = {}
  /\ enforced = FALSE /\ guarded = {} /\ provider = "existence"
  /\ identities = [i \in Identities |-> Absent]
  /\ request \in [Requests -> Message]
  /\ at = [r \in Requests |-> "answered"]
  /\ result = [r \in Requests |-> "none"]
  /\ told = [r \in Requests |-> FALSE]
  /\ since = [r \in Requests |-> {}]

SpineNext ==
  /\ \/ \E r \in Requests :
          \/ \E message \in Message :
               Arrives(r, message, "router") \/ Arrives(r, message, "send")
          \/ Handling(r)
     \/ /\ Lifecycle /\ UNCHANGED <<requestVars, configVars>>
     \/ /\ ChangeRouter \/ ChangeTransport \/ ChangeBus \/ ChangePolicy
           \/ ChangeSecurity
        /\ UNCHANGED <<serviceVars, requestVars>>
  /\ Remember

SpineSpec == SpineInit /\ [][SpineNext]_vars

-----------------------------------------------------------------------------
SpineOK ==
  /\ active \subseteq Parts /\ routes \subseteq Services /\ endpoints \subseteq Services
  /\ enforced \in BOOLEAN /\ guarded \subseteq Services /\ provider \in Providers
  /\ identities \in [Identities -> Identity]
  /\ request \in [Requests -> Message] /\ at \in [Requests -> Places]
  /\ result \in [Requests -> {"none", "invalid", "denied", "failed", "executed"}]
  /\ told \in [Requests -> BOOLEAN]
  /\ since \in [Requests -> SUBSET FactNames]

\* A handler is called only for a request that, at some time since it arrived,
\* was free to anybody, or had a credential that was right and, then or at
\* another time, an identity with the permission: whatever is revoked, rotated
\* or stopped between the steps of _enforce.
OnlyAllowedExecute ==
  /\ SpineOK
  /\ \A r \in Requests : at[r] = "execute" =>
       "open" \in since[r] \/ {"authentic", "permitted"} \subseteq since[r]

\* A request that reached its service is answered, and the subscribers were told
\* how it ended, except when the bus was stopped while it was handled, or when
\* its operation is a name of blanks and the boundary is enforced.
OutcomeReported ==
  \A r \in Requests :
    /\ at[r] = "answered" /\ result[r] \in {"denied", "failed", "executed"} =>
         told[r] \/ "bus stopped" \in since[r]
    /\ at[r] = "raised" /\ "handled" \in since[r] =>
         "bus stopped" \in since[r] \/ request[r].operation = "blanks"
=============================================================================
