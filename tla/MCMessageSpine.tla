---------------------------- MODULE MCMessageSpine ----------------------------
(* Two uses of MessageSpine for TLC: the life cycle of three services in     *)
(* every graph, with requests that only execute; and requests that come all  *)
(* the way to one service while everything around it changes.                *)
EXTENDS MessageSpine, FiniteSets, TLC

CONSTANTS s1, s2, s3

VARIABLE usage    \* "services" or "spine", once and for all

Names == {s1, s2, s3}
\* A service may miss what it needs, or two may need each other.
AnyDependency == {{}, {s1}, {s2}, {s1, s2}}

Symmetric == Permutations({s1, s2})

NoRequestYet ==
  /\ at = [r \in Requests |-> "answered"]
  /\ result = [r \in Requests |-> "none"]
  /\ told = [r \in Requests |-> FALSE] /\ since = [r \in Requests |-> {}]

ServicesInit ==
  /\ Init /\ NoRequestYet
  /\ active = {} /\ routes = {} /\ endpoints = {}
  /\ enforced = FALSE /\ guarded = {} /\ provider = "existence"
  /\ identities = [i \in Identities |-> Absent]
  /\ request = [r \in Requests |-> CHOOSE message \in Message : TRUE]

\* To explore less, no service depends on itself alone, and one at a time has
\* an operation.
ServicesNext ==
  /\ Next
  /\ \A s \in Services : s \notin dependencies'[s]
  /\ Cardinality(handlers') <= 1
  /\ UNCHANGED <<configVars, requestVars, since>>

\* Who sends a message matters only if it names an operation.
Telling(message) ==
  message.operation # "named" => message.identity = NoIdentity /\ message.credential = NoToken

\* One message, in every configuration and at any moment of a change.
OneInit ==
  /\ registered = {s3} /\ handlers = {s3} /\ agenda = <<>> /\ failed = {}
  /\ dependencies = [s \in Services |-> {}]
  /\ \E current \in {"running", "stopped"} :
       status = [s \in Services |-> IF s = s3 THEN current ELSE "registered"]
  /\ executing = [r \in Requests |-> NoService]
  /\ NoRequestYet
  /\ active \in SUBSET Parts /\ routes \in {{}, {s3}} /\ endpoints \in {{}, {s3}}
  /\ enforced \in BOOLEAN /\ guarded \in {{}, {s3}} /\ provider \in Providers
  /\ identities \in [Identities -> Identity]
  /\ request \in [Requests -> {message \in Message : message.service = s3 /\ Telling(message)}]

\* Something changes only at the places before which it is read: a change at
\* another time is one to another initial configuration.
Meanwhile(r) ==
  \/ at[r] = "route" /\ ChangeRouter /\ "routing" \in active'
  \/ at[r] = "send" /\ ChangeTransport
  \/ at[r] \in {"enforcement", "required"} /\ ChangePolicy
  \/ at[r] \in {"authenticate", "authorize"} /\ ChangeSecurity
  \/ at[r] \in {"announce", "publish"} /\ ChangeBus

OneNext ==
  /\ \E r \in Requests :
       \/ since[r] = {} /\ Arrives(r, request[r], "router")
       \/ since[r] = {} /\ routes = {s3} /\ "routing" \in active
          /\ Arrives(r, request[r], "send")
       \/ Handling(r)
       \/ Meanwhile(r) /\ UNCHANGED <<serviceVars, requestVars>>
  /\ Remember

MCInit == \/ usage = "services" /\ ServicesInit
          \/ usage = "spine" /\ OneInit

MCNext ==
  /\ UNCHANGED usage
  /\ \/ usage = "services" /\ ServicesNext
     \/ usage = "spine" /\ OneNext

MCSpec == MCInit /\ [][MCNext]_<<vars, usage>>
=============================================================================
