---------------------------- MODULE DataOrganizer -----------------------------
(***************************************************************************)
(* A DATA_REQUEST from the frame to its answer: the handler of the         *)
(* transport (core/communication/tcp.py, _handle_data_request), the data   *)
(* organizer (core/data/organizer.py) and the readers of R.E.S.C.S.        *)
(* records (core/data/rescs_reader.py).                                    *)
(*                                                                         *)
(* The thread of each session handles its own requests, one at a time;     *)
(* meanwhile permissions, records, devices and the reach of the store      *)
(* change. Records and files are told apart by their owner; namespace, key,*)
(* query and file id are what a request asks about. Order and pages are in *)
(* RecordPages.                                                            *)
(*                                                                         *)
(* There are two readers. AdapterDataReader compares the owner of every    *)
(* record and has no files. HttpDataReader sends the owner in the query    *)
(* for records and not at all for files, and takes what the store answers. *)
(***************************************************************************)
EXTENDS Naturals, FiniteSets, Sequences, SequencesExt

CONSTANTS
  Requests, Devices, Records, Files,
  NoDevice,      \* no member of Devices
  Owner          \* the owner of each record and file: a device, or NoDevice

Items == Records \cup Files

DataConstants ==
  /\ Devices # {} /\ NoDevice \notin Devices
  /\ Records \cap Files = {} /\ Owner \in [Items -> Devices \cup {NoDevice}]

VARIABLES
  registered,    \* devices whose session is registered
  online,        \* devices the registry of the organizer calls online
  bound,         \* devices with a live binding in the transport
  permissions,   \* of the identity of each device; {"none"} without identity
  stored,        \* the records and files R.E.S.C.S. holds
  reachable,     \* whether it answers
  overHttp,      \* whether the application has an HttpRescsAdapter
  request,       \* what each request asks for
  at,            \* what is done next with it, "done" at the end
  found,         \* what has been retrieved for it
  admitted,      \* the owners whose data it may see, at its authorization
  reply,         \* the messages sent on its behalf
  counts         \* the counters of the organizer

worldVars == <<registered, online, bound, permissions, stored, reachable, overHttp>>
requestVars == <<request, at, found, admitted, reply>>
dataVars == <<worldVars, requestVars, counts>>

RecordTypes == {"get", "search"}     \* a list is a search without a query
FileTypes == {"file"}

Asked == [sender : Devices, type : RecordTypes \cup FileTypes \cup {"invalid"},
          owner : Devices \cup {NoDevice}, target : Devices \cup {NoDevice},
          about : SUBSET Items]

Counters == {"requests", "successful", "failed", "denied", "source", "large"}

NoRequest == CHOOSE q \in Asked : TRUE

DataInit ==
  /\ registered \in SUBSET Devices /\ online = registered /\ bound = registered
  /\ permissions \in [Devices -> {{"none"}, {}, {"read"}, {"read", "admin"}}]
  /\ stored \in SUBSET Items /\ reachable \in BOOLEAN /\ overHttp \in BOOLEAN
  /\ request = [r \in Requests |-> NoRequest]
  /\ at = [r \in Requests |-> "done"]
  /\ found = [r \in Requests |-> {}] /\ admitted = [r \in Requests |-> {}]
  /\ reply = [r \in Requests |-> <<>>]
  /\ counts = [c \in Counters |-> 0]

-----------------------------------------------------------------------------
\* The request continues, counting something on the way.
Goto(r, next, counted) ==
  /\ at' = [at EXCEPT ![r] = next]
  /\ counts' = [c \in Counters |-> counts[c] + IF c \in counted THEN 1 ELSE 0]

Message(kind, to, items) == [kind |-> kind, to |-> to, items |-> items]

Send(r, message) == reply' = [reply EXCEPT ![r] = Append(@, message)]

\* _send_data_envelope, and a DATA_ERROR of the organizer: to the sender.
Refuse(r) ==
  Send(r, Message("error", request[r].sender, {}))

\* _fail.
Fail(r, counted) ==
  /\ Goto(r, "done", counted \cup {"failed"}) /\ Refuse(r)
  /\ UNCHANGED <<worldVars, request, found, admitted>>

\* A request of a device whose session is not registered is not counted.
Arrives(r, asked) ==
  /\ at[r] = "done" /\ reply[r] = <<>>
  /\ \A other \in Requests : at[other] # "done" => request[other].sender # asked.sender
  /\ request' = [request EXCEPT ![r] = asked]
  /\ UNCHANGED <<worldVars, found, admitted>>
  /\ IF asked.sender \in registered
       THEN /\ Goto(r, IF asked.type = "invalid" THEN "invalid" ELSE "authorize", {"requests"})
            /\ UNCHANGED reply
       ELSE /\ reply' = [reply EXCEPT ![r] = <<Message("error", asked.sender, {})>>]
            /\ UNCHANGED <<at, counts>>

Invalid(r) == at[r] = "invalid" /\ Fail(r, {})

\* Whose data a device may see: its own, or everybody's.
MaySee(d) ==
  IF "read" \notin permissions[d] THEN {}
  ELSE IF "admin" \in permissions[d] THEN Devices ELSE {d}

OwnerAsked(r) == IF request[r].owner = NoDevice THEN request[r].sender ELSE request[r].owner

\* _authorize: READ, and ADMIN for the records of somebody else.
Authorize(r) ==
  /\ at[r] = "authorize"
  /\ admitted' = [admitted EXCEPT ![r] = MaySee(request[r].sender)]
  /\ IF OwnerAsked(r) \in MaySee(request[r].sender)
       THEN Goto(r, "destination", {}) /\ UNCHANGED <<worldVars, request, found, reply>>
       ELSE Goto(r, "done", {"failed", "denied"}) /\ Refuse(r)
            /\ UNCHANGED <<worldVars, request, found>>

Target(r) == IF request[r].target = NoDevice THEN request[r].sender ELSE request[r].target

\* _validate_destination: another device has to be online.
Destination(r) ==
  /\ at[r] = "destination"
  /\ Target(r) \in online \cup {request[r].sender}
  /\ Goto(r, "retrieve", {})
  /\ UNCHANGED <<worldVars, request, found, admitted, reply>>

DestinationRefused(r) ==
  /\ at[r] = "destination"
  /\ Target(r) \notin online \cup {request[r].sender}
  /\ Fail(r, {})

\* Faulty: a reader that may cross owners does not filter.
MatchingAcross(r) ==
  {record \in Records \cap stored \cap request[r].about :
     request[r].owner = NoDevice => Owner[record] = request[r].sender}

\* The filter of AdapterDataReader: its scope is the sender, unless another owner
\* was asked for.
Matching(r) ==
  {record \in Records \cap stored \cap request[r].about : Owner[record] = OwnerAsked(r)}

\* What the reader may return: get_record of an adapter the first record that
\* matches, the reader over HTTP whatever the store makes of the parameters.
Results(r) ==
  LET answers == IF overHttp THEN SUBSET (Records \cap stored) ELSE {Matching(r)}
  IN  CASE request[r].type = "search" -> answers
        [] request[r].type = "get" -> {{record} : record \in UNION answers}
        [] OTHER -> {{file} : file \in
             IF overHttp THEN Files \cap stored \cap request[r].about ELSE {}}

Retrieve(r) ==
  /\ at[r] = "retrieve" /\ reachable
  /\ \E items \in Results(r) : found' = [found EXCEPT ![r] = items]
  /\ Goto(r, "package", {})
  /\ UNCHANGED <<worldVars, request, admitted, reply>>

\* No record matches; over HTTP, the store refuses or answers badly, nothing was
\* found, or a file is damaged or too large.
NotRetrieved(r) ==
  /\ at[r] = "retrieve" /\ reachable
  /\ ~overHttp => request[r].type = "get" /\ Matching(r) = {}
  /\ Fail(r, {})

\* An adapter has no files.
SourceFails(r) ==
  /\ at[r] = "retrieve"
  /\ ~reachable \/ (~overHttp /\ request[r].type = "file")
  /\ Fail(r, {"source"})

\* Some contents cannot be packaged; only an answer too large for a frame is counted.
TooLarge(r) ==
  at[r] = "package" /\ \E counted \in {{}, {"large"}} : Fail(r, counted)

\* The success is counted before the answer is sent.
Package(r) ==
  /\ at[r] = "package" /\ Goto(r, "deliver", {"successful"})
  /\ UNCHANGED <<worldVars, request, found, admitted, reply>>

\* The answer goes to the sender, or over the binding of another device, whose
\* socket may fail.
Deliver(r) ==
  /\ at[r] = "deliver" /\ Target(r) \in bound \cup {request[r].sender}
  /\ Goto(r, "done", {}) /\ Send(r, Message("data", Target(r), found[r]))
  /\ UNCHANGED <<worldVars, request, found, admitted>>

\* Faulty: the sender is not told.
NotDeliveredSilently(r) ==
  /\ at[r] = "deliver" /\ Target(r) # request[r].sender
  /\ Goto(r, "done", {})
  /\ UNCHANGED <<worldVars, request, found, admitted, reply>>

NotDelivered(r) ==
  /\ at[r] = "deliver" /\ Target(r) # request[r].sender
  /\ Goto(r, "done", {}) /\ Refuse(r)
  /\ UNCHANGED <<worldVars, request, found, admitted>>

Handle(r) ==
  \/ Invalid(r) \/ Authorize(r) \/ Destination(r) \/ DestinationRefused(r)
  \/ Retrieve(r) \/ NotRetrieved(r) \/ SourceFails(r) \/ TooLarge(r) \/ Package(r)
  \/ Deliver(r) \/ NotDelivered(r)

\* Devices come and go, in the transport and the registry one after the other.
DeviceChanges ==
  /\ \E d \in Devices :
       \/ /\ bound' \in {bound \cup {d}, bound \ {d}} /\ UNCHANGED <<registered, online>>
       \/ /\ online' \in {online \cup {d}, online \ {d}} /\ UNCHANGED <<registered, bound>>
  /\ UNCHANGED <<permissions, stored, reachable, overHttp, requestVars, counts>>

PermissionsChange ==
  /\ \E d \in Devices, granted \in {{"none"}, {}, {"read"}, {"read", "admin"}} :
       permissions' = [permissions EXCEPT ![d] = granted]
  /\ UNCHANGED <<registered, online, bound, stored, reachable, overHttp, requestVars, counts>>

StoreChanges ==
  /\ \E item \in Items : stored' \in {stored \cup {item}, stored \ {item}}
  /\ reachable' \in BOOLEAN
  /\ UNCHANGED <<registered, online, bound, permissions, overHttp, requestVars, counts>>

DataNext ==
  \/ \E r \in Requests : Handle(r) \/ (\E asked \in Asked : Arrives(r, asked))
  \/ DeviceChanges \/ PermissionsChange \/ StoreChanges

DataSpec == DataInit /\ [][DataNext]_dataVars

-----------------------------------------------------------------------------
DataOK ==
  /\ registered \cup online \cup bound \subseteq Devices
  /\ stored \subseteq Items /\ request \in [Requests -> Asked]
  /\ found \in [Requests -> SUBSET Items] /\ counts \in [Counters -> Nat]

\* "Cross-owner reads require explicit authorization (ADMIN)" (docs/data-
\* distribution.md): whatever changes while a request is handled, an answer with data
\* was retrieved in the name of the sender, or of an owner it asked for while it was
\* an administrator; and the records an adapter gives belong to just that owner, which
\* three pieces of code decide: the authorization, the scope of the reader and its
\* filter. What the store answers over HTTP no code looks at: see FileOwnerChecked.
OwnerScoped ==
  /\ DataOK
  /\ \A r \in Requests : \A i \in DOMAIN reply[r] : reply[r][i].kind = "data" =>
       /\ OwnerAsked(r) \in admitted[r]
       /\ ~overHttp => \A item \in reply[r][i].items :
            item \in Records /\ Owner[item] = OwnerAsked(r)

\* "HTTP file metadata must identify its owner. Missing/foreign ownership fails
\* closed" (docs/audit-notes.md, and test_file_owner_is_checked_before_content): a
\* file that is sent belongs to one whose data the sender was allowed to see.
FileOwnerChecked ==
  \A r \in Requests : \A i \in DOMAIN reply[r] :
    \A file \in reply[r][i].items \cap Files : Owner[file] \in admitted[r]

\* Every request has exactly one answer, an error at the sender or data at the one
\* the sender chose, and the counters add up: a request is counted as successful or
\* as failed once, and a denied, unreachable or oversized one has failed.
AnsweredOnce ==
  /\ \A r \in Requests :
       /\ at[r] # "done" => reply[r] = <<>>
       /\ Len(reply[r]) <= 1
       /\ \A i \in DOMAIN reply[r] : reply[r][i].to =
            IF reply[r][i].kind = "data" THEN Target(r) ELSE request[r].sender
  /\ counts["requests"] = counts["successful"] + counts["failed"]
       + Cardinality({r \in Requests : at[r] \notin {"done", "deliver"}})
  /\ counts["denied"] + counts["source"] + counts["large"] <= counts["failed"]
  /\ counts["requests"] <=
       Cardinality({r \in Requests : at[r] # "done" \/ reply[r] # <<>>})
=============================================================================
