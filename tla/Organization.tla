----------------------------- MODULE Organization -----------------------------
(***************************************************************************)
(* The resource registry (core/resources/registry.py), the organization    *)
(* index over it (core/organization/engine.py) and the ingestion of        *)
(* R.E.S.C.S. records into both (core/organization/ingestion.py), through  *)
(* the HTTP adapter of RescsRemote.                                        *)
(*                                                                         *)
(* The registry has no lock, the index one of its own, and a call changes  *)
(* first the one and then the other: a call is an agenda of steps, between *)
(* which other threads (the device mirror of core/communication/devices.py *)
(* and the resource operations of core/application/app.py) take theirs.    *)
(***************************************************************************)
EXTENDS RescsRemote, Naturals, FiniteSets, Sequences, SequencesExt

CONSTANTS Threads, Types, Owners, Nobody, Malformed

\* What a record says: enough to categorize it, a name that is blank but not
\* empty, or too little (resource_id or type or name are missing).
Resource == [type : Types, named : BOOLEAN, owner : Owners \cup {Nobody}]

OrganizationConstants ==
  /\ RemoteConstants /\ IsFiniteSet(Keys)
  /\ Values \subseteq Resource \cup {Malformed}
  /\ Absent \notin Resource \cup Types \cup {Malformed} /\ Nobody \notin Owners
  /\ "device" \in Types

VARIABLES
  resources,   \* ResourceRegistry._resources
  index,       \* the category in _entries["resource:<id>"], or Absent
  agenda,      \* what the call of each thread still has to do
  target,      \* the records it reconciles with, undisturbed, or <<>>
  doubtful     \* ids two calls have worked on at a time, or whose name was blank

organizationVars == <<resources, index, agenda, target, doubtful>>
ingestionVars == <<remoteVars, organizationVars>>

OrganizationInit ==
  /\ resources = Empty /\ index = Empty
  /\ agenda = [t \in Threads |-> <<>>] /\ target = [t \in Threads |-> <<>>]
  /\ doubtful = {}

-----------------------------------------------------------------------------
(* What a call has to do. A quiet step may fail without ending the call.   *)

Do(what, k, value, quiet) ==
  [do |-> what, key |-> k, value |-> value, quiet |-> quiet]

Register(k, value) ==
  <<Do("insert", k, value, FALSE), Do("categorize", k, value, FALSE)>>

Unregister(k, quiet) == <<Do("unregister", k, Absent, quiet)>>

\* Faulty: whatever the type, the resource is updated in place.
UpdateInPlace(k, value) ==
  IF resources[k] = Absent THEN Register(k, value)
  ELSE <<Do("update", k, value, FALSE), Do("categorize", k, value, FALSE)>>

\* _upsert_normalized.
Upsert(k, value) ==
  IF resources[k] = Absent THEN Register(k, value)
  ELSE IF resources[k].type # value.type
    THEN Unregister(k, FALSE) \o Register(k, value)
    ELSE <<Do("update", k, value, FALSE), Do("categorize", k, value, FALSE)>>

\* ingest_resource, once R.E.S.C.S. has answered.
Ingest(k, answer) ==
  CASE answer = Absent -> Unregister(k, TRUE)
    [] answer = Malformed -> <<>>
    [] OTHER -> <<Do("upsert", k, answer, FALSE)>>

\* ingest_all lists the records, and then fetches each of them again.
IngestAll(table) ==
  LET listed == SetToSeq({k \in Keys : table[k] # Absent})
  IN  [i \in DOMAIN listed |-> Do("fetch", listed[i], Absent, FALSE)]

\* Faulty: what is registered is taken to be current.
ReconcileMissing(table) ==
  LET valid == {k \in Keys : table[k] \notin {Absent, Malformed}}
      added == SetToSeq(valid)
      extra == SetToSeq({k \in Keys : resources[k] # Absent} \ valid)
  IN  [i \in DOMAIN added |->
         LET k == added[i]
         IN  IF resources[k] # Absent THEN Do("categorize", k, table[k], TRUE)
                                      ELSE Do("upsert", k, table[k], FALSE)]
      \o [i \in DOMAIN extra |-> Do("unregister", extra[i], Absent, TRUE)]

\* reconcile: records that are not current are added or updated, records that
\* agree are only categorized again, and what is not among the valid records
\* is removed. The registry is read once, before.
Reconcile(table) ==
  LET valid == {k \in Keys : table[k] \notin {Absent, Malformed}}
      added == SetToSeq(valid)
      extra == SetToSeq({k \in Keys : resources[k] # Absent} \ valid)
  IN  [i \in DOMAIN added |->
         LET k == added[i]
         IN  IF resources[k] = table[k] THEN Do("categorize", k, table[k], TRUE)
                                        ELSE Do("upsert", k, table[k], FALSE)]
      \o [i \in DOMAIN extra |-> Do("unregister", extra[i], Absent, TRUE)]

-----------------------------------------------------------------------------
(* The calls. The last three are those of the application and the mirror.  *)

Calls(t, todo, table) ==
  /\ agenda[t] = <<>>
  /\ agenda' = [agenda EXCEPT ![t] = todo]
  /\ target' = [target EXCEPT ![t] = table]
  /\ UNCHANGED <<resources, index, doubtful>>

IngestCalled(t, k) ==
  Calls(t, <<Do("fetch", k, Absent, FALSE)>>, <<>>) /\ UNCHANGED remoteVars

IngestAllCalled(t) ==
  \E table \in Listed : Calls(t, IngestAll(table), <<>>) /\ UNCHANGED remoteVars

ReconcileCalled(t) ==
  \E table \in Listed : Calls(t, Reconcile(table), table) /\ UNCHANGED remoteVars

\* _remove_resource, and forget_resource of the engine and of the ingestor.
RemoveCalled(t, k) == Calls(t, Unregister(k, FALSE), <<>>) /\ UNCHANGED remoteVars

RegisterCalled(t, k, value) ==
  Calls(t, Register(k, value), <<>>) /\ UNCHANGED remoteVars

Device == [type |-> "device", named |-> TRUE, owner |-> Nobody]

MirrorCalled(t, k) ==
  Calls(t, <<Do("mirror", k, Device, FALSE)>>, <<>>) /\ UNCHANGED remoteVars

-----------------------------------------------------------------------------
(* The steps.                                                              *)

Current(t) == Head(agenda[t])

\* The keys a thread has begun to work on.
Busy(t) == {todo.key : todo \in
  {todo \in ToSet(agenda[t]) :
     todo.do \in {"insert", "update", "categorize", "uncategorize"}}}

\* A change by this thread disturbs what the others reconcile.
Continue(t, todo) ==
  /\ agenda' = [agenda EXCEPT ![t] = todo \o Tail(@)]
  /\ target' = [u \in Threads |->
       IF u # t /\ resources' # resources THEN <<>> ELSE target[u]]
  /\ doubtful' = doubtful \cup
       UNION {(Busy(t) \cap Busy(u))' : u \in Threads \ {t}}

\* An exception ends the call, unless the step is quiet.
Fails(t, gone) ==
  /\ agenda' = [agenda EXCEPT ![t] = IF Current(t).quiet THEN Tail(@) ELSE <<>>]
  /\ target' = [target EXCEPT ![t] = IF Current(t).quiet THEN @ ELSE <<>>]
  /\ doubtful' = doubtful \cup gone
  /\ UNCHANGED <<resources, index>>

Ready(t, what) == agenda[t] # <<>> /\ Current(t).do = what

\* Without a fallback, a store that does not answer raises RescsUnavailable.
FetchStep(t) ==
  /\ Ready(t, "fetch") /\ UNCHANGED remoteVars
  /\ \/ \E answer \in Fetched(Current(t).key) :
          UNCHANGED <<resources, index>> /\ Continue(t, Ingest(Current(t).key, answer))
     \/ ~Fallback /\ Fails(t, {})

UpsertStep(t) ==
  /\ Ready(t, "upsert")
  /\ UNCHANGED <<resources, index, remoteVars>>
  /\ Continue(t, Upsert(Current(t).key, Current(t).value))

InsertStep(t) ==
  /\ Ready(t, "insert") /\ UNCHANGED <<index, remoteVars>>
  /\ IF resources[Current(t).key] # Absent THEN Fails(t, {})
     ELSE /\ resources' = [resources EXCEPT ![Current(t).key] = Current(t).value]
          /\ Continue(t, <<>>)

\* What is None is left alone, and the type is not a parameter.
Updated(old, new) ==
  [old EXCEPT !.named = new.named, !.owner = IF new.owner = Nobody THEN @ ELSE new.owner]

UpdateStep(t) ==
  /\ Ready(t, "update") /\ UNCHANGED <<index, remoteVars>>
  /\ IF resources[Current(t).key] = Absent THEN Fails(t, {})
     ELSE /\ resources' = [resources EXCEPT ![Current(t).key] = Updated(@, Current(t).value)]
          /\ Continue(t, <<>>)

\* A name must not be blank, which the registry does not ask for.
CategorizeStep(t) ==
  /\ Ready(t, "categorize") /\ UNCHANGED <<resources, remoteVars>>
  /\ IF ~Current(t).value.named THEN Fails(t, {Current(t).key})
     ELSE /\ index' = [index EXCEPT ![Current(t).key] = Current(t).value.type]
          /\ Continue(t, <<>>)

UnregisterStep(t) ==
  /\ Ready(t, "unregister") /\ UNCHANGED <<index, remoteVars>>
  /\ IF resources[Current(t).key] = Absent THEN Fails(t, {})
     ELSE /\ resources' = [resources EXCEPT ![Current(t).key] = Absent]
          /\ Continue(t, <<Do("uncategorize", Current(t).key, Absent, FALSE)>>)

UncategorizeStep(t) ==
  /\ Ready(t, "uncategorize") /\ UNCHANGED <<resources, remoteVars>>
  /\ index' = [index EXCEPT ![Current(t).key] = Absent]
  /\ Continue(t, <<>>)

\* A resource that exists is updated, whatever it is, and its entry is not.
MirrorStep(t) ==
  /\ Ready(t, "mirror") /\ UNCHANGED <<index, remoteVars>>
  /\ IF resources[Current(t).key] # Absent
       THEN /\ resources' = [resources EXCEPT ![Current(t).key] = Updated(@, Device)]
            /\ Continue(t, <<>>)
       ELSE UNCHANGED resources /\ Continue(t, Register(Current(t).key, Device))

\* _shutdown_resources and _shutdown_organization: both are emptied, and what
\* other calls have begun goes on.
ClearAll ==
  /\ resources' = Empty /\ index' = Empty
  /\ target' = [t \in Threads |-> <<>>]
  /\ doubtful' = doubtful \cup UNION {Busy(t) : t \in Threads}
  /\ UNCHANGED <<agenda, remoteVars>>

Step(t) ==
  \/ FetchStep(t) \/ UpsertStep(t) \/ InsertStep(t) \/ UpdateStep(t)
  \/ CategorizeStep(t) \/ UnregisterStep(t) \/ UncategorizeStep(t) \/ MirrorStep(t)

OrganizationNext ==
  \/ ClearAll
  \/ \E t \in Threads :
       \/ Step(t) \/ IngestAllCalled(t) \/ ReconcileCalled(t)
       \/ \E k \in Keys :
            \/ IngestCalled(t, k) \/ RemoveCalled(t, k) \/ MirrorCalled(t, k)
            \/ \E value \in Values \ {Malformed} : RegisterCalled(t, k, value)

\* Meanwhile the store and the copy of it change in any way.
IngestionSpec ==
  /\ RemoteInit /\ OrganizationInit
  /\ [][OrganizationNext \/ (RemoteNext /\ UNCHANGED organizationVars)]_ingestionVars

-----------------------------------------------------------------------------
OrganizationOK ==
  /\ resources \in [Keys -> Resource \cup {Absent}]
  /\ index \in [Keys -> Types \cup {Absent}] /\ doubtful \subseteq Keys

\* An id has an entry exactly if it has a resource, under the type of that (docs/
\* organization-rescs.md: "A changed resource_type re-registers so the category
\* stays exact"), as soon as no call is at work on it: unless two calls have been
\* so at a time, or the index refused the name after the registry took it.
IndexAgrees ==
  /\ OrganizationOK
  /\ \A k \in Keys \ (doubtful \cup UNION {Busy(t) : t \in Threads}) :
       index[k] = IF resources[k] = Absent THEN Absent ELSE resources[k].type

\* A reconciliation that runs to its end without a change by another thread leaves
\* every valid record it was given and nothing that the store says is absent; what
\* becomes of a resource whose record is invalid is InvalidKept. Owners are an
\* exception: a record without owner leaves the one the resource has, because None
\* is no value for the registry's update.
ReconcileExact ==
  \A t \in Threads, k \in Keys :
    target[t] # <<>> /\ agenda[t] = <<>> =>
      CASE target[t][k] = Absent -> resources[k] = Absent
        [] target[t][k] = Malformed -> TRUE
        [] OTHER -> \E owner \in Owners \cup {Nobody} :
             /\ resources[k] = [target[t][k] EXCEPT !.owner = owner]
             /\ owner = target[t][k].owner \/ target[t][k].owner = Nobody

\* "Invalid items are reported without aborting the run and never cause deletion"
\* (ingestion.py, and test_invalid_authoritative_resource_is_not_deleted): no step
\* of a reconciliation removes a resource whose record is invalid.
InvalidKept ==
  [][\A t \in Threads, k \in Keys :
       /\ target[t] # <<>> /\ agenda'[t] # agenda[t]
       /\ target[t][k] = Malformed /\ resources[k] # Absent
       => resources'[k] # Absent]_ingestionVars
=============================================================================
