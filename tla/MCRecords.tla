------------------------------ MODULE MCRecords ------------------------------
(* What becomes of records, for TLC, in six uses: the file they are saved to; *)
(* the remote store; the registry and the index they are ingested into, with  *)
(* and without a fallback; their pages; and the requests of devices that read *)
(* them.                                                                      *)
EXTENDS RescsStore, Organization, DataOrganizer, RecordPages, TLC

CONSTANTS
  k1, k2, f1, o1, d1, d2,
  MaxChanges

VARIABLES
  usage,      \* "store", "remote", "organization", "strict", "pages" or "data"
  changes     \* how many changes the processes may still make to the file

\* Without a fallback: the call ends when the store does not answer.
Strict == INSTANCE Organization WITH Fallback <- FALSE

R(type, named, owner) == [type |-> type, named |-> named, owner |-> owner]

Sensor == R("sensor", TRUE, o1)

\* A file looks at no field: here this is the same sensor with the time of a later
\* start as its registered_at.
Again == R("sensor", TRUE, Nobody)

SomeValues ==
  {R("device", TRUE, Nobody), Sensor, Again, R("sensor", FALSE, o1), Malformed}

SomeRestamped == [v \in SomeValues |-> IF v = Sensor THEN Again ELSE v]

SomeSeen == {R("device", TRUE, Nobody)}

SomeKinds == [resources |-> {k1}, runtimes |-> {}, devices |-> {k2}]

SomeOwners == [item \in {k1, k2, f1} |-> IF item = k1 THEN d1 ELSE d2]

ASSUME OrganizationConstants /\ PagesConstants /\ DataConstants

Interchangeable == Permutations(Processes)

-----------------------------------------------------------------------------
\* An earlier file, a broken one or none. The first record has no last_seen, the
\* second has one, or nothing can be made of it.
StoreTable(table) ==
  /\ table[k1] \in {Sensor, Again, Absent}
  /\ table[k2] \in {R("device", TRUE, Nobody), Malformed, Absent}

StoreStart ==
  Init /\ file \in {1, NoFile} /\ StoreTable(Stored) /\ Stored[k1] # Again

\* So many changes are made, and what a start has made of a record is not put there
\* by a change. Inodes are numbers, and which free one is taken does not matter.
StoreStep ==
  /\ Next
  /\ \A p \in Processes :
       StoreTable(memory'[p]) /\ (k1 \in changed'[p] => memory'[p][k1] # Again)
  /\ temp' \notin {temp, NoFile} => \A inode \in Free : temp' <= inode
  /\ changes' = changes - Cardinality({p \in Processes :
                                       step[p] = "idle" /\ step'[p] = "open"})
  /\ changes' >= 0

\* The remote store looks at no record, and two are enough for it; of the second
\* key it is enough that it has a record or none.
Few == [Keys -> {Sensor, Malformed, Absent}]

RemoteStep ==
  RemoteNext /\ {remote, local}' \subseteq {table \in Few : table[k2] # Malformed}

\* Next to a record that can be categorized, one that cannot, and the copy has both;
\* or one that is invalid, and the copy has nothing yet.
IngestionStart ==
  /\ \E other \in {Malformed, R("sensor", FALSE, o1)} :
       /\ remote = [k \in Keys |-> IF k = k1 THEN R("sensor", TRUE, o1) ELSE other]
       /\ local = IF other = Malformed THEN Empty ELSE remote
  /\ acked = remote /\ late = {} /\ unsure = Keys

\* The application registers two kinds of resources. One thread is enough without a
\* fallback: where an answer comes from makes no difference to another thread.
IngestionStep ==
  /\ IF usage = "strict" THEN Strict!OrganizationNext ELSE OrganizationNext
  /\ \A t \in Threads : agenda[t] = <<>> /\ agenda'[t] # <<>> =>
       LET first == Head(agenda'[t])
       IN  /\ first.do = "insert" =>
                first.value \in {R("sensor", TRUE, o1), R("device", TRUE, Nobody)}
           /\ usage = "strict" => \A other \in Threads : agenda[other] = <<>>

\* d2 asks for nothing, and may be asked for; without use nobody may ask.
DataStart ==
  /\ DataInit
  /\ IF usage = "data"
       THEN registered = {d1} /\ permissions[d2] = {"none"} /\ stored = Items /\ reachable
     ELSE /\ registered = {} /\ stored = {} /\ ~reachable /\ ~overHttp
          /\ permissions = [d \in Devices |-> {"none"}]

\* Something changes only at the places before which it is read, as often as it may:
\* it makes no difference at another time. What d2 may do is never read.
Meanwhile(r) ==
  \/ at[r] = "authorize" /\ PermissionsChange /\ permissions'[d2] = {"none"}
  \/ at[r] \in {"destination", "deliver"} /\ DeviceChanges
  \/ at[r] = "retrieve" /\ StoreChanges

\* An invalid request is refused, whatever else it says. To ask for less is the same
\* as less that is stored.
Usual(asked) ==
  CASE asked.type = "invalid" ->
         asked.owner = NoDevice /\ asked.about = {} /\ asked.target = NoDevice
    [] asked.type = "file" -> asked.about = Files
    [] OTHER -> asked.about = Records

DataStep ==
  \E r \in Requests :
    \/ Handle(r) \/ Meanwhile(r)
    \/ \E asked \in Asked : Usual(asked) /\ Arrives(r, asked)

-----------------------------------------------------------------------------
MCInit ==
  /\ usage \in {"store", "remote", "organization", "strict", "pages", "data"}
  /\ IF usage = "store" THEN StoreStart /\ changes = MaxChanges
     ELSE Init /\ file = NoFile /\ changes = 0
  /\ OrganizationInit /\ DataStart
  /\ CASE usage = "organization" -> IngestionStart
       [] usage = "strict" -> IngestionStart /\ local = Empty
       [] OTHER -> RemoteInit
  /\ IF usage = "pages" THEN PagesInit
     ELSE listing = <<>> /\ offset = 0 /\ received = <<>>

MCNext ==
  /\ UNCHANGED usage /\ (usage # "store" => UNCHANGED changes)
  /\ \/ usage = "store" /\ StoreStep /\ UNCHANGED <<ingestionVars, pagesVars, dataVars>>
     \/ /\ usage = "remote" /\ RemoteStep
        /\ UNCHANGED <<vars, organizationVars, pagesVars, dataVars>>
     \/ /\ usage \in {"organization", "strict"} /\ IngestionStep
        /\ UNCHANGED <<vars, pagesVars, dataVars>>
     \/ usage = "pages" /\ PagesNext /\ UNCHANGED <<vars, ingestionVars, dataVars>>
     \/ usage = "data" /\ DataStep /\ UNCHANGED <<vars, ingestionVars, pagesVars>>

MCSpec == MCInit /\ [][MCNext]_<<usage, changes, vars, ingestionVars, pagesVars, dataVars>>
=============================================================================
