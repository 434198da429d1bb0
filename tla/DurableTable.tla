----------------------------- MODULE DurableTable -----------------------------
(***************************************************************************)
(* What the R.E.S.C.S. file adapter promises the processes that use it     *)
(* (core/rescs/adapter.py, FileRescsAdapter): each works with a table of   *)
(* its own, and makes it durable all at once or not at all ("File writes   *)
(* are atomic"). A process that starts finds the durable table, as far as  *)
(* its records can be read back, or, if it cannot be read, starts with     *)
(* nothing; the durable table may then be moved out of the way.            *)
(***************************************************************************)
CONSTANTS Processes, Keys, Values, Absent,
          Read(_)    \* what a start may make of a table

VARIABLES durable,   \* the records that survive the processes
          users,     \* the processes
          current    \* the records each works with

vars == <<durable, users, current>>

Nothing == [k \in Keys |-> Absent]

Init ==
  /\ durable \in [Keys -> Values \cup {Absent}]
  /\ users = {} /\ current = [p \in Processes |-> Nothing]

Start(p, table) ==
  /\ p \notin users /\ users' = users \cup {p}
  /\ current' = [current EXCEPT ![p] = table]

Recover(p) == (\E table \in Read(durable) : Start(p, table)) /\ UNCHANGED durable

StartAnew(p) == Start(p, Nothing) /\ durable' \in {durable, Nothing}

End(p) ==
  /\ p \in users /\ users' = users \ {p}
  /\ current' = [current EXCEPT ![p] = Nothing]
  /\ UNCHANGED durable

Put(p, k, v) ==
  /\ p \in users
  /\ current' = [current EXCEPT ![p] = [@ EXCEPT ![k] = v]]
  /\ UNCHANGED <<durable, users>>

Clear(p) ==
  /\ p \in users
  /\ current' = [current EXCEPT ![p] = Nothing]
  /\ UNCHANGED <<durable, users>>

Commit(p) == p \in users /\ durable' = current[p] /\ UNCHANGED <<users, current>>

Next == \E p \in Processes :
  \/ Recover(p) \/ StartAnew(p) \/ End(p) \/ Clear(p) \/ Commit(p)
  \/ \E k \in Keys, v \in Values \cup {Absent} : Put(p, k, v)

=============================================================================
