----------------------------- MODULE RescsTables ------------------------------
(***************************************************************************)
(* The records of R.E.S.C.S. (core/rescs/adapter.py), as both adapters     *)
(* keep them: a table by id of resources, runtimes and devices.            *)
(***************************************************************************)
CONSTANTS
  Keys,       \* the ids of records, of all three kinds
  Values,     \* what a record says
  Absent      \* what is at an id without a record

Tables == [Keys -> Values \cup {Absent}]

Empty == [k \in Keys |-> Absent]
=============================================================================
