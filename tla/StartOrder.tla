----------------------------- MODULE StartOrder -----------------------------
(***************************************************************************)
(* The depth-first search of Runtime.get_start_order                       *)
(* (core/runtime/runtime.py), which Runtime describes by its result. One   *)
(* action is one turn of one of its loops, the call of visit() included.   *)
(* The loops go by the order of registration and by name; here both take   *)
(* what is left of them in any order.                                      *)
(***************************************************************************)
EXTENDS Runtime

VARIABLES
  search,      \* "none", "running", "found" or "raised"
  toVisit,     \* what is left of the loop over _components
  visits,      \* calls of visit() that have not returned: the component of each,
               \* and what is left of the loop over its dependencies
  visiting, visited, order      \* as in the code

searchVars == <<search, toVisit, visits, visiting, visited, order>>

NotSearched ==
  /\ search = "none" /\ toVisit = {} /\ visits = <<>>
  /\ visiting = {} /\ visited = {} /\ order = <<>>

SearchInit == Init /\ NotSearched

-----------------------------------------------------------------------------
Top == visits[Len(visits)]

\* The calls, when the innermost has taken d from its loop.
Taken(d) == [visits EXCEPT ![Len(visits)].todo = @ \ {d}]

BeginSearch ==
  /\ search # "running"
  /\ search' = "running"
  /\ toVisit' = components /\ visits' = <<>>
  /\ visiting' = {} /\ visited' = {} /\ order' = <<>>

Raise ==
  /\ search' = "raised"
  /\ UNCHANGED <<visits, visiting, visited, order>>

\* visit(c) from the calls given: a component on the way to itself, and one that
\* is not registered, end the search.
Visit(c, calls) ==
  \/ c \in visiting /\ Raise
  \/ /\ c \notin visiting /\ c \in visited
     /\ visits' = calls
     /\ UNCHANGED <<search, visiting, visited, order>>
  \/ c \notin visiting \cup visited /\ c \notin components /\ Raise
  \/ /\ c \notin visiting \cup visited /\ c \in components
     /\ visiting' = visiting \cup {c}
     /\ visits' = Append(calls, [name |-> c, todo |-> dependencies[c]])
     /\ UNCHANGED <<search, visited, order>>

\* A component that is disabled is passed over here, and no dependency of another.
VisitComponent(c) ==
  /\ search = "running" /\ visits = <<>> /\ c \in toVisit
  /\ toVisit' = toVisit \ {c}
  /\ \/ c \in enabled /\ Visit(c, <<>>)
     \/ c \notin enabled /\ UNCHANGED <<search, visits, visiting, visited, order>>

VisitDependency(d) ==
  /\ search = "running" /\ visits # <<>> /\ d \in Top.todo
  /\ \/ d \in components \ enabled /\ Raise
     \/ d \notin components \ enabled /\ Visit(d, Taken(d))
  /\ UNCHANGED toVisit

\* Faulty: the component is listed before what it depends on.
ListedFirst(c) == <<c>> \o order

ListedLast(c) == Append(order, c)

\* visit() returns: all that its component depends on has been listed.
VisitEnds ==
  /\ search = "running" /\ visits # <<>> /\ Top.todo = {}
  /\ visits' = Front(visits)
  /\ visiting' = visiting \ {Top.name} /\ visited' = visited \cup {Top.name}
  /\ order' = ListedLast(Top.name)
  /\ UNCHANGED <<search, toVisit>>

SearchEnds ==
  /\ search = "running" /\ visits = <<>> /\ toVisit = {}
  /\ search' = "found"
  /\ UNCHANGED <<toVisit, visits, visiting, visited, order>>

SearchStep ==
  \/ \E c \in Components : VisitComponent(c) \/ VisitDependency(c)
  \/ VisitEnds \/ SearchEnds

\* What was found is of no use once something else has been done.
ForgetSearch ==
  /\ search' = "none" /\ toVisit' = {} /\ visits' = <<>>
  /\ visiting' = {} /\ visited' = {} /\ order' = <<>>

\* The thread of the runtime does nothing else during a search.
SearchNext ==
  \/ BeginSearch /\ UNCHANGED vars
  \/ SearchStep /\ UNCHANGED vars
  \/ search # "running" /\ Next /\ ForgetSearch

SearchSpec == SearchInit /\ [][SearchNext]_<<vars, searchVars>>

-----------------------------------------------------------------------------
(* Correctness.                                                            *)

\* "Resolve the complete dependency-aware startup order. Dependencies always
\* appear before the components that require them" (get_start_order): in whatever
\* order it goes through them, the search lists every enabled component once,
\* after all it depends on, and raises only if there is no such order.
SearchFindsOrder ==
  /\ search = "found" => order \in StartOrders
  /\ search = "raised" => StartOrders = {}
=============================================================================
