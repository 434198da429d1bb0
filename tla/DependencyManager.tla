-------------------------- MODULE DependencyManager --------------------------
(***************************************************************************)
(* core/dependencies/manager.py: the dependency graph of the services, and *)
(* the depth-first search for the order in which what a component needs is *)
(* started. One action of the search is one turn of its loop, the call of  *)
(* visit() included; the loop goes by name, here it takes what is left of  *)
(* it in any order.                                                        *)
(***************************************************************************)
EXTENDS Naturals, FiniteSets, SequencesExt

CONSTANTS Names,    \* names that may be registered or depended on
          NoName

ASSUME NamesAssumption == IsFiniteSet(Names) /\ NoName \notin Names

VARIABLES
  registered,   \* keys of _dependencies
  needs,        \* its values, {} where there is no key
  answer,       \* of get_start_order: "none", "pending", "found" or "raised"
  root,         \* the component it was asked for
  descent,      \* calls of visit() that have not returned: the component of each,
                \* and what is left of the loop over its dependencies
  entered, done, listed      \* visiting, visited and order

graphVars == <<registered, needs>>
orderVars == <<answer, root, descent, entered, done, listed>>

NotAsked ==
  /\ answer = "none" /\ root = NoName /\ descent = <<>>
  /\ entered = {} /\ done = {} /\ listed = <<>>

GraphInit == registered = {} /\ needs = [c \in Names |-> {}] /\ NotAsked

-----------------------------------------------------------------------------
\* register() adds to what an earlier call gave.
AddNeeds(c, D) ==
  /\ registered' = registered \cup {c}
  /\ needs' = [needs EXCEPT ![c] = @ \cup D]

SetNeeds(c, D) ==
  /\ c \in registered
  /\ needs' = [needs EXCEPT ![c] = D]
  /\ UNCHANGED registered

\* A component that is removed is no longer a dependency of any other.
Unregister(c) ==
  /\ c \in registered
  /\ registered' = registered \ {c}
  /\ needs' = [d \in Names |-> IF d = c THEN {} ELSE needs[d] \ {c}]

Clear == registered' = {} /\ needs' = [c \in Names |-> {}]

-----------------------------------------------------------------------------
Innermost == descent[Len(descent)]

\* The calls, when the innermost has taken d from its loop.
Without(d) == [descent EXCEPT ![Len(descent)].todo = @ \ {d}]

\* Faulty: what is needed twice is listed twice.
ListedAgain(d) == IF d = root THEN listed ELSE Append(listed, d)

\* A dependency is listed once it has been visited, the root never.
Listed(d) ==
  IF d = root \/ Contains(listed, d) THEN listed ELSE Append(listed, d)

RaiseError ==
  /\ answer' = "raised"
  /\ UNCHANGED <<descent, entered, done, listed>>

GetStartOrder(c) ==
  /\ answer # "pending"
  /\ root' = c
  /\ \/ /\ c \in registered /\ answer' = "pending"
        /\ descent' = <<[name |-> c, todo |-> needs[c]]>>
        /\ entered' = {c}
     \/ /\ c \notin registered /\ answer' = "raised"
        /\ descent' = <<>> /\ entered' = {}
  /\ done' = {} /\ listed' = <<>>

\* visit(d) from the loop: a component on the way to itself, and one that is not
\* registered, end the search.
VisitNeeded(d) ==
  /\ answer = "pending" /\ d \in Innermost.todo
  /\ \/ d \in entered /\ RaiseError
     \/ /\ d \notin entered /\ d \in done
        /\ descent' = Without(d) /\ listed' = Listed(d)
        /\ UNCHANGED <<answer, entered, done>>
     \/ d \notin entered \cup done /\ d \notin registered /\ RaiseError
     \/ /\ d \notin entered \cup done /\ d \in registered
        /\ descent' = Append(Without(d), [name |-> d, todo |-> needs[d]])
        /\ entered' = entered \cup {d}
        /\ UNCHANGED <<answer, done, listed>>
  /\ UNCHANGED root

\* visit() returns: the loop that called it lists the component, or the search is
\* over.
Leave ==
  /\ answer = "pending" /\ Innermost.todo = {}
  /\ descent' = Front(descent)
  /\ entered' = entered \ {Innermost.name} /\ done' = done \cup {Innermost.name}
  /\ \/ Len(descent) > 1 /\ listed' = Listed(Innermost.name) /\ UNCHANGED answer
     \/ Len(descent) = 1 /\ answer' = "found" /\ UNCHANGED listed
  /\ UNCHANGED root

OrderStep == (\E d \in Names : VisitNeeded(d)) \/ Leave

Change ==
  \/ \E c \in Names, D \in SUBSET Names : AddNeeds(c, D) \/ SetNeeds(c, D)
  \/ \E c \in Names : Unregister(c)
  \/ Clear

\* What was found is of no use once the graph has changed.
Forget ==
  /\ answer' = "none" /\ root' = NoName /\ descent' = <<>>
  /\ entered' = {} /\ done' = {} /\ listed' = <<>>

\* The graph does not change during a search.
GraphNext ==
  \/ \E c \in Names : GetStartOrder(c) /\ UNCHANGED graphVars
  \/ OrderStep /\ UNCHANGED graphVars
  \/ answer # "pending" /\ Change /\ Forget

GraphSpec == GraphInit /\ [][GraphNext]_<<graphVars, orderVars>>

-----------------------------------------------------------------------------
(* Correctness.                                                            *)

\* The sets that have all that their members need.
Complete == {S \in SUBSET Names : \A c \in S : needs[c] \subseteq S}

\* Everything a component needs, directly or not.
AllNeeds(c) ==
  {d \in Names : \A S \in Complete : needs[c] \subseteq S => d \in S}

\* get_start_order lists everything the component needs, once, each after what
\* it needs itself, and raises exactly if something needed is not registered or
\* needs itself.
OrderIsRight ==
  LET good == \A d \in {root} \cup AllNeeds(root) :
                d \in registered /\ d \notin AllNeeds(d)
  IN  /\ answer = "found" =>
           /\ good
           /\ listed \in SetToSeqs(AllNeeds(root))
           /\ \A i \in DOMAIN listed : \A d \in needs[listed[i]] :
                \E j \in 1 .. i - 1 : listed[j] = d
      /\ answer = "raised" => ~good
=============================================================================
