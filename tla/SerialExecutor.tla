--------------------------- MODULE SerialExecutor ---------------------------
(***************************************************************************)
(* What the supervisor promises to whoever wakes an agent: a run of the    *)
(* agent starts after the request, and no agent ever runs twice at once.   *)
(* Requests are not counted: any number of them is served by one run that  *)
(* starts after the last one, and a run may start that nobody needs.       *)
(***************************************************************************)
CONSTANT Agents

VARIABLES
  requested,   \* agents that must run (again)
  running      \* agents that run now

vars == <<requested, running>>

TypeOK == requested \subseteq Agents /\ running \subseteq Agents

Init == requested = {} /\ running = {}

Request(a) ==
  /\ requested' = requested \cup {a}
  /\ UNCHANGED running

\* Requests made before the start are served; some of them may be remembered
\* and cause one run too many.
Start(a) ==
  /\ a \in requested \ running
  /\ running' = running \cup {a}
  /\ requested' \in {requested, requested \ {a}}

\* A run may ask for the next one as it stops.
Stop(a) ==
  /\ a \in running
  /\ running' = running \ {a}
  /\ requested' \in {requested, requested \cup {a}}

Next == \E a \in Agents : Request(a) \/ Start(a) \/ Stop(a)

Spec == Init /\ [][Next]_vars
LiveSpec == Spec /\ \A a \in Agents : SF_vars(Start(a))
=============================================================================
