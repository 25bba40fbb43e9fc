--------------------------- MODULE FixtureClosure ---------------------------
(***************************************************************************)
(* What resolve_fixtures promises: starting from nothing, names become     *)
(* known one at a time, each of them a root or requested by a known one,   *)
(* until all such names are known.                                         *)
(***************************************************************************)
CONSTANT Nodes

VARIABLES
  roots,       \* names to start with
  successors,  \* the names a name needs
  known        \* names whose fixtures were collected

Needed == roots \cup UNION {successors[x] : x \in known}

Init ==
  /\ roots \in SUBSET Nodes
  /\ successors \in [Nodes -> SUBSET Nodes]
  /\ known = {}

\* A needed name becomes known.
Learn(x) ==
  /\ x \in Needed \ known
  /\ known' = known \cup {x}
  /\ UNCHANGED <<roots, successors>>

Next == \E x \in Nodes : Learn(x)

vars == <<roots, successors, known>>

\* Everything needed becomes known in the end.
Spec == Init /\ [][Next]_vars /\ WF_vars(Next)
=============================================================================
