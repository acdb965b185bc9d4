---------------------------- MODULE HazardGraph ----------------------------
(* The hazard relation of the scheduler (src/core/scheduler.cpp): which    *)
(* systems conflict, given what their describe() returns, and which of two *)
(* that do goes first.                                                     *)
EXTENDS Naturals

CONSTANT Desc   \* what each system's describe() returns

\* The lexicographic position of a system's name.
Name(s) == Desc[s].name

Intersects(va, vb) == va \cap vb # {}

have_hazard(a, b) ==
  \/ Intersects(Desc[a].writes_components, Desc[b].reads_components)
  \/ Intersects(Desc[a].reads_components,  Desc[b].writes_components)
  \/ Intersects(Desc[a].writes_components, Desc[b].writes_components)
  \/ Intersects(Desc[a].writes_resources,  Desc[b].reads_resources)
  \/ Intersects(Desc[a].reads_resources,   Desc[b].writes_resources)
  \/ Intersects(Desc[a].writes_resources,  Desc[b].writes_resources)

\* An edge points from the lesser name to the greater.
Edge(i, j) == Name(i) < Name(j) /\ have_hazard(i, j)

Preds(S, j) == {i \in S : Edge(i, j)}
Succs(S, i) == {j \in S : Edge(i, j)}

\* The least name of S: the systems of a set are visited in name order.
IsFirst(S, s) == s \in S /\ \A t \in S : Name(s) <= Name(t)
=============================================================================
