------------------------- MODULE MCWorkflowExecution -------------------------
(* Instances of WorkflowExecution for TLC: small graphs, validated, run, or both. *)
EXTENDS WorkflowExecution, TLC
CONSTANTS a, b, c, ghost, MaxEdges

MCIds == Nodes \cup {ghost}

\* Shapes on three nodes: fan-out and fan-in, a chain, independent nodes, a cycle
\* behind a start node, nothing but a cycle, a node that waits for an unknown one,
\* and only unknown sources.
FanOut    == <<<<a, b>>, <<a, c>>>>
FanIn     == <<<<a, c>>, <<b, c>>>>
Chain     == <<<<a, b>>, <<a, c>>, <<b, c>>>>
Loose     == <<>>
TailCycle == <<<<a, b>>, <<b, c>>, <<c, b>>>>
AllCycle  == <<<<a, b>>, <<b, c>>, <<c, a>>>>
Dangling  == <<<<ghost, a>>, <<a, b>>>>
Ghosts    == <<<<ghost, a>>, <<ghost, b>>, <<ghost, c>>>>
ValidShapes   == {FanOut, FanIn, Chain, Loose}
InvalidShapes == {TailCycle, AllCycle, Dangling, Ghosts}
Shapes        == ValidShapes \cup InvalidShapes

\* The edges of a slice in every order
Orders(s) == {[i \in 1..Len(s) |-> s[p[i]]] : p \in Permutations(1..Len(s))}

\* Every slice of a few edges between the nodes, and the shapes in every order
AllSlices ==
  UNION {[1..n -> Nodes \X Nodes] : n \in 0..MaxEdges} \cup UNION {Orders(s) : s \in Shapes}

\* One valid workflow, for the run whose storage never fails by itself
OneShape == {FanOut}

SetsOf(slices) == {{s[i] : i \in 1..Len(s)} : s \in slices}
AllWorkflows == SetsOf(AllSlices)
OneWorkflow  == SetsOf(OneShape)
=============================================================================
