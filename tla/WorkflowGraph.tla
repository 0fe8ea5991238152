---------------------------- MODULE WorkflowGraph ----------------------------
(* A workflow's graph: the set N of node ids and the set E of edges <<source, target>>. *)

\* Every edge is between nodes of the workflow.
KnownEndpoints(N, E) == \A e \in E : e[1] \in N /\ e[2] \in N

\* Every nonempty set of nodes has one that no edge from inside the set leads to.
Acyclic(N, E) == \A S \in SUBSET N : S # {} => \E n \in S : \A d \in S : <<d, n>> \notin E

\* FindStartNodes looks at every edge, also at one whose source is unknown
FindStartNodes(N, E) == {n \in N : \A e \in E : e[2] # n}

\* What WorkflowValidator.Validate accepts of a graph
Executable(N, E) == N # {} /\ KnownEndpoints(N, E) /\ Acyclic(N, E)
=============================================================================
