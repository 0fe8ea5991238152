------------------------------ MODULE Validator ------------------------------
(***************************************************************************)
(* One call of WorkflowValidator.Validate                                  *)
(* (src/internal/engine/validator.go).  The recursive hasCycle is its      *)
(* stack of calls; which node detectCycles comes to next is up to Go, as   *)
(* it ranges over a map.                                                   *)
(***************************************************************************)
EXTENDS Integers, Sequences, WorkflowGraph

CONSTANT Ids  \* node ids, of nodes and of the ends of edges

VARIABLES
  nodes,      \* the keys of wf.Nodes
  edges,      \* wf.Edges, a sequence of pairs <<source, target>>
  formed,     \* has "nodes" if no id of workflow or nodes is empty and every type is
              \* registered, and "edges" if every edge names its two ends
  pc,         \* the check Validate is at, or its result
  frames,     \* the calls of hasCycle under way: node and index of its loop's next edge
  visited,    \* nodes marked in the map of that name
  recStack    \* and those marked in this one

workflow == <<nodes, edges, formed>>
marks    == <<visited, recStack>>
vars     == <<workflow, pc, frames, marks>>

EdgeSet    == {edges[i] : i \in 1..Len(edges)}
StartNodes == FindStartNodes(nodes, EdgeSet)

-----------------------------------------------------------------------------
(* The checks before the search *)

PassTo(check) == pc' = check
Reject        == pc' = "rejected"

\* The ids of workflow and nodes, and validateNodes
CheckNodes ==
  /\ pc = "nodes"
  /\ IF nodes # {} /\ "nodes" \in formed THEN PassTo("edges") ELSE Reject
  /\ UNCHANGED <<workflow, frames, marks>>

\* validateEdges
CheckEdges ==
  /\ pc = "edges"
  /\ IF "edges" \in formed /\ KnownEndpoints(nodes, EdgeSet) THEN PassTo("search") ELSE Reject
  /\ UNCHANGED <<workflow, frames, marks>>

-----------------------------------------------------------------------------
(* detectCycles and hasCycle *)

Top      == frames[Len(frames)]
Advanced == [frames EXCEPT ![Len(frames)].next = @ + 1]
InLoop   == pc = "search" /\ frames # <<>> /\ Top.next <= Len(edges)
Edge     == edges[Top.next]

\* hasCycle is called with n by the calls in stack
Call(n, stack) ==
  /\ frames' = Append(stack, [node |-> n, next |-> 1])
  /\ visited' = visited \cup {n}
  /\ recStack' = recStack \cup {n}

\* The loop of detectCycles comes to a node that no search has been to
Root ==
  /\ pc = "search" /\ frames = <<>>
  /\ \E n \in nodes \ visited : Call(n, <<>>)
  /\ UNCHANGED <<workflow, pc>>

Descend ==
  /\ InLoop /\ Edge[1] = Top.node /\ Edge[2] \notin visited
  /\ Call(Edge[2], Advanced)
  /\ UNCHANGED <<workflow, pc>>

\* true is returned from call to call
FindCycle ==
  /\ InLoop /\ Edge[1] = Top.node /\ Edge[2] \in visited /\ Edge[2] \in recStack
  /\ Reject
  /\ UNCHANGED <<workflow, frames, marks>>

Skip ==
  /\ InLoop
  /\ Edge[1] = Top.node => Edge[2] \in visited /\ Edge[2] \notin recStack
  /\ frames' = Advanced
  /\ UNCHANGED <<workflow, pc, marks>>

\* Faulty variant: a node stays on the stack
StayOnStack(n) == recStack

\* recStack[nodeID] = false
LeaveStack(n) == recStack \ {n}

\* hasCycle returns false
Return ==
  /\ pc = "search" /\ frames # <<>> /\ Top.next > Len(edges)
  /\ frames' = SubSeq(frames, 1, Len(frames) - 1)
  /\ recStack' = LeaveStack(Top.node)
  /\ UNCHANGED <<workflow, pc, visited>>

SearchEnds ==
  /\ pc = "search" /\ frames = <<>> /\ nodes \subseteq visited
  /\ PassTo("start")
  /\ UNCHANGED <<workflow, frames, marks>>

-----------------------------------------------------------------------------
CheckStart ==
  /\ pc = "start"
  /\ IF StartNodes # {} THEN PassTo("accepted") ELSE Reject
  /\ UNCHANGED <<workflow, frames, marks>>

Results == {"accepted", "rejected"}

Returned == pc \in Results /\ UNCHANGED vars

Init ==
  /\ nodes \in SUBSET Ids /\ edges \in Seq(Ids \X Ids) /\ formed \in SUBSET {"nodes", "edges"}
  /\ pc = "nodes" /\ frames = <<>> /\ visited = {} /\ recStack = {}

Next ==
  \/ CheckNodes \/ CheckEdges
  \/ Root \/ Descend \/ FindCycle \/ Skip \/ Return \/ SearchEnds
  \/ CheckStart \/ Returned

Spec == Init /\ [][Next]_vars

-----------------------------------------------------------------------------
(* Properties *)

\* Validate accepts exactly what can be executed, in whatever order the slice has the edges
\* and the map the nodes: no cycle is missed, no path that meets another is taken for one,
\* and the last check, for a start node, rejects nothing more.
ValidatorAgrees ==
  pc \in Results =>
    (pc = "accepted" <=> formed = {"nodes", "edges"} /\ Executable(nodes, EdgeSet))

-----------------------------------------------------------------------------
(* The inductive invariant of ValidatorProofs *)

\* The nodes the search has left, with all they lead to
Done == visited \ recStack

TypeOK ==
  /\ nodes \subseteq Ids /\ edges \in Seq(Ids \X Ids) /\ formed \subseteq {"nodes", "edges"}
  /\ pc \in {"nodes", "edges", "search", "start"} \cup Results
  /\ frames \in Seq([node : Ids, next : 1..(Len(edges) + 1)])
  /\ visited \subseteq nodes

\* How far Validate has got, and what is known by then
ProgressInv ==
  /\ pc \in {"nodes", "edges"} => visited = {}
  /\ pc \in {"edges", "search", "start", "accepted"} => nodes # {} /\ "nodes" \in formed
  /\ pc \in {"search", "start", "accepted"} =>
       "edges" \in formed /\ KnownEndpoints(nodes, EdgeSet)
  /\ pc \in {"start", "accepted"} => frames = <<>> /\ visited = nodes
  /\ pc = "rejected" => ~(formed = {"nodes", "edges"} /\ Executable(nodes, EdgeSet))

\* The calls are a path in the graph, and recStack marks the nodes on it, each on it once.
StackInv ==
  /\ recStack = {frames[k].node : k \in 1..Len(frames)} /\ recStack \subseteq visited
  /\ \A j, k \in 1..Len(frames) : frames[j].node = frames[k].node => j = k
  /\ \A k \in 1..(Len(frames) - 1) : <<frames[k].node, frames[k + 1].node>> \in EdgeSet

\* An edge that a loop has passed leads to a node that is done, or to the one of the call
\* that the loop waits for.
LoopsInv ==
  \A k \in 1..Len(frames) : \A i \in 1..(frames[k].next - 1) :
    edges[i][1] = frames[k].node =>
      \/ edges[i][2] \in Done
      \/ k < Len(frames) /\ edges[i][2] = frames[k + 1].node

\* What is done leads nowhere else, and has no cycle.
DoneInv ==
  /\ \A e \in EdgeSet : e[1] \in Done => e[2] \in Done
  /\ Acyclic(Done, EdgeSet)

IInv == TypeOK /\ ProgressInv /\ StackInv /\ LoopsInv /\ DoneInv
=============================================================================
