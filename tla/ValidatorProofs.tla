--------------------------- MODULE ValidatorProofs ---------------------------
(***************************************************************************)
(* Validate accepts exactly the graphs that can be executed, for every     *)
(* workflow: the calls of hasCycle under way are a path, what the search   *)
(* has left leads only to what it has left, and there is no cycle in it.   *)
(***************************************************************************)
EXTENDS Validator, SequenceTheorems, TLAPS

Frame == [node : Ids, next : 1..(Len(edges) + 1)]

-----------------------------------------------------------------------------
(* Graphs *)

\* The first node of any part of an acyclic workflow is one for FindStartNodes.
LEMMA ExecutableStarts ==
  ASSUME NEW N, NEW E \in SUBSET (Ids \X Ids), Executable(N, E)
  PROVE  FindStartNodes(N, E) # {}
<1>1. PICK n \in N : \A d \in N : <<d, n>> \notin E
  BY DEF Executable, Acyclic
<1>2. ASSUME NEW e \in E PROVE e[2] # n
  <2>1. e = <<e[1], e[2]>> /\ e[1] \in N
    BY DEF Executable, KnownEndpoints
  <2>2. QED
    BY <1>1, <2>1
<1>3. QED
  BY <1>1, <1>2 DEF FindStartNodes

\* A node that leads only to an acyclic part, and not to itself, can join it when the part
\* leads nowhere else.
LEMMA AcyclicGrows ==
  ASSUME NEW D, NEW E, NEW n,
         Acyclic(D, E), \A d \in D : <<d, n>> \notin E, <<n, n>> \notin E
  PROVE  Acyclic(D \cup {n}, E)
<1> SUFFICES ASSUME NEW S \in SUBSET (D \cup {n}), S # {}
             PROVE  \E m \in S : \A d \in S : <<d, m>> \notin E
  BY DEF Acyclic
<1>1. CASE n \in S
  BY <1>1
<1>2. CASE n \notin S
  BY <1>2 DEF Acyclic
<1>3. QED
  BY <1>1, <1>2

\* A set of nodes each of which has an edge from inside it is a cycle, and more.
LEMMA CycleFound ==
  ASSUME NEW N, NEW E, NEW S \in SUBSET N, S # {},
         \A n \in S : \E d \in S : <<d, n>> \in E
  PROVE  ~Executable(N, E)
BY DEF Executable, Acyclic

-----------------------------------------------------------------------------
(* The stack of calls *)

LEMMA EdgesTyped ==
  ASSUME TypeOK
  PROVE  /\ edges \in Seq(Ids \X Ids) /\ Len(edges) \in Nat
         /\ EdgeSet \in SUBSET (Ids \X Ids)
         /\ \A i \in 1..Len(edges) :
              edges[i] \in EdgeSet /\ edges[i] = <<edges[i][1], edges[i][2]>>
<1>1. edges \in Seq(Ids \X Ids)
  BY DEF TypeOK
<1>2. QED
  BY <1>1 DEF EdgeSet

\* What there is at the top when there is a top, and what the loop's step makes of it
LEMMA TopFrame ==
  ASSUME TypeOK, frames # <<>>
  PROVE  /\ frames \in Seq(Frame) /\ Len(frames) \in Nat \ {0}
         /\ Top \in Frame
         /\ Top.next \in 1..(Len(edges) + 1) /\ Len(edges) \in Nat
<1>1. frames \in Seq(Frame) /\ Len(frames) \in Nat \ {0} /\ Len(edges) \in Nat
  BY EdgesTyped DEF TypeOK, Frame
<1>2. Top \in Frame
  BY <1>1 DEF Top
<1>3. QED
  BY <1>1, <1>2 DEF Frame

LEMMA AdvancedFrames ==
  ASSUME TypeOK, InLoop
  PROVE  /\ Advanced \in Seq(Frame) /\ Len(Advanced) = Len(frames)
         /\ \A k \in 1..Len(frames) :
              /\ Advanced[k].node = frames[k].node
              /\ k # Len(frames) => Advanced[k] = frames[k]
         /\ Advanced[Len(frames)].next = Top.next + 1
         /\ Top.next \in 1..Len(edges) /\ Edge \in EdgeSet
         /\ Edge = <<Edge[1], Edge[2]>> /\ Edge[1] \in Ids /\ Edge[2] \in Ids
<1>1. frames # <<>> /\ Top.next <= Len(edges)
  BY DEF InLoop
<1>2. /\ frames \in Seq(Frame) /\ Len(frames) \in Nat \ {0}
      /\ Top \in Frame /\ Top.next \in 1..(Len(edges) + 1) /\ Len(edges) \in Nat
  BY <1>1, TopFrame
<1>3. Top.next \in 1..Len(edges) /\ Top.next + 1 \in 1..(Len(edges) + 1)
  BY <1>1, <1>2
<1>4. /\ Advanced = [frames EXCEPT ![Len(frames)] = [Top EXCEPT !.next = Top.next + 1]]
      /\ [Top EXCEPT !.next = Top.next + 1] \in Frame
  BY <1>2, <1>3 DEF Advanced, Top, Frame
<1>5. /\ Advanced \in Seq(Frame) /\ Len(Advanced) = Len(frames)
      /\ Advanced[Len(frames)] = [Top EXCEPT !.next = Top.next + 1]
      /\ \A k \in 1..Len(frames) : k # Len(frames) => Advanced[k] = frames[k]
  BY <1>2, <1>4
<1>6. Advanced[Len(frames)].node = Top.node /\ Advanced[Len(frames)].next = Top.next + 1
  BY <1>2, <1>5 DEF Frame
<1>7. Edge \in EdgeSet /\ Edge = <<Edge[1], Edge[2]>> /\ Edge[1] \in Ids /\ Edge[2] \in Ids
  BY <1>3, EdgesTyped DEF Edge
<1>8. QED
  BY <1>3, <1>5, <1>6, <1>7 DEF Top

-----------------------------------------------------------------------------
(* What a step has to show *)

\* A step that leaves the marks and the calls alone, of which only the new pc matters
LEMMA PcMoves ==
  ASSUME IInv, UNCHANGED <<workflow, frames, marks>>, ProgressInv',
         pc' \in {"nodes", "edges", "search", "start"} \cup Results
  PROVE  IInv'
<1> USE DEF IInv, workflow, marks
<1>1. EdgeSet' = EdgeSet /\ Done' = Done
  BY DEF EdgeSet, Done
<1>2. TypeOK'
  BY DEF TypeOK
<1>3. StackInv'
  BY <1>1 DEF StackInv
<1>4. LoopsInv'
  BY <1>1 DEF LoopsInv
<1>5. DoneInv'
  BY <1>1 DEF DoneInv
<1>6. QED
  BY <1>2, <1>3, <1>4, <1>5

\* A step of the search, which changes calls and marks
LEMMA SearchMoves ==
  ASSUME IInv, pc = "search", UNCHANGED <<workflow, pc>>
  PROVE  /\ EdgeSet' = EdgeSet
         /\ frames' \in Seq(Frame) /\ visited' \subseteq nodes => TypeOK' /\ ProgressInv'
<1>1. EdgeSet' = EdgeSet
  BY DEF EdgeSet, workflow
<1>2. ASSUME frames' \in Seq(Frame), visited' \subseteq nodes PROVE TypeOK' /\ ProgressInv'
  <2>1. TypeOK'
    BY <1>2 DEF IInv, TypeOK, Frame, workflow
  <2>2. ProgressInv'
    BY <1>1 DEF IInv, ProgressInv, workflow, Results
  <2>3. QED
    BY <2>1, <2>2
<1>3. QED
  BY <1>1, <1>2

LEMMA SkipKeeps == IInv /\ Skip => IInv'
<1> SUFFICES ASSUME IInv, Skip PROVE IInv'
  OBVIOUS
<1>1. InLoop /\ pc = "search" /\ frames' = Advanced /\ UNCHANGED <<workflow, pc, marks>>
  BY DEF Skip, InLoop
<1>2. TypeOK /\ ProgressInv /\ StackInv /\ LoopsInv /\ DoneInv
  BY DEF IInv
<1>3. /\ frames' \in Seq(Frame) /\ Len(frames') = Len(frames)
      /\ \A k \in 1..Len(frames) :
           /\ frames'[k].node = frames[k].node
           /\ k # Len(frames) => frames'[k] = frames[k]
      /\ frames'[Len(frames)].next = Top.next + 1
      /\ Top.next \in 1..Len(edges)
  BY <1>1, <1>2, AdvancedFrames
<1>4. Len(frames) \in Nat \ {0} /\ Len(edges) \in Nat
  BY <1>1, <1>2, TopFrame DEF InLoop
<1>5. EdgeSet' = EdgeSet /\ Done' = Done /\ TypeOK' /\ ProgressInv'
  <2>1. visited' \subseteq nodes
    BY <1>1, <1>2 DEF TypeOK, marks
  <2>2. QED
    BY <1>1, <1>3, <2>1, SearchMoves DEF Done, marks
<1>6. StackInv'
  <2>1. {frames'[k].node : k \in 1..Len(frames')} = {frames[k].node : k \in 1..Len(frames)}
    BY <1>3
  <2>2. \A k \in 1..(Len(frames) - 1) :
          /\ k \in 1..Len(frames) /\ k + 1 \in 1..Len(frames)
          /\ frames'[k].node = frames[k].node /\ frames'[k + 1].node = frames[k + 1].node
    BY <1>3, <1>4
  <2>3. \A k \in 1..(Len(frames') - 1) : <<frames'[k].node, frames'[k + 1].node>> \in EdgeSet'
    BY <1>2, <1>3, <1>5, <2>2 DEF StackInv
  <2>4. \A j, k \in 1..Len(frames') : frames'[j].node = frames'[k].node => j = k
    BY <1>2, <1>3 DEF StackInv
  <2>5. recStack' = recStack /\ visited' = visited
    BY <1>1 DEF marks
  <2>6. QED
    BY <1>2, <2>1, <2>3, <2>4, <2>5 DEF StackInv
<1>7. LoopsInv'
  <2> SUFFICES ASSUME NEW k \in 1..Len(frames), NEW i \in 1..(frames'[k].next - 1),
                      edges[i][1] = frames[k].node
               PROVE  \/ edges[i][2] \in Done
                      \/ k < Len(frames) /\ edges[i][2] = frames[k + 1].node
    <3>1. \A k \in 1..Len(frames) : k < Len(frames) => k + 1 \in 1..Len(frames)
      BY <1>4
    <3>2. QED
      BY <1>1, <1>3, <1>5, <3>1 DEF LoopsInv, workflow
  <2>1. CASE k # Len(frames)
    BY <1>2, <1>3, <2>1 DEF LoopsInv
  <2>2. CASE k = Len(frames) /\ i < Top.next
    <3>1. i \in 1..(frames[k].next - 1)
      BY <1>3, <2>2 DEF Top
    <3>2. QED
      BY <1>2, <3>1 DEF LoopsInv
  <2>3. CASE k = Len(frames) /\ i = Top.next
    BY <2>3 DEF Skip, Edge, Top, Done
  <2>4. QED
    BY <1>3, <2>1, <2>2, <2>3
<1>8. DoneInv'
  BY <1>2, <1>5 DEF DoneInv
<1>9. QED
  BY <1>5, <1>6, <1>7, <1>8 DEF IInv

\* What a new call makes of a path of calls that is prepared for it
LEMMA CallKeeps ==
  ASSUME IInv, pc = "search", UNCHANGED <<workflow, pc>>,
         NEW n \in nodes \ visited, NEW stack \in Seq(Frame), Call(n, stack),
         Len(stack) = Len(frames), \A k \in 1..Len(stack) : stack[k].node = frames[k].node,
         \A k \in 1..Len(stack) : k = Len(stack) => <<stack[k].node, n>> \in EdgeSet,
         \A k \in 1..Len(stack) : \A i \in 1..(stack[k].next - 1) :
           edges[i][1] = stack[k].node =>
             \/ edges[i][2] \in Done
             \/ k < Len(stack) /\ edges[i][2] = stack[k + 1].node
             \/ k = Len(stack) /\ edges[i][2] = n
  PROVE  IInv'
<1> DEFINE new == [node |-> n, next |-> 1]
<1>1. TypeOK /\ ProgressInv /\ StackInv /\ LoopsInv /\ DoneInv
  BY DEF IInv
<1>2. Len(edges) \in Nat /\ new \in Frame
  BY <1>1, EdgesTyped DEF TypeOK, Frame
<1>3. /\ frames' \in Seq(Frame) /\ Len(stack) \in Nat /\ Len(frames') = Len(stack) + 1
      /\ \A k \in 1..Len(stack) : frames'[k] = stack[k]
      /\ frames'[Len(stack) + 1] = new
  BY <1>2 DEF Call
<1> HIDE DEF new
<1>4. visited' = visited \cup {n} /\ recStack' = recStack \cup {n} /\ n \notin visited
  BY DEF Call
<1>5. EdgeSet' = EdgeSet /\ Done' = Done /\ TypeOK' /\ ProgressInv'
  <2>1. visited' \subseteq nodes
    BY <1>1, <1>4 DEF TypeOK
  <2>2. QED
    BY <1>3, <1>4, <2>1, SearchMoves DEF Done
<1>6. \A k \in 1..(Len(stack) + 1) : k \in 1..Len(stack) \/ k = Len(stack) + 1
  BY <1>3
<1>7. \A k \in 1..Len(stack) : frames'[k].node = frames[k].node
  BY <1>3
<1>8. frames'[Len(stack) + 1].node = n /\ frames'[Len(stack) + 1].next = 1
  BY <1>3 DEF new
<1>9. StackInv'
  <2>1. {frames'[k].node : k \in 1..(Len(stack) + 1)}
          = {frames[k].node : k \in 1..Len(stack)} \cup {n}
    BY <1>3, <1>6, <1>7, <1>8
  <2>2. \A k \in 1..Len(stack) : frames[k].node \in visited
    BY <1>1 DEF StackInv
  <2>3. ASSUME NEW j \in 1..Len(frames'), NEW k \in 1..Len(frames'),
               frames'[j].node = frames'[k].node
        PROVE  j = k
    <3>1. CASE j \in 1..Len(stack) /\ k \in 1..Len(stack)
      BY <1>1, <1>7, <2>3, <3>1 DEF StackInv
    <3>2. CASE j = Len(stack) + 1 /\ k = Len(stack) + 1
      BY <3>2
    <3>3. CASE j = Len(stack) + 1 /\ k \in 1..Len(stack)
      BY <1>4, <1>7, <1>8, <2>2, <2>3, <3>3
    <3>4. CASE k = Len(stack) + 1 /\ j \in 1..Len(stack)
      BY <1>4, <1>7, <1>8, <2>2, <2>3, <3>4
    <3>5. QED
      BY <1>3, <1>6, <3>1, <3>2, <3>3, <3>4
  <2>4. ASSUME NEW k \in 1..(Len(frames') - 1)
        PROVE  <<frames'[k].node, frames'[k + 1].node>> \in EdgeSet
    <3>1. k \in 1..Len(stack)
      BY <1>3
    <3>2. CASE k = Len(stack)
      BY <1>3, <1>8, <3>1, <3>2
    <3>3. CASE k # Len(stack)
      <4>1. k \in 1..(Len(frames) - 1) /\ k + 1 \in 1..Len(stack)
        BY <1>3, <3>1, <3>3
      <4>2. QED
        BY <1>1, <1>7, <3>1, <4>1 DEF StackInv
    <3>4. QED
      BY <3>2, <3>3
  <2>5. QED
    BY <1>1, <1>3, <1>4, <1>5, <2>1, <2>3, <2>4 DEF StackInv
<1>10. LoopsInv'
  <2> SUFFICES ASSUME NEW k \in 1..Len(frames'), NEW i \in 1..(frames'[k].next - 1),
                      edges[i][1] = frames'[k].node
               PROVE  \/ edges[i][2] \in Done
                      \/ k < Len(frames') /\ edges[i][2] = frames'[k + 1].node
    BY <1>5 DEF LoopsInv, workflow
  <2>1. k \in 1..Len(stack)
    BY <1>3, <1>6, <1>8
  <2>2. frames'[k] = stack[k]
    BY <1>3, <2>1
  <2>3. CASE k = Len(stack)
    BY <1>3, <1>8, <2>1, <2>2, <2>3
  <2>4. CASE k # Len(stack)
    <3>1. k < Len(stack) /\ k < Len(frames') /\ k + 1 \in 1..Len(stack)
      BY <1>3, <2>1, <2>4
    <3>2. QED
      BY <1>3, <2>1, <2>2, <2>4, <3>1
  <2>5. QED
    BY <2>3, <2>4
<1>11. DoneInv'
  BY <1>1, <1>5 DEF DoneInv
<1>12. QED
  BY <1>5, <1>9, <1>10, <1>11 DEF IInv

LEMMA RootKeeps == IInv /\ Root => IInv'
<1> SUFFICES ASSUME IInv, Root PROVE IInv'
  OBVIOUS
<1>1. PICK n \in nodes \ visited : Call(n, <<>>)
  BY DEF Root
<1>2. pc = "search" /\ frames = <<>> /\ UNCHANGED <<workflow, pc>>
  BY DEF Root
<1> DEFINE none == <<>>
<1>3. none \in Seq(Frame) /\ Len(none) = Len(frames) /\ 1..Len(none) = {}
  BY <1>2
<1>4. Call(n, none)
  BY <1>1
<1> HIDE DEF none
<1>5. QED
  BY <1>1, <1>2, <1>3, <1>4, CallKeeps

LEMMA DescendKeeps == IInv /\ Descend => IInv'
<1> SUFFICES ASSUME IInv, Descend PROVE IInv'
  OBVIOUS
<1>1. /\ InLoop /\ Edge[1] = Top.node /\ Edge[2] \notin visited
      /\ Call(Edge[2], Advanced) /\ UNCHANGED <<workflow, pc>>
  BY DEF Descend
<1>2. pc = "search" /\ frames # <<>>
  BY <1>1 DEF InLoop
<1>3. TypeOK /\ ProgressInv /\ LoopsInv
  BY DEF IInv
<1>4. /\ Advanced \in Seq(Frame) /\ Len(Advanced) = Len(frames)
      /\ \A k \in 1..Len(frames) :
           /\ Advanced[k].node = frames[k].node
           /\ k # Len(frames) => Advanced[k] = frames[k]
      /\ Advanced[Len(frames)].next = Top.next + 1
      /\ Top.next \in 1..Len(edges) /\ Edge \in EdgeSet
      /\ Edge = <<Edge[1], Edge[2]>>
  BY <1>1, <1>3, AdvancedFrames
<1>5. Edge[2] \in nodes \ visited
  BY <1>1, <1>2, <1>3, <1>4 DEF ProgressInv, KnownEndpoints
<1>6. \A k \in 1..Len(Advanced) : k = Len(Advanced) => <<Advanced[k].node, Edge[2]>> \in EdgeSet
  BY <1>1, <1>4 DEF Top
<1>7. Len(frames) \in Nat \ {0} /\ Len(edges) \in Nat
  BY <1>2, <1>3, TopFrame
<1>8. ASSUME NEW k \in 1..Len(Advanced), NEW i \in 1..(Advanced[k].next - 1),
             edges[i][1] = Advanced[k].node
      PROVE  \/ edges[i][2] \in Done
             \/ k < Len(Advanced) /\ edges[i][2] = Advanced[k + 1].node
             \/ k = Len(Advanced) /\ edges[i][2] = Edge[2]
  <2>1. CASE k # Len(frames)
    <3>1. k \in 1..Len(frames) /\ k + 1 \in 1..Len(frames)
      BY <1>4, <1>7, <2>1
    <3>2. QED
      BY <1>3, <1>4, <1>8, <2>1, <3>1 DEF LoopsInv
  <2>2. CASE k = Len(frames) /\ i < Top.next
    <3>1. i \in 1..(frames[k].next - 1)
      BY <1>4, <2>2 DEF Top
    <3>2. QED
      BY <1>3, <1>4, <1>8, <2>2, <3>1 DEF LoopsInv
  <2>3. CASE k = Len(frames) /\ i = Top.next
    BY <1>4, <2>3 DEF Edge
  <2>4. QED
    BY <1>4, <2>1, <2>2, <2>3
<1>9. QED
  BY <1>1, <1>2, <1>4, <1>5, <1>6, <1>8, CallKeeps

LEMMA ReturnKeeps == IInv /\ Return => IInv'
<1> SUFFICES ASSUME IInv, Return PROVE IInv'
  OBVIOUS
<1>1. /\ pc = "search" /\ frames # <<>> /\ Top.next > Len(edges)
      /\ frames' = SubSeq(frames, 1, Len(frames) - 1)
      /\ recStack' = recStack \ {Top.node} /\ UNCHANGED <<workflow, pc, visited>>
  BY DEF Return, LeaveStack
<1>2. TypeOK /\ StackInv /\ LoopsInv /\ DoneInv
  BY DEF IInv
<1>3. /\ frames \in Seq(Frame) /\ Len(frames) \in Nat \ {0}
      /\ Top.next = Len(edges) + 1 /\ Len(edges) \in Nat /\ Top = frames[Len(frames)]
  BY <1>1, <1>2, TopFrame DEF Top
<1>4. /\ frames' \in Seq(Frame) /\ Len(frames') = Len(frames) - 1
      /\ \A k \in 1..(Len(frames) - 1) : frames'[k] = frames[k]
  <2>1. \A k \in 1..(Len(frames) - 1) : frames[k] \in Frame
    BY <1>3
  <2>2. 1 \in Int /\ Len(frames) - 1 \in Int
    BY <1>3
  <2>3. /\ frames' \in Seq(Frame)
        /\ Len(frames') = IF 1 <= Len(frames) - 1 THEN (Len(frames) - 1) - 1 + 1 ELSE 0
        /\ \A k \in 1..((Len(frames) - 1) - 1 + 1) : frames'[k] = frames[1 + k - 1]
    BY <1>1, <2>1, <2>2, SubSeqProperties
  <2>4. Len(frames') = Len(frames) - 1
    <3>1. \A n \in Nat \ {0} : (IF 1 <= n - 1 THEN (n - 1) - 1 + 1 ELSE 0) = n - 1
      OBVIOUS
    <3>2. Len(frames) \in Nat \ {0}
      BY <1>3
    <3>3. QED
      BY <2>3, <3>1, <3>2
  <2>5. ASSUME NEW k \in 1..(Len(frames) - 1) PROVE frames'[k] = frames[k]
    <3>1. k \in 1..((Len(frames) - 1) - 1 + 1) /\ 1 + k - 1 = k
      BY <1>3
    <3>2. frames'[k] = frames[1 + k - 1]
      BY <2>3, <3>1
    <3>3. QED
      BY <3>1, <3>2
  <2>6. QED
    BY <2>3, <2>4, <2>5
<1>5. EdgeSet' = EdgeSet /\ TypeOK' /\ ProgressInv'
  <2>1. visited' \subseteq nodes
    BY <1>1, <1>2 DEF TypeOK
  <2>2. QED
    BY <1>1, <1>4, <2>1, SearchMoves
<1>6. Len(frames) \in 1..Len(frames) /\ Top.node \in recStack /\ Top.node \in visited
  BY <1>2, <1>3 DEF StackInv
<1>7. Done' = Done \cup {Top.node} /\ Top.node \notin Done
  BY <1>1, <1>6 DEF Done
<1>8. StackInv'
  <2>1. \A k \in 1..Len(frames) : k \in 1..(Len(frames) - 1) \/ k = Len(frames)
    BY <1>3
  <2>2. \A k \in 1..(Len(frames) - 1) : k \in 1..Len(frames) /\ frames[k].node # Top.node
    BY <1>2, <1>3, <1>6 DEF StackInv
  <2>3. {frames'[k].node : k \in 1..(Len(frames) - 1)} = recStack \ {Top.node}
    <3>1. {frames'[k].node : k \in 1..(Len(frames) - 1)}
            = {frames[k].node : k \in 1..(Len(frames) - 1)}
      BY <1>4
    <3>2. recStack = {frames[k].node : k \in 1..Len(frames)}
      BY <1>2 DEF StackInv
    <3>3. QED
      BY <1>3, <3>1, <3>2, <2>1, <2>2
  <2>4. ASSUME NEW k \in 1..(Len(frames') - 1)
        PROVE  <<frames'[k].node, frames'[k + 1].node>> \in EdgeSet
    <3>1. k \in 1..(Len(frames) - 1) /\ k + 1 \in 1..(Len(frames) - 1)
      BY <1>3, <1>4
    <3>2. QED
      BY <1>2, <1>4, <3>1 DEF StackInv
  <2>5. \A j, k \in 1..Len(frames') : frames'[j].node = frames'[k].node => j = k
    BY <1>2, <1>4, <2>2 DEF StackInv
  <2>6. recStack' \subseteq visited'
    BY <1>1, <1>2 DEF StackInv
  <2>7. QED
    BY <1>1, <1>4, <1>5, <2>3, <2>4, <2>5, <2>6 DEF StackInv
<1>9. LoopsInv'
  <2> SUFFICES ASSUME NEW k \in 1..(Len(frames) - 1), NEW i \in 1..(frames[k].next - 1),
                      edges[i][1] = frames[k].node
               PROVE  \/ edges[i][2] \in Done \cup {Top.node}
                      \/ k < Len(frames') /\ edges[i][2] = frames'[k + 1].node
    BY <1>1, <1>4, <1>7 DEF LoopsInv, workflow
  <2>1. k \in 1..Len(frames)
    BY <1>3
  <2>2. edges[i][2] \in Done \/ edges[i][2] = frames[k + 1].node
    BY <1>2, <2>1 DEF LoopsInv
  <2>3. CASE k + 1 = Len(frames)
    BY <1>3, <2>2, <2>3
  <2>4. CASE k + 1 # Len(frames)
    <3>1. k < Len(frames') /\ k + 1 \in 1..(Len(frames) - 1)
      BY <1>3, <1>4, <2>4
    <3>2. QED
      BY <1>4, <2>2, <3>1
  <2>5. QED
    BY <2>3, <2>4
<1>10. DoneInv'
  <2>1. ASSUME NEW e \in EdgeSet, e[1] = Top.node PROVE e[2] \in Done
    <3>1. PICK i \in 1..Len(edges) : e = edges[i]
      BY DEF EdgeSet
    <3>2. i \in 1..(frames[Len(frames)].next - 1)
      BY <1>3
    <3>3. QED
      BY <1>2, <1>3, <1>6, <2>1, <3>1, <3>2 DEF LoopsInv
  <2>2. \A e \in EdgeSet : e[1] \in Done \cup {Top.node} => e[2] \in Done \cup {Top.node}
    BY <1>2, <2>1 DEF DoneInv
  <2>3. \A d \in Done : <<d, Top.node>> \notin EdgeSet
    BY <1>2, <1>7 DEF DoneInv
  <2>4. <<Top.node, Top.node>> \notin EdgeSet
    BY <1>7, <2>1
  <2>5. Acyclic(Done, EdgeSet)
    BY <1>2 DEF DoneInv
  <2>6. Acyclic(Done \cup {Top.node}, EdgeSet)
    BY <2>3, <2>4, <2>5, AcyclicGrows
  <2>7. QED
    BY <1>5, <1>7, <2>2, <2>6 DEF DoneInv
<1>11. QED
  BY <1>5, <1>8, <1>9, <1>10 DEF IInv

\* The calls from the one that the edge leads back to, up to the top, are a cycle.
LEMMA FindCycleKeeps == IInv /\ FindCycle => IInv'
<1> SUFFICES ASSUME IInv, FindCycle PROVE IInv'
  OBVIOUS
<1>1. /\ InLoop /\ Edge[1] = Top.node /\ Edge[2] \in recStack
      /\ pc' = "rejected" /\ UNCHANGED <<workflow, frames, marks>>
  BY DEF FindCycle, Reject
<1>2. TypeOK /\ StackInv
  BY DEF IInv
<1>3. /\ frames \in Seq(Frame) /\ Len(frames) \in Nat \ {0}
  BY <1>1, <1>2, TopFrame DEF InLoop
<1>4. <<Top.node, Edge[2]>> \in EdgeSet
  BY <1>1, <1>2, AdvancedFrames
<1>5. PICK j \in 1..Len(frames) : Edge[2] = frames[j].node
  BY <1>1, <1>2 DEF StackInv
<1> DEFINE cycle == {frames[k].node : k \in j..Len(frames)}
<1>6. ASSUME NEW n \in cycle PROVE \E d \in cycle : <<d, n>> \in EdgeSet
  <2>1. PICK k \in j..Len(frames) : n = frames[k].node
    OBVIOUS
  <2>2. CASE k = j
    <3>1. Len(frames) \in j..Len(frames)
      BY <1>3, <1>5
    <3>2. Top.node \in cycle
      BY <3>1 DEF Top
    <3>3. QED
      BY <1>4, <1>5, <2>1, <2>2, <3>2
  <2>3. CASE k # j
    <3>1. k - 1 \in j..Len(frames) /\ k - 1 \in 1..(Len(frames) - 1) /\ (k - 1) + 1 = k
      BY <1>3, <1>5, <2>1, <2>3
    <3>2. <<frames[k - 1].node, frames[(k - 1) + 1].node>> \in EdgeSet
      BY <1>2, <3>1 DEF StackInv
    <3>3. QED
      BY <2>1, <3>1, <3>2
  <2>4. QED
    BY <2>2, <2>3
<1>7. cycle \in SUBSET nodes /\ cycle # {}
  <2>1. \A k \in j..Len(frames) : k \in 1..Len(frames)
    BY <1>3, <1>5
  <2>2. \A k \in 1..Len(frames) : frames[k].node \in nodes
    BY <1>2 DEF StackInv, TypeOK
  <2>3. j \in j..Len(frames)
    BY <1>3, <1>5
  <2>4. QED
    BY <2>1, <2>2, <2>3
<1> HIDE DEF cycle
<1>8. ~Executable(nodes, EdgeSet)
  BY <1>6, <1>7, CycleFound
<1>9. ProgressInv'
  <2>1. EdgeSet' = EdgeSet
    BY <1>1 DEF EdgeSet, workflow
  <2>2. QED
    BY <1>1, <1>8, <2>1 DEF ProgressInv, workflow
<1>10. QED
  BY <1>1, <1>9, PcMoves DEF Results

\* Once every node is done, the last check is for a start node that is there.
LEMMA SearchedIsExecutable ==
  ASSUME IInv, pc \in {"start", "accepted"}
  PROVE  Executable(nodes, EdgeSet) /\ formed = {"nodes", "edges"} /\ StartNodes # {}
<1>1. TypeOK /\ ProgressInv /\ StackInv /\ DoneInv
  BY DEF IInv
<1>2. frames = <<>> /\ visited = nodes /\ nodes # {} /\ KnownEndpoints(nodes, EdgeSet)
  BY <1>1 DEF ProgressInv
<1>3. Done = nodes
  BY <1>1, <1>2 DEF StackInv, Done
<1>4. Executable(nodes, EdgeSet)
  BY <1>1, <1>2, <1>3 DEF Executable, DoneInv
<1>5. formed = {"nodes", "edges"}
  BY <1>1 DEF ProgressInv, TypeOK
<1>6. QED
  BY <1>1, <1>4, <1>5, EdgesTyped, ExecutableStarts DEF StartNodes

LEMMA ChecksKeep == IInv /\ (CheckNodes \/ CheckEdges \/ SearchEnds \/ CheckStart) => IInv'
<1> SUFFICES ASSUME IInv, CheckNodes \/ CheckEdges \/ SearchEnds \/ CheckStart PROVE IInv'
  OBVIOUS
<1>1. UNCHANGED <<workflow, frames, marks>> /\ EdgeSet' = EdgeSet
  BY DEF CheckNodes, CheckEdges, SearchEnds, CheckStart, EdgeSet, workflow
<1>2. TypeOK /\ ProgressInv
  BY DEF IInv
<1>3. ProgressInv' /\ pc' \in {"nodes", "edges", "search", "start"} \cup Results
  <2>1. CASE CheckNodes
    BY <1>1, <1>2, <2>1
       DEF CheckNodes, PassTo, Reject, ProgressInv, Executable, workflow, marks, Results
  <2>2. CASE CheckEdges
    BY <1>1, <1>2, <2>2
       DEF CheckEdges, PassTo, Reject, ProgressInv, Executable, workflow, marks, Results
  <2>3. CASE SearchEnds
    BY <1>1, <1>2, <2>3 DEF SearchEnds, PassTo, ProgressInv, TypeOK, workflow, marks, Results
  <2>4. CASE CheckStart
    <3>1. pc = "start" /\ pc' = "accepted"
      BY <2>4, SearchedIsExecutable DEF CheckStart, PassTo
    <3>2. QED
      BY <1>1, <1>2, <3>1 DEF ProgressInv, workflow, marks, Results
  <2>5. QED
    BY <2>1, <2>2, <2>3, <2>4
<1>4. QED
  BY <1>1, <1>3, PcMoves

-----------------------------------------------------------------------------
(* Theorems *)

LEMMA InitIInv == Init => IInv
<1> SUFFICES ASSUME Init PROVE IInv
  OBVIOUS
<1>1. frames = <<>> /\ visited = {} /\ recStack = {} /\ pc = "nodes"
  BY DEF Init
<1>2. TypeOK
  BY <1>1 DEF Init, TypeOK
<1>3. 1..Len(frames) = {} /\ 1..(Len(frames) - 1) = {}
  BY <1>1
<1>4. StackInv /\ LoopsInv
  BY <1>1, <1>3 DEF StackInv, LoopsInv
<1>5. Done = {}
  BY <1>1 DEF Done
<1>6. DoneInv
  BY <1>5 DEF DoneInv, Acyclic
<1>7. ProgressInv
  BY <1>1 DEF ProgressInv
<1>8. QED
  BY <1>2, <1>4, <1>6, <1>7 DEF IInv

LEMMA NextIInv == IInv /\ [Next]_vars => IInv'
<1> SUFFICES ASSUME IInv, [Next]_vars PROVE IInv'
  OBVIOUS
<1>1. CASE CheckNodes \/ CheckEdges \/ SearchEnds \/ CheckStart
  BY <1>1, ChecksKeep
<1>2. CASE Root
  BY <1>2, RootKeeps
<1>3. CASE Descend
  BY <1>3, DescendKeeps
<1>4. CASE FindCycle
  BY <1>4, FindCycleKeeps
<1>5. CASE Skip
  BY <1>5, SkipKeeps
<1>6. CASE Return
  BY <1>6, ReturnKeeps
<1>7. CASE Returned \/ UNCHANGED vars
  <2>1. UNCHANGED <<workflow, frames, marks>> /\ pc' = pc /\ EdgeSet' = EdgeSet
    BY <1>7 DEF Returned, vars, workflow, EdgeSet
  <2>2. ProgressInv'
    BY <2>1 DEF IInv, ProgressInv, workflow, marks, Results
  <2>3. QED
    BY <2>1, <2>2, PcMoves DEF IInv, TypeOK
<1>8. QED
  BY <1>1, <1>2, <1>3, <1>4, <1>5, <1>6, <1>7 DEF Next

\* At every step of a call of Validate its invariant holds: what it has checked so far holds
\* of the workflow, the calls of hasCycle are a path whose nodes recStack marks, and what
\* they have left is without a cycle and leads nowhere else.
THEOREM Invariance == Spec => []IInv
BY InitIInv, NextIInv, PTL DEF Spec

LEMMA SearchIsExact == IInv => ValidatorAgrees
BY SearchedIsExecutable DEF IInv, ProgressInv, ValidatorAgrees, Results

\* Validate accepts a workflow exactly if its ids and types are given and its graph can be
\* executed: whatever its size, the order of its edges and that of the map of its nodes.
THEOREM ValidateIsExact == Spec => []ValidatorAgrees
BY SearchIsExact, Invariance, PTL

\* The check for a start node, the last of Validate, never rejects a workflow: one without
\* has a cycle, or an edge from an unknown node, and did not get that far.
THEOREM StartNodeIsThere == Spec => [](pc = "start" => StartNodes # {})
<1>1. IInv => (pc = "start" => StartNodes # {})
  BY SearchedIsExecutable
<1>2. QED
  BY <1>1, Invariance, PTL
=============================================================================
