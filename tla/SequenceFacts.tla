--------------------------- MODULE SequenceFacts ---------------------------
(* Facts about queues of distinct elements, for the proofs of PersistentQueue and WorkerPool. *)
EXTENDS Integers, Sequences, TLAPS

Elements(s) == {s[i] : i \in 1..Len(s)}
Distinct(s) == \A i, j \in 1..Len(s) : s[i] = s[j] => i = j

\* Appending an element that is not there keeps the elements distinct.
LEMMA AppendElements ==
  ASSUME NEW S, NEW s \in Seq(S), NEW x \in S
  PROVE  /\ Append(s, x) \in Seq(S) /\ Len(Append(s, x)) = Len(s) + 1
         /\ Elements(Append(s, x)) = Elements(s) \cup {x}
         /\ Distinct(s) /\ x \notin Elements(s) => Distinct(Append(s, x))
<1>1. Append(s, x) \in Seq(S) /\ Len(Append(s, x)) = Len(s) + 1 /\ Len(s) \in Nat
  OBVIOUS
<1>2. /\ \A i \in 1..Len(s) : Append(s, x)[i] = s[i]
      /\ Append(s, x)[Len(s) + 1] = x
  OBVIOUS
<1>3. Elements(Append(s, x)) = Elements(s) \cup {x}
  <2>1. \A i \in 1..(Len(s) + 1) : i \in 1..Len(s) \/ i = Len(s) + 1
    BY <1>1
  <2>2. 1..Len(s) \subseteq 1..(Len(s) + 1) /\ Len(s) + 1 \in 1..(Len(s) + 1)
    BY <1>1
  <2>3. QED
    BY <1>1, <1>2, <2>1, <2>2 DEF Elements
<1>4. Distinct(s) /\ x \notin Elements(s) => Distinct(Append(s, x))
  <2> SUFFICES ASSUME Distinct(s), x \notin Elements(s),
                      NEW i \in 1..(Len(s) + 1), NEW j \in 1..(Len(s) + 1),
                      Append(s, x)[i] = Append(s, x)[j]
               PROVE  i = j
    BY <1>1 DEF Distinct
  <2>1. CASE i \in 1..Len(s) /\ j \in 1..Len(s)
    BY <2>1, <1>2 DEF Distinct
  <2>2. CASE i \in 1..Len(s) /\ j = Len(s) + 1
    BY <2>2, <1>2 DEF Elements
  <2>3. CASE i = Len(s) + 1 /\ j \in 1..Len(s)
    BY <2>3, <1>2 DEF Elements
  <2>4. QED
    BY <1>1, <2>1, <2>2, <2>3
<1>5. QED
  BY <1>1, <1>3, <1>4

\* Taking the head of a sequence of distinct elements removes it for good.
LEMMA TailElements ==
  ASSUME NEW S, NEW s \in Seq(S), s # <<>>
  PROVE  /\ Tail(s) \in Seq(S) /\ Len(Tail(s)) = Len(s) - 1 /\ Head(s) \in S
         /\ Elements(Tail(s)) \subseteq Elements(s) /\ Head(s) \in Elements(s)
         /\ Distinct(s) => Distinct(Tail(s)) /\ Head(s) \notin Elements(Tail(s))
<1>1. /\ Tail(s) \in Seq(S) /\ Len(Tail(s)) = Len(s) - 1 /\ Head(s) \in S
      /\ Len(s) \in Nat \ {0} /\ Head(s) = s[1]
  OBVIOUS
<1>2. \A i \in 1..Len(Tail(s)) : Tail(s)[i] = s[i + 1] /\ i + 1 \in 1..Len(s) /\ i + 1 # 1
  BY <1>1
<1>3. Elements(Tail(s)) \subseteq Elements(s) /\ Head(s) \in Elements(s)
  <2>1. 1 \in 1..Len(s)
    BY <1>1
  <2>2. QED
    BY <1>1, <1>2, <2>1 DEF Elements
<1>4. ASSUME Distinct(s) PROVE Distinct(Tail(s)) /\ Head(s) \notin Elements(Tail(s))
  <2>1. ASSUME NEW i \in 1..Len(Tail(s)), NEW j \in 1..Len(Tail(s)),
               Tail(s)[i] = Tail(s)[j]
        PROVE  i = j
    <3>1. s[i + 1] = s[j + 1] /\ i + 1 \in 1..Len(s) /\ j + 1 \in 1..Len(s)
      BY <1>2, <2>1
    <3>2. i + 1 = j + 1
      BY <1>4, <3>1 DEF Distinct
    <3>3. QED
      BY <3>2
  <2>2. ASSUME NEW i \in 1..Len(Tail(s)), Tail(s)[i] = Head(s) PROVE FALSE
    <3>1. s[i + 1] = s[1] /\ i + 1 \in 1..Len(s) /\ 1 \in 1..Len(s)
      BY <1>1, <1>2, <2>2
    <3>2. i + 1 = 1
      BY <1>4, <3>1 DEF Distinct
    <3>3. QED
      BY <1>2, <3>2
  <2>3. QED
    BY <2>1, <2>2 DEF Distinct, Elements
<1>5. QED
  BY <1>1, <1>3, <1>4
=============================================================================
