--------------------------- MODULE ChannelProofs ---------------------------
(***************************************************************************)
(* Proofs about Channels for every set of threads and objects, every       *)
(* capacity, with and without a bound.                                     *)
(*                                                                         *)
(* The first part is about the ring routines: AddToChannel appends,        *)
(* RetrieveFromChannel takes the oldest element off, ExpandChannel changes *)
(* no element and makes room, and all of them keep the ring well formed.   *)
(* The argument counts in elements, not in slots: a ring of 2m slots whose *)
(* head is at slot 2h holds its i-th element in cell Wrap(h + i - 1, m),   *)
(* the slots 2y + 1 and 2y + 2 of the C array being cell y.                *)
(*                                                                         *)
(* The second part is about the threads.  The inductive invariant is the   *)
(* conjunction of what the model checker tests and of two facts about the  *)
(* calls: what MultiReceiveChannel has still to take is there, because     *)
(* nobody else touches the channel while it holds the mutex, and only the  *)
(* calls that may wait are blocked.  The third part follows migrated       *)
(* objects through the ring.                                               *)
(***************************************************************************)
EXTENDS Channels, WaitListProofs, FiniteSetTheorems

(* The cell at distance x from the first, in a ring of m cells.            *)
Wrap(x, m) == IF x >= m THEN x - m ELSE x

(* A ring of m cells with k elements from cell h on.                       *)
HasShape(c, h, k, m) ==
    /\ c = [slots |-> c.slots, head |-> 2 * h, tail |-> 2 * Wrap(h + k, m),
            size |-> 2 * k, capacity |-> 2 * m]
    /\ c.slots \in [1 .. (2 * m) -> Slot]
    /\ h < m /\ k <= m

(* Halving and doubling.                                                   *)
LEMMA Halves ==
    ASSUME NEW n \in Nat
    PROVE  /\ Even(n) => n \div 2 \in Nat /\ n = 2 * (n \div 2)
           /\ Even(2 * n) /\ (2 * n) \div 2 = n
  BY DEF Even

(* HasShape is RingShape in elements: one direction ...                    *)
LEMMA ShapeIsRing ==
    ASSUME NEW c, NEW h \in Nat, NEW k \in Nat, NEW m \in Nat, HasShape(c, h, k, m)
    PROVE  RingShape(c)
  <1>1. c.head = 2 * h /\ c.tail = 2 * Wrap(h + k, m) /\ c.size = 2 * k /\ c.capacity = 2 * m
    BY DEF HasShape
  <1>2. h < m /\ k <= m /\ c.slots \in [1 .. c.capacity -> Slot]
    BY <1>1 DEF HasShape
  <1>3. Wrap(h + k, m) \in Nat
    BY <1>2 DEF Wrap
  <1>4. c \in [slots : [1 .. c.capacity -> Slot], head : Nat, tail : Nat, size : Nat, capacity : Nat]
    <2>1. 2 * h \in Nat /\ 2 * Wrap(h + k, m) \in Nat /\ 2 * k \in Nat /\ 2 * m \in Nat
      BY <1>3
    <2> QED BY <2>1, <1>1, <1>2 DEF HasShape
  <1>5. Even(c.head) /\ Even(c.size) /\ Even(c.capacity)
    BY <1>1, Halves
  <1>6. c.tail = TailOf(c.head, c.size, c.capacity)
    BY <1>1 DEF TailOf, Wrap
  <1> QED BY <1>1, <1>2, <1>4, <1>5, <1>6 DEF RingShape

(* ... and the other.                                                      *)
LEMMA RingHasShape ==
    ASSUME NEW c, RingShape(c)
    PROVE  \E h, k, m \in Nat : HasShape(c, h, k, m)
  <1> DEFINE h == c.head \div 2
             k == c.size \div 2
             m == c.capacity \div 2
  <1>1. /\ c = [slots |-> c.slots, head |-> c.head, tail |-> c.tail, size |-> c.size, capacity |-> c.capacity]
        /\ c.slots \in [1 .. c.capacity -> Slot]
        /\ c.head \in Nat /\ c.size \in Nat /\ c.capacity \in Nat
    BY DEF RingShape
  <1>2. h \in Nat /\ k \in Nat /\ m \in Nat /\ c.head = 2 * h /\ c.size = 2 * k /\ c.capacity = 2 * m
    BY <1>1, Halves DEF RingShape
  <1> HIDE DEF h, k, m
  <1>3. h < m /\ k <= m
    BY <1>2 DEF RingShape
  <1>4. c.tail = 2 * Wrap(h + k, m)
    BY <1>2 DEF RingShape, TailOf, Wrap
  <1>5. HasShape(c, h, k, m)
    BY <1>1, <1>2, <1>3, <1>4 DEF HasShape
  <1> QED BY <1>2, <1>5

(* The fields of a ring of that shape.                                     *)
LEMMA ShapeFacts ==
    ASSUME NEW c, NEW h \in Nat, NEW k \in Nat, NEW m \in Nat, HasShape(c, h, k, m)
    PROVE  /\ TallyChannel(c) = k
           /\ c.head = 2 * h /\ c.size = 2 * k /\ c.capacity = 2 * m /\ c.tail = 2 * Wrap(h + k, m)
           /\ c.slots \in [1 .. (2 * m) -> Slot]
           /\ h < m /\ k <= m
  <1>1. c.head = 2 * h /\ c.tail = 2 * Wrap(h + k, m) /\ c.size = 2 * k /\ c.capacity = 2 * m
    BY DEF HasShape
  <1>2. h < m /\ k <= m /\ c.slots \in [1 .. (2 * m) -> Slot]
    BY DEF HasShape
  <1>3. TallyChannel(c) = k
    BY <1>1, Halves DEF TallyChannel
  <1> QED BY <1>1, <1>2, <1>3

(* Where InspectChannel finds the i-th element.                            *)
LEMMA PlaceFact ==
    ASSUME NEW c, NEW h \in Nat, NEW k \in Nat, NEW m \in Nat, HasShape(c, h, k, m),
           NEW i \in 1 .. k
    PROVE  Place(c, i) = 2 * Wrap(h + i - 1, m) + 1
  <1>1. c.head = 2 * h /\ c.capacity = 2 * m
    BY DEF HasShape
  <1> QED BY <1>1 DEF Place, Wrap

(* The cells of the elements are distinct, and the cell of the tail is     *)
(* free while the ring is not full.                                        *)
LEMMA WrapFacts ==
    ASSUME NEW h \in Nat, NEW k \in Nat, NEW m \in Nat, h < m, k <= m
    PROVE  /\ \A i \in 1 .. k : Wrap(h + i - 1, m) \in 0 .. (m - 1)
           /\ \A i, j \in 1 .. k : i # j => Wrap(h + i - 1, m) # Wrap(h + j - 1, m)
           /\ Wrap(h + k, m) \in 0 .. (m - 1)
           /\ k < m => \A i \in 1 .. k : Wrap(h + i - 1, m) # Wrap(h + k, m)
  <1>1. \A i \in 1 .. k : Wrap(h + i - 1, m) \in 0 .. (m - 1)
    BY DEF Wrap
  <1>2. \A i, j \in 1 .. k : i # j => Wrap(h + i - 1, m) # Wrap(h + j - 1, m)
    BY DEF Wrap
  <1>3. Wrap(h + k, m) \in 0 .. (m - 1)
    BY DEF Wrap
  <1>4. k < m => \A i \in 1 .. k : Wrap(h + i - 1, m) # Wrap(h + k, m)
    BY DEF Wrap
  <1> QED BY <1>1, <1>2, <1>3, <1>4

(* The head moves on by one cell.                                          *)
LEMMA WrapStep ==
    ASSUME NEW h \in Nat, NEW k \in Nat, NEW m \in Nat, NEW p \in Nat, h < m, k <= m, k = p + 1
    PROVE  /\ Wrap(h + 1, m) \in Nat /\ Wrap(h + 1, m) < m
           /\ Wrap(h + k, m) = Wrap(Wrap(h + 1, m) + p, m)
           /\ \A i \in 1 .. p : Wrap(Wrap(h + 1, m) + i - 1, m) = Wrap(h + (i + 1) - 1, m)
           /\ (IF 2 * h + 2 = 2 * m THEN 0 ELSE 2 * h + 2) = 2 * Wrap(h + 1, m)
  <1>1. Wrap(h + 1, m) = IF h + 1 = m THEN 0 ELSE h + 1
    BY DEF Wrap
  <1>2. Wrap(h + 1, m) \in Nat /\ Wrap(h + 1, m) < m
    BY <1>1
  <1>3. Wrap(h + k, m) = Wrap(Wrap(h + 1, m) + p, m)
    BY <1>1 DEF Wrap
  <1>4. \A i \in 1 .. p : Wrap(Wrap(h + 1, m) + i - 1, m) = Wrap(h + (i + 1) - 1, m)
    BY <1>1 DEF Wrap
  <1>5. (IF 2 * h + 2 = 2 * m THEN 0 ELSE 2 * h + 2) = 2 * Wrap(h + 1, m)
    BY <1>1
  <1> QED BY <1>2, <1>3, <1>4, <1>5

(* Its cells hold objects with their children, the others nothing.         *)
HasElements(c, h, k, m) ==
    /\ \A i \in 1 .. k : /\ c.slots[2 * Wrap(h + i - 1, m) + 1] \in Object
                         /\ c.slots[2 * Wrap(h + i - 1, m) + 2] \in {Null, Moved}
    /\ \A y \in 0 .. (m - 1) :
          (\A i \in 1 .. k : Wrap(h + i - 1, m) # y) =>
              c.slots[2 * y + 1] = Null /\ c.slots[2 * y + 2] = Null

(* HasElements is the rest of RingOK in cells: one direction ...           *)
LEMMA RingHasElements ==
    ASSUME NEW c, RingOK(c), NEW h \in Nat, NEW k \in Nat, NEW m \in Nat, HasShape(c, h, k, m)
    PROVE  HasElements(c, h, k, m)
  <1>1. TallyChannel(c) = k /\ c.capacity = 2 * m
    BY ShapeFacts
  <1>2. h < m /\ k <= m
    BY ShapeFacts
  <1>0. \A i \in 1 .. k : Place(c, i) = 2 * Wrap(h + i - 1, m) + 1
    BY PlaceFact
  <1>3. \A i \in 1 .. k : Wrap(h + i - 1, m) \in 0 .. (m - 1)
    BY <1>2, WrapFacts
  <1>4. \A i \in 1 .. k : /\ c.slots[2 * Wrap(h + i - 1, m) + 1] \in Object
                         /\ c.slots[2 * Wrap(h + i - 1, m) + 2] \in {Null, Moved}
    <2> SUFFICES ASSUME NEW i \in 1 .. k
                 PROVE  /\ c.slots[2 * Wrap(h + i - 1, m) + 1] \in Object
                        /\ c.slots[2 * Wrap(h + i - 1, m) + 2] \in {Null, Moved}
      OBVIOUS
    <2>1. c.slots[Place(c, i)] \in Object /\ c.slots[Place(c, i) + 1] \in {Null, Moved}
      BY <1>1 DEF RingOK
    <2>2. Place(c, i) = 2 * Wrap(h + i - 1, m) + 1
      BY <1>0
    <2>3. Wrap(h + i - 1, m) \in Int
      BY <1>3
    <2>4. Place(c, i) + 1 = 2 * Wrap(h + i - 1, m) + 2
      BY <2>2, <2>3
    <2> QED BY <2>1, <2>2, <2>4
  <1>5. ASSUME NEW y \in 0 .. (m - 1), \A i \in 1 .. k : Wrap(h + i - 1, m) # y
        PROVE  c.slots[2 * y + 1] = Null /\ c.slots[2 * y + 2] = Null
    <2>1. \A i \in 1 .. k : /\ Place(c, i) # 2 * y + 1 /\ Place(c, i) # 2 * y
                           /\ Place(c, i) # 2 * y + 2
      BY <1>0, <1>3, <1>5
    <2>2. 2 * y \notin Elements(c) /\ 2 * y + 1 \notin Elements(c) /\ 2 * y + 2 \notin Elements(c)
      BY <2>1, <1>1 DEF Elements
    <2>3. \A j \in 1 .. c.capacity : j \notin Elements(c) /\ j - 1 \notin Elements(c) => c.slots[j] = Null
      BY DEF RingOK
    <2>4. /\ 2 * y + 1 \in 1 .. c.capacity /\ 2 * y + 2 \in 1 .. c.capacity
          /\ (2 * y + 1) - 1 = 2 * y /\ (2 * y + 2) - 1 = 2 * y + 1
      BY <1>1
    <2> QED BY <2>2, <2>3, <2>4
  <1> QED BY <1>4, <1>5 DEF HasElements

(* ... and the other.                                                      *)
LEMMA ElementsMakeRing ==
    ASSUME NEW c, NEW h \in Nat, NEW k \in Nat, NEW m \in Nat,
           HasShape(c, h, k, m), HasElements(c, h, k, m)
    PROVE  RingOK(c)
  <1>1. TallyChannel(c) = k /\ c.capacity = 2 * m
    BY ShapeFacts
  <1>2. h < m /\ k <= m
    BY ShapeFacts
  <1>0. \A i \in 1 .. k : Place(c, i) = 2 * Wrap(h + i - 1, m) + 1
    BY PlaceFact
  <1>3. \A i \in 1 .. k : Wrap(h + i - 1, m) \in 0 .. (m - 1)
    BY <1>2, WrapFacts
  <1>4. \A i \in 1 .. TallyChannel(c) :
          c.slots[Place(c, i)] \in Object /\ c.slots[Place(c, i) + 1] \in {Null, Moved}
    <2> SUFFICES ASSUME NEW i \in 1 .. k
                 PROVE  c.slots[Place(c, i)] \in Object /\ c.slots[Place(c, i) + 1] \in {Null, Moved}
      BY <1>1
    <2>2. Place(c, i) = 2 * Wrap(h + i - 1, m) + 1
      BY <1>0
    <2>3. Wrap(h + i - 1, m) \in Int
      BY <1>3
    <2>4. Place(c, i) + 1 = 2 * Wrap(h + i - 1, m) + 2
      BY <2>2, <2>3
    <2> QED BY <2>2, <2>4 DEF HasElements
  <1>5. ASSUME NEW j \in 1 .. c.capacity, j \notin Elements(c), j - 1 \notin Elements(c)
        PROVE  c.slots[j] = Null
    <2>1. PICK y \in 0 .. (m - 1) : j = 2 * y + 1 \/ j = 2 * y + 2
      <3> DEFINE y == (j - 1) \div 2
      <3>1. y \in 0 .. (m - 1) /\ (j = 2 * y + 1 \/ j = 2 * y + 2)
        BY <1>1
      <3> QED BY <3>1
    <2>2. \A i \in 1 .. k : 2 * Wrap(h + i - 1, m) + 1 # j /\ 2 * Wrap(h + i - 1, m) + 1 # j - 1
      <3> SUFFICES ASSUME NEW i \in 1 .. k
                   PROVE  2 * Wrap(h + i - 1, m) + 1 \in Elements(c)
        BY <1>5
      <3> QED BY <1>0, <1>1 DEF Elements
    <2>3. \A i \in 1 .. k : Wrap(h + i - 1, m) # y
      BY <2>1, <2>2, <1>3
    <2>4. c.slots[2 * y + 1] = Null /\ c.slots[2 * y + 2] = Null
      BY <2>3 DEF HasElements
    <2> QED BY <2>1, <2>4
  <1>6. RingShape(c)
    BY ShapeIsRing
  <1> QED BY <1>4, <1>5, <1>6 DEF RingOK

(* What InspectChannel returns.                                            *)
LEMMA Contents ==
    ASSUME NEW c, NEW h \in Nat, NEW k \in Nat, NEW m \in Nat,
           HasShape(c, h, k, m), HasElements(c, h, k, m)
    PROVE  /\ InspectChannel(c) \in Seq(Object) /\ Len(InspectChannel(c)) = k
           /\ \A i \in 1 .. k : InspectChannel(c)[i] = c.slots[2 * Wrap(h + i - 1, m) + 1]
  <1>0. TallyChannel(c) = k
    BY ShapeFacts
  <1>1. \A i \in 1 .. k : Place(c, i) = 2 * Wrap(h + i - 1, m) + 1
    BY PlaceFact
  <1>2. InspectChannel(c) = [i \in 1 .. k |-> c.slots[2 * Wrap(h + i - 1, m) + 1]]
    BY <1>0, <1>1 DEF InspectChannel
  <1>3. \A i \in 1 .. k : c.slots[2 * Wrap(h + i - 1, m) + 1] \in Object
    BY DEF HasElements
  <1> QED BY <1>2, <1>3

(* The children of the i-th element.                                       *)
ChildrenAt(c, i) == c.slots[Place(c, i) + 1]

(* The slot they are in.                                                   *)
LEMMA ChildrenFact ==
    ASSUME NEW c, NEW h \in Nat, NEW k \in Nat, NEW m \in Nat, HasShape(c, h, k, m)
    PROVE  /\ TallyChannel(c) = k
           /\ \A i \in 1 .. k : ChildrenAt(c, i) = c.slots[2 * Wrap(h + i - 1, m) + 2]
  <1>0. TallyChannel(c) = k
    BY ShapeFacts
  <1>1. \A i \in 1 .. k : Place(c, i) = 2 * Wrap(h + i - 1, m) + 1
    BY PlaceFact
  <1>2. h < m /\ k <= m
    BY ShapeFacts
  <1>3. \A i \in 1 .. k : Wrap(h + i - 1, m) \in 0 .. (m - 1)
    BY <1>2, WrapFacts
  <1>4. \A i \in 1 .. k : Place(c, i) + 1 = 2 * Wrap(h + i - 1, m) + 2
    BY <1>1, <1>3
  <1> QED BY <1>0, <1>4 DEF ChildrenAt

(* AddToChannel keeps the ring well formed and appends one element.        *)
LEMMA AddToChannelFacts ==
    ASSUME NEW c, RingOK(c), ~ IsFull(c),
           NEW o \in Object, NEW children \in {Null, Moved}
    PROVE  /\ RingOK(AddToChannel(c, o, children))
           /\ InspectChannel(AddToChannel(c, o, children)) = Append(InspectChannel(c), o)
           /\ AddToChannel(c, o, children).capacity = c.capacity
           /\ \A i \in 1 .. TallyChannel(c) :
                 ChildrenAt(AddToChannel(c, o, children), i) = ChildrenAt(c, i)
           /\ ChildrenAt(AddToChannel(c, o, children), TallyChannel(c) + 1) = children
  <1> DEFINE d == AddToChannel(c, o, children)
  <1>1. PICK h, k, m \in Nat : HasShape(c, h, k, m)
    BY RingHasShape DEF RingOK
  <1>2. HasElements(c, h, k, m)
    BY <1>1, RingHasElements
  <1>3. h < m /\ k <= m /\ c.size = 2 * k /\ c.capacity = 2 * m /\ c.slots \in [1 .. (2 * m) -> Slot]
    BY <1>1, ShapeFacts
  <1>4. k < m
    BY <1>3 DEF IsFull
  <1> DEFINE t == Wrap(h + k, m)
  <1>5. /\ t \in 0 .. (m - 1)
        /\ \A i \in 1 .. k : Wrap(h + i - 1, m) # t
        /\ \A i \in 1 .. k : Wrap(h + i - 1, m) \in 0 .. (m - 1)
    BY <1>3, <1>4, WrapFacts
  <1>6. (IF 2 * t + 2 = 2 * m THEN 0 ELSE 2 * t + 2) = 2 * Wrap(h + (k + 1), m)
    BY <1>3, <1>4 DEF Wrap
  <1>7. c = [slots |-> c.slots, head |-> 2 * h, tail |-> 2 * t, size |-> 2 * k, capacity |-> 2 * m]
    BY <1>1 DEF HasShape
  <1> HIDE DEF t
  <1>8. d = [slots |-> [c.slots EXCEPT ![2 * t + 1] = o, ![2 * t + 2] = children],
             head |-> 2 * h, tail |-> 2 * Wrap(h + (k + 1), m), size |-> 2 * k + 2, capacity |-> 2 * m]
    <2>1. c.head = 2 * h /\ c.tail = 2 * t /\ c.size = 2 * k /\ c.capacity = 2 * m
      BY <1>7
    <2> QED BY <2>1, <1>6 DEF AddToChannel
  <1>9. d.slots = [c.slots EXCEPT ![2 * t + 1] = o, ![2 * t + 2] = children] /\ d.capacity = 2 * m
    BY <1>8
  <1>10. /\ d.slots \in [1 .. (2 * m) -> Slot]
         /\ d.slots[2 * t + 1] = o /\ d.slots[2 * t + 2] = children
         /\ \A y \in 0 .. (m - 1) : y # t => /\ d.slots[2 * y + 1] = c.slots[2 * y + 1]
                                            /\ d.slots[2 * y + 2] = c.slots[2 * y + 2]
    <2>1. 2 * t + 1 \in 1 .. (2 * m) /\ 2 * t + 2 \in 1 .. (2 * m) /\ 2 * t + 1 # 2 * t + 2
      BY <1>5
    <2>2. o \in Slot /\ children \in Slot
      BY DEF Slot
    <2>3. \A y \in 0 .. (m - 1) : y # t =>
              /\ 2 * y + 1 \in 1 .. (2 * m) /\ 2 * y + 2 \in 1 .. (2 * m)
              /\ 2 * y + 1 # 2 * t + 1 /\ 2 * y + 1 # 2 * t + 2
              /\ 2 * y + 2 # 2 * t + 1 /\ 2 * y + 2 # 2 * t + 2
      BY <1>5
    <2> QED BY <1>3, <1>9, <2>1, <2>2, <2>3
  <1> HIDE DEF d
  <1>11. HasShape(d, h, k + 1, m)
    <2>1. 2 * k + 2 = 2 * (k + 1) /\ k + 1 <= m
      BY <1>4
    <2> QED BY <1>3, <1>8, <1>9, <1>10, <2>1 DEF HasShape
  <1>12. \A i \in 1 .. k : /\ d.slots[2 * Wrap(h + i - 1, m) + 1] = c.slots[2 * Wrap(h + i - 1, m) + 1]
                          /\ d.slots[2 * Wrap(h + i - 1, m) + 2] = c.slots[2 * Wrap(h + i - 1, m) + 2]
    BY <1>5, <1>10
  <1>13. Wrap(h + (k + 1) - 1, m) = t
    BY DEF t, Wrap
  <1>14. HasElements(d, h, k + 1, m)
    <2>1. ASSUME NEW i \in 1 .. (k + 1)
          PROVE  /\ d.slots[2 * Wrap(h + i - 1, m) + 1] \in Object
                 /\ d.slots[2 * Wrap(h + i - 1, m) + 2] \in {Null, Moved}
      <3>1. CASE i = k + 1
        BY <3>1, <1>10, <1>13
      <3>2. CASE i \in 1 .. k
        BY <3>2, <1>2, <1>12 DEF HasElements
      <3> QED BY <3>1, <3>2
    <2>2. ASSUME NEW y \in 0 .. (m - 1), \A i \in 1 .. (k + 1) : Wrap(h + i - 1, m) # y
          PROVE  d.slots[2 * y + 1] = Null /\ d.slots[2 * y + 2] = Null
      <3>1. y # t
        BY <2>2, <1>13
      <3>2. ASSUME NEW i \in 1 .. k
            PROVE  Wrap(h + i - 1, m) # y
        <4>1. i \in 1 .. (k + 1)
          OBVIOUS
        <4> QED BY <4>1, <2>2, Zenon
      <3> QED BY <3>1, <3>2, <1>2, <1>10 DEF HasElements
    <2> QED BY <2>1, <2>2 DEF HasElements
  <1>15. RingOK(d)
    BY <1>11, <1>14, ElementsMakeRing
  <1>16. InspectChannel(d) = Append(InspectChannel(c), o)
    <2>1. /\ InspectChannel(c) \in Seq(Object) /\ Len(InspectChannel(c)) = k
          /\ \A i \in 1 .. k : InspectChannel(c)[i] = c.slots[2 * Wrap(h + i - 1, m) + 1]
      BY <1>1, <1>2, Contents
    <2>2. /\ InspectChannel(d) \in Seq(Object) /\ Len(InspectChannel(d)) = k + 1
          /\ \A i \in 1 .. (k + 1) : InspectChannel(d)[i] = d.slots[2 * Wrap(h + i - 1, m) + 1]
      BY <1>11, <1>14, Contents
    <2>3. /\ Append(InspectChannel(c), o) \in Seq(Object)
          /\ Len(Append(InspectChannel(c), o)) = k + 1
          /\ \A i \in 1 .. k : Append(InspectChannel(c), o)[i] = InspectChannel(c)[i]
          /\ Append(InspectChannel(c), o)[k + 1] = o
      BY <2>1, AppendProperties
    <2>4. ASSUME NEW i \in 1 .. k
          PROVE  InspectChannel(d)[i] = Append(InspectChannel(c), o)[i]
      <3>1. i \in 1 .. (k + 1)
        OBVIOUS
      <3> QED BY <3>1, <2>1, <2>2, <2>3, <1>12, Zenon
    <2>5. InspectChannel(d)[k + 1] = o
      BY <2>2, <1>10, <1>13
    <2>6. \A i \in 1 .. (k + 1) : InspectChannel(d)[i] = Append(InspectChannel(c), o)[i]
      BY <2>3, <2>4, <2>5
    <2> QED BY <2>2, <2>3, <2>6, SeqEqual
  <1>17. /\ \A i \in 1 .. TallyChannel(c) : ChildrenAt(d, i) = ChildrenAt(c, i)
         /\ ChildrenAt(d, TallyChannel(c) + 1) = children
    <2>1. /\ TallyChannel(c) = k
          /\ \A i \in 1 .. k : ChildrenAt(c, i) = c.slots[2 * Wrap(h + i - 1, m) + 2]
      BY <1>1, ChildrenFact
    <2>2. /\ TallyChannel(d) = k + 1
          /\ \A i \in 1 .. (k + 1) : ChildrenAt(d, i) = d.slots[2 * Wrap(h + i - 1, m) + 2]
      BY <1>11, ChildrenFact
    <2>3. ChildrenAt(d, k + 1) = children
      BY <1>10, <1>13, <2>2
    <2>4. \A i \in 1 .. k : i \in 1 .. (k + 1)
      OBVIOUS
    <2> QED BY <1>12, <2>1, <2>2, <2>3, <2>4, Zenon
  <1> QED BY <1>3, <1>9, <1>15, <1>16, <1>17 DEF d

(* RetrieveFromChannel keeps the ring well formed and removes the oldest   *)
(* element, the one FirstObject is.                                        *)
LEMMA RetrieveFromChannelFacts ==
    ASSUME NEW c, RingOK(c), ~ IsEmpty(c)
    PROVE  /\ RingOK(RetrieveFromChannel(c))
           /\ InspectChannel(c) # <<>>
           /\ FirstObject(c) = Head(InspectChannel(c))
           /\ InspectChannel(RetrieveFromChannel(c)) = Tail(InspectChannel(c))
           /\ RetrieveFromChannel(c).capacity = c.capacity
           /\ FirstChildren(c) = ChildrenAt(c, 1)
           /\ \A i \in 1 .. (TallyChannel(c) - 1) :
                 ChildrenAt(RetrieveFromChannel(c), i) = ChildrenAt(c, i + 1)
  <1> DEFINE d == RetrieveFromChannel(c)
  <1>1. PICK h, k, m \in Nat : HasShape(c, h, k, m)
    BY RingHasShape DEF RingOK
  <1>2. HasElements(c, h, k, m)
    BY <1>1, RingHasElements
  <1>3. h < m /\ k <= m /\ c.size = 2 * k /\ c.capacity = 2 * m /\ c.slots \in [1 .. (2 * m) -> Slot]
    BY <1>1, ShapeFacts, ZenonT(30)
  <1>4. k # 0
    BY <1>3 DEF IsEmpty
  <1> DEFINE g == Wrap(h + 1, m)
             p == k - 1
  <1>0. p \in Nat /\ k = p + 1
    BY <1>4
  <1>5. /\ g \in Nat /\ g < m
        /\ Wrap(h + k, m) = Wrap(g + p, m)
        /\ \A i \in 1 .. p : Wrap(g + i - 1, m) = Wrap(h + (i + 1) - 1, m)
        /\ (IF 2 * h + 2 = 2 * m THEN 0 ELSE 2 * h + 2) = 2 * g
    <2>1. h < m /\ k <= m
      BY <1>3
    <2> QED BY <2>1, <1>0, WrapStep
  <1>6. /\ \A i \in 1 .. k : Wrap(h + i - 1, m) \in 0 .. (m - 1)
        /\ \A i, j \in 1 .. k : i # j => Wrap(h + i - 1, m) # Wrap(h + j - 1, m)
        /\ Wrap(h + 1 - 1, m) = h
    BY <1>3, WrapFacts DEF Wrap
  <1> HIDE DEF g, p
  <1>7. c = [slots |-> c.slots, head |-> 2 * h, tail |-> 2 * Wrap(h + k, m), size |-> 2 * k, capacity |-> 2 * m]
    BY <1>1 DEF HasShape
  <1>8. d = [slots |-> [c.slots EXCEPT ![2 * h + 1] = Null, ![2 * h + 2] = Null],
             head |-> 2 * g, tail |-> 2 * Wrap(g + p, m), size |-> 2 * k - 2, capacity |-> 2 * m]
    <2>1. c.head = 2 * h /\ c.tail = 2 * Wrap(h + k, m) /\ c.size = 2 * k /\ c.capacity = 2 * m
      BY <1>7
    <2> QED BY <2>1, <1>5 DEF RetrieveFromChannel
  <1>9. d.slots = [c.slots EXCEPT ![2 * h + 1] = Null, ![2 * h + 2] = Null] /\ d.capacity = 2 * m
    BY <1>8
  <1>10. /\ d.slots \in [1 .. (2 * m) -> Slot]
         /\ d.slots[2 * h + 1] = Null /\ d.slots[2 * h + 2] = Null
         /\ \A y \in 0 .. (m - 1) : y # h => /\ d.slots[2 * y + 1] = c.slots[2 * y + 1]
                                            /\ d.slots[2 * y + 2] = c.slots[2 * y + 2]
    <2>1. 2 * h + 1 \in 1 .. (2 * m) /\ 2 * h + 2 \in 1 .. (2 * m) /\ 2 * h + 1 # 2 * h + 2
      BY <1>3
    <2>2. Null \in Slot
      BY DEF Slot
    <2>3. \A y \in 0 .. (m - 1) : y # h =>
              /\ 2 * y + 1 \in 1 .. (2 * m) /\ 2 * y + 2 \in 1 .. (2 * m)
              /\ 2 * y + 1 # 2 * h + 1 /\ 2 * y + 1 # 2 * h + 2
              /\ 2 * y + 2 # 2 * h + 1 /\ 2 * y + 2 # 2 * h + 2
      BY <1>3
    <2> QED BY <1>3, <1>9, <2>1, <2>2, <2>3
  <1> HIDE DEF d
  <1>11. HasShape(d, g, p, m)
    <2>1. 2 * k - 2 = 2 * p /\ p <= m
      BY <1>0, <1>3
    <2> QED BY <1>5, <1>8, <1>9, <1>10, <2>1 DEF HasShape
  <1>12. ASSUME NEW i \in 1 .. p
         PROVE  /\ i + 1 \in 1 .. k
                /\ Wrap(g + i - 1, m) = Wrap(h + (i + 1) - 1, m)
                /\ d.slots[2 * Wrap(g + i - 1, m) + 1] = c.slots[2 * Wrap(h + (i + 1) - 1, m) + 1]
                /\ d.slots[2 * Wrap(g + i - 1, m) + 2] = c.slots[2 * Wrap(h + (i + 1) - 1, m) + 2]
    <2>1. i + 1 \in 1 .. k /\ 1 \in 1 .. k /\ i + 1 # 1
      BY <1>0
    <2>2. Wrap(h + (i + 1) - 1, m) # h /\ Wrap(h + (i + 1) - 1, m) \in 0 .. (m - 1)
      BY <2>1, <1>6, Zenon
    <2> QED BY <2>1, <2>2, <1>5, <1>10
  <1>13. HasElements(d, g, p, m)
    <2>1. ASSUME NEW i \in 1 .. p
          PROVE  /\ d.slots[2 * Wrap(g + i - 1, m) + 1] \in Object
                 /\ d.slots[2 * Wrap(g + i - 1, m) + 2] \in {Null, Moved}
      BY <1>2, <1>12 DEF HasElements
    <2>2. ASSUME NEW y \in 0 .. (m - 1), \A i \in 1 .. p : Wrap(g + i - 1, m) # y, y # h
          PROVE  \A i \in 1 .. k : Wrap(h + i - 1, m) # y
      <3> SUFFICES ASSUME NEW i \in 1 .. k
                   PROVE  Wrap(h + i - 1, m) # y
        OBVIOUS
      <3>1. CASE i = 1
        BY <3>1, <2>2, <1>6
      <3>2. CASE i # 1
        <4>1. i - 1 \in 1 .. p /\ (i - 1) + 1 = i
          BY <3>2, <1>0
        <4>2. Wrap(g + (i - 1) - 1, m) = Wrap(h + ((i - 1) + 1) - 1, m)
          BY <4>1, <1>12
        <4> QED BY <4>1, <4>2, <2>2
      <3> QED BY <3>1, <3>2
    <2>3. ASSUME NEW y \in 0 .. (m - 1), \A i \in 1 .. p : Wrap(g + i - 1, m) # y
          PROVE  d.slots[2 * y + 1] = Null /\ d.slots[2 * y + 2] = Null
      <3>1. CASE y = h
        BY <3>1, <1>10
      <3>2. CASE y # h
        BY <3>2, <2>2, <2>3, <1>2, <1>10 DEF HasElements
      <3> QED BY <3>1, <3>2
    <2> QED BY <2>1, <2>3 DEF HasElements
  <1>14. p \in Nat /\ g \in Nat
    BY <1>0, <1>5
  <1>15. RingOK(d)
    BY <1>11, <1>13, <1>14, ElementsMakeRing
  <1>16. /\ InspectChannel(c) \in Seq(Object) /\ Len(InspectChannel(c)) = k
         /\ \A i \in 1 .. k : InspectChannel(c)[i] = c.slots[2 * Wrap(h + i - 1, m) + 1]
    BY <1>1, <1>2, Contents
  <1>17. InspectChannel(c) # <<>>
    BY <1>4, <1>16
  <1>18. FirstObject(c) = Head(InspectChannel(c))
    <2>1. c.head = 2 * h
      BY <1>7
    <2>2. Head(InspectChannel(c)) = InspectChannel(c)[1] /\ 1 \in 1 .. k
      BY <1>4, <1>16
    <2> QED BY <2>1, <2>2, <1>6, <1>16 DEF FirstObject
  <1>19. InspectChannel(d) = Tail(InspectChannel(c))
    <2>2. /\ InspectChannel(d) \in Seq(Object) /\ Len(InspectChannel(d)) = p
          /\ \A i \in 1 .. p : InspectChannel(d)[i] = d.slots[2 * Wrap(g + i - 1, m) + 1]
      BY <1>11, <1>13, <1>14, Contents
    <2>3. /\ Tail(InspectChannel(c)) \in Seq(Object)
          /\ Len(Tail(InspectChannel(c))) = p
          /\ \A i \in 1 .. p : Tail(InspectChannel(c))[i] = InspectChannel(c)[i + 1]
      BY <1>0, <1>16, <1>17, HeadTailProperties
    <2>4. ASSUME NEW i \in 1 .. p
          PROVE  InspectChannel(d)[i] = Tail(InspectChannel(c))[i]
      BY <2>2, <2>3, <1>12, <1>16, Zenon
    <2> QED BY <2>2, <2>3, <2>4, SeqEqual
  <1>20. /\ FirstChildren(c) = ChildrenAt(c, 1)
         /\ \A i \in 1 .. (TallyChannel(c) - 1) : ChildrenAt(d, i) = ChildrenAt(c, i + 1)
    <2>1. /\ TallyChannel(c) = k
          /\ \A i \in 1 .. k : ChildrenAt(c, i) = c.slots[2 * Wrap(h + i - 1, m) + 2]
      BY <1>1, ChildrenFact
    <2>2. /\ TallyChannel(d) = p
          /\ \A i \in 1 .. p : ChildrenAt(d, i) = d.slots[2 * Wrap(g + i - 1, m) + 2]
      BY <1>11, <1>14, ChildrenFact
    <2>3. 1 \in 1 .. k /\ c.head = 2 * h /\ k - 1 = p
      BY <1>0, <1>7
    <2>4. FirstChildren(c) = ChildrenAt(c, 1)
      BY <1>6, <2>1, <2>3 DEF FirstChildren
    <2>5. \A i \in 1 .. p : ChildrenAt(d, i) = ChildrenAt(c, i + 1)
      BY <1>12, <2>1, <2>2, Zenon
    <2> QED BY <2>1, <2>3, <2>4, <2>5
  <1> QED BY <1>3, <1>9, <1>15, <1>17, <1>18, <1>19, <1>20 DEF d

(* The expression for the new capacity is even and larger, as GAP_ASSERT   *)
(* in ExpandChannel claims.                                                *)
LEMMA NewCapacityFacts ==
    ASSUME NEW m \in Nat, m # 0
    PROVE  \E n \in Nat : NewCapacity(2 * m) = 2 * n /\ n > m
  <1> DEFINE grown == ((2 * m) * 25) \div 16
  <1>1. grown \in Nat /\ grown >= 3 * m
    OBVIOUS
  <1> HIDE DEF grown
  <1>2. NewCapacity(2 * m) = (IF grown % 2 = 0 THEN grown + 1 ELSE grown) + 1
    BY DEF NewCapacity, grown
  <1>3. (grown \div 2) + 1 \in Nat /\ (IF grown % 2 = 0 THEN grown + 1 ELSE grown) + 1 = 2 * ((grown \div 2) + 1)
    BY <1>1
  <1>4. (grown \div 2) + 1 > m
    BY <1>1
  <1> QED BY <1>2, <1>3, <1>4

(* ExpandChannel on a full ring: whatever the head, every element keeps    *)
(* its place in the queue, and there is room.                              *)
LEMMA ExpandChannelFacts ==
    ASSUME NEW c, RingOK(c), IsFull(c)
    PROVE  /\ RingOK(ExpandChannel(c))
           /\ ~ IsFull(ExpandChannel(c))
           /\ InspectChannel(ExpandChannel(c)) = InspectChannel(c)
           /\ ExpandChannel(c).capacity > c.capacity
           /\ \A i \in 1 .. TallyChannel(c) :
                 ChildrenAt(ExpandChannel(c), i) = ChildrenAt(c, i)
  <1> DEFINE d == ExpandChannel(c)
  <1>1. PICK h, k, m \in Nat : HasShape(c, h, k, m)
    BY RingHasShape DEF RingOK
  <1>2. HasElements(c, h, k, m)
    BY <1>1, RingHasElements
  <1>3. h < m /\ c.size = 2 * k /\ c.capacity = 2 * m /\ c.slots \in [1 .. (2 * m) -> Slot]
    BY <1>1, ShapeFacts, ZenonT(30)
  <1>4. k = m /\ m # 0
    <2>1. 2 * k = 2 * m
      BY <1>3 DEF IsFull
    <2>2. h < m
      BY <1>3
    <2> QED BY <2>1, <2>2
  <1>5. c.head = 2 * h /\ c.tail = 2 * h
    <2>1. c.head = 2 * h /\ c.tail = 2 * Wrap(h + m, m)
      BY <1>1, <1>4 DEF HasShape
    <2>2. Wrap(h + m, m) = h
      BY DEF Wrap
    <2> QED BY <2>1, <2>2
  <1>6. PICK n \in Nat : NewCapacity(2 * m) = 2 * n /\ n > m
    BY <1>4, NewCapacityFacts
  <1> DEFINE Source(q) == IF 2 * h <= q /\ q < 2 * m THEN q
                          ELSE IF q >= 2 * m THEN q - 2 * m ELSE q - 2 * m + 2 * n
             Copied(q) == (2 * h <= q /\ q < 2 * m) \/ Source(q) < 2 * h
             slots == [j \in 1 .. (2 * n) |-> IF Copied(j - 1) THEN c.slots[Source(j - 1) + 1] ELSE Null]
  <1>7. d = [slots |-> slots, head |-> 2 * h,
             tail |-> IF 2 * h + 2 * m >= 2 * n THEN 2 * h + 2 * m - 2 * n ELSE 2 * h + 2 * m,
             size |-> 2 * m, capacity |-> 2 * n]
    BY <1>3, <1>4, <1>5, <1>6 DEF ExpandChannel
  <1>8. d.slots = slots
    BY <1>7
  <1> HIDE DEF d
  <1>9. \A j \in 1 .. (2 * n) : Copied(j - 1) => Source(j - 1) + 1 \in 1 .. (2 * m)
    BY <1>3, <1>6
  <1>10. d.slots \in [1 .. (2 * n) -> Slot]
    <2>1. \A j \in 1 .. (2 * n) : Copied(j - 1) => c.slots[Source(j - 1) + 1] \in Slot
      BY <1>3, <1>9
    <2> HIDE DEF Source, Copied
    <2> QED BY <1>8, <2>1 DEF Slot
  <1>11. HasShape(d, h, m, n)
    <2>1. (IF 2 * h + 2 * m >= 2 * n THEN 2 * h + 2 * m - 2 * n ELSE 2 * h + 2 * m) = 2 * Wrap(h + m, n)
      BY DEF Wrap
    <2>2. h < n /\ m <= n
      BY <1>3, <1>6
    <2>3. d = [slots |-> d.slots, head |-> 2 * h, tail |-> 2 * Wrap(h + m, n), size |-> 2 * m, capacity |-> 2 * n]
      BY <1>7, <1>8, <2>1
    <2> QED BY <2>2, <2>3, <1>10 DEF HasShape
  <1>12. ASSUME NEW i \in 1 .. m
         PROVE  /\ d.slots[2 * Wrap(h + i - 1, n) + 1] = c.slots[2 * Wrap(h + i - 1, m) + 1]
                /\ d.slots[2 * Wrap(h + i - 1, n) + 2] = c.slots[2 * Wrap(h + i - 1, m) + 2]
    <2> DEFINE x == Wrap(h + i - 1, n)
               y == Wrap(h + i - 1, m)
    <2>1. /\ x \in 0 .. (n - 1) /\ y \in 0 .. (m - 1)
          /\ Copied(2 * x) /\ Copied(2 * x + 1) /\ Source(2 * x) = 2 * y /\ Source(2 * x + 1) = 2 * y + 1
      BY <1>3, <1>6 DEF Wrap
    <2> HIDE DEF x, y, Source, Copied
    <2>2. /\ 2 * x + 1 \in 1 .. (2 * n) /\ 2 * x + 2 \in 1 .. (2 * n)
          /\ (2 * x + 1) - 1 = 2 * x /\ (2 * x + 2) - 1 = 2 * x + 1
      BY <2>1
    <2>3. d.slots[2 * x + 1] = c.slots[2 * y + 1]
      <3>1. d.slots[2 * x + 1] = IF Copied(2 * x) THEN c.slots[Source(2 * x) + 1] ELSE Null
        BY <2>2, <1>8
      <3> QED BY <2>1, <3>1
    <2>4. (2 * y + 1) + 1 = 2 * y + 2
      BY <2>1
    <2>5. d.slots[2 * x + 2] = c.slots[2 * y + 2]
      <3>1. d.slots[2 * x + 2] = IF Copied(2 * x + 1) THEN c.slots[Source(2 * x + 1) + 1] ELSE Null
        BY <2>2, <1>8
      <3> QED BY <2>1, <2>4, <3>1
    <2> QED BY <2>3, <2>5 DEF x, y
  <1>13. ASSUME NEW y \in 0 .. (n - 1), \A i \in 1 .. m : Wrap(h + i - 1, n) # y
         PROVE  d.slots[2 * y + 1] = Null /\ d.slots[2 * y + 2] = Null
    <2>1. ~ Copied(2 * y)
      <3>1. CASE h <= y /\ y < m
        <4>1. y - h + 1 \in 1 .. m /\ Wrap(h + (y - h + 1) - 1, n) = y
          BY <3>1, <1>6 DEF Wrap
        <4> QED BY <4>1, <1>13
      <3>2. CASE y >= m
        <4>1. y - m < h => y - h + 1 \in 1 .. m /\ Wrap(h + (y - h + 1) - 1, n) = y
          BY <3>2, <1>3, <1>6 DEF Wrap
        <4> QED BY <3>2, <4>1, <1>3, <1>13
      <3>3. CASE y < h
        <4>1. y - m + n < h => y + n - h + 1 \in 1 .. m /\ Wrap(h + (y + n - h + 1) - 1, n) = y
          BY <3>3, <1>3, <1>6 DEF Wrap
        <4>2. ~ (y - m + n < h)
          BY <4>1, <1>13
        <4> QED BY <3>3, <4>2, <1>3
      <3> QED BY <3>1, <3>2, <3>3
    <2>2. ~ Copied(2 * y + 1)
      BY <2>1
    <2> HIDE DEF Source, Copied
    <2>3. /\ 2 * y + 1 \in 1 .. (2 * n) /\ 2 * y + 2 \in 1 .. (2 * n)
          /\ (2 * y + 1) - 1 = 2 * y /\ (2 * y + 2) - 1 = 2 * y + 1
      OBVIOUS
    <2> QED BY <2>1, <2>2, <2>3, <1>8
  <1> HIDE DEF Source, Copied, slots
  <1>14. HasElements(d, h, m, n)
    <2>1. \A i \in 1 .. m : /\ d.slots[2 * Wrap(h + i - 1, n) + 1] \in Object
                           /\ d.slots[2 * Wrap(h + i - 1, n) + 2] \in {Null, Moved}
      BY <1>2, <1>4, <1>12 DEF HasElements
    <2> QED BY <2>1, <1>13 DEF HasElements
  <1>15. RingOK(d)
    BY <1>11, <1>14, ElementsMakeRing
  <1>16. InspectChannel(d) = InspectChannel(c)
    <2>1. /\ InspectChannel(c) \in Seq(Object) /\ Len(InspectChannel(c)) = m
          /\ \A i \in 1 .. m : InspectChannel(c)[i] = c.slots[2 * Wrap(h + i - 1, m) + 1]
      BY <1>1, <1>2, <1>4, Contents
    <2>2. /\ InspectChannel(d) \in Seq(Object) /\ Len(InspectChannel(d)) = m
          /\ \A i \in 1 .. m : InspectChannel(d)[i] = d.slots[2 * Wrap(h + i - 1, n) + 1]
      BY <1>11, <1>14, Contents
    <2>3. \A i \in 1 .. m : InspectChannel(d)[i] = InspectChannel(c)[i]
      BY <2>1, <2>2, <1>12, Zenon
    <2> QED BY <2>1, <2>2, <2>3, SeqEqual
  <1>17. ~ IsFull(d) /\ d.capacity > c.capacity
    <2>1. d.size = 2 * m /\ d.capacity = 2 * n /\ c.capacity = 2 * m
      BY <1>3, <1>11 DEF HasShape
    <2>2. 2 * n > 2 * m
      BY <1>6
    <2> QED BY <2>1, <2>2 DEF IsFull
  <1>18. \A i \in 1 .. TallyChannel(c) : ChildrenAt(d, i) = ChildrenAt(c, i)
    <2>1. /\ TallyChannel(c) = m
          /\ \A i \in 1 .. m : ChildrenAt(c, i) = c.slots[2 * Wrap(h + i - 1, m) + 2]
      <3>1. /\ TallyChannel(c) = k
            /\ \A i \in 1 .. k : ChildrenAt(c, i) = c.slots[2 * Wrap(h + i - 1, m) + 2]
        BY <1>1, ChildrenFact
      <3> QED BY <1>4, <3>1
    <2>2. /\ TallyChannel(d) = m
          /\ \A i \in 1 .. m : ChildrenAt(d, i) = d.slots[2 * Wrap(h + i - 1, n) + 2]
      BY <1>11, ChildrenFact
    <2> QED BY <1>12, <2>1, <2>2, Zenon
  <1> QED BY <1>15, <1>16, <1>17, <1>18 DEF d

(* CreateChannel makes an empty ring.                                      *)
LEMMA NewRingFacts ==
    ASSUME NEW n \in Nat, Even(n), n # 0
    PROVE  RingOK(NewRing(n)) /\ InspectChannel(NewRing(n)) = <<>> /\ NewRing(n).capacity = n
  <1> DEFINE c == NewRing(n)
             m == n \div 2
  <1>1. m \in Nat /\ n = 2 * m
    BY Halves
  <1> HIDE DEF m
  <1>2. m # 0 /\ 0 \in Nat
    BY <1>1
  <1>3. c = [slots |-> c.slots, head |-> 0, tail |-> 0, size |-> 0, capacity |-> n]
        /\ c.slots = [i \in 1 .. n |-> Null]
    BY DEF NewRing
  <1> HIDE DEF c
  <1>4. HasShape(c, 0, 0, m)
    <2>1. Wrap(0 + 0, m) = 0 /\ 0 < m /\ 0 <= m
      BY <1>1, <1>2 DEF Wrap
    <2>2. c.slots \in [1 .. (2 * m) -> Slot]
      BY <1>1, <1>3 DEF Slot
    <2> QED BY <1>1, <1>3, <2>1, <2>2 DEF HasShape
  <1>5. HasElements(c, 0, 0, m)
    <2>1. \A y \in 0 .. (m - 1) : c.slots[2 * y + 1] = Null /\ c.slots[2 * y + 2] = Null
      BY <1>1, <1>3
    <2> QED BY <2>1 DEF HasElements
  <1>6. RingOK(c)
    BY <1>1, <1>2, <1>4, <1>5, ElementsMakeRing
  <1>7. InspectChannel(c) \in Seq(Object) /\ Len(InspectChannel(c)) = 0
    BY <1>1, <1>2, <1>4, <1>5, Contents
  <1> QED BY <1>3, <1>6, <1>7, EmptySeq DEF c

(* TallyChannel is the length of the queue, so emptiness can be read off   *)
(* either.                                                                 *)
LEMMA TallyFacts ==
    ASSUME NEW c, RingOK(c)
    PROVE  /\ InspectChannel(c) \in Seq(Object)
           /\ TallyChannel(c) \in Nat /\ TallyChannel(c) = Len(InspectChannel(c))
           /\ IsEmpty(c) <=> TallyChannel(c) = 0
  <1>1. PICK h, k, m \in Nat : HasShape(c, h, k, m)
    BY RingHasShape DEF RingOK
  <1>2. HasElements(c, h, k, m)
    BY <1>1, RingHasElements
  <1>3. TallyChannel(c) = k /\ c.size = 2 * k
    BY <1>1, ShapeFacts
  <1>4. InspectChannel(c) \in Seq(Object) /\ Len(InspectChannel(c)) = k
    BY <1>1, <1>2, Contents
  <1> QED BY <1>3, <1>4 DEF IsEmpty

-----------------------------------------------------------------------------
AmountIsThere ==
    \A t \in Threads : pc[t] = "running" /\ call[t].fn = "multireceive" =>
        call[t].want <= TallyChannel(chan)

WaitingCalls ==
    \A t \in Threads : pc[t] = "blocked" => call[t].fn \in {"send", "receive"}

Inv ==
    /\ TypeOK /\ ChannelOK /\ WaitersOK /\ ReceiverInFlight
    /\ AmountIsThere /\ WaitingCalls

CallType == [fn : Functions, list : Seq(Object), migrate : BOOLEAN, want : Nat]

(* How the number of blocked threads follows a change of pc.               *)
LEMMA BlockedCount ==
    ASSUME NEW t \in Threads
    PROVE  /\ IsFiniteSet(Blocked) /\ Cardinality(Blocked) \in Nat
           /\ Cardinality(Blocked) = 0 <=> Blocked = {}
           /\ t \notin Blocked => Cardinality(Blocked \cup {t}) = Cardinality(Blocked) + 1
           /\ t \in Blocked => Cardinality(Blocked \ {t}) = Cardinality(Blocked) - 1
<1>1. IsFiniteSet(Blocked)
  BY ChannelAssumption, FS_Subset DEF Blocked
<1>2. Cardinality(Blocked) \in Nat
  BY <1>1, FS_CardinalityType
<1>3. Cardinality(Blocked) = 0 <=> Blocked = {}
  BY <1>1, FS_EmptySet
<1>4. t \notin Blocked => Cardinality(Blocked \cup {t}) = Cardinality(Blocked) + 1
  BY <1>1, FS_AddElement
<1>5. t \in Blocked => Cardinality(Blocked \ {t}) = Cardinality(Blocked) - 1
  BY <1>1, FS_RemoveElement
<1> QED BY <1>1, <1>2, <1>3, <1>4, <1>5

(* The channel AddToChannel works on has the same elements, and room if it *)
(* is dynamic.                                                             *)
LEMMA RoomFacts ==
    ASSUME ChannelOK
    PROVE  /\ RingOK(Room)
           /\ InspectChannel(Room) = InspectChannel(chan)
           /\ Dynamic => ~ IsFull(Room)
           /\ ~ Dynamic => Room.capacity = InitCapacity
<1>1. CASE IsFull(chan) /\ Dynamic
  <2>1. Room = ExpandChannel(chan)
    BY <1>1 DEF Room
  <2> QED BY <1>1, <2>1, ExpandChannelFacts DEF ChannelOK
<1>2. CASE ~ (IsFull(chan) /\ Dynamic)
  <2>1. Room = chan
    BY <1>2 DEF Room
  <2> QED BY <1>2, <2>1 DEF ChannelOK
<1> QED BY <1>1, <1>2

(* SignalChannel wakes only blocked threads, and one of them if there is   *)
(* any.                                                                    *)
LEMMA SignalChannelFacts ==
    ASSUME Inv, acquired' = SignalChannel(waiting, queue, acquired)
    PROVE  /\ acquired' \in [Threads -> BOOLEAN]
           /\ \A u \in Threads : acquired'[u] => u \in Blocked
           /\ queue # <<>> => \E u \in Threads : acquired'[u]
<1>1. /\ IsWaitList(queue, Threads) /\ acquired \in [Threads -> BOOLEAN]
      /\ Listed(queue) = Blocked /\ waiting = Cardinality(Blocked)
      /\ \A u \in Threads : acquired[u] => u \in Blocked
  BY DEF Inv, TypeOK, WaitersOK
<1>2. queue # <<>> <=> Blocked # {}
  BY <1>1, EmptyListFacts
<1>3. Blocked \subseteq Threads
  BY DEF Blocked
<1>4. CASE Blocked = {}
  <2>1. waiting = 0
    BY <1>1, <1>4, FS_EmptySet
  <2>2. acquired' = acquired
    BY <2>1 DEF SignalChannel
  <2> QED BY <1>1, <1>2, <1>4, <2>2
<1>5. CASE Blocked # {}
  <2>1. PICK t \in Threads : t \in Blocked
    BY <1>3, <1>5
  <2>2. waiting # 0
    BY <1>1, <1>5, <2>1, BlockedCount
  <2>3. acquired' = SignalMonitor(queue, acquired)
    BY <2>2 DEF SignalChannel
  <2>4. CASE /\ \A u \in Listed(queue) : acquired[u]
             /\ acquired' = acquired
    BY <1>1, <2>1, <2>4
  <2>5. CASE \E u \in Listed(queue) : /\ u \in Threads /\ ~ acquired[u]
                                      /\ acquired' = [acquired EXCEPT ![u] = TRUE]
    <3>1. PICK u \in Listed(queue) : /\ u \in Threads /\ ~ acquired[u]
                                     /\ acquired' = [acquired EXCEPT ![u] = TRUE]
      BY <2>5
    <3>2. /\ acquired' \in [Threads -> BOOLEAN] /\ acquired'[u]
          /\ \A v \in Threads : v # u => acquired'[v] = acquired[v]
      BY <1>1, <3>1
    <3> QED BY <1>1, <3>1, <3>2
  <2> QED BY <1>1, <2>3, <2>4, <2>5, SignalMonitorFacts
<1> QED BY <1>4, <1>5

(* RetrieveFromChannel takes the oldest object off and hands it over.      *)
LEMMA RetrieveFacts ==
    ASSUME Inv, NEW t \in Threads, ~ IsEmpty(chan), Retrieve(t)
    PROVE  /\ ChannelOK'
           /\ region' \in [Object -> Threads \cup {Limbo, Public}]
           /\ result' \in [Threads -> Seq(Object)]
           /\ TallyChannel(chan') = TallyChannel(chan) - 1
           /\ InspectChannel(chan) # <<>>
           /\ InspectChannel(chan)' = Tail(InspectChannel(chan))
           /\ result' = [result EXCEPT ![t] = Append(@, Head(InspectChannel(chan)))]
<1>1. RingOK(chan) /\ chan' = RetrieveFromChannel(chan)
  BY DEF Inv, ChannelOK, Retrieve
<1>2. /\ RingOK(chan') /\ InspectChannel(chan) # <<>>
      /\ FirstObject(chan) = Head(InspectChannel(chan))
      /\ InspectChannel(chan') = Tail(InspectChannel(chan))
      /\ chan'.capacity = chan.capacity
  BY <1>1, RetrieveFromChannelFacts
<1>3. InspectChannel(chan) \in Seq(Object)
  BY <1>1, TallyFacts
<1>4. FirstObject(chan) \in Object
  BY <1>2, <1>3, HeadTailProperties
<1>5. region' \in [Object -> Threads \cup {Limbo, Public}]
  BY <1>4 DEF Retrieve, TakenBy, Inv, TypeOK
<1>6. result' \in [Threads -> Seq(Object)]
  BY <1>4 DEF Retrieve, Inv, TypeOK
<1>7. TallyChannel(chan') = TallyChannel(chan) - 1
  <2>1. TallyChannel(chan') = Len(InspectChannel(chan')) /\ TallyChannel(chan) = Len(InspectChannel(chan))
    BY <1>1, <1>2, TallyFacts
  <2> QED BY <2>1, <1>2, <1>3, HeadTailProperties
<1>8. ChannelOK'
  BY <1>2 DEF ChannelOK, Inv
<1>9. result' = [result EXCEPT ![t] = Append(@, Head(InspectChannel(chan)))]
  BY <1>2 DEF Retrieve
<1> QED BY <1>2, <1>5, <1>6, <1>7, <1>8, <1>9

(* A call that ends leaves nobody running.                                 *)
LEMMA FinishFacts ==
    ASSUME Inv, NEW t \in Threads, pc[t] = "running", Finish(t)
    PROVE  /\ owner' = Nobody
           /\ pc' \in [Threads -> {"ready", "running", "blocked"}]
           /\ call' \in [Threads -> CallType]
           /\ Blocked' = Blocked
           /\ \A u \in Threads : pc'[u] # "running" /\ u # Nobody
<1>1. pc \in [Threads -> {"ready", "running", "blocked"}] /\ call \in [Threads -> CallType]
  BY DEF Inv, TypeOK, CallType
<1>2. \A u \in Threads : pc[u] = "running" <=> owner = u
  BY DEF Inv, WaitersOK
<1>3. Idle \in CallType
  BY EmptySeq DEF Idle, CallType, Functions
<1>4. pc' = [pc EXCEPT ![t] = "ready"] /\ call' = [call EXCEPT ![t] = Idle] /\ owner' = Nobody
  BY DEF Finish
<1>5. pc' \in [Threads -> {"ready", "running", "blocked"}] /\ call' \in [Threads -> CallType]
  BY <1>1, <1>3, <1>4
<1>6. Blocked' = Blocked
  BY <1>1, <1>4 DEF Blocked
<1>7. \A u \in Threads : pc'[u] # "running"
  BY <1>1, <1>2, <1>4
<1> QED BY <1>4, <1>5, <1>6, <1>7, ChannelAssumption

(* What follows when a call ends with a signal, or with the channel empty. *)
LEMMA EndInv ==
    ASSUME Inv, NEW t \in Threads, pc[t] = "running", Finish(t),
           UNCHANGED <<waiting, queue, calls>>,
           ChannelOK', region' \in [Object -> Threads \cup {Limbo, Public}],
           result' \in [Threads -> Seq(Object)],
           \/ acquired' = SignalChannel(waiting, queue, acquired)
           \/ acquired' = acquired /\ (Dynamic => IsEmpty(chan'))
    PROVE  Inv'
<1>1. /\ owner' = Nobody
      /\ pc' \in [Threads -> {"ready", "running", "blocked"}]
      /\ call' \in [Threads -> CallType]
      /\ Blocked' = Blocked
      /\ \A u \in Threads : pc'[u] # "running" /\ u # Nobody
  BY FinishFacts
<1>2. /\ acquired' \in [Threads -> BOOLEAN]
      /\ \A u \in Threads : acquired'[u] => u \in Blocked
      /\ Dynamic /\ queue # <<>> /\ ~ IsEmpty(chan') => \E u \in Threads : acquired'[u]
  <2>1. CASE acquired' = SignalChannel(waiting, queue, acquired)
    BY <2>1, SignalChannelFacts
  <2>2. CASE acquired' = acquired /\ (Dynamic => IsEmpty(chan'))
    BY <2>2 DEF Inv, TypeOK, WaitersOK
  <2> QED BY <2>1, <2>2
<1>3. TypeOK'
  BY <1>1, <1>2 DEF Inv, TypeOK, CallType
<1>4. WaitersOK'
  BY <1>1, <1>2 DEF Inv, WaitersOK
<1>5. ReceiverInFlight'
  BY <1>2 DEF ReceiverInFlight
<1>6. AmountIsThere'
  BY <1>1 DEF AmountIsThere
<1>7. WaitingCalls'
  BY DEF Finish, Inv, TypeOK, WaitingCalls
<1> QED BY <1>3, <1>4, <1>5, <1>6, <1>7 DEF Inv

(* LockChannel.                                                            *)
LEMMA BeginInv ==
    ASSUME Inv, NEW t \in Threads, NEW c \in CallType, Begin(t, c),
           c.fn = "multireceive" => c.want <= TallyChannel(chan)
    PROVE  Inv'
<1>1. /\ pc \in [Threads -> {"ready", "running", "blocked"}] /\ call \in [Threads -> CallType]
      /\ result \in [Threads -> Seq(Object)] /\ calls \in [Threads -> Nat]
  BY DEF Inv, TypeOK, CallType
<1>2. /\ pc[t] = "ready" /\ owner = Nobody /\ owner' = t
      /\ pc' = [pc EXCEPT ![t] = "running"] /\ call' = [call EXCEPT ![t] = c]
      /\ result' = [result EXCEPT ![t] = <<>>] /\ calls' = [calls EXCEPT ![t] = @ + 1]
      /\ UNCHANGED <<chan, region, waiting, queue, acquired>>
  BY DEF Begin
<1>3. Nobody \notin Threads /\ \A u \in Threads : pc[u] # "running"
  BY <1>2, ChannelAssumption DEF Inv, WaitersOK
<1>4. /\ pc' \in [Threads -> {"ready", "running", "blocked"}] /\ call' \in [Threads -> CallType]
      /\ result' \in [Threads -> Seq(Object)] /\ calls' \in [Threads -> Nat]
  BY <1>1, <1>2, EmptySeq
<1>5. Blocked' = Blocked
  BY <1>1, <1>2 DEF Blocked
<1>6. TypeOK'
  BY <1>2, <1>4 DEF Inv, TypeOK, CallType
<1>7. ChannelOK'
  BY <1>2 DEF Inv, ChannelOK
<1>8. WaitersOK'
  <2>1. \A u \in Threads : pc'[u] = "running" <=> owner' = u
    BY <1>1, <1>2, <1>3
  <2> QED BY <1>2, <1>5, <2>1 DEF Inv, WaitersOK
<1>9. ReceiverInFlight'
  BY <1>2, <1>3 DEF ReceiverInFlight
<1>10. AmountIsThere'
  <2> SUFFICES ASSUME NEW u \in Threads, pc'[u] = "running", call'[u].fn = "multireceive"
               PROVE  call'[u].want <= TallyChannel(chan')
    BY DEF AmountIsThere
  <2>1. u = t
    BY <1>1, <1>2, <1>3
  <2>2. call'[u] = c
    BY <2>1, <1>1, <1>2
  <2> QED BY <2>2, <1>2
<1>11. WaitingCalls'
  BY <1>1, <1>2 DEF Inv, WaitingCalls
<1> QED BY <1>6, <1>7, <1>8, <1>9, <1>10, <1>11 DEF Inv

(* WaitChannel: only on a full channel with a capacity, or on an empty     *)
(* one.                                                                    *)
LEMMA WaitChannelInv ==
    ASSUME Inv, NEW t \in Threads, In(t, {"send", "receive"}), WaitChannel(t),
           Dynamic => IsEmpty(chan)
    PROVE  Inv'
<1>1. /\ waiting' = waiting + 1 /\ queue' = AddWaitList(queue, t) /\ owner' = Nobody
      /\ pc' = [pc EXCEPT ![t] = "blocked"]
      /\ UNCHANGED <<chan, region, acquired, call, result, calls>>
      /\ pc[t] = "running" /\ call[t].fn \in {"send", "receive"}
  BY DEF WaitChannel, In
<1>2. /\ pc \in [Threads -> {"ready", "running", "blocked"}] /\ IsWaitList(queue, Threads)
      /\ \A u \in Threads : pc[u] = "running" <=> owner = u
      /\ waiting = Cardinality(Blocked) /\ Listed(queue) = Blocked
      /\ \A u \in Threads : acquired[u] => u \in Blocked
  BY DEF Inv, TypeOK, WaitersOK
<1>3. t \notin Blocked /\ Blocked' = Blocked \cup {t}
  BY <1>1, <1>2 DEF Blocked
<1>4. IsWaitList(queue', Threads) /\ Listed(queue') = Listed(queue) \cup {t}
  BY <1>1, <1>2, <1>3, AddWaitListFacts
<1>5. waiting' = Cardinality(Blocked') /\ waiting' \in Int
  <2>1. Cardinality(Blocked) \in Nat /\ Cardinality(Blocked \cup {t}) = Cardinality(Blocked) + 1
    BY <1>3, BlockedCount
  <2> QED BY <1>1, <1>2, <1>3, <2>1
<1>6. /\ pc' \in [Threads -> {"ready", "running", "blocked"}]
      /\ \A u \in Threads : pc'[u] # "running" /\ u # Nobody
  BY <1>1, <1>2, ChannelAssumption
<1>7. TypeOK'
  BY <1>1, <1>4, <1>5, <1>6 DEF Inv, TypeOK
<1>8. ChannelOK'
  BY <1>1 DEF Inv, ChannelOK
<1>9. WaitersOK'
  BY <1>1, <1>2, <1>3, <1>4, <1>5, <1>6 DEF WaitersOK
<1>10. ReceiverInFlight'
  BY <1>1 DEF ReceiverInFlight
<1>11. AmountIsThere'
  BY <1>6 DEF AmountIsThere
<1>12. WaitingCalls'
  BY <1>1, <1>2 DEF Inv, WaitingCalls
<1> QED BY <1>7, <1>8, <1>9, <1>10, <1>11, <1>12 DEF Inv

(* WaitForMonitor returns inside WaitChannel.                              *)
LEMMA ResumeInv ==
    ASSUME Inv, NEW t \in Threads, Resume(t)
    PROVE  Inv'
<1>1. /\ pc[t] = "blocked" /\ owner = Nobody /\ owner' = t /\ waiting' = waiting - 1
      /\ queue' = RemoveWaitList(queue, t) /\ acquired' = [acquired EXCEPT ![t] = FALSE]
      /\ pc' = [pc EXCEPT ![t] = "running"]
      /\ UNCHANGED <<chan, region, call, result, calls>>
  BY DEF Resume
<1>2. /\ pc \in [Threads -> {"ready", "running", "blocked"}] /\ IsWaitList(queue, Threads)
      /\ acquired \in [Threads -> BOOLEAN]
      /\ \A u \in Threads : pc[u] = "running" <=> owner = u
      /\ waiting = Cardinality(Blocked) /\ Listed(queue) = Blocked
      /\ \A u \in Threads : acquired[u] => u \in Blocked
  BY DEF Inv, TypeOK, WaitersOK
<1>3. t \in Blocked /\ Blocked' = Blocked \ {t}
  BY <1>1, <1>2 DEF Blocked
<1>4. IsWaitList(queue', Threads) /\ Listed(queue') = Listed(queue) \ {t}
  BY <1>1, <1>2, <1>3, RemoveWaitListFacts
<1>5. waiting' = Cardinality(Blocked') /\ waiting' \in Int
  <2>1. Cardinality(Blocked) \in Nat /\ Cardinality(Blocked \ {t}) = Cardinality(Blocked) - 1
    BY <1>3, BlockedCount
  <2> QED BY <1>1, <1>2, <1>3, <2>1
<1>6. /\ pc' \in [Threads -> {"ready", "running", "blocked"}]
      /\ acquired' \in [Threads -> BOOLEAN]
      /\ t # Nobody
      /\ \A u \in Threads : pc'[u] = "running" <=> u = t
      /\ \A u \in Threads : acquired'[u] => acquired[u] /\ u # t
  BY <1>1, <1>2, ChannelAssumption
<1>7. TypeOK'
  BY <1>1, <1>4, <1>5, <1>6 DEF Inv, TypeOK
<1>8. ChannelOK'
  BY <1>1 DEF Inv, ChannelOK
<1>9. WaitersOK'
  BY <1>1, <1>2, <1>3, <1>4, <1>5, <1>6 DEF WaitersOK
<1>10. ReceiverInFlight'
  BY <1>1, <1>6 DEF ReceiverInFlight
<1>11. AmountIsThere'
  BY <1>1, <1>6 DEF Inv, WaitingCalls, AmountIsThere
<1>12. WaitingCalls'
  BY <1>1, <1>2 DEF Inv, WaitingCalls
<1> QED BY <1>7, <1>8, <1>9, <1>10, <1>11, <1>12 DEF Inv

(* A step of the thread that holds the mutex that keeps it, and leaves the *)
(* waiters alone.                                                          *)
LEMMA InsideInv ==
    ASSUME Inv, NEW t \in Threads, pc[t] = "running",
           UNCHANGED <<owner, waiting, queue, acquired, pc, calls>>,
           ChannelOK', region' \in [Object -> Threads \cup {Limbo, Public}],
           result' \in [Threads -> Seq(Object)],
           NEW c \in CallType, call' = [call EXCEPT ![t] = c],
           c.fn = "multireceive" => c.want <= TallyChannel(chan')
    PROVE  Inv'
<1>1. /\ call \in [Threads -> CallType] /\ pc \in [Threads -> {"ready", "running", "blocked"}]
      /\ \A u \in Threads : pc[u] = "running" <=> owner = u
  BY DEF Inv, TypeOK, WaitersOK, CallType
<1>2. /\ call' \in [Threads -> CallType] /\ call'[t] = c
      /\ \A u \in Threads : u # t => call'[u] = call[u]
  BY <1>1
<1>3. \A u \in Threads : pc[u] = "running" => u = t
  BY <1>1
<1>4. owner' = t /\ t # Nobody
  BY <1>1, ChannelAssumption
<1>5. TypeOK'
  BY <1>2 DEF Inv, TypeOK, CallType
<1>6. WaitersOK'
  BY DEF Inv, WaitersOK, Blocked
<1>7. ReceiverInFlight'
  BY <1>4 DEF ReceiverInFlight
<1>8. AmountIsThere'
  BY <1>2, <1>3 DEF AmountIsThere
<1>9. WaitingCalls'
  BY <1>1, <1>2 DEF Inv, WaitingCalls
<1> QED BY <1>5, <1>6, <1>7, <1>8, <1>9 DEF Inv

(* One element is added: ExpandChannel if need be, then AddToChannel.      *)
LEMMA SendOneFacts ==
    ASSUME Inv, NEW t \in Threads, SendOne(t)
    PROVE  /\ Inv'
           /\ Head(call[t].list) \in Object
           /\ InspectChannel(chan)' = Append(InspectChannel(chan), Head(call[t].list))
<1> DEFINE o == Head(call[t].list)
           moves == call[t].migrate /\ region[o] = t
           children == IF moves THEN Moved ELSE Null
           c == [call[t] EXCEPT !.list = Tail(call[t].list)]
<1>1. call[t] \in CallType /\ call[t].list \in Seq(Object) /\ call[t].list # <<>>
  BY DEF Inv, TypeOK, CallType, SendOne
<1>2. o \in Object /\ Tail(call[t].list) \in Seq(Object)
  BY <1>1, HeadTailProperties
<1>3. /\ pc[t] = "running" /\ call[t].fn \in {"send", "trysend", "trymulti"}
      /\ ~ IsFull(Room)
      /\ chan' = AddToChannel(Room, o, children)
      /\ region' = IF moves THEN [region EXCEPT ![o] = Limbo] ELSE region
      /\ call' = [call EXCEPT ![t] = c]
      /\ UNCHANGED <<owner, waiting, queue, acquired, pc, result, calls>>
  BY DEF SendOne, In
<1>4. c \in CallType /\ c.fn = call[t].fn
  BY <1>1, <1>2 DEF CallType
<1>5. children \in {Null, Moved}
  OBVIOUS
<1> HIDE DEF o, moves, children, c
<1>6. /\ RingOK(Room) /\ InspectChannel(Room) = InspectChannel(chan)
      /\ ~ Dynamic => Room.capacity = InitCapacity
  BY RoomFacts DEF Inv
<1>7. /\ RingOK(chan') /\ InspectChannel(chan') = Append(InspectChannel(chan), o)
      /\ chan'.capacity = Room.capacity
  BY <1>2, <1>3, <1>5, <1>6, AddToChannelFacts
<1>8. ChannelOK'
  BY <1>6, <1>7 DEF ChannelOK
<1>9. region' \in [Object -> Threads \cup {Limbo, Public}] /\ result' \in [Threads -> Seq(Object)]
  BY <1>2, <1>3 DEF Inv, TypeOK
<1>10. Inv'
  BY <1>3, <1>4, <1>8, <1>9, InsideInv
<1> QED BY <1>2, <1>7, <1>10 DEF o

(* One element of those MultiReceiveChannel counted is taken.              *)
LEMMA MultiReceiveOneInv ==
    ASSUME Inv, NEW t \in Threads, MultiReceiveOne(t)
    PROVE  ~ IsEmpty(chan) /\ Inv'
<1> DEFINE c == [call[t] EXCEPT !.want = call[t].want - 1]
<1>1. call[t] \in CallType /\ call[t].want \in Nat /\ call[t].want > 0
  BY DEF Inv, TypeOK, CallType, MultiReceiveOne
<1>2. pc[t] = "running" /\ call[t].want <= TallyChannel(chan)
  BY DEF Inv, AmountIsThere, MultiReceiveOne, In
<1>3. TallyChannel(chan) \in Nat /\ (IsEmpty(chan) <=> TallyChannel(chan) = 0)
  BY TallyFacts DEF Inv, ChannelOK
<1>4. ~ IsEmpty(chan)
  BY <1>1, <1>2, <1>3
<1>5. /\ Retrieve(t) /\ call' = [call EXCEPT ![t] = c]
      /\ UNCHANGED <<owner, waiting, queue, acquired, pc, calls>>
  BY DEF MultiReceiveOne
<1>6. c \in CallType /\ c.want = call[t].want - 1
  BY <1>1 DEF CallType
<1> HIDE DEF c
<1>7. /\ ChannelOK' /\ region' \in [Object -> Threads \cup {Limbo, Public}]
      /\ result' \in [Threads -> Seq(Object)]
      /\ TallyChannel(chan') = TallyChannel(chan) - 1
  BY <1>4, <1>5, RetrieveFacts
<1>8. c.want <= TallyChannel(chan')
  BY <1>1, <1>2, <1>3, <1>6, <1>7
<1> QED BY <1>2, <1>4, <1>5, <1>6, <1>7, <1>8, InsideInv

(* InspectChannel changes nothing but its own result.                      *)
LEMMA InspectInv ==
    ASSUME Inv, NEW t \in Threads, Inspect(t)
    PROVE  Inv'
<1>1. InspectChannel(chan) \in Seq(Object)
  BY TallyFacts DEF Inv, ChannelOK
<1>2. /\ result' = [result EXCEPT ![t] = InspectChannel(chan)]
      /\ calls' = [calls EXCEPT ![t] = @ + 1]
      /\ UNCHANGED <<chan, region, owner, waiting, queue, acquired, pc, call>>
  BY DEF Inspect
<1>3. result' \in [Threads -> Seq(Object)] /\ calls' \in [Threads -> Nat]
  BY <1>1, <1>2 DEF Inv, TypeOK
<1> QED BY <1>2, <1>3 DEF Inv, TypeOK, ChannelOK, WaitersOK, Blocked, ReceiverInFlight,
                          AmountIsThere, WaitingCalls

(* The calls the Begin actions start are calls.                            *)
LEMMA BeginCallInv ==
    ASSUME Inv, NEW t \in Threads, BeginSend(t) \/ BeginReceive(t) \/ BeginMultiReceive(t)
    PROVE  Inv'
<1>1. CASE BeginSend(t)
  <2>1. PICK c \in SendCalls : Begin(t, c)
    BY <1>1 DEF BeginSend
  <2>2. c \in CallType /\ c.fn # "multireceive"
    <3>1. Lists \subseteq Seq(Object)
      BY ChannelAssumption
    <3>2. CASE c \in [fn : {"send", "trymulti"}, list : Lists, migrate : BOOLEAN, want : {0}]
      BY <3>1, <3>2 DEF CallType, Functions
    <3>3. CASE c \in [fn : {"trysend"}, list : {l \in Lists : Len(l) = 1}, migrate : BOOLEAN,
                      want : {0}]
      BY <3>1, <3>3 DEF CallType, Functions
    <3> QED BY <3>2, <3>3 DEF SendCalls
  <2> QED BY <2>1, <2>2, BeginInv
<1>2. CASE BeginReceive(t)
  <2>1. PICK c \in ReceiveCalls : Begin(t, c)
    BY <1>2 DEF BeginReceive
  <2>2. c \in CallType /\ c.fn # "multireceive"
    <3>1. <<>> \in Seq(Object)
      BY EmptySeq
    <3>2. /\ c.fn \in {"receive", "tryreceive"} /\ c.list = <<>> /\ c.migrate = FALSE /\ c.want = 1
          /\ c = [fn |-> c.fn, list |-> c.list, migrate |-> c.migrate, want |-> c.want]
      BY DEF ReceiveCalls
    <3>3. c.list \in Seq(Object) /\ c.migrate \in BOOLEAN
      BY <3>1, <3>2, Zenon
    <3>5. c.want \in Nat
      BY <3>2
    <3>4. c.fn \in Functions /\ c.fn # "multireceive"
      BY <3>2 DEF Functions
    <3> QED BY <3>2, <3>3, <3>4, <3>5 DEF CallType
  <2> QED BY <2>1, <2>2, BeginInv
<1>3. CASE BeginMultiReceive(t)
  <2>1. PICK n \in Amounts :
          Begin(t, MultiReceiveCall(IF n > TallyChannel(chan) THEN TallyChannel(chan) ELSE n))
    BY <1>3 DEF BeginMultiReceive
  <2> DEFINE k == IF n > TallyChannel(chan) THEN TallyChannel(chan) ELSE n
  <2>2. TallyChannel(chan) \in Nat /\ n \in Nat
    BY TallyFacts, ChannelAssumption DEF Inv, ChannelOK
  <2>3. k \in Nat /\ k <= TallyChannel(chan)
    BY <2>2
  <2> HIDE DEF k
  <2>4. MultiReceiveCall(k) \in CallType /\ MultiReceiveCall(k).want = k
    BY <2>3, EmptySeq DEF MultiReceiveCall, CallType, Functions
  <2> QED BY <2>1, <2>3, <2>4, BeginInv DEF k
<1> QED BY <1>1, <1>2, <1>3

(* What CreateChannel leaves behind satisfies the inductive invariant.         *)
LEMMA InitInv == Init => Inv
<1> SUFFICES ASSUME Init PROVE Inv
  OBVIOUS
<1>1. IsWaitList(<<>>, Threads) /\ Listed(<<>>) = {}
  <2>1. <<>> \in Seq(Threads) /\ Len(<<>>) = 0
    BY EmptySeq
  <2>2. IsWaitList(<<>>, Threads)
    BY <2>1 DEF IsWaitList
  <2> QED BY <2>2, EmptyListFacts
<1>2. Blocked = {} /\ Cardinality({}) = 0
  BY FS_EmptySet DEF Init, Blocked
<1>3. Idle \in CallType /\ <<>> \in Seq(Object)
  BY EmptySeq DEF Idle, CallType, Functions
<1>4. TypeOK
  <2>1. region \in [Object -> Threads \cup {Limbo, Public}]
    BY ChannelAssumption DEF Init
  <2>2. call \in [Threads -> CallType] /\ result \in [Threads -> Seq(Object)]
    BY <1>3 DEF Init
  <2> QED BY <1>1, <2>1, <2>2 DEF Init, TypeOK, CallType
<1>5. ChannelOK
  <2>1. InitCapacity \in Nat /\ Even(InitCapacity) /\ InitCapacity # 0
    BY ChannelAssumption
  <2> QED BY <2>1, NewRingFacts DEF Init, ChannelOK
<1>6. WaitersOK
  BY <1>1, <1>2, ChannelAssumption DEF Init, WaitersOK
<1>7. ReceiverInFlight /\ AmountIsThere /\ WaitingCalls
  BY DEF Init, ReceiverInFlight, AmountIsThere, WaitingCalls
<1> QED BY <1>4, <1>5, <1>6, <1>7 DEF Inv

(* Every step of every channel operation preserves the inductive invariant.    *)
LEMMA NextInv == Inv /\ [Next]_vars => Inv'
<1> SUFFICES ASSUME Inv, [Next]_vars PROVE Inv'
  OBVIOUS
<1>1. ASSUME NEW t \in Threads, BeginSend(t) \/ BeginReceive(t) \/ BeginMultiReceive(t)
      PROVE  Inv'
  BY <1>1, BeginCallInv
<1>2. ASSUME NEW t \in Threads, SendWait(t) \/ ReceiveWait(t)
      PROVE  Inv'
  <2>1. In(t, {"send", "receive"}) /\ WaitChannel(t)
    BY <1>2 DEF SendWait, ReceiveWait, In
  <2>2. Dynamic => IsEmpty(chan)
    BY <1>2, RoomFacts DEF SendWait, ReceiveWait, Inv
  <2> QED BY <2>1, <2>2, WaitChannelInv
<1>3. ASSUME NEW t \in Threads, TrySendFull(t) \/ SendEnd(t) \/ TryReceiveEmpty(t) \/ MultiReceiveEnd(t)
      PROVE  Inv'
  <2>1. pc[t] = "running" /\ Finish(t) /\ UNCHANGED <<chan, region, waiting, queue, result, calls>>
    BY <1>3 DEF TrySendFull, SendEnd, TryReceiveEmpty, MultiReceiveEnd, In
  <2>2. \/ acquired' = SignalChannel(waiting, queue, acquired)
        \/ acquired' = acquired /\ (Dynamic => IsEmpty(chan'))
    BY <1>3, <2>1, RoomFacts DEF TrySendFull, SendEnd, TryReceiveEmpty, MultiReceiveEnd, Inv
  <2>3. ChannelOK' /\ region' \in [Object -> Threads \cup {Limbo, Public}]
        /\ result' \in [Threads -> Seq(Object)]
    BY <2>1 DEF Inv, ChannelOK, TypeOK
  <2> QED BY <2>1, <2>2, <2>3, EndInv
<1>4. ASSUME NEW t \in Threads, Receive(t)
      PROVE  Inv'
  <2>1. /\ pc[t] = "running" /\ ~ IsEmpty(chan) /\ Retrieve(t) /\ Finish(t)
        /\ acquired' = SignalChannel(waiting, queue, acquired)
        /\ UNCHANGED <<waiting, queue, calls>>
    BY <1>4 DEF Receive, In
  <2>2. ChannelOK' /\ region' \in [Object -> Threads \cup {Limbo, Public}]
        /\ result' \in [Threads -> Seq(Object)]
    BY <2>1, RetrieveFacts
  <2> QED BY <2>1, <2>2, EndInv
<1>5. CASE UNCHANGED vars
  BY <1>5 DEF vars, Inv, TypeOK, ChannelOK, WaitersOK, Blocked, ReceiverInFlight,
              AmountIsThere, WaitingCalls
<1> QED BY <1>1, <1>2, <1>3, <1>4, <1>5, SendOneFacts, MultiReceiveOneInv, InspectInv,
           ResumeInv DEF Next, Step

(* The inductive invariant holds in every reachable state.                 *)
LEMMA ChannelInv == Spec => []Inv
BY InitInv, NextInv, PTL DEF Spec

(* Whatever is sent and received, in whatever order, the ring stays well   *)
(* formed, through ExpandChannel too.                                      *)
THEOREM ChannelRingOK == Spec => []ChannelOK
<1>1. Inv => ChannelOK
  BY DEF Inv
<1> QED BY <1>1, ChannelInv, PTL

(* channel->waiting counts exactly the threads in the wait list.           *)
THEOREM ChannelWaitersOK == Spec => []WaitersOK
<1>1. Inv => WaitersOK
  BY DEF Inv
<1> QED BY <1>1, ChannelInv, PTL

(* A channel without a capacity loses no wake-up: if the channel is free,  *)
(* has an element and a receiver waits, then a receiver has been woken.    *)
THEOREM ChannelNoLostWakeup == Spec => []ReceiverInFlight
<1>1. Inv => ReceiverInFlight
  BY DEF Inv
<1> QED BY <1>1, ChannelInv, PTL

(* Every step of a call is one step of the FIFO queue, or none.            *)
LEMMA FifoStep == Inv /\ [Next]_vars => [Fifo!Next]_<<InspectChannel(chan), result>>
<1> SUFFICES ASSUME Inv, [Next]_vars
             PROVE  [Fifo!Next]_<<InspectChannel(chan), result>>
  OBVIOUS
<1>1. ASSUME NEW t \in Threads, BeginSend(t) \/ BeginReceive(t) \/ BeginMultiReceive(t)
      PROVE  Fifo!Begin(t)
  BY <1>1 DEF BeginSend, BeginReceive, BeginMultiReceive, Begin, Fifo!Begin
<1>2. ASSUME NEW t \in Threads, Inspect(t)
      PROVE  Fifo!Look(t)
  BY <1>2 DEF Inspect, Fifo!Look
<1>3. ASSUME NEW t \in Threads, SendOne(t)
      PROVE  \E o \in Object : Fifo!Put(o)
  <2>1. /\ Head(call[t].list) \in Object /\ result' = result
        /\ InspectChannel(chan)' = Append(InspectChannel(chan), Head(call[t].list))
    BY <1>3, SendOneFacts DEF SendOne
  <2> QED BY <2>1 DEF Fifo!Put
<1>4. ASSUME NEW t \in Threads, Receive(t) \/ MultiReceiveOne(t)
      PROVE  Fifo!Take(t)
  <2>1. ~ IsEmpty(chan) /\ Retrieve(t)
    BY <1>4, MultiReceiveOneInv DEF Receive, MultiReceiveOne
  <2>2. /\ InspectChannel(chan) # <<>>
        /\ InspectChannel(chan)' = Tail(InspectChannel(chan))
        /\ result' = [result EXCEPT ![t] = Append(@, Head(InspectChannel(chan)))]
    BY <2>1, RetrieveFacts
  <2> QED BY <2>2 DEF Fifo!Take
<1>5. ASSUME NEW t \in Threads,
             \/ SendWait(t) \/ TrySendFull(t) \/ SendEnd(t) \/ ReceiveWait(t)
             \/ TryReceiveEmpty(t) \/ MultiReceiveEnd(t) \/ Resume(t)
      PROVE  UNCHANGED <<InspectChannel(chan), result>>
  <2>1. chan' = chan /\ result' = result
    BY <1>5 DEF SendWait, TrySendFull, SendEnd, ReceiveWait, TryReceiveEmpty, MultiReceiveEnd,
                Resume, WaitChannel
  <2> QED BY <2>1
<1>6. CASE UNCHANGED vars
  BY <1>6 DEF vars
<1>7. CASE Next
  <2>1. \/ UNCHANGED <<InspectChannel(chan), result>>
        \/ \E t \in Threads : Fifo!Begin(t) \/ Fifo!Take(t) \/ Fifo!Look(t)
        \/ \E o \in Object : Fifo!Put(o)
    BY <1>1, <1>2, <1>3, <1>4, <1>5, <1>7 DEF Next, Step
  <2> QED BY <2>1 DEF Fifo!Next
<1> QED BY <1>6, <1>7

(* A channel is a FIFO queue: every object that is sent is received once   *)
(* and in order, whatever the capacity, the expansions and the mixture of  *)
(* calls.                                                                  *)
THEOREM ChannelIsFifo == Spec => ImplementsFifo
<1>1. Init => Fifo!Init
  <2>1. InitCapacity \in Nat /\ Even(InitCapacity) /\ InitCapacity # 0
    BY ChannelAssumption
  <2>2. InspectChannel(NewRing(InitCapacity)) = <<>>
    BY <2>1, NewRingFacts
  <2> QED BY <2>2 DEF Init, Fifo!Init
<1> QED BY <1>1, FifoStep, ChannelInv, PTL DEF Spec, ImplementsFifo, Fifo!Spec

-----------------------------------------------------------------------------
(* The places in the ring of the elements by which object o migrates.      *)
MovedAt(c, o) ==
    {i \in 1 .. TallyChannel(c) : InspectChannel(c)[i] = o /\ ChildrenAt(c, i) = Moved}

(* LimboIsInTransit without the counting.                                  *)
InTransit ==
    \A o \in Object : IF region[o] = Limbo THEN \E i \in Nat : MovedAt(chan, o) = {i}
                                           ELSE MovedAt(chan, o) = {}

(* ExpandChannel moves no migrated object to another place in the queue.   *)
LEMMA RoomMoves ==
    ASSUME ChannelOK
    PROVE  \A o \in Object : MovedAt(Room, o) = MovedAt(chan, o)
<1>1. CASE IsFull(chan) /\ Dynamic
  <2>1. Room = ExpandChannel(chan) /\ RingOK(chan) /\ RingOK(Room)
    BY <1>1, RoomFacts DEF Room, ChannelOK
  <2>2. InspectChannel(Room) = InspectChannel(chan)
    BY RoomFacts
  <2>3. TallyChannel(Room) = TallyChannel(chan)
    BY <2>1, <2>2, TallyFacts
  <2>4. \A i \in 1 .. TallyChannel(chan) : ChildrenAt(Room, i) = ChildrenAt(chan, i)
    BY <1>1, <2>1, ExpandChannelFacts
  <2> QED BY <2>2, <2>3, <2>4 DEF MovedAt
<1>2. CASE ~ (IsFull(chan) /\ Dynamic)
  <2>1. Room = chan
    BY <1>2 DEF Room
  <2> QED BY <2>1
<1> QED BY <1>1, <1>2

(* AddToChannel adds one place, if the element is migrated.                *)
LEMMA AddMoves ==
    ASSUME NEW c, RingOK(c), ~ IsFull(c), NEW o \in Object, NEW children \in {Null, Moved}
    PROVE  /\ TallyChannel(c) + 1 \in Nat
           /\ \A p \in Object :
                 MovedAt(AddToChannel(c, o, children), p) =
                    IF p = o /\ children = Moved THEN MovedAt(c, p) \cup {TallyChannel(c) + 1}
                                                 ELSE MovedAt(c, p)
<1> DEFINE d == AddToChannel(c, o, children)
           n == TallyChannel(c)
<1>1. /\ RingOK(d) /\ InspectChannel(d) = Append(InspectChannel(c), o)
      /\ \A i \in 1 .. n : ChildrenAt(d, i) = ChildrenAt(c, i)
      /\ ChildrenAt(d, n + 1) = children
  BY AddToChannelFacts
<1> HIDE DEF d
<1>2. InspectChannel(c) \in Seq(Object) /\ n \in Nat /\ n = Len(InspectChannel(c))
  BY TallyFacts
<1>3. /\ Len(InspectChannel(d)) = n + 1 /\ InspectChannel(d)[n + 1] = o
      /\ \A i \in 1 .. n : InspectChannel(d)[i] = InspectChannel(c)[i]
  BY <1>1, <1>2, AppendProperties
<1>4. TallyChannel(d) = n + 1
  BY <1>1, <1>3, TallyFacts
<1> HIDE DEF n
<1>5. ASSUME NEW p \in Object
      PROVE  MovedAt(d, p) = IF p = o /\ children = Moved THEN MovedAt(c, p) \cup {n + 1}
                                                         ELSE MovedAt(c, p)
  <2>1. \A i \in 1 .. n : i \in MovedAt(d, p) <=> i \in MovedAt(c, p)
    BY <1>1, <1>2, <1>3, <1>4 DEF MovedAt, n
  <2>2. n + 1 \in MovedAt(d, p) <=> p = o /\ children = Moved
    BY <1>1, <1>2, <1>3, <1>4 DEF MovedAt
  <2>3. MovedAt(d, p) \subseteq 1 .. (n + 1) /\ MovedAt(c, p) \subseteq 1 .. n
    BY <1>4 DEF MovedAt, n
  <2> HIDE DEF MovedAt
  <2>4. \A i : i \in MovedAt(d, p) <=> i \in MovedAt(c, p) \/ (i = n + 1 /\ p = o /\ children = Moved)
    BY <1>2, <2>1, <2>2, <2>3
  <2> QED BY <2>4
<1> QED BY <1>2, <1>5 DEF d, n

(* RetrieveFromChannel takes the first place away and moves the others up. *)
LEMMA RetrieveMoves ==
    ASSUME NEW c, RingOK(c), ~ IsEmpty(c)
    PROVE  /\ FirstObject(c) \in Object
           /\ \A p \in Object :
                 /\ 1 \in MovedAt(c, p) <=> FirstObject(c) = p /\ FirstChildren(c) = Moved
                 /\ MovedAt(c, p) \subseteq Nat \ {0}
                 /\ MovedAt(RetrieveFromChannel(c), p) \subseteq Nat \ {0}
                 /\ \A i \in Nat \ {0} :
                       i \in MovedAt(RetrieveFromChannel(c), p) <=> i + 1 \in MovedAt(c, p)
<1> DEFINE d == RetrieveFromChannel(c)
           n == TallyChannel(c)
<1>1. /\ RingOK(d) /\ InspectChannel(c) # <<>>
      /\ FirstObject(c) = Head(InspectChannel(c))
      /\ InspectChannel(d) = Tail(InspectChannel(c))
      /\ FirstChildren(c) = ChildrenAt(c, 1)
      /\ \A i \in 1 .. (n - 1) : ChildrenAt(d, i) = ChildrenAt(c, i + 1)
  BY RetrieveFromChannelFacts
<1> HIDE DEF d
<1>2. InspectChannel(c) \in Seq(Object) /\ n \in Nat /\ n = Len(InspectChannel(c)) /\ n # 0
  BY TallyFacts
<1>3. /\ FirstObject(c) = InspectChannel(c)[1] /\ FirstObject(c) \in Object
      /\ Len(InspectChannel(d)) = n - 1
      /\ \A i \in 1 .. (n - 1) : InspectChannel(d)[i] = InspectChannel(c)[i + 1]
  BY <1>1, <1>2, HeadTailProperties
<1>4. TallyChannel(d) = n - 1
  BY <1>1, <1>3, TallyFacts
<1> HIDE DEF n
<1>5. ASSUME NEW p \in Object
      PROVE  /\ 1 \in MovedAt(c, p) <=> FirstObject(c) = p /\ FirstChildren(c) = Moved
             /\ MovedAt(c, p) \subseteq Nat \ {0} /\ MovedAt(d, p) \subseteq Nat \ {0}
             /\ \A i \in Nat \ {0} : i \in MovedAt(d, p) <=> i + 1 \in MovedAt(c, p)
  <2>1. 1 \in MovedAt(c, p) <=> FirstObject(c) = p /\ FirstChildren(c) = Moved
    BY <1>1, <1>2, <1>3 DEF MovedAt, n
  <2>2. \A i \in 1 .. (n - 1) : i \in MovedAt(d, p) <=> i + 1 \in MovedAt(c, p)
    BY <1>1, <1>2, <1>3, <1>4 DEF MovedAt, n
  <2>3. MovedAt(c, p) \subseteq 1 .. n /\ MovedAt(d, p) \subseteq 1 .. (n - 1)
    BY <1>4 DEF MovedAt, n
  <2>4. \A i \in Nat \ {0} : ~ (i \in 1 .. (n - 1)) => ~ (i \in 1 .. (n - 1)) /\ ~ (i + 1 \in 1 .. n)
    BY <1>2
  <2>5. \A i \in Nat \ {0} : i \in MovedAt(d, p) <=> i + 1 \in MovedAt(c, p)
    BY <2>2, <2>3, <2>4
  <2>6. 1 .. n \subseteq Nat \ {0} /\ 1 .. (n - 1) \subseteq Nat \ {0}
    BY <1>2
  <2> QED BY <2>1, <2>3, <2>5, <2>6
<1> QED BY <1>3, <1>5 DEF d

(* Sending puts a migrated object in limbo as it enters the ring.          *)
LEMMA SendOneInTransit ==
    ASSUME Inv, InTransit, NEW t \in Threads, SendOne(t)
    PROVE  InTransit'
<1> DEFINE o == Head(call[t].list)
           moves == call[t].migrate /\ region[o] = t
           children == IF moves THEN Moved ELSE Null
<1>1. /\ o \in Object /\ ~ IsFull(Room)
      /\ chan' = AddToChannel(Room, o, children)
      /\ region' = IF moves THEN [region EXCEPT ![o] = Limbo] ELSE region
  BY SendOneFacts DEF SendOne
<1>2. RingOK(Room) /\ children \in {Null, Moved} /\ (children = Moved <=> moves)
  BY RoomFacts, RingAssumption DEF Inv
<1>3. moves => region[o] # Limbo
  BY ChannelAssumption
<1> HIDE DEF o, moves, children
<1>4. /\ TallyChannel(Room) + 1 \in Nat
      /\ \A p \in Object :
            MovedAt(chan', p) =
               IF p = o /\ moves THEN MovedAt(chan, p) \cup {TallyChannel(Room) + 1}
                                 ELSE MovedAt(chan, p)
  <2>1. \A p \in Object :
            MovedAt(chan', p) =
               IF p = o /\ children = Moved THEN MovedAt(Room, p) \cup {TallyChannel(Room) + 1}
                                            ELSE MovedAt(Room, p)
    BY <1>1, <1>2, AddMoves
  <2>2. \A p \in Object : MovedAt(Room, p) = MovedAt(chan, p)
    BY RoomMoves DEF Inv
  <2>3. TallyChannel(Room) + 1 \in Nat
    BY <1>1, <1>2, AddMoves
  <2> QED BY <1>2, <2>1, <2>2, <2>3
<1>5. region \in [Object -> Threads \cup {Limbo, Public}]
  BY DEF Inv, TypeOK
<1>6. ASSUME NEW p \in Object
      PROVE  IF region'[p] = Limbo THEN \E i \in Nat : MovedAt(chan', p) = {i}
                                   ELSE MovedAt(chan', p) = {}
  <2>1. CASE p = o /\ moves
    <3>1. region'[p] = Limbo
      BY <1>1, <1>5, <2>1
    <3>2. MovedAt(chan, p) = {}
      BY <1>3, <2>1 DEF InTransit
    <3>3. MovedAt(chan', p) = {TallyChannel(Room) + 1}
      BY <1>4, <2>1, <3>2
    <3> QED BY <1>4, <3>1, <3>3
  <2>2. CASE ~ (p = o /\ moves)
    <3>1. region'[p] = region[p]
      BY <1>1, <1>5, <2>2
    <3>2. MovedAt(chan', p) = MovedAt(chan, p)
      BY <1>4, <2>2
    <3> QED BY <3>1, <3>2 DEF InTransit
  <2> QED BY <2>1, <2>2
<1> QED BY <1>6 DEF InTransit

(* Receiving takes it out of limbo as it leaves the ring.                  *)
LEMMA RetrieveInTransit ==
    ASSUME Inv, InTransit, NEW t \in Threads, ~ IsEmpty(chan), Retrieve(t)
    PROVE  InTransit'
<1> DEFINE o == FirstObject(chan)
           moved == FirstChildren(chan) = Moved
<1>1. /\ chan' = RetrieveFromChannel(chan) /\ RingOK(chan)
      /\ region' = IF moved THEN [region EXCEPT ![o] = t] ELSE region
  BY DEF Retrieve, TakenBy, Inv, ChannelOK
<1>2. /\ o \in Object
      /\ \A p \in Object :
            /\ 1 \in MovedAt(chan, p) <=> o = p /\ moved
            /\ MovedAt(chan, p) \subseteq Nat \ {0}
            /\ MovedAt(chan', p) \subseteq Nat \ {0}
            /\ \A i \in Nat \ {0} : i \in MovedAt(chan', p) <=> i + 1 \in MovedAt(chan, p)
  BY <1>1, RetrieveMoves
<1>3. region \in [Object -> Threads \cup {Limbo, Public}] /\ t # Limbo
  BY ChannelAssumption DEF Inv, TypeOK
<1> HIDE DEF o, moved
<1>4. ASSUME NEW p \in Object
      PROVE  IF region'[p] = Limbo THEN \E i \in Nat : MovedAt(chan', p) = {i}
                                   ELSE MovedAt(chan', p) = {}
  <2>0. /\ MovedAt(chan, p) \subseteq Nat \ {0} /\ MovedAt(chan', p) \subseteq Nat \ {0}
        /\ \A i \in Nat \ {0} : i \in MovedAt(chan', p) <=> i + 1 \in MovedAt(chan, p)
    BY <1>2
  <2>1. CASE p = o /\ moved
    <3>1. region'[p] # Limbo
      BY <1>1, <1>3, <2>1
    <3>2. 1 \in MovedAt(chan, p)
      BY <1>2, <2>1
    <3>3. MovedAt(chan, p) = {1}
      BY <3>2 DEF InTransit
    <3>4. \A i \in Nat \ {0} : i + 1 # 1
      OBVIOUS
    <3>5. MovedAt(chan', p) = {}
      BY <2>0, <3>3, <3>4
    <3> QED BY <3>1, <3>5
  <2>2. CASE ~ (p = o /\ moved)
    <3>1. region'[p] = region[p]
      BY <1>1, <1>3, <2>2
    <3>2. 1 \notin MovedAt(chan, p)
      BY <1>2, <2>2
    <3>3. CASE region[p] = Limbo
      <4>1. PICK i \in Nat : MovedAt(chan, p) = {i}
        BY <3>3 DEF InTransit
      <4>2. i \in Nat \ {0, 1} /\ i - 1 \in Nat \ {0} /\ (i - 1) + 1 = i
        BY <2>0, <3>2, <4>1
      <4>3. \A j \in Nat \ {0} : j \in MovedAt(chan', p) <=> j = i - 1
        <5>1. \A j \in Nat \ {0} : j \in MovedAt(chan', p) <=> j + 1 = i
          BY <2>0, <4>1
        <5> QED BY <4>2, <5>1
      <4>4. MovedAt(chan', p) = {i - 1}
        BY <2>0, <4>2, <4>3
      <4> QED BY <3>1, <3>3, <4>2, <4>4
    <3>4. CASE region[p] # Limbo
      <4>1. MovedAt(chan, p) = {}
        BY <3>4 DEF InTransit
      <4>2. MovedAt(chan', p) = {}
        BY <2>0, <4>1
      <4> QED BY <3>1, <3>4, <4>2
    <3> QED BY <3>3, <3>4
  <2> QED BY <2>1, <2>2
<1> QED BY <1>4 DEF InTransit

(* No other step touches the ring or a region.                             *)
LEMMA NextInTransit == Inv /\ InTransit /\ [Next]_vars => InTransit'
<1> SUFFICES ASSUME Inv, InTransit, [Next]_vars PROVE InTransit'
  OBVIOUS
<1>1. ASSUME NEW t \in Threads, Receive(t) \/ MultiReceiveOne(t)
      PROVE  InTransit'
  <2>1. ~ IsEmpty(chan) /\ Retrieve(t)
    BY <1>1, MultiReceiveOneInv DEF Receive, MultiReceiveOne
  <2> QED BY <2>1, RetrieveInTransit
<1>2. CASE UNCHANGED <<chan, region>>
  BY <1>2 DEF InTransit
<1>3. ASSUME NEW t \in Threads,
             \/ BeginSend(t) \/ BeginReceive(t) \/ BeginMultiReceive(t) \/ Inspect(t)
             \/ SendWait(t) \/ TrySendFull(t) \/ SendEnd(t) \/ ReceiveWait(t)
             \/ TryReceiveEmpty(t) \/ MultiReceiveEnd(t) \/ Resume(t)
      PROVE  UNCHANGED <<chan, region>>
  BY <1>3 DEF BeginSend, BeginReceive, BeginMultiReceive, Begin, Inspect, SendWait,
              TrySendFull, SendEnd, ReceiveWait, TryReceiveEmpty, MultiReceiveEnd, Resume,
              WaitChannel
<1>4. CASE UNCHANGED vars
  BY <1>2, <1>4 DEF vars
<1> QED BY <1>1, <1>2, <1>3, <1>4, SendOneInTransit DEF Next, Step

(* Nothing is in limbo, and nothing in the ring, to begin with.            *)
LEMMA InitInTransit == Init => InTransit
<1> SUFFICES ASSUME Init, NEW o \in Object
             PROVE  region[o] # Limbo /\ MovedAt(chan, o) = {}
  BY DEF InTransit
<1>1. region[o] # Limbo
  BY ChannelAssumption DEF Init
<1>2. RingOK(chan) /\ InspectChannel(chan) = <<>>
  <2>1. InitCapacity \in Nat /\ Even(InitCapacity) /\ InitCapacity # 0
    BY ChannelAssumption
  <2> QED BY <2>1, NewRingFacts DEF Init
<1>3. TallyChannel(chan) = 0
  BY <1>2, TallyFacts
<1> QED BY <1>1, <1>3 DEF MovedAt

(* The objects in limbo are exactly those that travel through the channel, *)
(* each once: no SendChannel, however it interleaves with receivers and    *)
(* with ExpandChannel, strands an object or sends it twice.                *)
THEOREM ChannelLimbo == Spec => []LimboIsInTransit
<1>1. Inv /\ InTransit => LimboIsInTransit
  <2> SUFFICES ASSUME Inv, InTransit, NEW o \in Object
               PROVE  Cardinality(MigratedAt(o)) = IF region[o] = Limbo THEN 1 ELSE 0
    BY DEF LimboIsInTransit
  <2>1. MigratedAt(o) = MovedAt(chan, o)
    BY DEF MigratedAt, MovedAt, ChildrenAt, InspectChannel
  <2>2. CASE region[o] = Limbo
    <3>1. PICK i \in Nat : MovedAt(chan, o) = {i}
      BY <2>2 DEF InTransit
    <3> QED BY <2>1, <2>2, <3>1, FS_Singleton
  <2>3. CASE region[o] # Limbo
    <3>1. MovedAt(chan, o) = {}
      BY <2>3 DEF InTransit
    <3> QED BY <2>1, <2>3, <3>1, FS_EmptySet
  <2> QED BY <2>2, <2>3
<1> QED BY <1>1, InitInTransit, NextInTransit, ChannelInv, PTL DEF Spec
=============================================================================
