---------------------------- MODULE ChannelRing ----------------------------
(***************************************************************************)
(* The ring buffer of a channel (struct Channel of                         *)
(* src/src/hpc/threadapi.c) and the routines that work on it with the      *)
(* channel locked.  An element takes two slots, the object and the list of *)
(* the objects that travel with it; head, tail, size and capacity count    *)
(* slots.  A channel is a record; a routine is an operator that returns    *)
(* the new record.                                                         *)
(***************************************************************************)
EXTENDS Integers, Sequences

CONSTANTS
    Object,         \* the objects that are sent
    Null,           \* an empty slot, and a missing list of children
    Moved           \* a list of children: the element was migrated

ASSUME RingAssumption == Null \notin Object /\ Moved \notin Object /\ Moved # Null

Slot == Object \cup {Null, Moved}

(* CreateChannel, for a channel of n slots.                                *)
NewRing(n) ==
    [slots |-> [i \in 1 .. n |-> Null], head |-> 0, tail |-> 0, size |-> 0, capacity |-> n]

-----------------------------------------------------------------------------
(* Faulty variants of the definitions below, used to test the properties.  *)

(* ExpandChannel copying the slots to where they were.                     *)
ExpandChannelInPlace(c) ==
    LET new == 2 * c.capacity
    IN  [c EXCEPT !.slots = [j \in 1 .. new |-> IF j <= c.capacity THEN c.slots[j] ELSE Null],
                  !.tail = c.capacity, !.capacity = new]

-----------------------------------------------------------------------------
(* ((oldCapacity * 25 / 16) | 1) + 1: less than the golden ratio, even.    *)
NewCapacity(old) ==
    LET grown == (old * 25) \div 16
    IN  (IF grown % 2 = 0 THEN grown + 1 ELSE grown) + 1

(* ExpandChannel keeps the slots from head to the old end in place and     *)
(* moves the slots before tail behind them, round the new end if need be.  *)
ExpandChannel(c) ==
    LET old   == c.capacity
        new   == NewCapacity(old)
        tail  == IF c.head + old >= new THEN c.head + old - new ELSE c.head + old
        Source(d) ==            \* the slot of the old queue copied to offset d
            IF c.head <= d /\ d < old THEN d
            ELSE IF d >= old THEN d - old ELSE d - old + new
        Copied(d) == (c.head <= d /\ d < old) \/ Source(d) < c.tail
    IN  [slots    |-> [j \in 1 .. new |-> IF Copied(j - 1) THEN c.slots[Source(j - 1) + 1]
                                                           ELSE Null],
         head     |-> c.head,
         tail     |-> tail,
         size     |-> c.size,
         capacity |-> new]

(* AddToChannel: two slots at the tail, which wraps at the capacity.       *)
AddToChannel(c, obj, children) ==
    [slots    |-> [c.slots EXCEPT ![c.tail + 1] = obj, ![c.tail + 2] = children],
     head     |-> c.head,
     tail     |-> IF c.tail + 2 = c.capacity THEN 0 ELSE c.tail + 2,
     size     |-> c.size + 2,
     capacity |-> c.capacity]

(* RetrieveFromChannel: the element at the head, and the channel without   *)
(* it, its slots cleared.                                                  *)
FirstObject(c) == c.slots[c.head + 1]
FirstChildren(c) == c.slots[c.head + 2]
RetrieveFromChannel(c) ==
    [slots    |-> [c.slots EXCEPT ![c.head + 1] = Null, ![c.head + 2] = Null],
     head     |-> IF c.head + 2 = c.capacity THEN 0 ELSE c.head + 2,
     tail     |-> c.tail,
     size     |-> c.size - 2,
     capacity |-> c.capacity]

TallyChannel(c) == c.size \div 2

(* InspectChannel: the objects from the head on, round the end.  Place is  *)
(* the slot its loop reads for the i-th element.                           *)
Place(c, i) ==
    IF c.head + 2 * (i - 1) >= c.capacity THEN c.head + 2 * (i - 1) - c.capacity + 1
                                          ELSE c.head + 2 * (i - 1) + 1
InspectChannel(c) == [i \in 1 .. TallyChannel(c) |-> c.slots[Place(c, i)]]

IsFull(c) == c.size = c.capacity
IsEmpty(c) == c.size = 0

-----------------------------------------------------------------------------
(* The representation invariant of the ring: offsets are even and inside   *)
(* the queue, tail is size slots behind head, the elements are objects     *)
(* with their children, and all other slots are empty.                     *)
Even(n) == n % 2 = 0
TailOf(head, size, capacity) ==
    IF head + size >= capacity THEN head + size - capacity ELSE head + size

RingShape(c) ==
    /\ c \in [slots : [1 .. c.capacity -> Slot],
              head : Nat, tail : Nat, size : Nat, capacity : Nat]
    /\ Even(c.head) /\ Even(c.size) /\ Even(c.capacity)
    /\ c.head < c.capacity /\ c.size <= c.capacity
    /\ c.tail = TailOf(c.head, c.size, c.capacity)

Elements(c) == {Place(c, i) : i \in 1 .. TallyChannel(c)}

RingOK(c) ==
    /\ RingShape(c)
    /\ \A i \in 1 .. TallyChannel(c) :
          c.slots[Place(c, i)] \in Object /\ c.slots[Place(c, i) + 1] \in {Null, Moved}
    /\ LET used == Elements(c)
       IN  \A j \in 1 .. c.capacity : j \notin used /\ j - 1 \notin used => c.slots[j] = Null
=============================================================================
