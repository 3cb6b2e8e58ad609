---------------------------- MODULE FifoChannel ----------------------------
(***************************************************************************)
(* What a channel promises: "Channels are FIFO queues that threads can use *)
(* to coordinate their activities".  Objects are put in at one end and     *)
(* taken out, each once, at the other; how the queue is stored, how full   *)
(* it may get and who waits for what is left out.                          *)
(***************************************************************************)
EXTENDS Sequences

CONSTANTS Threads, Object

VARIABLES
    items,          \* the objects in the channel, oldest first
    got             \* got[t]: what the current or last call of t has returned

Init ==
    /\ items = <<>>
    /\ got = [t \in Threads |-> <<>>]

(* Any call begins with nothing to return.                                 *)
Begin(t) ==
    /\ got' = [got EXCEPT ![t] = <<>>]
    /\ UNCHANGED items

(* One object is sent.                                                     *)
Put(o) ==
    /\ items' = Append(items, o)
    /\ UNCHANGED got

(* One object is received: the oldest.                                     *)
Take(t) ==
    /\ items # <<>>
    /\ got' = [got EXCEPT ![t] = Append(@, Head(items))]
    /\ items' = Tail(items)

(* InspectChannel returns all of them and removes none.                    *)
Look(t) ==
    /\ got' = [got EXCEPT ![t] = items]
    /\ UNCHANGED items

Next ==
    \/ \E t \in Threads : Begin(t) \/ Take(t) \/ Look(t)
    \/ \E o \in Object : Put(o)

Spec == Init /\ [][Next]_<<items, got>>
=============================================================================
