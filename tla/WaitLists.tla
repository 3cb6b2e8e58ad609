----------------------------- MODULE WaitLists -----------------------------
(***************************************************************************)
(* The wait list of a Monitor (struct WaitList, struct Monitor and the two *)
(* list routines of src/src/hpc/threadapi.c).                              *)
(*                                                                         *)
(* A WaitList node lives on the stack of the waiting thread, so within one *)
(* monitor a node and its thread are the same thing: the doubly linked     *)
(* list monitor->head ... monitor->tail is the sequence of the threads     *)
(* whose nodes it links, head first.                                       *)
(***************************************************************************)
EXTENDS Naturals, Sequences, SequencesExt

(* The threads that have a node in the list.                               *)
Listed(queue) == Range(queue)

(* A list no thread is linked into twice, which is what makes "the node of *)
(* a thread" well defined.                                                 *)
IsWaitList(queue, Threads) ==
    /\ queue \in Seq(Threads)
    /\ \A i, j \in 1 .. Len(queue) : queue[i] = queue[j] => i = j

(* AddWaitList links the node behind monitor->tail.                        *)
AddWaitList(queue, t) == Append(queue, t)

(* The place of the node of t.                                             *)
NodeOf(queue, t) == CHOOSE i \in 1 .. Len(queue) : queue[i] = t

(* RemoveWaitList unlinks the node wherever it is in the list.             *)
RemoveWaitList(queue, t) == RemoveAt(queue, NodeOf(queue, t))

(* The nodes SignalMonitor does not walk past: their threads have no       *)
(* acquiredMonitor yet.                                                    *)
Unsignalled(queue, acquired) == {i \in 1 .. Len(queue) : ~ acquired[queue[i]]}

(* SignalMonitor walks the list from the head and hands the monitor to the *)
(* first thread whose acquiredMonitor is NULL; with no such thread it does *)
(* nothing.  Here acquired[t] says that thread t has an acquiredMonitor;   *)
(* the value is the new function.                                          *)
SignalMonitor(queue, acquired) ==
    LET idle  == Unsignalled(queue, acquired)
        first == CHOOSE i \in idle : \A j \in idle : i <= j
    IN  IF idle = {} THEN acquired
                     ELSE [acquired EXCEPT ![queue[first]] = TRUE]
=============================================================================
