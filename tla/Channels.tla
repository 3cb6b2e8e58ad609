------------------------------ MODULE Channels ------------------------------
(***************************************************************************)
(* One channel (src/src/hpc/threadapi.c) and the threads that send to and  *)
(* receive from it.  A call takes the mutex of the channel's monitor and   *)
(* then works in steps, one per element; it gives the mutex up only inside *)
(* WaitChannel.  Senders of a full channel and receivers of an empty one   *)
(* wait in the same list.                                                  *)
(*                                                                         *)
(* Objects have a region.  Sending with migration moves an object of the   *)
(* sender's thread-local region to the limbo region, receiving moves it on *)
(* to the receiver's; an object stands for itself and everything reachable *)
(* from it in its region.                                                  *)
(***************************************************************************)
EXTENDS ChannelRing, FiniteSets, WaitLists

CONSTANTS
    Senders, Receivers,     \* the threads that call the functions of each kind
    Nobody,                 \* the owner of the free mutex
    Limbo,                  \* LimboRegion
    Public,                 \* the region of public objects
    InitRegion,             \* where each object is in the beginning
    Dynamic,                \* channel->dynamic: created without a capacity
    InitCapacity,           \* slots: twice the capacity, or 20 if dynamic
    Lists,                  \* the lists that are sent; SendChannel sends one object
    Amounts,                \* the amounts asked of MultiReceiveChannel
    MaxCalls                \* bound: calls per thread

Threads == Senders \cup Receivers

ASSUME ChannelAssumption ==
    /\ IsFiniteSet(Threads)
    /\ Nobody \notin Threads
    /\ Limbo \notin Threads /\ Public \notin Threads /\ Limbo # Public
    /\ InitRegion \in [Object -> Threads \cup {Public}]
    /\ Dynamic \in BOOLEAN
    /\ InitCapacity \in Nat /\ Even(InitCapacity) /\ InitCapacity >= 2
    /\ Lists \subseteq Seq(Object)
    /\ Amounts \subseteq Nat

VARIABLES
    chan,           \* queue, head, tail, size and capacity
    region,         \* region[o]: REGION(o)
    owner,          \* the thread that holds the mutex
    waiting,        \* channel->waiting
    queue,          \* the wait list of channel->monitor
    acquired,       \* acquired[t]: TLS(acquiredMonitor) of t is not NULL
    pc,             \* "ready", "running" (with the mutex), "blocked"
    call,           \* the call a thread is in, with what is left to do
    result,         \* the objects its current or last call has received
    calls           \* calls made so far

vars == <<chan, region, owner, waiting, queue, acquired, pc, call, result, calls>>

Idle == [fn |-> "none", list |-> <<>>, migrate |-> FALSE, want |-> 0]

Init ==
    /\ chan = NewRing(InitCapacity)
    /\ region = InitRegion
    /\ owner = Nobody
    /\ waiting = 0
    /\ queue = <<>>
    /\ acquired = [t \in Threads |-> FALSE]
    /\ pc = [t \in Threads |-> "ready"]
    /\ call = [t \in Threads |-> Idle]
    /\ result = [t \in Threads |-> <<>>]
    /\ calls = [t \in Threads |-> 0]

(* "Send" and "Transmit": with and without migration.                      *)
SendCalls ==
    [fn : {"send", "trymulti"}, list : Lists, migrate : BOOLEAN, want : {0}] \cup
    [fn : {"trysend"}, list : {l \in Lists : Len(l) = 1}, migrate : BOOLEAN, want : {0}]
ReceiveCalls ==
    [fn : {"receive", "tryreceive"}, list : {<<>>}, migrate : {FALSE}, want : {1}]
MultiReceiveCall(n) == [fn |-> "multireceive", list |-> <<>>, migrate |-> FALSE, want |-> n]

(* LockChannel, at the beginning of a call.                                *)
Begin(t, c) ==
    /\ pc[t] = "ready"
    /\ calls[t] < MaxCalls
    /\ owner = Nobody
    /\ owner' = t
    /\ pc' = [pc EXCEPT ![t] = "running"]
    /\ call' = [call EXCEPT ![t] = c]
    /\ result' = [result EXCEPT ![t] = <<>>]
    /\ calls' = [calls EXCEPT ![t] = @ + 1]
    /\ UNCHANGED <<chan, region, waiting, queue, acquired>>

In(t, fns) == pc[t] = "running" /\ call[t].fn \in fns

(* UnlockChannel, at the end.                                              *)
Finish(t) ==
    /\ owner' = Nobody
    /\ pc' = [pc EXCEPT ![t] = "ready"]
    /\ call' = [call EXCEPT ![t] = Idle]

-----------------------------------------------------------------------------
(* Faulty variants of the definitions below, used to test the properties.  *)

(* A SignalChannel that does nothing.                                      *)
SignalChannelNever(w, q, a) == a

(* SendChannel that adds after one wait, full or not.                      *)
RoomAssumed == IF IsFull(chan) THEN [chan EXCEPT !.size = @ - 2] ELSE chan

(* RetrieveFromChannel that leaves the children in limbo.                  *)
TakenByLost(t) == region

(* WaitChannel without "channel->waiting--".                               *)
ResumeUncounted(t) ==
    /\ pc[t] = "blocked"
    /\ acquired[t]
    /\ owner = Nobody
    /\ owner' = t
    /\ queue' = RemoveWaitList(queue, t)
    /\ acquired' = [acquired EXCEPT ![t] = FALSE]
    /\ pc' = [pc EXCEPT ![t] = "running"]
    /\ UNCHANGED <<chan, region, waiting, call, result, calls>>

-----------------------------------------------------------------------------
(* The channel AddToChannel works on: a full dynamic one is expanded.      *)
Room == IF IsFull(chan) /\ Dynamic THEN ExpandChannel(chan) ELSE chan

SignalChannel(w, q, a) == IF w # 0 THEN SignalMonitor(q, a) ELSE a

(* WaitChannel: waiting++, and WaitForMonitor gives the mutex up.          *)
WaitChannel(t) ==
    /\ waiting' = waiting + 1
    /\ queue' = AddWaitList(queue, t)
    /\ owner' = Nobody
    /\ pc' = [pc EXCEPT ![t] = "blocked"]
    /\ UNCHANGED <<chan, region, acquired, call, result, calls>>

(* WaitForMonitor returns with the mutex, and waiting--; the caller tests  *)
(* its condition again.                                                    *)
Resume(t) ==
    /\ pc[t] = "blocked"
    /\ acquired[t]
    /\ owner = Nobody
    /\ owner' = t
    /\ waiting' = waiting - 1
    /\ queue' = RemoveWaitList(queue, t)
    /\ acquired' = [acquired EXCEPT ![t] = FALSE]
    /\ pc' = [pc EXCEPT ![t] = "running"]
    /\ UNCHANGED <<chan, region, call, result, calls>>

-----------------------------------------------------------------------------
(* SendChannel, MultiSendChannel, TrySendChannel, TryMultiSendChannel and  *)
(* the four Transmit functions.                                            *)
BeginSend(t) == t \in Senders /\ \E c \in SendCalls : Begin(t, c)

(* One round of the loop that finds room.                                  *)
SendOne(t) ==
    LET o     == Head(call[t].list)
        moves == call[t].migrate /\ region[o] = t
    IN  /\ In(t, {"send", "trysend", "trymulti"})
        /\ call[t].list # <<>>
        /\ ~ IsFull(Room)
        /\ chan' = AddToChannel(Room, o, IF moves THEN Moved ELSE Null)
        /\ region' = IF moves THEN [region EXCEPT ![o] = Limbo] ELSE region
        /\ call' = [call EXCEPT ![t].list = Tail(@)]
        /\ UNCHANGED <<owner, waiting, queue, acquired, pc, result, calls>>

(* One that does not: SendChannel and MultiSendChannel wait ...            *)
SendWait(t) ==
    /\ In(t, {"send"})
    /\ call[t].list # <<>>
    /\ IsFull(Room)
    /\ WaitChannel(t)

(* ... TrySendChannel returns false at once ...                            *)
TrySendFull(t) ==
    /\ In(t, {"trysend"})
    /\ call[t].list # <<>>
    /\ IsFull(Room)
    /\ Finish(t)
    /\ UNCHANGED <<chan, region, waiting, queue, acquired, result, calls>>

(* ... and TryMultiSendChannel leaves the loop, as all do when the list is *)
(* exhausted: one SignalChannel, then UnlockChannel.                       *)
SendEnd(t) ==
    /\ \/ In(t, {"send", "trysend", "trymulti"}) /\ call[t].list = <<>>
       \/ In(t, {"trymulti"}) /\ call[t].list # <<>> /\ IsFull(Room)
    /\ acquired' = SignalChannel(waiting, queue, acquired)
    /\ Finish(t)
    /\ UNCHANGED <<chan, region, waiting, queue, result, calls>>

-----------------------------------------------------------------------------
(* The regions after RetrieveFromChannel: what was migrated is now in the  *)
(* receiver's region.                                                      *)
TakenBy(t) ==
    IF FirstChildren(chan) = Moved THEN [region EXCEPT ![FirstObject(chan)] = t]
                                   ELSE region

Retrieve(t) ==
    /\ chan' = RetrieveFromChannel(chan)
    /\ region' = TakenBy(t)
    /\ result' = [result EXCEPT ![t] = Append(@, FirstObject(chan))]

BeginReceive(t) == t \in Receivers /\ \E c \in ReceiveCalls : Begin(t, c)

(* ReceiveChannel and TryReceiveChannel find an element.                   *)
Receive(t) ==
    /\ In(t, {"receive", "tryreceive"})
    /\ ~ IsEmpty(chan)
    /\ Retrieve(t)
    /\ acquired' = SignalChannel(waiting, queue, acquired)
    /\ Finish(t)
    /\ UNCHANGED <<waiting, queue, calls>>

(* ReceiveChannel waits for one, TryReceiveChannel returns its default.    *)
ReceiveWait(t) == In(t, {"receive"}) /\ IsEmpty(chan) /\ WaitChannel(t)

TryReceiveEmpty(t) ==
    /\ In(t, {"tryreceive"})
    /\ IsEmpty(chan)
    /\ Finish(t)
    /\ UNCHANGED <<chan, region, waiting, queue, acquired, result, calls>>

(* MultiReceiveChannel takes the smaller of the amount and what is there.  *)
BeginMultiReceive(t) ==
    /\ t \in Receivers
    /\ \E n \in Amounts :
          Begin(t, MultiReceiveCall(IF n > TallyChannel(chan) THEN TallyChannel(chan) ELSE n))

MultiReceiveOne(t) ==
    /\ In(t, {"multireceive"})
    /\ call[t].want > 0
    /\ Retrieve(t)
    /\ call' = [call EXCEPT ![t].want = @ - 1]
    /\ UNCHANGED <<owner, waiting, queue, acquired, pc, calls>>

MultiReceiveEnd(t) ==
    /\ In(t, {"multireceive"})
    /\ call[t].want = 0
    /\ acquired' = SignalChannel(waiting, queue, acquired)
    /\ Finish(t)
    /\ UNCHANGED <<chan, region, waiting, queue, result, calls>>

(* InspectChannel; TallyChannel is the length of what it returns.          *)
Inspect(t) ==
    /\ pc[t] = "ready"
    /\ calls[t] < MaxCalls
    /\ owner = Nobody
    /\ t \in Receivers
    /\ result' = [result EXCEPT ![t] = InspectChannel(chan)]
    /\ calls' = [calls EXCEPT ![t] = @ + 1]
    /\ UNCHANGED <<chan, region, owner, waiting, queue, acquired, pc, call>>

-----------------------------------------------------------------------------
Step(t) ==
    \/ SendOne(t) \/ SendWait(t) \/ TrySendFull(t) \/ SendEnd(t)
    \/ Receive(t) \/ ReceiveWait(t) \/ TryReceiveEmpty(t)
    \/ MultiReceiveOne(t) \/ MultiReceiveEnd(t)
    \/ Resume(t)

Next ==
    \E t \in Threads :
        \/ BeginSend(t) \/ BeginReceive(t) \/ BeginMultiReceive(t) \/ Inspect(t)
        \/ Step(t)

Spec == Init /\ [][Next]_vars

(* A thread inside a call runs on; a woken one gets the mutex, for which   *)
(* only finitely many calls compete.                                       *)
FairSpec == Spec /\ \A t \in Threads : WF_vars(Step(t))

-----------------------------------------------------------------------------
Blocked == {t \in Threads : pc[t] = "blocked"}
BlockedReceivers == {t \in Blocked : call[t].fn = "receive"}

Functions == {"none", "send", "trysend", "trymulti", "receive", "tryreceive", "multireceive"}

(* The type invariant of threadapi.c's channels: regions, lock, counter, wait  *)
(* list, ring, and the call each thread is in, take only the values that the   *)
(* fields of struct Channel (lines 81-88) and the handlers' locals can take.   *)
TypeOK ==
    /\ region \in [Object -> Threads \cup {Limbo, Public}]
    /\ owner \in Threads \cup {Nobody}
    /\ waiting \in Int
    /\ IsWaitList(queue, Threads)
    /\ acquired \in [Threads -> BOOLEAN]
    /\ pc \in [Threads -> {"ready", "running", "blocked"}]
    /\ call \in [Threads -> [fn : Functions, list : Seq(Object), migrate : BOOLEAN, want : Nat]]
    /\ result \in [Threads -> Seq(Object)]
    /\ calls \in [Threads -> Nat]

(* The ring is well formed after every step of every call, and a channel   *)
(* with a capacity keeps it.                                               *)
ChannelOK ==
    /\ RingOK(chan)
    /\ ~ Dynamic => chan.capacity = InitCapacity

(* The mutex, the wait list and channel->waiting agree with what the       *)
(* threads are doing: one thread runs, the others wait or are outside.     *)
WaitersOK ==
    /\ \A t \in Threads : pc[t] = "running" <=> owner = t
    /\ waiting = Cardinality(Blocked)
    /\ Listed(queue) = Blocked
    /\ \A t \in Threads : acquired[t] => t \in Blocked

(* "In between sending and receiving, obj cannot be accessed by either     *)
(* thread": a migrated object is in limbo while it is in the channel, and  *)
(* nothing stays in limbo that no receive will take out again.             *)
MigratedAt(o) ==
    {i \in 1 .. TallyChannel(chan) :
        chan.slots[Place(chan, i)] = o /\ chan.slots[Place(chan, i) + 1] = Moved}
LimboIsInTransit ==
    \A o \in Object : Cardinality(MigratedAt(o)) = IF region[o] = Limbo THEN 1 ELSE 0

(* Without a capacity only receivers wait, and no wake-up is lost: while   *)
(* there is an element and a receiver waits, one has been woken.           *)
ReceiverInFlight ==
    Dynamic /\ owner = Nobody /\ ~ IsEmpty(chan) /\ queue # <<>> =>
        \E t \in Threads : acquired[t]

(* "the call will block until an element has been added to the channel":   *)
(* elements and blocked receivers do not stay together for ever.           *)
ReceiversServed ==
    (~ IsEmpty(chan) /\ BlockedReceivers # {}) ~> (IsEmpty(chan) \/ BlockedReceivers = {})

(* The ring, with all its callers, is a FIFO queue.                        *)
Fifo == INSTANCE FifoChannel WITH items <- InspectChannel(chan), got <- result

ImplementsFifo == Fifo!Spec
=============================================================================
