-------------------------- MODULE MonitorProofs --------------------------
(***************************************************************************)
(* Proofs about Monitors for every number of threads and monitors, any     *)
(* number of calls and of spurious wake-ups.                               *)
(*                                                                         *)
(* The inductive invariant says, for every place in the code, which locks  *)
(* a thread holds there and which wait lists it is linked into: Held,      *)
(* Linked and Own are these sets, read off the thread's program counter    *)
(* and locals alone, and the invariant is that the mutexes, the lists and  *)
(* the thread locks agree with them.  What SignalMonitor has walked past,  *)
(* and where it stands, then stays put because the walker holds the        *)
(* monitor.  The last two parts show that a single monitor implements      *)
(* MonitorSpec, and that some thread can go on while any is in a call and  *)
(* not asleep.                                                             *)
(***************************************************************************)
EXTENDS Monitors, WaitListProofs

(* The places between AddWaitList and RemoveWaitList where a thread is     *)
(* linked into the lists of all its monitors.                              *)
WaitLabels == {"release", "tlock", "check", "asleep", "wakeup", "try", "mlock", "tlock2", "leave"}

(* The monitors a thread holds, by where it is in the code.                *)
HeldAt(label, fn, on, rest, m) ==
    IF label = "lock" THEN on \ rest
    ELSE IF label \in {"held", "tlock2", "leave", "walk", "poke"} THEN on
    ELSE IF label = "release" THEN rest
    ELSE IF label = "relock" THEN {m} \cap (on \ rest)
    ELSE IF label = "return" THEN IF fn = "signal" THEN on ELSE {m}
    ELSE {}
Held(t) == HeldAt(pc[t], call[t].fn, call[t].on, todo[t], got[t])

(* The monitors whose lists it is linked into.                             *)
LinkedAt(label, on, rest) ==
    IF label \in WaitLabels THEN on ELSE IF label = "relock" THEN rest ELSE {}
Linked(t) == LinkedAt(pc[t], call[t].on, todo[t])

(* The threads whose thread lock it holds: its own, or the one under the   *)
(* cursor of SignalMonitor.                                                *)
Cursor(t) == queue[The(call[t].on)][walk[t]]
Own(t) ==
    IF pc[t] \in {"check", "try", "leave"} THEN {t}
    ELSE IF pc[t] = "poke" THEN {Cursor(t)} ELSE {}

MutexOK == \A t \in Threads : \A m \in Monitor : mutex[m] = t <=> m \in Held(t)
ListOK == \A t \in Threads : \A m \in Monitor : t \in Listed(queue[m]) <=> m \in Linked(t)
ThreadLockOK == \A t \in Threads : \A u \in Threads : threadLock[u] = t <=> u \in Own(t)

(* What a thread's locals hold, by where it is.                            *)
CallAt(label, c, rest) ==
    /\ c \in Calls \cup {Idle} /\ (label = "idle" <=> c = Idle)
    /\ rest \subseteq c.on
    /\ label \in {"lock", "release"} => rest # {}
    /\ rest # {} => label \in {"lock", "release", "relock"}
    /\ label \in WaitLabels => c.fn \in {"wait", "any"}
    /\ label \in {"try", "mlock", "tlock2", "leave"} => c.fn = "wait"
    /\ label = "relock" => c.fn = "any"
    /\ label \in {"walk", "poke"} => c.fn = "signal"
AcquiredAt(label, c, a, m) ==
    /\ a # NULL => label \in (WaitLabels \ {"asleep"}) \cup {"relock"} /\ a \in c.on
    /\ label \in {"try", "mlock", "tlock2", "leave", "relock"} => a # NULL /\ m = a
    /\ label = "return" /\ c.fn # "signal" => m \in c.on
LocalOK(t) ==
    /\ CallAt(pc[t], call[t], todo[t])
    /\ AcquiredAt(pc[t], call[t], acquired[t], got[t])
    /\ walk[t] >= 1

(* SignalMonitor's cursor is in the list or one behind it, and the threads *)
(* before it have all been signalled.                                      *)
WalkOK(t) ==
    LET q == queue[The(call[t].on)]
    IN  /\ pc[t] = "poke" => walk[t] <= Len(q)
        /\ pc[t] \in {"walk", "poke"} =>
              \A i \in 1 .. (walk[t] - 1) : i <= Len(q) /\ acquired[q[i]] # NULL

LocalTypes ==
    /\ acquired \in [Threads -> Monitor \cup {NULL}]
    /\ pc \in [Threads -> Labels]
    /\ call \in [Threads -> Calls \cup {Idle}]
    /\ todo \in [Threads -> SUBSET Monitor]
    /\ walk \in [Threads -> Nat]
    /\ got \in [Threads -> Monitor \cup {NULL}]

MutexTypes ==
    /\ mutex \in [Monitor -> Threads \cup {Nobody}]
    /\ threadLock \in [Threads -> Threads \cup {Nobody}]

QueueTypes ==
    /\ queue \in [Monitor -> Seq(Threads)]
    /\ \A m \in Monitor : IsWaitList(queue[m], Threads)

IInv ==
    /\ LocalTypes /\ MutexTypes /\ QueueTypes
    /\ MutexOK /\ ListOK /\ ThreadLockOK
    /\ \A t \in Threads : LocalOK(t) /\ WalkOK(t)

-----------------------------------------------------------------------------
(* The first monitor of a loop is one of those the loop has to visit.      *)
LEMMA LowestFacts ==
    ASSUME NEW S \in SUBSET Monitor, S # {}
    PROVE  Lowest(S) \in S /\ \A j \in S : Lowest(S) <= j
<1>1. S \subseteq Nat
  BY MonitorsAssumption DEF Monitor
<1>2. PICK i \in S : \A j \in S : ~ (<<j, i>> \in OpToRel(<, Nat))
  BY <1>1, NatLessThanWellFounded, WFMin
<1>3. \A a, b \in Nat : a < b => <<a, b>> \in OpToRel(<, Nat)
  BY DEF OpToRel
<1>4. \A j \in S : ~ (j < i)
  BY <1>1, <1>2, <1>3, Zenon
<1>5. \A j \in S : i <= j
  BY <1>1, <1>4
<1> QED BY <1>5 DEF Lowest, Min

(* What the API is called with.                                            *)
LEMMA CallFacts ==
    ASSUME NEW c \in Calls
    PROVE  /\ c.on \subseteq Monitor /\ c.on # {} /\ c # Idle
           /\ c.fn \in {"wait", "signal", "any"}
           /\ c.fn # "any" => The(c.on) \in Monitor /\ c.on = {The(c.on)}
<1>1. CASE c \in [fn : {"any"}, on : (SUBSET Monitor) \ {{}}]
  BY <1>1 DEF Idle
<1>2. CASE c \in [fn : {"wait", "signal"}, on : {{m} : m \in Monitor}]
  <2>1. c.fn \in {"wait", "signal"} /\ c.on \in {{m} : m \in Monitor}
    BY <1>2
  <2>2. PICK m \in Monitor : c.on = {m}
    BY <2>1
  <2>3. The(c.on) = m
    BY <2>2 DEF The
  <2> QED BY <2>1, <2>2, <2>3 DEF Idle
<1> QED BY <1>1, <1>2 DEF Calls

(* The monitors keep their addresses.                                      *)
LEMMA NullFacts == NULL \notin Monitor
BY MonitorsAssumption DEF NULL, Monitor

(* A step changes the mutexes as it changes what its thread should hold.   *)
LEMMA MutexStep ==
    ASSUME MutexTypes, MutexOK, NEW t \in Threads,
           \A v \in Threads : v # t => Held(v)' = Held(v),
           \/ mutex' = mutex /\ Held(t)' = Held(t)
           \/ \E m \in Monitor : /\ mutex[m] = Nobody /\ mutex' = [mutex EXCEPT ![m] = t]
                                 /\ Held(t)' = Held(t) \cup {m}
           \/ \E m \in Monitor : /\ m \in Held(t) /\ mutex' = [mutex EXCEPT ![m] = Nobody]
                                 /\ Held(t)' = Held(t) \ {m}
    PROVE  MutexOK' /\ mutex' \in [Monitor -> Threads \cup {Nobody}]
<1>0. mutex \in [Monitor -> Threads \cup {Nobody}] /\ Nobody \notin Threads
  BY MonitorsAssumption DEF MutexTypes
<1>1. CASE mutex' = mutex /\ Held(t)' = Held(t)
  <2>1. \A v \in Threads : Held(v)' = Held(v)
    BY <1>1
  <2> QED BY <1>0, <1>1, <2>1 DEF MutexOK
<1>2. CASE \E m \in Monitor : /\ mutex[m] = Nobody /\ mutex' = [mutex EXCEPT ![m] = t]
                              /\ Held(t)' = Held(t) \cup {m}
  <2>1. PICK m \in Monitor : /\ mutex[m] = Nobody /\ mutex' = [mutex EXCEPT ![m] = t]
                             /\ Held(t)' = Held(t) \cup {m}
    BY <1>2
  <2>2. /\ mutex' \in [Monitor -> Threads \cup {Nobody}] /\ mutex'[m] = t
        /\ \A n \in Monitor : n # m => mutex'[n] = mutex[n]
    BY <1>0, <2>1
  <2>3. \A v \in Threads : m \notin Held(v)
    BY <1>0, <2>1 DEF MutexOK
  <2>4. ASSUME NEW v \in Threads, NEW n \in Monitor
        PROVE  mutex'[n] = v <=> n \in Held(v)'
    <3>1. CASE v = t
      BY <2>1, <2>2, <3>1 DEF MutexOK
    <3>2. CASE v # t
      <4>1. Held(v)' = Held(v)
        BY <3>2
      <4> QED BY <2>2, <2>3, <3>2, <4>1 DEF MutexOK
    <3> QED BY <3>1, <3>2
  <2> QED BY <2>2, <2>4 DEF MutexOK
<1>3. CASE \E m \in Monitor : /\ m \in Held(t) /\ mutex' = [mutex EXCEPT ![m] = Nobody]
                              /\ Held(t)' = Held(t) \ {m}
  <2>1. PICK m \in Monitor : /\ m \in Held(t) /\ mutex' = [mutex EXCEPT ![m] = Nobody]
                             /\ Held(t)' = Held(t) \ {m}
    BY <1>3
  <2>2. /\ mutex' \in [Monitor -> Threads \cup {Nobody}] /\ mutex'[m] = Nobody
        /\ \A n \in Monitor : n # m => mutex'[n] = mutex[n]
    BY <1>0, <2>1
  <2>3. \A v \in Threads : v # t => m \notin Held(v)
    BY <2>1 DEF MutexOK
  <2>4. ASSUME NEW v \in Threads, NEW n \in Monitor
        PROVE  mutex'[n] = v <=> n \in Held(v)'
    <3>1. CASE v = t
      BY <1>0, <2>1, <2>2, <3>1 DEF MutexOK
    <3>2. CASE v # t
      <4>1. Held(v)' = Held(v)
        BY <3>2
      <4> QED BY <1>0, <2>2, <2>3, <3>2, <4>1 DEF MutexOK
    <3> QED BY <3>1, <3>2
  <2> QED BY <2>2, <2>4 DEF MutexOK
<1> QED BY <1>1, <1>2, <1>3

(* A step changes the wait lists as it changes where its thread should be  *)
(* linked in.                                                              *)
LEMMA ListStep ==
    ASSUME QueueTypes, ListOK, NEW t \in Threads,
           \A v \in Threads : v # t => Linked(v)' = Linked(v),
           \/ queue' = queue /\ Linked(t)' = Linked(t)
           \/ /\ Linked(t) = {}
              /\ queue' = [m \in Monitor |-> IF m \in Linked(t)' THEN AddWaitList(queue[m], t)
                                                                ELSE queue[m]]
           \/ \E m \in Monitor : /\ m \in Linked(t) /\ Linked(t)' = Linked(t) \ {m}
                                 /\ queue' = [queue EXCEPT ![m] = RemoveWaitList(queue[m], t)]
    PROVE  ListOK' /\ QueueTypes'
<1>0. /\ queue \in [Monitor -> Seq(Threads)]
      /\ \A m \in Monitor : IsWaitList(queue[m], Threads)
  BY DEF QueueTypes
<1>1. CASE queue' = queue /\ Linked(t)' = Linked(t)
  <2>1. \A v \in Threads : Linked(v)' = Linked(v)
    BY <1>1
  <2> QED BY <1>0, <1>1, <2>1 DEF ListOK, QueueTypes
<1>2. ASSUME NEW m \in Monitor, queue'[m] = AddWaitList(queue[m], t), Linked(t) = {}, m \in Linked(t)'
      PROVE  /\ IsWaitList(queue'[m], Threads)
             /\ \A v \in Threads : v \in Listed(queue'[m]) <=> m \in Linked(v)'
  <2>1. t \notin Listed(queue[m])
    BY <1>2 DEF ListOK
  <2>2. IsWaitList(queue'[m], Threads) /\ Listed(queue'[m]) = Listed(queue[m]) \cup {t}
    BY <1>0, <1>2, <2>1, AddWaitListFacts
  <2> QED BY <1>2, <2>2 DEF ListOK
<1>3. ASSUME NEW m \in Monitor, queue'[m] = queue[m], m \in Linked(t)' <=> m \in Linked(t)
      PROVE  /\ IsWaitList(queue'[m], Threads)
             /\ \A v \in Threads : v \in Listed(queue'[m]) <=> m \in Linked(v)'
  <2>1. \A v \in Threads : m \in Linked(v)' <=> m \in Linked(v)
    BY <1>3
  <2> QED BY <1>0, <1>3, <2>1 DEF ListOK
<1>4. ASSUME NEW m \in Monitor, queue'[m] = RemoveWaitList(queue[m], t), m \in Linked(t),
             m \notin Linked(t)'
      PROVE  /\ IsWaitList(queue'[m], Threads)
             /\ \A v \in Threads : v \in Listed(queue'[m]) <=> m \in Linked(v)'
  <2>1. t \in Listed(queue[m])
    BY <1>4 DEF ListOK
  <2>2. IsWaitList(queue'[m], Threads) /\ Listed(queue'[m]) = Listed(queue[m]) \ {t}
    BY <1>0, <1>4, <2>1, RemoveWaitListFacts
  <2> QED BY <1>4, <2>2 DEF ListOK
<1>5. ASSUME queue' = [m \in Monitor |-> queue'[m]],
             \A m \in Monitor : /\ IsWaitList(queue'[m], Threads)
                                /\ \A v \in Threads : v \in Listed(queue'[m]) <=> m \in Linked(v)'
      PROVE  ListOK' /\ QueueTypes'
  <2>1. \A m \in Monitor : queue'[m] \in Seq(Threads)
    BY <1>5 DEF IsWaitList
  <2>2. queue' \in [Monitor -> Seq(Threads)]
    BY <1>5, <2>1
  <2>3. ListOK'
    BY <1>5 DEF ListOK
  <2> QED BY <1>5, <2>2, <2>3 DEF QueueTypes
<1>6. CASE /\ Linked(t) = {}
           /\ queue' = [m \in Monitor |-> IF m \in Linked(t)' THEN AddWaitList(queue[m], t)
                                                             ELSE queue[m]]
  <2>1. queue' = [m \in Monitor |-> queue'[m]]
    BY <1>6
  <2>2. ASSUME NEW m \in Monitor
        PROVE  /\ IsWaitList(queue'[m], Threads)
               /\ \A v \in Threads : v \in Listed(queue'[m]) <=> m \in Linked(v)'
    <3>1. CASE m \in Linked(t)'
      <4>1. queue'[m] = AddWaitList(queue[m], t)
        BY <1>6, <3>1
      <4> QED BY <1>2, <1>6, <3>1, <4>1
    <3>2. CASE m \notin Linked(t)'
      <4>1. queue'[m] = queue[m] /\ (m \in Linked(t)' <=> m \in Linked(t))
        BY <1>6, <3>2
      <4> QED BY <1>3, <4>1
    <3> QED BY <3>1, <3>2
  <2> QED BY <1>5, <2>1, <2>2
<1>7. CASE \E m \in Monitor : /\ m \in Linked(t) /\ Linked(t)' = Linked(t) \ {m}
                              /\ queue' = [queue EXCEPT ![m] = RemoveWaitList(queue[m], t)]
  <2>1. PICK n \in Monitor : /\ n \in Linked(t) /\ Linked(t)' = Linked(t) \ {n}
                             /\ queue' = [queue EXCEPT ![n] = RemoveWaitList(queue[n], t)]
    BY <1>7
  <2>2. queue' = [m \in Monitor |-> queue'[m]]
    BY <1>0, <2>1
  <2>3. ASSUME NEW m \in Monitor
        PROVE  /\ IsWaitList(queue'[m], Threads)
               /\ \A v \in Threads : v \in Listed(queue'[m]) <=> m \in Linked(v)'
    <3>1. CASE m = n
      <4>1. queue'[m] = RemoveWaitList(queue[m], t) /\ m \in Linked(t) /\ m \notin Linked(t)'
        BY <1>0, <2>1, <3>1
      <4> QED BY <1>4, <4>1
    <3>2. CASE m # n
      <4>1. queue'[m] = queue[m] /\ (m \in Linked(t)' <=> m \in Linked(t))
        BY <1>0, <2>1, <3>2
      <4> QED BY <1>3, <4>1
    <3> QED BY <3>1, <3>2
  <2> QED BY <1>5, <2>2, <2>3
<1> QED BY <1>1, <1>6, <1>7

(* A step changes the thread locks as it changes what its thread should    *)
(* hold.                                                                   *)
LEMMA ThreadLockStep ==
    ASSUME MutexTypes, ThreadLockOK, NEW t \in Threads,
           \A v \in Threads : v # t => Own(v)' = Own(v),
           \/ threadLock' = threadLock /\ Own(t)' = Own(t)
           \/ \E u \in Threads : /\ threadLock[u] = Nobody /\ Own(t) = {} /\ Own(t)' = {u}
                                 /\ threadLock' = [threadLock EXCEPT ![u] = t]
           \/ \E u \in Threads : /\ Own(t) = {u} /\ Own(t)' = {}
                                 /\ threadLock' = [threadLock EXCEPT ![u] = Nobody]
    PROVE  ThreadLockOK' /\ threadLock' \in [Threads -> Threads \cup {Nobody}]
<1>0. threadLock \in [Threads -> Threads \cup {Nobody}] /\ Nobody \notin Threads
  BY MonitorsAssumption DEF MutexTypes
<1>1. CASE threadLock' = threadLock /\ Own(t)' = Own(t)
  <2>1. \A v \in Threads : Own(v)' = Own(v)
    BY <1>1
  <2> QED BY <1>0, <1>1, <2>1 DEF ThreadLockOK
<1>2. CASE \E u \in Threads : /\ threadLock[u] = Nobody /\ Own(t) = {} /\ Own(t)' = {u}
                              /\ threadLock' = [threadLock EXCEPT ![u] = t]
  <2>1. PICK u \in Threads : /\ threadLock[u] = Nobody /\ Own(t) = {} /\ Own(t)' = {u}
                             /\ threadLock' = [threadLock EXCEPT ![u] = t]
    BY <1>2
  <2>2. /\ threadLock' \in [Threads -> Threads \cup {Nobody}] /\ threadLock'[u] = t
        /\ \A w \in Threads : w # u => threadLock'[w] = threadLock[w]
    BY <1>0, <2>1
  <2>3. \A v \in Threads : u \notin Own(v)
    BY <1>0, <2>1 DEF ThreadLockOK
  <2>4. ASSUME NEW v \in Threads, NEW w \in Threads
        PROVE  threadLock'[w] = v <=> w \in Own(v)'
    <3>1. CASE v = t
      BY <2>1, <2>2, <3>1 DEF ThreadLockOK
    <3>2. CASE v # t
      <4>1. Own(v)' = Own(v)
        BY <3>2
      <4> QED BY <2>2, <2>3, <3>2, <4>1 DEF ThreadLockOK
    <3> QED BY <3>1, <3>2
  <2> QED BY <2>2, <2>4 DEF ThreadLockOK
<1>3. CASE \E u \in Threads : /\ Own(t) = {u} /\ Own(t)' = {}
                              /\ threadLock' = [threadLock EXCEPT ![u] = Nobody]
  <2>1. PICK u \in Threads : /\ Own(t) = {u} /\ Own(t)' = {}
                             /\ threadLock' = [threadLock EXCEPT ![u] = Nobody]
    BY <1>3
  <2>2. /\ threadLock' \in [Threads -> Threads \cup {Nobody}] /\ threadLock'[u] = Nobody
        /\ \A w \in Threads : w # u => threadLock'[w] = threadLock[w]
    BY <1>0, <2>1
  <2>3. \A v \in Threads : v # t => u \notin Own(v)
    BY <2>1 DEF ThreadLockOK
  <2>4. ASSUME NEW v \in Threads, NEW w \in Threads
        PROVE  threadLock'[w] = v <=> w \in Own(v)'
    <3>1. CASE v = t
      BY <1>0, <2>1, <2>2, <3>1 DEF ThreadLockOK
    <3>2. CASE v # t
      <4>1. Own(v)' = Own(v)
        BY <3>2
      <4> QED BY <1>0, <2>2, <2>3, <3>2, <4>1 DEF ThreadLockOK
    <3> QED BY <3>1, <3>2
  <2> QED BY <2>2, <2>4 DEF ThreadLockOK
<1> QED BY <1>1, <1>2, <1>3

-----------------------------------------------------------------------------
(* Thread v's own state is left alone.                                     *)
SameThread(v) ==
    /\ pc'[v] = pc[v] /\ call'[v] = call[v] /\ todo'[v] = todo[v]
    /\ walk'[v] = walk[v] /\ got'[v] = got[v] /\ acquired'[v] = acquired[v]
Others(t) == \A v \in Threads : v # t => SameThread(v)

(* A walker's monitor, and what it holds.                                  *)
LEMMA WalkerFacts ==
    ASSUME IInv, NEW t \in Threads, pc[t] \in {"walk", "poke"}
    PROVE  /\ The(call[t].on) \in Monitor /\ call[t].on = {The(call[t].on)}
           /\ Held(t) = {The(call[t].on)} /\ mutex[The(call[t].on)] = t
           /\ call[t].fn = "signal"
<1>1. CallAt(pc[t], call[t], todo[t])
  BY DEF IInv, LocalOK
<1>2. call[t] \in Calls /\ call[t].fn = "signal"
  BY <1>1 DEF CallAt
<1>3. The(call[t].on) \in Monitor /\ call[t].on = {The(call[t].on)}
  BY <1>2, CallFacts
<1>4. Held(t) = call[t].on
  BY DEF Held, HeldAt
<1> QED BY <1>2, <1>3, <1>4 DEF IInv, MutexOK

(* What is to be shown of a step of thread t alone.  It may change lists   *)
(* of monitors nobody else holds, so the walks of other threads stand; if  *)
(* it clears its acquiredMonitor, it is in no list any more.               *)
LEMMA ThreadStep ==
    ASSUME IInv, NEW t \in Threads, Others(t), LocalTypes', LocalOK(t)', WalkOK(t)',
           \/ mutex' = mutex /\ Held(t)' = Held(t)
           \/ \E m \in Monitor : /\ mutex[m] = Nobody /\ mutex' = [mutex EXCEPT ![m] = t]
                                 /\ Held(t)' = Held(t) \cup {m}
           \/ \E m \in Monitor : /\ m \in Held(t) /\ mutex' = [mutex EXCEPT ![m] = Nobody]
                                 /\ Held(t)' = Held(t) \ {m},
           \/ queue' = queue /\ Linked(t)' = Linked(t)
           \/ /\ Linked(t) = {}
              /\ queue' = [m \in Monitor |-> IF m \in Linked(t)' THEN AddWaitList(queue[m], t)
                                                                ELSE queue[m]]
           \/ \E m \in Monitor : /\ m \in Linked(t) /\ Linked(t)' = Linked(t) \ {m}
                                 /\ queue' = [queue EXCEPT ![m] = RemoveWaitList(queue[m], t)],
           \/ threadLock' = threadLock /\ Own(t)' = Own(t)
           \/ \E u \in Threads : /\ threadLock[u] = Nobody /\ Own(t) = {} /\ Own(t)' = {u}
                                 /\ threadLock' = [threadLock EXCEPT ![u] = t]
           \/ \E u \in Threads : /\ Own(t) = {u} /\ Own(t)' = {}
                                 /\ threadLock' = [threadLock EXCEPT ![u] = Nobody],
           \A m \in Monitor : queue'[m] # queue[m] => m \in Held(t) \/ mutex[m] = Nobody,
           acquired'[t] = acquired[t] \/ Linked(t)' = {}
    PROVE  IInv'
<1>1. \A v \in Threads : v # t => Held(v)' = Held(v) /\ Linked(v)' = Linked(v)
  BY DEF Others, SameThread, Held, Linked
<1>2. MutexOK' /\ mutex' \in [Monitor -> Threads \cup {Nobody}]
  BY <1>1, MutexStep DEF IInv
<1>3. ListOK' /\ QueueTypes'
  BY <1>1, ListStep DEF IInv
<1>4. ASSUME NEW v \in Threads, v # t, pc[v] \in {"walk", "poke"}
      PROVE  /\ The(call[v].on) \in Monitor /\ call'[v] = call[v]
             /\ queue'[The(call[v].on)] = queue[The(call[v].on)]
  <2>1. The(call[v].on) \in Monitor /\ mutex[The(call[v].on)] = v
    BY <1>4, WalkerFacts
  <2>2. The(call[v].on) \notin Held(t) /\ mutex[The(call[v].on)] # Nobody
    BY <1>4, <2>1, MonitorsAssumption DEF IInv, MutexOK
  <2> QED BY <1>4, <2>1, <2>2 DEF Others, SameThread
<1>5. \A v \in Threads : v # t => Own(v)' = Own(v)
  <2> SUFFICES ASSUME NEW v \in Threads, v # t PROVE Own(v)' = Own(v)
    OBVIOUS
  <2>1. pc'[v] = pc[v] /\ walk'[v] = walk[v] /\ call'[v] = call[v]
    BY DEF Others, SameThread
  <2>2. pc[v] = "poke" => Cursor(v)' = Cursor(v)
    BY <1>4, <2>1 DEF Cursor
  <2> QED BY <2>1, <2>2 DEF Own
<1>6. ThreadLockOK' /\ threadLock' \in [Threads -> Threads \cup {Nobody}]
  BY <1>5, ThreadLockStep DEF IInv
<1>7. ASSUME NEW v \in Threads, v # t
      PROVE  LocalOK(v)' /\ WalkOK(v)'
  <2>1. SameThread(v)
    BY <1>7 DEF Others
  <2>2. LocalOK(v)'
    <3>1. LocalOK(v)
      BY DEF IInv
    <3> QED BY <2>1, <3>1 DEF SameThread, LocalOK
  <2>3. WalkOK(v)'
    <3> DEFINE q == queue[The(call[v].on)]
    <3>1. CASE pc[v] \in {"walk", "poke"}
      <4>1. /\ The(call[v].on) \in Monitor /\ q' = q
            /\ pc'[v] = pc[v] /\ walk'[v] = walk[v] /\ call'[v] = call[v]
        BY <1>4, <1>7, <2>1, <3>1 DEF SameThread
      <4>2. /\ pc[v] = "poke" => walk[v] <= Len(q)
            /\ \A i \in 1 .. (walk[v] - 1) : i <= Len(q) /\ acquired[q[i]] # NULL
        BY <3>1 DEF IInv, WalkOK
      <4>3. IsWaitList(q, Threads) /\ q \in Seq(Threads)
        BY <4>1 DEF IInv, QueueTypes
      <4>4. \A i \in 1 .. Len(q) : q[i] \in Threads /\ q[i] \in Listed(q)
        BY <4>3, ElementOfSeq, LenProperties DEF Listed, Range
      <4>5. walk[v] \in Nat
        BY DEF IInv, LocalTypes
      <4> HIDE DEF q
      <4>6. ASSUME NEW i \in 1 .. (walk[v] - 1)
            PROVE  acquired'[q[i]] # NULL
        <5>1. i \in 1 .. Len(q) /\ acquired[q[i]] # NULL
          BY <4>2, <4>3, <4>5, LenProperties
        <5>2. CASE q[i] # t
          BY <4>4, <5>1, <5>2 DEF Others, SameThread
        <5>3. CASE q[i] = t
          <6>1. t \in Listed(q')
            BY <4>1, <4>4, <5>1, <5>3
          <6>2. The(call[v].on) \in Linked(t)'
            BY <1>3, <4>1, <6>1 DEF ListOK, q
          <6>3. acquired'[t] = acquired[t]
            BY <6>2
          <6> QED BY <5>1, <5>3, <6>3
        <5> QED BY <5>2, <5>3
      <4> QED BY <4>1, <4>2, <4>6 DEF WalkOK, q
    <3>2. CASE pc[v] \notin {"walk", "poke"}
      BY <2>1, <3>2 DEF SameThread, WalkOK
    <3> QED BY <3>1, <3>2
  <2> QED BY <2>2, <2>3
<1> QED BY <1>2, <1>3, <1>6, <1>7 DEF IInv, MutexTypes

-----------------------------------------------------------------------------
(* What the invariant says of one thread.                                  *)
LEMMA OwnState ==
    ASSUME IInv, NEW t \in Threads
    PROVE  /\ acquired[t] \in Monitor \cup {NULL} /\ pc[t] \in Labels
           /\ call[t] \in Calls \cup {Idle} /\ todo[t] \in SUBSET Monitor
           /\ walk[t] \in Nat /\ walk[t] >= 1 /\ got[t] \in Monitor \cup {NULL}
           /\ CallAt(pc[t], call[t], todo[t])
           /\ AcquiredAt(pc[t], call[t], acquired[t], got[t])
           /\ pc[t] # "idle" => call[t] \in Calls
           /\ pc[t] = "idle" => call[t] = Idle
BY DEF IInv, LocalTypes, LocalOK, CallAt

(* A thread that is not walking has nothing to say about a cursor.         *)
LEMMA NotWalking ==
    ASSUME NEW t \in Threads, pc'[t] \notin {"walk", "poke"}
    PROVE  WalkOK(t)'
BY DEF WalkOK

(* The invariant holds when the threads start.                             *)
LEMMA InitInv == Init => IInv
<1> SUFFICES ASSUME Init PROVE IInv
  OBVIOUS
<1> USE DEF Init
<1>1. LocalTypes
  BY DEF LocalTypes, Labels
<1>2. MutexTypes
  BY DEF MutexTypes
<1>3. \A m \in Monitor : queue[m] = <<>> /\ IsWaitList(queue[m], Threads) /\ Listed(queue[m]) = {}
  BY DEF IsWaitList, Listed, Range
<1>4. QueueTypes
  BY <1>3 DEF QueueTypes
<1>5. \A t \in Threads : /\ pc[t] = "idle" /\ call[t] = Idle /\ todo[t] = {} /\ acquired[t] = NULL
                         /\ got[t] = NULL /\ walk[t] = 1
  OBVIOUS
<1>6. \A t \in Threads : Held(t) = {} /\ Linked(t) = {} /\ Own(t) = {}
  BY <1>5 DEF Held, HeldAt, Linked, LinkedAt, WaitLabels, Own
<1>7. MutexOK /\ ThreadLockOK
  BY <1>6, MonitorsAssumption DEF MutexOK, ThreadLockOK
<1>8. ListOK
  BY <1>3, <1>6 DEF ListOK
<1>9. \A t \in Threads : LocalOK(t) /\ WalkOK(t)
  BY <1>5 DEF LocalOK, WalkOK, CallAt, AcquiredAt, WaitLabels, Idle
<1> QED BY <1>1, <1>2, <1>4, <1>7, <1>8, <1>9 DEF IInv

(* LockMonitor and LockMonitors begin.                                     *)
LEMMA CallInv ==
    ASSUME IInv, NEW t \in Threads, Call(t)
    PROVE  IInv'
<1>1. PICK c \in Calls : call' = [call EXCEPT ![t] = c] /\ todo' = [todo EXCEPT ![t] = c.on]
  BY DEF Call
<1>2. c.on \subseteq Monitor /\ c.on # {} /\ c # Idle /\ c.fn \in {"wait", "signal", "any"}
  BY CallFacts
<1>3. pc[t] = "idle" /\ pc' = [pc EXCEPT ![t] = "lock"]
  BY DEF Call, Goto
<1>4. UNCHANGED <<mutex, threadLock, queue, acquired, walk, got>>
  BY DEF Call
<1>5. Others(t) /\ LocalTypes'
  BY <1>1, <1>2, <1>3, <1>4 DEF IInv, LocalTypes, Others, SameThread, Labels
<1>6. pc'[t] = "lock" /\ call'[t] = c /\ todo'[t] = c.on
  BY <1>1, <1>3 DEF IInv, LocalTypes
<1>7. acquired[t] = NULL /\ walk[t] >= 1 /\ todo[t] = {}
  BY <1>3, OwnState DEF AcquiredAt, CallAt, WaitLabels
<1>8. LocalOK(t)'
  BY <1>2, <1>4, <1>6, <1>7 DEF LocalOK, CallAt, AcquiredAt, WaitLabels
<1>9. /\ Held(t) = {} /\ Held(t)' = {} /\ Linked(t) = {} /\ Linked(t)' = {}
      /\ Own(t) = {} /\ Own(t)' = {}
  BY <1>3, <1>6 DEF Held, HeldAt, Linked, LinkedAt, WaitLabels, Own
<1>10. WalkOK(t)'
  BY <1>6, NotWalking
<1> QED BY <1>4, <1>5, <1>8, <1>9, <1>10, ThreadStep

(* LockMonitors takes the next monitor.                                    *)
LEMMA LockMonitorsInv ==
    ASSUME IInv, NEW t \in Threads, LockMonitors(t)
    PROVE  IInv'
<1> DEFINE m == Lowest(todo[t])
           label == IF todo[t] = {m} THEN "held" ELSE "lock"
<1>1. /\ pc[t] = "lock" /\ mutex[m] = Nobody /\ mutex' = [mutex EXCEPT ![m] = t]
      /\ todo' = [todo EXCEPT ![t] = todo[t] \ {m}]
      /\ UNCHANGED <<threadLock, queue, acquired, call, walk, got>>
  BY DEF LockMonitors, Lock
<1>2. pc \in [Threads -> Labels] /\ todo \in [Threads -> SUBSET Monitor]
  BY DEF IInv, LocalTypes
<1>3. pc' = [pc EXCEPT ![t] = label]
  BY <1>1, <1>2 DEF LockMonitors, Goto
<1>4. todo[t] # {} /\ todo[t] \in SUBSET Monitor /\ CallAt("lock", call[t], todo[t])
      /\ call[t] \in Calls /\ acquired[t] = NULL /\ walk[t] >= 1
  BY <1>1, OwnState DEF CallAt, AcquiredAt, WaitLabels
<1>5. m \in todo[t] /\ m \in Monitor
  BY <1>4, LowestFacts
<1> HIDE DEF m
<1>6. Others(t) /\ LocalTypes'
  BY <1>1, <1>3, <1>5 DEF IInv, LocalTypes, Others, SameThread, Labels
<1>7. pc'[t] = label /\ todo'[t] = todo[t] \ {m} /\ call'[t] = call[t] /\ acquired'[t] = NULL
      /\ walk'[t] = walk[t] /\ got'[t] = got[t]
  BY <1>1, <1>2, <1>3, <1>4
<1>8. LocalOK(t)'
  BY <1>4, <1>5, <1>7 DEF LocalOK, CallAt, AcquiredAt, WaitLabels
<1>9. WalkOK(t)'
  BY <1>7, NotWalking
<1>10. Held(t)' = Held(t) \cup {m}
  BY <1>1, <1>4, <1>5, <1>7 DEF Held, HeldAt, CallAt
<1>11. Linked(t) = {} /\ Linked(t)' = {} /\ Own(t) = {} /\ Own(t)' = {}
  BY <1>1, <1>7 DEF Linked, LinkedAt, WaitLabels, Own
<1> HIDE DEF label
<1> QED BY <1>1, <1>4, <1>5, <1>6, <1>7, <1>8, <1>9, <1>10, <1>11, ThreadStep

(* AddWaitList on every monitor of the call, all of them held.             *)
LEMMA BeginWaitInv ==
    ASSUME IInv, NEW t \in Threads, BeginWait(t)
    PROVE  IInv'
<1>1. /\ pc[t] = "held" /\ call[t].fn \in {"wait", "any"}
      /\ queue' = [m \in Monitor |-> IF m \in call[t].on THEN AddWaitList(queue[m], t) ELSE queue[m]]
      /\ todo' = [todo EXCEPT ![t] = call[t].on] /\ pc' = [pc EXCEPT ![t] = "release"]
      /\ UNCHANGED <<mutex, threadLock, acquired, call, walk, got>>
  BY DEF BeginWait, Goto
<1>2. CallAt("held", call[t], todo[t]) /\ call[t] \in Calls /\ acquired[t] = NULL /\ walk[t] >= 1
  BY <1>1, OwnState DEF AcquiredAt, WaitLabels
<1>3. call[t].on \subseteq Monitor /\ call[t].on # {} /\ call[t] # Idle
  BY <1>2, CallFacts
<1>4. Others(t) /\ LocalTypes'
  BY <1>1, <1>3 DEF IInv, LocalTypes, Others, SameThread, Labels
<1>5. pc'[t] = "release" /\ todo'[t] = call[t].on /\ call'[t] = call[t] /\ acquired'[t] = NULL
      /\ walk'[t] = walk[t] /\ got'[t] = got[t]
  BY <1>1, <1>2 DEF IInv, LocalTypes
<1>6. LocalOK(t)'
  BY <1>1, <1>2, <1>3, <1>5 DEF LocalOK, CallAt, AcquiredAt, WaitLabels
<1>7. WalkOK(t)'
  BY <1>5, NotWalking
<1>8. Held(t)' = Held(t) /\ Held(t) = call[t].on
  BY <1>1, <1>5 DEF Held, HeldAt
<1>9. Linked(t) = {} /\ Linked(t)' = call[t].on /\ Own(t) = {} /\ Own(t)' = {}
  BY <1>1, <1>5 DEF Linked, LinkedAt, WaitLabels, Own
<1>10. \A m \in Monitor : queue'[m] # queue[m] => m \in Held(t)
  BY <1>1, <1>8
<1>11. queue' = [m \in Monitor |-> IF m \in Linked(t)' THEN AddWaitList(queue[m], t) ELSE queue[m]]
  BY <1>1, <1>9
<1> QED BY <1>1, <1>2, <1>4, <1>5, <1>6, <1>7, <1>8, <1>9, <1>10, <1>11, ThreadStep

(* The loop of UnlockMonitor.                                              *)
LEMMA UnlockMonitorsInv ==
    ASSUME IInv, NEW t \in Threads, UnlockMonitors(t)
    PROVE  IInv'
<1> DEFINE m == Lowest(todo[t])
           label == IF todo[t] = {m} THEN "tlock" ELSE "release"
<1>1. /\ pc[t] = "release" /\ mutex' = [mutex EXCEPT ![m] = Nobody]
      /\ todo' = [todo EXCEPT ![t] = todo[t] \ {m}]
      /\ UNCHANGED <<threadLock, queue, acquired, call, walk, got>>
  BY DEF UnlockMonitors, Unlock
<1>2. pc \in [Threads -> Labels] /\ todo \in [Threads -> SUBSET Monitor]
  BY DEF IInv, LocalTypes
<1>3. pc' = [pc EXCEPT ![t] = label]
  BY <1>1, <1>2 DEF UnlockMonitors, Goto
<1>4. todo[t] # {} /\ todo[t] \in SUBSET Monitor /\ CallAt("release", call[t], todo[t])
      /\ call[t] \in Calls /\ AcquiredAt("release", call[t], acquired[t], got[t]) /\ walk[t] >= 1
  BY <1>1, OwnState DEF CallAt
<1>5. m \in todo[t] /\ m \in Monitor
  BY <1>4, LowestFacts
<1> HIDE DEF m
<1>6. Others(t) /\ LocalTypes'
  BY <1>1, <1>3, <1>5 DEF IInv, LocalTypes, Others, SameThread, Labels
<1>7. pc'[t] = label /\ todo'[t] = todo[t] \ {m} /\ call'[t] = call[t] /\ acquired'[t] = acquired[t]
      /\ walk'[t] = walk[t] /\ got'[t] = got[t]
  BY <1>1, <1>2, <1>3
<1>8. LocalOK(t)'
  <2>1. CallAt(label, call[t], todo[t] \ {m})
    BY <1>4, <1>5 DEF CallAt, WaitLabels
  <2>2. AcquiredAt(label, call[t], acquired[t], got[t])
    BY <1>4 DEF AcquiredAt, WaitLabels
  <2> QED BY <1>4, <1>7, <2>1, <2>2 DEF LocalOK
<1>9. WalkOK(t)'
  BY <1>7, NotWalking
<1>10. Held(t)' = Held(t) \ {m} /\ m \in Held(t)
  BY <1>1, <1>4, <1>5, <1>7 DEF Held, HeldAt, CallAt
<1>11. Linked(t) = Linked(t)' /\ Own(t) = {} /\ Own(t)' = {}
  BY <1>1, <1>7 DEF Linked, LinkedAt, WaitLabels, Own
<1> HIDE DEF label
<1> QED BY <1>1, <1>4, <1>5, <1>6, <1>7, <1>8, <1>9, <1>10, <1>11, ThreadStep

(* LockThread(GetTLS()) in the waiter.                                     *)
LEMMA LockSelfInv ==
    ASSUME IInv, NEW t \in Threads, LockSelf(t)
    PROVE  IInv'
<1>1. /\ pc[t] \in {"tlock", "wakeup"} /\ threadLock[t] = Nobody
      /\ threadLock' = [threadLock EXCEPT ![t] = t] /\ pc' = [pc EXCEPT ![t] = "check"]
      /\ UNCHANGED <<mutex, queue, acquired, call, todo, walk, got>>
  BY DEF LockSelf, LockThread, Goto
<1>2. /\ CallAt(pc[t], call[t], todo[t]) /\ call[t] \in Calls
      /\ AcquiredAt(pc[t], call[t], acquired[t], got[t]) /\ walk[t] >= 1
  BY <1>1, OwnState
<1>3. Others(t) /\ LocalTypes' /\ pc'[t] = "check"
  BY <1>1 DEF IInv, LocalTypes, Others, SameThread, Labels
<1>4. LocalOK(t)'
  BY <1>1, <1>2, <1>3, CallFacts DEF LocalOK, CallAt, AcquiredAt, WaitLabels
<1>5. WalkOK(t)'
  BY <1>3, NotWalking
<1>6. /\ Held(t) = {} /\ Held(t)' = {} /\ Linked(t)' = Linked(t)
      /\ Own(t) = {} /\ Own(t)' = {t}
  BY <1>1, <1>3 DEF Held, HeldAt, Linked, LinkedAt, WaitLabels, Own
<1> QED BY <1>1, <1>3, <1>4, <1>5, <1>6, ThreadStep

(* The waiter goes to sleep.                                               *)
LEMMA SleepInv ==
    ASSUME IInv, NEW t \in Threads, Sleep(t)
    PROVE  IInv'
<1>1. /\ pc[t] = "check" /\ acquired[t] = NULL
      /\ threadLock' = [threadLock EXCEPT ![t] = Nobody] /\ pc' = [pc EXCEPT ![t] = "asleep"]
      /\ UNCHANGED <<mutex, queue, acquired, call, todo, walk, got>>
  BY DEF Sleep, UnlockThread, Goto
<1>2. CallAt(pc[t], call[t], todo[t]) /\ call[t] \in Calls /\ walk[t] >= 1
  BY <1>1, OwnState
<1>3. Others(t) /\ LocalTypes' /\ pc'[t] = "asleep"
  BY <1>1 DEF IInv, LocalTypes, Others, SameThread, Labels
<1>4. LocalOK(t)'
  BY <1>1, <1>2, <1>3, CallFacts DEF LocalOK, CallAt, AcquiredAt, WaitLabels
<1>5. WalkOK(t)'
  BY <1>3, NotWalking
<1>6. /\ Held(t) = {} /\ Held(t)' = {} /\ Linked(t)' = Linked(t)
      /\ Own(t) = {t} /\ Own(t)' = {}
  BY <1>1, <1>3 DEF Held, HeldAt, Linked, LinkedAt, WaitLabels, Own
<1> QED BY <1>1, <1>3, <1>4, <1>5, <1>6, ThreadStep

(* The waiter wakes up without a signal.                                   *)
LEMMA SpuriousWakeupInv ==
    ASSUME IInv, NEW t \in Threads, SpuriousWakeup(t)
    PROVE  IInv'
<1>1. /\ pc[t] = "asleep" /\ pc' = [pc EXCEPT ![t] = "wakeup"]
      /\ UNCHANGED <<mutex, threadLock, queue, acquired, call, todo, walk, got>>
  BY DEF SpuriousWakeup, Goto
<1>2. /\ CallAt(pc[t], call[t], todo[t]) /\ call[t] \in Calls
      /\ AcquiredAt(pc[t], call[t], acquired[t], got[t]) /\ walk[t] >= 1
  BY <1>1, OwnState
<1>3. Others(t) /\ LocalTypes' /\ pc'[t] = "wakeup"
  BY <1>1 DEF IInv, LocalTypes, Others, SameThread, Labels
<1>4. LocalOK(t)'
  BY <1>1, <1>2, <1>3, CallFacts DEF LocalOK, CallAt, AcquiredAt, WaitLabels
<1>5. WalkOK(t)'
  BY <1>3, NotWalking
<1>6. /\ Held(t) = {} /\ Held(t)' = {} /\ Linked(t)' = Linked(t)
      /\ Own(t) = {} /\ Own(t)' = {}
  BY <1>1, <1>3 DEF Held, HeldAt, Linked, LinkedAt, WaitLabels, Own
<1> QED BY <1>1, <1>3, <1>4, <1>5, <1>6, ThreadStep

(* The waiter sees that it was signalled.                                  *)
LEMMA SignalledInv ==
    ASSUME IInv, NEW t \in Threads, Signalled(t)
    PROVE  IInv'
<1>1. /\ pc[t] = "check" /\ acquired[t] # NULL /\ got' = [got EXCEPT ![t] = acquired[t]]
      /\ UNCHANGED <<mutex, queue, acquired, call, walk>>
  BY DEF Signalled
<1>2. /\ CallAt("check", call[t], todo[t]) /\ call[t] \in Calls
      /\ AcquiredAt("check", call[t], acquired[t], got[t]) /\ walk[t] >= 1
      /\ acquired[t] \in Monitor \cup {NULL}
  BY <1>1, OwnState
<1>3. call[t] # Idle /\ call[t].on \subseteq Monitor /\ todo[t] = {}
  BY <1>2, CallFacts DEF CallAt
<1>4. CASE call[t].fn = "wait"
  <2>1. pc' = [pc EXCEPT ![t] = "try"] /\ UNCHANGED <<threadLock, todo>>
    BY <1>4 DEF Signalled, Goto
  <2>2. Others(t) /\ LocalTypes' /\ pc'[t] = "try" /\ got'[t] = acquired[t]
    BY <1>1, <1>2, <2>1 DEF IInv, LocalTypes, Others, SameThread, Labels
  <2>3. LocalOK(t)'
    BY <1>1, <1>2, <1>3, <1>4, <2>1, <2>2 DEF LocalOK, CallAt, AcquiredAt, WaitLabels
  <2>4. WalkOK(t)'
    BY <2>2, NotWalking
  <2>5. /\ Held(t) = {} /\ Held(t)' = {} /\ Linked(t)' = Linked(t)
        /\ Own(t) = {t} /\ Own(t)' = {t}
    BY <1>1, <2>2 DEF Held, HeldAt, Linked, LinkedAt, WaitLabels, Own
  <2> QED BY <1>1, <2>1, <2>2, <2>3, <2>4, <2>5, ThreadStep
<1>5. CASE call[t].fn = "any"
  <2>1. /\ pc' = [pc EXCEPT ![t] = "relock"] /\ threadLock' = [threadLock EXCEPT ![t] = Nobody]
        /\ todo' = [todo EXCEPT ![t] = call[t].on]
    BY <1>5 DEF Signalled, Goto, UnlockThread
  <2>2. /\ Others(t) /\ LocalTypes' /\ pc'[t] = "relock" /\ got'[t] = acquired[t]
        /\ todo'[t] = call[t].on
    BY <1>1, <1>2, <1>3, <2>1 DEF IInv, LocalTypes, Others, SameThread, Labels
  <2>3. LocalOK(t)'
    BY <1>1, <1>2, <1>3, <1>5, <2>1, <2>2 DEF LocalOK, CallAt, AcquiredAt, WaitLabels
  <2>4. WalkOK(t)'
    BY <2>2, NotWalking
  <2>5. /\ Held(t) = {} /\ Held(t)' = {} /\ Linked(t)' = Linked(t)
        /\ Own(t) = {t} /\ Own(t)' = {}
    BY <1>1, <2>2 DEF Held, HeldAt, Linked, LinkedAt, WaitLabels, Own
  <2> QED BY <1>1, <2>1, <2>2, <2>3, <2>4, <2>5, ThreadStep
<1> QED BY <1>2, <1>4, <1>5 DEF CallAt, WaitLabels

(* The monitor of a WaitForMonitor that has been signalled.                *)
LEMMA WaiterFacts ==
    ASSUME IInv, NEW t \in Threads, pc[t] \in {"try", "mlock", "tlock2", "leave"}
    PROVE  /\ The(call[t].on) \in Monitor /\ call[t].on = {The(call[t].on)} /\ call[t] # Idle
           /\ CallAt(pc[t], call[t], todo[t]) /\ call[t] \in Calls /\ call[t].fn = "wait"
           /\ AcquiredAt(pc[t], call[t], acquired[t], got[t]) /\ walk[t] >= 1
           /\ todo[t] = {} /\ acquired[t] = The(call[t].on) /\ got[t] = The(call[t].on)
<1>1. /\ CallAt(pc[t], call[t], todo[t]) /\ call[t] \in Calls
      /\ AcquiredAt(pc[t], call[t], acquired[t], got[t]) /\ walk[t] >= 1
  BY OwnState
<1>2. call[t].fn = "wait" /\ todo[t] = {}
  BY <1>1 DEF CallAt
<1>3. The(call[t].on) \in Monitor /\ call[t].on = {The(call[t].on)} /\ call[t] # Idle
  BY <1>1, <1>2, CallFacts
<1>4. acquired[t] \in call[t].on /\ got[t] = acquired[t]
  BY <1>1 DEF AcquiredAt
<1> QED BY <1>1, <1>2, <1>3, <1>4

(* WaitForMonitor: TryLockMonitor.                                         *)
LEMMA TryLockMonitorInv ==
    ASSUME IInv, NEW t \in Threads, TryLockMonitor(t)
    PROVE  IInv'
<1> DEFINE m == The(call[t].on)
<1>1. pc[t] = "try" /\ UNCHANGED <<queue, acquired, call, todo, walk, got>>
  BY DEF TryLockMonitor
<1>2. /\ m \in Monitor /\ call[t].on = {m} /\ call[t] # Idle
      /\ CallAt(pc[t], call[t], todo[t]) /\ call[t] \in Calls /\ call[t].fn = "wait"
      /\ AcquiredAt(pc[t], call[t], acquired[t], got[t]) /\ walk[t] >= 1
  BY <1>1, WaiterFacts
<1>3. CASE Lock(t, m) /\ Goto(t, "leave") /\ UNCHANGED threadLock
  <2>1. /\ mutex[m] = Nobody /\ mutex' = [mutex EXCEPT ![m] = t]
        /\ pc' = [pc EXCEPT ![t] = "leave"] /\ threadLock' = threadLock
    BY <1>3 DEF Lock, Goto
  <2> HIDE DEF m
  <2>2. Others(t) /\ LocalTypes' /\ pc'[t] = "leave"
    BY <1>1, <2>1 DEF IInv, LocalTypes, Others, SameThread, Labels
  <2>3. LocalOK(t)'
    BY <1>1, <1>2, <2>2 DEF LocalOK, CallAt, AcquiredAt, WaitLabels
  <2>4. WalkOK(t)'
    BY <2>2, NotWalking
  <2>5. /\ Held(t)' = Held(t) \cup {m} /\ Linked(t)' = Linked(t)
        /\ Own(t) = {t} /\ Own(t)' = {t}
    BY <1>1, <1>2, <2>2 DEF Held, HeldAt, Linked, LinkedAt, WaitLabels, Own
  <2> QED BY <1>1, <1>2, <2>1, <2>2, <2>3, <2>4, <2>5, ThreadStep
<1>4. CASE mutex[m] # Nobody /\ UnlockThread(t) /\ Goto(t, "mlock") /\ UNCHANGED mutex
  <2>1. /\ mutex' = mutex /\ threadLock' = [threadLock EXCEPT ![t] = Nobody]
        /\ pc' = [pc EXCEPT ![t] = "mlock"]
    BY <1>4 DEF UnlockThread, Goto
  <2> HIDE DEF m
  <2>2. Others(t) /\ LocalTypes' /\ pc'[t] = "mlock"
    BY <1>1, <2>1 DEF IInv, LocalTypes, Others, SameThread, Labels
  <2>3. LocalOK(t)'
    BY <1>1, <1>2, <2>2 DEF LocalOK, CallAt, AcquiredAt, WaitLabels
  <2>4. WalkOK(t)'
    BY <2>2, NotWalking
  <2>5. /\ Held(t) = {} /\ Held(t)' = {} /\ Linked(t)' = Linked(t)
        /\ Own(t) = {t} /\ Own(t)' = {}
    BY <1>1, <2>2 DEF Held, HeldAt, Linked, LinkedAt, WaitLabels, Own
  <2> QED BY <1>1, <2>1, <2>2, <2>3, <2>4, <2>5, ThreadStep
<1> QED BY <1>3, <1>4 DEF TryLockMonitor

(* WaitForMonitor waits for the monitor without its thread lock.           *)
LEMMA LockMonitorAfterTryInv ==
    ASSUME IInv, NEW t \in Threads, LockMonitorAfterTry(t)
    PROVE  IInv'
<1> DEFINE m == The(call[t].on)
<1>1. /\ pc[t] = "mlock" /\ mutex[m] = Nobody /\ mutex' = [mutex EXCEPT ![m] = t]
      /\ pc' = [pc EXCEPT ![t] = "tlock2"]
      /\ UNCHANGED <<threadLock, queue, acquired, call, todo, walk, got>>
  BY DEF LockMonitorAfterTry, Lock, Goto
<1>2. /\ m \in Monitor /\ call[t].on = {m} /\ call[t] # Idle
      /\ CallAt(pc[t], call[t], todo[t]) /\ call[t] \in Calls /\ call[t].fn = "wait"
      /\ AcquiredAt(pc[t], call[t], acquired[t], got[t]) /\ walk[t] >= 1
  BY <1>1, WaiterFacts
<1> HIDE DEF m
<1>3. Others(t) /\ LocalTypes' /\ pc'[t] = "tlock2"
  BY <1>1 DEF IInv, LocalTypes, Others, SameThread, Labels
<1>4. LocalOK(t)'
  BY <1>1, <1>2, <1>3 DEF LocalOK, CallAt, AcquiredAt, WaitLabels
<1>5. WalkOK(t)'
  BY <1>3, NotWalking
<1>6. /\ Held(t)' = Held(t) \cup {m} /\ Linked(t)' = Linked(t)
      /\ Own(t) = {} /\ Own(t)' = {}
  BY <1>1, <1>2, <1>3 DEF Held, HeldAt, Linked, LinkedAt, WaitLabels, Own
<1> QED BY <1>1, <1>2, <1>3, <1>4, <1>5, <1>6, ThreadStep

(* WaitForMonitor takes its thread lock again.                             *)
LEMMA LockSelfAfterTryInv ==
    ASSUME IInv, NEW t \in Threads, LockSelfAfterTry(t)
    PROVE  IInv'
<1>1. /\ pc[t] = "tlock2" /\ threadLock[t] = Nobody
      /\ threadLock' = [threadLock EXCEPT ![t] = t] /\ pc' = [pc EXCEPT ![t] = "leave"]
      /\ UNCHANGED <<mutex, queue, acquired, call, todo, walk, got>>
  BY DEF LockSelfAfterTry, LockThread, Goto
<1>2. /\ call[t] # Idle /\ CallAt(pc[t], call[t], todo[t]) /\ call[t] \in Calls
      /\ call[t].fn = "wait" /\ AcquiredAt(pc[t], call[t], acquired[t], got[t]) /\ walk[t] >= 1
  BY <1>1, WaiterFacts
<1>3. Others(t) /\ LocalTypes' /\ pc'[t] = "leave"
  BY <1>1 DEF IInv, LocalTypes, Others, SameThread, Labels
<1>4. LocalOK(t)'
  BY <1>1, <1>2, <1>3 DEF LocalOK, CallAt, AcquiredAt, WaitLabels
<1>5. WalkOK(t)'
  BY <1>3, NotWalking
<1>6. /\ Held(t)' = Held(t) /\ Linked(t)' = Linked(t)
      /\ Own(t) = {} /\ Own(t)' = {t}
  BY <1>1, <1>3 DEF Held, HeldAt, Linked, LinkedAt, WaitLabels, Own
<1> QED BY <1>1, <1>3, <1>4, <1>5, <1>6, ThreadStep

(* The end of WaitForMonitor.                                              *)
LEMMA LeaveWaitInv ==
    ASSUME IInv, NEW t \in Threads, LeaveWait(t)
    PROVE  IInv'
<1> DEFINE m == The(call[t].on)
<1>1. /\ pc[t] = "leave" /\ acquired' = [acquired EXCEPT ![t] = NULL]
      /\ queue' = [queue EXCEPT ![m] = RemoveWaitList(queue[m], t)]
      /\ threadLock' = [threadLock EXCEPT ![t] = Nobody] /\ pc' = [pc EXCEPT ![t] = "return"]
      /\ UNCHANGED <<mutex, call, todo, walk, got>>
  BY DEF LeaveWait, UnlockThread, Goto
<1>2. /\ m \in Monitor /\ call[t].on = {m} /\ call[t] # Idle
      /\ CallAt(pc[t], call[t], todo[t]) /\ call[t] \in Calls /\ call[t].fn = "wait"
      /\ walk[t] >= 1 /\ todo[t] = {} /\ got[t] = m
  BY <1>1, WaiterFacts
<1> HIDE DEF m
<1>3. Others(t) /\ LocalTypes' /\ pc'[t] = "return" /\ acquired'[t] = NULL
  BY <1>1 DEF IInv, LocalTypes, Others, SameThread, Labels
<1>4. LocalOK(t)'
  BY <1>1, <1>2, <1>3 DEF LocalOK, CallAt, AcquiredAt, WaitLabels
<1>5. WalkOK(t)'
  BY <1>3, NotWalking
<1>6. /\ Held(t) = {m} /\ Held(t)' = {m} /\ Linked(t) = {m} /\ Linked(t)' = {}
      /\ Own(t) = {t} /\ Own(t)' = {}
  BY <1>1, <1>2, <1>3 DEF Held, HeldAt, Linked, LinkedAt, WaitLabels, Own
<1>7. \A n \in Monitor : queue'[n] # queue[n] => n \in Held(t)
  BY <1>1, <1>2, <1>6 DEF IInv, QueueTypes
<1>8. m \in Linked(t) /\ Linked(t)' = Linked(t) \ {m}
  BY <1>6
<1> QED BY <1>1, <1>2, <1>3, <1>4, <1>5, <1>6, <1>7, <1>8, ThreadStep

(* One iteration of the last loop of WaitForAnyMonitor.                    *)
LEMMA RelockInv ==
    ASSUME IInv, NEW t \in Threads, Relock(t)
    PROVE  IInv'
<1> DEFINE m == Lowest(todo[t])
<1>1. /\ pc[t] = "relock" /\ todo[t] # {} /\ mutex[m] = Nobody
      /\ mutex' = [mutex EXCEPT ![m] = IF m = got[t] THEN t ELSE Nobody]
      /\ queue' = [queue EXCEPT ![m] = RemoveWaitList(queue[m], t)]
      /\ todo' = [todo EXCEPT ![t] = todo[t] \ {m}]
      /\ UNCHANGED <<threadLock, acquired, pc, call, walk, got>>
  BY DEF Relock
<1>2. /\ todo[t] \in SUBSET Monitor /\ CallAt("relock", call[t], todo[t]) /\ call[t] \in Calls
      /\ AcquiredAt("relock", call[t], acquired[t], got[t]) /\ walk[t] >= 1
  BY <1>1, OwnState
<1>3. m \in todo[t] /\ m \in Monitor
  BY <1>1, <1>2, LowestFacts
<1> HIDE DEF m
<1>4. Others(t) /\ LocalTypes' /\ todo'[t] = todo[t] \ {m}
  BY <1>1, <1>3 DEF IInv, LocalTypes, Others, SameThread
<1>5. LocalOK(t)'
  <2>1. CallAt("relock", call[t], todo[t] \ {m})
    BY <1>2 DEF CallAt, WaitLabels
  <2> QED BY <1>1, <1>2, <1>4, <2>1 DEF LocalOK
<1>6. WalkOK(t)'
  BY <1>1, NotWalking
<1>7. m \in Linked(t) /\ Linked(t)' = Linked(t) \ {m} /\ Own(t) = {} /\ Own(t)' = {}
  BY <1>1, <1>3, <1>4 DEF Linked, LinkedAt, WaitLabels, Own
<1>8. \A n \in Monitor : queue'[n] # queue[n] => mutex[n] = Nobody
  BY <1>1, <1>3 DEF IInv, QueueTypes
<1>9. CASE m = got[t]
  <2>1. mutex' = [mutex EXCEPT ![m] = t]
    BY <1>1, <1>9
  <2>2. Held(t)' = Held(t) \cup {m}
    BY <1>1, <1>2, <1>3, <1>4, <1>9 DEF Held, HeldAt, CallAt
  <2> QED BY <1>1, <1>3, <1>4, <1>5, <1>6, <1>7, <1>8, <2>1, <2>2, ThreadStep
<1>10. CASE m # got[t]
  <2>1. mutex' = mutex
    BY <1>1, <1>3, <1>10 DEF IInv, MutexTypes
  <2>2. Held(t)' = Held(t)
    BY <1>1, <1>2, <1>3, <1>4, <1>10 DEF Held, HeldAt, CallAt
  <2> QED BY <1>1, <1>3, <1>4, <1>5, <1>6, <1>7, <1>8, <2>1, <2>2, ThreadStep
<1> QED BY <1>9, <1>10

(* The end of WaitForAnyMonitor.                                           *)
LEMMA ClearAcquiredInv ==
    ASSUME IInv, NEW t \in Threads, ClearAcquired(t)
    PROVE  IInv'
<1>1. /\ pc[t] = "relock" /\ todo[t] = {} /\ acquired' = [acquired EXCEPT ![t] = NULL]
      /\ pc' = [pc EXCEPT ![t] = "return"]
      /\ UNCHANGED <<mutex, threadLock, queue, call, todo, walk, got>>
  BY DEF ClearAcquired, Goto
<1>2. /\ CallAt("relock", call[t], todo[t]) /\ call[t] \in Calls
      /\ AcquiredAt("relock", call[t], acquired[t], got[t]) /\ walk[t] >= 1
  BY <1>1, OwnState
<1>3. got[t] \in call[t].on /\ call[t].fn = "any" /\ call[t] # Idle
  BY <1>2, CallFacts DEF CallAt, AcquiredAt
<1>4. Others(t) /\ LocalTypes' /\ pc'[t] = "return" /\ acquired'[t] = NULL
  BY <1>1 DEF IInv, LocalTypes, Others, SameThread, Labels
<1>5. LocalOK(t)'
  BY <1>1, <1>2, <1>3, <1>4 DEF LocalOK, CallAt, AcquiredAt, WaitLabels
<1>6. WalkOK(t)'
  BY <1>4, NotWalking
<1>7. /\ Held(t) = {got[t]} /\ Held(t)' = {got[t]} /\ Linked(t) = {} /\ Linked(t)' = {}
      /\ Own(t) = {} /\ Own(t)' = {}
  BY <1>1, <1>3, <1>4 DEF Held, HeldAt, Linked, LinkedAt, WaitLabels, Own
<1> QED BY <1>1, <1>4, <1>5, <1>6, <1>7, ThreadStep

(* SignalMonitor starts at the head of the list.                           *)
LEMMA BeginSignalInv ==
    ASSUME IInv, NEW t \in Threads, BeginSignal(t)
    PROVE  IInv'
<1>1. /\ pc[t] = "held" /\ call[t].fn = "signal" /\ walk' = [walk EXCEPT ![t] = 1]
      /\ pc' = [pc EXCEPT ![t] = "walk"]
      /\ UNCHANGED <<mutex, threadLock, queue, acquired, call, todo, got>>
  BY DEF BeginSignal, Goto
<1>2. /\ CallAt("held", call[t], todo[t]) /\ call[t] \in Calls
      /\ AcquiredAt("held", call[t], acquired[t], got[t])
  BY <1>1, OwnState
<1>3. Others(t) /\ LocalTypes' /\ pc'[t] = "walk" /\ walk'[t] = 1
  BY <1>1 DEF IInv, LocalTypes, Others, SameThread, Labels
<1>4. LocalOK(t)'
  BY <1>1, <1>2, <1>3, CallFacts DEF LocalOK, CallAt, AcquiredAt, WaitLabels
<1>5. WalkOK(t)'
  BY <1>3 DEF WalkOK
<1>6. /\ Held(t)' = Held(t) /\ Linked(t) = {} /\ Linked(t)' = {}
      /\ Own(t) = {} /\ Own(t)' = {}
  BY <1>1, <1>3 DEF Held, HeldAt, Linked, LinkedAt, WaitLabels, Own
<1> QED BY <1>1, <1>3, <1>4, <1>5, <1>6, ThreadStep

(* SignalMonitor reaches the end of the list.                              *)
LEMMA WalkEndInv ==
    ASSUME IInv, NEW t \in Threads, WalkEnd(t)
    PROVE  IInv'
<1>1. /\ pc[t] = "walk" /\ pc' = [pc EXCEPT ![t] = "return"]
      /\ UNCHANGED <<mutex, threadLock, queue, acquired, call, todo, walk, got>>
  BY DEF WalkEnd, Goto
<1>2. /\ CallAt("walk", call[t], todo[t]) /\ call[t] \in Calls
      /\ AcquiredAt("walk", call[t], acquired[t], got[t]) /\ walk[t] >= 1
  BY <1>1, OwnState
<1>3. Others(t) /\ LocalTypes' /\ pc'[t] = "return"
  BY <1>1 DEF IInv, LocalTypes, Others, SameThread, Labels
<1>4. LocalOK(t)'
  BY <1>1, <1>2, <1>3, CallFacts DEF LocalOK, CallAt, AcquiredAt, WaitLabels
<1>5. WalkOK(t)'
  BY <1>3, NotWalking
<1>6. /\ Held(t)' = Held(t) /\ Linked(t) = {} /\ Linked(t)' = {}
      /\ Own(t) = {} /\ Own(t)' = {}
  BY <1>1, <1>2, <1>3 DEF Held, HeldAt, Linked, LinkedAt, WaitLabels, Own, CallAt
<1> QED BY <1>1, <1>3, <1>4, <1>5, <1>6, ThreadStep

(* The thread under SignalMonitor's cursor.                                *)
LEMMA CursorFacts ==
    ASSUME IInv, NEW t \in Threads, pc[t] \in {"walk", "poke"},
           walk[t] <= Len(queue[The(call[t].on)])
    PROVE  /\ walk[t] \in 1 .. Len(queue[The(call[t].on)]) /\ Cursor(t) \in Threads
           /\ Cursor(t) \in Listed(queue[The(call[t].on)]) /\ Cursor(t) # t
           /\ The(call[t].on) \in Linked(Cursor(t))
<1> DEFINE m == The(call[t].on)
           q == queue[m]
<1>1. m \in Monitor
  BY WalkerFacts
<1>2. IsWaitList(q, Threads) /\ q \in Seq(Threads)
  BY <1>1 DEF IInv, QueueTypes
<1>3. walk[t] \in Nat /\ walk[t] >= 1
  BY OwnState
<1>4. Len(q) \in Nat /\ DOMAIN q = 1 .. Len(q)
  BY <1>2, LenProperties
<1>5. walk[t] \in 1 .. Len(q)
  BY <1>3, <1>4
<1>6. q[walk[t]] \in Threads /\ q[walk[t]] \in Listed(q)
  BY <1>2, <1>4, <1>5, ElementOfSeq DEF Listed, Range
<1>7. m \in Linked(q[walk[t]])
  BY <1>1, <1>6 DEF IInv, ListOK
<1>8. Linked(t) = {}
  BY DEF Linked, LinkedAt, WaitLabels
<1> QED BY <1>5, <1>6, <1>7, <1>8 DEF Cursor

(* SignalMonitor locks the thread under its cursor.                        *)
LEMMA WalkLockInv ==
    ASSUME IInv, NEW t \in Threads, WalkLock(t)
    PROVE  IInv'
<1>1. /\ pc[t] = "walk" /\ walk[t] <= Len(queue[The(call[t].on)]) /\ threadLock[Cursor(t)] = Nobody
      /\ threadLock' = [threadLock EXCEPT ![Cursor(t)] = t] /\ pc' = [pc EXCEPT ![t] = "poke"]
      /\ UNCHANGED <<mutex, queue, acquired, call, todo, walk, got>>
  BY DEF WalkLock, LockThread, Goto, Cursor
<1>2. /\ CallAt("walk", call[t], todo[t]) /\ call[t] \in Calls
      /\ AcquiredAt("walk", call[t], acquired[t], got[t]) /\ walk[t] >= 1
  BY <1>1, OwnState
<1>3. Others(t) /\ LocalTypes' /\ pc'[t] = "poke"
  BY <1>1 DEF IInv, LocalTypes, Others, SameThread, Labels
<1>4. LocalOK(t)'
  BY <1>1, <1>2, <1>3, CallFacts DEF LocalOK, CallAt, AcquiredAt, WaitLabels
<1>5. WalkOK(t)'
  <2>1. WalkOK(t)
    BY DEF IInv
  <2> QED BY <1>1, <1>3, <2>1 DEF WalkOK
<1>6. Cursor(t)' = Cursor(t) /\ Cursor(t) \in Threads
  BY <1>1, CursorFacts DEF Cursor
<1>7. /\ Held(t)' = Held(t) /\ Linked(t) = {} /\ Linked(t)' = {}
      /\ Own(t) = {} /\ Own(t)' = {Cursor(t)}
  BY <1>1, <1>3, <1>6 DEF Held, HeldAt, Linked, LinkedAt, WaitLabels, Own
<1> QED BY <1>1, <1>3, <1>4, <1>5, <1>6, <1>7, ThreadStep

(* SignalMonitor passes a thread that has been signalled already.          *)
LEMMA WalkOnInv ==
    ASSUME IInv, NEW t \in Threads, WalkOn(t)
    PROVE  IInv'
<1> DEFINE q == queue[The(call[t].on)]
<1>1. /\ pc[t] = "poke" /\ acquired[Cursor(t)] # NULL
      /\ threadLock' = [threadLock EXCEPT ![Cursor(t)] = Nobody]
      /\ walk' = [walk EXCEPT ![t] = walk[t] + 1] /\ pc' = [pc EXCEPT ![t] = "walk"]
      /\ UNCHANGED <<mutex, queue, acquired, call, todo, got>>
  BY DEF WalkOn, UnlockThread, Goto, Cursor
<1>2. /\ CallAt("poke", call[t], todo[t]) /\ call[t] \in Calls /\ walk[t] \in Nat
      /\ AcquiredAt("poke", call[t], acquired[t], got[t]) /\ walk[t] >= 1
  BY <1>1, OwnState
<1>3. Others(t) /\ LocalTypes' /\ pc'[t] = "walk" /\ walk'[t] = walk[t] + 1
  BY <1>1, <1>2 DEF IInv, LocalTypes, Others, SameThread, Labels
<1>4. LocalOK(t)'
  BY <1>1, <1>2, <1>3, CallFacts DEF LocalOK, CallAt, AcquiredAt, WaitLabels
<1>5. /\ walk[t] <= Len(q)
      /\ \A i \in 1 .. (walk[t] - 1) : i <= Len(q) /\ acquired[q[i]] # NULL
  BY <1>1 DEF IInv, WalkOK
<1>6. Cursor(t) \in Threads /\ Cursor(t) = q[walk[t]]
  BY <1>1, <1>5, CursorFacts DEF Cursor
<1> HIDE DEF q
<1>7. WalkOK(t)'
  <2>1. q' = q /\ acquired' = acquired
    BY <1>1 DEF q
  <2>2. ASSUME NEW i \in 1 .. (walk'[t] - 1)
        PROVE  i <= Len(q) /\ acquired[q[i]] # NULL
    <3>1. i = walk[t] \/ i \in 1 .. (walk[t] - 1)
      BY <1>2, <1>3
    <3> QED BY <1>1, <1>5, <1>6, <3>1
  <2>3. \A i \in 1 .. (walk'[t] - 1) : i <= Len(q') /\ acquired'[q'[i]] # NULL
    BY <2>1, <2>2
  <2> QED BY <1>3, <2>3 DEF WalkOK, q
<1>8. /\ Held(t)' = Held(t) /\ Linked(t) = {} /\ Linked(t)' = {}
      /\ Own(t) = {Cursor(t)} /\ Own(t)' = {}
  BY <1>1, <1>3 DEF Held, HeldAt, Linked, LinkedAt, WaitLabels, Own
<1> QED BY <1>1, <1>3, <1>4, <1>6, <1>7, <1>8, ThreadStep

(* The function unlocks the monitor it is left with.                       *)
LEMMA ReturnInv ==
    ASSUME IInv, NEW t \in Threads, Return(t)
    PROVE  IInv'
<1> DEFINE m == IF call[t].fn = "signal" THEN The(call[t].on) ELSE got[t]
<1>1. /\ pc[t] = "return" /\ mutex' = [mutex EXCEPT ![m] = Nobody]
      /\ call' = [call EXCEPT ![t] = Idle] /\ got' = [got EXCEPT ![t] = NULL]
      /\ walk' = [walk EXCEPT ![t] = 1] /\ pc' = [pc EXCEPT ![t] = "idle"]
      /\ UNCHANGED <<threadLock, queue, acquired, todo>>
  BY DEF Return, Unlock, Goto
<1>2. /\ CallAt("return", call[t], todo[t]) /\ call[t] \in Calls
      /\ AcquiredAt("return", call[t], acquired[t], got[t])
  BY <1>1, OwnState
<1>3. call[t].on \subseteq Monitor /\ (call[t].fn = "signal" => call[t].on = {The(call[t].on)})
  BY <1>2, CallFacts
<1>4. m \in Monitor /\ Held(t) = {m}
  BY <1>1, <1>2, <1>3 DEF AcquiredAt, Held, HeldAt
<1>5. todo[t] = {} /\ acquired[t] = NULL
  BY <1>2 DEF CallAt, AcquiredAt, WaitLabels
<1> HIDE DEF m
<1>6. Others(t) /\ LocalTypes'
  BY <1>1 DEF IInv, LocalTypes, Others, SameThread, Labels
<1>7. pc'[t] = "idle" /\ call'[t] = Idle /\ got'[t] = NULL /\ walk'[t] = 1
  BY <1>1 DEF IInv, LocalTypes
<1>8. LocalOK(t)'
  BY <1>1, <1>5, <1>7 DEF LocalOK, CallAt, AcquiredAt, WaitLabels
<1>9. WalkOK(t)'
  BY <1>7, NotWalking
<1>10. /\ Held(t)' = Held(t) \ {m} /\ Linked(t) = {} /\ Linked(t)' = {}
       /\ Own(t) = {} /\ Own(t)' = {}
  BY <1>1, <1>4, <1>7 DEF Held, HeldAt, Linked, LinkedAt, WaitLabels, Own
<1> QED BY <1>1, <1>4, <1>6, <1>8, <1>9, <1>10, ThreadStep

(* The thread a SignalMonitor is about to hand its monitor to is in a wait *)
(* that includes this monitor and has not seen any signal yet.             *)
LEMMA SignalThreadFacts ==
    ASSUME IInv, NEW t \in Threads, SignalThread(t)
    PROVE  LET m == The(call[t].on)
               u == Cursor(t)
           IN  /\ pc[t] = "poke" /\ m \in Monitor /\ m # NULL /\ m \in call[u].on
               /\ u \in Threads /\ u # t /\ acquired[u] = NULL
               /\ pc[u] \in {"release", "tlock", "check", "asleep", "wakeup"}
               /\ acquired' = [acquired EXCEPT ![u] = m]
               /\ threadLock' = [threadLock EXCEPT ![u] = Nobody]
               /\ pc'[t] = "return" /\ pc'[u] = (IF pc[u] = "asleep" THEN "wakeup" ELSE pc[u])
               /\ \A v \in Threads : v \notin {t, u} => pc'[v] = pc[v]
               /\ pc' \in [Threads -> Labels]
               /\ UNCHANGED <<mutex, queue, call, todo, walk, got>>
<1> DEFINE m == The(call[t].on)
           u == Cursor(t)
<1>1. /\ pc[t] = "poke" /\ acquired[u] = NULL /\ acquired' = [acquired EXCEPT ![u] = m]
      /\ pc' = [pc EXCEPT ![t] = "return", ![u] = IF @ = "asleep" THEN "wakeup" ELSE @]
      /\ threadLock' = [threadLock EXCEPT ![u] = Nobody]
      /\ UNCHANGED <<mutex, queue, call, todo, walk, got>>
  BY DEF SignalThread, UnlockThread, Cursor
<1>2. walk[t] <= Len(queue[m])
  BY <1>1 DEF IInv, WalkOK
<1>3. m \in Monitor /\ u \in Threads /\ u # t /\ m \in Linked(u)
  BY <1>1, <1>2, WalkerFacts, CursorFacts
<1>4. m # NULL
  BY <1>3, NullFacts
<1> HIDE DEF u, m
<1>5. AcquiredAt(pc[u], call[u], acquired[u], got[u])
  BY <1>3, OwnState
<1>6. pc[u] \in WaitLabels /\ m \in call[u].on
  BY <1>1, <1>3, <1>5 DEF AcquiredAt, Linked, LinkedAt
<1>7. pc[u] \in {"release", "tlock", "check", "asleep", "wakeup"}
  BY <1>1, <1>5, <1>6 DEF AcquiredAt, WaitLabels
<1>8. /\ pc'[t] = "return" /\ pc'[u] = (IF pc[u] = "asleep" THEN "wakeup" ELSE pc[u])
      /\ \A v \in Threads : v \notin {t, u} => pc'[v] = pc[v]
      /\ pc' \in [Threads -> Labels]
  BY <1>1, <1>3 DEF IInv, LocalTypes, Labels
<1> QED BY <1>1, <1>3, <1>4, <1>6, <1>7, <1>8 DEF u, m

(* SignalMonitor hands the monitor over: the one step that changes the     *)
(* state of another thread.                                                *)
LEMMA SignalThreadInv ==
    ASSUME IInv, NEW t \in Threads, SignalThread(t)
    PROVE  IInv'
<1> DEFINE m == The(call[t].on)
           u == Cursor(t)
<1>1. /\ pc[t] = "poke" /\ m \in Monitor /\ m # NULL /\ m \in call[u].on
      /\ u \in Threads /\ u # t /\ acquired[u] = NULL
      /\ pc[u] \in {"release", "tlock", "check", "asleep", "wakeup"}
      /\ acquired' = [acquired EXCEPT ![u] = m]
      /\ threadLock' = [threadLock EXCEPT ![u] = Nobody]
      /\ pc'[t] = "return" /\ pc'[u] = (IF pc[u] = "asleep" THEN "wakeup" ELSE pc[u])
      /\ \A v \in Threads : v \notin {t, u} => pc'[v] = pc[v]
      /\ pc' \in [Threads -> Labels]
      /\ UNCHANGED <<mutex, queue, call, todo, walk, got>>
  BY SignalThreadFacts
<1>2. CallAt("poke", call[t], todo[t]) /\ call[t].fn = "signal" /\ call[t] \in Calls
  BY <1>1, OwnState DEF CallAt
<1>3. Own(t) = {u}
  BY <1>1 DEF Own
<1>4. \A v \in Threads : Cursor(v)' = Cursor(v)
  BY <1>1 DEF Cursor
<1> HIDE DEF u, m
<1>5. acquired'[u] = m /\ \A v \in Threads : v # u => acquired'[v] = acquired[v]
  BY <1>1 DEF IInv, LocalTypes
<1>6. LocalTypes'
  BY <1>1 DEF IInv, LocalTypes
<1>7. \A v \in Threads : Held(v)' = Held(v) /\ Linked(v)' = Linked(v)
  <2> SUFFICES ASSUME NEW v \in Threads PROVE Held(v)' = Held(v) /\ Linked(v)' = Linked(v)
    OBVIOUS
  <2>1. call'[v] = call[v] /\ todo'[v] = todo[v] /\ got'[v] = got[v]
    BY <1>1
  <2>2. CASE v = t
    BY <1>1, <1>2, <2>1, <2>2 DEF Held, HeldAt, Linked, LinkedAt, WaitLabels
  <2>3. CASE v = u
    BY <1>1, <2>1, <2>3 DEF Held, HeldAt, Linked, LinkedAt, WaitLabels
  <2>4. CASE v \notin {t, u}
    BY <1>1, <2>1, <2>4 DEF Held, Linked
  <2> QED BY <2>2, <2>3, <2>4
<1>8. Own(t)' = {} /\ \A v \in Threads : v # t => Own(v)' = Own(v)
  <2>1. Own(t)' = {}
    BY <1>1 DEF Own
  <2>2. ASSUME NEW v \in Threads, v # t PROVE Own(v)' = Own(v)
    <3>1. CASE v = u
      BY <1>1, <3>1 DEF Own
    <3>2. CASE v # u
      BY <1>1, <1>4, <2>2, <3>2 DEF Own
    <3> QED BY <3>1, <3>2
  <2> QED BY <2>1, <2>2
<1>9. MutexOK' /\ mutex' \in [Monitor -> Threads \cup {Nobody}]
  BY <1>1, <1>7, MutexStep DEF IInv
<1>10. ListOK' /\ QueueTypes'
  BY <1>1, <1>7, ListStep DEF IInv
<1>11. ThreadLockOK' /\ threadLock' \in [Threads -> Threads \cup {Nobody}]
  BY <1>1, <1>3, <1>8, ThreadLockStep DEF IInv
<1>12. ASSUME NEW v \in Threads
       PROVE  LocalOK(v)'
  <2>1. /\ CallAt(pc[v], call[v], todo[v]) /\ AcquiredAt(pc[v], call[v], acquired[v], got[v])
        /\ walk[v] >= 1
    BY OwnState
  <2>2. CASE v = t
    <3>1. acquired'[v] = NULL
      BY <1>1, <1>5, <2>1, <2>2 DEF AcquiredAt, WaitLabels
    <3> QED BY <1>1, <1>2, <2>1, <2>2, <3>1 DEF LocalOK, CallAt, AcquiredAt, WaitLabels
  <2>3. CASE v = u
    <3>1. CallAt(pc'[u], call[u], todo[u])
      BY <1>1, <2>1, <2>3 DEF CallAt, WaitLabels
    <3>2. AcquiredAt(pc'[u], call[u], m, got[u])
      BY <1>1 DEF AcquiredAt, WaitLabels
    <3> QED BY <1>1, <1>5, <2>1, <2>3, <3>1, <3>2 DEF LocalOK
  <2>4. CASE v \notin {t, u}
    BY <1>1, <1>5, <2>1, <2>4 DEF LocalOK
  <2> QED BY <2>2, <2>3, <2>4
<1>13. ASSUME NEW v \in Threads
       PROVE  WalkOK(v)'
  <2> DEFINE q == queue[The(call[v].on)]
  <2>1. CASE pc[v] \in {"walk", "poke"} /\ v # t
    <3>1. /\ pc[v] = "poke" => walk[v] <= Len(q)
          /\ \A i \in 1 .. (walk[v] - 1) : i <= Len(q) /\ acquired[q[i]] # NULL
      BY <2>1 DEF IInv, WalkOK
    <3>2. The(call[v].on) \in Monitor
      BY <2>1, WalkerFacts
    <3>3. q \in Seq(Threads) /\ walk[v] \in Nat
      BY <3>2 DEF IInv, QueueTypes, LocalTypes
    <3>4. q' = q /\ walk'[v] = walk[v] /\ pc'[v] = pc[v]
      BY <1>1, <2>1
    <3> HIDE DEF q
    <3>5. ASSUME NEW i \in 1 .. (walk[v] - 1)
          PROVE  i <= Len(q) /\ acquired'[q[i]] # NULL
      <4>1. i \in 1 .. Len(q) /\ acquired[q[i]] # NULL
        BY <3>1, <3>3, LenProperties
      <4>2. q[i] \in Threads
        BY <3>3, <4>1, ElementOfSeq
      <4> QED BY <1>1, <1>5, <4>1, <4>2
    <3> QED BY <3>1, <3>4, <3>5 DEF WalkOK, q
  <2>2. CASE pc[v] \notin {"walk", "poke"} \/ v = t
    <3>1. pc'[v] \notin {"walk", "poke"}
      BY <1>1, <2>2
    <3> QED BY <3>1, NotWalking
  <2> QED BY <2>1, <2>2
<1> QED BY <1>6, <1>9, <1>10, <1>11, <1>12, <1>13 DEF IInv, MutexTypes

(* Every step of the threads keeps the invariant.                          *)
LEMMA NextInv == IInv /\ [Next]_vars => IInv'
<1> SUFFICES ASSUME IInv, [Next]_vars PROVE IInv'
  OBVIOUS
<1>1. CASE Next
  <2>1. PICK t \in Threads : Call(t) \/ Step(t) \/ SpuriousWakeup(t)
    BY <1>1 DEF Next
  <2>2. CASE Call(t) \/ SpuriousWakeup(t)
    BY <2>2, CallInv, SpuriousWakeupInv
  <2>3. CASE Step(t)
    BY <2>3, LockMonitorsInv, BeginWaitInv, UnlockMonitorsInv, LockSelfInv, SleepInv,
       SignalledInv, TryLockMonitorInv, LockMonitorAfterTryInv, LockSelfAfterTryInv, LeaveWaitInv,
       RelockInv, ClearAcquiredInv, BeginSignalInv, WalkEndInv, WalkLockInv, SignalThreadInv,
       WalkOnInv, ReturnInv DEF Step
  <2> QED BY <2>1, <2>2, <2>3
<1>2. CASE UNCHANGED vars
  <2> USE <1>2 DEF vars
  <2>1. LocalTypes' /\ MutexTypes' /\ QueueTypes'
    BY DEF IInv, LocalTypes, MutexTypes, QueueTypes
  <2>2. \A t \in Threads : Held(t)' = Held(t) /\ Linked(t)' = Linked(t) /\ Own(t)' = Own(t)
    BY DEF Held, Linked, Own, Cursor
  <2>3. MutexOK' /\ ListOK' /\ ThreadLockOK'
    BY <2>2 DEF IInv, MutexOK, ListOK, ThreadLockOK
  <2>4. \A t \in Threads : LocalOK(t)' /\ WalkOK(t)'
    BY DEF IInv, LocalOK, WalkOK
  <2> QED BY <2>1, <2>3, <2>4 DEF IInv
<1> QED BY <1>1, <1>2

(* The inductive invariant holds throughout: at every place in             *)
(* WaitForMonitor, WaitForAnyMonitor and SignalMonitor a thread holds the  *)
(* locks, and is linked into the lists, that the code there implies.       *)
LEMMA MonitorInvariant == Spec => []IInv
BY InitInv, NextInv, PTL DEF Spec

(* Type correctness of the monitors: no thread ever has two nodes in the   *)
(* wait list of one monitor, for any number of threads and monitors.       *)
THEOREM MonitorTypeOK == Spec => []TypeOK
<1>1. IInv => TypeOK
  BY DEF IInv, LocalTypes, MutexTypes, QueueTypes, TypeOK
<1> QED BY <1>1, MonitorInvariant, PTL

(* SignalMonitor never leaves the thread it handed the monitor to asleep   *)
(* in pthread_cond_wait.                                                   *)
THEOREM MonitorNoMissedSignal == Spec => []NoMissedSignal
<1>1. IInv => NoMissedSignal
  <2> SUFFICES ASSUME IInv, NEW t \in Threads, pc[t] = "asleep" PROVE acquired[t] = NULL
    BY DEF NoMissedSignal
  <2> QED BY OwnState DEF AcquiredAt
<1> QED BY <1>1, MonitorInvariant, PTL

(* WaitForMonitor and WaitForAnyMonitor return with the signalled monitor  *)
(* locked, every other one unlocked, and their nodes out of every list.    *)
THEOREM MonitorWaitReturns == Spec => []WaitReturnsSignalled
<1>1. IInv => WaitReturnsSignalled
  <2> SUFFICES ASSUME IInv, NEW t \in Threads, pc[t] = "return", call[t].fn \in {"wait", "any"}
               PROVE  /\ got[t] \in call[t].on /\ Holds(t) = {got[t]} /\ acquired[t] = NULL
                      /\ \A m \in Monitor : t \notin Listed(queue[m])
    BY DEF WaitReturnsSignalled
  <2>1. /\ AcquiredAt("return", call[t], acquired[t], got[t]) /\ call[t] \in Calls
    BY OwnState
  <2>2. got[t] \in call[t].on /\ acquired[t] = NULL /\ got[t] \in Monitor
    BY <2>1, CallFacts DEF AcquiredAt, WaitLabels
  <2>3. Held(t) = {got[t]} /\ Linked(t) = {}
    BY DEF Held, HeldAt, Linked, LinkedAt, WaitLabels
  <2>4. Holds(t) = {got[t]}
    BY <2>2, <2>3 DEF Holds, IInv, MutexOK
  <2> QED BY <2>2, <2>3, <2>4 DEF IInv, ListOK
<1> QED BY <1>1, MonitorInvariant, PTL

(* acquiredMonitor is set only while it is NULL: a signal is consumed by   *)
(* the wait it was meant for before the thread can be signalled again.     *)
THEOREM MonitorSignalsKept == Spec => SignalsAreNotOverwritten
<1> DEFINE Kept == \A t \in Threads : acquired[t] # NULL => acquired'[t] \in {acquired[t], NULL}
<1>1. IInv /\ [Next]_vars => Kept \/ UNCHANGED vars
  <2> SUFFICES ASSUME IInv, Next PROVE Kept
    BY Zenon
  <2>1. PICK t \in Threads : Call(t) \/ Step(t) \/ SpuriousWakeup(t)
    BY DEF Next
  <2>2. CASE SignalThread(t)
    <3> DEFINE u == Cursor(t)
    <3>1. u \in Threads /\ acquired[u] = NULL /\ acquired' = [acquired EXCEPT ![u] = The(call[t].on)]
      BY <2>2, SignalThreadFacts
    <3> HIDE DEF u
    <3> QED BY <3>1 DEF IInv, LocalTypes
  <2>3. CASE LeaveWait(t) \/ ClearAcquired(t)
    <3>1. acquired' = [acquired EXCEPT ![t] = NULL]
      BY <2>3 DEF LeaveWait, ClearAcquired
    <3> QED BY <3>1 DEF IInv, LocalTypes
  <2>4. CASE ~ (SignalThread(t) \/ LeaveWait(t) \/ ClearAcquired(t))
    <3>1. acquired' = acquired
      BY <2>1, <2>4 DEF Call, Step, SpuriousWakeup, LockMonitors, BeginWait, UnlockMonitors,
         LockSelf, Sleep, Signalled, TryLockMonitor, LockMonitorAfterTry, LockSelfAfterTry, Relock,
         BeginSignal, WalkEnd, WalkLock, WalkOn, Return
    <3> QED BY <3>1
  <2> QED BY <2>2, <2>3, <2>4
<1>2. IInv /\ [Next]_vars => [Kept]_vars
  BY <1>1
<1> QED BY <1>2, MonitorInvariant, PTL DEF Spec, SignalsAreNotOverwritten

-----------------------------------------------------------------------------
(* A single monitor implements MonitorSpec.  Under the mapping of Abstract *)
(* a thread owns the abstract monitor at the places OwnsIt names, and is   *)
(* signalled from the hand-over to the end of its wait.                    *)
AbsOwner ==
    IF mutex[1] # Nobody /\ pc[mutex[1]] \in {"release", "tlock2", "leave"} THEN Nobody ELSE mutex[1]
IsSignalled(t) == acquired[t] # NULL /\ ~ (pc[t] = "relock" /\ todo[t] = {})
AbsAcquired == [t \in Threads |-> IsSignalled(t)]
OwnsIt(t) == pc[t] \in {"held", "walk", "poke", "return"} \/ (pc[t] = "relock" /\ todo[t] = {})

(* With a single monitor every call is about this one.                     *)
LEMMA SingleFacts ==
    ASSUME NumMonitors = 1
    PROVE  /\ Monitor = {1}
           /\ \A c \in Calls : c.on = {1} /\ The(c.on) = 1
<1>1. Monitor = {1}
  BY DEF Monitor
<1>2. ASSUME NEW c \in Calls PROVE c.on = {1} /\ The(c.on) = 1
  <2>1. c.on = {1}
    BY <1>1, CallFacts
  <2> QED BY <2>1 DEF The
<1> QED BY <1>1, <1>2

OwnerOK ==
    /\ AbsOwner \in Threads \cup {Nobody}
    /\ \A t \in Threads : AbsOwner = t <=> OwnsIt(t)
SingleOwnerOK == NumMonitors = 1 => OwnerOK

(* The owner of the abstract monitor is the thread at one of the places    *)
(* OwnsIt names.                                                           *)
LEMMA OwnerFacts == IInv => SingleOwnerOK
<1> SUFFICES ASSUME NumMonitors = 1, IInv
             PROVE  /\ AbsOwner \in Threads \cup {Nobody}
                    /\ \A t \in Threads : AbsOwner = t <=> OwnsIt(t)
  BY DEF SingleOwnerOK, OwnerOK
<1>1. Monitor = {1} /\ \A c \in Calls : c.on = {1}
  BY SingleFacts
<1>2. mutex[1] \in Threads \cup {Nobody} /\ Nobody \notin Threads
  BY <1>1, MonitorsAssumption DEF IInv, MutexTypes
<1>3. AbsOwner \in Threads \cup {Nobody}
  BY <1>2 DEF AbsOwner
<1>4. ASSUME NEW t \in Threads PROVE AbsOwner = t <=> OwnsIt(t)
  <2>1. AbsOwner = t <=> mutex[1] = t /\ pc[t] \notin {"release", "tlock2", "leave"}
    BY <1>2 DEF AbsOwner
  <2>2. mutex[1] = t <=> 1 \in Held(t)
    BY <1>1 DEF IInv, MutexOK
  <2>3. /\ CallAt(pc[t], call[t], todo[t]) /\ AcquiredAt(pc[t], call[t], acquired[t], got[t])
        /\ pc[t] \in Labels /\ (pc[t] # "idle" => call[t] \in Calls) /\ todo[t] \in SUBSET {1}
    BY <1>1, OwnState
  <2>4. CASE pc[t] = "lock"
    <3>1. call[t].on \ todo[t] = {}
      BY <1>1, <2>3, <2>4 DEF CallAt
    <3> QED BY <2>1, <2>2, <2>4, <3>1 DEF Held, HeldAt, OwnsIt
  <2>5. CASE pc[t] = "relock"
    <3>1. call[t].on = {1} /\ got[t] = 1
      BY <1>1, <2>3, <2>5 DEF AcquiredAt
    <3> QED BY <2>1, <2>2, <2>3, <2>5, <3>1 DEF Held, HeldAt, OwnsIt
  <2>6. CASE pc[t] \in {"held", "walk", "poke", "return"}
    <3>1. call[t].on = {1} /\ (pc[t] = "return" /\ call[t].fn # "signal" => got[t] = 1)
      BY <1>1, <2>3, <2>6 DEF AcquiredAt
    <3> QED BY <2>1, <2>2, <2>6, <3>1 DEF Held, HeldAt, OwnsIt
  <2>7. CASE pc[t] \notin {"lock", "relock", "held", "walk", "poke", "return"}
    <3>1. ~ OwnsIt(t)
      BY <2>7 DEF OwnsIt
    <3>2. CASE pc[t] \in {"release", "tlock2", "leave"}
      BY <2>1, <3>1, <3>2
    <3>3. CASE pc[t] \notin {"release", "tlock2", "leave"}
      BY <2>1, <2>2, <2>7, <3>1, <3>3 DEF Held, HeldAt
    <3> QED BY <3>2, <3>3
  <2> QED BY <2>4, <2>5, <2>6, <2>7
<1> QED BY <1>3, <1>4

(* The same after a step.                                                  *)
LEMMA OwnerFactsNext == IInv' => SingleOwnerOK'
BY OwnerFacts, PTL

(* How the abstract owner changes in a step of thread t.                   *)
LEMMA OwnerStep ==
    ASSUME NumMonitors = 1, IInv, IInv', NEW t \in Threads,
           \A v \in Threads : v # t => (OwnsIt(v)' <=> OwnsIt(v))
    PROVE  /\ (OwnsIt(t)' <=> OwnsIt(t)) => AbsOwner' = AbsOwner
           /\ OwnsIt(t) => AbsOwner = t
           /\ OwnsIt(t)' => AbsOwner' = t
           /\ OwnsIt(t) /\ ~ OwnsIt(t)' => AbsOwner' = Nobody
<1>1. AbsOwner \in Threads \cup {Nobody} /\ \A v \in Threads : AbsOwner = v <=> OwnsIt(v)
  BY OwnerFacts DEF SingleOwnerOK, OwnerOK
<1>2. AbsOwner' \in Threads \cup {Nobody} /\ \A v \in Threads : AbsOwner' = v <=> OwnsIt(v)'
  BY OwnerFactsNext DEF SingleOwnerOK, OwnerOK
<1> QED BY <1>1, <1>2, MonitorsAssumption

(* SignalMonitor's first waiter without a monitor is the one the walk has  *)
(* stopped at.                                                             *)
LEMMA SignalFirst ==
    ASSUME NEW q, IsWaitList(q, Threads), NEW acq \in [Threads -> BOOLEAN],
           NEW k \in 1 .. Len(q), ~ acq[q[k]], \A i \in 1 .. (k - 1) : acq[q[i]]
    PROVE  SignalMonitor(q, acq) = [acq EXCEPT ![q[k]] = TRUE]
<1> DEFINE idle == Unsignalled(q, acq)
           first == CHOOSE i \in idle : \A j \in idle : i <= j
<1>1. Len(q) \in Nat
  BY LenProperties DEF IsWaitList
<1>2. k \in idle
  BY DEF Unsignalled
<1>3. \A j \in idle : j \in 1 .. Len(q) /\ ~ acq[q[j]]
  BY DEF Unsignalled
<1>4. \A j \in idle : j \notin 1 .. (k - 1)
  BY <1>3
<1>5. \A j \in idle : k <= j
  BY <1>1, <1>3, <1>4
<1>6. idle \subseteq Nat
  BY <1>1, <1>3
<1> HIDE DEF idle
<1>7. first = k
  <2>1. first \in idle /\ \A j \in idle : first <= j
    BY <1>2, <1>5
  <2> HIDE DEF first
  <2>2. first <= k /\ k <= first /\ first \in Nat /\ k \in Nat
    BY <1>2, <1>5, <1>6, <2>1
  <2> QED BY <2>2
<1> QED BY <1>2, <1>7 DEF SignalMonitor, idle

(* How the abstract signals change in a step of thread t.                  *)
LEMMA AcquiredStep ==
    ASSUME NEW t \in Threads, Others(t)
    PROVE  /\ (IsSignalled(t)' <=> IsSignalled(t)) => AbsAcquired' = AbsAcquired
           /\ ~ IsSignalled(t)' => AbsAcquired' = [AbsAcquired EXCEPT ![t] = FALSE]
<1>1. \A v \in Threads : v # t => (IsSignalled(v)' <=> IsSignalled(v))
  BY DEF Others, SameThread, IsSignalled
<1>2. ASSUME IsSignalled(t)' <=> IsSignalled(t) PROVE AbsAcquired' = AbsAcquired
  <2>1. \A v \in Threads : IsSignalled(v)' = IsSignalled(v)
    BY <1>1, <1>2 DEF IsSignalled
  <2> QED BY <2>1 DEF AbsAcquired
<1>3. ASSUME ~ IsSignalled(t)' PROVE AbsAcquired' = [AbsAcquired EXCEPT ![t] = FALSE]
  <2>1. \A v \in Threads : IsSignalled(v)' = (IF v = t THEN FALSE ELSE IsSignalled(v))
    BY <1>1, <1>3 DEF IsSignalled
  <2>2. AbsAcquired' = [v \in Threads |-> IF v = t THEN FALSE ELSE IsSignalled(v)]
    BY <2>1 DEF AbsAcquired
  <2> QED BY <2>2 DEF AbsAcquired
<1> QED BY <1>2, <1>3

(* Other threads own the abstract monitor after a step if they did before. *)
LEMMA OthersOwn ==
    ASSUME NEW t \in Threads, Others(t)
    PROVE  \A v \in Threads : v # t => (OwnsIt(v)' <=> OwnsIt(v))
BY DEF Others, SameThread, OwnsIt

(* The steps between the ones MonitorSpec knows of leave the abstract      *)
(* monitor alone.                                                          *)
LEMMA InnerStep ==
    ASSUME NumMonitors = 1, IInv, IInv', NEW t \in Threads,
           \/ Call(t) \/ SpuriousWakeup(t) \/ UnlockMonitors(t) \/ LockSelf(t) \/ Sleep(t)
           \/ Signalled(t) \/ TryLockMonitor(t) \/ LockMonitorAfterTry(t) \/ LockSelfAfterTry(t)
           \/ ClearAcquired(t) \/ BeginSignal(t) \/ WalkEnd(t) \/ WalkLock(t) \/ WalkOn(t)
    PROVE  UNCHANGED <<AbsOwner, queue[1], AbsAcquired>>
<1> USE DEF IInv, LocalTypes
<1>1. queue' = queue /\ Others(t)
  BY DEF Call, SpuriousWakeup, UnlockMonitors, LockSelf, Sleep, Signalled, TryLockMonitor,
     LockMonitorAfterTry, LockSelfAfterTry, ClearAcquired, BeginSignal, WalkEnd, WalkLock, WalkOn,
     Goto, Others, SameThread
<1> DEFINE same == (OwnsIt(t)' <=> OwnsIt(t)) /\ (IsSignalled(t)' <=> IsSignalled(t))
<1>2. ASSUME Call(t) PROVE same
  <2>1. pc[t] = "idle" /\ pc'[t] = "lock" /\ acquired' = acquired
    BY <1>2 DEF Call, Goto
  <2> QED BY <2>1 DEF OwnsIt, IsSignalled
<1>3. ASSUME \/ SpuriousWakeup(t) \/ LockSelf(t) \/ Sleep(t) \/ TryLockMonitor(t)
             \/ LockMonitorAfterTry(t) \/ LockSelfAfterTry(t)
      PROVE  same
  <2>1. /\ acquired' = acquired
        /\ pc[t] \in {"tlock", "check", "asleep", "wakeup", "try", "mlock", "tlock2", "leave"}
        /\ pc'[t] \in {"tlock", "check", "asleep", "wakeup", "try", "mlock", "tlock2", "leave"}
    BY <1>3 DEF SpuriousWakeup, LockSelf, Sleep, TryLockMonitor, LockMonitorAfterTry,
       LockSelfAfterTry, Goto
  <2> QED BY <2>1 DEF OwnsIt, IsSignalled
<1>4. ASSUME UnlockMonitors(t) PROVE same
  <2>1. acquired' = acquired /\ pc[t] = "release" /\ pc'[t] \in {"release", "tlock"}
    BY <1>4 DEF UnlockMonitors, Goto
  <2> QED BY <2>1 DEF OwnsIt, IsSignalled
<1>5. ASSUME Signalled(t) PROVE same
  <2>1. /\ acquired' = acquired /\ pc[t] = "check"
        /\ pc'[t] = "try" \/ (pc'[t] = "relock" /\ todo'[t] = call[t].on)
    BY <1>5 DEF Signalled, Goto
  <2>2. call[t].on # {}
    BY <2>1, OwnState, CallFacts
  <2> QED BY <2>1, <2>2 DEF OwnsIt, IsSignalled
<1>6. ASSUME ClearAcquired(t) PROVE same
  <2>1. pc[t] = "relock" /\ todo[t] = {} /\ pc'[t] = "return" /\ acquired'[t] = NULL
    BY <1>6 DEF ClearAcquired, Goto
  <2> QED BY <2>1 DEF OwnsIt, IsSignalled
<1>7. ASSUME BeginSignal(t) \/ WalkEnd(t) \/ WalkLock(t) \/ WalkOn(t) PROVE same
  <2>1. /\ acquired' = acquired /\ pc[t] \in {"held", "walk", "poke", "return"}
        /\ pc'[t] \in {"held", "walk", "poke", "return"}
    BY <1>7 DEF BeginSignal, WalkEnd, WalkLock, WalkOn, Goto
  <2> QED BY <2>1 DEF OwnsIt, IsSignalled
<1>8. same
  BY <1>2, <1>3, <1>4, <1>5, <1>6, <1>7
<1>9. AbsOwner' = AbsOwner
  BY <1>1, <1>8, OthersOwn, OwnerStep
<1>10. AbsAcquired' = AbsAcquired
  BY <1>1, <1>8, AcquiredStep
<1> QED BY <1>1, <1>9, <1>10

(* Taking the monitor, and giving it up to wait or to return.              *)
LEMMA OuterStep ==
    ASSUME NumMonitors = 1, IInv, IInv', NEW t \in Threads
    PROVE  /\ LockMonitors(t) => Abstract!Acquire(t)
           /\ BeginWait(t) => Abstract!Wait(t)
           /\ Return(t) => Abstract!Release(t)
<1> USE DEF IInv, LocalTypes
<1>0. Monitor = {1} /\ \A c \in Calls : c.on = {1} /\ The(c.on) = 1
  BY SingleFacts
<1>1. ASSUME LockMonitors(t) PROVE Abstract!Acquire(t)
  <2>1. /\ pc[t] = "lock" /\ mutex[Lowest(todo[t])] = Nobody /\ acquired' = acquired
        /\ queue' = queue /\ Others(t)
    BY <1>1 DEF LockMonitors, Lock, Goto, Others, SameThread
  <2>2. todo[t] = {1}
    BY <1>0, <2>1, OwnState DEF CallAt
  <2>3. Lowest(todo[t]) = 1
    <3>1. todo[t] \in SUBSET Monitor /\ todo[t] # {}
      BY <1>0, <2>2
    <3>2. Lowest(todo[t]) \in todo[t]
      BY <3>1, LowestFacts
    <3> QED BY <2>2, <3>2
  <2>4. AbsOwner = Nobody
    BY <2>1, <2>3 DEF AbsOwner
  <2>5. pc'[t] = "held"
    BY <1>1, <2>2, <2>3 DEF LockMonitors, Goto
  <2>6. OwnsIt(t)' /\ (IsSignalled(t)' <=> IsSignalled(t))
    BY <2>1, <2>5 DEF OwnsIt, IsSignalled
  <2>7. AbsOwner' = t
    BY <2>1, <2>6, OthersOwn, OwnerStep
  <2>8. AbsAcquired' = AbsAcquired
    BY <2>1, <2>6, AcquiredStep
  <2>9. Linked(t) = {}
    BY <2>1 DEF Linked, LinkedAt, WaitLabels
  <2>10. t \notin Listed(queue[1])
    BY <1>0, <2>9 DEF ListOK
  <2> QED BY <2>1, <2>4, <2>7, <2>8, <2>10 DEF Abstract!Acquire, Abstract!Listed,
         Abstract!Range, Listed, Range, AbsOwner, AbsAcquired, IsSignalled
<1>2. ASSUME BeginWait(t) PROVE Abstract!Wait(t)
  <2>1. pc[t] = "held" /\ pc'[t] = "release" /\ acquired' = acquired /\ Others(t)
    BY <1>2 DEF BeginWait, Goto, Others, SameThread
  <2>2. call[t].on = {1}
    BY <1>0, <2>1, OwnState
  <2>3. queue'[1] = AddWaitList(queue[1], t)
    BY <1>0, <1>2, <2>2 DEF BeginWait
  <2>4. OwnsIt(t) /\ ~ OwnsIt(t)' /\ (IsSignalled(t)' <=> IsSignalled(t))
    BY <2>1 DEF OwnsIt, IsSignalled
  <2>5. AbsOwner = t /\ AbsOwner' = Nobody
    BY <2>1, <2>4, OthersOwn, OwnerStep
  <2>6. AbsAcquired' = AbsAcquired
    BY <2>1, <2>4, AcquiredStep
  <2> QED BY <2>3, <2>5, <2>6 DEF Abstract!Wait, Abstract!AddWaitList, AddWaitList,
         AbsOwner, AbsAcquired, IsSignalled
<1>3. ASSUME Return(t) PROVE Abstract!Release(t)
  <2>1. pc[t] = "return" /\ pc'[t] = "idle" /\ acquired' = acquired /\ queue' = queue /\ Others(t)
    BY <1>3 DEF Return, Goto, Others, SameThread
  <2>2. OwnsIt(t) /\ ~ OwnsIt(t)' /\ (IsSignalled(t)' <=> IsSignalled(t))
    BY <2>1 DEF OwnsIt, IsSignalled
  <2>3. AbsOwner = t /\ AbsOwner' = Nobody
    BY <2>1, <2>2, OthersOwn, OwnerStep
  <2>4. AbsAcquired' = AbsAcquired
    BY <2>1, <2>2, AcquiredStep
  <2> QED BY <2>1, <2>3, <2>4 DEF Abstract!Release, AbsOwner, AbsAcquired, IsSignalled
<1> QED BY <1>1, <1>2, <1>3

(* The two ends of a wait, and the hand-over between them.                 *)
LEMMA WaitStep ==
    ASSUME NumMonitors = 1, IInv, IInv', NEW t \in Threads
    PROVE  LeaveWait(t) \/ Relock(t) => Abstract!Resume(t)
<1> USE DEF IInv, LocalTypes
<1>0. Monitor = {1} /\ \A c \in Calls : c.on = {1} /\ The(c.on) = 1
  BY SingleFacts
<1>1. ASSUME AbsOwner = Nobody, IsSignalled(t), ~ IsSignalled(t)', OwnsIt(t)', Others(t),
             queue'[1] = RemoveWaitList(queue[1], t)
      PROVE  Abstract!Resume(t)
  <2>1. AbsOwner' = t
    BY <1>1, OthersOwn, OwnerStep
  <2>2. AbsAcquired' = [AbsAcquired EXCEPT ![t] = FALSE]
    BY <1>1, AcquiredStep
  <2>3. AbsAcquired[t]
    BY <1>1 DEF AbsAcquired
  <2> QED BY <1>1, <2>1, <2>2, <2>3 DEF Abstract!Resume, Abstract!RemoveWaitList, Abstract!NodeOf,
         Abstract!RemoveAt, RemoveWaitList, NodeOf, RemoveAt, AbsOwner, AbsAcquired, IsSignalled
<1>2. CASE LeaveWait(t)
  <2>1. pc[t] = "leave" /\ pc'[t] = "return" /\ acquired'[t] = NULL /\ Others(t)
    BY <1>2 DEF LeaveWait, Goto, Others, SameThread
  <2>2. The(call[t].on) = 1 /\ acquired[t] = 1 /\ call[t].on = {1}
    BY <1>0, <2>1, WaiterFacts
  <2>3. queue'[1] = RemoveWaitList(queue[1], t)
    BY <1>0, <1>2, <2>2 DEF LeaveWait, QueueTypes
  <2>4. Held(t) = {1}
    BY <2>1, <2>2 DEF Held, HeldAt
  <2>5. AbsOwner = Nobody
    BY <1>0, <2>1, <2>4, MonitorsAssumption DEF MutexOK, AbsOwner
  <2>6. IsSignalled(t) /\ ~ IsSignalled(t)' /\ OwnsIt(t)'
    BY <2>1, <2>2 DEF IsSignalled, OwnsIt, NULL
  <2> QED BY <1>1, <2>1, <2>3, <2>5, <2>6
<1>3. CASE Relock(t)
  <2>1. /\ pc[t] = "relock" /\ pc'[t] = "relock" /\ acquired' = acquired /\ todo[t] # {}
        /\ mutex[Lowest(todo[t])] = Nobody /\ Others(t)
        /\ queue' = [queue EXCEPT ![Lowest(todo[t])] = RemoveWaitList(queue[Lowest(todo[t])], t)]
        /\ todo'[t] = todo[t] \ {Lowest(todo[t])}
    BY <1>3 DEF Relock, Others, SameThread
  <2>2. todo[t] = {1}
    BY <1>0, <2>1
  <2>3. Lowest(todo[t]) = 1
    <3>1. todo[t] \in SUBSET Monitor /\ todo[t] # {}
      BY <1>0, <2>2
    <3>2. Lowest(todo[t]) \in todo[t]
      BY <3>1, LowestFacts
    <3> QED BY <2>2, <3>2
  <2>4. queue'[1] = RemoveWaitList(queue[1], t) /\ todo'[t] = {}
    BY <1>0, <2>1, <2>2, <2>3 DEF QueueTypes
  <2>5. AbsOwner = Nobody
    BY <2>1, <2>3 DEF AbsOwner
  <2>6. acquired[t] # NULL
    BY <2>1, OwnState DEF AcquiredAt
  <2>7. IsSignalled(t) /\ ~ IsSignalled(t)' /\ OwnsIt(t)'
    BY <2>1, <2>4, <2>6 DEF IsSignalled, OwnsIt
  <2> QED BY <1>1, <2>1, <2>4, <2>5, <2>7
<1> QED BY <1>2, <1>3

(* The walk of SignalMonitor ends at the thread the abstract signal goes   *)
(* to: the threads before it have been signalled and are still waiting.    *)
LEMMA SignalStep ==
    ASSUME NumMonitors = 1, IInv, IInv', NEW t \in Threads, SignalThread(t)
    PROVE  Abstract!Signal(t)
<1> DEFINE q == queue[1]
           k == walk[t]
           u == q[k]
<1>0. Monitor = {1} /\ \A c \in Calls : c.on = {1} /\ The(c.on) = 1
  BY SingleFacts
<1>1. pc[t] = "poke" /\ The(call[t].on) = 1 /\ Cursor(t) = u
  <2>1. pc[t] = "poke"
    BY DEF SignalThread
  <2>2. call[t] \in Calls
    BY <2>1, OwnState
  <2> QED BY <1>0, <2>1, <2>2 DEF Cursor
<1>2. /\ u \in Threads /\ u # t /\ acquired[u] = NULL
      /\ pc[u] \in {"release", "tlock", "check", "asleep", "wakeup"}
      /\ acquired' = [acquired EXCEPT ![u] = 1] /\ 1 # NULL
      /\ pc'[t] = "return" /\ pc'[u] = (IF pc[u] = "asleep" THEN "wakeup" ELSE pc[u])
      /\ \A v \in Threads : v \notin {t, u} => pc'[v] = pc[v]
      /\ UNCHANGED <<mutex, queue, call, todo, walk, got>>
  BY <1>1, SignalThreadFacts
<1>3. /\ k <= Len(q) /\ \A i \in 1 .. (k - 1) : i <= Len(q) /\ acquired[q[i]] # NULL
  BY <1>1 DEF IInv, WalkOK
<1>4. k \in 1 .. Len(q)
  BY <1>1, <1>3, CursorFacts
<1>5. IsWaitList(q, Threads) /\ q \in Seq(Threads)
  BY <1>0 DEF IInv, QueueTypes
<1>6. Len(q) \in Nat /\ DOMAIN q = 1 .. Len(q)
  BY <1>5, LenProperties
<1> HIDE DEF u, q, k
<1>7. ASSUME NEW i \in 1 .. (k - 1) PROVE AbsAcquired[q[i]]
  <2>1. i \in 1 .. Len(q) /\ acquired[q[i]] # NULL
    BY <1>3, <1>4, <1>6
  <2>2. q[i] \in Threads /\ q[i] \in Listed(q)
    BY <1>5, <1>6, <2>1, ElementOfSeq DEF Listed, Range
  <2>3. 1 \in Linked(q[i])
    BY <1>0, <2>2 DEF IInv, ListOK, q
  <2>4. ~ (pc[q[i]] = "relock" /\ todo[q[i]] = {})
    BY <2>3 DEF Linked, LinkedAt, WaitLabels
  <2> QED BY <2>1, <2>2, <2>4 DEF AbsAcquired, IsSignalled
<1>8. u = q[k] /\ ~ AbsAcquired[u]
  BY <1>2 DEF u, AbsAcquired, IsSignalled
<1>9. AbsAcquired \in [Threads -> BOOLEAN]
  BY DEF AbsAcquired, IsSignalled
<1>10. SignalMonitor(q, AbsAcquired) = [AbsAcquired EXCEPT ![u] = TRUE]
  <2>1. ~ AbsAcquired[q[k]] /\ \A i \in 1 .. (k - 1) : AbsAcquired[q[i]]
    BY <1>7, <1>8, Zenon
  <2>2. SignalMonitor(q, AbsAcquired) = [AbsAcquired EXCEPT ![q[k]] = TRUE]
    BY <1>4, <1>5, <1>9, <2>1, SignalFirst, Zenon
  <2> QED BY <1>8, <2>2
<1>11. \A v \in Threads : acquired'[v] = (IF v = u THEN 1 ELSE acquired[v])
  BY <1>2 DEF IInv, LocalTypes
<1>12. \A v \in Threads : IsSignalled(v)' = (IF v = u THEN TRUE ELSE IsSignalled(v))
  <2> SUFFICES ASSUME NEW v \in Threads
               PROVE  IsSignalled(v)' = (IF v = u THEN TRUE ELSE IsSignalled(v))
    OBVIOUS
  <2>1. CASE v = u
    <3>1. acquired'[v] # NULL /\ pc'[v] # "relock"
      BY <1>2, <1>11, <2>1
    <3> QED BY <2>1, <3>1 DEF IsSignalled
  <2>2. CASE v = t
    <3>1. acquired'[v] = acquired[v] /\ pc'[v] # "relock" /\ pc[v] # "relock"
      BY <1>1, <1>2, <1>11, <2>2
    <3> QED BY <1>2, <2>2, <3>1 DEF IsSignalled
  <2>3. CASE v \notin {t, u}
    <3>1. acquired'[v] = acquired[v] /\ pc'[v] = pc[v] /\ todo'[v] = todo[v]
      BY <1>2, <1>11, <2>3
    <3> QED BY <2>3, <3>1 DEF IsSignalled
  <2> QED BY <2>1, <2>2, <2>3
<1>13. AbsAcquired' = [AbsAcquired EXCEPT ![u] = TRUE]
  <2>1. AbsAcquired' = [v \in Threads |-> IF v = u THEN TRUE ELSE IsSignalled(v)]
    BY <1>12 DEF AbsAcquired
  <2> QED BY <2>1 DEF AbsAcquired
<1>14. ASSUME NEW v \in Threads, v # t PROVE OwnsIt(v)' <=> OwnsIt(v)
  <2>1. CASE v = u
    BY <1>2, <2>1 DEF OwnsIt
  <2>2. CASE v # u
    BY <1>2, <1>14, <2>2 DEF OwnsIt
  <2> QED BY <2>1, <2>2
<1>15. OwnsIt(t) /\ OwnsIt(t)'
  BY <1>1, <1>2 DEF OwnsIt
<1>16. AbsOwner = t /\ AbsOwner' = AbsOwner
  BY <1>14, <1>15, OwnerStep
<1>17. AbsAcquired' = SignalMonitor(queue[1], AbsAcquired) /\ queue' = queue
  BY <1>2, <1>10, <1>13 DEF q
<1> QED BY <1>16, <1>17 DEF Abstract!Signal, Abstract!SignalMonitor, Abstract!Unsignalled,
       SignalMonitor, Unsignalled, AbsOwner, AbsAcquired, IsSignalled

(* Used by one monitor alone, the pthread-level WaitForMonitor,            *)
(* WaitForAnyMonitor and SignalMonitor implement the five steps of         *)
(* MonitorSpec, which all other models of threadapi.c are built on.        *)
THEOREM MonitorImplementsSpec ==
    ASSUME NumMonitors = 1
    PROVE  Spec => ImplementsMonitorSpec
<1>1. Init => Abstract!Init
  <2> SUFFICES ASSUME Init PROVE Abstract!Init
    OBVIOUS
  <2>1. Monitor = {1}
    BY SingleFacts
  <2>2. mutex[1] = Nobody /\ queue[1] = <<>>
    BY <2>1 DEF Init
  <2>3. \A t \in Threads : acquired[t] = NULL
    BY DEF Init
  <2> QED BY <2>2, <2>3 DEF Abstract!Init
<1>2. IInv /\ IInv' /\ [Next]_vars =>
          Abstract!Next \/ UNCHANGED <<AbsOwner, queue[1], AbsAcquired>>
  <2> SUFFICES ASSUME IInv, IInv', [Next]_vars
               PROVE  Abstract!Next \/ UNCHANGED <<AbsOwner, queue[1], AbsAcquired>>
    OBVIOUS
  <2>1. CASE UNCHANGED vars
    BY <2>1 DEF vars, AbsOwner, AbsAcquired, IsSignalled
  <2>2. CASE Next
    <3>1. PICK t \in Threads : Call(t) \/ Step(t) \/ SpuriousWakeup(t)
      BY <2>2 DEF Next
    <3>2. CASE \/ LockMonitors(t) \/ BeginWait(t) \/ Return(t) \/ LeaveWait(t) \/ Relock(t)
               \/ SignalThread(t)
      <4>1. \/ Abstract!Acquire(t) \/ Abstract!Release(t) \/ Abstract!Wait(t)
            \/ Abstract!Resume(t) \/ Abstract!Signal(t)
        BY <3>2, OuterStep, WaitStep, SignalStep
      <4> QED BY <4>1 DEF Abstract!Next
    <3>3. CASE \/ Call(t) \/ SpuriousWakeup(t) \/ UnlockMonitors(t) \/ LockSelf(t) \/ Sleep(t)
               \/ Signalled(t) \/ TryLockMonitor(t) \/ LockMonitorAfterTry(t) \/ LockSelfAfterTry(t)
               \/ ClearAcquired(t) \/ BeginSignal(t) \/ WalkEnd(t) \/ WalkLock(t) \/ WalkOn(t)
      BY <3>3, InnerStep
    <3> QED BY <3>1, <3>2, <3>3 DEF Step
  <2> QED BY <2>1, <2>2
<1>3. IInv /\ IInv' /\ [Next]_vars =>
          [Abstract!Next]_<<IF mutex[1] # Nobody /\ pc[mutex[1]] \in {"release", "tlock2", "leave"}
                            THEN Nobody ELSE mutex[1],
                            queue[1],
                            [t \in Threads |-> /\ acquired[t] # NULL
                                               /\ ~ (pc[t] = "relock" /\ todo[t] = {})]>>
  BY <1>2 DEF AbsOwner, AbsAcquired, IsSignalled
<1> QED BY <1>1, <1>3, MonitorInvariant, PTL DEF Spec, ImplementsMonitorSpec, Abstract!Spec

-----------------------------------------------------------------------------
(* No deadlock.  The loops over monitors go up in address: those a thread  *)
(* has taken come before those it has still to take.                       *)
SortedAt(label, on, rest) ==
    label \in {"lock", "relock"} => \A a \in on \ rest : \A b \in rest : a < b
Sorted == \A t \in Threads : SortedAt(pc[t], call[t].on, todo[t])

(* The first monitor of a loop comes before the others.                    *)
LEMMA LowestIsFirst ==
    ASSUME NEW S \in SUBSET Monitor, NEW b \in S \ {Lowest(S)}
    PROVE  Lowest(S) < b
<1>1. S \subseteq Nat
  BY MonitorsAssumption DEF Monitor
<1>2. Lowest(S) \in S /\ Lowest(S) <= b
  BY LowestFacts
<1>3. Lowest(S) \in Nat /\ b \in Nat /\ b # Lowest(S)
  BY <1>1, <1>2
<1> QED BY <1>2, <1>3

(* A loop that has one monitor less to visit is still sorted.              *)
LEMMA LoopOn ==
    ASSUME NEW on, NEW rest \in SUBSET Monitor, rest # {},
           SortedAt("lock", on, rest) \/ SortedAt("relock", on, rest)
    PROVE  SortedAt("lock", on, rest \ {Lowest(rest)}) /\ SortedAt("relock", on, rest \ {Lowest(rest)})
<1>1. \A a \in on \ rest : \A b \in rest : a < b
  BY DEF SortedAt
<1>2. \A b \in rest \ {Lowest(rest)} : Lowest(rest) < b
  BY LowestIsFirst
<1> QED BY <1>1, <1>2 DEF SortedAt

(* Every step keeps the loops sorted.                                      *)
LEMMA SortedNext == IInv /\ Sorted /\ [Next]_vars => Sorted'
<1> SUFFICES ASSUME IInv, Sorted, [Next]_vars PROVE Sorted'
  OBVIOUS
<1> USE DEF IInv, LocalTypes
<1>1. CASE UNCHANGED vars
  BY <1>1 DEF vars, Sorted
<1>2. CASE Next
  <2>1. PICK t \in Threads : Call(t) \/ Step(t) \/ SpuriousWakeup(t)
    BY <1>2 DEF Next
  <2>2. CASE SignalThread(t)
    <3>1. UNCHANGED <<call, todo>> /\ \A v \in Threads : pc'[v] \in {"lock", "relock"} => pc'[v] = pc[v]
      <4> DEFINE u == Cursor(t)
      <4>1. /\ u \in Threads /\ pc[u] \in {"release", "tlock", "check", "asleep", "wakeup"}
            /\ pc'[t] = "return" /\ pc'[u] = (IF pc[u] = "asleep" THEN "wakeup" ELSE pc[u])
            /\ \A v \in Threads : v \notin {t, u} => pc'[v] = pc[v]
            /\ UNCHANGED <<call, todo>>
        BY <2>2, SignalThreadFacts
      <4> HIDE DEF u
      <4> QED BY <4>1
    <3> QED BY <3>1 DEF Sorted, SortedAt
  <2>3. CASE ~ SignalThread(t)
    <3>1. Others(t)
      BY <2>1, <2>3 DEF Step, Call, SpuriousWakeup, LockMonitors, BeginWait, UnlockMonitors,
         LockSelf, Sleep, Signalled, TryLockMonitor, LockMonitorAfterTry, LockSelfAfterTry,
         LeaveWait, Relock, ClearAcquired, BeginSignal, WalkEnd, WalkLock, WalkOn, Return, Goto,
         Others, SameThread
    <3>2. SortedAt(pc[t], call[t].on, todo[t])
      BY DEF Sorted
    <3>3. SortedAt(pc'[t], call'[t].on, todo'[t])
      <4>1. CASE Call(t) \/ Signalled(t)
        <5>1. CASE pc'[t] \in {"lock", "relock"}
          <6>1. todo'[t] = call'[t].on
            BY <4>1, <5>1 DEF Call, Signalled, Goto
          <6> QED BY <6>1 DEF SortedAt
        <5>2. CASE pc'[t] \notin {"lock", "relock"}
          BY <5>2 DEF SortedAt
        <5> QED BY <5>1, <5>2
      <4>2. CASE LockMonitors(t) \/ Relock(t)
        <5>1. /\ pc[t] \in {"lock", "relock"} /\ call'[t] = call[t]
              /\ todo'[t] = todo[t] \ {Lowest(todo[t])}
          BY <4>2 DEF LockMonitors, Relock
        <5>2. todo[t] \in SUBSET Monitor /\ (pc[t] = "lock" => todo[t] # {})
          BY OwnState DEF CallAt
        <5>3. todo[t] # {}
          BY <4>2, <5>2 DEF LockMonitors, Relock
        <5>4. /\ SortedAt("lock", call[t].on, todo[t] \ {Lowest(todo[t])})
              /\ SortedAt("relock", call[t].on, todo[t] \ {Lowest(todo[t])})
          BY <3>2, <5>1, <5>2, <5>3, LoopOn
        <5> QED BY <5>1, <5>4 DEF SortedAt
      <4>3. CASE ~ (Call(t) \/ Signalled(t) \/ LockMonitors(t) \/ Relock(t))
        <5>1. pc'[t] \notin {"lock", "relock"}
          BY <2>1, <2>3, <4>3 DEF Step, SpuriousWakeup, BeginWait, UnlockMonitors, LockSelf, Sleep,
             TryLockMonitor, LockMonitorAfterTry, LockSelfAfterTry, LeaveWait, ClearAcquired,
             BeginSignal, WalkEnd, WalkLock, WalkOn, Return, Goto
        <5> QED BY <5>1 DEF SortedAt
      <4> QED BY <4>1, <4>2, <4>3
    <3>4. ASSUME NEW v \in Threads, v # t PROVE SortedAt(pc'[v], call'[v].on, todo'[v])
      BY <3>1, <3>4 DEF Others, SameThread, Sorted
    <3> QED BY <3>3, <3>4 DEF Sorted
  <2> QED BY <2>2, <2>3
<1> QED BY <1>1, <1>2

(* A set of monitors that is not empty has a last one.                     *)
LEMMA LastMonitor ==
    ASSUME NEW S \in SUBSET Monitor, S # {}
    PROVE  \E m \in S : \A n \in S : n <= m
<1> DEFINE D == {NumMonitors - m : m \in S}
<1>1. NumMonitors \in Nat /\ \A m \in S : m \in Nat /\ m <= NumMonitors
  BY MonitorsAssumption DEF Monitor
<1>2. D \subseteq Nat /\ D # {}
  BY <1>1
<1>3. PICK i \in D : \A j \in D : ~ (<<j, i>> \in OpToRel(<, Nat))
  BY <1>2, NatLessThanWellFounded, WFMin
<1>4. \A c, d \in Nat : c < d => <<c, d>> \in OpToRel(<, Nat)
  BY DEF OpToRel
<1>5. \A j \in D : ~ (j < i)
  BY <1>2, <1>3, <1>4, Zenon
<1>6. PICK m \in S : i = NumMonitors - m
  BY <1>3
<1>7. ASSUME NEW n \in S PROVE n <= m
  <2>1. ~ (NumMonitors - n < NumMonitors - m)
    BY <1>5, <1>6
  <2> QED BY <1>1, <2>1
<1> QED BY <1>7

(* The monitor thread t waits for, if it waits for one.                    *)
WaitsAt(t) == pc[t] \in {"lock", "mlock"} \/ (pc[t] = "relock" /\ todo[t] # {})
WaitsFor(t) == IF pc[t] = "mlock" THEN The(call[t].on) ELSE Lowest(todo[t])

(* A thread that has a thread lock has all it needs for its next step, so  *)
(* a thread that is not ready waits for a monitor that is taken.           *)
LEMMA NotReady ==
    ASSUME IInv, \A v \in Threads : ~ Ready(v), NEW t \in Threads, pc[t] \notin {"idle", "asleep"}
    PROVE  /\ WaitsAt(t) /\ WaitsFor(t) \in Monitor /\ mutex[WaitsFor(t)] # Nobody
           /\ mutex[WaitsFor(t)] \in Threads
<1>1. \A u \in Threads : threadLock[u] = Nobody
  <2> SUFFICES ASSUME NEW u \in Threads, threadLock[u] # Nobody PROVE FALSE
    OBVIOUS
  <2>1. threadLock[u] \in Threads /\ u \in Own(threadLock[u])
    BY DEF IInv, MutexTypes, ThreadLockOK
  <2>2. pc[threadLock[u]] \in {"check", "try", "leave", "poke"}
    BY <2>1 DEF Own
  <2>3. CallAt(pc[threadLock[u]], call[threadLock[u]], todo[threadLock[u]])
    BY <2>1, OwnState
  <2>4. Ready(threadLock[u])
    BY <2>2, <2>3 DEF Ready, CallAt, WaitLabels
  <2> QED BY <2>1, <2>4
<1>2. /\ CallAt(pc[t], call[t], todo[t]) /\ call[t] \in Calls /\ todo[t] \in SUBSET Monitor
      /\ pc[t] \in Labels
  BY OwnState
<1>3. call[t].fn \in {"wait", "signal", "any"}
  BY <1>2, CallFacts
<1>4. pc[t] = "walk" => Ready(t)
  <2> SUFFICES ASSUME pc[t] = "walk" PROVE Ready(t)
    OBVIOUS
  <2>1. walk[t] <= Len(queue[The(call[t].on)]) => Cursor(t) \in Threads
    BY CursorFacts
  <2> QED BY <1>1, <2>1 DEF Ready, Cursor
<1>5. pc[t] \in {"lock", "mlock", "relock"}
  BY <1>1, <1>2, <1>3, <1>4 DEF Ready, Labels, CallAt, WaitLabels
<1>6. pc[t] = "relock" => todo[t] # {}
  BY <1>1 DEF Ready
<1>7. WaitsFor(t) \in Monitor
  <2>1. CASE pc[t] = "mlock"
    <3>1. call[t].fn = "wait"
      BY <1>2, <2>1 DEF CallAt
    <3> QED BY <1>2, <2>1, <3>1, CallFacts DEF WaitsFor
  <2>2. CASE pc[t] # "mlock"
    <3>1. todo[t] # {}
      BY <1>2, <1>5, <1>6, <2>2 DEF CallAt
    <3> QED BY <1>2, <2>2, <3>1, LowestFacts DEF WaitsFor
  <2> QED BY <2>1, <2>2
<1>8. mutex[WaitsFor(t)] # Nobody
  BY <1>5, <1>6 DEF Ready, WaitsFor
<1> QED BY <1>5, <1>6, <1>7, <1>8 DEF WaitsAt, IInv, MutexTypes

(* Whoever holds a monitor and waits for another waits for a later one.    *)
LEMMA WaitsUpwards ==
    ASSUME IInv, Sorted, NEW t \in Threads, WaitsAt(t), NEW m \in Held(t)
    PROVE  m < WaitsFor(t)
<1>1. /\ CallAt(pc[t], call[t], todo[t]) /\ todo[t] \in SUBSET Monitor
      /\ SortedAt(pc[t], call[t].on, todo[t])
  BY OwnState DEF Sorted
<1>2. pc[t] \in {"lock", "relock"} /\ m \in call[t].on \ todo[t] /\ todo[t] # {}
  BY <1>1 DEF WaitsAt, Held, HeldAt, CallAt
<1>3. Lowest(todo[t]) \in todo[t]
  BY <1>1, <1>2, LowestFacts
<1> QED BY <1>1, <1>2, <1>3 DEF SortedAt, WaitsFor

(* The two lock orders of the waiter and the signaller, the loops of       *)
(* LockMonitors and the relocking in WaitForAnyMonitor never block each    *)
(* other: as long as a thread is inside a call and not asleep, some thread *)
(* finds the lock it asks for free.                                        *)
THEOREM MonitorNoLockCycle == Spec => []NoLockCycle
<1>1. Init => Sorted
  <2> SUFFICES ASSUME Init, NEW t \in Threads PROVE SortedAt(pc[t], call[t].on, todo[t])
    BY DEF Sorted
  <2>1. pc[t] = "idle"
    BY DEF Init
  <2> QED BY <2>1 DEF SortedAt
<1>2. Spec => []Sorted
  BY <1>1, SortedNext, MonitorInvariant, PTL DEF Spec
<1>3. IInv /\ Sorted => NoLockCycle
  <2> SUFFICES ASSUME IInv, Sorted, Active, \A t \in Threads : ~ Ready(t) PROVE FALSE
    BY DEF NoLockCycle
  <2> DEFINE S == {WaitsFor(t) : t \in {v \in Threads : pc[v] \notin {"idle", "asleep"}}}
  <2>1. \A t \in Threads : pc[t] \notin {"idle", "asleep"} =>
            /\ WaitsAt(t) /\ WaitsFor(t) \in Monitor /\ mutex[WaitsFor(t)] \in Threads
    BY NotReady
  <2>2. S \in SUBSET Monitor /\ S # {}
    BY <2>1 DEF Active
  <2>3. PICK m \in S : \A n \in S : n <= m
    BY <2>2, LastMonitor
  <2>4. PICK t \in Threads : pc[t] \notin {"idle", "asleep"} /\ m = WaitsFor(t)
    BY <2>3
  <2>5. PICK v \in Threads : v = mutex[m]
    BY <2>1, <2>4
  <2>6. m \in Held(v)
    BY <2>2, <2>3, <2>5 DEF IInv, MutexOK
  <2>7. pc[v] \notin {"idle", "asleep"}
    BY <2>6 DEF Held, HeldAt
  <2>8. WaitsAt(v) /\ WaitsFor(v) \in Monitor /\ WaitsFor(v) \in S
    BY <2>1, <2>7
  <2> HIDE DEF S
  <2>9. m < WaitsFor(v) /\ WaitsFor(v) <= m
    BY <2>3, <2>6, <2>8, WaitsUpwards
  <2>10. m \in Nat /\ WaitsFor(v) \in Nat
    BY <2>2, <2>3, <2>8, MonitorsAssumption DEF Monitor
  <2> QED BY <2>9, <2>10
<1> QED BY <1>2, <1>3, MonitorInvariant, PTL
=============================================================================
