-------------------------- MODULE SemaphoreProofs --------------------------
(***************************************************************************)
(* Proofs about Semaphores for every set of threads, every initial count   *)
(* and all bounds.  The inductive invariant is the conjunction of the      *)
(* invariants the model checker tests: that no wake-up is lost rests on    *)
(* what sem->waiting counts (WaitingDrift), which rests on the wait list   *)
(* holding exactly the blocked threads (WaitListOK).                       *)
(*                                                                         *)
(* The last part is about the semaphore that module SendLock uses as a     *)
(* lock; only its facts rest on SendSemAssumption (MPISendSem is created   *)
(* with count 1).                                                          *)
(***************************************************************************)
EXTENDS SendLock, WaitListProofs, FiniteSetTheorems

Inv == TypeOK /\ WaitListOK /\ TokensConserved /\ WaitingDrift /\ WakeupsWithoutTry

(* The threads a function of flags marks as signalled.                     *)
Woken(a) == {u \in Threads : a[u]}

(* The number of signalled threads is a number, and grows with the set.    *)
LEMMA WokenCount ==
    ASSUME NEW a, NEW b, Woken(a) \subseteq Woken(b)
    PROVE  /\ IsFiniteSet(Woken(a)) /\ IsFiniteSet(Woken(b))
           /\ Cardinality(Woken(a)) \in Nat /\ Cardinality(Woken(b)) \in Nat
           /\ Cardinality(Woken(a)) <= Cardinality(Woken(b))
<1>1. IsFiniteSet(Woken(a)) /\ IsFiniteSet(Woken(b))
  BY ThreadsAssumption, FS_Subset DEF Woken
<1>2. Cardinality(Woken(a)) \in Nat /\ Cardinality(Woken(b)) \in Nat
  BY <1>1, FS_CardinalityType
<1>3. Cardinality(Woken(a)) <= Cardinality(Woken(b))
  BY <1>1, FS_Subset
<1> QED BY <1>1, <1>2, <1>3

(* SignalMonitor wakes one more listed thread unless all are awake.        *)
LEMMA SignalWakes ==
    ASSUME NEW q, IsWaitList(q, Threads), NEW a \in [Threads -> BOOLEAN]
    PROVE  LET new == SignalMonitor(q, a)
           IN  /\ new \in [Threads -> BOOLEAN]
               /\ Woken(a) \subseteq Woken(new)
               /\ \A u \in Threads : new[u] /\ ~ a[u] => u \in Listed(q)
               /\ \/ Listed(q) \subseteq Woken(new)
                  \/ Cardinality(Woken(new)) = Cardinality(Woken(a)) + 1
<1> DEFINE new == SignalMonitor(q, a)
<1>1. CASE (\A u \in Listed(q) : a[u]) /\ new = a
  <2>1. Listed(q) \subseteq Threads
    BY EmptyListFacts
  <2> QED BY <1>1, <2>1 DEF Woken
<1>2. CASE \E u \in Listed(q) : u \in Threads /\ ~ a[u] /\ new = [a EXCEPT ![u] = TRUE]
  <2>1. PICK u \in Listed(q) : u \in Threads /\ ~ a[u] /\ new = [a EXCEPT ![u] = TRUE]
    BY <1>2
  <2>2. Woken(new) = Woken(a) \cup {u} /\ u \notin Woken(a)
    BY <2>1 DEF Woken
  <2>3. IsFiniteSet(Woken(a))
    BY WokenCount
  <2>4. Cardinality(Woken(new)) = Cardinality(Woken(a)) + 1
    BY <2>2, <2>3, FS_AddElement
  <2>5. new \in [Threads -> BOOLEAN] /\ \A v \in Threads : new[v] /\ ~ a[v] => v = u
    BY <2>1
  <2> HIDE DEF new
  <2>6. Woken(a) \subseteq Woken(new)
    BY <2>2
  <2> QED BY <2>1, <2>4, <2>5, <2>6 DEF new
<1> QED BY <1>1, <1>2, SignalMonitorFacts

(* PassOn wakes listed threads only, and puts nobody back to sleep.        *)
LEMMA PassOnFacts ==
    ASSUME NEW q, IsWaitList(q, Threads), NEW a \in [Threads -> BOOLEAN],
           NEW w, NEW c
    PROVE  LET new == PassOn(w, c, q, a)
           IN  /\ new \in [Threads -> BOOLEAN]
               /\ Woken(a) \subseteq Woken(new)
               /\ \A u \in Threads : new[u] /\ ~ a[u] => u \in Listed(q)
<1>1. CASE w # 0 /\ c > 0
  <2>1. PassOn(w, c, q, a) = SignalMonitor(q, a)
    BY <1>1 DEF PassOn
  <2> QED BY <2>1, SignalWakes
<1>2. CASE ~ (w # 0 /\ c > 0)
  <2>1. PassOn(w, c, q, a) = a
    BY <1>2 DEF PassOn
  <2> QED BY <2>1
<1> QED BY <1>1, <1>2

(* How the number of blocked threads follows a change of pc.               *)
LEMMA BlockedCount ==
    ASSUME TypeOK, NEW t \in Threads
    PROVE  /\ IsFiniteSet(Blocked) /\ Cardinality(Blocked) \in Nat
           /\ Cardinality(Blocked) = 0 <=> Blocked = {}
           /\ t \notin Blocked => Cardinality(Blocked \cup {t}) = Cardinality(Blocked) + 1
           /\ t \in Blocked => Cardinality(Blocked \ {t}) = Cardinality(Blocked) - 1
<1>1. IsFiniteSet(Blocked)
  BY ThreadsAssumption, FS_Subset DEF Blocked
<1>2. Cardinality(Blocked) \in Nat
  BY <1>1, FS_CardinalityType
<1>3. Cardinality(Blocked) = 0 <=> Blocked = {}
  BY <1>1, FS_EmptySet
<1>4. t \notin Blocked => Cardinality(Blocked \cup {t}) = Cardinality(Blocked) + 1
  BY <1>1, FS_AddElement
<1>5. t \in Blocked => Cardinality(Blocked \ {t}) = Cardinality(Blocked) - 1
  BY <1>1, FS_RemoveElement
<1> QED BY <1>1, <1>2, <1>3, <1>4, <1>5

(* sem->waiting is not zero while threads wait and nobody has tried.       *)
LEMMA WaitersAreCounted ==
    ASSUME Inv, NEW t \in Threads, tried = 0, queue # <<>>
    PROVE  waiting # 0
<1>1. Blocked # {}
  BY EmptyListFacts DEF Inv, TypeOK, WaitListOK
<1>2. Cardinality(Blocked) \in Nat /\ Cardinality(Blocked) # 0
  BY <1>1, BlockedCount DEF Inv
<1>3. waiting = Cardinality(Blocked) - 0
  BY DEF Inv, WaitingDrift
<1> QED BY <1>2, <1>3

(* What CreateSemaphore leaves behind satisfies the inductive invariant.       *)
LEMMA InitInv == Init => Inv
<1> SUFFICES ASSUME Init PROVE Inv
  OBVIOUS
<1>1. IsWaitList(<<>>, Threads) /\ Listed(<<>>) = {}
  <2>1. <<>> \in Seq(Threads) /\ Len(<<>>) = 0
    BY EmptySeq
  <2>2. IsWaitList(<<>>, Threads)
    BY <2>1 DEF IsWaitList
  <2> QED BY <2>2, EmptyListFacts
<1>2. Blocked = {}
  BY DEF Init, Blocked
<1>3. Cardinality({}) = 0
  BY FS_EmptySet
<1>4. TypeOK
  BY <1>1, BoundsAssumption DEF Init, TypeOK
<1>5. WaitListOK
  BY <1>1, <1>2 DEF Init, WaitListOK
<1>6. TokensConserved /\ WaitingDrift
  BY <1>2, <1>3, BoundsAssumption DEF Init, TokensConserved, WaitingDrift
<1>7. WakeupsWithoutTry
  BY <1>1 DEF Init, WakeupsWithoutTry, EnoughWakeups
<1> QED BY <1>4, <1>5, <1>6, <1>7 DEF Inv

(* The step SignalSemaphore preserves the inductive invariant. *)
LEMMA SignalSemaphoreInv ==
    ASSUME Inv, NEW t \in Threads, SignalSemaphore(t)
    PROVE  Inv'
<1> USE DEF Inv
<1>1. Blocked' = Blocked
  BY DEF SignalSemaphore, Blocked
<1>2. /\ acquired' \in [Threads -> BOOLEAN]
      /\ \A u \in Threads : acquired'[u] /\ ~ acquired[u] => u \in Listed(queue)
      /\ Woken(acquired) \subseteq Woken(acquired')
      /\ waiting # 0 => \/ Listed(queue) \subseteq Woken(acquired')
                        \/ Cardinality(Woken(acquired')) = Cardinality(Woken(acquired)) + 1
  <2>1. CASE waiting # 0
    <3>1. acquired' = SignalMonitor(queue, acquired)
      BY <2>1 DEF SignalSemaphore
    <3> QED BY <3>1, SignalWakes DEF TypeOK
  <2>2. CASE waiting = 0
    BY <2>2 DEF SignalSemaphore, TypeOK
  <2> QED BY <2>1, <2>2
<1>3. TypeOK'
  BY <1>2 DEF SignalSemaphore, TypeOK
<1>4. WaitListOK'
  BY <1>1, <1>2 DEF SignalSemaphore, WaitListOK
<1>5. TokensConserved'
  BY BoundsAssumption DEF SignalSemaphore, TypeOK, TokensConserved
<1>6. WaitingDrift'
  BY <1>1 DEF SignalSemaphore, WaitingDrift
<1>7. WakeupsWithoutTry'
  <2> SUFFICES ASSUME tried = 0
               PROVE  \/ Cardinality(Woken(acquired')) >= count + 1
                      \/ Listed(queue) \subseteq Woken(acquired')
    BY DEF SignalSemaphore, WakeupsWithoutTry, EnoughWakeups, Signalled, Woken
  <2>1. CASE queue = <<>>
    BY <2>1, EmptyListFacts DEF TypeOK
  <2>2. CASE queue # <<>>
    <3>1. waiting # 0
      BY <2>2, WaitersAreCounted
    <3>2. \/ Cardinality(Woken(acquired)) >= count
          \/ Listed(queue) \subseteq Woken(acquired)
      BY DEF WakeupsWithoutTry, EnoughWakeups, Signalled, Woken
    <3>3. Cardinality(Woken(acquired)) \in Nat
      BY WokenCount
    <3> QED BY <1>2, <3>1, <3>2, <3>3 DEF TypeOK
  <2> QED BY <2>1, <2>2
<1> QED BY <1>3, <1>4, <1>5, <1>6, <1>7

(* The step WaitSemaphoreAtOnce preserves the inductive invariant. *)
LEMMA WaitSemaphoreAtOnceInv ==
    ASSUME Inv, NEW t \in Threads, WaitSemaphoreAtOnce(t)
    PROVE  Inv'
<1> USE DEF Inv
<1>1. Blocked' = Blocked
  BY DEF WaitSemaphoreAtOnce, Blocked
<1>2. /\ acquired' \in [Threads -> BOOLEAN]
      /\ Woken(acquired) \subseteq Woken(acquired')
      /\ \A u \in Threads : acquired'[u] /\ ~ acquired[u] => u \in Listed(queue)
  BY PassOnFacts DEF WaitSemaphoreAtOnce, TypeOK
<1>3. TypeOK'
  BY <1>2 DEF WaitSemaphoreAtOnce, TypeOK
<1>4. WaitListOK'
  BY <1>1, <1>2 DEF WaitSemaphoreAtOnce, WaitListOK
<1>5. TokensConserved'
  BY BoundsAssumption DEF WaitSemaphoreAtOnce, TypeOK, TokensConserved
<1>6. WaitingDrift'
  BY <1>1 DEF WaitSemaphoreAtOnce, WaitingDrift
<1>7. WakeupsWithoutTry'
  <2> SUFFICES ASSUME tried = 0
               PROVE  \/ Cardinality(Woken(acquired')) >= count - 1
                      \/ Listed(queue) \subseteq Woken(acquired')
    BY DEF WaitSemaphoreAtOnce, WakeupsWithoutTry, EnoughWakeups, Signalled, Woken
  <2>1. \/ Cardinality(Woken(acquired)) >= count
        \/ Listed(queue) \subseteq Woken(acquired)
    BY DEF WakeupsWithoutTry, EnoughWakeups, Signalled, Woken
  <2>2. /\ Cardinality(Woken(acquired)) \in Nat /\ Cardinality(Woken(acquired')) \in Nat
        /\ Cardinality(Woken(acquired)) <= Cardinality(Woken(acquired'))
    BY <1>2, WokenCount
  <2> QED BY <1>2, <2>1, <2>2 DEF TypeOK
<1> QED BY <1>3, <1>4, <1>5, <1>6, <1>7

(* The step WaitSemaphoreBlock preserves the inductive invariant. *)
LEMMA WaitSemaphoreBlockInv ==
    ASSUME Inv, NEW t \in Threads, WaitSemaphoreBlock(t)
    PROVE  Inv'
<1> USE DEF Inv
<1>1. t \notin Blocked /\ Blocked' = Blocked \cup {t}
  BY DEF WaitSemaphoreBlock, Blocked, TypeOK
<1>2. /\ IsWaitList(queue', Threads)
      /\ Listed(queue') = Listed(queue) \cup {t}
  <2>1. t \notin Listed(queue)
    BY <1>1 DEF WaitListOK
  <2>2. queue' = AddWaitList(queue, t)
    BY DEF WaitSemaphoreBlock
  <2> QED BY <2>1, <2>2, AddWaitListFacts DEF TypeOK
<1>3. TypeOK'
  BY <1>2 DEF WaitSemaphoreBlock, TypeOK
<1>4. WaitListOK'
  BY <1>1, <1>2 DEF WaitSemaphoreBlock, WaitListOK
<1>5. TokensConserved'
  BY DEF WaitSemaphoreBlock, TokensConserved
<1>6. WaitingDrift'
  BY <1>1, BlockedCount DEF WaitSemaphoreBlock, WaitingDrift, TypeOK
<1>7. WakeupsWithoutTry'
  <2>1. Cardinality(Woken(acquired')) \in Nat
    BY WokenCount
  <2>2. count' = 0
    BY DEF WaitSemaphoreBlock
  <2> QED BY <2>1, <2>2 DEF WakeupsWithoutTry, EnoughWakeups, Signalled, Woken
<1> QED BY <1>3, <1>4, <1>5, <1>6, <1>7

(* The step WaitSemaphoreReturn preserves the inductive invariant. *)
LEMMA WaitSemaphoreReturnInv ==
    ASSUME Inv, NEW t \in Threads, WaitSemaphoreReturn(t)
    PROVE  Inv'
<1> USE DEF Inv
<1> DEFINE cleared == [acquired EXCEPT ![t] = FALSE]
<1>1. t \in Blocked /\ Blocked' = Blocked \ {t}
  BY DEF WaitSemaphoreReturn, Blocked, TypeOK
<1>2. /\ IsWaitList(queue', Threads)
      /\ Listed(queue') = Listed(queue) \ {t}
  <2>1. t \in Listed(queue)
    BY <1>1 DEF WaitListOK
  <2>2. queue' = RemoveWaitList(queue, t)
    BY DEF WaitSemaphoreReturn
  <2> QED BY <2>1, <2>2, RemoveWaitListFacts DEF TypeOK
<1>3. /\ cleared \in [Threads -> BOOLEAN]
      /\ \A u \in Threads : cleared[u] => acquired[u] /\ u # t
      /\ Woken(cleared) = Woken(acquired) \ {t} /\ t \in Woken(acquired)
  BY DEF WaitSemaphoreReturn, TypeOK, Woken
<1>4. /\ acquired' \in [Threads -> BOOLEAN]
      /\ Woken(cleared) \subseteq Woken(acquired')
      /\ \A u \in Threads : acquired'[u] /\ ~ cleared[u] => u \in Listed(queue')
  <2>1. acquired' = PassOn(waiting - 1, count - 1, queue', cleared)
    BY DEF WaitSemaphoreReturn
  <2> HIDE DEF cleared
  <2> QED BY <1>2, <1>3, <2>1, PassOnFacts
<1> HIDE DEF cleared
<1>5. TypeOK'
  <2>1. pc' \in [Threads -> {"ready", "blocked"}]
    BY DEF WaitSemaphoreReturn, TypeOK
  <2>2. /\ count' \in Nat /\ waiting' \in Int
        /\ signalled' \in Nat /\ granted' \in Nat /\ tried' \in Nat
    BY DEF WaitSemaphoreReturn, TypeOK
  <2> QED BY <1>2, <1>4, <2>1, <2>2 DEF TypeOK
<1>6. WaitListOK'
  BY <1>1, <1>2, <1>3, <1>4 DEF WaitListOK
<1>7. TokensConserved'
  BY BoundsAssumption DEF WaitSemaphoreReturn, TypeOK, TokensConserved
<1>8. WaitingDrift'
  BY <1>1, BlockedCount DEF WaitSemaphoreReturn, WaitingDrift, TypeOK
<1>9. WakeupsWithoutTry'
  <2> SUFFICES ASSUME tried = 0
               PROVE  \/ Cardinality(Woken(acquired')) >= count - 1
                      \/ Listed(queue') \subseteq Woken(acquired')
    BY DEF WaitSemaphoreReturn, WakeupsWithoutTry, EnoughWakeups, Signalled, Woken
  <2>1. \/ Cardinality(Woken(acquired)) >= count
        \/ Listed(queue) \subseteq Woken(acquired)
    BY DEF WakeupsWithoutTry, EnoughWakeups, Signalled, Woken
  <2>2. Cardinality(Woken(cleared)) = Cardinality(Woken(acquired)) - 1
    BY <1>3, WokenCount, FS_RemoveElement
  <2>3. /\ Cardinality(Woken(cleared)) \in Nat /\ Cardinality(Woken(acquired')) \in Nat
        /\ Cardinality(Woken(cleared)) <= Cardinality(Woken(acquired'))
    BY <1>4, WokenCount
  <2>4. Cardinality(Woken(acquired)) \in Nat
    BY WokenCount
  <2>5. Listed(queue) \subseteq Woken(acquired) => Listed(queue') \subseteq Woken(acquired')
    BY <1>2, <1>3, <1>4
  <2> QED BY <2>1, <2>2, <2>3, <2>4, <2>5 DEF TypeOK
<1> QED BY <1>5, <1>6, <1>7, <1>8, <1>9

(* The step WaitSemaphoreAgain preserves the inductive invariant. *)
LEMMA WaitSemaphoreAgainInv ==
    ASSUME Inv, NEW t \in Threads, WaitSemaphoreAgain(t)
    PROVE  Inv'
<1> USE DEF Inv
<1>1. t \in Blocked /\ Blocked' = Blocked
  BY DEF WaitSemaphoreAgain, Blocked, TypeOK
<1>2. /\ IsWaitList(queue', Threads)
      /\ Listed(queue') = Listed(queue)
  <2>1. t \in Listed(queue)
    BY <1>1 DEF WaitListOK
  <2>2. /\ IsWaitList(RemoveWaitList(queue, t), Threads)
        /\ Listed(RemoveWaitList(queue, t)) = Listed(queue) \ {t}
    BY <2>1, RemoveWaitListFacts DEF TypeOK
  <2>3. queue' = AddWaitList(RemoveWaitList(queue, t), t)
    BY DEF WaitSemaphoreAgain
  <2>4. /\ IsWaitList(queue', Threads)
        /\ Listed(queue') = (Listed(queue) \ {t}) \cup {t}
    BY <2>2, <2>3, AddWaitListFacts
  <2> QED BY <2>1, <2>4
<1>3. acquired' \in [Threads -> BOOLEAN] /\ \A u \in Threads : acquired'[u] => acquired[u]
  BY DEF WaitSemaphoreAgain, TypeOK
<1>4. TypeOK'
  BY <1>2, <1>3 DEF WaitSemaphoreAgain, TypeOK
<1>5. WaitListOK'
  BY <1>1, <1>2, <1>3 DEF WaitListOK
<1>6. TokensConserved' /\ WaitingDrift'
  BY <1>1 DEF WaitSemaphoreAgain, TokensConserved, WaitingDrift
<1>7. WakeupsWithoutTry'
  <2>1. Cardinality(Woken(acquired')) \in Nat
    BY WokenCount
  <2>2. count' = 0
    BY DEF WaitSemaphoreAgain
  <2> QED BY <2>1, <2>2 DEF WakeupsWithoutTry, EnoughWakeups, Signalled, Woken
<1> QED BY <1>4, <1>5, <1>6, <1>7

(* The step TryWaitSemaphore preserves the inductive invariant. *)
LEMMA TryWaitSemaphoreInv ==
    ASSUME Inv, NEW t \in Threads, TryWaitSemaphore(t)
    PROVE  Inv'
<1> USE DEF Inv
<1>1. Blocked' = Blocked
  BY DEF TryWaitSemaphore, Blocked
<1>2. count' \in Nat /\ waiting' \in Int /\ granted' \in Nat /\ tried' \in Nat /\ tried' # 0
  BY DEF TryWaitSemaphore, TypeOK
<1>3. /\ acquired' \in [Threads -> BOOLEAN]
      /\ \A u \in Threads : acquired'[u] /\ ~ acquired[u] => u \in Listed(queue)
  <2>1. acquired' = PassOn(waiting', count', queue, acquired)
    BY DEF TryWaitSemaphore
  <2> QED BY <2>1, PassOnFacts DEF TypeOK
<1>4. TypeOK'
  BY <1>2, <1>3 DEF TryWaitSemaphore, TypeOK
<1>5. WaitListOK'
  BY <1>1, <1>3 DEF TryWaitSemaphore, WaitListOK
<1>6. TokensConserved'
  BY BoundsAssumption DEF TryWaitSemaphore, TypeOK, TokensConserved
<1>7. WaitingDrift'
  <2>1. Cardinality(Blocked) \in Nat
    BY BlockedCount
  <2>2. waiting' = waiting - 1 /\ tried' = tried + 1
    BY DEF TryWaitSemaphore
  <2> QED BY <1>1, <2>1, <2>2 DEF WaitingDrift, TypeOK
<1>8. WakeupsWithoutTry'
  BY <1>2 DEF WakeupsWithoutTry
<1> QED BY <1>4, <1>5, <1>6, <1>7, <1>8

(* Every step of every semaphore operation preserves the inductive invariant.  *)
LEMMA NextInv == Inv /\ [Next]_vars => Inv'
<1> SUFFICES ASSUME Inv, [Next]_vars PROVE Inv'
  OBVIOUS
<1>1. CASE Next
  <2>1. PICK t \in Threads : \/ SignalSemaphore(t)
                             \/ WaitSemaphoreAtOnce(t)
                             \/ WaitSemaphoreBlock(t)
                             \/ WaitSemaphoreReturn(t)
                             \/ WaitSemaphoreAgain(t)
                             \/ TryWaitSemaphore(t)
    BY <1>1 DEF Next, Return
  <2> QED BY <2>1, SignalSemaphoreInv, WaitSemaphoreAtOnceInv, WaitSemaphoreBlockInv,
             WaitSemaphoreReturnInv, WaitSemaphoreAgainInv, TryWaitSemaphoreInv
<1>2. CASE UNCHANGED vars
  BY <1>2 DEF vars, Inv, TypeOK, WaitListOK, TokensConserved, WaitingDrift,
              WakeupsWithoutTry, EnoughWakeups, Signalled, Blocked
<1> QED BY <1>1, <1>2

(* The inductive invariant holds in every reachable state.                 *)
LEMMA SemaphoreInv == Spec => []Inv
BY InitInv, NextInv, PTL DEF Spec

(* sem->count never goes below zero and the lists stay well formed,        *)
(* whatever the threads call.                                              *)
THEOREM SemaphoreTypeOK == Spec => []TypeOK
<1>1. Inv => TypeOK
  BY DEF Inv
<1> QED BY <1>1, SemaphoreInv, PTL

(* Every successful wait is paid for by a signal or the initial count.     *)
THEOREM SemaphoreConserves == Spec => []TokensConserved
<1>1. Inv => TokensConserved
  BY DEF Inv
<1> QED BY <1>1, SemaphoreInv, PTL

(* sem->waiting is off by exactly the number of TryWaitSemaphore calls.    *)
THEOREM SemaphoreDrift == Spec => []WaitingDrift
<1>1. Inv => WaitingDrift
  BY DEF Inv
<1> QED BY <1>1, SemaphoreInv, PTL

(* Without TryWaitSemaphore no wake-up is ever lost: every token that is   *)
(* available has a woken waiter on its way to it, or all waiters are.      *)
THEOREM SemaphoreNoLostWakeup == Spec => []WakeupsWithoutTry
<1>1. Inv => WakeupsWithoutTry
  BY DEF Inv
<1> QED BY <1>1, SemaphoreInv, PTL

-----------------------------------------------------------------------------
(* What makes MutualExclusion inductive: the semaphore's own invariant,    *)
(* and a count that is never more than one.                                *)
LockInv == Inv /\ sending \subseteq Threads /\ count \in {0, 1} /\ MutualExclusion

(* The clients of MPISendSem use the semaphore and nothing else: each of   *)
(* their steps is a step of the semaphore, so what is proved of all uses   *)
(* of a semaphore holds for this one.                                      *)
LEMMA LockUsesSemaphore == LockNext => Next
BY DEF LockNext, BeginSend, ResumeSend, EndSend, Next, Return

(* MPISendSem, just created, with nobody sending.                          *)
LEMMA LockInitInv == LockInit => LockInv
<1> SUFFICES ASSUME LockInit PROVE LockInv
  OBVIOUS
<1>1. Inv
  BY InitInv DEF LockInit
<1>2. count = 1 /\ sending = {}
  BY SendSemAssumption DEF LockInit, Init
<1> QED BY <1>1, <1>2 DEF LockInv, MutualExclusion

(* A thread that takes the token finds nobody sending, and is the only one *)
(* to send after it.                                                       *)
LEMMA TakeToken ==
    ASSUME LockInv, NEW t \in Threads, count > 0, count' = count - 1,
           sending' = sending \cup {t}
    PROVE  sending' \subseteq Threads /\ count' \in {0, 1} /\ MutualExclusion'
<1>1. count = 1 /\ count' = 0
  BY DEF LockInv
<1>2. sending' = {t}
  BY <1>1 DEF LockInv, MutualExclusion
<1> QED BY <1>1, <1>2 DEF MutualExclusion

(* Every step of a sender preserves the invariant of the lock.             *)
LEMMA LockNextInv == LockInv /\ [LockNext]_lockVars => LockInv'
<1> SUFFICES ASSUME LockInv, [LockNext]_lockVars PROVE LockInv'
  OBVIOUS
<1>1. Inv'
  <2>1. Inv /\ [Next]_vars
    BY LockUsesSemaphore DEF LockInv, lockVars
  <2> QED BY <2>1, NextInv
<1>2. sending' \subseteq Threads /\ count' \in {0, 1} /\ MutualExclusion'
  <2>1. CASE UNCHANGED <<count, sending>>
    BY <2>1 DEF LockInv, MutualExclusion
  <2>2. ASSUME NEW t \in Threads, BeginSend(t)
        PROVE  sending' \subseteq Threads /\ count' \in {0, 1} /\ MutualExclusion'
    <3>1. CASE WaitSemaphoreAtOnce(t) /\ sending' = sending \cup {t}
      BY <3>1, TakeToken DEF WaitSemaphoreAtOnce
    <3>2. CASE WaitSemaphoreBlock(t) /\ UNCHANGED sending
      BY <2>1, <3>2 DEF WaitSemaphoreBlock
    <3> QED BY <2>2, <3>1, <3>2 DEF BeginSend
  <2>3. ASSUME NEW t \in Threads, ResumeSend(t)
        PROVE  sending' \subseteq Threads /\ count' \in {0, 1} /\ MutualExclusion'
    <3>1. CASE WaitSemaphoreReturn(t) /\ sending' = sending \cup {t}
      BY <3>1, TakeToken DEF WaitSemaphoreReturn
    <3>2. CASE WaitSemaphoreAgain(t) /\ UNCHANGED sending
      BY <2>1, <3>2 DEF WaitSemaphoreAgain
    <3> QED BY <2>3, <3>1, <3>2 DEF ResumeSend
  <2>4. ASSUME NEW t \in Threads, EndSend(t)
        PROVE  sending' \subseteq Threads /\ count' \in {0, 1} /\ MutualExclusion'
    <3>1. t \in sending /\ sending' = sending \ {t} /\ count' = count + 1
      BY <2>4 DEF EndSend, SignalSemaphore
    <3>2. count = 0 /\ sending = {t}
      BY <3>1 DEF LockInv, MutualExclusion
    <3> QED BY <3>1, <3>2 DEF MutualExclusion
  <2>5. CASE UNCHANGED lockVars
    BY <2>1, <2>5 DEF lockVars, vars
  <2> QED BY <2>2, <2>3, <2>4, <2>5 DEF LockNext
<1> QED BY <1>1, <1>2 DEF LockInv

(* WaitSemaphore and SignalSemaphore on MPISendSem bracket the MPI call    *)
(* like a lock: never two senders at once, for any number of threads, and  *)
(* the counter is one exactly when nobody sends.                           *)
THEOREM SendLockExcludes == LockSpec => []MutualExclusion
<1>1. LockInv => MutualExclusion
  BY DEF LockInv
<1> QED BY <1>1, LockInitInv, LockNextInv, PTL DEF LockSpec

(* The senders implement the semaphore's specification.                    *)
THEOREM SendLockIsSemaphore == LockSpec => Spec
<1>1. LockInit => Init
  BY DEF LockInit
<1>2. [LockNext]_lockVars => [Next]_vars
  BY LockUsesSemaphore DEF lockVars
<1> QED BY <1>1, <1>2, PTL DEF LockSpec, Spec
=============================================================================
