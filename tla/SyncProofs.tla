----------------------------- MODULE SyncProofs -----------------------------
(***************************************************************************)
(* Proofs about two objects of threadapi.c whose users wait in one         *)
(* monitor. The modules share the threads and the wait list (Waiters) and  *)
(* nothing else.                                                           *)
(*                                                                         *)
(* Proofs about Barriers for every finite set of threads and any number of *)
(* phases, for the callers WaitBarrier is written for (ContractSpec).      *)
(*                                                                         *)
(* That nobody passes early is not inductive alone: it needs the count to  *)
(* be what is still missing (so that the unsigned decrement does not wrap  *)
(* round), and no thread to have entered a phase that is yet to start.     *)
(*                                                                         *)
(* Proofs about SyncVars for every set of threads and values and any       *)
(* number of calls.  The inductive invariant adds to what is checked that  *)
(* the mutex is held just between the two stores of a writer (StoresAgree, *)
(* OwnerStores), so that a thread that has seen the variable written and   *)
(* the mutex free can fetch the value without it (FetchersFindIt), and     *)
(* that each signal is passed on (ReaderInFlight).                         *)
(***************************************************************************)
EXTENDS Barriers, SyncVars, WaitListProofs, FiniteSetTheorems

-----------------------------------------------------------------------------
(* Barriers.                                                               *)

Flags == [Threads -> BOOLEAN]

(* What the fields of struct Barrier and the threads' locals may hold.     *)
BarrierTypes ==
    /\ phase \in Nat /\ arrivals \in Nat
    /\ expected \in 0 .. Cardinality(Threads)
    /\ acquired \in Flags
    /\ pc \in [Threads -> {"ready", "blocked"}]
    /\ entered \in [Threads -> Nat]
    /\ outcome \in [Threads -> {"none", "passed", "reset"}]

(* No thread is ahead of the barrier, and a waiting thread is in the phase *)
(* the barrier is in.                                                      *)
PhasesAgree ==
    /\ \A t \in Threads : entered[t] <= phase
    /\ \A t \in Threads : t \in Blocked => entered[t] = phase

(* "phaseDelta != 0": the error of a barrier restarted under its waiters.  *)
NobodyReset == \A t \in Threads : outcome[t] # "reset"

(* The chain of wake-ups is never broken: once the last thread of a phase  *)
(* has arrived, and until the list is empty, one waiter has been signalled *)
(* and is on its way to wake the next.                                     *)
ChainAlive ==
    arrivals = expected /\ Blocked # {} => \E t \in Threads : acquired[t]

BarrierInv ==
    /\ BarrierTypes /\ BarrierOK /\ PhasesAgree
    /\ NobodyPassesEarly /\ NobodyReset /\ ChainAlive

-----------------------------------------------------------------------------
(* How the number of waiters follows a thread that joins or leaves.        *)
LEMMA BlockedCount ==
    ASSUME NEW t \in Threads
    PROVE  /\ Cardinality(Blocked) \in Nat
           /\ Cardinality(Blocked) = 0 <=> Blocked = {}
           /\ t \notin Blocked => Cardinality(Blocked \cup {t}) = Cardinality(Blocked) + 1
           /\ t \in Blocked => Cardinality(Blocked \ {t}) = Cardinality(Blocked) - 1
           /\ t \in Blocked => (Cardinality(Blocked \ {t}) = 0 <=> Blocked \ {t} = {})
<1>1. IsFiniteSet(Blocked) /\ IsFiniteSet(Blocked \ {t})
  BY ThreadsAssumption, FS_Subset DEF Blocked
<1>2. Cardinality(Blocked) \in Nat
  BY <1>1, FS_CardinalityType
<1>3. /\ Cardinality(Blocked) = 0 <=> Blocked = {}
      /\ Cardinality(Blocked \ {t}) = 0 <=> Blocked \ {t} = {}
  BY <1>1, FS_EmptySet
<1>4. t \notin Blocked => Cardinality(Blocked \cup {t}) = Cardinality(Blocked) + 1
  BY <1>1, FS_AddElement
<1>5. t \in Blocked => Cardinality(Blocked \ {t}) = Cardinality(Blocked) - 1
  BY <1>1, FS_RemoveElement
<1> QED BY <1>2, <1>3, <1>4, <1>5

(* The unsigned decrement of WaitBarrier does not wrap round at the counts *)
(* a phase can have.                                                       *)
LEMMA DecrementFacts ==
    ASSUME NEW n \in 1 .. Cardinality(Threads)
    PROVE  Decrement(n) = n - 1
<1>1. Cardinality(Threads) \in Nat
  BY ThreadsAssumption, FS_CardinalityType
<1>2. n - 1 \in Nat /\ n - 1 < WordSize /\ WordSize \in Nat
  BY <1>1, BoundsAssumption
<1>3. (n - 1) % WordSize = n - 1
  BY <1>2
<1> QED BY <1>3 DEF Decrement

(* SignalBarrier wakes listed threads only, leaves the woken awake, and    *)
(* with a nonempty list somebody is awake after it.                        *)
LEMMA SignalBarrierFacts ==
    ASSUME NEW q, IsWaitList(q, Threads), NEW a \in Flags, NEW w,
           (w = 0) <=> (Listed(q) = {})
    PROVE  LET new == SignalBarrier(w, q, a)
           IN  /\ new \in Flags
               /\ \A u \in Threads : new[u] => a[u] \/ u \in Listed(q)
               /\ Listed(q) # {} => \E u \in Threads : new[u]
<1> DEFINE new == SignalBarrier(w, q, a)
<1>1. CASE w = 0
  <2>1. new = a
    BY <1>1 DEF SignalBarrier
  <2> QED BY <1>1, <2>1
<1>2. CASE w # 0
  <2>1. new = SignalMonitor(q, a) /\ Listed(q) \subseteq Threads
    BY <1>2, EmptyListFacts DEF SignalBarrier
  <2>2. a \in [Threads -> BOOLEAN]
    BY DEF Flags
  <2> HIDE DEF new
  <2>3. CASE (\A u \in Listed(q) : a[u]) /\ new = a
    BY <2>1, <2>3 DEF new
  <2>4. CASE \E u \in Listed(q) : u \in Threads /\ ~ a[u] /\ new = [a EXCEPT ![u] = TRUE]
    <3>1. PICK u \in Listed(q) : u \in Threads /\ ~ a[u] /\ new = [a EXCEPT ![u] = TRUE]
      BY <2>4
    <3>2. /\ new \in Flags /\ new[u]
          /\ \A v \in Threads : v # u => new[v] = a[v]
      BY <3>1, <2>2 DEF Flags
    <3> QED BY <3>1, <3>2 DEF new
  <2> QED BY <2>1, <2>2, <2>3, <2>4, SignalMonitorFacts
<1> QED BY <1>1, <1>2

-----------------------------------------------------------------------------
(* What CreateBarrier leaves behind satisfies the invariant.               *)
LEMMA CreateBarrierInv == CreateBarrier => BarrierInv
<1> SUFFICES ASSUME CreateBarrier PROVE BarrierInv
  OBVIOUS
<1>1. IsWaitList(<<>>, Threads) /\ Listed(<<>>) = {}
  <2>1. <<>> \in Seq(Threads) /\ Len(<<>>) = 0
    BY EmptySeq
  <2>2. IsWaitList(<<>>, Threads)
    BY <2>1 DEF IsWaitList
  <2> QED BY <2>2, EmptyListFacts
<1>2. Blocked = {} /\ Cardinality(Blocked) = 0 /\ Cardinality(Threads) \in Nat
  <2>1. Blocked = {}
    BY DEF CreateBarrier, Blocked
  <2> QED BY <2>1, FS_EmptySet, ThreadsAssumption, FS_CardinalityType
<1>3. BarrierTypes
  BY <1>2 DEF CreateBarrier, BarrierTypes, Flags
<1>4. \A t \in Threads : ~ acquired[t] /\ entered[t] = 0 /\ outcome[t] = "none"
  BY DEF CreateBarrier
<1>5. BarrierOK
  BY <1>1, <1>2, <1>4 DEF CreateBarrier, BarrierOK
<1>6. PhasesAgree /\ NobodyPassesEarly /\ NobodyReset /\ ChainAlive
  BY <1>2, <1>4 DEF CreateBarrier, PhasesAgree, NobodyPassesEarly, NobodyReset, ChainAlive
<1> QED BY <1>3, <1>5, <1>6 DEF BarrierInv

(* StartBarrier, called when the previous phase is over.                   *)
LEMMA StartBarrierInv ==
    ASSUME BarrierInv, NEW n \in 1 .. Cardinality(Threads),
           arrivals = expected, Blocked = {}, StartBarrier(n)
    PROVE  BarrierInv'
<1>0. Cardinality(Threads) \in Nat
  BY ThreadsAssumption, FS_CardinalityType
<1>1. /\ count' = n /\ phase' = phase + 1 /\ expected' = n /\ arrivals' = 0
      /\ UNCHANGED <<waiting, queue, acquired, pc, entered, outcome>>
      /\ n \in Nat /\ phase \in Nat
  BY <1>0 DEF StartBarrier, BarrierInv, BarrierTypes
<1>2. Blocked' = {}
  BY <1>1 DEF Blocked
<1>3. \A t \in Threads : ~ acquired[t] /\ entered[t] \in Nat /\ entered[t] <= phase
  BY DEF BarrierInv, BarrierOK, BarrierTypes, PhasesAgree
<1>4. BarrierTypes'
  BY <1>0, <1>1 DEF BarrierInv, BarrierTypes
<1>5. BarrierOK'
  BY <1>1, <1>2 DEF BarrierInv, BarrierOK
<1>6. PhasesAgree' /\ NobodyPassesEarly' /\ NobodyReset' /\ ChainAlive'
  BY <1>1, <1>2, <1>3 DEF BarrierInv, PhasesAgree, NobodyPassesEarly, NobodyReset, ChainAlive
<1> QED BY <1>4, <1>5, <1>6 DEF BarrierInv

(* What the contract gives a thread that enters WaitBarrier: the count is  *)
(* what is missing, and nobody has been woken yet.                         *)
LEMMA EnterFacts ==
    ASSUME BarrierInv, arrivals < expected
    PROVE  /\ count \in 1 .. Cardinality(Threads) /\ count = expected - arrivals
           /\ Decrement(count) = count - 1
           /\ \A u \in Threads : ~ acquired[u]
           /\ \A u \in Threads : entered[u] = phase => u \in Blocked
<1>0. Cardinality(Threads) \in Nat
  BY ThreadsAssumption, FS_CardinalityType
<1>1. count \in 1 .. Cardinality(Threads) /\ count = expected - arrivals
  BY <1>0 DEF BarrierInv, BarrierTypes, BarrierOK
<1>2. Decrement(count) = count - 1
  BY <1>1, DecrementFacts
<1> QED BY <1>1, <1>2 DEF BarrierInv, NobodyPassesEarly

(* WaitBarrier of a thread that is not the last.                           *)
LEMMA JoinInv ==
    ASSUME BarrierInv, NEW t \in Threads, arrivals < expected, WaitBarrierJoin(t)
    PROVE  BarrierInv'
<1>0. Cardinality(Threads) \in Nat
  BY ThreadsAssumption, FS_CardinalityType
<1>1. /\ pc[t] = "ready" /\ count' = Decrement(count) /\ Decrement(count) > 0
      /\ arrivals' = arrivals + 1 /\ waiting' = waiting + 1
      /\ queue' = AddWaitList(queue, t) /\ pc' = [pc EXCEPT ![t] = "blocked"]
      /\ entered' = [entered EXCEPT ![t] = phase]
      /\ UNCHANGED <<phase, acquired, outcome, expected>>
  BY DEF WaitBarrierJoin
<1>2. /\ phase \in Nat /\ arrivals \in Nat /\ expected \in Nat /\ acquired \in Flags
      /\ pc \in [Threads -> {"ready", "blocked"}] /\ entered \in [Threads -> Nat]
      /\ waiting = Cardinality(Blocked) /\ IsWaitList(queue, Threads)
      /\ Listed(queue) = Blocked
  BY <1>0 DEF BarrierInv, BarrierTypes, BarrierOK
<1>3. t \notin Blocked /\ Blocked' = Blocked \cup {t}
  BY <1>1, <1>2 DEF Blocked
<1>4. IsWaitList(queue', Threads) /\ Listed(queue') = Blocked'
  BY <1>1, <1>2, <1>3, AddWaitListFacts
<1>5. waiting' = Cardinality(Blocked')
  BY <1>1, <1>2, <1>3, BlockedCount
<1>6. /\ count' = count - 1 /\ count' \in Nat /\ arrivals' < expected
      /\ arrivals' + count' = expected
  BY <1>1, <1>2, EnterFacts
<1>7. /\ entered'[t] = phase /\ entered' \in [Threads -> Nat]
      /\ \A u \in Threads : u # t => entered'[u] = entered[u]
      /\ pc' \in [Threads -> {"ready", "blocked"}]
  BY <1>1, <1>2
<1>8. BarrierTypes'
  BY <1>1, <1>2, <1>7 DEF BarrierInv, BarrierTypes
<1>9. BarrierOK'
  <2>1. \A u \in Threads : ~ acquired'[u]
    BY <1>1, EnterFacts
  <2> QED BY <1>1, <1>4, <1>5, <1>6, <2>1 DEF BarrierOK
<1>10. PhasesAgree'
  BY <1>1, <1>2, <1>3, <1>7 DEF BarrierInv, PhasesAgree
<1>11. NobodyPassesEarly'
  BY <1>1, <1>3, <1>7, EnterFacts DEF NobodyPassesEarly
<1>12. NobodyReset' /\ ChainAlive'
  BY <1>1, <1>2, <1>6 DEF BarrierInv, NobodyReset, ChainAlive
<1> QED BY <1>8, <1>9, <1>10, <1>11, <1>12 DEF BarrierInv

(* WaitBarrier of the last thread, which starts the chain of wake-ups.     *)
LEMMA LastInv ==
    ASSUME BarrierInv, NEW t \in Threads, arrivals < expected, WaitBarrierLast(t)
    PROVE  BarrierInv'
<1>0. Cardinality(Threads) \in Nat
  BY ThreadsAssumption, FS_CardinalityType
<1>1. /\ count' = Decrement(count) /\ Decrement(count) = 0 /\ arrivals' = arrivals + 1
      /\ acquired' = SignalBarrier(waiting, queue, acquired)
      /\ outcome' = [outcome EXCEPT ![t] = "passed"]
      /\ entered' = [entered EXCEPT ![t] = phase]
      /\ UNCHANGED <<phase, waiting, queue, pc, expected>>
  BY DEF WaitBarrierLast
<1>2. /\ phase \in Nat /\ arrivals \in Nat /\ expected \in Nat /\ acquired \in Flags
      /\ entered \in [Threads -> Nat]
      /\ outcome \in [Threads -> {"none", "passed", "reset"}]
      /\ waiting = Cardinality(Blocked) /\ IsWaitList(queue, Threads)
      /\ Listed(queue) = Blocked
  BY <1>0 DEF BarrierInv, BarrierTypes, BarrierOK
<1>3. Blocked' = Blocked
  BY <1>1 DEF Blocked
<1>4. count' = 0 /\ arrivals' = expected
  BY <1>1, <1>2, EnterFacts
<1>5. (waiting = 0) <=> (Listed(queue) = {})
  BY <1>2, BlockedCount
<1>6. /\ acquired' \in Flags
      /\ \A u \in Threads : acquired'[u] => u \in Blocked
      /\ Blocked # {} => \E u \in Threads : acquired'[u]
  <2>1. /\ acquired' \in Flags
        /\ \A u \in Threads : acquired'[u] => acquired[u] \/ u \in Listed(queue)
        /\ Listed(queue) # {} => \E u \in Threads : acquired'[u]
    BY <1>1, <1>2, <1>5, SignalBarrierFacts
  <2> QED BY <1>2, <2>1, EnterFacts
<1>7. /\ entered' \in [Threads -> Nat]
      /\ outcome' \in [Threads -> {"none", "passed", "reset"}]
      /\ entered'[t] = phase /\ outcome'[t] = "passed"
      /\ \A u \in Threads : u # t => entered'[u] = entered[u] /\ outcome'[u] = outcome[u]
  BY <1>1, <1>2
<1>8. BarrierTypes'
  BY <1>1, <1>2, <1>6, <1>7 DEF BarrierInv, BarrierTypes
<1>9. BarrierOK'
  BY <1>1, <1>2, <1>3, <1>4, <1>6 DEF BarrierOK
<1>10. PhasesAgree'
  BY <1>1, <1>2, <1>3, <1>7 DEF BarrierInv, PhasesAgree
<1>11. NobodyPassesEarly' /\ NobodyReset' /\ ChainAlive'
  BY <1>1, <1>2, <1>3, <1>4, <1>6, <1>7
     DEF BarrierInv, NobodyPassesEarly, NobodyReset, ChainAlive
<1> QED BY <1>8, <1>9, <1>10, <1>11 DEF BarrierInv

(* A woken thread leaves, and wakes the next.                              *)
LEMMA ResumeInv ==
    ASSUME BarrierInv, NEW t \in Threads, WaitBarrierResume(t)
    PROVE  BarrierInv'
<1>0. Cardinality(Threads) \in Nat
  BY ThreadsAssumption, FS_CardinalityType
<1> DEFINE rest  == RemoveWaitList(queue, t)
           flags == [acquired EXCEPT ![t] = FALSE]
<1>1. /\ pc[t] = "blocked" /\ acquired[t] /\ waiting' = waiting - 1
      /\ queue' = rest /\ acquired' = SignalBarrier(waiting - 1, rest, flags)
      /\ pc' = [pc EXCEPT ![t] = "ready"]
      /\ outcome' = [outcome EXCEPT ![t] = OutcomeOf(entered[t])]
      /\ UNCHANGED <<count, phase, entered, expected, arrivals>>
  BY DEF WaitBarrierResume
<1>2. /\ arrivals \in Nat /\ expected \in Nat /\ acquired \in Flags
      /\ pc \in [Threads -> {"ready", "blocked"}]
      /\ outcome \in [Threads -> {"none", "passed", "reset"}]
      /\ count \in Nat /\ arrivals + count = expected
      /\ waiting = Cardinality(Blocked) /\ IsWaitList(queue, Threads)
      /\ Listed(queue) = Blocked
      /\ \A u \in Threads : acquired[u] => u \in Blocked
  BY <1>0 DEF BarrierInv, BarrierTypes, BarrierOK
<1>3. t \in Blocked /\ Blocked' = Blocked \ {t}
  BY <1>1, <1>2 DEF Blocked
<1>4. IsWaitList(rest, Threads) /\ Listed(rest) = Blocked'
  BY <1>2, <1>3, RemoveWaitListFacts
<1>5. waiting' = Cardinality(Blocked') /\ ((waiting - 1 = 0) <=> (Listed(rest) = {}))
  BY <1>1, <1>2, <1>3, <1>4, BlockedCount
<1>6. flags \in Flags /\ \A u \in Threads : flags[u] => u \in Blocked'
  <2>1. flags \in Flags /\ ~ flags[t] /\ \A u \in Threads : u # t => flags[u] = acquired[u]
    BY <1>2 DEF Flags
  <2> HIDE DEF flags
  <2> QED BY <1>2, <1>3, <2>1
<1> HIDE DEF rest, flags
<1>7. /\ acquired' \in Flags
      /\ \A u \in Threads : acquired'[u] => u \in Blocked'
      /\ Blocked' # {} => \E u \in Threads : acquired'[u]
  <2>1. /\ acquired' \in Flags
        /\ \A u \in Threads : acquired'[u] => flags[u] \/ u \in Listed(rest)
        /\ Listed(rest) # {} => \E u \in Threads : acquired'[u]
    BY <1>1, <1>4, <1>5, <1>6, SignalBarrierFacts
  <2> QED BY <1>4, <1>6, <2>1
<1>8. arrivals = expected
  BY <1>1, <1>2 DEF BarrierInv, NobodyPassesEarly
<1>9. /\ pc' \in [Threads -> {"ready", "blocked"}]
      /\ outcome' \in [Threads -> {"none", "passed", "reset"}]
      /\ outcome'[t] = "passed" /\ \A u \in Threads : u # t => outcome'[u] = outcome[u]
  BY <1>1, <1>2, <1>3 DEF BarrierInv, PhasesAgree, OutcomeOf
<1>10. BarrierTypes'
  BY <1>1, <1>7, <1>9 DEF BarrierInv, BarrierTypes
<1>11. BarrierOK'
  BY <1>1, <1>2, <1>4, <1>5, <1>7 DEF BarrierOK
<1>12. PhasesAgree'
  BY <1>1, <1>3 DEF BarrierInv, PhasesAgree
<1>13. NobodyPassesEarly' /\ NobodyReset' /\ ChainAlive'
  BY <1>1, <1>2, <1>7, <1>8, <1>9
     DEF BarrierInv, NobodyPassesEarly, NobodyReset, ChainAlive
<1> QED BY <1>10, <1>11, <1>12, <1>13 DEF BarrierInv

(* Every step of callers that keep the contract preserves the invariant.   *)
LEMMA ContractInv == BarrierInv /\ [ContractNext]_barrierVars => BarrierInv'
<1> SUFFICES ASSUME BarrierInv, [ContractNext]_barrierVars PROVE BarrierInv'
  OBVIOUS
<1>1. CASE \E n \in 1 .. Cardinality(Threads) :
              arrivals = expected /\ Blocked = {} /\ StartBarrier(n)
  BY <1>1, StartBarrierInv
<1>2. CASE \E t \in Threads :
              /\ arrivals < expected
              /\ WaitBarrierJoin(t) \/ WaitBarrierLast(t)
  BY <1>2, JoinInv, LastInv
<1>3. CASE \E t \in Threads : WaitBarrierResume(t)
  BY <1>3, ResumeInv
<1>4. CASE UNCHANGED barrierVars
  BY <1>4 DEF barrierVars, BarrierInv, BarrierTypes, BarrierOK, PhasesAgree, NobodyPassesEarly,
              NobodyReset, ChainAlive, Blocked
<1> QED BY <1>1, <1>2, <1>3, <1>4 DEF ContractNext

(* The invariant holds in every reachable state.                           *)
LEMMA BarrierInvariance == ContractSpec => []BarrierInv
<1> QED BY CreateBarrierInv, ContractInv, PTL DEF ContractSpec

-----------------------------------------------------------------------------
(* The bookkeeping of struct Barrier is right after every WaitBarrier:     *)
(* the unsigned count never wraps and is what is missing of the phase,     *)
(* barrier->waiting is the length of the wait list.                        *)
THEOREM BarrierBookkeeping == ContractSpec => []BarrierOK
<1>1. BarrierInv => BarrierOK
  BY DEF BarrierInv
<1> QED BY <1>1, BarrierInvariance, PTL

(* WaitBarrier lets nobody through before the last thread of the phase has *)
(* arrived.                                                                *)
THEOREM BarrierHolds == ContractSpec => []NobodyPassesEarly
<1>1. BarrierInv => NobodyPassesEarly
  BY DEF BarrierInv
<1> QED BY <1>1, BarrierInvariance, PTL

(* JoinBarrier's chain of wake-ups, one SignalMonitor per thread that      *)
(* leaves, is never broken while threads of a complete phase wait, and no  *)
(* caller that keeps the contract sees the error of a restarted barrier.   *)
THEOREM BarrierChain == ContractSpec => [](ChainAlive /\ NobodyReset)
<1>1. BarrierInv => ChainAlive /\ NobodyReset
  BY DEF BarrierInv
<1> QED BY <1>1, BarrierInvariance, PTL

-----------------------------------------------------------------------------
(* Synchronisation variables.                                              *)

OwnerStores == owner # Nobody => owner \in Threads /\ pc[owner] = "storing"
ArgIsValue == \A t \in Threads : pc[t] = "storing" => arg[t] \in Values
HasResults == result = [t \in Threads |-> result[t]]
FetchersFindIt == \A t \in Threads : pc[t] = "fetching" => value # NoValue

IInv ==
    /\ TypeOK /\ HasResults /\ StoresAgree /\ OwnerStores /\ ArgIsValue /\ FetchersFindIt
    /\ SignalOK /\ ReaderInFlight /\ UnlockedReadsAgree

(* A value is there only when the variable is marked as written.           *)
LEMMA ValueMeansWritten ==
    ASSUME IInv
    PROVE  /\ value # NoValue => written
           /\ value # NoValue => owner = Nobody
           /\ written /\ owner = Nobody => value # NoValue
BY DEF IInv, StoresAgree, OwnerStores

(* SignalMonitor wakes listed threads, and one at least if there are any.  *)
LEMMA SignalFacts ==
    ASSUME NEW q, IsWaitList(q, Threads), NEW a \in [Threads -> BOOLEAN]
    PROVE  LET new == SignalMonitor(q, a)
           IN  /\ new \in [Threads -> BOOLEAN]
               /\ \A u \in Threads : a[u] => new[u]
               /\ \A u \in Threads : new[u] => a[u] \/ u \in Listed(q)
               /\ q # <<>> => \E u \in Threads : new[u]
<1> DEFINE new == SignalMonitor(q, a)
<1>0. Listed(q) \subseteq Threads /\ (q # <<>> => Listed(q) # {})
  BY EmptyListFacts
<1>1. CASE (\A u \in Listed(q) : a[u]) /\ new = a
  BY <1>0, <1>1
<1>2. CASE \E u \in Listed(q) : u \in Threads /\ ~ a[u] /\ new = [a EXCEPT ![u] = TRUE]
  <2>1. PICK u \in Listed(q) : u \in Threads /\ ~ a[u] /\ new = [a EXCEPT ![u] = TRUE]
    BY <1>2
  <2>2. new[u] /\ new \in [Threads -> BOOLEAN] /\ \A v \in Threads : v # u => new[v] = a[v]
    BY <2>1
  <2> HIDE DEF new
  <2>3. \A v \in Threads : (a[v] => new[v]) /\ (new[v] => a[v] \/ v \in Listed(q))
    BY <2>1, <2>2
  <2> QED BY <2>1, <2>2, <2>3 DEF new
<1> QED BY <1>1, <1>2, SignalMonitorFacts

LEMMA PassOnFacts ==
    ASSUME NEW q, IsWaitList(q, Threads), NEW a \in [Threads -> BOOLEAN]
    PROVE  LET new == PassOn(q, a)
           IN  /\ new \in [Threads -> BOOLEAN]
               /\ \A u \in Threads : a[u] => new[u]
               /\ \A u \in Threads : new[u] => a[u] \/ u \in Listed(q)
               /\ q # <<>> => \E u \in Threads : new[u]
<1>1. CASE q # <<>>
  <2>1. PassOn(q, a) = SignalMonitor(q, a)
    BY <1>1 DEF PassOn
  <2> QED BY <2>1, SignalFacts
<1>2. CASE q = <<>>
  <2>1. PassOn(q, a) = a
    BY <1>2 DEF PassOn
  <2> QED BY <1>2, <2>1
<1> QED BY <1>1, <1>2

-----------------------------------------------------------------------------
(* CreateSyncVar.                                                          *)
LEMMA InitIInv == Init => IInv
<1> SUFFICES ASSUME Init PROVE IInv
  OBVIOUS
<1> USE DEF Init
<1>1. IsWaitList(<<>>, Threads) /\ Listed(<<>>) = {}
  <2>1. <<>> \in Seq(Threads) /\ Len(<<>>) = 0
    OBVIOUS
  <2>2. IsWaitList(<<>>, Threads)
    BY <2>1 DEF IsWaitList
  <2> QED BY <2>2, EmptyListFacts
<1>2. TypeOK
  BY <1>1 DEF TypeOK
<1>3. HasResults /\ StoresAgree /\ OwnerStores /\ ArgIsValue /\ FetchersFindIt
  BY DEF HasResults, StoresAgree, OwnerStores, ArgIsValue, FetchersFindIt
<1>4. SignalOK /\ ReaderInFlight
  BY <1>1 DEF SignalOK, ReaderInFlight, Blocked
<1>5. UnlockedReadsAgree
  <2>1. \A t \in Threads : result[t] = <<"none">>
    OBVIOUS
  <2>2. <<"none">>[1] = "none" /\ <<"bound", TRUE>>[1] = "bound"
    OBVIOUS
  <2> QED BY <2>1, <2>2 DEF UnlockedReadsAgree
<1> QED BY <1>2, <1>3, <1>4, <1>5 DEF IInv

(* What the calls of a step change, by the parts of the invariant.         *)
LEMMA SameResults ==
    ASSUME IInv, result' = result, value # NoValue => value' = value, written => written'
    PROVE  UnlockedReadsAgree' /\ HasResults'
BY DEF IInv, UnlockedReadsAgree, HasResults

(* One call returns.                                                       *)
LEMMA NewResult ==
    ASSUME IInv, NEW t \in Threads, NEW r, result' = [result EXCEPT ![t] = r],
           value # NoValue => value' = value, written => written',
           r[1] = "read" => value' # NoValue /\ r[2] = value',
           r = <<"bound", TRUE>> => written'
    PROVE  UnlockedReadsAgree' /\ HasResults'
<1>1. result = [u \in Threads |-> result[u]]
  BY DEF IInv, HasResults
<1>2. /\ result'[t] = r /\ (\A u \in Threads : u # t => result'[u] = result[u])
      /\ result' = [u \in Threads |-> result'[u]]
  BY <1>1
<1> QED BY <1>2 DEF IInv, UnlockedReadsAgree, HasResults

LEMMA SameFetchers ==
    ASSUME IInv, value # NoValue => value' = value,
           \A t \in Threads : pc'[t] = "fetching" => pc[t] = "fetching" \/ value' # NoValue
    PROVE  FetchersFindIt'
BY DEF IInv, FetchersFindIt

LEMMA SyncWriteIInv ==
    ASSUME IInv, NEW t \in Threads, NEW v \in Values, SyncWrite(t, v)
    PROVE  IInv'
<1> USE DEF SyncWrite, Begin
<1>0. /\ pc \in [Threads -> {"ready", "storing", "blocked", "fetching"}]
      /\ arg \in [Threads -> Values \cup {NoValue}] /\ calls \in [Threads -> Nat]
      /\ value = NoValue /\ NoValue \notin Values /\ Nobody \notin Threads
  BY ValuesAssumption, NobodyAssumption DEF IInv, TypeOK, StoresAgree
<1>1. TypeOK'
  BY <1>0 DEF IInv, TypeOK
<1>2. Blocked' = Blocked
  BY <1>0 DEF Blocked
<1>3. \A u \in Threads : u # t => pc[u] # "storing"
  BY <1>0 DEF IInv, StoresAgree
<1>4. StoresAgree' /\ OwnerStores' /\ ArgIsValue'
  BY <1>0, <1>3 DEF StoresAgree, OwnerStores, ArgIsValue
<1>5. FetchersFindIt'
  BY <1>0, SameFetchers
<1>6. SignalOK' /\ ReaderInFlight'
  BY <1>0, <1>2 DEF IInv, SignalOK, ReaderInFlight
<1>7. UnlockedReadsAgree' /\ HasResults'
  BY <1>0, SameResults
<1> QED BY <1>1, <1>4, <1>5, <1>6, <1>7 DEF IInv

LEMMA SyncStoreIInv ==
    ASSUME IInv, NEW t \in Threads, SyncStore(t)
    PROVE  IInv'
<1> USE DEF SyncStore
<1>0. /\ pc \in [Threads -> {"ready", "storing", "blocked", "fetching"}]
      /\ arg \in [Threads -> Values \cup {NoValue}] /\ arg[t] \in Values
      /\ value = NoValue /\ written /\ owner = t /\ NoValue \notin Values
      /\ acquired \in [Threads -> BOOLEAN] /\ IsWaitList(queue, Threads)
  BY ValuesAssumption DEF IInv, TypeOK, StoresAgree, ArgIsValue
<1>1. /\ acquired' \in [Threads -> BOOLEAN]
      /\ \A u \in Threads : acquired'[u] => acquired[u] \/ u \in Listed(queue)
      /\ queue # <<>> => \E u \in Threads : acquired'[u]
  BY <1>0, SignalFacts
<1>2. TypeOK'
  BY <1>0, <1>1 DEF IInv, TypeOK
<1>3. Blocked' = Blocked
  BY <1>0 DEF Blocked
<1>4. \A u \in Threads : pc'[u] # "storing"
  BY <1>0 DEF IInv, StoresAgree
<1>5. StoresAgree' /\ OwnerStores' /\ ArgIsValue' /\ FetchersFindIt'
  BY <1>0, <1>4 DEF StoresAgree, OwnerStores, ArgIsValue, FetchersFindIt
<1>6. SignalOK' /\ ReaderInFlight'
  BY <1>0, <1>1, <1>3 DEF IInv, SignalOK, ReaderInFlight
<1>7. UnlockedReadsAgree' /\ HasResults'
  <2> DEFINE r == <<"written", arg[t]>>
  <2>1. r[1] # "read" /\ r # <<"bound", TRUE>>
    OBVIOUS
  <2>2. result' = [result EXCEPT ![t] = r]
    OBVIOUS
  <2> HIDE DEF r
  <2> QED BY <1>0, <2>1, <2>2, NewResult
<1> QED BY <1>2, <1>5, <1>6, <1>7 DEF IInv

LEMMA SyncWriteRefusedIInv ==
    ASSUME IInv, NEW t \in Threads, SyncWriteRefused(t)
    PROVE  IInv'
<1> USE DEF SyncWriteRefused, Begin
<1>1. TypeOK'
  BY DEF IInv, TypeOK
<1>2. StoresAgree' /\ OwnerStores' /\ ArgIsValue' /\ FetchersFindIt' /\ SignalOK' /\ ReaderInFlight'
  BY DEF IInv, StoresAgree, OwnerStores, ArgIsValue, FetchersFindIt, SignalOK, ReaderInFlight, Blocked
<1>3. UnlockedReadsAgree' /\ HasResults'
  <2>1. <<"refused">>[1] # "read" /\ <<"refused">> # <<"bound", TRUE>>
    OBVIOUS
  <2> QED BY <2>1, NewResult
<1> QED BY <1>1, <1>2, <1>3 DEF IInv

LEMMA SyncReadBlockIInv ==
    ASSUME IInv, NEW t \in Threads, SyncReadBlock(t)
    PROVE  IInv'
<1> USE DEF SyncReadBlock, Begin
<1>0. /\ pc \in [Threads -> {"ready", "storing", "blocked", "fetching"}]
      /\ IsWaitList(queue, Threads) /\ t \notin Listed(queue)
  BY DEF IInv, TypeOK, SignalOK, Blocked
<1>1. IsWaitList(queue', Threads) /\ Listed(queue') = Listed(queue) \cup {t}
  BY <1>0, AddWaitListFacts
<1>2. TypeOK'
  BY <1>0, <1>1 DEF IInv, TypeOK
<1>3. Blocked' = Blocked \cup {t}
  BY <1>0 DEF Blocked
<1>4. \A u \in Threads : pc'[u] = pc[u] \/ (u = t /\ pc'[u] = "blocked")
  BY <1>0
<1>5. StoresAgree' /\ OwnerStores' /\ ArgIsValue' /\ FetchersFindIt'
  BY <1>4 DEF IInv, StoresAgree, OwnerStores, ArgIsValue, FetchersFindIt
<1>6. SignalOK' /\ ReaderInFlight'
  BY <1>1, <1>3 DEF IInv, SignalOK, ReaderInFlight
<1>7. UnlockedReadsAgree' /\ HasResults'
  BY SameResults
<1> QED BY <1>2, <1>5, <1>6, <1>7 DEF IInv

LEMMA SyncReadAtOnceIInv ==
    ASSUME IInv, NEW t \in Threads, SyncReadAtOnce(t)
    PROVE  IInv'
<1> USE DEF SyncReadAtOnce, Begin
<1>0. /\ pc \in [Threads -> {"ready", "storing", "blocked", "fetching"}]
      /\ acquired \in [Threads -> BOOLEAN] /\ IsWaitList(queue, Threads)
  BY DEF IInv, TypeOK
<1>1. /\ acquired' \in [Threads -> BOOLEAN]
      /\ \A u \in Threads : acquired'[u] => acquired[u] \/ u \in Listed(queue)
      /\ queue # <<>> => \E u \in Threads : acquired'[u]
  BY <1>0, PassOnFacts
<1>2. TypeOK'
  BY <1>0, <1>1 DEF IInv, TypeOK
<1>3. Blocked' = Blocked
  BY <1>0 DEF Blocked
<1>4. \A u \in Threads : pc'[u] = pc[u] \/ (u = t /\ pc'[u] = "fetching")
  BY <1>0
<1>5. StoresAgree' /\ OwnerStores' /\ ArgIsValue'
  BY <1>4 DEF IInv, StoresAgree, OwnerStores, ArgIsValue
<1>6. FetchersFindIt'
  BY <1>4, ValueMeansWritten DEF IInv, FetchersFindIt
<1>7. SignalOK' /\ ReaderInFlight'
  BY <1>1, <1>3 DEF IInv, SignalOK, ReaderInFlight
<1>8. UnlockedReadsAgree' /\ HasResults'
  BY SameResults
<1> QED BY <1>2, <1>5, <1>6, <1>7, <1>8 DEF IInv

LEMMA SyncReadResumeIInv ==
    ASSUME IInv, NEW t \in Threads, SyncReadResume(t)
    PROVE  IInv'
<1> USE DEF SyncReadResume
<1>0. /\ pc \in [Threads -> {"ready", "storing", "blocked", "fetching"}]
      /\ acquired \in [Threads -> BOOLEAN] /\ IsWaitList(queue, Threads)
      /\ t \in Blocked /\ t \in Listed(queue)
  BY DEF IInv, TypeOK, SignalOK, Blocked
<1> DEFINE rest == RemoveWaitList(queue, t)
           left == [acquired EXCEPT ![t] = FALSE]
<1>1. /\ IsWaitList(rest, Threads) /\ Listed(rest) = Listed(queue) \ {t}
      /\ left \in [Threads -> BOOLEAN] /\ ~ left[t]
      /\ \A u \in Threads : u # t => left[u] = acquired[u]
      /\ queue' = rest /\ acquired' = PassOn(rest, left)
  BY <1>0, RemoveWaitListFacts
<1> HIDE DEF rest, left
<1>2. /\ acquired' \in [Threads -> BOOLEAN]
      /\ \A u \in Threads : acquired'[u] => left[u] \/ u \in Listed(rest)
      /\ rest # <<>> => \E u \in Threads : acquired'[u]
  <2> DEFINE new == PassOn(rest, left)
  <2>1. /\ new \in [Threads -> BOOLEAN]
        /\ \A u \in Threads : new[u] => left[u] \/ u \in Listed(rest)
        /\ rest # <<>> => \E u \in Threads : new[u]
    BY ONLY <1>1, PassOnFacts
  <2>2. acquired' = new
    BY <1>1
  <2> HIDE DEF new
  <2> QED BY <2>1, <2>2
<1>3. TypeOK'
  BY <1>0, <1>1, <1>2 DEF IInv, TypeOK
<1>4. Blocked' = Blocked \ {t}
  BY <1>0 DEF Blocked
<1>5. \A u \in Threads : pc'[u] = pc[u] \/ (u = t /\ pc'[u] = "fetching")
  BY <1>0
<1>6. StoresAgree' /\ OwnerStores' /\ ArgIsValue'
  BY <1>5 DEF IInv, StoresAgree, OwnerStores, ArgIsValue
<1>7. FetchersFindIt'
  BY <1>5, ValueMeansWritten DEF IInv, FetchersFindIt
<1>8. SignalOK' /\ ReaderInFlight'
  BY <1>1, <1>2, <1>4 DEF IInv, SignalOK, ReaderInFlight
<1>9. UnlockedReadsAgree' /\ HasResults'
  BY SameResults
<1> QED BY <1>3, <1>6, <1>7, <1>8, <1>9 DEF IInv

LEMMA SyncReadFetchIInv ==
    ASSUME IInv, NEW t \in Threads, SyncReadFetch(t)
    PROVE  IInv'
<1> USE DEF SyncReadFetch
<1>0. pc \in [Threads -> {"ready", "storing", "blocked", "fetching"}] /\ value # NoValue
  BY DEF IInv, TypeOK, FetchersFindIt
<1>1. TypeOK'
  BY <1>0 DEF IInv, TypeOK
<1>2. Blocked' = Blocked
  BY <1>0 DEF Blocked
<1>3. \A u \in Threads : pc'[u] = pc[u] \/ (u = t /\ pc[u] = "fetching" /\ pc'[u] = "ready")
  BY <1>0
<1>4. StoresAgree' /\ OwnerStores' /\ ArgIsValue' /\ FetchersFindIt'
  BY <1>3 DEF IInv, StoresAgree, OwnerStores, ArgIsValue, FetchersFindIt
<1>5. SignalOK' /\ ReaderInFlight'
  BY <1>2 DEF IInv, SignalOK, ReaderInFlight
<1>6. UnlockedReadsAgree' /\ HasResults'
  <2> DEFINE r == <<"read", value>>
  <2>1. r[2] = value /\ r # <<"bound", TRUE>>
    OBVIOUS
  <2>2. result' = [result EXCEPT ![t] = r]
    OBVIOUS
  <2> HIDE DEF r
  <2> QED BY <1>0, <2>1, <2>2, NewResult
<1> QED BY <1>1, <1>4, <1>5, <1>6 DEF IInv

(* Whatever SyncIsBound sees of a value, the variable has been marked.     *)
LEMMA SyncIsBoundIInv ==
    ASSUME IInv, NEW t \in Threads, SyncIsBound(t)
    PROVE  IInv'
<1> USE DEF SyncIsBound, Begin
<1>1. TypeOK'
  BY DEF IInv, TypeOK
<1>2. StoresAgree' /\ OwnerStores' /\ ArgIsValue' /\ FetchersFindIt' /\ SignalOK' /\ ReaderInFlight'
  BY DEF IInv, StoresAgree, OwnerStores, ArgIsValue, FetchersFindIt, SignalOK, ReaderInFlight, Blocked
<1>3. UnlockedReadsAgree' /\ HasResults'
  <2>1. PICK seen \in {value} \cup {arg[u] : u \in {w \in Threads : pc[w] = "storing"}} :
           result' = [result EXCEPT ![t] = <<"bound", seen # NoValue>>]
    OBVIOUS
  <2>2. seen # NoValue => written
    BY <2>1, ValueMeansWritten DEF IInv, StoresAgree
  <2> DEFINE r == <<"bound", seen # NoValue>>
  <2>3. r[1] # "read"
    OBVIOUS
  <2>4. r = <<"bound", TRUE>> => seen # NoValue
    <3>1. r[2] = (seen # NoValue) /\ <<"bound", TRUE>>[2] = TRUE
      OBVIOUS
    <3> QED BY <3>1
  <2>5. result' = [result EXCEPT ![t] = r]
    BY <2>1
  <2> HIDE DEF r
  <2> QED BY <2>2, <2>3, <2>4, <2>5, NewResult
<1> QED BY <1>1, <1>2, <1>3 DEF IInv

LEMMA NextIInv == IInv /\ [Next]_vars => IInv'
<1> SUFFICES ASSUME IInv, [Next]_vars PROVE IInv'
  OBVIOUS
<1>1. CASE UNCHANGED vars
  BY <1>1 DEF vars, IInv, TypeOK, HasResults, StoresAgree, OwnerStores, ArgIsValue,
              FetchersFindIt, SignalOK, ReaderInFlight, UnlockedReadsAgree, Blocked
<1>2. CASE Next
  BY <1>2, SyncWriteIInv, SyncStoreIInv, SyncWriteRefusedIInv, SyncReadBlockIInv,
     SyncReadAtOnceIInv, SyncReadResumeIInv, SyncReadFetchIInv, SyncIsBoundIInv DEF Next, Step
<1> QED BY <1>1, <1>2

LEMMA Invariance == Spec => []IInv
BY InitIInv, NextIInv, PTL DEF Spec

-----------------------------------------------------------------------------
(* The wait list of a variable (threadapi.c, SyncRead) is the set of its   *)
(* blocked readers, and only a written variable signals: a reader never    *)
(* goes round its loop a second time.                                      *)
THEOREM SyncSignalOK == Spec => []SignalOK
<1>1. IInv => SignalOK
  BY DEF IInv
<1> QED BY <1>1, Invariance, PTL

(* SyncRead fetches the value, and SyncIsBound looks at it, without the    *)
(* lock: both are right, for any number of writers and readers.            *)
THEOREM SyncReadsAgree == Spec => []UnlockedReadsAgree
<1>1. IInv => UnlockedReadsAgree
  BY DEF IInv
<1> QED BY <1>1, Invariance, PTL

(* While readers wait for a variable that has been written, one of them is *)
(* on its way: the chain of single signals does not break.                 *)
THEOREM SyncReaderInFlight == Spec => []ReaderInFlight
<1>1. IInv => ReaderInFlight
  BY DEF IInv
<1> QED BY <1>1, Invariance, PTL

(* A value that SyncWrite or SyncTryWrite has stored stays.                *)
THEOREM SyncWrittenOnce == Spec => WrittenOnce
<1>1. IInv /\ [Next]_vars => [value # NoValue => value' = value]_vars
  <2> SUFFICES ASSUME IInv, Next, value # NoValue PROVE value' = value
    BY Zenon
  <2>1. PICK t \in Threads :
           \/ \E v \in Values : SyncWrite(t, v)
           \/ SyncWriteRefused(t) \/ SyncReadBlock(t) \/ SyncReadAtOnce(t)
           \/ SyncIsBound(t) \/ Step(t)
    BY DEF Next
  <2>2. ~ SyncStore(t)
    BY DEF SyncStore, IInv, StoresAgree
  <2> QED BY <2>1, <2>2 DEF SyncWrite, SyncWriteRefused, SyncReadBlock, SyncReadAtOnce,
                            SyncIsBound, Step, SyncReadResume, SyncReadFetch
<1> QED BY <1>1, Invariance, PTL DEF Spec, WrittenOnce
=============================================================================
