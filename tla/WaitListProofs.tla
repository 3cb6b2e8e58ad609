-------------------------- MODULE WaitListProofs --------------------------
(***************************************************************************)
(* What the wait-list routines guarantee, for every list and every set of  *)
(* threads.  The invariance proofs of the synchronisation objects cite     *)
(* these facts instead of expanding the routines.                          *)
(***************************************************************************)
EXTENDS WaitLists, SequenceTheorems, WellFoundedInduction, TLAPS

(* AddWaitList keeps the list well formed and adds exactly the thread.     *)
LEMMA AddWaitListFacts ==
    ASSUME NEW Threads, NEW queue, IsWaitList(queue, Threads),
           NEW t \in Threads, t \notin Listed(queue)
    PROVE  /\ IsWaitList(AddWaitList(queue, t), Threads)
           /\ Listed(AddWaitList(queue, t)) = Listed(queue) \cup {t}
<1> DEFINE new == Append(queue, t)
<1>1. queue \in Seq(Threads) /\ Len(queue) \in Nat /\ DOMAIN queue = 1 .. Len(queue)
  BY LenProperties DEF IsWaitList
<1>2. /\ new \in Seq(Threads)
      /\ Len(new) = Len(queue) + 1
      /\ DOMAIN new = 1 .. Len(queue) + 1
      /\ \A i \in 1 .. Len(queue) : new[i] = queue[i]
      /\ new[Len(queue) + 1] = t
  BY <1>1
<1>3. \A i \in 1 .. Len(queue) : queue[i] \in Listed(queue)
  BY <1>1 DEF Listed, Range
<1>4. \A i, j \in 1 .. Len(new) : new[i] = new[j] => i = j
  BY <1>1, <1>2, <1>3 DEF IsWaitList
<1>5. Range(new) = Range(queue) \cup {t}
  BY <1>1, <1>2 DEF Range
<1> QED
  BY <1>2, <1>4, <1>5 DEF IsWaitList, Listed, AddWaitList

(* RemoveWaitList keeps the list well formed and removes exactly the       *)
(* thread.                                                                 *)
LEMMA RemoveWaitListFacts ==
    ASSUME NEW Threads, NEW queue, IsWaitList(queue, Threads),
           NEW t \in Listed(queue)
    PROVE  /\ IsWaitList(RemoveWaitList(queue, t), Threads)
           /\ Listed(RemoveWaitList(queue, t)) = Listed(queue) \ {t}
<1> DEFINE k    == NodeOf(queue, t)
           n    == Len(queue)
           pre  == SubSeq(queue, 1, k - 1)
           post == SubSeq(queue, k + 1, n)
           new  == pre \o post
<1>1. queue \in Seq(Threads) /\ n \in Nat /\ DOMAIN queue = 1 .. n
  BY LenProperties DEF IsWaitList
<1>2. k \in 1 .. n /\ queue[k] = t
  BY <1>1 DEF Listed, Range, NodeOf
<1>3. \A i \in 1 .. n : queue[i] \in Threads
  BY <1>1, ElementOfSeq
<1> HIDE DEF k
<1>4. /\ pre \in Seq(Threads)
      /\ Len(pre) = k - 1
      /\ \A i \in 1 .. k - 1 : pre[i] = queue[i]
  <2>1. \A i \in 1 .. k - 1 : queue[i] \in Threads
    BY <1>1, <1>2, <1>3
  <2> QED BY <1>1, <1>2, <2>1, SubSeqProperties
<1>5. /\ post \in Seq(Threads)
      /\ Len(post) = n - k
      /\ \A i \in 1 .. n - k : post[i] = queue[k + i]
  <2>1. \A i \in k + 1 .. n : queue[i] \in Threads
    BY <1>1, <1>2, <1>3
  <2>2. k + 1 \in Int /\ n \in Int
    BY <1>1, <1>2
  <2>3. /\ post \in Seq(Threads)
        /\ Len(post) = IF k + 1 <= n THEN n - (k + 1) + 1 ELSE 0
        /\ \A i \in 1 .. n - (k + 1) + 1 : post[i] = queue[(k + 1) + i - 1]
    BY <2>1, <2>2, SubSeqProperties
  <2> HIDE DEF post, n
  <2>4. Len(post) = n - k
    BY <1>1, <1>2, <2>3
  <2>5. \A i \in 1 .. n - k : post[i] = queue[k + i]
    BY <1>1, <1>2, <2>3
  <2> QED BY <2>3, <2>4, <2>5
<1> HIDE DEF pre, post, n
<1>6. /\ new \in Seq(Threads)
      /\ Len(new) = n - 1
      /\ \A i \in 1 .. n - 1 : new[i] = IF i < k THEN queue[i] ELSE queue[i + 1]
  <2>1. /\ new \in Seq(Threads)
        /\ Len(new) = Len(pre) + Len(post)
        /\ \A i \in 1 .. Len(pre) + Len(post) :
              new[i] = IF i <= Len(pre) THEN pre[i] ELSE post[i - Len(pre)]
    BY <1>4, <1>5, ConcatProperties
  <2>2. \A i \in 1 .. n - 1 : i < k => new[i] = queue[i]
    BY <1>1, <1>2, <1>4, <1>5, <2>1
  <2>3. \A i \in 1 .. n - 1 : ~ (i < k) => new[i] = queue[i + 1]
    BY <1>1, <1>2, <1>4, <1>5, <2>1
  <2> QED BY <1>1, <1>2, <1>4, <1>5, <2>1, <2>2, <2>3
<1> HIDE DEF new
<1>7. \A i, j \in 1 .. n : queue[i] = queue[j] => i = j
  BY DEF IsWaitList, n
<1>8. IsWaitList(new, Threads)
  BY <1>1, <1>2, <1>6, <1>7 DEF IsWaitList
<1>9. DOMAIN new = 1 .. n - 1
  BY <1>6, LenProperties
<1>10. Range(new) \subseteq Range(queue) \ {t}
  BY <1>1, <1>2, <1>6, <1>7, <1>9, SMTT(20) DEF Range
<1>11. Range(queue) \ {t} \subseteq Range(new)
  <2> SUFFICES ASSUME NEW u \in Range(queue), u # t
               PROVE  u \in Range(new)
    OBVIOUS
  <2>1. PICK i \in 1 .. n : queue[i] = u
    BY <1>1 DEF Range
  <2>2. CASE i < k
    BY <1>1, <1>2, <1>6, <1>9, <2>1, <2>2 DEF Range
  <2>3. CASE k < i
    <3>1. i - 1 \in 1 .. n - 1 /\ new[i - 1] = queue[i]
      BY <1>1, <1>2, <1>6, <2>1, <2>3
    <3> QED BY <1>9, <2>1, <3>1 DEF Range
  <2>4. i # k
    BY <1>2, <2>1
  <2> QED BY <1>1, <1>2, <2>1, <2>2, <2>3, <2>4
<1> QED
  BY <1>8, <1>10, <1>11 DEF RemoveWaitList, RemoveAt, Listed, new, pre, post, k, n

(* SignalMonitor wakes one listed thread that was not yet signalled, or,   *)
(* when all listed threads are signalled already, does nothing.            *)
LEMMA SignalMonitorFacts ==
    ASSUME NEW Threads, NEW queue, IsWaitList(queue, Threads),
           NEW acquired \in [Threads -> BOOLEAN]
    PROVE  \/ /\ \A u \in Listed(queue) : acquired[u]
              /\ SignalMonitor(queue, acquired) = acquired
           \/ \E u \in Listed(queue) :
                 /\ u \in Threads /\ ~ acquired[u]
                 /\ SignalMonitor(queue, acquired) = [acquired EXCEPT ![u] = TRUE]
<1> DEFINE idle  == Unsignalled(queue, acquired)
           first == CHOOSE i \in idle : \A j \in idle : i <= j
<1>1. queue \in Seq(Threads) /\ Len(queue) \in Nat /\ DOMAIN queue = 1 .. Len(queue)
  BY LenProperties DEF IsWaitList
<1>2. \A i \in 1 .. Len(queue) : queue[i] \in Threads /\ queue[i] \in Listed(queue)
  BY <1>1, ElementOfSeq DEF Listed, Range
<1>3. CASE idle = {}
  <2>1. SignalMonitor(queue, acquired) = acquired
    BY <1>3 DEF SignalMonitor
  <2>2. \A u \in Listed(queue) : acquired[u]
    BY <1>1, <1>2, <1>3 DEF Unsignalled, Listed, Range
  <2> QED BY <2>1, <2>2
<1>4. CASE idle # {}
  <2>1. first \in idle
    <3>1. idle \subseteq Nat
      BY <1>1 DEF Unsignalled
    <3>2. \E i \in idle : \A j \in idle : i <= j
      <4> HIDE DEF idle
      <4>1. PICK i \in idle : \A j \in idle : ~ (<<j, i>> \in OpToRel(<, Nat))
        BY <1>4, <3>1, NatLessThanWellFounded, WFMin
      <4>2. \A a, b \in Nat : a < b => <<a, b>> \in OpToRel(<, Nat)
        BY DEF OpToRel
      <4>3. \A j \in idle : ~ (j < i)
        BY <3>1, <4>1, <4>2, Zenon
      <4> QED BY <3>1, <4>3
    <3> QED BY <3>2
  <2>2. SignalMonitor(queue, acquired) = [acquired EXCEPT ![queue[first]] = TRUE]
    BY <1>4 DEF SignalMonitor
  <2>3. first \in 1 .. Len(queue) /\ ~ acquired[queue[first]]
    BY <2>1 DEF Unsignalled
  <2> HIDE DEF first
  <2> QED BY <1>2, <2>2, <2>3
<1> QED BY <1>3, <1>4

(* A wait list is empty exactly when nobody is listed in it.               *)
LEMMA EmptyListFacts ==
    ASSUME NEW Threads, NEW q, IsWaitList(q, Threads)
    PROVE  /\ q # <<>> <=> Listed(q) # {}
           /\ Listed(q) \subseteq Threads
<1>1. q \in Seq(Threads) /\ Len(q) \in Nat /\ DOMAIN q = 1 .. Len(q)
  BY LenProperties DEF IsWaitList
<1>2. \A i \in 1 .. Len(q) : q[i] \in Threads
  BY <1>1, ElementOfSeq
<1>3. q # <<>> => Len(q) >= 1
  BY <1>1, EmptySeq
<1>4. q = <<>> => Len(q) = 0
  BY <1>1
<1> QED BY <1>1, <1>2, <1>3, <1>4 DEF Listed, Range
=============================================================================
