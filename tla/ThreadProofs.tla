---------------------------- MODULE ThreadProofs ----------------------------
(***************************************************************************)
(* Proofs about two parts of thread.c that do not touch each other: the    *)
(* locks of regions, and the control of one thread by others.              *)
(*                                                                         *)
(* Proofs about RegionLocks, for every set of threads, objects, regions    *)
(* and precedences and all argument lists.  The inductive invariant says   *)
(* where each lock on a thread's stack comes from: the entries below the   *)
(* stack pointer saved at the beginning of a call are from earlier calls,  *)
(* those above it are from the requests already dealt with, which are      *)
(* sorted.  So the precedences on a stack descend, and the region a thread *)
(* waits for comes after all those it has.                                 *)
(*                                                                         *)
(* Proofs about ThreadControl, for any number of controlling threads.  The *)
(* inductive invariant follows a request from the swap of the state to the *)
(* place where the thread notices it, and says what a control function has *)
(* seen of the state it is about to replace.                               *)
(***************************************************************************)
EXTENDS RegionLocks, ThreadControl, WellFoundedInduction, SequenceTheorems, TLAPS

-----------------------------------------------------------------------------
(* Locks of regions.                                                       *)

Modes == {"ro", "rw"}
Arg == [obj : Objects, mode : Modes]
LockRequest == [obj : Objects, region : Regions \cup Threads, mode : Modes]
CallType ==
    [fn : {"none", "lock", "try"}, args : Seq(Arg), order : Seq(LockRequest),
     i : Nat \ {0}, sp : Nat]

TypeInv ==
    /\ owner \in [Regions -> Threads \cup {Nobody}]
    /\ readers \in [Regions -> SUBSET Threads]
    /\ lockStack \in [Threads -> Seq(Regions)]
    /\ regionOf \in [Objects -> Regions \cup Threads]
    /\ created \in SUBSET Regions
    /\ pc \in [Threads -> Labels]
    /\ call \in [Threads -> CallType]
    /\ tried \in BOOLEAN

(* A writer is alone.                                                      *)
Exclusive == \A r \in Regions : owner[r] # Nobody => readers[r] = {}

(* The stack lists what is held, each region once.                         *)
Has(t, r) == owner[r] = t \/ t \in readers[r]
StackInv ==
    \A t \in Threads :
        /\ \A k \in 1 .. Len(lockStack[t]) : Has(t, lockStack[t][k])
        /\ \A r \in Regions : Has(t, r) => \E k \in 1 .. Len(lockStack[t]) : lockStack[t][k] = r
        /\ \A j, k \in 1 .. Len(lockStack[t]) : lockStack[t][j] = lockStack[t][k] => j = k

(* The calls.                                                              *)
Reading(t) ==
    pc[t] = "read" => /\ call[t].fn # "none" /\ call[t].args # <<>>
                      /\ call[t].i = 1 /\ call[t].sp = Len(lockStack[t])
Locking(t) ==
    pc[t] = "lock" =>
        /\ call[t].fn # "none"
        /\ call[t].sp <= Len(lockStack[t])
        /\ call[t].i <= Len(call[t].order) + 1
        /\ IsSorted(call[t].order)
        /\ \A k \in call[t].sp + 1 .. Len(lockStack[t]) :
              \E j \in 1 .. call[t].i - 1 : lockStack[t][k] = call[t].order[j].region
CallInv == \A t \in Threads : Reading(t) /\ Locking(t)

(* Precedences descend along a stack.                                      *)
Descends(s) ==
    \A j, k \in 1 .. Len(s) : j < k /\ Prec[s[j]] >= 0 /\ Prec[s[k]] >= 0 => Prec[s[j]] >= Prec[s[k]]
OrderInv == tried \/ \A t \in Threads : call[t].fn # "try" /\ Descends(lockStack[t])

(* Regions that do not exist yet are neither locked nor looked up.         *)
CreatedInv ==
    /\ \A r \in Regions : r \notin created => owner[r] = Nobody /\ readers[r] = {}
    /\ \A o \in Objects : regionOf[o] \in created \cup Threads
    /\ \A t \in Threads : \A k \in 1 .. Len(call[t].order) : call[t].order[k].region \in created \cup Threads

(* The requests a call has dealt with are covered.                         *)
Covered(t, k) ==
    LET a == call[t].order[k]
    IN  \/ k > 1 /\ a.region = call[t].order[k - 1].region
        \/ regionOf[a.obj] = a.region /\ IsLocked(t, a.region) \in {"rw", a.mode}
CoverInv ==
    \A t \in Threads : pc[t] = "lock" /\ ~ FastPath(t) =>
        \A k \in 1 .. call[t].i - 1 : Covered(t, k)

IInv == TypeInv /\ Exclusive /\ StackInv /\ CallInv /\ OrderInv /\ CreatedInv /\ CoverInv

-----------------------------------------------------------------------------
(* IsLocked by the owner and the readers of a region.                      *)
LEMMA LockedFacts ==
    ASSUME NEW t \in Threads, NEW r \in Regions
    PROVE  /\ IsLocked(t, r) = "rw" <=> owner[r] = t
           /\ IsLocked(t, r) # "no" <=> Has(t, r)
           /\ IsLocked(t, r) = "ro" <=> owner[r] # t /\ t \in readers[r]
BY RegionsAssumption DEF IsLocked, Has

(* A thread's own region is its own.                                       *)
LEMMA OwnRegionFacts ==
    ASSUME NEW t \in Threads, NEW u \in Threads
    PROVE  IsLocked(t, u) = IF u = t THEN "rw" ELSE "no"
BY DEF IsLocked

(* The request a call is at.                                               *)
LEMMA CurrentFacts ==
    ASSUME TypeInv, NEW t \in Threads, InLoop(t)
    PROVE  /\ call[t].i \in 1 .. Len(call[t].order)
           /\ Current(t) \in LockRequest
           /\ Current(t) = call[t].order[call[t].i]
           /\ Open(t) /\ Status(t) = "no" => Current(t).region \in Regions
<1>1. call[t] \in CallType
  BY DEF TypeInv
<1>2. call[t].i \in 1 .. Len(call[t].order)
  BY <1>1 DEF CallType, InLoop
<1>3. call[t].order \in Seq(LockRequest)
  BY <1>1 DEF CallType
<1>4. Current(t) \in LockRequest
  BY <1>2, <1>3, ElementOfSeq DEF Current
<1>5. Open(t) /\ Status(t) = "no" => Current(t).region \in Regions
  BY <1>4 DEF Open, Refused, LockRequest
<1> QED BY <1>2, <1>4, <1>5 DEF Current

(* Sorting keeps the requests.                                             *)
LEMMA RearrangedFacts ==
    ASSUME NEW S, NEW s \in Seq(S), NEW q \in Rearranged(s)
    PROVE  /\ q \in Seq(S) /\ Len(q) = Len(s)
           /\ \A k \in 1 .. Len(q) : \E j \in 1 .. Len(s) : q[k] = s[j]
<1>1. Len(s) \in Nat /\ \A k \in 1 .. Len(s) : s[k] \in S
  BY LenProperties, ElementOfSeq
<1>2. PICK p \in [1 .. Len(s) -> 1 .. Len(s)] : q = [k \in 1 .. Len(s) |-> s[p[k]]]
  BY DEF Rearranged
<1>3. \A k \in 1 .. Len(s) : q[k] = s[p[k]] /\ p[k] \in 1 .. Len(s)
  BY <1>2
<1>4. q \in [1 .. Len(s) -> S]
  BY <1>1, <1>2, <1>3
<1>5. q \in Seq(S) /\ Len(q) = Len(s)
  BY <1>1, <1>4
<1> QED BY <1>1, <1>3, <1>5

-----------------------------------------------------------------------------
(* PopRegionLocks.                                                         *)
LEMMA PopFacts ==
    ASSUME TypeInv, StackInv, Exclusive,
           NEW t \in Threads, NEW sp \in Nat, sp <= Len(lockStack[t]), PopRegionLocks(t, sp)
    PROVE  /\ owner' \in [Regions -> Threads \cup {Nobody}]
           /\ readers' \in [Regions -> SUBSET Threads]
           /\ lockStack' \in [Threads -> Seq(Regions)]
           /\ Len(lockStack'[t]) = sp
           /\ \A k \in 1 .. sp : lockStack'[t][k] = lockStack[t][k]
           /\ \A u \in Threads : u # t => lockStack'[u] = lockStack[u]
           /\ \A u \in Threads, r \in Regions : u # t =>
                 /\ owner'[r] = u <=> owner[r] = u
                 /\ u \in readers'[r] <=> u \in readers[r]
           /\ \A r \in Regions : owner'[r] \in {owner[r], Nobody} /\ readers'[r] \subseteq readers[r]
           /\ StackInv' /\ Exclusive'
<1> DEFINE L == lockStack[t]
           popped == Entries(L, sp + 1)
<1>1. L \in Seq(Regions) /\ Len(L) \in Nat /\ \A k \in 1 .. Len(L) : L[k] \in Regions
  BY ElementOfSeq, LenProperties DEF TypeInv
<1>2. /\ owner' = [r \in Regions |-> IF r \in popped /\ owner[r] = t THEN Nobody ELSE owner[r]]
      /\ readers' = [r \in Regions |-> IF r \in popped THEN readers[r] \ {t} ELSE readers[r]]
      /\ lockStack' = [lockStack EXCEPT ![t] = SubSeq(L, 1, sp)]
  BY DEF PopRegionLocks
<1>3. SubSeq(L, 1, sp) \in Seq(Regions) /\ Len(SubSeq(L, 1, sp)) = sp
      /\ \A k \in 1 .. sp : SubSeq(L, 1, sp)[k] = L[k]
  BY <1>1, SubSeqProperties
<1>4. lockStack' \in [Threads -> Seq(Regions)] /\ lockStack'[t] = SubSeq(L, 1, sp)
      /\ \A u \in Threads : u # t => lockStack'[u] = lockStack[u]
  BY <1>2, <1>3 DEF TypeInv
<1>5. /\ owner' \in [Regions -> Threads \cup {Nobody}]
      /\ readers' \in [Regions -> SUBSET Threads]
      /\ \A r \in Regions : owner'[r] = IF r \in popped /\ owner[r] = t THEN Nobody ELSE owner[r]
      /\ \A r \in Regions : readers'[r] = IF r \in popped THEN readers[r] \ {t} ELSE readers[r]
  BY <1>2 DEF TypeInv
<1> HIDE DEF L, popped
<1>6. \A u \in Threads, r \in Regions : u # t =>
         (owner'[r] = u <=> owner[r] = u) /\ (u \in readers'[r] <=> u \in readers[r])
  BY <1>5, RegionsAssumption
<1>7. \A r \in Regions : owner'[r] \in {owner[r], Nobody} /\ readers'[r] \subseteq readers[r]
  BY <1>5
<1>8. Exclusive'
  BY <1>7 DEF Exclusive
<1>9. ASSUME NEW r \in Regions
      PROVE  Has(t, r)' <=> Has(t, r) /\ r \notin popped
  BY <1>5, RegionsAssumption DEF Has
<1>10. \A r \in Regions : r \in popped <=> \E k \in sp + 1 .. Len(L) : r = L[k]
  BY <1>1 DEF popped, Entries
<1>11. /\ \A k \in 1 .. Len(L) : Has(t, L[k])
       /\ \A r \in Regions : Has(t, r) => \E k \in 1 .. Len(L) : L[k] = r
       /\ \A j, k \in 1 .. Len(L) : L[j] = L[k] => j = k
  BY DEF StackInv, L
<1>12. sp <= Len(L)
  BY DEF L
<1>13. \A r \in Regions, k \in 1 .. sp : r = L[k] => Has(t, r)'
  <2> SUFFICES ASSUME NEW r \in Regions, NEW k \in 1 .. sp, r = L[k] PROVE Has(t, r)'
    OBVIOUS
  <2>1. k \in 1 .. Len(L)
    BY <1>1, <1>12
  <2>2. r \notin popped
    BY <2>1, <1>1, <1>10, <1>11, <1>12
  <2> QED BY <1>9, <1>11, <2>1, <2>2
<1>14. \A r \in Regions : Has(t, r)' => \E k \in 1 .. sp : L[k] = r
  <2> SUFFICES ASSUME NEW r \in Regions, Has(t, r)' PROVE \E k \in 1 .. sp : L[k] = r
    OBVIOUS
  <2>1. Has(t, r) /\ r \notin popped
    BY <1>9
  <2>2. PICK k \in 1 .. Len(L) : L[k] = r
    BY <2>1, <1>11
  <2>3. k \notin sp + 1 .. Len(L)
    BY <2>1, <2>2, <1>10
  <2> QED BY <1>1, <1>12, <2>2, <2>3
<1>15. StackInv'
  <2> SUFFICES ASSUME NEW u \in Threads
               PROVE  /\ \A k \in 1 .. Len(lockStack'[u]) : Has(u, lockStack[u][k])'
                      /\ \A r \in Regions : Has(u, r)' => \E k \in 1 .. Len(lockStack'[u]) : lockStack'[u][k] = r
                      /\ \A j, k \in 1 .. Len(lockStack'[u]) : lockStack'[u][j] = lockStack'[u][k] => j = k
    BY DEF StackInv
  <2>1. CASE u # t
    <3>1. \A r \in Regions : Has(u, r)' <=> Has(u, r)
      BY <2>1, <1>6 DEF Has
    <3>2. lockStack'[u] = lockStack[u]
      BY <2>1, <1>4
    <3>3. lockStack[u] \in Seq(Regions) /\ Len(lockStack[u]) \in Nat
          /\ \A k \in 1 .. Len(lockStack[u]) : lockStack[u][k] \in Regions
      BY ElementOfSeq, LenProperties DEF TypeInv
    <3>4. ASSUME NEW k \in 1 .. Len(lockStack[u]) PROVE Has(u, lockStack[u][k])'
      <4>1. \A r \in Regions : r = lockStack[u][k] => Has(u, r)'
        BY <3>1 DEF StackInv
      <4> QED BY <3>2, <3>3, <4>1 DEF Has
    <3> QED BY <3>1, <3>2, <3>4 DEF StackInv
  <2>2. CASE u = t
    <3>1. lockStack'[u] = SubSeq(L, 1, sp) /\ Len(lockStack'[u]) = sp
          /\ \A k \in 1 .. sp : lockStack'[u][k] = L[k]
      BY <2>2, <1>3, <1>4
    <3>2. \A k \in 1 .. sp : k \in 1 .. Len(L) /\ L[k] \in Regions
      BY <1>1, <1>12
    <3>3. ASSUME NEW k \in 1 .. sp PROVE Has(u, lockStack[u][k])'
      <4>1. \A r \in Regions : r = lockStack'[u][k] => Has(u, r)'
        BY <1>13, <2>2, <3>1
      <4> QED BY <3>1, <3>2, <4>1 DEF Has
    <3>4. \A r \in Regions : Has(u, r)' => \E k \in 1 .. sp : lockStack'[u][k] = r
      BY <1>14, <2>2, <3>1
    <3>5. \A j, k \in 1 .. sp : lockStack'[u][j] = lockStack'[u][k] => j = k
      BY <1>11, <3>1, <3>2
    <3> QED BY <3>1, <3>3, <3>4, <3>5
  <2> QED BY <2>1, <2>2
<1> QED BY <1>3, <1>4, <1>5, <1>6, <1>7, <1>8, <1>15 DEF L

(* A lock that is taken.                                                   *)
LEMMA TakeFacts ==
    ASSUME TypeInv, StackInv, Exclusive,
           NEW t \in Threads, NEW r \in Regions, NEW mode \in Modes,
           ~ Has(t, r), Free(r, mode), TakeLock(t, r, mode)
    PROVE  /\ owner' \in [Regions -> Threads \cup {Nobody}]
           /\ readers' \in [Regions -> SUBSET Threads]
           /\ lockStack' \in [Threads -> Seq(Regions)]
           /\ Len(lockStack'[t]) = Len(lockStack[t]) + 1
           /\ \A k \in 1 .. Len(lockStack[t]) : lockStack'[t][k] = lockStack[t][k]
           /\ lockStack'[t][Len(lockStack[t]) + 1] = r
           /\ \A u \in Threads : u # t => lockStack'[u] = lockStack[u]
           /\ \A u \in Threads, x \in Regions : u # t \/ x # r =>
                 /\ owner'[x] = u <=> owner[x] = u
                 /\ u \in readers'[x] <=> u \in readers[x]
           /\ IF mode = "rw" THEN owner'[r] = t ELSE t \in readers'[r]
           /\ StackInv' /\ Exclusive'
<1>1. /\ owner' \in [Regions -> Threads \cup {Nobody}]
      /\ readers' \in [Regions -> SUBSET Threads]
      /\ \A x \in Regions : owner'[x] = IF x = r /\ mode = "rw" THEN t ELSE owner[x]
      /\ \A x \in Regions : readers'[x] = IF x = r /\ mode # "rw" THEN readers[x] \cup {t} ELSE readers[x]
  BY DEF TakeLock, TypeInv
<1>2. owner[r] = Nobody /\ (mode = "rw" => readers[r] = {})
  BY DEF Free
<1>3. \A u \in Threads, x \in Regions : u # t \/ x # r =>
         (owner'[x] = u <=> owner[x] = u) /\ (u \in readers'[x] <=> u \in readers[x])
  BY <1>1, <1>2, RegionsAssumption
<1>4. IF mode = "rw" THEN owner'[r] = t ELSE t \in readers'[r]
  BY <1>1
<1>5. Exclusive'
  BY <1>1, <1>2 DEF Exclusive
<1>6. \A u \in Threads, x \in Regions : Has(u, x)' <=> Has(u, x) \/ (u = t /\ x = r)
  BY <1>3, <1>4 DEF Has
<1>7. \A u \in Threads : /\ lockStack[u] \in Seq(Regions) /\ Len(lockStack[u]) \in Nat
                         /\ \A k \in 1 .. Len(lockStack[u]) : lockStack[u][k] \in Regions
  BY ElementOfSeq, LenProperties DEF TypeInv
<1>8. /\ lockStack' \in [Threads -> Seq(Regions)]
      /\ lockStack'[t] = Append(lockStack[t], r)
      /\ \A u \in Threads : u # t => lockStack'[u] = lockStack[u]
  BY <1>7, AppendProperties DEF TakeLock, TypeInv
<1>9. /\ Len(lockStack'[t]) = Len(lockStack[t]) + 1
      /\ \A k \in 1 .. Len(lockStack[t]) : lockStack'[t][k] = lockStack[t][k]
      /\ lockStack'[t][Len(lockStack[t]) + 1] = r
  BY <1>7, <1>8, AppendProperties
<1>10. StackInv'
  <2> SUFFICES ASSUME NEW u \in Threads
               PROVE  /\ \A k \in 1 .. Len(lockStack'[u]) : Has(u, lockStack[u][k])'
                      /\ \A x \in Regions : Has(u, x)' => \E k \in 1 .. Len(lockStack'[u]) : lockStack'[u][k] = x
                      /\ \A j, k \in 1 .. Len(lockStack'[u]) : lockStack'[u][j] = lockStack'[u][k] => j = k
    BY DEF StackInv
  <2>1. /\ \A k \in 1 .. Len(lockStack[u]) : Has(u, lockStack[u][k])
        /\ \A x \in Regions : Has(u, x) => \E k \in 1 .. Len(lockStack[u]) : lockStack[u][k] = x
        /\ \A j, k \in 1 .. Len(lockStack[u]) : lockStack[u][j] = lockStack[u][k] => j = k
    BY DEF StackInv
  <2>2. \A k \in 1 .. Len(lockStack'[u]) : lockStack'[u][k] \in Regions
    BY <1>8, ElementOfSeq
  <2>3. CASE u # t
    <3>1. \A k \in 1 .. Len(lockStack'[u]) : \A x \in Regions : x = lockStack'[u][k] => Has(u, x)'
      BY <1>6, <1>8, <2>1, <2>3
    <3>2. \A k \in 1 .. Len(lockStack'[u]) : Has(u, lockStack[u][k])'
      BY <2>2, <3>1 DEF Has
    <3> QED BY <1>6, <1>8, <2>1, <2>3, <3>2
  <2>4. CASE u = t
    <3>1. \A k \in 1 .. Len(lockStack[u]) : lockStack[u][k] # r
      BY <2>1, <2>4
    <3>2. \A k \in 1 .. Len(lockStack'[u]) : \A x \in Regions : x = lockStack'[u][k] => Has(u, x)'
      <4> SUFFICES ASSUME NEW k \in 1 .. Len(lockStack'[u]), NEW x \in Regions, x = lockStack'[u][k]
                   PROVE  Has(u, x)'
        OBVIOUS
      <4>1. CASE k \in 1 .. Len(lockStack[u])
        <5>1. x = lockStack[u][k] /\ Has(u, x)
          BY <1>9, <2>1, <2>4, <4>1
        <5> QED BY <1>6, <5>1
      <4>2. CASE k = Len(lockStack[u]) + 1
        <5>1. x = r
          BY <1>9, <2>4, <4>2
        <5> QED BY <1>6, <2>4, <5>1
      <4> QED BY <1>7, <1>9, <2>4, <4>1, <4>2
    <3>3. \A k \in 1 .. Len(lockStack'[u]) : Has(u, lockStack[u][k])'
      BY <2>2, <3>2 DEF Has
    <3>4. \A x \in Regions : Has(u, x)' => \E k \in 1 .. Len(lockStack'[u]) : lockStack'[u][k] = x
      <4> SUFFICES ASSUME NEW x \in Regions, Has(u, x)'
                   PROVE  \E k \in 1 .. Len(lockStack'[u]) : lockStack'[u][k] = x
        OBVIOUS
      <4>1. CASE x = r
        BY <1>7, <1>9, <2>4, <4>1
      <4>2. CASE x # r
        <5>1. Has(u, x)
          BY <1>6, <4>2
        <5>2. PICK k \in 1 .. Len(lockStack[u]) : lockStack[u][k] = x
          BY <2>1, <5>1
        <5>3. k \in 1 .. Len(lockStack'[u]) /\ lockStack'[u][k] = x
          BY <1>7, <1>9, <2>4, <5>2
        <5> QED BY <5>3
      <4> QED BY <4>1, <4>2
    <3>5. \A j, k \in 1 .. Len(lockStack'[u]) : lockStack'[u][j] = lockStack'[u][k] => j = k
      <4> DEFINE n == Len(lockStack[u])
                 new == lockStack'[u]
      <4>1. n \in Nat /\ Len(new) = n + 1 /\ new[n + 1] = r
        BY <1>7, <1>9, <2>4
      <4>2. \A k \in 1 .. n : new[k] = lockStack[u][k] /\ new[k] # r
        BY <1>9, <2>4, <3>1
      <4>3. \A j, k \in 1 .. n : new[j] = new[k] => j = k
        BY <2>1, <4>2
      <4> HIDE DEF n, new
      <4>4. \A j, k \in 1 .. n + 1 : new[j] = new[k] => j = k
        BY <4>1, <4>2, <4>3
      <4> QED BY <4>1, <4>4 DEF new
    <3> QED BY <3>3, <3>4, <3>5
  <2> QED BY <2>3, <2>4
<1> QED BY <1>1, <1>3, <1>4, <1>5, <1>8, <1>9, <1>10

-----------------------------------------------------------------------------
(* A nonempty set of natural numbers has a least element.                  *)
LEMMA LeastElement ==
    ASSUME NEW N \in SUBSET Nat, N # {}
    PROVE  \E m \in N : \A k \in N : m <= k
<1>1. PICK m \in N : \A k \in N : ~ (<<k, m>> \in OpToRel(<, Nat))
  BY NatLessThanWellFounded, WFMin
<1>2. \A a, b \in Nat : a < b => <<a, b>> \in OpToRel(<, Nat)
  BY DEF OpToRel
<1>3. \A k \in N : ~ (k < m)
  BY <1>1, <1>2, Zenon
<1> QED BY <1>3

(* The topmost ranked entry of a descending stack has the least precedence *)
(* of the ranked ones.                                                     *)
LEMMA PrecedenceFacts ==
    ASSUME NEW s \in Seq(Regions), Descends(s), NEW k \in 1 .. Len(s), Prec[s[k]] >= 0
    PROVE  /\ CurrentRegionPrecedence(s) \in Int
           /\ CurrentRegionPrecedence(s) >= 0
           /\ Prec[s[k]] >= CurrentRegionPrecedence(s)
<1> DEFINE n == Len(s)
           R == Ranked(s)
           D == {n - j : j \in R}
           top == CHOOSE m \in R : \A j \in R : j <= m
<1>1. n \in Nat /\ \A j \in 1 .. n : s[j] \in Regions /\ Prec[s[j]] \in Int
  BY ElementOfSeq, LenProperties, RegionsAssumption
<1>2. R \subseteq 1 .. n /\ k \in R /\ \A j \in R : Prec[s[j]] >= 0
  BY DEF Ranked
<1>3. D \subseteq Nat /\ D # {}
  BY <1>1, <1>2
<1>4. \E m \in R : \A j \in R : j <= m
  <2>1. PICK d \in D : \A e \in D : d <= e
    <3> HIDE DEF D
    <3> QED BY <1>3, LeastElement
  <2>2. PICK m \in R : d = n - m
    OBVIOUS
  <2>3. \A j \in R : n - m <= n - j
    BY <2>1, <2>2
  <2>4. \A j \in R : j <= m
    BY <1>1, <1>2, <2>3
  <2> QED BY <2>4
<1>5. top \in R /\ \A j \in R : j <= top
  BY <1>4
<1>6. CurrentRegionPrecedence(s) = Prec[s[top]]
  BY <1>2 DEF CurrentRegionPrecedence
<1> HIDE DEF top, R, D
<1>7. k <= top /\ top \in 1 .. n
  BY <1>2, <1>5
<1>8. Prec[s[top]] >= 0 /\ Prec[s[top]] \in Int /\ Prec[s[k]] \in Int
  BY <1>1, <1>2, <1>5, <1>7
<1>9. k < top => Prec[s[k]] >= Prec[s[top]]
  BY <1>7, <1>8 DEF Descends
<1>10. k = top \/ k < top
  BY <1>7
<1> QED BY <1>6, <1>8, <1>9, <1>10

(* What a thread can read off its locks is changed by its own steps only.  *)
LEMMA LockedSame ==
    ASSUME NEW u \in Threads, NEW x \in Regions \cup Threads,
           x \in Regions => /\ owner'[x] = u <=> owner[x] = u
                            /\ u \in readers'[x] <=> u \in readers[x]
    PROVE  IsLocked(u, x)' = IsLocked(u, x)
BY DEF IsLocked

(* The parts of the invariant on threads that a step leaves alone.         *)
LEMMA OtherCalls ==
    ASSUME IInv, NEW u \in Threads,
           pc'[u] = pc[u], call'[u] = call[u], lockStack'[u] = lockStack[u]
    PROVE  Reading(u)' /\ Locking(u)'
<1>1. Reading(u) /\ Locking(u)
  BY DEF IInv, CallInv
<1> QED BY <1>1 DEF Reading, Locking

LEMMA OtherCovers ==
    ASSUME IInv, NEW u \in Threads, pc'[u] = pc[u], call'[u] = call[u], regionOf' = regionOf,
           \A x \in Regions : /\ owner'[x] = u <=> owner[x] = u
                              /\ u \in readers'[x] <=> u \in readers[x]
    PROVE  pc'[u] = "lock" /\ ~ FastPath(u)' => \A k \in 1 .. call'[u].i - 1 : Covered(u, k)'
<1> SUFFICES ASSUME pc[u] = "lock", ~ FastPath(u), NEW k \in 1 .. call[u].i - 1
             PROVE  Covered(u, k)'
  BY DEF FastPath
<1>1. Covered(u, k)
  BY DEF IInv, CoverInv
<1>2. call[u].order \in Seq(LockRequest) /\ k \in 1 .. Len(call[u].order)
  BY DEF IInv, CallInv, Locking, TypeInv, CallType
<1>3. call[u].order[k] \in LockRequest
  BY <1>2, ElementOfSeq
<1>4. call[u].order[k].region \in Regions \cup Threads
  BY <1>3 DEF LockRequest
<1>5. \A x \in Regions \cup Threads : IsLocked(u, x)' = IsLocked(u, x)
  BY LockedSame
<1>6. ASSUME NEW x \in Regions \cup Threads, x = call[u].order[k].region
      PROVE  Covered(u, k)'
  BY <1>1, <1>5, <1>6 DEF Covered
<1> QED BY <1>4, <1>6

-----------------------------------------------------------------------------
(* The initial states.                                                     *)
LEMMA InitIInv == Init => IInv
<1> SUFFICES ASSUME Init PROVE IInv
  OBVIOUS
<1> USE DEF Init
<1>1. Idle \in CallType
  BY DEF Idle, CallType
<1>2. TypeInv
  <2>1. call \in [Threads -> CallType] /\ pc \in [Threads -> Labels]
    BY <1>1 DEF Labels
  <2>2. lockStack \in [Threads -> Seq(Regions)] /\ regionOf \in [Objects -> Regions \cup Threads]
    OBVIOUS
  <2>3. /\ owner \in [Regions -> Threads \cup {Nobody}] /\ readers \in [Regions -> SUBSET Threads]
        /\ created \in SUBSET Regions /\ tried \in BOOLEAN
    OBVIOUS
  <2> QED BY <2>1, <2>2, <2>3 DEF TypeInv
<1>3. Exclusive
  BY DEF Exclusive
<1>4. \A t \in Threads : Len(lockStack[t]) = 0
  OBVIOUS
<1>5. \A t \in Threads, r \in Regions : ~ Has(t, r)
  BY RegionsAssumption DEF Has
<1>6. StackInv
  BY <1>4, <1>5 DEF StackInv
<1>7. CallInv
  BY DEF CallInv, Reading, Locking
<1>8. OrderInv
  BY <1>4 DEF OrderInv, Descends, Idle
<1>9. CreatedInv
  <2>1. \A t \in Threads : Len(call[t].order) = 0
    BY DEF Idle
  <2> QED BY <2>1 DEF CreatedInv
<1>10. CoverInv
  BY DEF CoverInv
<1> QED BY <1>2, <1>3, <1>6, <1>7, <1>8, <1>9, <1>10 DEF IInv

(* Locks that nobody touches.                                              *)
LEMMA SameLocks ==
    ASSUME IInv, UNCHANGED locks
    PROVE  Exclusive' /\ StackInv'
BY DEF IInv, locks, Exclusive, StackInv, Has

(* A call begins.                                                          *)
LEMMA BeginStep ==
    ASSUME IInv, NEW t \in Threads, NEW fn \in {"lock", "try"}, NEW args \in LockArgs \cup TryLockArgs,
           Begin(t, fn, args)
    PROVE  IInv'
<1> DEFINE c == [fn |-> fn, args |-> args, order |-> <<>>, i |-> 1, sp |-> Len(lockStack[t])]
<1>1. /\ pc' = [pc EXCEPT ![t] = "read"] /\ call' = [call EXCEPT ![t] = c]
      /\ tried' = (tried \/ fn = "try")
      /\ UNCHANGED <<owner, readers, lockStack, regionOf, created>>
  BY DEF Begin, locks
<1>2. args \in Seq(Arg) /\ args # <<>>
  BY RegionsAssumption DEF Arg, Modes
<1>3. Len(lockStack[t]) \in Nat
  BY LenProperties DEF IInv, TypeInv
<1>4. c \in CallType /\ c.fn = fn /\ c.args = args /\ c.sp = Len(lockStack[t])
      /\ c.order = <<>> /\ c.i = 1
  BY <1>2, <1>3 DEF CallType
<1> HIDE DEF c
<1>5. /\ pc'[t] = "read" /\ call'[t] = c
      /\ \A u \in Threads : u # t => pc'[u] = pc[u] /\ call'[u] = call[u]
  BY <1>1 DEF IInv, TypeInv
<1>6. TypeInv'
  BY <1>1, <1>4 DEF IInv, TypeInv, Labels
<1>7. Exclusive' /\ StackInv'
  BY <1>1, SameLocks DEF locks
<1>8. CallInv'
  <2>1. Reading(t)' /\ Locking(t)'
    BY <1>1, <1>2, <1>4, <1>5 DEF Reading, Locking
  <2>2. \A u \in Threads : u # t => Reading(u)' /\ Locking(u)'
    BY <1>1, <1>5, OtherCalls
  <2> QED BY <2>1, <2>2 DEF CallInv
<1>9. OrderInv'
  BY <1>1, <1>4, <1>5 DEF IInv, OrderInv
<1>10. CreatedInv'
  <2>1. Len(call'[t].order) = 0
    BY <1>4, <1>5
  <2> QED BY <1>1, <1>5, <2>1 DEF IInv, CreatedInv
<1>11. CoverInv'
  <2>1. \A u \in Threads : u # t =>
          (pc'[u] = "lock" /\ ~ FastPath(u)' => \A k \in 1 .. call'[u].i - 1 : Covered(u, k)')
    BY <1>1, <1>5, OtherCovers
  <2> QED BY <1>5, <2>1 DEF CoverInv
<1> QED BY <1>6, <1>7, <1>8, <1>9, <1>10, <1>11 DEF IInv

(* The region of an argument is read.                                      *)
LEMMA ReadStep ==
    ASSUME IInv, NEW t \in Threads, ReadRegion(t)
    PROVE  IInv'
<1> DEFINE c == call[t]
           a == Head(c.args)
           q == [obj |-> a.obj, region |-> regionOf[a.obj], mode |-> a.mode]
           order == Append(c.order, q)
           last == Len(c.args) = 1
<1>1. PICK s \in IF last THEN {z \in Rearranged(order) : IsSorted(z)} ELSE {order} :
         call' = [call EXCEPT ![t].order = s, ![t].args = Tail(@)]
  BY DEF ReadRegion
<1>2. /\ pc[t] = "read" /\ pc' = [pc EXCEPT ![t] = IF last THEN "lock" ELSE "read"]
      /\ UNCHANGED <<owner, readers, lockStack, regionOf, created, tried>>
  BY DEF ReadRegion, locks
<1>3. c \in CallType /\ c.args \in Seq(Arg) /\ c.order \in Seq(LockRequest) /\ c.args # <<>>
  BY <1>2 DEF IInv, TypeInv, CallType, CallInv, Reading
<1>4. a \in Arg /\ Tail(c.args) \in Seq(Arg)
  BY <1>3
<1>5. q \in LockRequest /\ q.region \in created \cup Threads
  <2>1. a.obj \in Objects /\ a.mode \in Modes
    BY <1>4 DEF Arg
  <2> QED BY <2>1 DEF IInv, TypeInv, CreatedInv, LockRequest
<1> HIDE DEF q
<1>6. /\ order \in Seq(LockRequest) /\ Len(order) = Len(c.order) + 1 /\ Len(c.order) \in Nat
      /\ \A k \in 1 .. Len(c.order) : order[k] = c.order[k]
      /\ order[Len(c.order) + 1] = q
  BY <1>3, <1>5, AppendProperties, LenProperties
<1> HIDE DEF order
<1>7. /\ s \in Seq(LockRequest)
      /\ \A k \in 1 .. Len(s) : \E j \in 1 .. Len(order) : s[k] = order[j]
      /\ last => IsSorted(s)
  <2>1. CASE last
    BY <1>1, <1>6, <2>1, RearrangedFacts
  <2>2. CASE ~ last
    <3>1. s = order
      BY <1>1, <2>2
    <3> QED BY <1>6, <2>2, <3>1
  <2> QED BY <2>1, <2>2
<1>8. \A k \in 1 .. Len(s) : s[k].region \in created \cup Threads
  <2>1. \A k \in 1 .. Len(c.order) : c.order[k].region \in created \cup Threads
    BY DEF IInv, CreatedInv
  <2>2. \A j \in 1 .. Len(order) : order[j].region \in created \cup Threads
    BY <1>5, <1>6, <2>1
  <2> QED BY <1>7, <2>2
<1>9. /\ call'[t] = [c EXCEPT !.order = s, !.args = Tail(c.args)]
      /\ pc'[t] = IF last THEN "lock" ELSE "read"
      /\ \A u \in Threads : u # t => pc'[u] = pc[u] /\ call'[u] = call[u]
  BY <1>1, <1>2 DEF IInv, TypeInv
<1>10. /\ call'[t] \in CallType /\ call'[t].order = s /\ call'[t].args = Tail(c.args)
       /\ call'[t].i = c.i /\ call'[t].sp = c.sp /\ call'[t].fn = c.fn
  BY <1>3, <1>4, <1>7, <1>9 DEF CallType
<1>11. TypeInv'
  <2>1. call' = [call EXCEPT ![t] = call'[t]]
    BY <1>1 DEF IInv, TypeInv
  <2>2. call' \in [Threads -> CallType]
    BY <2>1, <1>10 DEF IInv, TypeInv
  <2>3. pc' \in [Threads -> Labels]
    BY <1>2 DEF IInv, TypeInv, Labels
  <2> QED BY <1>2, <2>2, <2>3 DEF IInv, TypeInv
<1>12. Exclusive' /\ StackInv'
  BY <1>2, SameLocks DEF locks
<1>13. CallInv'
  <2>1. Len(lockStack[t]) \in Nat /\ c.sp = Len(lockStack[t]) /\ c.fn # "none" /\ c.i = 1
    BY <1>2, LenProperties DEF IInv, CallInv, Reading, TypeInv
  <2>2. ~ last => Tail(c.args) # <<>>
    <3>1. Len(c.args) \in Nat /\ Len(c.args) # 0
      BY <1>3, LenProperties, EmptySeq
    <3>2. Len(Tail(c.args)) = Len(c.args) - 1
      BY <1>3
    <3>3. Len(<<>>) = 0
      OBVIOUS
    <3>4. ~ last => Len(Tail(c.args)) # Len(<<>>)
      BY <3>1, <3>2, <3>3
    <3> QED BY <3>4, Zenon
  <2>3. Reading(t)'
    BY <1>2, <1>9, <1>10, <2>1, <2>2 DEF Reading
  <2>4. Len(s) \in Nat
    BY <1>7, LenProperties
  <2>5. Locking(t)'
    BY <1>2, <1>7, <1>9, <1>10, <2>1, <2>4 DEF Locking
  <2>6. \A u \in Threads : u # t => Reading(u)' /\ Locking(u)'
    BY <1>2, <1>9, OtherCalls
  <2> QED BY <2>3, <2>5, <2>6 DEF CallInv
<1>14. OrderInv'
  BY <1>2, <1>9, <1>10 DEF IInv, OrderInv
<1>15. CreatedInv'
  BY <1>2, <1>8, <1>9, <1>10 DEF IInv, CreatedInv
<1>16. CoverInv'
  <2>1. \A u \in Threads : u # t =>
          (pc'[u] = "lock" /\ ~ FastPath(u)' => \A k \in 1 .. call'[u].i - 1 : Covered(u, k)')
    BY <1>2, <1>9, OtherCovers
  <2>2. call'[t].i - 1 = 0
    BY <1>2, <1>10 DEF IInv, CallInv, Reading
  <2> QED BY <2>1, <2>2 DEF CoverInv
<1> QED BY <1>11, <1>12, <1>13, <1>14, <1>15, <1>16 DEF IInv
-----------------------------------------------------------------------------
(* The loop goes on to the next request.                                   *)
LEMMA NextRequestFacts ==
    ASSUME TypeInv, NEW t \in Threads, NextRequest(t)
    PROVE  /\ call' \in [Threads -> CallType]
           /\ \A u \in Threads : /\ call'[u].order = call[u].order
                                 /\ call'[u].sp = call[u].sp /\ call'[u].fn = call[u].fn
                                 /\ u # t => call'[u] = call[u]
           /\ call'[t].i = call[t].i + 1
<1>1. call[t] \in CallType /\ call \in [Threads -> CallType]
  BY DEF TypeInv
<1>2. [call[t] EXCEPT !.i = call[t].i + 1] \in CallType
  <2>1. call[t].i + 1 \in Nat \ {0}
    BY <1>1 DEF CallType
  <2>2. \A n \in Nat \ {0} : [call[t] EXCEPT !.i = n] \in CallType
    BY <1>1 DEF CallType
  <2> QED BY <2>1, <2>2
<1>3. /\ call'[t] = [call[t] EXCEPT !.i = call[t].i + 1]
      /\ \A u \in Threads : u # t => call'[u] = call[u]
      /\ call' = [call EXCEPT ![t] = call'[t]]
  BY <1>1 DEF NextRequest
<1>4. call' \in [Threads -> CallType]
  BY <1>1, <1>2, <1>3
<1>5. /\ call'[t].order = call[t].order /\ call'[t].sp = call[t].sp /\ call'[t].fn = call[t].fn
      /\ call'[t].i = call[t].i + 1
  BY <1>1, <1>3 DEF CallType
<1> QED BY <1>3, <1>4, <1>5

(* A request that needs no lock: a duplicate, or a region locked already.  *)
LEMMA SkipStep ==
    ASSUME IInv, NEW t \in Threads, SkipDuplicate(t) \/ AlreadyLocked(t)
    PROVE  IInv'
<1>1. /\ InLoop(t) /\ pc[t] = "lock" /\ NextRequest(t)
      /\ UNCHANGED <<owner, readers, lockStack, regionOf, created, pc, tried>>
  BY DEF SkipDuplicate, AlreadyLocked, Open, InLoop, locks
<1>2. /\ call' \in [Threads -> CallType]
      /\ \A u \in Threads : /\ call'[u].order = call[u].order
                            /\ call'[u].sp = call[u].sp /\ call'[u].fn = call[u].fn
                            /\ u # t => call'[u] = call[u]
      /\ call'[t].i = call[t].i + 1
  BY <1>1, NextRequestFacts DEF IInv
<1>3. /\ call[t].i \in 1 .. Len(call[t].order) /\ Current(t) \in LockRequest
      /\ Current(t) = call[t].order[call[t].i]
  BY <1>1, CurrentFacts DEF IInv
<1>4. TypeInv'
  BY <1>1, <1>2 DEF IInv, TypeInv
<1>5. Exclusive' /\ StackInv'
  BY <1>1, SameLocks DEF locks
<1>6. CallInv'
  <2>1. /\ call[t].fn # "none" /\ call[t].sp <= Len(lockStack[t]) /\ IsSorted(call[t].order)
        /\ \A k \in call[t].sp + 1 .. Len(lockStack[t]) :
              \E j \in 1 .. call[t].i - 1 : lockStack[t][k] = call[t].order[j].region
    BY <1>1 DEF IInv, CallInv, Locking
  <2>2. Locking(t)' /\ Reading(t)'
    <3>1. Reading(t)'
      BY <1>1 DEF Reading
    <3>2. call'[t].i - 1 = call[t].i /\ call'[t].i <= Len(call[t].order) + 1
      BY <1>2, <1>3
    <3>3. \A k \in call[t].sp + 1 .. Len(lockStack[t]) :
              \E j \in 1 .. call[t].i : lockStack[t][k] = call[t].order[j].region
      BY <1>3, <2>1
    <3> QED BY <1>1, <1>2, <2>1, <3>1, <3>2, <3>3 DEF Locking
  <2>3. \A u \in Threads : u # t => Reading(u)' /\ Locking(u)'
    BY <1>1, <1>2, OtherCalls
  <2> QED BY <2>2, <2>3 DEF CallInv
<1>7. OrderInv'
  BY <1>1, <1>2 DEF IInv, OrderInv
<1>8. CreatedInv'
  BY <1>1, <1>2 DEF IInv, CreatedInv
<1>9. CoverInv'
  <2>1. \A u \in Threads : u # t =>
          (pc'[u] = "lock" /\ ~ FastPath(u)' => \A k \in 1 .. call'[u].i - 1 : Covered(u, k)')
    BY <1>1, <1>2, OtherCovers
  <2>2. ASSUME ~ FastPath(t)', NEW k \in 1 .. call[t].i
        PROVE  Covered(t, k)'
    <3>1. ~ FastPath(t)
      BY <1>2, <2>2 DEF FastPath
    <3>2. Covered(t, k)' <=> Covered(t, k)
      BY <1>1, <1>2 DEF Covered, IsLocked
    <3>3. CASE k # call[t].i
      <4>1. k \in 1 .. call[t].i - 1
        BY <1>3, <3>3
      <4>2. Covered(t, k)
        BY <1>1, <3>1, <4>1 DEF IInv, CoverInv
      <4> QED BY <3>2, <4>2
    <3>4. CASE k = call[t].i
      <4>1. CASE SkipDuplicate(t)
        BY <3>2, <3>4, <4>1 DEF SkipDuplicate, Duplicate, Covered, Current
      <4>2. CASE AlreadyLocked(t)
        <5>1. regionOf[Current(t).obj] = Current(t).region
          BY <3>1, <4>2 DEF AlreadyLocked, Moved
        <5>2. IsLocked(t, Current(t).region) \in {"rw", "ro"}
          BY <4>2 DEF AlreadyLocked, Status, IsLocked
        <5>3. IsLocked(t, Current(t).region) = "ro" => Current(t).mode = "ro"
          BY <1>3, <4>2 DEF AlreadyLocked, Open, Refused, IsUpgrade, Status, LockRequest, Modes
        <5> QED BY <1>3, <3>2, <3>4, <5>1, <5>2, <5>3 DEF Covered
      <4> QED BY <4>1, <4>2
    <3> QED BY <3>3, <3>4
  <2>3. call'[t].i - 1 = call[t].i
    BY <1>2, <1>3
  <2> QED BY <2>1, <2>2, <2>3 DEF CoverInv
<1> QED BY <1>4, <1>5, <1>6, <1>7, <1>8, <1>9 DEF IInv

(* A step after which thread t is outside LockObjects and has what is left *)
(* of its lock stack: the end of a call, and UNLOCK.                       *)
LEMMA ReadyStep ==
    ASSUME IInv, NEW t \in Threads, UNCHANGED <<regionOf, created, tried>>,
           pc' \in [Threads -> Labels], call' \in [Threads -> CallType],
           pc'[t] = "ready", call'[t] \in {call[t], Idle},
           \A u \in Threads : u # t =>
              pc'[u] = pc[u] /\ call'[u] = call[u] /\ lockStack'[u] = lockStack[u],
           owner' \in [Regions -> Threads \cup {Nobody}],
           readers' \in [Regions -> SUBSET Threads],
           lockStack' \in [Threads -> Seq(Regions)],
           Len(lockStack'[t]) <= Len(lockStack[t]),
           \A k \in 1 .. Len(lockStack'[t]) : lockStack'[t][k] = lockStack[t][k],
           \A u \in Threads, r \in Regions : u # t =>
              /\ owner'[r] = u <=> owner[r] = u
              /\ u \in readers'[r] <=> u \in readers[r],
           \A r \in Regions : owner'[r] \in {owner[r], Nobody} /\ readers'[r] \subseteq readers[r],
           StackInv', Exclusive'
    PROVE  IInv'
<1>1. TypeInv'
  BY DEF IInv, TypeInv
<1>2. CallInv'
  <2>1. Reading(t)' /\ Locking(t)'
    BY DEF Reading, Locking
  <2>2. \A u \in Threads : u # t => Reading(u)' /\ Locking(u)'
    BY OtherCalls
  <2> QED BY <2>1, <2>2 DEF CallInv
<1>3. OrderInv'
  <2> SUFFICES ASSUME ~ tried, NEW u \in Threads PROVE call'[u].fn # "try" /\ Descends(lockStack'[u])
    BY DEF OrderInv
  <2>1. call[u].fn # "try" /\ Descends(lockStack[u])
    BY DEF IInv, OrderInv
  <2>2. call'[u].fn # "try"
    BY <2>1 DEF Idle
  <2>3. CASE u # t
    BY <2>1, <2>2, <2>3
  <2>4. CASE u = t
    <3>1. Len(lockStack'[t]) \in Nat /\ Len(lockStack[t]) \in Nat
      BY LenProperties DEF IInv, TypeInv
    <3>2. \A k \in 1 .. Len(lockStack'[t]) : k \in 1 .. Len(lockStack[t])
      BY <3>1
    <3>3. Descends(lockStack'[t])
      BY <2>1, <2>4, <3>2 DEF Descends
    <3> QED BY <2>2, <2>4, <3>3
  <2> QED BY <2>3, <2>4
<1>4. CreatedInv'
  <2>1. \A r \in Regions : r \notin created => owner'[r] = Nobody /\ readers'[r] = {}
    <3> SUFFICES ASSUME NEW r \in Regions, r \notin created
                 PROVE  owner'[r] = Nobody /\ readers'[r] = {}
      OBVIOUS
    <3>1. owner[r] = Nobody /\ readers[r] = {}
      BY DEF IInv, CreatedInv
    <3> QED BY <3>1
  <2>2. \A u \in Threads : \A k \in 1 .. Len(call'[u].order) : call'[u].order[k].region \in created \cup Threads
    <3> SUFFICES ASSUME NEW u \in Threads, NEW k \in 1 .. Len(call'[u].order)
                 PROVE  call'[u].order[k].region \in created \cup Threads
      OBVIOUS
    <3>1. Len(Idle.order) = 0
      BY DEF Idle
    <3>2. call'[u] # Idle
      BY <3>1
    <3>3. call'[u] = call[u]
      BY <3>2
    <3> QED BY <3>3 DEF IInv, CreatedInv
  <2> QED BY <2>1, <2>2 DEF IInv, CreatedInv
<1>5. CoverInv'
  <2>1. \A u \in Threads : u # t =>
          (pc'[u] = "lock" /\ ~ FastPath(u)' => \A k \in 1 .. call'[u].i - 1 : Covered(u, k)')
    BY OtherCovers
  <2> QED BY <2>1 DEF CoverInv
<1> QED BY <1>1, <1>2, <1>3, <1>4, <1>5 DEF IInv

(* What Return does.                                                       *)
LEMMA ReturnFacts ==
    ASSUME TypeInv, NEW t \in Threads, Return(t)
    PROVE  /\ pc' \in [Threads -> Labels] /\ call' \in [Threads -> CallType]
           /\ pc'[t] = "ready" /\ call'[t] = Idle
           /\ \A u \in Threads : u # t => pc'[u] = pc[u] /\ call'[u] = call[u]
<1>1. Idle \in CallType
  BY DEF Idle, CallType
<1> QED BY <1>1 DEF Return, TypeInv, Labels

(* A call ends well.                                                       *)
LEMMA SucceedStep ==
    ASSUME IInv, NEW t \in Threads, Succeed(t)
    PROVE  IInv'
<1>1. Return(t) /\ UNCHANGED <<owner, readers, lockStack, regionOf, created, tried>>
  BY DEF Succeed, locks
<1>2. /\ pc' \in [Threads -> Labels] /\ call' \in [Threads -> CallType]
      /\ pc'[t] = "ready" /\ call'[t] = Idle
      /\ \A u \in Threads : u # t => pc'[u] = pc[u] /\ call'[u] = call[u]
  BY <1>1, ReturnFacts DEF IInv
<1>3. StackInv' /\ Exclusive'
  BY <1>1, SameLocks DEF locks
<1>4. /\ owner' \in [Regions -> Threads \cup {Nobody}]
      /\ readers' \in [Regions -> SUBSET Threads]
      /\ lockStack' \in [Threads -> Seq(Regions)]
      /\ Len(lockStack[t]) \in Nat
  BY <1>1, LenProperties DEF IInv, TypeInv
<1>5. Len(lockStack'[t]) <= Len(lockStack[t])
  BY <1>1, <1>4
<1> QED BY <1>1, <1>2, <1>3, <1>4, <1>5, ReadyStep

(* A call fails and gives back the locks it has taken.                     *)
LEMMA FailStep ==
    ASSUME IInv, NEW t \in Threads, pc[t] = "lock", FailCall(t)
    PROVE  IInv'
<1>1. Return(t) /\ UNCHANGED <<regionOf, created, tried>> /\ PopRegionLocks(t, call[t].sp)
  BY DEF FailCall
<1>2. /\ pc' \in [Threads -> Labels] /\ call' \in [Threads -> CallType]
      /\ pc'[t] = "ready" /\ call'[t] = Idle
      /\ \A u \in Threads : u # t => pc'[u] = pc[u] /\ call'[u] = call[u]
  BY <1>1, ReturnFacts DEF IInv
<1>3. call[t].sp \in Nat /\ call[t].sp <= Len(lockStack[t])
  BY DEF IInv, TypeInv, CallType, CallInv, Locking
<1>4. TypeInv /\ StackInv /\ Exclusive
  BY DEF IInv
<1>5. /\ owner' \in [Regions -> Threads \cup {Nobody}]
      /\ readers' \in [Regions -> SUBSET Threads]
      /\ lockStack' \in [Threads -> Seq(Regions)]
      /\ Len(lockStack'[t]) = call[t].sp
      /\ \A k \in 1 .. call[t].sp : lockStack'[t][k] = lockStack[t][k]
      /\ \A u \in Threads : u # t => lockStack'[u] = lockStack[u]
      /\ \A u \in Threads, r \in Regions : u # t =>
            /\ owner'[r] = u <=> owner[r] = u
            /\ u \in readers'[r] <=> u \in readers[r]
      /\ \A r \in Regions : owner'[r] \in {owner[r], Nobody} /\ readers'[r] \subseteq readers[r]
      /\ StackInv' /\ Exclusive'
  BY <1>1, <1>3, <1>4, PopFacts
<1>6. /\ Len(lockStack'[t]) <= Len(lockStack[t])
      /\ \A k \in 1 .. Len(lockStack'[t]) : lockStack'[t][k] = lockStack[t][k]
  BY <1>3, <1>5
<1>7. /\ call'[t] \in {call[t], Idle}
      /\ \A u \in Threads : u # t =>
            pc'[u] = pc[u] /\ call'[u] = call[u] /\ lockStack'[u] = lockStack[u]
  BY <1>2, <1>5
<1> QED BY <1>1, <1>2, <1>5, <1>6, <1>7, ReadyStep

LEMMA UnlockStep ==
    ASSUME IInv, NEW t \in Threads, NEW sp \in Nat, Unlock(t, sp)
    PROVE  IInv'
<1>1. /\ pc[t] = "ready" /\ sp < Len(lockStack[t]) /\ PopRegionLocks(t, sp)
      /\ UNCHANGED <<regionOf, created, pc, call, tried>>
  BY DEF Unlock
<1>2. pc' \in [Threads -> Labels] /\ call' \in [Threads -> CallType] /\ Len(lockStack[t]) \in Nat
  BY <1>1, LenProperties DEF IInv, TypeInv
<1>3. sp <= Len(lockStack[t])
  BY <1>1, <1>2
<1>4. TypeInv /\ StackInv /\ Exclusive
  BY DEF IInv
<1>5. /\ owner' \in [Regions -> Threads \cup {Nobody}]
      /\ readers' \in [Regions -> SUBSET Threads]
      /\ lockStack' \in [Threads -> Seq(Regions)]
      /\ Len(lockStack'[t]) = sp
      /\ \A k \in 1 .. sp : lockStack'[t][k] = lockStack[t][k]
      /\ \A u \in Threads : u # t => lockStack'[u] = lockStack[u]
      /\ \A u \in Threads, r \in Regions : u # t =>
            /\ owner'[r] = u <=> owner[r] = u
            /\ u \in readers'[r] <=> u \in readers[r]
      /\ \A r \in Regions : owner'[r] \in {owner[r], Nobody} /\ readers'[r] \subseteq readers[r]
      /\ StackInv' /\ Exclusive'
  BY <1>1, <1>3, <1>4, PopFacts
<1>6. /\ Len(lockStack'[t]) <= Len(lockStack[t])
      /\ \A k \in 1 .. Len(lockStack'[t]) : lockStack'[t][k] = lockStack[t][k]
  BY <1>3, <1>5
<1>7. /\ pc'[t] = "ready" /\ call'[t] \in {call[t], Idle}
      /\ \A u \in Threads : u # t =>
            pc'[u] = pc[u] /\ call'[u] = call[u] /\ lockStack'[u] = lockStack[u]
  BY <1>1, <1>5
<1> QED BY <1>1, <1>2, <1>5, <1>6, <1>7, ReadyStep

(* An object is moved out of a region that t may write: nobody else has    *)
(* that region locked, so no other call has counted on the object.         *)
LEMMA MoveStep ==
    ASSUME IInv, NEW t \in Threads, NEW o \in Objects, NEW r \in Regions \cup Threads,
           pc[t] = "ready", IsLocked(t, regionOf[o]) = "rw",
           regionOf' = [regionOf EXCEPT ![o] = r],
           created \subseteq created', created' \subseteq Regions, r \in created' \cup Threads,
           UNCHANGED <<owner, readers, lockStack, pc, call, tried>>
    PROVE  IInv'
<1>1. /\ regionOf' \in [Objects -> Regions \cup Threads] /\ regionOf'[o] = r
      /\ \A x \in Objects : x # o => regionOf'[x] = regionOf[x]
  BY DEF IInv, TypeInv
<1>2. TypeInv'
  BY <1>1 DEF IInv, TypeInv
<1>3. Exclusive' /\ StackInv'
  BY SameLocks DEF locks
<1>4. CallInv'
  BY OtherCalls DEF CallInv
<1>5. OrderInv'
  BY DEF IInv, OrderInv
<1>6. CreatedInv'
  BY <1>1 DEF IInv, CreatedInv
<1>7. CoverInv'
  <2> SUFFICES ASSUME NEW u \in Threads, pc[u] = "lock", ~ FastPath(u), NEW k \in 1 .. call[u].i - 1
               PROVE  Covered(u, k)'
    BY DEF CoverInv, FastPath
  <2> DEFINE a == call[u].order[k]
  <2>1. Covered(u, k) /\ u # t
    BY DEF IInv, CoverInv
  <2>2. a \in LockRequest
    <3>1. call[u].order \in Seq(LockRequest) /\ k \in 1 .. Len(call[u].order)
      BY DEF IInv, CallInv, Locking, TypeInv, CallType
    <3> QED BY <3>1, ElementOfSeq
  <2>3. IsLocked(u, a.region)' = IsLocked(u, a.region)
    BY DEF IsLocked
  <2>4. CASE k > 1 /\ a.region = call[u].order[k - 1].region
    BY <2>4 DEF Covered
  <2>5. CASE regionOf[a.obj] = a.region /\ IsLocked(u, a.region) \in {"rw", a.mode}
    <3>1. IsLocked(u, a.region) # "no"
      BY <2>2, <2>5 DEF LockRequest, Modes
    <3>2. a.obj # o
      <4> SUFFICES ASSUME a.obj = o PROVE FALSE
        OBVIOUS
      <4>1. a.region = regionOf[o] /\ regionOf[o] \in Regions \cup Threads
        BY <2>5 DEF IInv, TypeInv
      <4>2. CASE regionOf[o] \in Regions
        <5>1. owner[regionOf[o]] = t /\ Has(u, regionOf[o])
          BY <3>1, <4>1, <4>2, LockedFacts
        <5>2. readers[regionOf[o]] = {}
          BY <4>2, <5>1, RegionsAssumption DEF IInv, Exclusive
        <5> QED BY <2>1, <5>1, <5>2 DEF Has
      <4>3. CASE regionOf[o] \in Threads
        BY <2>1, <3>1, <4>1, <4>3, OwnRegionFacts
      <4> QED BY <4>1, <4>2, <4>3
    <3>3. a.obj \in Objects
      BY <2>2 DEF LockRequest
    <3>4. regionOf'[a.obj] = a.region
      BY <1>1, <2>5, <3>2, <3>3
    <3> QED BY <2>3, <2>5, <3>4 DEF Covered
  <2> QED BY <2>1, <2>4, <2>5 DEF Covered
<1> QED BY <1>2, <1>3, <1>4, <1>5, <1>6, <1>7 DEF IInv

(* MigrateObjects and SHARE: the target exists, or is created by the step. *)
LEMMA MigrateStep ==
    ASSUME IInv, NEW t \in Threads, NEW o \in Objects, NEW r \in Regions \cup {t}, Migrate(t, o, r)
    PROVE  IInv'
<1>1. r \in Regions => r \in created
  <2>1. r \in Regions => owner[r] = t
    BY LockedFacts DEF Migrate
  <2> QED BY <2>1, RegionsAssumption DEF IInv, CreatedInv
<1>2. created \subseteq Regions
  BY DEF IInv, TypeInv
<1> QED BY <1>1, <1>2, MoveStep DEF Migrate, locks

LEMMA ShareStep ==
    ASSUME IInv, NEW t \in Threads, NEW o \in Objects, NEW r \in Regions, Share(t, o, r)
    PROVE  IInv'
<1>1. created \subseteq created' /\ created' \subseteq Regions /\ r \in created'
  BY DEF Share, IInv, TypeInv
<1> QED BY <1>1, MoveStep DEF Share, locks

-----------------------------------------------------------------------------
(* The region a call of LOCK is about to take, or waits for, comes after   *)
(* every region the thread has: those of earlier calls by the check of the *)
(* precedence, those of this call by the order of the requests.            *)
LEMMA WantedComesLast ==
    ASSUME IInv, ~ tried, NEW t \in Threads, Wants(t),
           NEW k \in 1 .. Len(lockStack[t]),
           Prec[lockStack[t][k]] >= 0, Prec[Current(t).region] >= 0
    PROVE  LET x == lockStack[t][k]
               r == Current(t).region
           IN  x # r /\ (Prec[x] > Prec[r] \/ (Prec[x] = Prec[r] /\ x < r))
<1> DEFINE x == lockStack[t][k]
           r == Current(t).region
           c == call[t]
           L == lockStack[t]
           below == SubSeq(L, 1, c.sp)
<1>1. InLoop(t) /\ Open(t) /\ Status(t) = "no" /\ pc[t] = "lock"
  BY DEF Wants, Open, InLoop
<1>2. /\ c.i \in 1 .. Len(c.order) /\ Current(t) = c.order[c.i] /\ r \in Regions
      /\ Current(t) \in LockRequest
  BY <1>1, CurrentFacts DEF IInv
<1>3. L \in Seq(Regions) /\ Len(L) \in Nat /\ x \in Regions
  BY ElementOfSeq, LenProperties DEF IInv, TypeInv
<1>4. Prec[x] \in Int /\ Prec[r] \in Int /\ x \in Int /\ r \in Int
  <2>1. \A y \in Regions : Prec[y] \in Int /\ y \in Int
    BY RegionsAssumption
  <2> QED BY <1>2, <1>3, <2>1
<1>5. x # r
  <2>1. Has(t, x)
    BY DEF IInv, StackInv
  <2>2. ~ Has(t, r)
    BY <1>1, <1>2, LockedFacts DEF Status
  <2> QED BY <2>1, <2>2
<1>6. /\ c.sp \in Nat /\ c.sp <= Len(L) /\ c.fn = "lock" /\ IsSorted(c.order)
      /\ \A n \in c.sp + 1 .. Len(L) : \E j \in 1 .. c.i - 1 : L[n] = c.order[j].region
      /\ Descends(L)
  <2>1. c \in CallType
    BY DEF IInv, TypeInv
  <2>2. c.fn \in {"none", "lock", "try"} /\ c.sp \in Nat
    BY <2>1 DEF CallType
  <2>3. c.fn # "try" /\ Descends(L)
    BY DEF IInv, OrderInv
  <2> QED BY <1>1, <2>2, <2>3 DEF IInv, CallInv, Locking
<1> HIDE DEF x, r, c, L
<1>7. CASE k <= c.sp
  <2>1. below \in Seq(Regions) /\ Len(below) = c.sp /\ \A n \in 1 .. c.sp : below[n] = L[n]
    BY <1>3, <1>6, SubSeqProperties
  <2> HIDE DEF below
  <2>2. \A n \in 1 .. c.sp : n \in 1 .. Len(L)
    BY <1>3, <1>6
  <2>3. Descends(below)
    BY <1>6, <2>1, <2>2 DEF Descends
  <2>4. k \in 1 .. Len(below) /\ below[k] = x
    BY <1>6, <1>7, <2>1 DEF x, L
  <2>5. /\ CurrentRegionPrecedence(below) \in Int
        /\ CurrentRegionPrecedence(below) >= 0
        /\ Prec[x] >= CurrentRegionPrecedence(below)
    BY <2>1, <2>3, <2>4, PrecedenceFacts DEF x
  <2>6. ~ OutOfOrder(t, r)
    BY <1>1, <1>2, <1>6 DEF Open, Refused, r, c
  <2>7. ~ (Prec[r] >= CurrentRegionPrecedence(below))
    BY <2>5, <2>6 DEF OutOfOrder, below, L, c, r
  <2>8. Prec[x] > Prec[r]
    BY <1>4, <2>5, <2>7
  <2> QED BY <1>5, <2>8 DEF x, r
<1>8. CASE k > c.sp
  <2>1. k \in c.sp + 1 .. Len(L)
    BY <1>3, <1>6, <1>8 DEF L
  <2>2. PICK j \in 1 .. c.i - 1 : x = c.order[j].region
    BY <1>6, <2>1 DEF x, L
  <2>3. j \in 1 .. Len(c.order) /\ j < c.i
    BY <1>2, <2>2
  <2>4. ~ LessThanLockRequest(c.order[c.i], c.order[j])
    BY <1>2, <1>6, <2>3 DEF IsSorted
  <2>5. c.order[c.i].region = r
    BY <1>2 DEF r
  <2>6. PrecOf(r) = Prec[r] /\ PrecOf(x) = Prec[x] /\ Address(r) = r /\ Address(x) = x
    BY <1>2, <1>3, RegionsAssumption DEF PrecOf, Address
  <2>7. ~ (Prec[r] > Prec[x]) /\ ~ (Prec[r] = Prec[x] /\ r < x)
    BY <1>5, <2>2, <2>4, <2>5, <2>6 DEF LessThanLockRequest
  <2>8. Prec[x] > Prec[r] \/ (Prec[x] = Prec[r] /\ x < r)
    BY <1>4, <1>5, <2>7
  <2> QED BY <1>5, <2>8 DEF x, r
<1>9. k <= c.sp \/ k > c.sp
  BY <1>3, <1>6
<1> QED BY <1>7, <1>8, <1>9

(* A lock is taken.                                                        *)
LEMMA LockStep ==
    ASSUME IInv, NEW t \in Threads, Lock(t)
    PROVE  IInv'
<1> DEFINE r == Current(t).region
           mode == Current(t).mode
           n == Len(lockStack[t])
<1>1. /\ InLoop(t) /\ Open(t) /\ Status(t) = "no" /\ Wants(t) /\ Free(r, mode) /\ ~ Moved(t)
      /\ pc[t] = "lock" /\ TakeLock(t, r, mode) /\ NextRequest(t)
      /\ UNCHANGED <<regionOf, created, pc, tried>>
  BY DEF Lock, Granted, Open, Wants, InLoop
<1>2. /\ call[t].i \in 1 .. Len(call[t].order) /\ Current(t) \in LockRequest
      /\ Current(t) = call[t].order[call[t].i] /\ r \in Regions
  BY <1>1, CurrentFacts DEF IInv
<1>3. mode \in Modes /\ ~ Has(t, r) /\ IsLocked(t, r) = "no"
  BY <1>1, <1>2, LockedFacts DEF Status, LockRequest
<1>4. /\ call' \in [Threads -> CallType]
      /\ \A u \in Threads : /\ call'[u].order = call[u].order
                            /\ call'[u].sp = call[u].sp /\ call'[u].fn = call[u].fn
                            /\ u # t => call'[u] = call[u]
      /\ call'[t].i = call[t].i + 1
  BY <1>1, NextRequestFacts DEF IInv
<1>5. TypeInv /\ StackInv /\ Exclusive
  BY DEF IInv
<1> HIDE DEF r, mode
<1>6. /\ owner' \in [Regions -> Threads \cup {Nobody}]
      /\ readers' \in [Regions -> SUBSET Threads]
      /\ lockStack' \in [Threads -> Seq(Regions)]
      /\ Len(lockStack'[t]) = n + 1
      /\ \A k \in 1 .. n : lockStack'[t][k] = lockStack[t][k]
      /\ lockStack'[t][n + 1] = r
      /\ \A u \in Threads : u # t => lockStack'[u] = lockStack[u]
      /\ \A u \in Threads, x \in Regions : u # t \/ x # r =>
            /\ owner'[x] = u <=> owner[x] = u
            /\ u \in readers'[x] <=> u \in readers[x]
      /\ IF mode = "rw" THEN owner'[r] = t ELSE t \in readers'[r]
      /\ StackInv' /\ Exclusive'
  BY <1>1, <1>2, <1>3, <1>5, TakeFacts
<1>7. n \in Nat /\ \A k \in 1 .. n : lockStack[t][k] \in Regions
  BY LenProperties, ElementOfSeq DEF IInv, TypeInv
<1> HIDE DEF n
<1>8. TypeInv'
  BY <1>1, <1>4, <1>6 DEF IInv, TypeInv
<1>9. CallInv'
  <2>1. /\ call[t].fn # "none" /\ call[t].sp <= n /\ IsSorted(call[t].order)
        /\ call[t].sp \in Nat /\ call[t].i \in Nat \ {0} /\ Len(call[t].order) \in Nat
        /\ \A k \in call[t].sp + 1 .. n :
              \E j \in 1 .. call[t].i - 1 : lockStack[t][k] = call[t].order[j].region
    BY <1>1, LenProperties DEF IInv, CallInv, Locking, TypeInv, CallType, n
  <2>2. call'[t].i - 1 = call[t].i /\ call'[t].i <= Len(call[t].order) + 1 /\ call[t].sp <= n + 1
    BY <1>2, <1>4, <1>7, <2>1, SMTT(20)
  <2>3. ASSUME NEW k \in call[t].sp + 1 .. n + 1
        PROVE  \E j \in 1 .. call[t].i : lockStack'[t][k] = call[t].order[j].region
    <3>1. CASE k = n + 1
      <4>1. lockStack'[t][k] = call[t].order[call[t].i].region
        BY <1>2, <1>6, <3>1 DEF r
      <4>2. call[t].i \in 1 .. call[t].i
        BY <2>1
      <4> QED BY <4>1, <4>2
    <3>2. CASE k # n + 1
      <4>1. k \in call[t].sp + 1 .. n /\ k \in 1 .. n
        BY <1>7, <2>1, <3>2
      <4>2. PICK j \in 1 .. call[t].i - 1 : lockStack[t][k] = call[t].order[j].region
        BY <2>1, <4>1
      <4>3. j \in 1 .. call[t].i /\ lockStack'[t][k] = call[t].order[j].region
        BY <1>6, <2>1, <4>1, <4>2
      <4> QED BY <4>3
    <3> QED BY <3>1, <3>2
  <2>4. Locking(t)'
    <3>1. call'[t].sp = call[t].sp /\ call'[t].fn = call[t].fn /\ call'[t].order = call[t].order
      BY <1>4
    <3>2. Len(lockStack'[t]) = n + 1
      BY <1>6
    <3> QED BY <2>1, <2>2, <2>3, <3>1, <3>2 DEF Locking
  <2>5. Reading(t)'
    BY <1>1 DEF Reading
  <2>6. \A u \in Threads : u # t => Reading(u)' /\ Locking(u)'
    BY <1>1, <1>4, <1>6, OtherCalls
  <2> QED BY <2>4, <2>5, <2>6 DEF CallInv
<1>10. OrderInv'
  <2> SUFFICES ASSUME ~ tried PROVE \A u \in Threads : call'[u].fn # "try" /\ Descends(lockStack'[u])
    BY <1>1 DEF OrderInv
  <2>1. \A u \in Threads : call[u].fn # "try" /\ Descends(lockStack[u])
    BY DEF IInv, OrderInv
  <2>2. Descends(lockStack'[t])
    <3> SUFFICES ASSUME NEW j \in 1 .. n + 1, NEW k \in 1 .. n + 1, j < k,
                        Prec[lockStack'[t][j]] >= 0, Prec[lockStack'[t][k]] >= 0
                 PROVE  Prec[lockStack'[t][j]] >= Prec[lockStack'[t][k]]
      BY <1>6 DEF Descends
    <3>1. j \in 1 .. n /\ lockStack'[t][j] = lockStack[t][j]
      BY <1>6, <1>7
    <3>2. CASE k = n + 1
      <4>1. lockStack'[t][k] = r
        BY <1>6, <3>2
      <4>2. Prec[lockStack[t][j]] >= 0 /\ Prec[Current(t).region] >= 0 /\ j \in 1 .. Len(lockStack[t])
        BY <3>1, <4>1 DEF r, n
      <4>3. \/ Prec[lockStack[t][j]] > Prec[Current(t).region]
            \/ Prec[lockStack[t][j]] = Prec[Current(t).region] /\ lockStack[t][j] < Current(t).region
        BY <1>1, <4>2, WantedComesLast
      <4>4. Prec[lockStack[t][j]] \in Int /\ Prec[r] \in Int
        BY <1>2, <1>7, <3>1, RegionsAssumption
      <4> QED BY <3>1, <4>1, <4>3, <4>4 DEF r
    <3>3. CASE k # n + 1
      <4>1. k \in 1 .. n /\ lockStack'[t][k] = lockStack[t][k]
        BY <1>6, <1>7, <3>3
      <4> QED BY <2>1, <3>1, <4>1 DEF Descends, n
    <3> QED BY <3>2, <3>3
  <2> QED BY <1>4, <1>6, <2>1, <2>2
<1>11. CreatedInv'
  <2>1. r \in created
    <3>1. r \in created \cup Threads
      BY <1>2 DEF IInv, CreatedInv, r
    <3> QED BY <1>2, <3>1, RegionsAssumption
  <2>2. ASSUME NEW x \in Regions, x \notin created PROVE owner'[x] = Nobody /\ readers'[x] = {}
    <3>1. owner[x] = Nobody /\ readers[x] = {}
      BY <2>2 DEF IInv, CreatedInv
    <3>2. \A u \in Threads : owner'[x] # u /\ u \notin readers'[x]
      BY <1>6, <2>1, <2>2, <3>1, RegionsAssumption
    <3> QED BY <1>6, <3>2
  <2> QED BY <1>1, <1>4, <2>2 DEF IInv, CreatedInv
<1>12. CoverInv'
  <2>1. \A u \in Threads : u # t =>
          (pc'[u] = "lock" /\ ~ FastPath(u)' => \A k \in 1 .. call'[u].i - 1 : Covered(u, k)')
    BY <1>1, <1>4, <1>6, OtherCovers
  <2>2. ASSUME ~ FastPath(t)', NEW k \in 1 .. call[t].i
        PROVE  Covered(t, k)'
    <3> DEFINE a == call[t].order[k]
    <3>1. ~ FastPath(t)
      BY <1>4, <2>2 DEF FastPath
    <3>2. a \in LockRequest /\ a.region \in Regions \cup Threads /\ a.mode \in Modes
      <4>1. call[t].order \in Seq(LockRequest) /\ k \in 1 .. Len(call[t].order)
        BY <1>2 DEF IInv, TypeInv, CallType
      <4>2. a \in LockRequest
        BY <4>1, ElementOfSeq
      <4> QED BY <4>2 DEF LockRequest
    <3>3. CASE k # call[t].i
      <4>1. k \in 1 .. call[t].i - 1
        BY <1>2, <3>3
      <4>2. Covered(t, k)
        BY <1>1, <3>1, <4>1 DEF IInv, CoverInv
      <4>3. CASE k > 1 /\ a.region = call[t].order[k - 1].region
        BY <1>4, <4>3 DEF Covered
      <4>4. CASE regionOf[a.obj] = a.region /\ IsLocked(t, a.region) \in {"rw", a.mode}
        <5>1. IsLocked(t, a.region) # "no"
          BY <3>2, <4>4 DEF Modes
        <5>2. a.region # r
          BY <1>3, <5>1
        <5>3. \A x \in Regions \cup Threads : x # r => IsLocked(t, x)' = IsLocked(t, x)
          BY <1>6, LockedSame
        <5>4. ASSUME NEW x \in Regions \cup Threads, x = a.region
              PROVE  Covered(t, k)'
          BY <1>1, <1>4, <4>4, <5>2, <5>3, <5>4 DEF Covered
        <5> QED BY <3>2, <5>4
      <4> QED BY <4>2, <4>3, <4>4 DEF Covered
    <3>4. CASE k = call[t].i
      <4>1. a = Current(t) /\ a.region = r /\ a.mode = mode
        BY <1>2, <3>4 DEF r, mode
      <4>2. regionOf'[a.obj] = r
        BY <1>1, <3>1, <4>1 DEF Moved, r
      <4>3. ASSUME NEW x \in Regions, x = r PROVE IsLocked(t, x)' \in {"rw", mode}
        <5>1. owner'[x] = t \/ t \in readers'[x]
          BY <1>6, <4>3
        <5>2. x \notin Threads
          BY RegionsAssumption
        <5>3. mode = "rw" => owner'[x] = t
          BY <1>6, <4>3
        <5> QED BY <1>3, <5>1, <5>2, <5>3 DEF IsLocked, Modes
      <4>4. ASSUME NEW x \in Regions, x = r PROVE Covered(t, k)'
        <5>1. call'[t].order[k] = a /\ a.region = x /\ regionOf'[a.obj] = x
          BY <1>4, <4>1, <4>2, <4>4
        <5>2. IsLocked(t, x)' \in {"rw", a.mode}
          BY <4>1, <4>3, <4>4
        <5> QED BY <5>1, <5>2 DEF Covered
      <4> QED BY <1>2, <4>4
    <3> QED BY <3>3, <3>4
  <2>3. call'[t].i - 1 = call[t].i
    BY <1>2, <1>4
  <2> QED BY <2>1, <2>2, <2>3 DEF CoverInv
<1> QED BY <1>6, <1>8, <1>9, <1>10, <1>11, <1>12 DEF IInv

-----------------------------------------------------------------------------
(* Every step keeps the invariant.                                         *)
LEMMA NextIInv == IInv /\ [Next]_vars => IInv'
<1> SUFFICES ASSUME IInv, [Next]_vars PROVE IInv'
  OBVIOUS
<1>1. CASE UNCHANGED vars
  <2>1. UNCHANGED <<owner, readers, lockStack, regionOf, created, pc, call, tried>>
    BY <1>1 DEF vars
  <2>2. TypeInv'
    BY <2>1 DEF IInv, TypeInv
  <2>3. Exclusive' /\ StackInv'
    BY <2>1, SameLocks DEF locks
  <2>4. CallInv'
    BY <2>1, OtherCalls DEF CallInv
  <2>5. OrderInv' /\ CreatedInv'
    BY <2>1 DEF IInv, OrderInv, CreatedInv
  <2>6. CoverInv'
    BY <2>1, OtherCovers DEF CoverInv
  <2> QED BY <2>2, <2>3, <2>4, <2>5, <2>6 DEF IInv
<1>2. CASE Next
  <2>1. PICK t \in Threads :
           \/ \E args \in LockArgs : Begin(t, "lock", args)
           \/ \E args \in TryLockArgs : Begin(t, "try", args)
           \/ Step(t)
           \/ \E sp \in 0 .. Cardinality(Regions) : Unlock(t, sp)
           \/ \E o \in Objects, r \in Regions : Share(t, o, r)
           \/ \E o \in Objects, r \in Regions \cup {t} : Migrate(t, o, r)
    BY <1>2 DEF Next
  <2>2. CASE \E args \in LockArgs : Begin(t, "lock", args)
    BY <2>2, BeginStep
  <2>3. CASE \E args \in TryLockArgs : Begin(t, "try", args)
    BY <2>3, BeginStep
  <2>4. CASE \E sp \in 0 .. Cardinality(Regions) : Unlock(t, sp)
    <3>1. PICK sp \in 0 .. Cardinality(Regions) : Unlock(t, sp)
      BY <2>4
    <3>2. sp \in Nat
      BY <3>1
    <3> QED BY <3>1, <3>2, UnlockStep
  <2>5. CASE \E o \in Objects, r \in Regions : Share(t, o, r)
    BY <2>5, ShareStep
  <2>6. CASE \E o \in Objects, r \in Regions \cup {t} : Migrate(t, o, r)
    BY <2>6, MigrateStep
  <2>7. CASE Step(t)
    <3>1. CASE ReadRegion(t)
      BY <3>1, ReadStep
    <3>2. CASE SkipDuplicate(t) \/ AlreadyLocked(t)
      BY <3>2, SkipStep
    <3>3. CASE Lock(t)
      BY <3>3, LockStep
    <3>4. CASE Succeed(t)
      BY <3>4, SucceedStep
    <3>5. CASE Refuse(t) \/ RaceCondition(t) \/ TryWriteFails(t)
      <4>1. pc[t] = "lock" /\ FailCall(t)
        BY <3>5 DEF Refuse, RaceCondition, TryWriteFails, Granted, Wants, Open, InLoop
      <4> QED BY <4>1, FailStep
    <3> QED BY <2>7, <3>1, <3>2, <3>3, <3>4, <3>5 DEF Step
  <2> QED BY <2>1, <2>2, <2>3, <2>4, <2>5, <2>6, <2>7
<1> QED BY <1>1, <1>2

LEMMA Invariance == Spec => []IInv
BY InitIInv, NextIInv, PTL DEF Spec

-----------------------------------------------------------------------------
(* The lock stack of a thread lists exactly the regions it has locked,     *)
(* each once, and a writer is alone: whatever PushRegionLock and           *)
(* PopRegionLocks do in calls that succeed, fail in the middle or race     *)
(* with migrations.                                                        *)
THEOREM RegionStacksOK == Spec => []StacksOK
<1>1. IInv => StacksOK
  <2> SUFFICES ASSUME IInv PROVE StacksOK
    OBVIOUS
  <2>1. ASSUME NEW t \in Threads PROVE Entries(lockStack[t], 1) = Held(t)
    <3>1. \A k \in 1 .. Len(lockStack[t]) : lockStack[t][k] \in Regions
      BY ElementOfSeq DEF IInv, TypeInv
    <3>2. \A r \in Regions : r \in Held(t) <=> Has(t, r)
      BY LockedFacts DEF Held
    <3>3. \A r \in Regions : Has(t, r) <=> \E k \in 1 .. Len(lockStack[t]) : lockStack[t][k] = r
      BY DEF IInv, StackInv
    <3>4. Held(t) \subseteq Regions
      BY DEF Held
    <3> QED BY <3>1, <3>2, <3>3, <3>4 DEF Entries
  <2> QED BY <2>1 DEF IInv, TypeInv, StackInv, Exclusive, StacksOK
<1> QED BY <1>1, Invariance, PTL

(* When LOCK or TRYLOCK of several objects succeeds, the objects are in    *)
(* the regions it has locked, in the modes asked for.                      *)
THEOREM RegionLocksCover == Spec => []LocksCover
<1>1. IInv => LocksCover
  <2> SUFFICES ASSUME IInv, NEW t \in Threads, Done(t), ~ FastPath(t),
                      NEW k \in 1 .. Len(call[t].order)
               PROVE  Covered(t, k)
    BY DEF LocksCover, Covered
  <2>1. pc[t] = "lock" /\ call[t].i > Len(call[t].order)
    BY DEF Done
  <2>2. call[t].i \in Nat /\ Len(call[t].order) \in Nat
    BY LenProperties DEF IInv, TypeInv, CallType
  <2>3. k \in 1 .. call[t].i - 1
    BY <2>1, <2>2
  <2> QED BY <2>1, <2>3 DEF IInv, CoverInv
<1> QED BY <1>1, Invariance, PTL

(* Members of a region change only while no other thread has locked it.    *)
THEOREM RegionsStable == Spec => LockedRegionsStable
<1> DEFINE Stable ==
      \A r \in Regions : Members(r, regionOf) # Members(r, regionOf') =>
          readers[r] = {} /\ (r \in created => owner[r] # Nobody)
<1>1. IInv /\ [Next]_vars => [Stable]_vars
  <2> SUFFICES ASSUME IInv, Next, NEW r \in Regions, Members(r, regionOf) # Members(r, regionOf')
               PROVE  readers[r] = {} /\ (r \in created => owner[r] # Nobody)
    BY Zenon
  <2>1. regionOf' # regionOf
    OBVIOUS
  <2>2. PICK t \in Threads, o \in Objects, q \in Regions \cup Threads :
           /\ regionOf' = [regionOf EXCEPT ![o] = q] /\ IsLocked(t, regionOf[o]) = "rw"
           /\ IsLocked(t, q) = "rw" \/ q \notin created
    <3>1. PICK t \in Threads :
           \/ \E args \in LockArgs : Begin(t, "lock", args)
           \/ \E args \in TryLockArgs : Begin(t, "try", args)
           \/ Step(t)
           \/ \E sp \in 0 .. Cardinality(Regions) : Unlock(t, sp)
           \/ \E o \in Objects, x \in Regions : Share(t, o, x)
           \/ \E o \in Objects, x \in Regions \cup {t} : Migrate(t, o, x)
      BY DEF Next
    <3>2. \/ \E o \in Objects, x \in Regions : Share(t, o, x)
          \/ \E o \in Objects, x \in Regions \cup {t} : Migrate(t, o, x)
      BY <2>1, <3>1 DEF Begin, Step, ReadRegion, SkipDuplicate, AlreadyLocked, Lock, Refuse,
            RaceCondition, TryWriteFails, FailCall, Succeed, Unlock
    <3>3. CASE \E o \in Objects, x \in Regions : Share(t, o, x)
      BY <3>3 DEF Share
    <3>4. CASE \E o \in Objects, x \in Regions \cup {t} : Migrate(t, o, x)
      BY <3>4 DEF Migrate
    <3> QED BY <3>2, <3>3, <3>4
  <2>3. r = regionOf[o] \/ r = q
    <3> SUFFICES ASSUME r # regionOf[o], r # q PROVE Members(r, regionOf) = Members(r, regionOf')
      OBVIOUS
    <3>1. \A x \in Objects : regionOf'[x] = r <=> regionOf[x] = r
      BY <2>2 DEF IInv, TypeInv
    <3> QED BY <3>1 DEF Members
  <2>4. IsLocked(t, r) = "rw" \/ r \notin created
    BY <2>2, <2>3
  <2>5. CASE IsLocked(t, r) = "rw"
    BY <2>5, LockedFacts, RegionsAssumption DEF IInv, Exclusive
  <2>6. CASE r \notin created
    BY <2>6 DEF IInv, CreatedInv
  <2> QED BY <2>4, <2>5, <2>6
<1> QED BY <1>1, Invariance, PTL DEF Spec, LockedRegionsStable

-----------------------------------------------------------------------------
(* Unless TRYLOCK has been called or a region of negative precedence is    *)
(* waited for, which LockObjects does not check, no threads wait for each  *)
(* other in a circle, for any number of threads and regions, any nesting   *)
(* of calls and any order of arguments: of the regions waited for, take    *)
(* those of least precedence, and of these the one at the highest address. *)
(* The thread that has it waits for a region of less precedence, or of the *)
(* same and at a higher address.                                           *)
THEOREM RegionsNoLockCycle == Spec => []NoLockCycle
<1>1. IInv => NoLockCycle
  <2> SUFFICES ASSUME IInv, ~ tried, NEW S \in SUBSET Threads, Circle(S),
                      \A t \in S : ~ (Prec[Current(t).region] < 0)
               PROVE  FALSE
    BY DEF NoLockCycle
  <2> DEFINE W(t) == Current(t).region
             P == {Prec[W(t)] : t \in S}
  <2>1. \A x \in Regions : Prec[x] \in Int /\ x \in 0 .. MaxAddress
    BY RegionsAssumption
  <2>2. \A t \in S : t \in Threads /\ Wants(t) /\ W(t) \in Regions
    BY CurrentFacts DEF Circle, Waits, Wants, Open, IInv
  <2>3. \A t \in S : Prec[W(t)] \in Nat /\ W(t) \in 0 .. MaxAddress
    BY <2>1, <2>2
  <2>4. \A t \in S : \E u \in S : W(t) \in Held(u)
    BY DEF Circle
  <2>5. S # {}
    BY DEF Circle
  <2> HIDE DEF W
  <2>6. ASSUME NEW u \in S, NEW x \in Held(u), Prec[x] >= 0
        PROVE  x # W(u) /\ (Prec[x] > Prec[W(u)] \/ (Prec[x] = Prec[W(u)] /\ x < W(u)))
    <3>1. x \in Regions /\ Has(u, x)
      BY <2>2, LockedFacts DEF Held
    <3>2. PICK k \in 1 .. Len(lockStack[u]) : lockStack[u][k] = x
      BY <2>2, <3>1 DEF IInv, StackInv
    <3>3. Prec[lockStack[u][k]] >= 0 /\ Prec[Current(u).region] >= 0
      BY <2>3, <2>6, <3>2 DEF W
    <3> QED BY <2>2, <3>2, <3>3, WantedComesLast DEF W
  <2>7. PICK p \in P : \A x \in P : p <= x
    <3>1. P \in SUBSET Nat /\ P # {}
      BY <2>3, <2>5
    <3> HIDE DEF P
    <3> QED BY <3>1, LeastElement
  <2>8. p \in Nat /\ \A t \in S : p <= Prec[W(t)]
    BY <2>3, <2>7
  <2> DEFINE A == {MaxAddress - W(t) : t \in {u \in S : Prec[W(u)] = p}}
  <2>9. PICK a \in A : \A x \in A : a <= x
    <3>1. A \in SUBSET Nat /\ A # {}
      BY <2>3, <2>7, RegionsAssumption
    <3> HIDE DEF A
    <3> QED BY <3>1, LeastElement
  <2>10. PICK t \in S : Prec[W(t)] = p /\ a = MaxAddress - W(t)
    BY <2>9
  <2>11. \A u \in S : Prec[W(u)] = p => W(u) <= W(t)
    <3> SUFFICES ASSUME NEW u \in S, Prec[W(u)] = p PROVE W(u) <= W(t)
      OBVIOUS
    <3>1. MaxAddress - W(t) <= MaxAddress - W(u)
      BY <2>9, <2>10
    <3> QED BY <2>3, <3>1, RegionsAssumption
  <2>12. PICK u \in S : W(t) \in Held(u)
    BY <2>4
  <2>13. Prec[W(t)] >= 0
    BY <2>3
  <2>14. Prec[W(t)] > Prec[W(u)] \/ (Prec[W(t)] = Prec[W(u)] /\ W(t) < W(u))
    BY <2>6, <2>12, <2>13
  <2> QED BY <2>3, <2>8, <2>10, <2>11, <2>14
<1> QED BY <1>1, Invariance, PTL

-----------------------------------------------------------------------------
(* Control of threads.                                                     *)

Words == [kind : Kinds, by : Controllers \cup {NoThread}]
Froms == {"run", "wait", "check"}
CtlLabels == {"idle", "look", "swap", "trylock", "lockedswap", "set", "lockedset", "signal"}
CtlEntries == [place : CtlLabels, fn : ControlFns \cup {"none"}, seen : Words]

ControlTypes ==
    /\ state \in Words
    /\ altOwner \in Controllers \cup {NoThread}
    /\ place \in ThreadPlaces /\ from \in Froms
    /\ ctl \in [Controllers -> CtlEntries]

(* What a control function has seen.                                       *)
SeenInv ==
    \A c \in Controllers :
        /\ At(c, "look") => ctl[c].fn \in ControlFns
        /\ At(c, "swap") => ctl[c].fn \in ControlFns /\ ctl[c].seen.kind \in SwapAt(ctl[c].fn)
        /\ At(c, "trylock") \/ At(c, "lockedswap") =>
              ctl[c].fn \in ControlFns /\ ctl[c].seen.kind \in LockAt(ctl[c].fn)

(* Nobody else has access but while the thread sleeps.                     *)
AccessInv == place \notin {"sleep", "paused"} => altOwner = NoThread

(* Nobody is interrupted before InterruptThread is called, and an          *)
(* interrupt is dealt with unless the thread is killed meanwhile.          *)
InterruptInv ==
    /\ place \in {"interrupt", "interrupted"} => state.kind \in {"interrupted", "killed"}
    /\ ~ interrupts =>
          /\ state.kind # "interrupted" /\ place \notin {"interrupt", "interrupted"}
          /\ \A c \in Controllers : ctl[c].fn # "interrupt"

(* Where a request can be.                                                 *)
Wanted == state.kind \in {"paused", "interrupted"} \/ (state.kind = "killed" /\ ~ interrupts)
Noticed ==
    \/ place = "handle" /\ from = "run"
    \/ place \in {"pause", "sleep", "paused"} /\ state.kind = "paused"
    \/ place \in {"interrupt", "interrupted"} /\ state.kind = "interrupted"
    \/ place \in {"exit", "gone"}
DeliveryInv == Wanted => intr \/ OnItsWay \/ Noticed

ControlInv == ControlTypes /\ SeenInv /\ AccessInv /\ InterruptInv /\ DeliveryInv

-----------------------------------------------------------------------------
(* State words.                                                            *)
LEMMA WordFacts ==
    \A kind \in Kinds : Word(kind) \in Words /\ Word(kind).kind = kind
BY DEF Word, Words

LEMMA EntryType ==
    ASSUME NEW label \in CtlLabels, NEW fn \in ControlFns \cup {"none"}, NEW seen \in Words
    PROVE  /\ Entry(label, fn, seen) \in CtlEntries
           /\ Entry(label, fn, seen).place = label /\ Entry(label, fn, seen).fn = fn
           /\ Entry(label, fn, seen).seen = seen
BY DEF Entry, CtlEntries

(* The initial state.                                                      *)
LEMMA ControlInitInv == ControlInit => ControlInv
<1> SUFFICES ASSUME ControlInit PROVE ControlInv
  OBVIOUS
<1> USE DEF ControlInit
<1>1. ControlTypes
  <2>1. state \in Words /\ Word("running") \in Words
    BY WordFacts DEF Kinds
  <2>2. Outside("idle") \in CtlEntries
    BY <2>1, EntryType DEF Outside, CtlLabels
  <2>3. ctl \in [Controllers -> CtlEntries]
    BY <2>2
  <2>4. altOwner \in Controllers \cup {NoThread} /\ place \in ThreadPlaces /\ from \in Froms
    BY DEF ThreadPlaces, Froms
  <2> QED BY <2>1, <2>3, <2>4 DEF ControlTypes
<1>2. SeenInv
  BY DEF SeenInv, At, Outside, Entry
<1>3. AccessInv /\ InterruptInv /\ DeliveryInv
  BY DEF AccessInv, InterruptInv, DeliveryInv, Wanted, Word, Outside, Entry
<1> QED BY <1>1, <1>2, <1>3 DEF ControlInv

(* Steps of the thread leave the control functions alone.                  *)
LEMMA OthersSame ==
    ASSUME ControlInv, UNCHANGED others
    PROVE  SeenInv' /\ (OnItsWay' <=> OnItsWay) /\ ctl' \in [Controllers -> CtlEntries]
<1>1. ctl' = ctl /\ interrupts' = interrupts
  BY DEF others
<1> QED BY <1>1 DEF ControlInv, ControlTypes, SeenInv, OnItsWay, At

(* The steps of the thread.                                                *)
LEMMA ThreadStepIInv ==
    ASSUME ControlInv, ThreadStep \/ WaitForMonitor \/ Finish \/ SpuriousWakeup
    PROVE  ControlInv'
<1> USE DEF Goto, monitor
<1>0. UNCHANGED others
  BY DEF ThreadStep, WaitForMonitor, Finish, SpuriousWakeup, ExecIntrStat, HandleInterrupts,
         TerminateCurrentThread, PauseCurrentThread, InterruptCurrentThread, LockThread,
         CheckAcquired, Block, CondWait, Wake, Unblock, LeaveMonitor, Exit
<1>1. SeenInv' /\ (OnItsWay' <=> OnItsWay)
      /\ ctl' \in [Controllers -> CtlEntries]
  BY <1>0, OthersSame
<1>2. ctl' = ctl /\ interrupts' = interrupts
  BY <1>0 DEF others
<1>3. /\ state \in Words /\ altOwner \in Controllers \cup {NoThread} /\ place \in ThreadPlaces /\ from \in Froms
      /\ state.kind \in Kinds /\ state.by \in Controllers \cup {NoThread}
  BY DEF ControlInv, ControlTypes, Words
<1>4. AccessInv /\ InterruptInv /\ DeliveryInv
  BY DEF ControlInv
<1> SUFFICES /\ state' \in Words /\ altOwner' \in Controllers \cup {NoThread} /\ place' \in ThreadPlaces /\ from' \in Froms
             /\ AccessInv' /\ InterruptInv' /\ DeliveryInv'
  BY <1>1 DEF ControlInv, ControlTypes
<1> USE DEF AccessInv, InterruptInv, DeliveryInv, Wanted, Noticed, ThreadPlaces, Froms
<1>5. CASE ExecIntrStat
  BY <1>1, <1>2, <1>3, <1>4, <1>5 DEF ExecIntrStat
<1>6. CASE HandleInterrupts
  BY <1>1, <1>2, <1>3, <1>4, <1>6 DEF HandleInterrupts, TerminateCurrentThread, ReturnFromHandler
<1>7. CASE PauseCurrentThread
  BY <1>1, <1>2, <1>3, <1>4, <1>7 DEF PauseCurrentThread, TerminateCurrentThread, ReturnFromHandler
<1>8. CASE InterruptCurrentThread
  BY <1>1, <1>2, <1>3, <1>4, <1>8, WordFacts DEF InterruptCurrentThread, Kinds
<1>9. CASE LockThread \/ CheckAcquired \/ LeaveMonitor
  BY <1>1, <1>2, <1>3, <1>4, <1>9 DEF LockThread, CheckAcquired, LeaveMonitor
<1>10. CASE Block \/ Unblock
  BY <1>1, <1>2, <1>3, <1>4, <1>10, WordFacts DEF Block, Unblock, Kinds
<1>11. CASE CondWait \/ Wake \/ SpuriousWakeup
  BY <1>1, <1>2, <1>3, <1>4, <1>11 DEF CondWait, Wake, SpuriousWakeup, Asleep
<1>12. CASE WaitForMonitor \/ Finish
  BY <1>1, <1>2, <1>3, <1>4, <1>12 DEF WaitForMonitor, Finish
<1>13. CASE Exit
  BY <1>1, <1>2, <1>3, <1>4, <1>13, WordFacts DEF Exit, Kinds
<1> QED BY <1>5, <1>6, <1>7, <1>8, <1>9, <1>10, <1>11, <1>12, <1>13 DEF ThreadStep

(* SignalMonitor touches nothing the invariant is about.                   *)
LEMMA SignalIInv ==
    ASSUME ControlInv, SignalLock \/ SignalMonitor
    PROVE  ControlInv'
<1>1. UNCHANGED <<state, intr, altOwner, place, from, ctl, interrupts>>
  BY DEF SignalLock, SignalMonitor, monitor
<1> QED BY <1>1 DEF ControlInv, ControlTypes, SeenInv, AccessInv, InterruptInv, DeliveryInv, Wanted,
                    Noticed, OnItsWay, At

(* What the functions make of the states they have seen.                   *)
LEMMA NewStateFacts ==
    ASSUME NEW c \in Controllers, NEW fn \in ControlFns
    PROVE  /\ NewState(fn, c) \in Words
           /\ NewState(fn, c).kind \in {"running", "paused", "killed", "interrupted"}
           /\ NewState(fn, c).kind = "interrupted" => fn = "interrupt"
           /\ SwapAt(fn) \subseteq {"running", "interrupted"}
           /\ LockAt(fn) \subseteq {"blocked", "paused"}
           /\ "interrupted" \in SwapAt(fn) => NewState(fn, c).kind = "killed"
<1>1. [kind |-> "paused", by |-> c] \in Words
  BY DEF Words, Kinds
<1> QED BY <1>1, WordFacts DEF NewState, SwapAt, LockAt, ControlFns, Kinds

(* The entry of one control function changes.                              *)
LEMMA EntryFacts ==
    ASSUME ControlInv, NEW c \in Controllers,
           NEW e \in CtlEntries,
           ctl' = [ctl EXCEPT ![c] = e],
           e.place = "look" => e.fn \in ControlFns,
           e.place = "swap" => e.fn \in ControlFns /\ e.seen.kind \in SwapAt(e.fn),
           e.place \in {"trylock", "lockedswap"} => e.fn \in ControlFns /\ e.seen.kind \in LockAt(e.fn)
    PROVE  /\ ctl' \in [Controllers -> CtlEntries]
           /\ ctl'[c] = e /\ \A d \in Controllers : d # c => ctl'[d] = ctl[d]
           /\ SeenInv'
           /\ OnItsWay /\ ctl[c].place \notin {"set", "lockedset"} => OnItsWay'
           /\ e.place \in {"set", "lockedset"} => OnItsWay'
<1>1. ctl \in [Controllers -> CtlEntries] /\ SeenInv
  BY DEF ControlInv, ControlTypes
<1>2. /\ ctl' \in [Controllers -> CtlEntries]
      /\ ctl'[c] = e /\ \A d \in Controllers : d # c => ctl'[d] = ctl[d]
  BY <1>1
<1>3. SeenInv'
  BY <1>1, <1>2 DEF SeenInv, At
<1>4. /\ OnItsWay /\ ctl[c].place \notin {"set", "lockedset"} => OnItsWay'
      /\ e.place \in {"set", "lockedset"} => OnItsWay'
  BY <1>2 DEF OnItsWay, At
<1> QED BY <1>2, <1>3, <1>4

(* A control function goes on and leaves the state of the thread alone.    *)
LEMMA QuietControl ==
    ASSUME ControlInv, NEW c \in Controllers,
           NEW label \in CtlLabels, NEW fn \in ControlFns \cup {"none"}, NEW seen \in Words,
           ctl' = [ctl EXCEPT ![c] = Entry(label, fn, seen)],
           label = "look" => fn \in ControlFns,
           label = "swap" => fn \in ControlFns /\ seen.kind \in SwapAt(fn),
           label \in {"trylock", "lockedswap"} => fn \in ControlFns /\ seen.kind \in LockAt(fn),
           UNCHANGED <<state, altOwner, place, from>>,
           intr => intr',
           ctl[c].place \in {"set", "lockedset"} => intr',
           interrupts => interrupts', fn = "interrupt" => interrupts'
    PROVE  ControlInv'
<1> DEFINE e == Entry(label, fn, seen)
<1>0. e \in CtlEntries /\ e.place = label /\ e.fn = fn /\ e.seen = seen
  BY EntryType
<1> HIDE DEF e
<1>1. /\ ctl' \in [Controllers -> CtlEntries]
      /\ ctl'[c] = e /\ \A d \in Controllers : d # c => ctl'[d] = ctl[d]
      /\ SeenInv'
      /\ OnItsWay /\ ctl[c].place \notin {"set", "lockedset"} => OnItsWay'
  <2>1. ctl' = [ctl EXCEPT ![c] = e]
    BY DEF e
  <2> QED BY <1>0, <2>1, EntryFacts
<1>2. ControlTypes'
  BY <1>1 DEF ControlInv, ControlTypes
<1>3. AccessInv'
  BY DEF ControlInv, AccessInv
<1>4. InterruptInv'
  BY <1>0, <1>1 DEF ControlInv, InterruptInv
<1>5. DeliveryInv'
  BY <1>1 DEF ControlInv, DeliveryInv, Wanted, Noticed
<1> QED BY <1>1, <1>2, <1>3, <1>4, <1>5 DEF ControlInv

LEMMA QuietForget ==
    ASSUME ControlInv, NEW c \in Controllers, NEW label \in {"idle", "signal"},
           ctl' = [ctl EXCEPT ![c] = Entry(label, "none", Word("running"))],
           UNCHANGED <<state, altOwner, place, from>>,
           intr => intr',
           ctl[c].place \in {"set", "lockedset"} => intr',
           interrupts => interrupts'
    PROVE  ControlInv'
<1>1. /\ label \in CtlLabels /\ "none" \in ControlFns \cup {"none"} /\ "none" # "interrupt"
      /\ label \notin {"look", "swap", "trylock", "lockedswap"}
  BY DEF CtlLabels
<1>2. Word("running") \in Words
  BY WordFacts DEF Kinds
<1> DEFINE fn == "none"  seen == Word("running")
<1>3. /\ fn \in ControlFns \cup {"none"} /\ seen \in Words /\ fn # "interrupt"
      /\ ctl' = [ctl EXCEPT ![c] = Entry(label, fn, seen)]
  BY <1>1, <1>2
<1> HIDE DEF fn, seen
<1> QED BY <1>1, <1>3, QuietControl

(* Call, GetThreadState, TryLock, SetInterrupt, SignalThread.              *)
LEMMA QuietSteps ==
    ASSUME ControlInv, NEW c \in Controllers,
           (\E fn \in ControlFns : Call(c, fn)) \/ GetThreadState(c) \/ TryLock(c)
              \/ SetInterrupt(c) \/ SignalThread(c)
    PROVE  ControlInv'
<1>1. /\ state \in Words /\ Word("running") \in Words
      /\ ctl[c].fn \in ControlFns \cup {"none"} /\ ctl[c].seen \in Words
  BY WordFacts DEF ControlInv, ControlTypes, Kinds, CtlEntries
<1>2. {"look", "swap", "trylock", "lockedswap", "idle", "signal"} \subseteq CtlLabels
  BY DEF CtlLabels
<1>3. ~ interrupts => \A d \in Controllers : ctl[d].fn # "interrupt"
  BY DEF ControlInv, InterruptInv
<1>4. CASE \E fn \in ControlFns : Call(c, fn)
  <2>1. PICK fn \in ControlFns : Call(c, fn)
    BY <1>4
  <2>2. /\ ctl[c].place = "idle" /\ ctl' = [ctl EXCEPT ![c] = Entry("look", fn, Word("running"))]
        /\ UNCHANGED <<state, altOwner, place, from>> /\ intr' = intr
        /\ interrupts' = (interrupts \/ fn = "interrupt")
    BY <2>1 DEF Call, Goes, thread, At
  <2> QED BY <1>1, <1>2, <2>2, QuietControl
<1>5. CASE GetThreadState(c)
  <2>1. ctl[c].fn \in ControlFns /\ ctl[c].place = "look"
    BY <1>5 DEF GetThreadState, ControlInv, SeenInv, At
  <2>2. UNCHANGED <<state, altOwner, place, from>> /\ intr' = intr /\ interrupts' = interrupts
    BY <1>5 DEF GetThreadState, thread
  <2>3. CASE state.kind \in SwapAt(ctl[c].fn)
    <3>1. ctl' = [ctl EXCEPT ![c] = Entry("swap", ctl[c].fn, state)]
      BY <1>5, <2>3 DEF GetThreadState, Goes
    <3> QED BY <1>1, <1>2, <1>3, <2>1, <2>2, <2>3, <3>1, QuietControl
  <2>4. CASE state.kind \notin SwapAt(ctl[c].fn) /\ state.kind \in LockAt(ctl[c].fn)
    <3>1. ctl' = [ctl EXCEPT ![c] = Entry("trylock", ctl[c].fn, state)]
      BY <1>5, <2>4 DEF GetThreadState, Goes
    <3> QED BY <1>1, <1>2, <1>3, <2>1, <2>2, <2>4, <3>1, QuietControl
  <2>5. CASE state.kind \notin SwapAt(ctl[c].fn) /\ state.kind \notin LockAt(ctl[c].fn)
    <3>1. ctl' = [ctl EXCEPT ![c] = Entry("idle", "none", Word("running"))]
      BY <1>5, <2>5 DEF GetThreadState, Forget, Outside
    <3> QED BY <2>1, <2>2, <3>1, QuietForget
  <2> QED BY <2>3, <2>4, <2>5
<1>6. CASE TryLock(c)
  <2>1. /\ ctl[c].place = "trylock" /\ ctl' = [ctl EXCEPT ![c] = Entry("lockedswap", ctl[c].fn, ctl[c].seen)]
        /\ UNCHANGED <<state, altOwner, place, from>> /\ intr' = intr /\ interrupts' = interrupts
    BY <1>6 DEF TryLock, Goes, thread, At
  <2>2. ctl[c].fn \in ControlFns /\ ctl[c].seen.kind \in LockAt(ctl[c].fn)
    BY <2>1 DEF ControlInv, SeenInv, At
  <2> QED BY <1>1, <1>2, <1>3, <2>1, <2>2, QuietControl
<1>7. CASE SetInterrupt(c) \/ SignalThread(c)
  <2>1. PICK label \in {"idle", "signal"} : ctl' = [ctl EXCEPT ![c] = Entry(label, "none", Word("running"))]
    BY <1>7 DEF SetInterrupt, SignalThread, Forget, Outside
  <2>2. /\ UNCHANGED <<state, altOwner, place, from>> /\ interrupts' = interrupts
        /\ (intr => intr') /\ (ctl[c].place \in {"set", "lockedset"} => intr')
    BY <1>7 DEF SetInterrupt, SignalThread, thread, At
  <2> QED BY <2>1, <2>2, QuietForget
<1> QED BY <1>4, <1>5, <1>6, <1>7

(* The swap of the state.                                                  *)
LEMMA SwapSteps ==
    ASSUME ControlInv, NEW c \in Controllers, UpdateThreadState(c) \/ LockedUpdate(c)
    PROVE  ControlInv'
<1>1. /\ state \in Words /\ Word("running") \in Words
      /\ ctl[c].fn \in ControlFns \cup {"none"} /\ ctl[c].seen \in Words
  BY WordFacts DEF ControlInv, ControlTypes, Kinds, CtlEntries
<1>2. {"look", "idle", "set", "lockedset"} \subseteq CtlLabels
  BY DEF CtlLabels
<1>3. /\ ctl[c].place \in {"swap", "lockedswap"} /\ ctl[c].fn \in ControlFns
      /\ ctl[c].seen.kind \in SwapAt(ctl[c].fn) \cup LockAt(ctl[c].fn)
  BY DEF UpdateThreadState, LockedUpdate, ControlInv, SeenInv, At
<1>4. UNCHANGED <<altOwner, place, from>> /\ intr' = intr /\ interrupts' = interrupts
  BY DEF UpdateThreadState, LockedUpdate, thread
<1>5. ~ interrupts => \A d \in Controllers : ctl[d].fn # "interrupt"
  BY DEF ControlInv, InterruptInv
<1>6. CASE state # ctl[c].seen
  <2>1. state' = state /\ \/ ctl' = [ctl EXCEPT ![c] = Entry("look", ctl[c].fn, Word("running"))]
                          \/ ctl' = [ctl EXCEPT ![c] = Entry("idle", "none", Word("running"))]
    BY <1>6 DEF UpdateThreadState, LockedUpdate, Goes, Forget, Outside
  <2> QED BY <1>1, <1>2, <1>3, <1>4, <1>5, <2>1, QuietControl
<1>7. CASE state = ctl[c].seen
  <2> DEFINE fn == ctl[c].fn
  <2>1. PICK label \in {"set", "lockedset"} :
           state' = NewState(fn, c) /\ ctl' = [ctl EXCEPT ![c] = Entry(label, "none", Word("running"))]
    BY <1>7 DEF UpdateThreadState, LockedUpdate, Forget, Outside
  <2>2. /\ ctl' \in [Controllers -> CtlEntries]
        /\ ctl'[c].fn = "none" /\ \A d \in Controllers : d # c => ctl'[d] = ctl[d]
        /\ SeenInv' /\ OnItsWay'
    <3> DEFINE e == Entry(label, "none", Word("running"))
    <3>1. e \in CtlEntries /\ e.place = label /\ e.fn = "none"
      BY <1>1, <1>2, EntryType
    <3>2. ctl' = [ctl EXCEPT ![c] = e]
      BY <2>1
    <3> HIDE DEF e
    <3>3. e.place \notin {"look", "swap", "trylock", "lockedswap"}
      BY <3>1
    <3> QED BY <3>1, <3>2, <3>3, EntryFacts
  <2>3. /\ state' \in Words
        /\ state'.kind \in {"running", "paused", "killed", "interrupted"}
        /\ state'.kind = "interrupted" => fn = "interrupt"
        /\ state.kind = "interrupted" => state'.kind = "killed"
        /\ state.kind # "killed"
    BY <1>3, <1>7, <2>1, NewStateFacts
  <2>4. ControlTypes' /\ AccessInv'
    BY <1>4, <2>2, <2>3 DEF ControlInv, ControlTypes, AccessInv
  <2>5. InterruptInv'
    BY <1>4, <1>5, <2>2, <2>3 DEF ControlInv, InterruptInv
  <2>6. DeliveryInv'
    BY <2>2 DEF DeliveryInv
  <2> QED BY <2>2, <2>4, <2>5, <2>6 DEF ControlInv
<1> QED BY <1>6, <1>7

LEMMA ControlNextInv == ControlInv /\ [ControlNext]_controlVars => ControlInv'
<1> SUFFICES ASSUME ControlInv, [ControlNext]_controlVars PROVE ControlInv'
  OBVIOUS
<1>1. CASE UNCHANGED controlVars
  BY <1>1 DEF controlVars, ControlInv, ControlTypes, SeenInv, AccessInv, InterruptInv, DeliveryInv, Wanted,
              Noticed, OnItsWay, At
<1>2. CASE ControlNext
  BY <1>2, ThreadStepIInv, SignalIInv, QuietSteps, SwapSteps DEF ControlNext, ControlStep
<1> QED BY <1>1, <1>2

LEMMA ControlInvariance == ControlSpec => []ControlInv
BY ControlInitInv, ControlNextInv, PTL DEF ControlSpec

-----------------------------------------------------------------------------
(* No pause and no interrupt is lost, whatever the calls of any number of  *)
(* threads do to the thread and wherever it is; and while it executes      *)
(* statements, it is alone with its region.                                *)
THEOREM ThreadUndisturbed == ControlSpec => []RunningUndisturbed
<1>1. ControlInv => RunningUndisturbed
  BY DEF ControlInv, ControlTypes, Words, AccessInv, DeliveryInv, Wanted, Noticed, RunningUndisturbed
<1> QED BY <1>1, ControlInvariance, PTL

(* No compare-and-swap that is based on an older state, and no step of the *)
(* thread itself, takes back a kill.                                       *)
THEOREM ThreadKillIsFinal == ControlSpec => KillIsFinal
<1> DEFINE Final == /\ state.kind = "killed" => state'.kind \in {"killed", "terminated"}
                    /\ state.kind = "terminated" => state'.kind = "terminated"
<1>1. ControlInv /\ [ControlNext]_controlVars => [Final]_controlVars
  <2> SUFFICES ASSUME ControlInv, ControlNext PROVE Final
    BY Zenon
  <2>1. state' = state => Final
    OBVIOUS
  <2>2. Word("terminated").kind = "terminated"
    BY DEF Word
  <2>3. CASE ThreadStep
    BY <2>2, <2>3 DEF ThreadStep, ExecIntrStat, HandleInterrupts, TerminateCurrentThread,
         PauseCurrentThread, InterruptCurrentThread, LockThread, CheckAcquired, Block, CondWait,
         Wake, Unblock, LeaveMonitor, Exit
  <2>4. CASE WaitForMonitor \/ Finish \/ SpuriousWakeup \/ SignalLock \/ SignalMonitor
    BY <2>1, <2>4 DEF WaitForMonitor, Finish, SpuriousWakeup, SignalLock, SignalMonitor
  <2>5. ASSUME NEW c \in Controllers, UpdateThreadState(c) \/ LockedUpdate(c) PROVE Final
    <3>1. /\ ctl[c].fn \in ControlFns
          /\ ctl[c].seen.kind \in SwapAt(ctl[c].fn) \cup LockAt(ctl[c].fn)
      BY <2>5 DEF UpdateThreadState, LockedUpdate, ControlInv, SeenInv, At
    <3>2. state' = state \/ state = ctl[c].seen
      BY <2>5 DEF UpdateThreadState, LockedUpdate
    <3>3. ctl[c].seen.kind \notin {"killed", "terminated"}
      BY <3>1, NewStateFacts
    <3> QED BY <2>1, <3>2, <3>3
  <2>6. ASSUME NEW c \in Controllers,
               (\E fn \in ControlFns : Call(c, fn)) \/ GetThreadState(c) \/ TryLock(c)
                  \/ SetInterrupt(c) \/ SignalThread(c)
        PROVE  Final
    BY <2>1, <2>6 DEF Call, GetThreadState, TryLock, SetInterrupt, SignalThread
  <2> QED BY <2>3, <2>4, <2>5, <2>6 DEF ControlNext, ControlStep
<1> QED BY <1>1, ControlInvariance, PTL DEF ControlSpec, KillIsFinal
=============================================================================
