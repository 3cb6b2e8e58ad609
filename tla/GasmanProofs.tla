---------------------------- MODULE GasmanProofs ----------------------------
(***************************************************************************)
(* Proofs about Gasman, for workspaces of every size: each operation of    *)
(* the storage manager takes a sound workspace to a sound one, and leaves  *)
(* the bags of the program as they are.                                    *)
(*                                                                         *)
(* A workspace is sound (Sound) with the set W of the headers that the     *)
(* sweeper passes: the areas are in order (Areas), the bodies adjoin and   *)
(* are those of the live bags (Tiles), their words are identifiers of live *)
(* bags or tell of dead ones (WordsOK), the link words are those of the    *)
(* list of changed bags (LinksOK), the other masterpointers are free or    *)
(* kept for dead weak pointers (MptrsOK), old bags that are not on the     *)
(* list refer to no young bag (RemembersOK), and the free area is zero     *)
(* (ZeroOK).                                                               *)
(*                                                                         *)
(* Every operation has a lemma on the fields it leaves and one on          *)
(* soundness. The sweep has a loop invariant of its own (Sweeping); the    *)
(* loops are recursive functions, and facts about all their rounds are     *)
(* proved from the first round that breaks them.                           *)
(***************************************************************************)
EXTENDS Heap, FiniteSetTheorems, WellFoundedInduction, TLAPS

-----------------------------------------------------------------------------
(* Sets of numbers, and closures: what Closure finds in as many rounds as  *)
(* there are elements.                                                     *)

(* Every set of natural numbers has a least one.                           *)
LEMMA NatLeast ==
    ASSUME NEW S \in SUBSET Nat, S # {}
    PROVE  \E m \in S : \A n \in S : m <= n
<1>1. PICK m \in S : \A j \in S : ~ (<<j, m>> \in OpToRel(<, Nat))
  BY NatLessThanWellFounded, WFMin
<1>2. \A c, d \in Nat : c < d => <<c, d>> \in OpToRel(<, Nat)
  BY DEF OpToRel
<1>3. \A j \in S : ~ (j < m)
  BY <1>1, <1>2, Zenon
<1> QED BY <1>3

(* A bounded set of integers has a greatest one.                           *)
LEMMA IntGreatest ==
    ASSUME NEW S \in SUBSET Int, S # {}, NEW top \in Int, \A n \in S : n <= top
    PROVE  \E m \in S : \A n \in S : n <= m
<1> DEFINE D == {top - m : m \in S}
<1>1. D \in SUBSET Nat /\ D # {}
  <2>1. \A m \in S : top - m \in Nat
    OBVIOUS
  <2> QED BY <2>1
<1>2. PICK i \in D : \A j \in D : i <= j
  BY <1>1, NatLeast
<1>3. PICK m \in S : i = top - m
  BY <1>2
<1>4. ASSUME NEW n \in S PROVE n <= m
  <2>1. i <= top - n
    BY <1>2
  <2> QED BY <1>3, <2>1
<1> QED BY <1>4

-----------------------------------------------------------------------------
Reaches(f, S, next, N) == f = [n \in 0 .. N |-> IF n = 0 THEN S ELSE OneMore(f[n - 1], next)]

(* The rounds of Closure are well defined.                                 *)
LEMMA RoundsExist ==
    ASSUME NEW S, NEW next, NEW N \in Nat
    PROVE  \E f : Reaches(f, S, next, N)
<1> DEFINE Bad == {m \in Nat : ~ \E f : Reaches(f, S, next, m)}
<1> SUFFICES ASSUME Bad # {} PROVE FALSE
  OBVIOUS
<1>1. PICK m \in Bad : \A n \in Bad : m <= n
  BY NatLeast
<1>2. CASE m = 0
  <2> DEFINE f == [n \in 0 .. 0 |-> S]
  <2>1. Reaches(f, S, next, 0)
    BY DEF Reaches
  <2> QED BY <1>1, <1>2, <2>1
<1>3. CASE m # 0
  <2>1. m - 1 \in Nat /\ m - 1 \notin Bad
    BY <1>1, <1>3
  <2>2. PICK f : Reaches(f, S, next, m - 1)
    BY <2>1
  <2> DEFINE g == [n \in 0 .. m |-> IF n < m THEN f[n] ELSE OneMore(f[m - 1], next)]
  <2>3. f = [n \in 0 .. m - 1 |-> IF n = 0 THEN S ELSE OneMore(f[n - 1], next)]
    BY <2>2 DEF Reaches
  <2>4. \A n \in 0 .. m - 1 : f[n] = IF n = 0 THEN S ELSE OneMore(f[n - 1], next)
    BY <2>3
  <2>5. \A n \in 0 .. m : g[n] = IF n = 0 THEN S ELSE OneMore(g[n - 1], next)
    BY <1>3, <2>4
  <2>6. Reaches(g, S, next, m)
    BY <2>5 DEF Reaches
  <2> QED BY <1>1, <2>6
<1> QED BY <1>2, <1>3

(* Closure as its last round.                                              *)
LEMMA ClosureRounds ==
    ASSUME NEW S, NEW next, NEW N \in Nat
    PROVE  \E f : /\ Closure(S, next, N) = f[N]
                  /\ f[0] = S
                  /\ \A n \in 1 .. N : f[n] = OneMore(f[n - 1], next)
<1> DEFINE f == CHOOSE f : Reaches(f, S, next, N)
<1>1. Reaches(f, S, next, N)
  BY RoundsExist
<1>2. Closure(S, next, N) = f[N]
  BY DEF Closure, Reaches
<1>3. f = [n \in 0 .. N |-> IF n = 0 THEN S ELSE OneMore(f[n - 1], next)]
  BY <1>1 DEF Reaches
<1> HIDE DEF f
<1>4. \A n \in 0 .. N : f[n] = IF n = 0 THEN S ELSE OneMore(f[n - 1], next)
  BY <1>3
<1>5. f[0] = S /\ \A n \in 1 .. N : f[n] = OneMore(f[n - 1], next)
  BY <1>4
<1> QED BY <1>2, <1>5

(* Closure is within every set that holds S and is closed under next.      *)
LEMMA ClosureLeast ==
    ASSUME NEW S, NEW next, NEW N \in Nat, NEW D, S \subseteq D,
           \A x \in D \cap DOMAIN next : next[x] \subseteq D
    PROVE  S \subseteq Closure(S, next, N) /\ Closure(S, next, N) \subseteq D
<1>1. PICK f : /\ Closure(S, next, N) = f[N]
               /\ f[0] = S
               /\ \A n \in 1 .. N : f[n] = OneMore(f[n - 1], next)
  BY ClosureRounds
<1> DEFINE Bad == {n \in 0 .. N : ~ (S \subseteq f[n] /\ f[n] \subseteq D)}
<1> SUFFICES ASSUME Bad # {} PROVE FALSE
  BY <1>1
<1>2. PICK m \in Bad : \A n \in Bad : m <= n
  <2>1. Bad \in SUBSET Nat
    OBVIOUS
  <2> QED BY <2>1, NatLeast
<1>3. m # 0
  BY <1>1, <1>2
<1>4. m - 1 \in 0 .. N /\ m - 1 \notin Bad /\ m \in 1 .. N
  BY <1>2, <1>3
<1>5. S \subseteq f[m - 1] /\ f[m - 1] \subseteq D
  BY <1>4
<1>6. f[m] = OneMore(f[m - 1], next)
  BY <1>1, <1>4
<1> HIDE DEF Bad
<1>7. S \subseteq f[m] /\ f[m] \subseteq D
  BY <1>5, <1>6 DEF OneMore
<1> QED BY <1>2, <1>7 DEF Bad

(* As many rounds as there are elements are enough.                        *)
LEMMA ClosureClosed ==
    ASSUME NEW S, NEW next, NEW N \in Nat, NEW D, S \subseteq D,
           \A x \in D \cap DOMAIN next : next[x] \subseteq D,
           IsFiniteSet(D), Cardinality(D) <= N
    PROVE  \A x \in Closure(S, next, N) \cap DOMAIN next : next[x] \subseteq Closure(S, next, N)
<1>1. PICK f : /\ Closure(S, next, N) = f[N]
               /\ f[0] = S
               /\ \A n \in 1 .. N : f[n] = OneMore(f[n - 1], next)
  BY ClosureRounds
<1> SUFFICES ASSUME NEW x \in f[N] \cap DOMAIN next, ~ (next[x] \subseteq f[N])
             PROVE  FALSE
  BY <1>1
<1>2. OneMore(f[N], next) # f[N]
  BY DEF OneMore
<1>3. ASSUME NEW n \in 0 .. N PROVE OneMore(f[n], next) # f[n]
  <2> SUFFICES ASSUME OneMore(f[n], next) = f[n] PROVE f[N] = f[n]
    BY <1>2
  <2> DEFINE Bad == {m \in n .. N : f[m] # f[n]}
  <2> SUFFICES ASSUME Bad # {} PROVE FALSE
    OBVIOUS
  <2>1. Bad \in SUBSET Nat
    OBVIOUS
  <2>2. PICK m \in Bad : \A k \in Bad : m <= k
    BY <2>1, NatLeast
  <2>3. m - 1 \in n .. N /\ m - 1 \notin Bad /\ m \in 1 .. N
    BY <2>2
  <2>4. f[m] = OneMore(f[n], next)
    BY <1>1, <2>3
  <2> QED BY <2>2, <2>4
<1>4. ASSUME NEW n \in 0 .. N PROVE f[n] \subseteq D
  <2> DEFINE Bad == {k \in 0 .. N : ~ (f[k] \subseteq D)}
  <2> SUFFICES ASSUME Bad # {} PROVE FALSE
    OBVIOUS
  <2>1. Bad \in SUBSET Nat
    OBVIOUS
  <2>2. PICK m \in Bad : \A k \in Bad : m <= k
    BY <2>1, NatLeast
  <2>3. m # 0
    BY <1>1, <2>2
  <2>4. m - 1 \in 0 .. N /\ m - 1 \notin Bad /\ m \in 1 .. N
    BY <2>2, <2>3
  <2>5. f[m - 1] \subseteq D /\ f[m] = OneMore(f[m - 1], next)
    BY <1>1, <2>4
  <2> HIDE DEF Bad
  <2>6. f[m] \subseteq D
    BY <2>5 DEF OneMore
  <2> QED BY <2>2, <2>6 DEF Bad
<1>5. ASSUME NEW n \in 0 .. N PROVE IsFiniteSet(f[n]) /\ Cardinality(f[n]) \in Nat
  BY <1>4, FS_Subset, FS_CardinalityType
<1>6. f[0] # {}
  BY <1>3 DEF OneMore
<1>7. ASSUME NEW n \in 0 .. N PROVE Cardinality(f[n]) >= n + 1
  <2> DEFINE Bad == {k \in 0 .. N : ~ (Cardinality(f[k]) >= k + 1)}
  <2> SUFFICES ASSUME Bad # {} PROVE FALSE
    OBVIOUS
  <2>1. Bad \in SUBSET Nat
    OBVIOUS
  <2>2. PICK m \in Bad : \A k \in Bad : m <= k
    BY <2>1, NatLeast
  <2>3. Cardinality(f[0]) # 0
    BY <1>5, <1>6, FS_EmptySet
  <2>4. m # 0
    BY <1>5, <2>2, <2>3
  <2>5. m - 1 \in 0 .. N /\ m - 1 \notin Bad /\ m \in 1 .. N
    BY <2>2, <2>4
  <2>6. Cardinality(f[m - 1]) >= m
    BY <2>5
  <2>7. f[m] = OneMore(f[m - 1], next) /\ f[m] # f[m - 1]
    BY <1>1, <1>3, <2>5
  <2>8. f[m - 1] \subseteq f[m]
    BY <2>7 DEF OneMore
  <2>9. IsFiniteSet(f[m]) /\ Cardinality(f[m]) \in Nat /\ Cardinality(f[m - 1]) \in Nat
    BY <1>5, <2>5
  <2>10. Cardinality(f[m - 1]) <= Cardinality(f[m]) /\ Cardinality(f[m - 1]) # Cardinality(f[m])
    BY <2>7, <2>8, <2>9, FS_Subset
  <2>11. Cardinality(f[m]) >= m + 1
    BY <2>5, <2>6, <2>9, <2>10
  <2> QED BY <2>2, <2>11
<1>8. Cardinality(f[N]) <= Cardinality(D) /\ Cardinality(f[N]) \in Nat /\ Cardinality(D) \in Nat
  BY <1>4, <1>5, FS_Subset, FS_CardinalityType
<1>9. Cardinality(f[N]) >= N + 1
  BY <1>7
<1> QED BY <1>8, <1>9

-----------------------------------------------------------------------------
(* Linked lists: the free masterpointers and the changed bags.             *)

(* A linked list of the elements of C, from head on: next[b] is the        *)
(* successor of b, 0 after the last one.  The last conjunct says that the  *)
(* elements are those that can be reached from the head.                   *)
Chain(head, next, C) ==
    /\ 0 \notin C /\ head \in C \cup {0}
    /\ \A b \in C : next[b] \in C \cup {0} /\ next[b] # head
    /\ \A b, c \in C : next[b] = next[c] => b = c
    /\ \A T \in SUBSET C :
          head \in T \cup {0} /\ (\A b \in T : next[b] \in T \cup {0}) => T = C

(* The list depends only on the successors of its elements.                *)
LEMMA ChainSame ==
    ASSUME NEW h, NEW f, NEW g, NEW C, Chain(h, f, C), \A b \in C : g[b] = f[b]
    PROVE  Chain(h, g, C)
<1>1. \A T \in SUBSET C :
          h \in T \cup {0} /\ (\A b \in T : g[b] \in T \cup {0}) => T = C
  <2> SUFFICES ASSUME NEW T \in SUBSET C, h \in T \cup {0}, \A b \in T : g[b] \in T \cup {0}
               PROVE  T = C
    OBVIOUS
  <2>1. \A b \in T : f[b] \in T \cup {0}
    OBVIOUS
  <2> QED BY <2>1 DEF Chain
<1> QED BY <1>1 DEF Chain

(* An element is put in front.                                             *)
LEMMA ChainPush ==
    ASSUME NEW h, NEW f, NEW g, NEW C, NEW b, Chain(h, f, C), b \notin C, b # 0,
           g[b] = h, \A c \in C : g[c] = f[c]
    PROVE  Chain(b, g, C \cup {b})
<1>1. ASSUME NEW T \in SUBSET (C \cup {b}), b \in T \cup {0}, \A c \in T : g[c] \in T \cup {0}
      PROVE  T = C \cup {b}
  <2> DEFINE U == T \ {b}
  <2>1. U \in SUBSET C /\ h \in U \cup {0}
    BY <1>1 DEF Chain
  <2>2. \A c \in U : f[c] \in U \cup {0}
    BY <1>1, <2>1 DEF Chain
  <2>3. U = C
    BY <2>1, <2>2 DEF Chain
  <2> QED BY <1>1, <2>3
<1>2. \A c, d \in C \cup {b} : g[c] = g[d] => c = d
  BY DEF Chain
<1>3. \A c \in C \cup {b} : g[c] \in C \cup {b, 0} /\ g[c] # b
  BY DEF Chain
<1> QED BY <1>1, <1>2, <1>3 DEF Chain

(* The first element is taken.                                             *)
LEMMA ChainPop ==
    ASSUME NEW h, NEW f, NEW C, Chain(h, f, C), h # 0
    PROVE  Chain(f[h], f, C \ {h})
<1>1. h \in C /\ f[h] # h
  BY DEF Chain
<1>2. ASSUME NEW T \in SUBSET (C \ {h}), f[h] \in T \cup {0}, \A c \in T : f[c] \in T \cup {0}
      PROVE  T = C \ {h}
  <2>1. T \cup {h} \in SUBSET C
    BY <1>1
  <2>2. \A c \in T \cup {h} : f[c] \in (T \cup {h}) \cup {0}
    BY <1>2
  <2>3. T \cup {h} = C
    BY <2>1, <2>2 DEF Chain
  <2> QED BY <2>3
<1>3. \A c \in C \ {h} : f[c] \in (C \ {h}) \cup {0} /\ f[c] # f[h]
  BY <1>1 DEF Chain
<1>4. f[h] \in (C \ {h}) \cup {0}
  BY <1>1 DEF Chain
<1> QED BY <1>2, <1>3, <1>4 DEF Chain

(* A walk along the list finds all its elements.                           *)
LEMMA ChainClosure ==
    ASSUME NEW h, NEW f, NEW C, Chain(h, f, C), h # 0,
           IsFiniteSet(C), NEW N \in Nat, Cardinality(C) <= N,
           NEW next, C \subseteq DOMAIN next, \A b \in C : next[b] = {f[b]} \ {0}
    PROVE  Closure({h}, next, N) = C
<1>1. {h} \subseteq C /\ \A x \in C \cap DOMAIN next : next[x] \subseteq C
  BY DEF Chain
<1>2. {h} \subseteq Closure({h}, next, N) /\ Closure({h}, next, N) \subseteq C
  BY <1>1, ClosureLeast
<1>3. \A x \in Closure({h}, next, N) \cap DOMAIN next : next[x] \subseteq Closure({h}, next, N)
  BY <1>1, ClosureClosed
<1> DEFINE T == Closure({h}, next, N)
<1>4. \A b \in T : f[b] \in T \cup {0}
  BY <1>2, <1>3
<1>5. T \in SUBSET C /\ h \in T \cup {0}
  BY <1>2
<1> HIDE DEF T
<1>6. T = C
  BY <1>4, <1>5 DEF Chain
<1> QED BY <1>6 DEF T

(* Numbers listed downwards, each followed by the next lower one.          *)
LEMMA ChainDescending ==
    ASSUME NEW top \in Nat, NEW C, \A b \in C : b \in 1 .. top, NEW f, NEW h \in C \cup {0},
           \A b \in C : f[b] \in C \cup {0} /\ f[b] < b,
           \A b, c \in C : c < b => c <= f[b],
           \A b \in C : b <= h
    PROVE  Chain(h, f, C)
<1>0. /\ \A b \in C : b \in Nat /\ b > 0 /\ b <= top
      /\ \A b \in C : f[b] \in Nat
      /\ h \in Nat
  <2>1. \A b \in C : b \in Nat /\ b > 0 /\ b <= top
    OBVIOUS
  <2>2. \A b \in C \cup {0} : b \in Nat
    BY <2>1
  <2> QED BY <2>1, <2>2
<1>1. 0 \notin C /\ \A b \in C : f[b] # h
  BY <1>0
<1>2. \A b, c \in C : f[b] = f[c] => b = c
  <2>1. ASSUME NEW b \in C, NEW c \in C, f[b] = f[c], b < c PROVE FALSE
    <3>1. b <= f[c] /\ f[b] < b
      BY <2>1
    <3> QED BY <1>0, <2>1, <3>1
  <2> QED BY <1>0, <2>1
<1>3. ASSUME NEW T \in SUBSET C, h \in T \cup {0}, \A b \in T : f[b] \in T \cup {0}, T # C
      PROVE  FALSE
  <2> DEFINE D == C \ T
  <2>1. D # {}
    BY <1>3
  <2>1a. \A n \in D : n \in Int /\ n <= top
    BY <1>0
  <2> HIDE DEF D
  <2>2. PICK m \in D : \A n \in D : n <= m
    <3>1. D \in SUBSET Int
      BY <2>1a
    <3>2. top \in Int /\ \A n \in D : n <= top
      BY <2>1a
    <3> QED BY <2>1, <3>1, <3>2, IntGreatest
  <2> DEFINE A == {b \in C : b > m}
  <2>2a. m \in Nat /\ m > 0 /\ m \in C /\ m \notin T
    BY <1>0, <2>2 DEF D
  <2>3. h \in A
    BY <1>0, <1>3, <2>2a
  <2>4. A \in SUBSET Nat /\ A # {}
    BY <1>0, <2>3
  <2>5. PICK b \in A : \A c \in A : b <= c
    BY <2>4, NatLeast
  <2>6. b \in T /\ b \in C /\ b \in Nat /\ b > m
    <3>1. b \in C /\ b > m /\ b \in Nat
      BY <1>0, <2>5
    <3>2. b \notin D
      BY <2>2, <2>2a, <3>1
    <3> QED BY <3>1, <3>2 DEF D
  <2>7. m <= f[b] /\ f[b] \in T \cup {0} /\ f[b] < b /\ f[b] \in Nat
    BY <1>0, <1>3, <2>2a, <2>6
  <2>8. f[b] \in C /\ f[b] > m
    BY <2>2a, <2>7
  <2>9. f[b] \in A
    BY <2>8
  <2>10. b <= f[b]
    BY <2>5, <2>9
  <2> QED BY <2>6, <2>7, <2>10
<1> QED BY <1>1, <1>2, <1>3 DEF Chain

(* Numbers listed upwards in front of a list of lower ones.                *)
LEMMA ChainPrepend ==
    ASSUME NEW h, NEW f, NEW C, Chain(h, f, C), NEW lo \in Nat, NEW hi \in Nat,
           0 < lo, lo <= hi, C \subseteq 1 .. lo - 1,
           NEW g, \A c \in C : g[c] = f[c],
           \A c \in lo .. hi - 1 : g[c] = c + 1, g[hi] = h
    PROVE  Chain(lo, g, C \cup (lo .. hi))
<1> DEFINE A == lo .. hi
<1>1. ASSUME NEW T \in SUBSET (C \cup A), lo \in T \cup {0}, \A c \in T : g[c] \in T \cup {0}
      PROVE  T = C \cup A
  <2>1. ASSUME A \ T # {} PROVE FALSE
    <3>1. PICK m \in A \ T : \A n \in A \ T : m <= n
      <4>1. A \ T \in SUBSET Nat
        OBVIOUS
      <4> QED BY <2>1, <4>1, NatLeast
    <3>2. m # lo
      BY <1>1, <3>1
    <3>3. m - 1 \in lo .. hi - 1 /\ m - 1 \in T
      BY <3>1, <3>2
    <3>4. g[m - 1] = m /\ m # 0
      BY <3>3
    <3> QED BY <1>1, <3>1, <3>3, <3>4
  <2> DEFINE U == T \cap C
  <2>2. hi \in T /\ h \in T \cup {0} /\ h \in C \cup {0}
    BY <1>1, <2>1 DEF Chain
  <2>3. U \in SUBSET C /\ h \in U \cup {0}
    BY <2>2
  <2>4. \A c \in U : f[c] \in U \cup {0}
    BY <1>1 DEF Chain
  <2>5. U = C
    BY <2>3, <2>4 DEF Chain
  <2> QED BY <1>1, <2>1, <2>5
<1>2. \A c \in A : c # hi => c \in lo .. hi - 1
  OBVIOUS
<1>3. \A c \in A : g[c] = IF c = hi THEN h ELSE c + 1
  BY <1>2
<1>4. \A c \in C \cup A : g[c] \in C \cup A \cup {0} /\ g[c] # lo
  BY <1>3 DEF Chain
<1>5. \A c, d \in C \cup A : g[c] = g[d] => c = d
  <2>1. \A c, d \in C : g[c] = g[d] => c = d
    BY DEF Chain
  <2>2. \A c \in C, d \in A : g[c] # g[d]
    BY <1>3 DEF Chain
  <2>3. \A c, d \in A : g[c] = g[d] => c = d
    <3> SUFFICES ASSUME NEW c \in A, NEW d \in A, g[c] = g[d], c # d PROVE FALSE
      OBVIOUS
    <3>1. h \in C \cup {0}
      BY DEF Chain
    <3> QED BY <1>3, <3>1
  <2> QED BY <2>1, <2>2, <2>3
<1>6. 0 \notin C \cup A /\ lo \in C \cup A
  BY DEF Chain
<1> QED BY <1>1, <1>4, <1>5, <1>6 DEF Chain

-----------------------------------------------------------------------------
(* The areas of the workspace, and the bodies in it.                       *)

Workspace ==
    [mem : [1 .. Limit -> Int], mptrEnd : Nat, oldBags : Nat, youngBags : Nat,
     allocBags : Nat, endBags : Nat, freeMptr : Nat, changed : Nat,
     newMarker : Markers, nrLive : Nat, nrHalfDead : Int]

(* The order of the areas.                                                 *)
Areas(w) ==
    /\ w \in Workspace
    /\ 1 <= w.mptrEnd /\ w.mptrEnd <= w.oldBags /\ w.oldBags <= w.youngBags
    /\ w.youngBags <= w.allocBags /\ w.allocBags <= w.endBags /\ w.endBags <= Limit + 1

IdsOf(w) == 1 .. w.mptrEnd - 1

(* W is the set of headers that the sweeper passes, the end included.      *)
Tiles(w, W) ==
    /\ W \subseteq w.oldBags .. w.allocBags
    /\ w.oldBags \in W /\ w.youngBags \in W /\ w.allocBags \in W
    /\ \A a \in W : a < w.allocBags =>
          /\ w.mem[a] \in Nat /\ TypeIn(w.mem[a]) \in 1 .. 3
          /\ a + Stride(w.mem[a]) \in W
    /\ \A a, c \in W : a < c => a + Stride(w.mem[a]) <= c
    /\ \A b \in LiveBags(w) : w.mem[b] - 2 \in W /\ TNUM_BAG(w, b) # T_DUMMY
    /\ \A a \in W : a < w.allocBags /\ TypeIn(w.mem[a]) # T_DUMMY =>
          \E b \in LiveBags(w) : w.mem[b] = a + 2
    /\ \A b, c \in LiveBags(w) : w.mem[b] = w.mem[c] => b = c

(* The pointers into the workspace, as numbers.                            *)
LEMMA AreaFacts ==
    ASSUME NEW w, Areas(w)
    PROVE  /\ w.mem \in [1 .. Limit -> Int] /\ Limit \in Nat
           /\ w.mptrEnd \in Nat /\ w.oldBags \in Nat /\ w.youngBags \in Nat
           /\ w.allocBags \in Nat /\ w.endBags \in Nat
           /\ w.freeMptr \in Nat /\ w.changed \in Nat /\ w.newMarker \in Markers
           /\ w.nrLive \in Nat /\ w.nrHalfDead \in Int
           /\ 1 <= w.mptrEnd /\ w.mptrEnd <= w.oldBags /\ w.oldBags <= w.youngBags
           /\ w.youngBags <= w.allocBags /\ w.allocBags <= w.endBags /\ w.endBags <= Limit + 1
BY LayoutAssumption DEF Areas, Workspace

(* Quotient and remainder of a number given by them.                       *)
LEMMA Div1 ==
    ASSUME NEW x \in Nat, NEW q \in Nat, NEW r \in Nat, r < 256, x = 256 * q + r
    PROVE  x % 256 = r /\ x \div 256 = q
OBVIOUS

(* The same for the size in a header.                                      *)
LEMMA Div2 ==
    ASSUME NEW x \in Nat, NEW q \in Nat, NEW r \in Nat, r < 65536, x = 65536 * q + r
    PROVE  x \div 65536 = q
OBVIOUS

(* The fields of a header.                                                 *)
LEMMA HeaderFields ==
    ASSUME NEW t \in 1 .. 3, NEW f \in 0 .. 1, NEW n \in Nat
    PROVE  /\ Header(t, f, n) \in Nat
           /\ TypeIn(Header(t, f, n)) = t
           /\ FlagsIn(Header(t, f, n)) = f
           /\ SizeIn(Header(t, f, n)) = n
<1> DEFINE h == t + 256 * f + 65536 * n
           q == f + 256 * n
<1>1. h \in Nat /\ q \in Nat /\ t \in Nat /\ t < 256 /\ f \in Nat /\ f < 256 /\ t + 256 * f \in Nat /\ t + 256 * f < 65536
  OBVIOUS
<1>2. h = 256 * q + t /\ q = 256 * n + f /\ h = 65536 * n + (t + 256 * f)
  OBVIOUS
<1> HIDE DEF h, q
<1>3. h % 256 = t /\ h \div 256 = q
  BY <1>1, <1>2, Div1
<1>4. q % 256 = f
  BY <1>1, <1>2, Div1
<1>5. h \div 65536 = n
  BY <1>1, <1>2, Div2
<1> QED BY <1>1, <1>3, <1>4, <1>5 DEF Header, TypeIn, FlagsIn, SizeIn, h

(* A header is followed by at least one word.                              *)
LEMMA StrideFacts ==
    ASSUME NEW h \in Nat
    PROVE  /\ SizeIn(h) \in Nat /\ TypeIn(h) \in Nat
           /\ Stride(h) \in Nat /\ Stride(h) >= 1
           /\ TypeIn(h) # T_DUMMY => Stride(h) = 2 + SizeIn(h)
BY DEF SizeIn, TypeIn, FlagsIn, Stride, HeaderWords, T_DUMMY

(* Where a bag is.                                                         *)
LEMMA Placed ==
    ASSUME NEW w, NEW W, Areas(w), Tiles(w, W), NEW b \in LiveBags(w)
    PROVE  /\ b \in IdsOf(w) /\ b \in Nat /\ b # 0 /\ b < w.oldBags /\ b \in 1 .. Limit
           /\ w.mem[b] \in Int /\ w.oldBags + 2 <= w.mem[b] /\ w.mem[b] <= w.allocBags
           /\ SIZE_BAG(w, b) \in Nat /\ w.mem[b] + SIZE_BAG(w, b) <= w.allocBags
           /\ w.mem[b] - 2 \in W /\ w.mem[w.mem[b] - 2] \in Nat
           /\ Stride(w.mem[w.mem[b] - 2]) = 2 + SIZE_BAG(w, b)
           /\ TNUM_BAG(w, b) \in {T_LIST, T_WPOBJ}
<1>1. /\ b \in IdsOf(w) /\ w.oldBags + 2 <= w.mem[b] /\ w.mem[b] <= w.allocBags
  BY DEF LiveBags, IdsOf, HeaderWords
<1>2. /\ w.mem \in [1 .. Limit -> Int] /\ w.mptrEnd \in Nat /\ w.oldBags \in Nat
      /\ w.allocBags \in Nat /\ Limit \in Nat
      /\ 1 <= w.mptrEnd /\ w.mptrEnd <= w.oldBags /\ w.oldBags <= w.allocBags /\ w.allocBags <= Limit + 1
  <2>1. w.youngBags \in Nat /\ w.endBags \in Nat
    BY AreaFacts
  <2> QED BY <2>1, AreaFacts
<1>3. b \in Nat /\ b # 0 /\ b < w.oldBags /\ b \in 1 .. Limit
  <2>1. b \in 1 .. w.mptrEnd - 1
    BY <1>1 DEF IdsOf
  <2> QED BY <1>2, <2>1
<1>4. w.mem[b] \in Int
  BY <1>2, <1>3
<1>5. w.mem[b] - 2 \in W /\ w.mem[b] - 2 < w.allocBags /\ TNUM_BAG(w, b) # T_DUMMY
  BY <1>1, <1>2, <1>4 DEF Tiles
<1>6. /\ w.mem[w.mem[b] - 2] \in Nat /\ TypeIn(w.mem[w.mem[b] - 2]) \in 1 .. 3
      /\ w.mem[b] - 2 + Stride(w.mem[w.mem[b] - 2]) \in W
  BY <1>5 DEF Tiles
<1>7. /\ SIZE_BAG(w, b) \in Nat
      /\ Stride(w.mem[w.mem[b] - 2]) = 2 + SIZE_BAG(w, b)
  BY <1>5, <1>6, StrideFacts DEF SIZE_BAG, TNUM_BAG
<1>8. w.mem[b] + SIZE_BAG(w, b) <= w.allocBags
  <2>1. w.mem[b] - 2 + Stride(w.mem[w.mem[b] - 2]) \in w.oldBags .. w.allocBags
    BY <1>6 DEF Tiles
  <2>2. w.mem[b] - 2 + (2 + SIZE_BAG(w, b)) <= w.allocBags
    BY <1>7, <2>1
  <2>3. w.mem[b] \in Int /\ SIZE_BAG(w, b) \in Int /\ w.allocBags \in Int
    BY <1>2, <1>4, <1>7
  <2> QED BY ONLY <2>2, <2>3
<1>9. TNUM_BAG(w, b) \in {T_LIST, T_WPOBJ}
  BY <1>5, <1>6 DEF TNUM_BAG, T_LIST, T_WPOBJ, T_DUMMY
<1> QED BY <1>1, <1>3, <1>4, <1>5, <1>6, <1>7, <1>8, <1>9

(* The bodies of two bags do not overlap.                                  *)
LEMMA Apart ==
    ASSUME NEW w, NEW W, Areas(w), Tiles(w, W),
           NEW b \in LiveBags(w), NEW c \in LiveBags(w), b # c
    PROVE  \/ w.mem[b] + SIZE_BAG(w, b) <= w.mem[c] - 2
           \/ w.mem[c] + SIZE_BAG(w, c) <= w.mem[b] - 2
<1>1. /\ w.mem[b] \in Int /\ SIZE_BAG(w, b) \in Nat /\ w.mem[b] - 2 \in W
      /\ Stride(w.mem[w.mem[b] - 2]) = 2 + SIZE_BAG(w, b)
  BY Placed
<1>2. /\ w.mem[c] \in Int /\ SIZE_BAG(w, c) \in Nat /\ w.mem[c] - 2 \in W
      /\ Stride(w.mem[w.mem[c] - 2]) = 2 + SIZE_BAG(w, c)
  BY Placed
<1>3. w.mem[b] # w.mem[c]
  BY DEF Tiles
<1>4. /\ w.mem[b] - 2 < w.mem[c] - 2 => w.mem[b] - 2 + (2 + SIZE_BAG(w, b)) <= w.mem[c] - 2
      /\ w.mem[c] - 2 < w.mem[b] - 2 => w.mem[c] - 2 + (2 + SIZE_BAG(w, c)) <= w.mem[b] - 2
  BY <1>1, <1>2 DEF Tiles
<1> QED BY <1>1, <1>2, <1>3, <1>4

(* A body does not reach over the border of the generations.               *)
LEMMA OldOrYoung ==
    ASSUME NEW w, NEW W, Areas(w), Tiles(w, W), NEW b \in LiveBags(w)
    PROVE  /\ IsOld(w, b) => w.mem[b] + SIZE_BAG(w, b) <= w.youngBags
           /\ ~ IsOld(w, b) => IsYoung(w, b) /\ w.youngBags <= w.mem[b] - 2
<1>1. /\ w.mem[b] \in Int /\ SIZE_BAG(w, b) \in Nat /\ w.mem[b] - 2 \in W
      /\ Stride(w.mem[w.mem[b] - 2]) = 2 + SIZE_BAG(w, b) /\ w.mem[b] <= w.allocBags
  BY Placed
<1>2. w.youngBags \in Nat /\ w.allocBags \in Nat /\ w.youngBags \in W
  BY AreaFacts DEF Tiles
<1>3. w.mem[b] - 2 < w.youngBags => w.mem[b] - 2 + (2 + SIZE_BAG(w, b)) <= w.youngBags
  BY <1>1, <1>2 DEF Tiles
<1> QED BY <1>1, <1>2, <1>3 DEF IsOld, IsYoung, PTR_BAG

(* Header, link and words of a bag are beyond the masterpointers.          *)
LEMMA PlacedWords ==
    ASSUME NEW w, NEW W, Areas(w), Tiles(w, W), NEW b \in LiveBags(w)
    PROVE  /\ w.mem[b] - 2 \in 1 .. Limit /\ w.mem[b] - 1 \in 1 .. Limit
           /\ w.mem[b] - 2 >= w.mptrEnd
           /\ \A i \in 0 .. SIZE_BAG(w, b) - 1 :
                 w.mem[b] + i \in 1 .. Limit /\ w.mem[b] + i # w.mem[b] - 1 /\ w.mem[b] + i # w.mem[b] - 2
<1>1. /\ w.mem[b] \in Int /\ w.oldBags + 2 <= w.mem[b] /\ SIZE_BAG(w, b) \in Nat
      /\ w.mem[b] + SIZE_BAG(w, b) <= w.allocBags
  BY Placed
<1>2. /\ w.mptrEnd \in Nat /\ w.oldBags \in Nat /\ w.allocBags \in Nat /\ w.endBags \in Nat /\ Limit \in Nat
      /\ 1 <= w.mptrEnd /\ w.mptrEnd <= w.oldBags /\ w.allocBags <= w.endBags /\ w.endBags <= Limit + 1
  BY AreaFacts
<1> QED BY ONLY <1>1, <1>2

Word(w, b, i) == w.mem[w.mem[b] + i]
LenWord(w, b) == INT_INTOBJ(Word(w, b, 0))

(* A bag has the same type, size and words in two workspaces.              *)
SameBag(w, v, b) ==
    /\ TNUM_BAG(v, b) = TNUM_BAG(w, b) /\ SIZE_BAG(v, b) = SIZE_BAG(w, b)
    /\ \A i \in 0 .. SIZE_BAG(w, b) - 1 : Word(v, b, i) = Word(w, b, i)

DeadIds(w) == {x \in IdsOf(w) : w.mem[x] \in Markers}

(* What the words of a bag may be.                                         *)
WordsAt(w, b) ==
    /\ TNUM_BAG(w, b) = T_LIST =>
          \A i \in 0 .. SIZE_BAG(w, b) - 1 : Word(w, b, i) \in LiveBags(w) \cup {0}
    /\ TNUM_BAG(w, b) = T_WPOBJ =>
          /\ SIZE_BAG(w, b) >= 2
          /\ LenWord(w, b) \in 0 .. SIZE_BAG(w, b) - 1
          /\ \A i \in 1 .. SIZE_BAG(w, b) - 1 :
                /\ Word(w, b, i) \in LiveBags(w) \cup DeadIds(w) \cup {0}
                /\ i > LenWord(w, b) => Word(w, b, i) = 0
WordsOK(w) == \A b \in LiveBags(w) : WordsAt(w, b)

(* An identifier that a partial collection does not need to be told of.    *)
Remembered(w, x) == IsOld(w, x) \/ LINK_BAG(w, x) # x
RemembersAt(w, b) ==
    IsOld(w, b) /\ LINK_BAG(w, b) = b =>
        \A i \in 0 .. SIZE_BAG(w, b) - 1 :
            Word(w, b, i) \in LiveBags(w) => Remembered(w, Word(w, b, i))
RemembersOK(w) == \A b \in LiveBags(w) : RemembersAt(w, b)

(* The list of changed bags.                                               *)
ListedBags(w) == {b \in LiveBags(w) : LINK_BAG(w, b) # b}
Links(w) == [b \in LiveBags(w) |-> LINK_BAG(w, b)]
LinksOK(w) == Chain(w.changed, Links(w), ListedBags(w))

(* The masterpointers.                                                     *)
FreeIds(w) == {x \in IdsOf(w) : w.mem[x] = 0 \/ w.mem[x] \in IdsOf(w)}
MptrsOK(w) ==
    /\ Chain(w.freeMptr, w.mem, FreeIds(w))
    /\ \A x \in IdsOf(w) : x \in FreeIds(w) \cup LiveBags(w) \cup DeadIds(w)

ZeroOK(w) == \A a \in w.allocBags .. Limit : w.mem[a] = 0

-----------------------------------------------------------------------------
(* The words of a bag that is the same stay what they may be.              *)
LEMMA WordsKept ==
    ASSUME NEW w, NEW v, NEW b, WordsAt(w, b), SameBag(w, v, b), SIZE_BAG(w, b) \in Nat,
           LiveBags(w) \subseteq LiveBags(v), DeadIds(w) \subseteq DeadIds(v)
    PROVE  WordsAt(v, b)
<1>1. CASE TNUM_BAG(w, b) = T_LIST
  BY <1>1 DEF WordsAt, SameBag, T_LIST, T_WPOBJ
<1>2. CASE TNUM_BAG(w, b) = T_WPOBJ
  <2>1. 0 \in 0 .. SIZE_BAG(w, b) - 1
    BY <1>2 DEF WordsAt
  <2>2. Word(v, b, 0) = Word(w, b, 0)
    BY <2>1 DEF SameBag
  <2>3. LenWord(v, b) = LenWord(w, b)
    BY <2>2 DEF LenWord
  <2>4. \A i \in 1 .. SIZE_BAG(w, b) - 1 : i \in 0 .. SIZE_BAG(w, b) - 1
    OBVIOUS
  <2> QED BY <1>2, <2>3, <2>4 DEF WordsAt, SameBag, T_LIST, T_WPOBJ
<1> QED BY <1>1, <1>2 DEF WordsAt, SameBag

(* An old bag that is the same still needs no entry in the list.           *)
LEMMA RemembersKept ==
    ASSUME NEW w, NEW v, NEW b, RemembersAt(w, b), SameBag(w, v, b),
           IsOld(v, b) /\ LINK_BAG(v, b) = b => IsOld(w, b) /\ LINK_BAG(w, b) = b,
           \A i \in 0 .. SIZE_BAG(w, b) - 1 :
              Word(w, b, i) \in LiveBags(v) => Word(w, b, i) \in LiveBags(w),
           \A x \in LiveBags(v) : Remembered(w, x) => Remembered(v, x)
    PROVE  RemembersAt(v, b)
BY DEF RemembersAt, SameBag

(* The words of a bag are no free masterpointers.                          *)
LEMMA WordsNotFree ==
    ASSUME NEW w, Areas(w), NEW b, WordsAt(w, b), TNUM_BAG(w, b) \in {T_LIST, T_WPOBJ},
           SIZE_BAG(w, b) \in Nat,
           NEW i \in 0 .. SIZE_BAG(w, b) - 1, NEW x \in FreeIds(w)
    PROVE  Word(w, b, i) # x
<1>1. x \in IdsOf(w) /\ (w.mem[x] = 0 \/ w.mem[x] \in IdsOf(w)) /\ x # 0 /\ x > 0
  BY DEF FreeIds, IdsOf
<1>2. x \notin LiveBags(w)
  <2>1. /\ w.mptrEnd \in Nat /\ w.oldBags \in Nat /\ w.mptrEnd <= w.oldBags
    BY AreaFacts
  <2> QED BY <1>1, <2>1 DEF LiveBags, HeaderWords, IdsOf
<1>3. x \notin DeadIds(w)
  BY <1>1 DEF DeadIds, Markers, IdsOf
<1>4. CASE TNUM_BAG(w, b) = T_LIST
  BY <1>1, <1>2, <1>4 DEF WordsAt
<1>5. CASE TNUM_BAG(w, b) = T_WPOBJ /\ i # 0
  BY <1>1, <1>2, <1>3, <1>5 DEF WordsAt
<1>6. CASE TNUM_BAG(w, b) = T_WPOBJ /\ i = 0
  <2>1. LenWord(w, b) \in Nat
    BY <1>6 DEF WordsAt
  <2> SUFFICES ASSUME Word(w, b, 0) = x PROVE FALSE
    BY <1>6
  <2> QED BY <1>1, <2>1 DEF LenWord, INT_INTOBJ, IdsOf
<1> QED BY <1>4, <1>5, <1>6

(* The pointers between the areas are the same.                            *)
SameAreas(w, v) ==
    /\ v.mptrEnd = w.mptrEnd /\ v.oldBags = w.oldBags /\ v.youngBags = w.youngBags
    /\ v.allocBags = w.allocBags /\ v.endBags = w.endBags

(* From the link word of a bag to its last word.                           *)
BodyWords(w, b) == w.mem[b] - 1 .. w.mem[b] + SIZE_BAG(w, b) - 1

(* A write into one body, or to its link word, leaves the headers, the     *)
(* masterpointers and the other bodies alone.                              *)
LEMMA LocalWrite ==
    ASSUME NEW w, NEW W, Areas(w), Tiles(w, W), NEW b \in LiveBags(w),
           NEW v \in Workspace, SameAreas(w, v),
           \A a \in 1 .. Limit : a \notin BodyWords(w, b) => v.mem[a] = w.mem[a]
    PROVE  /\ Areas(v) /\ Tiles(v, W)
           /\ LiveBags(v) = LiveBags(w)
           /\ \A x \in IdsOf(w) : v.mem[x] = w.mem[x]
           /\ \A c \in LiveBags(w) : TNUM_BAG(v, c) = TNUM_BAG(w, c) /\ SIZE_BAG(v, c) = SIZE_BAG(w, c)
           /\ \A c \in LiveBags(w) : c # b => SameBag(w, v, c) /\ LINK_BAG(v, c) = LINK_BAG(w, c)
           /\ \A a \in w.allocBags .. Limit : v.mem[a] = w.mem[a]
<1>1. Areas(v)
  BY DEF Areas, SameAreas
<1>2. /\ w.mptrEnd \in Nat /\ w.oldBags \in Nat /\ w.allocBags \in Nat /\ Limit \in Nat
      /\ 1 <= w.mptrEnd /\ w.mptrEnd <= w.oldBags /\ w.oldBags <= w.allocBags /\ w.allocBags <= Limit + 1
  <2>1. w.youngBags \in Nat /\ w.endBags \in Nat
    BY AreaFacts
  <2> QED BY <2>1, AreaFacts
<1>3. /\ w.mem[b] \in Int /\ w.oldBags + 2 <= w.mem[b] /\ SIZE_BAG(w, b) \in Nat
      /\ w.mem[b] + SIZE_BAG(w, b) <= w.allocBags /\ w.mem[b] - 2 \in W
      /\ Stride(w.mem[w.mem[b] - 2]) = 2 + SIZE_BAG(w, b)
  BY Placed
<1>4. ASSUME NEW x \in IdsOf(w) PROVE v.mem[x] = w.mem[x]
  <2>1. x \in 1 .. Limit /\ x \notin BodyWords(w, b)
    BY <1>2, <1>3 DEF IdsOf, BodyWords
  <2> QED BY <2>1
<1>5. LiveBags(v) = LiveBags(w)
  <2>1. IdsOf(v) = IdsOf(w) /\ v.oldBags = w.oldBags /\ v.allocBags = w.allocBags
    BY DEF IdsOf, SameAreas
  <2> QED BY <1>4, <2>1 DEF LiveBags, IdsOf
<1>6. ASSUME NEW a \in W, a < w.allocBags PROVE v.mem[a] = w.mem[a]
  <2>1. a \in Int /\ a >= w.oldBags
    BY <1>2 DEF Tiles
  <2>2. w.mem[b] - 2 < a => w.mem[b] - 2 + (2 + SIZE_BAG(w, b)) <= a
    BY <1>3 DEF Tiles
  <2>3. a \in 1 .. Limit /\ a \notin BodyWords(w, b)
    BY <1>2, <1>3, <1>6, <2>1, <2>2 DEF BodyWords
  <2> QED BY <2>3
<1>7. ASSUME NEW c \in LiveBags(w)
      PROVE  /\ v.mem[c] = w.mem[c] /\ v.mem[w.mem[c] - 2] = w.mem[w.mem[c] - 2]
             /\ TNUM_BAG(v, c) = TNUM_BAG(w, c) /\ SIZE_BAG(v, c) = SIZE_BAG(w, c)
  <2>1. c \in IdsOf(w) /\ w.mem[c] - 2 \in W /\ w.mem[c] - 2 < w.allocBags
    <3>1. c \in IdsOf(w) /\ w.mem[c] - 2 \in W /\ w.mem[c] <= w.allocBags /\ w.mem[c] \in Int
      BY Placed
    <3> QED BY <1>2, <3>1
  <2>2. v.mem[c] = w.mem[c] /\ v.mem[w.mem[c] - 2] = w.mem[w.mem[c] - 2]
    BY <1>4, <1>6, <2>1
  <2> QED BY <2>2 DEF TNUM_BAG, SIZE_BAG
<1>8. Tiles(v, W)
  <2>1. /\ W \subseteq v.oldBags .. v.allocBags
        /\ v.oldBags \in W /\ v.youngBags \in W /\ v.allocBags \in W
    BY DEF Tiles, SameAreas
  <2>2. \A a \in W : a < v.allocBags =>
          /\ v.mem[a] \in Nat /\ TypeIn(v.mem[a]) \in 1 .. 3
          /\ a + Stride(v.mem[a]) \in W
    BY <1>6 DEF Tiles, SameAreas
  <2>3. ASSUME NEW a \in W, NEW c \in W, a < c PROVE a + Stride(v.mem[a]) <= c
    <3>1. a < w.allocBags
      BY <1>2, <2>3 DEF Tiles
    <3> QED BY <1>6, <2>3, <3>1 DEF Tiles
  <2>4. \A c \in LiveBags(v) : v.mem[c] - 2 \in W /\ TNUM_BAG(v, c) # T_DUMMY
    BY <1>5, <1>7 DEF Tiles
  <2>5. \A a \in W : a < v.allocBags /\ TypeIn(v.mem[a]) # T_DUMMY =>
          \E c \in LiveBags(v) : v.mem[c] = a + 2
    BY <1>5, <1>6, <1>7 DEF Tiles, SameAreas
  <2>6. \A c, d \in LiveBags(v) : v.mem[c] = v.mem[d] => c = d
    BY <1>5, <1>7 DEF Tiles
  <2> QED BY <2>1, <2>2, <2>3, <2>4, <2>5, <2>6 DEF Tiles
<1>9. ASSUME NEW c \in LiveBags(w), c # b
      PROVE  SameBag(w, v, c) /\ LINK_BAG(v, c) = LINK_BAG(w, c)
  <2>1. /\ w.mem[c] \in Int /\ w.oldBags + 2 <= w.mem[c] /\ SIZE_BAG(w, c) \in Nat
        /\ w.mem[c] + SIZE_BAG(w, c) <= w.allocBags
    BY Placed
  <2>2. \/ w.mem[b] + SIZE_BAG(w, b) <= w.mem[c] - 2
        \/ w.mem[c] + SIZE_BAG(w, c) <= w.mem[b] - 2
    BY <1>9, Apart
  <2>3. ASSUME NEW a \in w.mem[c] - 1 .. w.mem[c] + SIZE_BAG(w, c) - 1
        PROVE  v.mem[a] = w.mem[a]
    <3>1. a \in 1 .. Limit /\ a \notin BodyWords(w, b)
      BY <1>2, <1>3, <2>1, <2>2 DEF BodyWords
    <3> QED BY <3>1
  <2>4. \A i \in 0 .. SIZE_BAG(w, c) - 1 : Word(v, c, i) = Word(w, c, i)
    <3> SUFFICES ASSUME NEW i \in 0 .. SIZE_BAG(w, c) - 1 PROVE v.mem[v.mem[c] + i] = w.mem[w.mem[c] + i]
      BY DEF Word
    <3>1. w.mem[c] + i \in w.mem[c] - 1 .. w.mem[c] + SIZE_BAG(w, c) - 1
      BY <2>1
    <3> QED BY <1>7, <2>3, <3>1
  <2>5. LINK_BAG(v, c) = LINK_BAG(w, c)
    <3>1. w.mem[c] - 1 \in w.mem[c] - 1 .. w.mem[c] + SIZE_BAG(w, c) - 1
      BY <2>1
    <3> QED BY <1>7, <2>3, <3>1 DEF LINK_BAG
  <2> QED BY <1>7, <2>4, <2>5 DEF SameBag
<1>10. ASSUME NEW a \in w.allocBags .. Limit PROVE v.mem[a] = w.mem[a]
  <2>1. a \in 1 .. Limit /\ a \notin BodyWords(w, b)
    BY <1>2, <1>3 DEF BodyWords
  <2> QED BY <2>1
<1> QED BY <1>1, <1>4, <1>5, <1>7, <1>8, <1>9, <1>10

(* The workspace is sound, but for the words of bag b and what the list of *)
(* changed bags should say of it: so it is while words are stored into b.  *)
SoundBut(w, W, b) ==
    /\ Areas(w) /\ Tiles(w, W) /\ LinksOK(w) /\ MptrsOK(w) /\ ZeroOK(w)
    /\ \A c \in LiveBags(w) \ {b} : WordsAt(w, c) /\ RemembersAt(w, c)

Sound(w, W) ==
    /\ Areas(w) /\ Tiles(w, W) /\ WordsOK(w) /\ LinksOK(w) /\ MptrsOK(w) /\ ZeroOK(w)
    /\ RemembersOK(w)

(* The masterpointers of two workspaces are the same.                      *)
LEMMA MptrsKept ==
    ASSUME NEW w, NEW v, MptrsOK(w), v.mptrEnd = w.mptrEnd, v.freeMptr = w.freeMptr,
           LiveBags(v) = LiveBags(w), \A x \in IdsOf(w) : v.mem[x] = w.mem[x]
    PROVE  MptrsOK(v) /\ DeadIds(v) = DeadIds(w) /\ FreeIds(v) = FreeIds(w)
<1>1. IdsOf(v) = IdsOf(w)
  BY DEF IdsOf
<1>2. DeadIds(v) = DeadIds(w) /\ FreeIds(v) = FreeIds(w)
  BY <1>1 DEF DeadIds, FreeIds
<1>3. \A x \in FreeIds(w) : v.mem[x] = w.mem[x]
  BY DEF FreeIds
<1>4. Chain(v.freeMptr, v.mem, FreeIds(v))
  BY <1>2, <1>3, ChainSame DEF MptrsOK
<1> QED BY <1>1, <1>2, <1>4 DEF MptrsOK

(* The list of changed bags is the same.                                   *)
LEMMA LinksKept ==
    ASSUME NEW w, NEW v, LinksOK(w), v.changed = w.changed, LiveBags(v) = LiveBags(w),
           \A c \in LiveBags(w) : LINK_BAG(v, c) = LINK_BAG(w, c)
    PROVE  LinksOK(v) /\ ListedBags(v) = ListedBags(w)
<1>1. ListedBags(v) = ListedBags(w)
  BY DEF ListedBags
<1>2. \A c \in ListedBags(w) : Links(v)[c] = Links(w)[c]
  BY DEF Links, ListedBags
<1> QED BY <1>1, <1>2, ChainSame DEF LinksOK

(* Words are written into bag b, and its link word is not.                 *)
LEMMA BodyWrite ==
    ASSUME NEW w, NEW W, NEW b \in LiveBags(w), SoundBut(w, W, b),
           NEW v \in Workspace, SameAreas(w, v), v.changed = w.changed, v.freeMptr = w.freeMptr,
           \A a \in 1 .. Limit :
              a \notin w.mem[b] .. w.mem[b] + SIZE_BAG(w, b) - 1 => v.mem[a] = w.mem[a]
    PROVE  /\ SoundBut(v, W, b)
           /\ LiveBags(v) = LiveBags(w) /\ DeadIds(v) = DeadIds(w)
           /\ \A x \in IdsOf(w) : v.mem[x] = w.mem[x]
           /\ \A c \in LiveBags(w) :
                 /\ TNUM_BAG(v, c) = TNUM_BAG(w, c) /\ SIZE_BAG(v, c) = SIZE_BAG(w, c)
                 /\ LINK_BAG(v, c) = LINK_BAG(w, c)
                 /\ c # b => SameBag(w, v, c)
<1>1. Areas(w) /\ Tiles(w, W) /\ LinksOK(w) /\ MptrsOK(w) /\ ZeroOK(w)
  BY DEF SoundBut
<1>2. /\ w.mem[b] \in Int /\ SIZE_BAG(w, b) \in Nat /\ w.oldBags + 2 <= w.mem[b]
      /\ w.mem[b] <= w.allocBags
  BY <1>1, Placed
<1>3. \A a \in 1 .. Limit : a \notin BodyWords(w, b) => v.mem[a] = w.mem[a]
  BY <1>2 DEF BodyWords
<1>4. /\ Areas(v) /\ Tiles(v, W)
      /\ LiveBags(v) = LiveBags(w)
      /\ \A x \in IdsOf(w) : v.mem[x] = w.mem[x]
      /\ \A c \in LiveBags(w) : TNUM_BAG(v, c) = TNUM_BAG(w, c) /\ SIZE_BAG(v, c) = SIZE_BAG(w, c)
      /\ \A c \in LiveBags(w) : c # b => SameBag(w, v, c) /\ LINK_BAG(v, c) = LINK_BAG(w, c)
      /\ \A a \in w.allocBags .. Limit : v.mem[a] = w.mem[a]
  BY <1>1, <1>3, LocalWrite
<1>5. b \in IdsOf(w) /\ v.mem[b] = w.mem[b]
  BY <1>1, <1>4, Placed
<1>6. LINK_BAG(v, b) = LINK_BAG(w, b)
  <2>1. w.allocBags \in Nat /\ w.oldBags \in Nat /\ w.oldBags >= 1 /\ w.allocBags <= Limit + 1 /\ Limit \in Nat
    <3>1. w.endBags \in Nat /\ w.mptrEnd \in Nat
      BY <1>1, AreaFacts
    <3> QED BY <1>1, <3>1, AreaFacts
  <2>2. w.mem[b] - 1 \in 1 .. Limit /\ w.mem[b] - 1 \notin w.mem[b] .. w.mem[b] + SIZE_BAG(w, b) - 1
    BY <1>2, <2>1
  <2> QED BY <1>5, <2>2 DEF LINK_BAG
<1>7. \A c \in LiveBags(w) : LINK_BAG(v, c) = LINK_BAG(w, c)
  BY <1>4, <1>6
<1>8. v.mptrEnd = w.mptrEnd /\ v.allocBags = w.allocBags /\ v.youngBags = w.youngBags
  BY DEF SameAreas
<1>9. MptrsOK(v) /\ DeadIds(v) = DeadIds(w)
  BY <1>1, <1>4, <1>8, MptrsKept
<1>10. LinksOK(v)
  BY <1>1, <1>4, <1>7, LinksKept
<1>11. ZeroOK(v)
  BY <1>1, <1>4, <1>8 DEF ZeroOK
<1>12. ASSUME NEW c \in LiveBags(v) \ {b} PROVE WordsAt(v, c)
  <2>1. SIZE_BAG(w, c) \in Nat /\ WordsAt(w, c) /\ SameBag(w, v, c)
    BY <1>1, <1>4, Placed DEF SoundBut
  <2> QED BY <1>4, <1>9, <2>1, WordsKept
<1>13. ASSUME NEW c \in LiveBags(v) \ {b} PROVE RemembersAt(v, c)
  <2>1. \A x \in LiveBags(v) : IsOld(v, x) <=> IsOld(w, x)
    <3>1. \A x \in LiveBags(v) : v.mem[x] = w.mem[x]
      BY <1>4 DEF LiveBags, IdsOf
    <3> QED BY <1>8, <3>1 DEF IsOld, PTR_BAG
  <2>2. \A x \in LiveBags(v) : Remembered(w, x) => Remembered(v, x)
    BY <1>4, <1>7, <2>1 DEF Remembered
  <2>3. RemembersAt(w, c) /\ SameBag(w, v, c) /\ LINK_BAG(v, c) = LINK_BAG(w, c)
    BY <1>4, <1>7 DEF SoundBut
  <2> QED BY <1>4, <2>1, <2>2, <2>3, RemembersKept
<1>14. SoundBut(v, W, b)
  BY <1>4, <1>9, <1>10, <1>11, <1>12, <1>13 DEF SoundBut
<1> QED BY <1>4, <1>7, <1>9, <1>14

(* CHANGED_BAG and its like: a bag is put onto the list.                   *)
LEMMA PushChanged ==
    ASSUME NEW w, NEW W, NEW b \in LiveBags(w), SoundBut(w, W, b), WordsAt(w, b), LINK_BAG(w, b) = b,
           NEW v \in Workspace, SameAreas(w, v), v.freeMptr = w.freeMptr, v.changed = b,
           v.mem[w.mem[b] - 1] = w.changed,
           \A a \in 1 .. Limit : a # w.mem[b] - 1 => v.mem[a] = w.mem[a]
    PROVE  /\ Sound(v, W)
           /\ LiveBags(v) = LiveBags(w) /\ DeadIds(v) = DeadIds(w)
           /\ \A x \in IdsOf(w) : v.mem[x] = w.mem[x]
           /\ \A c \in LiveBags(w) : SameBag(w, v, c) /\ (c # b => LINK_BAG(v, c) = LINK_BAG(w, c))
           /\ LINK_BAG(v, b) = w.changed /\ LINK_BAG(v, b) # b
<1>1. Areas(w) /\ Tiles(w, W) /\ LinksOK(w) /\ MptrsOK(w) /\ ZeroOK(w)
  BY DEF SoundBut
<1>2. /\ w.mem[b] \in Int /\ SIZE_BAG(w, b) \in Nat /\ w.oldBags + 2 <= w.mem[b]
      /\ w.mem[b] <= w.allocBags /\ b \in Nat /\ b # 0 /\ b \in IdsOf(w)
  BY <1>1, Placed
<1>3. /\ w.mem \in [1 .. Limit -> Int] /\ w.changed \in Nat
      /\ w.allocBags \in Nat /\ w.oldBags \in Nat /\ w.oldBags >= 1 /\ w.allocBags <= Limit + 1 /\ Limit \in Nat
  <2>1. w.endBags \in Nat /\ w.mptrEnd \in Nat
    BY <1>1, AreaFacts
  <2> QED BY <1>1, <2>1, AreaFacts
<1>4. w.mem[b] - 1 \in 1 .. Limit
  BY <1>1, PlacedWords
<1>7. \A a \in 1 .. Limit : a \notin BodyWords(w, b) => v.mem[a] = w.mem[a]
  BY <1>2 DEF BodyWords
<1>8. /\ Areas(v) /\ Tiles(v, W)
      /\ LiveBags(v) = LiveBags(w)
      /\ \A x \in IdsOf(w) : v.mem[x] = w.mem[x]
      /\ \A c \in LiveBags(w) : TNUM_BAG(v, c) = TNUM_BAG(w, c) /\ SIZE_BAG(v, c) = SIZE_BAG(w, c)
      /\ \A c \in LiveBags(w) : c # b => SameBag(w, v, c) /\ LINK_BAG(v, c) = LINK_BAG(w, c)
      /\ \A a \in w.allocBags .. Limit : v.mem[a] = w.mem[a]
  BY <1>1, <1>7, LocalWrite
<1>9. v.mem[b] = w.mem[b] /\ LINK_BAG(v, b) = w.changed
  BY <1>2, <1>3, <1>4, <1>8 DEF LINK_BAG
<1>10. b \notin ListedBags(w) /\ w.changed \in ListedBags(w) \cup {0} /\ w.changed # b
  BY <1>1, <1>2 DEF ListedBags, LinksOK, Chain
<1>11. SameBag(w, v, b)
  <2>1. ASSUME NEW i \in 0 .. SIZE_BAG(w, b) - 1 PROVE Word(v, b, i) = Word(w, b, i)
    <3>2. w.mem[b] + i \in 1 .. Limit /\ w.mem[b] + i # w.mem[b] - 1
      BY <1>1, PlacedWords
    <3> QED BY <1>9, <3>2 DEF Word
  <2> QED BY <1>8, <2>1 DEF SameBag
<1>12. ListedBags(v) = ListedBags(w) \cup {b}
  BY <1>8, <1>9, <1>10 DEF ListedBags
<1>13. LinksOK(v)
  <2>1. Links(v)[b] = w.changed /\ \A c \in ListedBags(w) : Links(v)[c] = Links(w)[c]
    BY <1>8, <1>9, <1>10 DEF Links, ListedBags
  <2> QED BY <1>1, <1>2, <1>10, <1>12, <2>1, ChainPush DEF LinksOK
<1>14. v.mptrEnd = w.mptrEnd /\ v.allocBags = w.allocBags /\ v.youngBags = w.youngBags
  BY DEF SameAreas
<1>15. MptrsOK(v) /\ DeadIds(v) = DeadIds(w)
  BY <1>1, <1>8, <1>14, MptrsKept
<1>16. ZeroOK(v)
  BY <1>1, <1>8, <1>14 DEF ZeroOK
<1>17. WordsOK(v)
  <2> SUFFICES ASSUME NEW c \in LiveBags(w) PROVE WordsAt(v, c)
    BY <1>8 DEF WordsOK
  <2>1. SIZE_BAG(w, c) \in Nat /\ WordsAt(w, c) /\ SameBag(w, v, c)
    BY <1>1, <1>8, <1>11, Placed DEF SoundBut
  <2> QED BY <1>8, <1>15, <2>1, WordsKept
<1>18. RemembersOK(v)
  <2> SUFFICES ASSUME NEW c \in LiveBags(w) PROVE RemembersAt(v, c)
    BY <1>8 DEF RemembersOK
  <2>1. CASE c = b
    BY <1>9, <1>10, <2>1 DEF RemembersAt
  <2>2. CASE c # b
    <3>1. \A x \in LiveBags(v) : IsOld(v, x) <=> IsOld(w, x)
      <4>1. \A x \in LiveBags(v) : v.mem[x] = w.mem[x]
        BY <1>8 DEF LiveBags, IdsOf
      <4> QED BY <1>14, <4>1 DEF IsOld, PTR_BAG
    <3>2. \A x \in LiveBags(v) : Remembered(w, x) => Remembered(v, x)
      BY <1>8, <1>9, <1>10, <3>1 DEF Remembered
    <3>3. RemembersAt(w, c) /\ SameBag(w, v, c) /\ LINK_BAG(v, c) = LINK_BAG(w, c)
      BY <1>8, <2>2 DEF SoundBut
    <3> QED BY <1>8, <3>1, <3>2, <3>3, RemembersKept
  <2> QED BY <2>1, <2>2
<1>19. Sound(v, W)
  BY <1>8, <1>13, <1>15, <1>16, <1>17, <1>18 DEF Sound
<1> QED BY <1>8, <1>9, <1>10, <1>11, <1>15, <1>19

(* The same bags, with the same type, size and words.                      *)
Kept(w, v) ==
    /\ v \in Workspace /\ SameAreas(w, v) /\ v.freeMptr = w.freeMptr
    /\ v.newMarker = w.newMarker /\ v.nrHalfDead = w.nrHalfDead /\ v.nrLive = w.nrLive
    /\ LiveBags(v) = LiveBags(w) /\ DeadIds(v) = DeadIds(w)
    /\ \A x \in IdsOf(w) : v.mem[x] = w.mem[x]
    /\ \A c \in LiveBags(w) : SameBag(w, v, c)

(* Every workspace keeps its own bags.                                     *)
LEMMA KeptSelf == ASSUME NEW w \in Workspace PROVE Kept(w, w)
BY DEF Kept, SameAreas, SameBag

(* One word of a memory is written.                                        *)
LEMMA Poked ==
    ASSUME NEW m \in [1 .. Limit -> Int], NEW a \in 1 .. Limit, NEW x \in Int
    PROVE  /\ [m EXCEPT ![a] = x] \in [1 .. Limit -> Int]
           /\ [m EXCEPT ![a] = x][a] = x
           /\ \A c \in 1 .. Limit : c # a => [m EXCEPT ![a] = x][c] = m[c]
OBVIOUS

(* Bag b, with its link word at a, is put onto the list of changed bags.   *)
Pushed(w, a, b) == [w EXCEPT !.mem[a] = w.changed, !.changed = b]

(* The fields after a bag has been put onto the list.                      *)
LEMMA PushFields ==
    ASSUME NEW w, w \in Workspace, NEW a, a \in 1 .. Limit, NEW b, b \in Nat,
           NEW v, v = Pushed(w, a, b)
    PROVE  /\ v \in Workspace /\ SameAreas(w, v) /\ v.freeMptr = w.freeMptr /\ v.changed = b
           /\ v.newMarker = w.newMarker /\ v.nrHalfDead = w.nrHalfDead /\ v.nrLive = w.nrLive
           /\ v.mem[a] = w.changed
           /\ \A x \in 1 .. Limit : x # a => v.mem[x] = w.mem[x]
<1>1. w.mem \in [1 .. Limit -> Int] /\ w.changed \in Int
  BY ONLY w \in Workspace DEF Workspace
<1> DEFINE m == [w.mem EXCEPT ![a] = w.changed]
<1>2. m \in [1 .. Limit -> Int] /\ m[a] = w.changed /\ \A x \in 1 .. Limit : x # a => m[x] = w.mem[x]
  BY ONLY <1>1, a \in 1 .. Limit, Poked
<1>3. v = [w EXCEPT !.mem = m, !.changed = b]
  BY ONLY v = Pushed(w, a, b), w \in Workspace DEF m, Workspace, Pushed
<1> HIDE DEF m
<1>4. v \in Workspace
  BY ONLY <1>2, <1>3, w \in Workspace, b \in Nat DEF Workspace
<1>5. /\ v.changed = b /\ v.mem = m /\ SameAreas(w, v) /\ v.freeMptr = w.freeMptr
      /\ v.newMarker = w.newMarker /\ v.nrHalfDead = w.nrHalfDead /\ v.nrLive = w.nrLive
  BY ONLY <1>3, w \in Workspace DEF Workspace, SameAreas
<1> QED BY ONLY <1>2, <1>4, <1>5

(* After CHANGED_BAG the workspace is sound again.                         *)
LEMMA ChangedBagSound ==
    ASSUME NEW w, NEW W, NEW b \in LiveBags(w), SoundBut(w, W, b), WordsAt(w, b),
           NEW v, v = CHANGED_BAG(w, b)
    PROVE  Sound(v, W) /\ Kept(w, v)
<1>1. w \in Workspace /\ Areas(w) /\ Tiles(w, W)
  BY DEF SoundBut, Areas
<1>2. CASE IsOld(w, b) /\ LINK_BAG(w, b) = b
  <2>1. v = Pushed(w, w.mem[b] - 1, b)
    BY <1>2 DEF CHANGED_BAG, Pushed
  <2>2. w.mem[b] - 1 \in 1 .. Limit /\ b \in Nat
    BY <1>1, Placed, PlacedWords
  <2>3. /\ v \in Workspace /\ SameAreas(w, v) /\ v.freeMptr = w.freeMptr /\ v.changed = b
        /\ v.newMarker = w.newMarker /\ v.nrHalfDead = w.nrHalfDead /\ v.nrLive = w.nrLive
        /\ v.mem[w.mem[b] - 1] = w.changed
        /\ \A x \in 1 .. Limit : x # w.mem[b] - 1 => v.mem[x] = w.mem[x]
    BY <1>1, <2>1, <2>2, PushFields
  <2>4. /\ Sound(v, W)
        /\ LiveBags(v) = LiveBags(w) /\ DeadIds(v) = DeadIds(w)
        /\ \A x \in IdsOf(w) : v.mem[x] = w.mem[x]
        /\ \A c \in LiveBags(w) : SameBag(w, v, c) /\ (c # b => LINK_BAG(v, c) = LINK_BAG(w, c))
    BY ONLY b \in LiveBags(w), SoundBut(w, W, b), WordsAt(w, b), <1>2, <2>3, PushChanged
  <2> QED BY ONLY <2>3, <2>4 DEF Kept
<1>3. CASE ~ (IsOld(w, b) /\ LINK_BAG(w, b) = b)
  <2>1. v = w
    BY <1>3 DEF CHANGED_BAG
  <2>2. RemembersAt(w, b)
    BY <1>3 DEF RemembersAt
  <2>3. Sound(w, W)
    BY <2>2 DEF Sound, SoundBut, WordsOK, RemembersOK
  <2> QED BY <1>1, <2>1, <2>3, KeptSelf
<1> QED BY <1>2, <1>3

(* A sound workspace is sound but for any bag.                             *)
LEMMA SoundIsBut ==
    ASSUME NEW w, NEW W, NEW b \in LiveBags(w), Sound(w, W)
    PROVE  SoundBut(w, W, b) /\ WordsAt(w, b)
BY DEF Sound, SoundBut, WordsOK, RemembersOK

(* The same for a bag forced onto the list.                                *)
LEMMA ForceChangedSound ==
    ASSUME NEW w, NEW W, NEW b \in LiveBags(w), Sound(w, W),
           NEW v, v = ForceChanged(w, b)
    PROVE  /\ Sound(v, W) /\ Kept(w, v) /\ LINK_BAG(v, b) # b
           /\ \A c \in LiveBags(w) : c # b => LINK_BAG(v, c) = LINK_BAG(w, c)
<1>1. w \in Workspace /\ Areas(w) /\ Tiles(w, W) /\ SoundBut(w, W, b) /\ WordsAt(w, b)
  BY SoundIsBut DEF Sound, Areas
<1>2. CASE LINK_BAG(w, b) = b
  <2>1. v = Pushed(w, w.mem[b] - 1, b)
    BY <1>2 DEF ForceChanged, Pushed
  <2>2. w.mem[b] - 1 \in 1 .. Limit /\ b \in Nat
    BY <1>1, Placed, PlacedWords
  <2>3. /\ v \in Workspace /\ SameAreas(w, v) /\ v.freeMptr = w.freeMptr /\ v.changed = b
        /\ v.newMarker = w.newMarker /\ v.nrHalfDead = w.nrHalfDead /\ v.nrLive = w.nrLive
        /\ v.mem[w.mem[b] - 1] = w.changed
        /\ \A x \in 1 .. Limit : x # w.mem[b] - 1 => v.mem[x] = w.mem[x]
    BY <1>1, <2>1, <2>2, PushFields
  <2>4. /\ Sound(v, W)
        /\ LiveBags(v) = LiveBags(w) /\ DeadIds(v) = DeadIds(w)
        /\ \A x \in IdsOf(w) : v.mem[x] = w.mem[x]
        /\ \A c \in LiveBags(w) : SameBag(w, v, c) /\ (c # b => LINK_BAG(v, c) = LINK_BAG(w, c))
        /\ LINK_BAG(v, b) # b
    BY ONLY b \in LiveBags(w), <1>1, <1>2, <2>3, PushChanged
  <2> QED BY ONLY <2>3, <2>4 DEF Kept
<1>3. CASE LINK_BAG(w, b) # b
  <2>1. v = w
    BY <1>3 DEF ForceChanged
  <2> QED BY <1>1, <1>3, <2>1, KeptSelf
<1> QED BY <1>2, <1>3

-----------------------------------------------------------------------------
(* NewBag.                                                                 *)

(* The fields that NewBag leaves.                                          *)
LEMMA NewBagFields ==
    ASSUME NEW w, w \in Workspace, NEW t, t \in 1 .. 2, NEW n, n \in Nat,
           w.freeMptr \in 1 .. Limit, w.freeMptr < w.allocBags, w.allocBags + 1 <= Limit,
           w.mem[w.freeMptr] \in Nat,
           NEW v, v = NewBag(w, t, n)
    PROVE  /\ v \in Workspace
           /\ v.mptrEnd = w.mptrEnd /\ v.oldBags = w.oldBags /\ v.youngBags = w.youngBags
           /\ v.allocBags = w.allocBags + 2 + n /\ v.endBags = w.endBags
           /\ v.freeMptr = w.mem[w.freeMptr] /\ v.changed = w.changed
           /\ v.newMarker = w.newMarker /\ v.nrHalfDead = w.nrHalfDead /\ v.nrLive = w.nrLive
           /\ v.mem[w.allocBags] = Header(t, 0, n)
           /\ v.mem[w.allocBags + 1] = w.freeMptr
           /\ v.mem[w.freeMptr] = w.allocBags + 2
           /\ \A a \in 1 .. Limit :
                 a \notin {w.allocBags, w.allocBags + 1, w.freeMptr} => v.mem[a] = w.mem[a]
<1>1. /\ w.mem \in [1 .. Limit -> Int] /\ w.allocBags \in Nat /\ Limit \in Nat
      /\ w.freeMptr \in Nat
  BY ONLY w \in Workspace, LayoutAssumption DEF Workspace, LayoutAssumption
<1>2. Header(t, 0, n) \in Int
  BY ONLY t \in 1 .. 2, n \in Nat DEF Header
<1> DEFINE p == w.allocBags
           b == w.freeMptr
           m1 == [w.mem EXCEPT ![p] = Header(t, 0, n)]
           m2 == [m1 EXCEPT ![p + 1] = b]
           m == [m2 EXCEPT ![b] = p + 2]
<1>3. p \in 1 .. Limit /\ p + 1 \in 1 .. Limit /\ b \in 1 .. Limit /\ p # p + 1 /\ b # p /\ b # p + 1
      /\ p + 2 \in Int /\ b \in Int
  BY <1>1, SMTT(20)
<1>4. v = [w EXCEPT !.mem = m, !.freeMptr = w.mem[w.freeMptr], !.allocBags = w.allocBags + 2 + n]
  BY ONLY v = NewBag(w, t, n), w \in Workspace DEF NewBag, Workspace, HeaderWords
<1> HIDE DEF p, b
<1>5. /\ m1 \in [1 .. Limit -> Int] /\ m1[p] = Header(t, 0, n)
      /\ \A a \in 1 .. Limit : a # p => m1[a] = w.mem[a]
  BY ONLY <1>1, <1>2, <1>3, Poked
<1> HIDE DEF m1
<1>6. /\ m2 \in [1 .. Limit -> Int] /\ m2[p + 1] = b
      /\ \A a \in 1 .. Limit : a # p + 1 => m2[a] = m1[a]
  BY ONLY <1>5, <1>3, Poked
<1> HIDE DEF m2
<1>7. /\ m \in [1 .. Limit -> Int] /\ m[b] = p + 2
      /\ \A a \in 1 .. Limit : a # b => m[a] = m2[a]
  BY ONLY <1>6, <1>3, Poked
<1> HIDE DEF m
<1>8. /\ m[p] = Header(t, 0, n) /\ m[p + 1] = b /\ m[b] = p + 2
      /\ \A a \in 1 .. Limit : a \notin {p, p + 1, b} => m[a] = w.mem[a]
  BY ONLY <1>3, <1>5, <1>6, <1>7
<1>9. w.allocBags + 2 + n \in Nat
  BY <1>1
<1>10. v \in Workspace
  BY ONLY <1>4, <1>7, <1>9, w \in Workspace, w.mem[w.freeMptr] \in Nat DEF Workspace
<1>11. /\ v.mem = m
       /\ v.mptrEnd = w.mptrEnd /\ v.oldBags = w.oldBags /\ v.youngBags = w.youngBags
       /\ v.allocBags = w.allocBags + 2 + n /\ v.endBags = w.endBags
       /\ v.freeMptr = w.mem[w.freeMptr] /\ v.changed = w.changed
       /\ v.newMarker = w.newMarker /\ v.nrHalfDead = w.nrHalfDead /\ v.nrLive = w.nrLive
  BY ONLY <1>4, w \in Workspace DEF Workspace
<1> QED BY ONLY <1>8, <1>10, <1>11 DEF p, b

(* Areas in one numerical fact.                                            *)
LEMMA AreaNumbers ==
    ASSUME NEW w, Areas(w)
    PROVE  /\ w.mptrEnd \in Nat /\ w.oldBags \in Nat /\ w.youngBags \in Nat
           /\ w.allocBags \in Nat /\ w.endBags \in Nat /\ Limit \in Nat
           /\ 1 <= w.mptrEnd /\ w.mptrEnd <= w.oldBags /\ w.oldBags <= w.youngBags
           /\ w.youngBags <= w.allocBags /\ w.allocBags <= w.endBags /\ w.endBags <= Limit + 1
           /\ w.oldBags <= w.allocBags /\ w.allocBags <= Limit + 1 /\ w.mptrEnd <= w.allocBags
           /\ w.mptrEnd <= Limit + 1
<1>1. /\ w.mptrEnd \in Nat /\ w.oldBags \in Nat /\ w.youngBags \in Nat
      /\ w.allocBags \in Nat /\ w.endBags \in Nat /\ Limit \in Nat
      /\ 1 <= w.mptrEnd /\ w.mptrEnd <= w.oldBags /\ w.oldBags <= w.youngBags
      /\ w.youngBags <= w.allocBags /\ w.allocBags <= w.endBags /\ w.endBags <= Limit + 1
  BY AreaFacts
<1> QED BY ONLY <1>1

(* The first of the free masterpointers.                                   *)
LEMMA FirstFree ==
    ASSUME NEW w, Areas(w), MptrsOK(w), w.freeMptr # 0
    PROVE  /\ w.freeMptr \in FreeIds(w) /\ w.freeMptr \in IdsOf(w) /\ w.freeMptr \in 1 .. Limit
           /\ w.freeMptr < w.allocBags /\ w.freeMptr < w.oldBags
           /\ w.mem[w.freeMptr] \in Nat /\ w.mem[w.freeMptr] < w.mptrEnd
           /\ w.freeMptr \notin LiveBags(w) /\ w.freeMptr \notin DeadIds(w)
<1>1. w.freeMptr \in FreeIds(w)
  BY DEF MptrsOK, Chain
<1>2. w.freeMptr \in IdsOf(w) /\ (w.mem[w.freeMptr] = 0 \/ w.mem[w.freeMptr] \in IdsOf(w))
  BY <1>1 DEF FreeIds
<1>3. /\ w.mptrEnd \in Nat /\ w.oldBags \in Nat /\ w.allocBags \in Nat /\ Limit \in Nat
      /\ 1 <= w.mptrEnd /\ w.mptrEnd <= w.oldBags /\ w.oldBags <= w.allocBags /\ w.allocBags <= Limit + 1
  BY AreaNumbers
<1>4. /\ w.freeMptr \in 1 .. Limit /\ w.freeMptr < w.allocBags /\ w.freeMptr < w.oldBags
      /\ w.mem[w.freeMptr] \in Nat /\ w.mem[w.freeMptr] < w.mptrEnd
  BY ONLY <1>2, <1>3 DEF IdsOf
<1>5. w.freeMptr \notin LiveBags(w) /\ w.freeMptr \notin DeadIds(w)
  BY ONLY <1>3, <1>4 DEF LiveBags, DeadIds, Markers, HeaderWords
<1> QED BY <1>1, <1>2, <1>4, <1>5

(* A new bag: the body is put where the allocation area began.             *)
IsNew(w, v, b, t, n) ==
    /\ b \in IdsOf(w) /\ b \notin LiveBags(w) /\ LiveBags(v) = LiveBags(w) \cup {b}
    /\ DeadIds(v) = DeadIds(w) /\ v.newMarker = w.newMarker /\ v.nrHalfDead = w.nrHalfDead
    /\ \A x \in IdsOf(w) : x # b => v.mem[x] = w.mem[x]
    /\ \A c \in LiveBags(w) : SameBag(w, v, c)
    /\ TNUM_BAG(v, b) = t /\ SIZE_BAG(v, b) = n
    /\ \A i \in 0 .. n - 1 : Word(v, b, i) = 0
    /\ ~ IsOld(v, b)

(* NewBag gives such a bag.                                                *)
LEMMA NewBagSound ==
    ASSUME NEW w, NEW W, Sound(w, W), NEW t, t \in 1 .. 2, NEW n, n \in Nat,
           w.freeMptr # 0, w.allocBags + 2 + n <= w.endBags,
           NEW v, v = NewBag(w, t, n), NEW b, b = w.freeMptr
    PROVE  (\E V : SoundBut(v, V, b)) /\ IsNew(w, v, b, t, n)
<1>1. Areas(w) /\ Tiles(w, W) /\ WordsOK(w) /\ LinksOK(w) /\ MptrsOK(w) /\ ZeroOK(w) /\ RemembersOK(w)
  BY DEF Sound
<1>2. /\ b \in FreeIds(w) /\ b \in IdsOf(w) /\ b \in 1 .. Limit
      /\ b < w.allocBags /\ b < w.oldBags
      /\ w.mem[b] \in Nat /\ w.mem[b] < w.mptrEnd
      /\ b \notin LiveBags(w) /\ b \notin DeadIds(w)
  BY <1>1, FirstFree
<1>3. /\ w.mptrEnd \in Nat /\ w.oldBags \in Nat /\ w.youngBags \in Nat
      /\ w.allocBags \in Nat /\ w.endBags \in Nat /\ Limit \in Nat
      /\ 1 <= w.mptrEnd /\ w.mptrEnd <= w.oldBags /\ w.oldBags <= w.youngBags
      /\ w.youngBags <= w.allocBags /\ w.allocBags <= w.endBags /\ w.endBags <= Limit + 1
      /\ w.oldBags <= w.allocBags /\ w.allocBags <= Limit + 1 /\ w.mptrEnd <= w.allocBags
  BY <1>1, AreaNumbers
<1>4. w.allocBags + 1 <= Limit
  BY <1>3
<1>5. /\ v \in Workspace
      /\ v.mptrEnd = w.mptrEnd /\ v.oldBags = w.oldBags /\ v.youngBags = w.youngBags
      /\ v.allocBags = w.allocBags + 2 + n /\ v.endBags = w.endBags
      /\ v.freeMptr = w.mem[b] /\ v.changed = w.changed
      /\ v.newMarker = w.newMarker /\ v.nrHalfDead = w.nrHalfDead /\ v.nrLive = w.nrLive
      /\ v.mem[w.allocBags] = Header(t, 0, n)
      /\ v.mem[w.allocBags + 1] = b
      /\ v.mem[b] = w.allocBags + 2
      /\ \A a \in 1 .. Limit : a \notin {w.allocBags, w.allocBags + 1, b} => v.mem[a] = w.mem[a]
  <2>1. w \in Workspace
    BY <1>1 DEF Areas
  <2> QED BY <1>2, <1>4, <2>1, NewBagFields
<1>0. t \in 1 .. 3 /\ 0 \in 0 .. 1
  OBVIOUS
<1> DEFINE U == W \cup {w.allocBags + 2 + n}
<1>6. Areas(v)
  BY ONLY <1>3, <1>5, n \in Nat, w.allocBags + 2 + n <= w.endBags DEF Areas
<1>7. ASSUME NEW x \in IdsOf(w), x # b PROVE v.mem[x] = w.mem[x]
  <2>1. x \in 1 .. Limit /\ x \notin {w.allocBags, w.allocBags + 1, b}
    BY ONLY <1>3, <1>7, x \in IdsOf(w) DEF IdsOf
  <2> QED BY <1>5, <2>1
<1>8. IdsOf(v) = IdsOf(w)
  BY <1>5 DEF IdsOf
<1>9. LiveBags(v) = LiveBags(w) \cup {b}
  <2>1. b \in LiveBags(v)
    BY ONLY <1>2, <1>3, <1>5, n \in Nat DEF LiveBags, IdsOf, HeaderWords
  <2>2. ASSUME NEW x \in IdsOf(w), x # b PROVE x \in LiveBags(v) <=> x \in LiveBags(w)
    <3>1. w.mem[x] \in Int
      <4>1. x \in 1 .. Limit /\ w.mem \in [1 .. Limit -> Int]
        BY <1>1, <1>3, AreaFacts DEF IdsOf
      <4> QED BY <4>1
    <3>2. x \in FreeIds(w) \cup LiveBags(w) \cup DeadIds(w)
      BY <1>1 DEF MptrsOK
    <3>3. v.mem[x] = w.mem[x]
      BY <1>7, <2>2
    <3>4. (x \in FreeIds(w) => w.mem[x] < w.oldBags + 2) /\ (x \in DeadIds(w) => w.mem[x] < w.oldBags + 2)
      BY ONLY <1>3 DEF FreeIds, DeadIds, Markers, IdsOf
    <3> QED BY ONLY <1>3, <1>5, <3>1, <3>2, <3>3, <3>4, n \in Nat, x \in IdsOf(w) DEF LiveBags, IdsOf, HeaderWords
  <2>3. LiveBags(v) \subseteq IdsOf(w) /\ LiveBags(w) \subseteq IdsOf(w)
    BY <1>8 DEF LiveBags, IdsOf
  <2> QED BY <1>2, <2>1, <2>2, <2>3
<1>10. ASSUME NEW a \in Int, w.mptrEnd <= a, a < w.allocBags PROVE v.mem[a] = w.mem[a] /\ a \in 1 .. Limit
  <2>1. a \in 1 .. Limit /\ a \notin {w.allocBags, w.allocBags + 1, b}
    BY ONLY <1>2, <1>3, <1>10 DEF IdsOf
  <2> QED BY <1>5, <2>1
<1>11. ASSUME NEW c \in LiveBags(w)
       PROVE  /\ v.mem[c] = w.mem[c] /\ v.mem[w.mem[c] - 2] = w.mem[w.mem[c] - 2]
              /\ SameBag(w, v, c) /\ LINK_BAG(v, c) = LINK_BAG(w, c)
  <2>1. c \in IdsOf(w) /\ c # b
    BY <1>1, <1>2, Placed
  <2>2. v.mem[c] = w.mem[c]
    BY <1>7, <2>1
  <2>3. /\ w.mem[c] \in Int /\ SIZE_BAG(w, c) \in Nat /\ w.oldBags + 2 <= w.mem[c]
        /\ w.mem[c] + SIZE_BAG(w, c) <= w.allocBags
    BY <1>1, Placed
  <2>4. v.mem[w.mem[c] - 2] = w.mem[w.mem[c] - 2] /\ v.mem[w.mem[c] - 1] = w.mem[w.mem[c] - 1]
    <3>1. /\ w.mem[c] - 2 \in Int /\ w.mptrEnd <= w.mem[c] - 2 /\ w.mem[c] - 2 < w.allocBags
          /\ w.mem[c] - 1 \in Int /\ w.mptrEnd <= w.mem[c] - 1 /\ w.mem[c] - 1 < w.allocBags
      BY ONLY <1>3, <2>3
    <3> QED BY <1>10, <3>1
  <2>5. ASSUME NEW i \in 0 .. SIZE_BAG(w, c) - 1 PROVE Word(v, c, i) = Word(w, c, i)
    <3>1. w.mem[c] + i \in Int /\ w.mptrEnd <= w.mem[c] + i /\ w.mem[c] + i < w.allocBags
      BY ONLY <1>3, <2>3, i \in 0 .. SIZE_BAG(w, c) - 1
    <3> QED BY <1>10, <2>2, <3>1 DEF Word
  <2>6. TNUM_BAG(v, c) = TNUM_BAG(w, c) /\ SIZE_BAG(v, c) = SIZE_BAG(w, c) /\ LINK_BAG(v, c) = LINK_BAG(w, c)
    BY <2>2, <2>4 DEF TNUM_BAG, SIZE_BAG, LINK_BAG
  <2> QED BY <2>2, <2>4, <2>5, <2>6 DEF SameBag
<1>12. /\ v.mem[v.mem[b] - 2] = Header(t, 0, n) /\ LINK_BAG(v, b) = b
       /\ TNUM_BAG(v, b) = t /\ SIZE_BAG(v, b) = n
  <2>1. v.mem[b] - 2 = w.allocBags /\ v.mem[b] - 1 = w.allocBags + 1
    BY <1>3, <1>5
  <2>2. TypeIn(Header(t, 0, n)) = t /\ SizeIn(Header(t, 0, n)) = n
    BY ONLY <1>0, n \in Nat, HeaderFields
  <2> QED BY <1>5, <2>1, <2>2 DEF TNUM_BAG, SIZE_BAG, LINK_BAG
<1>13. ASSUME NEW i \in 0 .. n - 1 PROVE Word(v, b, i) = 0
  <2>1. /\ w.allocBags + 2 + i \in w.allocBags .. Limit /\ w.allocBags + 2 + i \in 1 .. Limit
        /\ w.allocBags + 2 + i \notin {w.allocBags, w.allocBags + 1, b}
        /\ v.mem[b] + i = w.allocBags + 2 + i
    BY <1>2, <1>3, <1>5
  <2>2. v.mem[w.allocBags + 2 + i] = w.mem[w.allocBags + 2 + i]
    BY <1>5, <2>1
  <2>3. w.mem[w.allocBags + 2 + i] = 0
    BY <1>1, <2>1 DEF ZeroOK
  <2> QED BY <2>1, <2>2, <2>3 DEF Word
<1>14. Tiles(v, U)
  <2>1. /\ Header(t, 0, n) \in Nat /\ TypeIn(Header(t, 0, n)) = t
        /\ Stride(Header(t, 0, n)) = 2 + n
    <3>1. Header(t, 0, n) \in Nat /\ TypeIn(Header(t, 0, n)) = t /\ SizeIn(Header(t, 0, n)) = n
      BY ONLY <1>0, n \in Nat, HeaderFields
    <3> QED BY <3>1 DEF Stride, T_DUMMY, HeaderWords
  <2>2. \A a \in W : a \in Int /\ w.oldBags <= a /\ a <= w.allocBags
    BY <1>1, <1>3 DEF Tiles
  <2>3. \A a \in W : a < w.allocBags => v.mem[a] = w.mem[a]
    BY <1>3, <1>10, <2>2
  <2>4. U \subseteq v.oldBags .. v.allocBags
    BY <1>3, <1>5, <2>2
  <2>5. v.oldBags \in U /\ v.youngBags \in U /\ v.allocBags \in U
    BY <1>1, <1>5 DEF Tiles
  <2>6. ASSUME NEW a \in U, a < v.allocBags
        PROVE  /\ v.mem[a] \in Nat /\ TypeIn(v.mem[a]) \in 1 .. 3 /\ a + Stride(v.mem[a]) \in U
    <3>1. a \in W
      BY <1>5, <2>6, <1>3
    <3>2. CASE a < w.allocBags
      BY <1>1, <2>3, <3>1, <3>2 DEF Tiles
    <3>3. CASE a = w.allocBags
      BY <1>3, <1>5, <2>1, <3>3
    <3> QED BY <1>3, <2>2, <3>1, <3>2, <3>3
  <2>7. ASSUME NEW a \in U, NEW c \in U, a < c PROVE a + Stride(v.mem[a]) <= c
    <3>1. a \in W
      BY <1>3, <2>2, <2>7
    <3>2. CASE a < w.allocBags /\ c \in W
      BY <1>1, <2>3, <2>7, <3>1, <3>2 DEF Tiles
    <3>3. CASE a < w.allocBags /\ c \notin W
      <4>1. a + Stride(v.mem[a]) <= w.allocBags /\ c = w.allocBags + 2 + n
        BY <1>1, <2>3, <3>1, <3>3 DEF Tiles
      <4>2. Stride(v.mem[a]) \in Nat
        BY <1>1, <2>3, <3>1, <3>3, StrideFacts DEF Tiles
      <4> QED BY ONLY <4>1, <4>2, <1>3, <2>2, <3>1, n \in Nat
    <3>4. CASE a = w.allocBags
      <4>1. c = w.allocBags + 2 + n
        BY <1>3, <2>2, <2>7, <3>4
      <4> QED BY <1>3, <1>5, <2>1, <3>4, <4>1
    <3> QED BY <1>3, <2>2, <3>1, <3>2, <3>3, <3>4
  <2>8. ASSUME NEW c \in LiveBags(v) PROVE v.mem[c] - 2 \in U /\ TNUM_BAG(v, c) # T_DUMMY
    <3>1. CASE c = b
      <4>1. v.mem[b] - 2 = w.allocBags
        BY <1>3, <1>5
      <4> QED BY <1>1, <1>12, <3>1, <4>1 DEF Tiles, T_DUMMY
    <3>2. CASE c # b
      BY <1>1, <1>9, <1>11, <3>2 DEF Tiles, SameBag
    <3> QED BY <3>1, <3>2
  <2>9. ASSUME NEW a \in U, a < v.allocBags, TypeIn(v.mem[a]) # T_DUMMY
        PROVE  \E c \in LiveBags(v) : v.mem[c] = a + 2
    <3>1. a \in W
      BY <1>5, <2>9, <1>3
    <3>2. CASE a < w.allocBags
      <4>1. PICK c \in LiveBags(w) : w.mem[c] = a + 2
        BY <1>1, <2>3, <2>9, <3>1, <3>2 DEF Tiles
      <4> QED BY <1>9, <1>11, <4>1
    <3>3. CASE a = w.allocBags
      BY <1>5, <1>9, <3>3
    <3> QED BY <1>3, <2>2, <3>1, <3>2, <3>3
  <2>10. ASSUME NEW c \in LiveBags(v), NEW d \in LiveBags(v), v.mem[c] = v.mem[d] PROVE c = d
    <3>1. \A e \in LiveBags(w) : v.mem[e] \in Int /\ v.mem[e] <= w.allocBags
      BY <1>1, <1>11, Placed
    <3>2. \A e, f \in LiveBags(w) : v.mem[e] = v.mem[f] => e = f
      BY <1>1, <1>11 DEF Tiles
    <3>3. v.mem[b] = w.allocBags + 2
      BY <1>5
    <3> QED BY ONLY <1>3, <1>9, <2>10, <3>1, <3>2, <3>3
  <2> QED BY <2>4, <2>5, <2>6, <2>7, <2>8, <2>9, <2>10 DEF Tiles
<1>15. DeadIds(v) = DeadIds(w)
  <2>1. v.mem[b] \notin Markers
    BY <1>3, <1>5 DEF Markers
  <2> QED BY <1>2, <1>7, <1>8, <2>1 DEF DeadIds
<1>16. FreeIds(v) = FreeIds(w) \ {b}
  <2>1. v.mem[b] # 0 /\ v.mem[b] \notin IdsOf(w)
    BY <1>3, <1>5 DEF IdsOf
  <2> QED BY <1>2, <1>7, <1>8, <2>1 DEF FreeIds
<1>17. MptrsOK(v)
  <2>1. Chain(w.mem[b], w.mem, FreeIds(w) \ {b})
    BY <1>1, ChainPop DEF MptrsOK
  <2>2. \A x \in FreeIds(w) \ {b} : v.mem[x] = w.mem[x]
    BY <1>7 DEF FreeIds
  <2>3. Chain(w.mem[b], v.mem, FreeIds(w) \ {b})
    BY ONLY <2>1, <2>2, ChainSame
  <2>4. \A x \in IdsOf(v) : x \in FreeIds(v) \cup LiveBags(v) \cup DeadIds(v)
    BY <1>1, <1>8, <1>9, <1>15, <1>16 DEF MptrsOK
  <2> QED BY <1>5, <1>16, <2>3, <2>4 DEF MptrsOK
<1>18. ListedBags(v) = ListedBags(w)
  BY <1>9, <1>11, <1>12 DEF ListedBags
<1>19. LinksOK(v)
  <2>1. \A c \in ListedBags(w) : Links(v)[c] = Links(w)[c]
    BY <1>9, <1>11 DEF Links, ListedBags
  <2> QED BY <1>1, <1>5, <1>18, <2>1, ChainSame DEF LinksOK
<1>20. ZeroOK(v)
  <2> SUFFICES ASSUME NEW a \in v.allocBags .. Limit PROVE v.mem[a] = 0
    BY DEF ZeroOK
  <2>1. a \in 1 .. Limit /\ a \in w.allocBags .. Limit /\ a \notin {w.allocBags, w.allocBags + 1, b}
    BY <1>2, <1>3, <1>5
  <2> QED BY <1>1, <1>5, <2>1 DEF ZeroOK
<1>21. ~ IsOld(v, b)
  BY <1>3, <1>5 DEF IsOld, PTR_BAG
<1>22. ASSUME NEW c \in LiveBags(w) PROVE WordsAt(v, c)
  <2>1. WordsAt(w, c) /\ SIZE_BAG(w, c) \in Nat /\ SameBag(w, v, c)
    BY <1>1, <1>11, Placed DEF WordsOK
  <2> QED BY <1>9, <1>15, <2>1, WordsKept
<1>23. ASSUME NEW c \in LiveBags(w) PROVE RemembersAt(v, c)
  <2>1. \A x \in LiveBags(w) : IsOld(v, x) <=> IsOld(w, x)
    BY <1>5, <1>11 DEF IsOld, PTR_BAG
  <2>2. \A x \in LiveBags(w) : Remembered(w, x) => Remembered(v, x)
    BY <1>11, <2>1 DEF Remembered
  <2>3. /\ WordsAt(w, c) /\ TNUM_BAG(w, c) \in {T_LIST, T_WPOBJ} /\ SIZE_BAG(w, c) \in Nat
        /\ SameBag(w, v, c) /\ RemembersAt(w, c)
    BY <1>1, <1>11, Placed DEF WordsOK, RemembersOK
  <2>4. \A i \in 0 .. SIZE_BAG(w, c) - 1 : Word(w, c, i) # b
    BY <1>1, <1>2, <2>3, WordsNotFree
  <2>5. LINK_BAG(v, c) = LINK_BAG(w, c)
    BY <1>11
  <2> QED BY <1>9, <2>1, <2>2, <2>3, <2>4, <2>5 DEF RemembersAt, SameBag
<1>24. SoundBut(v, U, b)
  BY <1>6, <1>9, <1>14, <1>17, <1>19, <1>20, <1>22, <1>23 DEF SoundBut
<1> QED BY <1>2, <1>5, <1>7, <1>9, <1>11, <1>12, <1>13, <1>15, <1>21, <1>24 DEF IsNew

-----------------------------------------------------------------------------
(* ResizeBag.                                                              *)

(* From the header of a bag to its last word.                              *)
WholeBag(w, b) == w.mem[b] - 2 .. w.mem[b] + SIZE_BAG(w, b) - 1

(* What is written outside the bodies of other bags leaves these alone.    *)
LEMMA OthersKept ==
    ASSUME NEW w, NEW W, Areas(w), Tiles(w, W), NEW b \in LiveBags(w), NEW v,
           \A x \in IdsOf(w) : x # b => v.mem[x] = w.mem[x],
           \A a \in 1 .. Limit :
              w.mptrEnd <= a /\ a < w.allocBags /\ a \notin WholeBag(w, b) => v.mem[a] = w.mem[a]
    PROVE  \A c \in LiveBags(w) :
              c # b => /\ v.mem[c] = w.mem[c] /\ SameBag(w, v, c) /\ LINK_BAG(v, c) = LINK_BAG(w, c)
                       /\ v.mem[w.mem[c] - 2] = w.mem[w.mem[c] - 2]
<1> SUFFICES ASSUME NEW c \in LiveBags(w), c # b
             PROVE  /\ v.mem[c] = w.mem[c] /\ SameBag(w, v, c) /\ LINK_BAG(v, c) = LINK_BAG(w, c)
                    /\ v.mem[w.mem[c] - 2] = w.mem[w.mem[c] - 2]
  OBVIOUS
<1>1. v.mem[c] = w.mem[c]
  <2>1. c \in IdsOf(w)
    BY Placed
  <2> QED BY <2>1
<1>2. /\ w.mptrEnd \in Nat /\ w.oldBags \in Nat /\ w.allocBags \in Nat /\ Limit \in Nat
      /\ 1 <= w.mptrEnd /\ w.mptrEnd <= w.oldBags /\ w.oldBags <= w.allocBags /\ w.allocBags <= Limit + 1
  BY AreaNumbers
<1>3. /\ w.mem[c] \in Int /\ w.oldBags + 2 <= w.mem[c] /\ SIZE_BAG(w, c) \in Nat
      /\ w.mem[c] + SIZE_BAG(w, c) <= w.allocBags
      /\ w.mem[b] \in Int /\ SIZE_BAG(w, b) \in Nat
  BY Placed
<1>4. \/ w.mem[b] + SIZE_BAG(w, b) <= w.mem[c] - 2
      \/ w.mem[c] + SIZE_BAG(w, c) <= w.mem[b] - 2
  BY Apart
<1>5. ASSUME NEW a \in WholeBag(w, c) PROVE v.mem[a] = w.mem[a]
  <2>1. a \in 1 .. Limit /\ w.mptrEnd <= a /\ a < w.allocBags /\ a \notin WholeBag(w, b)
    BY ONLY <1>2, <1>3, <1>4, a \in WholeBag(w, c) DEF WholeBag
  <2> QED BY <2>1
<1>6. w.mem[c] - 2 \in WholeBag(w, c) /\ w.mem[c] - 1 \in WholeBag(w, c)
  BY ONLY <1>3 DEF WholeBag
<1>7. v.mem[w.mem[c] - 2] = w.mem[w.mem[c] - 2] /\ v.mem[w.mem[c] - 1] = w.mem[w.mem[c] - 1]
  BY <1>5, <1>6
<1>8. ASSUME NEW i \in 0 .. SIZE_BAG(w, c) - 1 PROVE Word(v, c, i) = Word(w, c, i)
  <2>1. w.mem[c] + i \in WholeBag(w, c)
    BY ONLY <1>3, i \in 0 .. SIZE_BAG(w, c) - 1 DEF WholeBag
  <2> QED BY <1>1, <1>5, <2>1 DEF Word
<1>9. TNUM_BAG(v, c) = TNUM_BAG(w, c) /\ SIZE_BAG(v, c) = SIZE_BAG(w, c) /\ LINK_BAG(v, c) = LINK_BAG(w, c)
  BY <1>1, <1>7 DEF TNUM_BAG, SIZE_BAG, LINK_BAG
<1> QED BY <1>1, <1>7, <1>8, <1>9 DEF SameBag

(* Bag b of w has n words in v, the first ones are those it had and any    *)
(* others are zero; other bags and the masterpointers are as they were.    *)
Resizes(w, v, b, n) ==
    /\ v.mptrEnd = w.mptrEnd /\ v.freeMptr = w.freeMptr /\ v.endBags = w.endBags
    /\ v.newMarker = w.newMarker /\ v.nrHalfDead = w.nrHalfDead /\ v.nrLive = w.nrLive
    /\ LiveBags(v) = LiveBags(w) /\ DeadIds(v) = DeadIds(w)
    /\ \A x \in IdsOf(w) : x # b => v.mem[x] = w.mem[x]
    /\ \A c \in LiveBags(w) : c # b => SameBag(w, v, c)
    /\ TNUM_BAG(v, b) = TNUM_BAG(w, b) /\ SIZE_BAG(v, b) = n
    /\ \A i \in 0 .. n - 1 : Word(v, b, i) = IF i < SIZE_BAG(w, b) THEN Word(w, b, i) ELSE 0

(* The words of the resized bag are what they may be.                      *)
LEMMA ResizedWords ==
    ASSUME NEW w, NEW v, NEW b, NEW n \in Nat, Resizes(w, v, b, n), WordsAt(w, b), SIZE_BAG(w, b) \in Nat,
           TNUM_BAG(w, b) = T_WPOBJ => n >= SIZE_BAG(w, b)
    PROVE  WordsAt(v, b)
<1>1. CASE TNUM_BAG(w, b) = T_LIST
  BY <1>1 DEF WordsAt, Resizes, T_LIST, T_WPOBJ
<1>2. CASE TNUM_BAG(w, b) = T_WPOBJ
  <2>1. SIZE_BAG(w, b) >= 2 /\ n >= SIZE_BAG(w, b) /\ SIZE_BAG(v, b) = n
    BY <1>2 DEF WordsAt, Resizes
  <2>2. 0 \in 0 .. n - 1 /\ 0 < SIZE_BAG(w, b)
    BY <2>1
  <2>3. LenWord(v, b) = LenWord(w, b)
    BY <2>2 DEF LenWord, Resizes
  <2>4. LenWord(w, b) \in 0 .. SIZE_BAG(w, b) - 1
    BY <1>2 DEF WordsAt
  <2>5. ASSUME NEW i \in 1 .. n - 1
        PROVE  /\ Word(v, b, i) \in LiveBags(v) \cup DeadIds(v) \cup {0}
               /\ i > LenWord(v, b) => Word(v, b, i) = 0
    <3>1. i \in 0 .. n - 1 /\ i \in Nat
      OBVIOUS
    <3>2. CASE i < SIZE_BAG(w, b)
      <4>1. i \in 1 .. SIZE_BAG(w, b) - 1
        BY <3>2
      <4>2. Word(v, b, i) = Word(w, b, i) /\ LiveBags(v) = LiveBags(w) /\ DeadIds(v) = DeadIds(w)
        BY <3>1, <3>2 DEF Resizes
      <4> QED BY <1>2, <2>3, <4>1, <4>2 DEF WordsAt
    <3>3. CASE ~ (i < SIZE_BAG(w, b))
      BY <3>1, <3>3 DEF Resizes
    <3> QED BY <3>2, <3>3
  <2>6. TNUM_BAG(v, b) = T_WPOBJ
    BY <1>2 DEF Resizes
  <2> QED BY <2>1, <2>3, <2>4, <2>5, <2>6 DEF WordsAt, T_LIST, T_WPOBJ
<1>3. CASE TNUM_BAG(w, b) \notin {T_LIST, T_WPOBJ}
  BY <1>3 DEF WordsAt, Resizes
<1> QED BY <1>1, <1>2, <1>3

(* What remains to be seen after the areas and bodies of a resize: the     *)
(* masterpointers, the list of changed bags and what it remembers.         *)
LEMMA ResizeSound ==
    ASSUME NEW w, NEW W, Sound(w, W), NEW b \in LiveBags(w), NEW v, NEW U, NEW n \in Nat,
           Areas(v), Tiles(v, U), ZeroOK(v), LinksOK(v), Resizes(w, v, b, n),
           TNUM_BAG(w, b) = T_WPOBJ => n >= SIZE_BAG(w, b),
           \A c \in LiveBags(w) : c # b => (IsOld(v, c) <=> IsOld(w, c)) /\ (LINK_BAG(v, c) = LINK_BAG(w, c)),
           IsOld(v, b) /\ LINK_BAG(v, b) = b => IsOld(w, b) /\ LINK_BAG(w, b) = b,
           Remembered(w, b) => Remembered(v, b)
    PROVE  Sound(v, U)
<1>1. Areas(w) /\ Tiles(w, W) /\ WordsOK(w) /\ LinksOK(w) /\ MptrsOK(w) /\ RemembersOK(w)
  BY DEF Sound
<1>2. /\ LiveBags(v) = LiveBags(w) /\ DeadIds(v) = DeadIds(w) /\ IdsOf(v) = IdsOf(w)
      /\ v.freeMptr = w.freeMptr
      /\ \A x \in IdsOf(w) : x # b => v.mem[x] = w.mem[x]
  BY DEF Resizes, IdsOf
<1>3. FreeIds(v) = FreeIds(w) /\ b \notin FreeIds(w)
  <2>1. /\ w.mptrEnd \in Nat /\ w.oldBags \in Nat /\ w.mptrEnd <= w.oldBags /\ 1 <= w.mptrEnd
        /\ v.mptrEnd \in Nat /\ v.oldBags \in Nat /\ v.mptrEnd <= v.oldBags /\ 1 <= v.mptrEnd
    BY <1>1, AreaNumbers
  <2>2. b \notin FreeIds(w)
    BY ONLY <2>1, b \in LiveBags(w) DEF LiveBags, FreeIds, IdsOf, HeaderWords
  <2>3. b \notin FreeIds(v)
    <3>1. b \in LiveBags(v)
      BY <1>2
    <3> QED BY ONLY <2>1, <3>1 DEF LiveBags, FreeIds, IdsOf, HeaderWords
  <2>4. ASSUME NEW x \in IdsOf(w), x # b PROVE x \in FreeIds(v) <=> x \in FreeIds(w)
    BY <1>2, <2>4 DEF FreeIds
  <2>5. FreeIds(v) \subseteq IdsOf(w) /\ FreeIds(w) \subseteq IdsOf(w)
    BY <1>2 DEF FreeIds
  <2> QED BY ONLY <2>2, <2>3, <2>4, <2>5
<1>4. MptrsOK(v)
  <2>1. \A x \in FreeIds(w) : v.mem[x] = w.mem[x]
    BY <1>2, <1>3 DEF FreeIds
  <2>2. Chain(v.freeMptr, v.mem, FreeIds(v))
    BY <1>1, <1>2, <1>3, <2>1, ChainSame DEF MptrsOK
  <2> QED BY <1>1, <1>2, <1>3, <2>2 DEF MptrsOK
<1>5. ASSUME NEW c \in LiveBags(w) PROVE WordsAt(v, c)
  <2>1. WordsAt(w, c) /\ SIZE_BAG(w, c) \in Nat
    BY <1>1, Placed DEF WordsOK
  <2>2. CASE c = b
    BY <2>1, <2>2, ResizedWords
  <2>3. CASE c # b
    <3>1. SameBag(w, v, c)
      BY <2>3 DEF Resizes
    <3> QED BY <1>2, <2>1, <3>1, WordsKept
  <2> QED BY <2>2, <2>3
<1>6. \A x \in LiveBags(v) : Remembered(w, x) => Remembered(v, x)
  BY <1>2 DEF Remembered
<1>7. ASSUME NEW c \in LiveBags(w) PROVE RemembersAt(v, c)
  <2>1. RemembersAt(w, c)
    BY <1>1 DEF RemembersOK
  <2>2. CASE c # b
    <3>1. SameBag(w, v, c)
      BY <2>2 DEF Resizes
    <3> QED BY <1>2, <1>6, <2>1, <2>2, <3>1, RemembersKept
  <2>3. CASE c = b
    <3> SUFFICES ASSUME IsOld(v, b), LINK_BAG(v, b) = b,
                        NEW i \in 0 .. SIZE_BAG(v, b) - 1, Word(v, b, i) \in LiveBags(v)
                 PROVE  Remembered(v, Word(v, b, i))
      BY <2>3 DEF RemembersAt
    <3>1. SIZE_BAG(v, b) = n /\ SIZE_BAG(w, b) \in Nat /\ 0 \notin LiveBags(w)
      BY <1>1, Placed DEF Resizes
    <3>2. Word(v, b, i) = IF i < SIZE_BAG(w, b) THEN Word(w, b, i) ELSE 0
      BY <3>1 DEF Resizes
    <3>3. i < SIZE_BAG(w, b) /\ Word(v, b, i) = Word(w, b, i) /\ i \in 0 .. SIZE_BAG(w, b) - 1
      BY <1>2, <3>1, <3>2
    <3>4. Remembered(w, Word(w, b, i))
      BY <1>2, <2>1, <2>3, <3>3 DEF RemembersAt
    <3> QED BY <1>6, <3>3, <3>4
  <2> QED BY <2>2, <2>3
<1> QED BY <1>2, <1>4, <1>5, <1>7 DEF Sound, WordsOK, RemembersOK

(* Two words are written.                                                  *)
TwoWords(w, a, x, c, y) == [w EXCEPT !.mem[a] = x, !.mem[c] = y]

Wrote(w, v, a, x, c, y) ==
    /\ v \in Workspace /\ SameAreas(w, v) /\ v.freeMptr = w.freeMptr /\ v.changed = w.changed
    /\ v.newMarker = w.newMarker /\ v.nrHalfDead = w.nrHalfDead /\ v.nrLive = w.nrLive
    /\ v.mem[a] = x /\ v.mem[c] = y
    /\ \A d \in 1 .. Limit : d # a /\ d # c => v.mem[d] = w.mem[d]

(* The fields after two words have been written.                           *)
LEMMA TwoPoked ==
    ASSUME NEW w, w \in Workspace, NEW a, a \in 1 .. Limit, NEW c, c \in 1 .. Limit, a # c,
           NEW x, x \in Int, NEW y, y \in Int
    PROVE  Wrote(w, TwoWords(w, a, x, c, y), a, x, c, y)
<1> DEFINE v == TwoWords(w, a, x, c, y)
<1> DEFINE m1 == [w.mem EXCEPT ![a] = x]
           m == [m1 EXCEPT ![c] = y]
<1>1. w.mem \in [1 .. Limit -> Int]
  BY ONLY w \in Workspace DEF Workspace
<1>2. v = [w EXCEPT !.mem = m]
  BY ONLY w \in Workspace DEF Workspace, TwoWords
<1> HIDE DEF v
<1>3. /\ m1 \in [1 .. Limit -> Int] /\ m1[a] = x
      /\ \A d \in 1 .. Limit : d # a => m1[d] = w.mem[d]
  BY ONLY <1>1, a \in 1 .. Limit, x \in Int, Poked
<1> HIDE DEF m1
<1>4. /\ m \in [1 .. Limit -> Int] /\ m[c] = y
      /\ \A d \in 1 .. Limit : d # c => m[d] = m1[d]
  BY ONLY <1>3, c \in 1 .. Limit, y \in Int, Poked
<1> HIDE DEF m
<1>5. m[a] = x /\ \A d \in 1 .. Limit : d # a /\ d # c => m[d] = w.mem[d]
  BY ONLY <1>3, <1>4, a # c, a \in 1 .. Limit
<1>6. v \in Workspace
  BY ONLY <1>2, <1>4, w \in Workspace DEF Workspace
<1>7. /\ v.mem = m /\ SameAreas(w, v) /\ v.freeMptr = w.freeMptr /\ v.changed = w.changed
      /\ v.newMarker = w.newMarker /\ v.nrHalfDead = w.nrHalfDead /\ v.nrLive = w.nrLive
  BY ONLY <1>2, w \in Workspace DEF Workspace, SameAreas
<1>8. Wrote(w, v, a, x, c, y)
  BY ONLY <1>4, <1>5, <1>6, <1>7 DEF Wrote
<1> QED BY ONLY <1>8 DEF v

(* The header of the remainder of a bag that lost n words.                 *)
Remainder(n) == IF n = 1 THEN Header(T_DUMMY, 1, 0) ELSE Header(T_DUMMY, 0, n - 1)

(* It leads over just these words.                                         *)
LEMMA RemainderStride ==
    ASSUME NEW n \in Nat, n >= 1
    PROVE  Remainder(n) \in Nat /\ TypeIn(Remainder(n)) = T_DUMMY /\ Stride(Remainder(n)) = n
<1>1. 3 \in 1 .. 3 /\ 1 \in 0 .. 1 /\ 0 \in 0 .. 1 /\ 0 \in Nat
  OBVIOUS
<1>2. CASE n = 1
  <2>1. /\ Header(3, 1, 0) \in Nat /\ TypeIn(Header(3, 1, 0)) = 3
        /\ FlagsIn(Header(3, 1, 0)) = 1
    BY ONLY <1>1, HeaderFields
  <2> QED BY <1>2, <2>1 DEF Remainder, Stride, T_DUMMY
<1>3. CASE n # 1
  <2>1. n - 1 \in Nat
    BY <1>3
  <2>2. /\ Header(3, 0, n - 1) \in Nat /\ TypeIn(Header(3, 0, n - 1)) = 3
        /\ FlagsIn(Header(3, 0, n - 1)) = 0 /\ SizeIn(Header(3, 0, n - 1)) = n - 1
    BY ONLY <1>1, <2>1, HeaderFields
  <2> QED BY <1>3, <2>2 DEF Remainder, Stride, T_DUMMY
<1> QED BY <1>2, <1>3

(* The header of a bag with another size.                                  *)
LEMMA HeaderResized ==
    ASSUME NEW t \in {T_LIST, T_WPOBJ}, NEW n \in Nat
    PROVE  /\ Header(t, 0, n) \in Nat /\ TypeIn(Header(t, 0, n)) = t /\ SizeIn(Header(t, 0, n)) = n
           /\ Stride(Header(t, 0, n)) = 2 + n /\ t # T_DUMMY /\ t \in 1 .. 3
<1>1. t \in 1 .. 3 /\ 0 \in 0 .. 1 /\ t # T_DUMMY
  BY DEF T_LIST, T_WPOBJ, T_DUMMY
<1>2. Header(t, 0, n) \in Nat /\ TypeIn(Header(t, 0, n)) = t /\ SizeIn(Header(t, 0, n)) = n
  BY ONLY <1>1, n \in Nat, HeaderFields
<1> QED BY <1>1, <1>2 DEF Stride, HeaderWords

(* A bag that loses its last words.                                        *)
LEMMA ShrinkBagSound ==
    ASSUME NEW w, NEW W, Sound(w, W), NEW b \in LiveBags(w), TNUM_BAG(w, b) = T_LIST,
           NEW n \in Nat, n < SIZE_BAG(w, b), NEW v, v = ShrinkBag(w, b, n)
    PROVE  Sound(v, W \cup {w.mem[b] + n}) /\ Resizes(w, v, b, n)
           /\ v.allocBags = w.allocBags
<1>1. /\ Areas(w) /\ Tiles(w, W) /\ WordsOK(w) /\ LinksOK(w) /\ MptrsOK(w) /\ ZeroOK(w) /\ RemembersOK(w)
      /\ w \in Workspace
  BY DEF Sound, Areas
<1> DEFINE p == w.mem[b]
           s == SIZE_BAG(w, b)
           U == W \cup {p + n}
<1>2. /\ b \in IdsOf(w) /\ b \in Nat /\ b # 0 /\ b < w.oldBags /\ b \in 1 .. Limit
      /\ p \in Int /\ w.oldBags + 2 <= p /\ p <= w.allocBags
      /\ s \in Nat /\ p + s <= w.allocBags
      /\ p - 2 \in W /\ w.mem[p - 2] \in Nat /\ Stride(w.mem[p - 2]) = 2 + s
      /\ TNUM_BAG(w, b) \in {T_LIST, T_WPOBJ}
  BY <1>1, Placed
<1>3. /\ w.mptrEnd \in Nat /\ w.oldBags \in Nat /\ w.youngBags \in Nat
      /\ w.allocBags \in Nat /\ w.endBags \in Nat /\ Limit \in Nat
      /\ 1 <= w.mptrEnd /\ w.mptrEnd <= w.oldBags /\ w.oldBags <= w.youngBags
      /\ w.youngBags <= w.allocBags /\ w.allocBags <= w.endBags /\ w.endBags <= Limit + 1
      /\ w.oldBags <= w.allocBags /\ w.allocBags <= Limit + 1 /\ w.mptrEnd <= w.allocBags
  BY <1>1, AreaNumbers
<1>4. n < s /\ n \in Nat
  OBVIOUS
<1> DEFINE h == Header(TNUM_BAG(w, b), 0, n)
           d == Remainder(s - n)
<1>5. h \in Nat /\ TypeIn(h) = TNUM_BAG(w, b) /\ SizeIn(h) = n /\ Stride(h) = 2 + n
      /\ TNUM_BAG(w, b) # T_DUMMY /\ TNUM_BAG(w, b) \in 1 .. 3
  BY <1>2, HeaderResized
<1>6. d \in Nat /\ TypeIn(d) = T_DUMMY /\ Stride(d) = s - n
  <2>1. s - n \in Nat /\ s - n >= 1
    BY <1>2, <1>4
  <2> QED BY <2>1, RemainderStride
<1>7. v = TwoWords(w, p - 2, h, p + n, d)
  BY DEF TwoWords, ShrinkBag, PTR_BAG, Remainder
<1> HIDE DEF h, d, p, s
<1>8. p - 2 \in 1 .. Limit /\ p + n \in 1 .. Limit /\ p - 2 # p + n
  BY ONLY <1>2, <1>3, <1>4
<1>9. /\ v \in Workspace /\ SameAreas(w, v) /\ v.freeMptr = w.freeMptr /\ v.changed = w.changed
      /\ v.newMarker = w.newMarker /\ v.nrHalfDead = w.nrHalfDead /\ v.nrLive = w.nrLive
      /\ v.mem[p - 2] = h /\ v.mem[p + n] = d
      /\ \A a \in 1 .. Limit : a # p - 2 /\ a # p + n => v.mem[a] = w.mem[a]
  <2>1. h \in Int /\ d \in Int
    BY ONLY <1>5, <1>6
  <2>2. Wrote(w, TwoWords(w, p - 2, h, p + n, d), p - 2, h, p + n, d)
    BY ONLY <1>1, <1>8, <2>1, TwoPoked
  <2> QED BY ONLY <1>7, <2>2 DEF Wrote
<1>10. Areas(v) /\ v.allocBags = w.allocBags /\ v.youngBags = w.youngBags /\ v.oldBags = w.oldBags
       /\ v.mptrEnd = w.mptrEnd /\ v.endBags = w.endBags
  BY ONLY <1>1, <1>9 DEF Areas, SameAreas
<1>11. ASSUME NEW x \in IdsOf(w) PROVE v.mem[x] = w.mem[x]
  <2>1. x \in 1 .. Limit /\ x # p - 2 /\ x # p + n
    BY ONLY <1>2, <1>3, <1>4, x \in IdsOf(w) DEF IdsOf
  <2> QED BY <1>9, <2>1
<1>12. LiveBags(v) = LiveBags(w) /\ DeadIds(v) = DeadIds(w)
  BY <1>10, <1>11 DEF LiveBags, DeadIds, IdsOf
<1>13. \A c \in LiveBags(w) :
          c # b => /\ v.mem[c] = w.mem[c] /\ SameBag(w, v, c) /\ LINK_BAG(v, c) = LINK_BAG(w, c)
                   /\ v.mem[w.mem[c] - 2] = w.mem[w.mem[c] - 2]
  <2>1. \A a \in 1 .. Limit :
              w.mptrEnd <= a /\ a < w.allocBags /\ a \notin WholeBag(w, b) => v.mem[a] = w.mem[a]
    <3>1. p - 2 \in WholeBag(w, b) /\ p + n \in WholeBag(w, b)
      BY <1>2, <1>4 DEF WholeBag, p, s
    <3> QED BY <1>9, <3>1
  <2> QED BY <1>1, <1>11, <2>1, OthersKept
<1>14. v.mem[b] = p
  BY <1>2, <1>11 DEF p
<1>15. TNUM_BAG(v, b) = TNUM_BAG(w, b) /\ SIZE_BAG(v, b) = n
  BY <1>5, <1>9, <1>14 DEF TNUM_BAG, SIZE_BAG
<1>16. LINK_BAG(v, b) = LINK_BAG(w, b)
  <2>1. p - 1 \in 1 .. Limit /\ p - 1 # p - 2 /\ p - 1 # p + n
    BY ONLY <1>2, <1>3, <1>4
  <2> QED BY <1>9, <1>14, <2>1 DEF LINK_BAG, p
<1>17. \A i \in 0 .. n - 1 : Word(v, b, i) = Word(w, b, i) /\ i < s
  <2> SUFFICES ASSUME NEW i \in 0 .. n - 1 PROVE Word(v, b, i) = Word(w, b, i) /\ i < s
    OBVIOUS
  <2>1. p + i \in 1 .. Limit /\ p + i # p - 2 /\ p + i # p + n /\ i < s
    BY ONLY <1>2, <1>3, <1>4, i \in 0 .. n - 1
  <2> QED BY <1>9, <1>14, <2>1 DEF Word, p
<1>18. Resizes(w, v, b, n)
  BY <1>9, <1>10, <1>11, <1>12, <1>13, <1>15, <1>17 DEF Resizes, s
<1>19. ZeroOK(v)
  <2> SUFFICES ASSUME NEW a \in v.allocBags .. Limit PROVE v.mem[a] = 0
    BY DEF ZeroOK
  <2>1. a \in 1 .. Limit /\ a \in w.allocBags .. Limit /\ a # p - 2 /\ a # p + n
    BY <1>2, <1>3, <1>4, <1>10
  <2> QED BY <1>1, <1>9, <2>1 DEF ZeroOK
<1>20. LinksOK(v)
  BY <1>1, <1>9, <1>12, <1>13, <1>16, LinksKept
<1>21. Tiles(v, U)
  <2>1. \A a \in W : a \in Int /\ w.oldBags <= a /\ a <= w.allocBags
    BY <1>1, <1>3 DEF Tiles
  <2>2. \A c \in W : p - 2 < c => p + s <= c
    <3>1. \A c \in W : p - 2 < c => p - 2 + (2 + s) <= c
      BY <1>1, <1>2 DEF Tiles
    <3> QED BY ONLY <3>1, <1>2, <2>1
  <2>3. p + n \notin W
    BY ONLY <1>2, <1>4, <2>1, <2>2
  <2>4. p + s \in W
    <3>1. p - 2 < w.allocBags
      BY <1>2, <1>3
    <3>2. p - 2 + (2 + s) \in W
      BY <1>1, <1>2, <3>1 DEF Tiles
    <3>3. p - 2 + (2 + s) = p + s
      BY <1>2
    <3> QED BY <3>2, <3>3
  <2>5. \A a \in W : a < w.allocBags /\ a # p - 2 => v.mem[a] = w.mem[a]
    <3>1. \A a \in W : a < w.allocBags => a \in 1 .. Limit /\ a # p + n
      BY ONLY <1>3, <2>1, <2>3
    <3> QED BY <1>9, <3>1
  <2>6. U \subseteq v.oldBags .. v.allocBags
    BY <1>2, <1>3, <1>4, <1>10, <2>1
  <2>7. v.oldBags \in U /\ v.youngBags \in U /\ v.allocBags \in U
    BY <1>1, <1>10 DEF Tiles
  <2>8. ASSUME NEW a \in U, a < v.allocBags
        PROVE  /\ v.mem[a] \in Nat /\ TypeIn(v.mem[a]) \in 1 .. 3 /\ a + Stride(v.mem[a]) \in U
    <3>1. CASE a \in W /\ a # p - 2
      BY <1>1, <1>10, <2>5, <2>8, <3>1 DEF Tiles
    <3>2. CASE a = p - 2
      <4>1. a + Stride(v.mem[a]) = p + n
        BY <1>2, <1>5, <1>9, <3>2
      <4> QED BY <1>5, <1>9, <3>2, <4>1
    <3>3. CASE a = p + n
      <4>1. a + Stride(v.mem[a]) = p + s
        BY <1>2, <1>4, <1>6, <1>9, <3>3
      <4> QED BY <1>6, <1>9, <2>4, <3>3, <4>1 DEF T_DUMMY
    <3> QED BY <3>1, <3>2, <3>3
  <2>9. ASSUME NEW a \in U, NEW c \in U, a < c PROVE a + Stride(v.mem[a]) <= c
    <3>1. CASE a \in W /\ a # p - 2 /\ c \in W
      <4>1. a < w.allocBags
        BY <1>3, <2>1, <2>9, <3>1
      <4> QED BY <1>1, <2>5, <2>9, <3>1, <4>1 DEF Tiles
    <3>2. CASE a \in W /\ a # p - 2 /\ c = p + n
      <4>1. a < p - 2
        BY ONLY <1>2, <1>4, <2>1, <2>2, <2>9, <3>2
      <4>2. a < w.allocBags
        BY ONLY <1>2, <1>3, <2>1, <3>2, <4>1
      <4>3. a + Stride(w.mem[a]) <= p - 2 /\ w.mem[a] \in Nat /\ v.mem[a] = w.mem[a]
        BY <1>1, <1>2, <2>5, <3>2, <4>1, <4>2 DEF Tiles
      <4>4. Stride(w.mem[a]) \in Nat
        BY <4>3, StrideFacts
      <4>5. a + Stride(v.mem[a]) <= p - 2 /\ Stride(v.mem[a]) \in Nat
        BY <4>3, <4>4
      <4> QED BY ONLY <1>2, <1>4, <2>1, <3>2, <4>5
    <3>3. CASE a = p - 2
      <4>1. a + Stride(v.mem[a]) = p + n
        BY <1>2, <1>5, <1>9, <3>3
      <4>2. p + n <= c
        BY ONLY <1>2, <1>4, <2>1, <2>2, <2>9, <3>3
      <4> QED BY <4>1, <4>2
    <3>4. CASE a = p + n
      <4>1. a + Stride(v.mem[a]) = p + s
        BY <1>2, <1>4, <1>6, <1>9, <3>4
      <4>2. p + s <= c
        BY ONLY <1>2, <1>4, <2>1, <2>2, <2>9, <3>4
      <4> QED BY <4>1, <4>2
    <3> QED BY <3>1, <3>2, <3>3, <3>4
  <2>10. ASSUME NEW c \in LiveBags(v) PROVE v.mem[c] - 2 \in U /\ TNUM_BAG(v, c) # T_DUMMY
    <3>1. CASE c = b
      BY <1>2, <1>5, <1>14, <1>15, <3>1
    <3>2. CASE c # b
      BY <1>1, <1>12, <1>13, <3>2 DEF Tiles, SameBag
    <3> QED BY <3>1, <3>2
  <2>11. ASSUME NEW a \in U, a < v.allocBags, TypeIn(v.mem[a]) # T_DUMMY
         PROVE  \E c \in LiveBags(v) : v.mem[c] = a + 2
    <3>1. CASE a = p - 2
      <4>1. v.mem[b] = a + 2
        BY <1>2, <1>14, <3>1
      <4> QED BY <1>12, <4>1
    <3>2. CASE a = p + n
      BY <1>6, <1>9, <2>11, <3>2
    <3>3. CASE a \in W /\ a # p - 2
      <4>1. PICK c \in LiveBags(w) : w.mem[c] = a + 2
        BY <1>1, <1>10, <2>5, <2>11, <3>3 DEF Tiles
      <4>2. v.mem[c] = w.mem[c]
        BY <1>11, <4>1 DEF LiveBags, IdsOf
      <4> QED BY <1>12, <4>1, <4>2
    <3> QED BY <3>1, <3>2, <3>3
  <2>12. \A c, e \in LiveBags(v) : v.mem[c] = v.mem[e] => c = e
    <3>1. \A c \in LiveBags(w) : v.mem[c] = w.mem[c]
      BY <1>11 DEF LiveBags, IdsOf
    <3> QED BY <1>1, <1>12, <3>1 DEF Tiles
  <2> QED BY <2>6, <2>7, <2>8, <2>9, <2>10, <2>11, <2>12 DEF Tiles
<1>22. \A c \in LiveBags(w) : IsOld(v, c) <=> IsOld(w, c)
  BY <1>10, <1>11 DEF IsOld, PTR_BAG, LiveBags, IdsOf
<1>23. Remembered(w, b) => Remembered(v, b)
  BY <1>16, <1>22 DEF Remembered
<1>24. Sound(v, U)
  BY <1>10, <1>13, <1>16, <1>18, <1>19, <1>20, <1>21, <1>22, <1>23, ResizeSound DEF T_LIST, T_WPOBJ
<1> QED BY <1>10, <1>18, <1>24 DEF p

(* The fields that EnlargeLastBag leaves.                                  *)
Enlarges(w, v, b, n) ==
    /\ v \in Workspace /\ v.mptrEnd = w.mptrEnd /\ v.oldBags = w.oldBags /\ v.endBags = w.endBags
    /\ v.allocBags = w.allocBags + (n - SIZE_BAG(w, b))
    /\ v.youngBags = (IF w.youngBags = w.allocBags THEN v.allocBags ELSE w.youngBags)
    /\ v.freeMptr = w.freeMptr /\ v.changed = w.changed
    /\ v.newMarker = w.newMarker /\ v.nrHalfDead = w.nrHalfDead /\ v.nrLive = w.nrLive
    /\ v.mem[w.mem[b] - 2] = Header(TNUM_BAG(w, b), 0, n)
    /\ \A a \in 1 .. Limit : a # w.mem[b] - 2 => v.mem[a] = w.mem[a]

(* They are those of its definition.                                       *)
LEMMA EnlargeFields ==
    ASSUME NEW w, w \in Workspace, NEW b, NEW n, n \in Nat, w.mem[b] - 2 \in 1 .. Limit,
           SIZE_BAG(w, b) \in Nat, n > SIZE_BAG(w, b), Header(TNUM_BAG(w, b), 0, n) \in Int
    PROVE  Enlarges(w, EnlargeLastBag(w, b, n), b, n)
<1> DEFINE v == EnlargeLastBag(w, b, n)
           h == Header(TNUM_BAG(w, b), 0, n)
           s == SIZE_BAG(w, b)
           a0 == w.mem[b] - 2
           m == [w.mem EXCEPT ![a0] = h]
           young == IF w.youngBags = w.allocBags THEN w.youngBags + (n - s) ELSE w.youngBags
           alloc == w.allocBags + (n - s)
<1>1. w.mem \in [1 .. Limit -> Int] /\ w.allocBags \in Nat /\ w.youngBags \in Nat
  BY ONLY w \in Workspace DEF Workspace
<1>2. v = [w EXCEPT !.mem = m, !.youngBags = young, !.allocBags = alloc]
  BY ONLY w \in Workspace DEF Workspace, EnlargeLastBag
<1> HIDE DEF v
<1>3. m \in [1 .. Limit -> Int] /\ m[a0] = h /\ \A a \in 1 .. Limit : a # a0 => m[a] = w.mem[a]
  <2> HIDE DEF h, a0
  <2>1. a0 \in 1 .. Limit /\ h \in Int
    BY DEF a0, h
  <2> QED BY ONLY <1>1, <2>1, Poked
<1> HIDE DEF m
<1>4. /\ young \in Nat /\ alloc \in Nat
      /\ young = IF w.youngBags = w.allocBags THEN alloc ELSE w.youngBags
  BY <1>1
<1> HIDE DEF young, alloc
<1>5. v \in Workspace
  BY ONLY <1>2, <1>3, <1>4, w \in Workspace DEF Workspace
<1>6. /\ v.mem = m /\ v.mptrEnd = w.mptrEnd /\ v.oldBags = w.oldBags /\ v.endBags = w.endBags
      /\ v.allocBags = alloc /\ v.youngBags = young
      /\ v.freeMptr = w.freeMptr /\ v.changed = w.changed
      /\ v.newMarker = w.newMarker /\ v.nrHalfDead = w.nrHalfDead /\ v.nrLive = w.nrLive
  BY ONLY <1>2, w \in Workspace DEF Workspace
<1>7. Enlarges(w, v, b, n)
  <2>1. v.mem[a0] = h /\ \A a \in 1 .. Limit : a # a0 => v.mem[a] = w.mem[a]
    BY ONLY <1>3, <1>6
  <2>2. v.allocBags = w.allocBags + (n - s)
    BY ONLY <1>6 DEF alloc
  <2>3. v.youngBags = (IF w.youngBags = w.allocBags THEN v.allocBags ELSE w.youngBags)
    BY ONLY <1>4, <1>6
  <2> QED BY ONLY <1>5, <1>6, <2>1, <2>2, <2>3 DEF Enlarges
<1> QED BY ONLY <1>7 DEF v

(* The last bag grows where it is.                                         *)
LEMMA EnlargeLastBagSound ==
    ASSUME NEW w, NEW W, Sound(w, W), NEW b \in LiveBags(w), NEW n \in Nat, n > SIZE_BAG(w, b),
           w.mem[b] + SIZE_BAG(w, b) = w.allocBags, w.mem[b] + n <= w.endBags,
           NEW v, v = EnlargeLastBag(w, b, n)
    PROVE  /\ Sound(v, (W \ {w.allocBags}) \cup {w.mem[b] + n}) /\ Resizes(w, v, b, n)
<1>1. /\ Areas(w) /\ Tiles(w, W) /\ WordsOK(w) /\ LinksOK(w) /\ MptrsOK(w) /\ ZeroOK(w) /\ RemembersOK(w)
      /\ w \in Workspace
  BY DEF Sound, Areas
<1> DEFINE p == w.mem[b]
           s == SIZE_BAG(w, b)
           U == (W \ {w.allocBags}) \cup {p + n}
<1>2. /\ b \in IdsOf(w) /\ b \in Nat /\ b # 0 /\ b < w.oldBags /\ b \in 1 .. Limit
      /\ p \in Int /\ w.oldBags + 2 <= p /\ p <= w.allocBags
      /\ s \in Nat /\ p + s <= w.allocBags
      /\ p - 2 \in W /\ w.mem[p - 2] \in Nat /\ Stride(w.mem[p - 2]) = 2 + s
      /\ TNUM_BAG(w, b) \in {T_LIST, T_WPOBJ}
  BY <1>1, Placed
<1>3. /\ w.mptrEnd \in Nat /\ w.oldBags \in Nat /\ w.youngBags \in Nat
      /\ w.allocBags \in Nat /\ w.endBags \in Nat /\ Limit \in Nat
      /\ 1 <= w.mptrEnd /\ w.mptrEnd <= w.oldBags /\ w.oldBags <= w.youngBags
      /\ w.youngBags <= w.allocBags /\ w.allocBags <= w.endBags /\ w.endBags <= Limit + 1
      /\ w.oldBags <= w.allocBags /\ w.allocBags <= Limit + 1 /\ w.mptrEnd <= w.allocBags
  BY <1>1, AreaNumbers
<1>4. s < n /\ n \in Nat /\ p + s = w.allocBags /\ p + n <= w.endBags
  OBVIOUS
<1> DEFINE h == Header(TNUM_BAG(w, b), 0, n)
<1>5. h \in Nat /\ TypeIn(h) = TNUM_BAG(w, b) /\ SizeIn(h) = n /\ Stride(h) = 2 + n
      /\ TNUM_BAG(w, b) # T_DUMMY /\ TNUM_BAG(w, b) \in 1 .. 3
  BY <1>2, HeaderResized
<1>6. p - 2 \in 1 .. Limit
  BY ONLY <1>2, <1>3
<1>7. Enlarges(w, v, b, n)
  <2>1. h \in Int
    BY ONLY <1>5
  <2> QED BY <1>1, <1>2, <1>4, <1>6, <2>1, EnlargeFields
<1> HIDE DEF h, p, s
<1>8. /\ v \in Workspace /\ v.mptrEnd = w.mptrEnd /\ v.oldBags = w.oldBags /\ v.endBags = w.endBags
      /\ v.allocBags = w.allocBags + (n - s)
      /\ v.youngBags = (IF w.youngBags = w.allocBags THEN v.allocBags ELSE w.youngBags)
      /\ v.freeMptr = w.freeMptr /\ v.changed = w.changed
      /\ v.newMarker = w.newMarker /\ v.nrHalfDead = w.nrHalfDead /\ v.nrLive = w.nrLive
      /\ v.mem[p - 2] = h
      /\ \A a \in 1 .. Limit : a # p - 2 => v.mem[a] = w.mem[a]
  BY <1>7 DEF Enlarges, p, s, h
<1>9. v.allocBags = p + n /\ w.allocBags < p + n /\ v.allocBags \in Nat
  BY ONLY <1>2, <1>3, <1>4, <1>8
<1>10. Areas(v)
  <2>1. /\ 1 <= v.mptrEnd /\ v.mptrEnd <= v.oldBags /\ v.oldBags <= v.youngBags
        /\ v.youngBags <= v.allocBags /\ v.allocBags <= v.endBags /\ v.endBags <= Limit + 1
    BY ONLY <1>2, <1>3, <1>4, <1>8, <1>9
  <2> QED BY ONLY <1>8, <2>1 DEF Areas
<1>11. ASSUME NEW x \in IdsOf(w) PROVE v.mem[x] = w.mem[x]
  <2>1. x \in 1 .. Limit /\ x # p - 2
    BY ONLY <1>2, <1>3, x \in IdsOf(w) DEF IdsOf
  <2> QED BY <1>8, <2>1
<1>12. LiveBags(v) = LiveBags(w) /\ DeadIds(v) = DeadIds(w)
  <2>1. IdsOf(v) = IdsOf(w)
    BY <1>8 DEF IdsOf
  <2>2. ASSUME NEW x \in IdsOf(w) PROVE x \in LiveBags(v) <=> x \in LiveBags(w)
    <3>1. x \in 1 .. Limit /\ w.mem \in [1 .. Limit -> Int]
      BY <1>1, <1>3, AreaFacts DEF IdsOf
    <3>2. w.mem[x] \in Int
      BY ONLY <3>1
    <3>3. x \in FreeIds(w) \cup LiveBags(w) \cup DeadIds(w)
      BY <1>1 DEF MptrsOK
    <3>4. (x \in FreeIds(w) => w.mem[x] < w.oldBags + 2) /\ (x \in DeadIds(w) => w.mem[x] < w.oldBags + 2)
      BY ONLY <1>3 DEF FreeIds, DeadIds, Markers, IdsOf
    <3>5. v.mem[x] = w.mem[x]
      BY <1>11
    <3> QED BY ONLY <1>3, <1>8, <1>9, <3>2, <3>3, <3>4, <3>5, x \in IdsOf(w) DEF LiveBags, IdsOf, HeaderWords
  <2>3. LiveBags(v) \subseteq IdsOf(w) /\ LiveBags(w) \subseteq IdsOf(w)
    BY <2>1 DEF LiveBags, IdsOf
  <2>4. LiveBags(v) = LiveBags(w)
    BY ONLY <2>2, <2>3
  <2> QED BY <1>11, <2>1, <2>4 DEF DeadIds
<1>13. \A c \in LiveBags(w) :
          c # b => /\ v.mem[c] = w.mem[c] /\ SameBag(w, v, c) /\ LINK_BAG(v, c) = LINK_BAG(w, c)
                   /\ v.mem[w.mem[c] - 2] = w.mem[w.mem[c] - 2]
  <2>1. \A a \in 1 .. Limit :
              w.mptrEnd <= a /\ a < w.allocBags /\ a \notin WholeBag(w, b) => v.mem[a] = w.mem[a]
    <3>1. p - 2 \in WholeBag(w, b)
      BY <1>2 DEF WholeBag, p, s
    <3> QED BY <1>8, <3>1
  <2> QED BY <1>1, <1>11, <2>1, OthersKept
<1>14. v.mem[b] = p
  BY <1>2, <1>11 DEF p
<1>15. TNUM_BAG(v, b) = TNUM_BAG(w, b) /\ SIZE_BAG(v, b) = n
  BY <1>5, <1>8, <1>14 DEF TNUM_BAG, SIZE_BAG
<1>16. LINK_BAG(v, b) = LINK_BAG(w, b)
  <2>1. p - 1 \in 1 .. Limit /\ p - 1 # p - 2
    BY ONLY <1>2, <1>3
  <2> QED BY <1>8, <1>14, <2>1 DEF LINK_BAG, p
<1>17. \A i \in 0 .. n - 1 : Word(v, b, i) = IF i < s THEN Word(w, b, i) ELSE 0
  <2> SUFFICES ASSUME NEW i \in 0 .. n - 1 PROVE Word(v, b, i) = IF i < s THEN Word(w, b, i) ELSE 0
    OBVIOUS
  <2>1. p + i \in 1 .. Limit /\ p + i # p - 2
    BY ONLY <1>2, <1>3, <1>4, i \in 0 .. n - 1
  <2>2. Word(v, b, i) = Word(w, b, i)
    BY <1>8, <1>14, <2>1 DEF Word, p
  <2>3. ASSUME ~ (i < s) PROVE Word(w, b, i) = 0
    <3>1. p + i \in w.allocBags .. Limit
      BY ONLY <1>2, <1>3, <1>4, <2>3, i \in 0 .. n - 1
    <3> QED BY <1>1, <3>1 DEF ZeroOK, Word, p
  <2> QED BY <2>2, <2>3
<1>18. Resizes(w, v, b, n)
  BY <1>8, <1>11, <1>12, <1>13, <1>15, <1>17 DEF Resizes, s
<1>19. ZeroOK(v)
  <2> SUFFICES ASSUME NEW a \in v.allocBags .. Limit PROVE v.mem[a] = 0
    BY DEF ZeroOK
  <2>1. a \in 1 .. Limit /\ a \in w.allocBags .. Limit /\ a # p - 2
    BY <1>2, <1>3, <1>4, <1>9
  <2> QED BY <1>1, <1>8, <2>1 DEF ZeroOK
<1>20. LinksOK(v)
  BY <1>1, <1>8, <1>12, <1>13, <1>16, LinksKept
<1>21. Tiles(v, U)
  <2>1. \A a \in W : a \in Int /\ w.oldBags <= a /\ a <= w.allocBags
    BY <1>1, <1>3 DEF Tiles
  <2>2. \A c \in W : p - 2 < c => c = w.allocBags
    <3>1. \A c \in W : p - 2 < c => p - 2 + (2 + s) <= c
      BY <1>1, <1>2 DEF Tiles
    <3> QED BY ONLY <3>1, <1>2, <1>3, <1>4, <2>1
  <2>3. \A a \in W : a # p - 2 /\ a # w.allocBags =>
            /\ a < p - 2 /\ v.mem[a] = w.mem[a] /\ w.mem[a] \in Nat /\ TypeIn(w.mem[a]) \in 1 .. 3
            /\ a + Stride(w.mem[a]) \in W /\ a + Stride(w.mem[a]) <= p - 2
    <3> SUFFICES ASSUME NEW a \in W, a # p - 2, a # w.allocBags
                 PROVE  /\ a < p - 2 /\ v.mem[a] = w.mem[a] /\ w.mem[a] \in Nat /\ TypeIn(w.mem[a]) \in 1 .. 3
                        /\ a + Stride(w.mem[a]) \in W /\ a + Stride(w.mem[a]) <= p - 2
      OBVIOUS
    <3>1. a < p - 2 /\ a < w.allocBags /\ a \in 1 .. Limit
      BY ONLY <1>2, <1>3, <2>1, <2>2, a \in W, a # p - 2, a # w.allocBags
    <3> QED BY <1>1, <1>2, <1>8, <3>1 DEF Tiles
  <2>4. \A a \in U : a # p + n => a \in W /\ a # w.allocBags
    OBVIOUS
  <2>6. U \subseteq v.oldBags .. v.allocBags
    BY <1>2, <1>3, <1>4, <1>8, <1>9, <2>1
  <2>7. v.oldBags \in U /\ v.youngBags \in U /\ v.allocBags \in U
    <3>1. w.oldBags \in W /\ w.youngBags \in W
      BY <1>1 DEF Tiles
    <3>2. w.oldBags # w.allocBags
      BY <1>2, <1>3
    <3> QED BY <1>8, <1>9, <3>1, <3>2
  <2>8. ASSUME NEW a \in U, a < v.allocBags
        PROVE  /\ v.mem[a] \in Nat /\ TypeIn(v.mem[a]) \in 1 .. 3 /\ a + Stride(v.mem[a]) \in U
    <3>0. a # p + n
      BY ONLY <1>9, <2>8
    <3>1. CASE a # p - 2
      <4>1. /\ a < p - 2 /\ v.mem[a] = w.mem[a] /\ w.mem[a] \in Nat /\ TypeIn(w.mem[a]) \in 1 .. 3
            /\ a + Stride(w.mem[a]) \in W /\ a + Stride(w.mem[a]) <= p - 2
        BY <2>3, <2>4, <3>0, <3>1
      <4>2. a + Stride(w.mem[a]) # w.allocBags
        BY ONLY <1>2, <1>3, <4>1
      <4> QED BY <4>1, <4>2
    <3>2. CASE a = p - 2
      <4>1. a + Stride(v.mem[a]) = p + n
        BY <1>2, <1>5, <1>8, <3>2
      <4> QED BY <1>5, <1>8, <3>2, <4>1
    <3> QED BY <3>1, <3>2
  <2>9. ASSUME NEW a \in U, NEW c \in U, a < c PROVE a + Stride(v.mem[a]) <= c
    <3>0. a # p + n /\ a \in W /\ a # w.allocBags
      <4>1. c <= p + n /\ c \in Int
        <5>1. c \in W \/ c = p + n
          OBVIOUS
        <5> QED BY ONLY <1>2, <1>3, <1>9, <2>1, <5>1, n \in Nat
      <4>2. a # p + n
        BY ONLY <1>2, <4>1, <2>9, n \in Nat
      <4> QED BY <2>4, <4>2
    <3>1. CASE a # p - 2 /\ c \in W
      <4>1. v.mem[a] = w.mem[a]
        BY <2>3, <3>0, <3>1
      <4> QED BY <1>1, <2>9, <3>0, <3>1, <4>1 DEF Tiles
    <3>2. CASE a # p - 2 /\ c = p + n
      <4>1. a + Stride(v.mem[a]) <= p - 2 /\ w.mem[a] \in Nat /\ v.mem[a] = w.mem[a]
        BY <2>3, <3>0, <3>2
      <4>2. Stride(v.mem[a]) \in Nat /\ a \in Int
        BY <2>1, <3>0, <4>1, StrideFacts
      <4> QED BY ONLY <1>2, <3>2, <4>1, <4>2, n \in Nat
    <3>3. CASE a = p - 2
      <4>1. a + Stride(v.mem[a]) = p + n
        BY <1>2, <1>5, <1>8, <3>3
      <4>2. c = p + n
        BY <2>2, <2>4, <2>9, <3>3
      <4> QED BY <1>2, <4>1, <4>2
    <3> QED BY <2>4, <3>1, <3>2, <3>3
  <2>10. ASSUME NEW c \in LiveBags(v) PROVE v.mem[c] - 2 \in U /\ TNUM_BAG(v, c) # T_DUMMY
    <3>1. CASE c = b
      <4>1. p - 2 # w.allocBags
        BY <1>2, <1>3
      <4> QED BY <1>2, <1>5, <1>14, <1>15, <3>1, <4>1
    <3>2. CASE c # b
      <4>1. w.mem[c] - 2 \in W /\ w.mem[c] \in Int /\ w.mem[c] <= w.allocBags
        BY <1>1, <1>12, Placed
      <4>2. w.mem[c] - 2 # w.allocBags
        BY <4>1, <1>3
      <4> QED BY <1>1, <1>12, <1>13, <3>2, <4>1, <4>2 DEF Tiles, SameBag
    <3> QED BY <3>1, <3>2
  <2>11. ASSUME NEW a \in U, a < v.allocBags, TypeIn(v.mem[a]) # T_DUMMY
         PROVE  \E c \in LiveBags(v) : v.mem[c] = a + 2
    <3>0. a # p + n
      BY ONLY <1>9, <2>11
    <3>1. CASE a = p - 2
      <4>1. v.mem[b] = a + 2
        BY <1>2, <1>14, <3>1
      <4> QED BY <1>12, <4>1
    <3>3. CASE a # p - 2
      <4>0. a \in W /\ a < w.allocBags /\ v.mem[a] = w.mem[a]
        BY <1>2, <1>3, <2>1, <2>3, <2>4, <3>0, <3>3
      <4>1. PICK c \in LiveBags(w) : w.mem[c] = a + 2
        BY <1>1, <2>11, <4>0 DEF Tiles
      <4>2. v.mem[c] = w.mem[c]
        BY <1>11, <4>1 DEF LiveBags, IdsOf
      <4> QED BY <1>12, <4>1, <4>2
    <3> QED BY <3>1, <3>3
  <2>12. \A c, e \in LiveBags(v) : v.mem[c] = v.mem[e] => c = e
    <3>1. \A c \in LiveBags(w) : v.mem[c] = w.mem[c]
      BY <1>11 DEF LiveBags, IdsOf
    <3> QED BY <1>1, <1>12, <3>1 DEF Tiles
  <2> QED BY <2>6, <2>7, <2>8, <2>9, <2>10, <2>11, <2>12 DEF Tiles
<1>22. \A c \in LiveBags(w) : IsOld(v, c) <=> IsOld(w, c)
  <2> SUFFICES ASSUME NEW c \in LiveBags(w) PROVE v.mem[c] <= v.youngBags <=> w.mem[c] <= w.youngBags
    BY DEF IsOld, PTR_BAG
  <2>1. v.mem[c] = w.mem[c] /\ w.mem[c] \in Int /\ w.mem[c] <= w.allocBags
    BY <1>1, <1>11, Placed
  <2> QED BY ONLY <1>3, <1>8, <1>9, <2>1
<1>23. Remembered(w, b) => Remembered(v, b)
  BY <1>16, <1>22 DEF Remembered
<1>24. TNUM_BAG(w, b) = T_WPOBJ => n >= SIZE_BAG(w, b)
  BY <1>2, <1>4 DEF s
<1>25. Sound(v, U)
  BY <1>10, <1>13, <1>16, <1>18, <1>19, <1>20, <1>21, <1>22, <1>23, <1>24, ResizeSound
<1> QED BY <1>18, <1>25 DEF p

(* The fields that MoveBag leaves.                                         *)
MovedLink(w, b) ==
    IF LINK_BAG(w, b) # b THEN LINK_BAG(w, b) ELSE IF IsOld(w, b) THEN w.changed ELSE b
MovedWord(w, b, n, a) ==
    IF a = b THEN w.allocBags + 2
    ELSE IF a = w.mem[b] - 2 THEN Header(T_DUMMY, 0, 2 + SIZE_BAG(w, b) - 1)
    ELSE IF a = (w.allocBags + 2) - 2 THEN Header(TNUM_BAG(w, b), 0, n)
    ELSE IF a = (w.allocBags + 2) - 1 THEN MovedLink(w, b)
    ELSE IF a \in w.allocBags + 2 .. (w.allocBags + 2) + SIZE_BAG(w, b) - 1
         THEN w.mem[w.mem[b] + (a - (w.allocBags + 2))]
    ELSE w.mem[a]
Moves(w, v, b, n) ==
    /\ v \in Workspace /\ v.mptrEnd = w.mptrEnd /\ v.oldBags = w.oldBags /\ v.endBags = w.endBags
    /\ v.allocBags = w.allocBags + 2 + n /\ v.youngBags = w.youngBags /\ v.freeMptr = w.freeMptr
    /\ v.changed = IF LINK_BAG(w, b) = b /\ IsOld(w, b) THEN b ELSE w.changed
    /\ v.newMarker = w.newMarker /\ v.nrHalfDead = w.nrHalfDead /\ v.nrLive = w.nrLive
    /\ \A a \in 1 .. Limit : v.mem[a] = MovedWord(w, b, n, a)

(* They are those of its definition.                                       *)
LEMMA MoveFields ==
    ASSUME NEW w, w \in Workspace, NEW b, b \in Nat, NEW n, n \in Nat,
           LINK_BAG(w, b) \in Int, SIZE_BAG(w, b) \in Nat, w.mem[b] \in Int,
           Header(TNUM_BAG(w, b), 0, n) \in Int, Header(T_DUMMY, 0, 2 + SIZE_BAG(w, b) - 1) \in Int,
           \A i \in 0 .. SIZE_BAG(w, b) - 1 : w.mem[w.mem[b] + i] \in Int
    PROVE  Moves(w, MoveBag(w, b, n), b, n)
<1> DEFINE v == MoveBag(w, b, n)
           ch == IF ~ (LINK_BAG(w, b) # b) /\ IsOld(w, b) THEN b ELSE w.changed
           m == [a \in 1 .. Limit |-> MovedWord(w, b, n, a)]
<1>1. w.mem \in [1 .. Limit -> Int] /\ w.allocBags \in Nat /\ w.changed \in Nat
  BY ONLY w \in Workspace DEF Workspace
<1>2. v = [w EXCEPT !.mem = m, !.changed = ch, !.allocBags = w.allocBags + 2 + n]
  BY ONLY Zenon DEF MoveBag, MovedLink, MovedWord, PTR_BAG, HeaderWords
<1>3. m \in [1 .. Limit -> Int]
  <2> SUFFICES ASSUME NEW a \in 1 .. Limit PROVE MovedWord(w, b, n, a) \in Int
    OBVIOUS
  <2> HIDE DEF v, m, ch
  <2>1. MovedLink(w, b) \in Int
    BY <1>1 DEF MovedLink
  <2>2. ASSUME a \in w.allocBags + 2 .. (w.allocBags + 2) + SIZE_BAG(w, b) - 1
        PROVE  w.mem[w.mem[b] + (a - (w.allocBags + 2))] \in Int
    <3>1. a - (w.allocBags + 2) \in 0 .. SIZE_BAG(w, b) - 1
      BY ONLY <1>1, <2>2, SIZE_BAG(w, b) \in Nat, a \in 1 .. Limit
    <3> QED BY <3>1
  <2>3. w.mem[a] \in Int
    BY ONLY <1>1, a \in 1 .. Limit
  <2>4. w.allocBags + 2 \in Int
    BY ONLY <1>1
  <2> QED BY <2>1, <2>2, <2>3, <2>4 DEF MovedWord
<1>3a. \A a \in 1 .. Limit : m[a] = MovedWord(w, b, n, a)
  BY ONLY Zenon
<1> HIDE DEF v, m
<1>4. ch \in Nat /\ w.allocBags + 2 + n \in Nat
  BY <1>1
<1> HIDE DEF ch
<1>5. v \in Workspace
  BY ONLY <1>2, <1>3, <1>4, w \in Workspace DEF Workspace
<1>6. /\ v.mem = m /\ v.mptrEnd = w.mptrEnd /\ v.oldBags = w.oldBags /\ v.endBags = w.endBags
      /\ v.allocBags = w.allocBags + 2 + n /\ v.youngBags = w.youngBags
      /\ v.freeMptr = w.freeMptr /\ v.changed = ch
      /\ v.newMarker = w.newMarker /\ v.nrHalfDead = w.nrHalfDead /\ v.nrLive = w.nrLive
  BY ONLY <1>2, w \in Workspace DEF Workspace
<1>7. Moves(w, v, b, n)
  BY ONLY <1>3a, <1>5, <1>6 DEF Moves, ch
<1> QED BY ONLY <1>7 DEF v

(* A bag that grows moves to the allocation area.                          *)
LEMMA MoveBagSound ==
    ASSUME NEW w, NEW W, Sound(w, W), NEW b \in LiveBags(w), NEW n \in Nat, n > SIZE_BAG(w, b),
           w.allocBags + 2 + n <= w.endBags, NEW v, v = MoveBag(w, b, n)
    PROVE  Sound(v, W \cup {w.allocBags + 2 + n}) /\ Resizes(w, v, b, n)
<1>1. /\ Areas(w) /\ Tiles(w, W) /\ WordsOK(w) /\ LinksOK(w) /\ MptrsOK(w) /\ ZeroOK(w) /\ RemembersOK(w)
      /\ w \in Workspace
  BY DEF Sound, Areas
<1> DEFINE p == w.mem[b]
           s == SIZE_BAG(w, b)
           q == w.allocBags + 2
           U == W \cup {q + n}
<1>2. /\ b \in IdsOf(w) /\ b \in Nat /\ b # 0 /\ b < w.oldBags /\ b \in 1 .. Limit
      /\ p \in Int /\ w.oldBags + 2 <= p /\ p <= w.allocBags
      /\ s \in Nat /\ p + s <= w.allocBags
      /\ p - 2 \in W /\ w.mem[p - 2] \in Nat /\ Stride(w.mem[p - 2]) = 2 + s
      /\ TNUM_BAG(w, b) \in {T_LIST, T_WPOBJ}
  BY <1>1, Placed
<1>3. /\ w.mptrEnd \in Nat /\ w.oldBags \in Nat /\ w.youngBags \in Nat
      /\ w.allocBags \in Nat /\ w.endBags \in Nat /\ Limit \in Nat
      /\ 1 <= w.mptrEnd /\ w.mptrEnd <= w.oldBags /\ w.oldBags <= w.youngBags
      /\ w.youngBags <= w.allocBags /\ w.allocBags <= w.endBags /\ w.endBags <= Limit + 1
      /\ w.oldBags <= w.allocBags /\ w.allocBags <= Limit + 1 /\ w.mptrEnd <= w.allocBags
  BY <1>1, AreaNumbers
<1>4. s < n /\ n \in Nat /\ q + n <= w.endBags /\ q = w.allocBags + 2 /\ q \in Nat
  BY <1>3
<1> DEFINE h == Header(TNUM_BAG(w, b), 0, n)
           d == Header(T_DUMMY, 0, 2 + s - 1)
           k == MovedLink(w, b)
<1>5. h \in Nat /\ TypeIn(h) = TNUM_BAG(w, b) /\ SizeIn(h) = n /\ Stride(h) = 2 + n
      /\ TNUM_BAG(w, b) # T_DUMMY /\ TNUM_BAG(w, b) \in 1 .. 3
  BY <1>2, HeaderResized
<1>6. d \in Nat /\ TypeIn(d) = T_DUMMY /\ Stride(d) = 2 + s
  <2>1. 2 + s \in Nat /\ 2 + s >= 1 /\ 2 + s # 1
    BY <1>2
  <2>2. d = Remainder(2 + s)
    <3>1. (2 + s) - 1 = 2 + s - 1
      BY <1>2
    <3>2. Remainder(2 + s) = Header(T_DUMMY, 0, (2 + s) - 1)
      BY ONLY <2>1, Zenon DEF Remainder
    <3> QED BY <3>1, <3>2
  <2> QED BY <2>1, <2>2, RemainderStride
<1>7. Moves(w, v, b, n)
  <2>1. h \in Int /\ d \in Int
    BY ONLY <1>5, <1>6
  <2>2. w.mem \in [1 .. Limit -> Int]
    BY <1>1, AreaFacts
  <2>3. \A i \in 0 .. SIZE_BAG(w, b) - 1 : w.mem[w.mem[b] + i] \in Int
    BY <1>1, <2>2, PlacedWords
  <2>4. LINK_BAG(w, b) \in Int
    BY <1>1, <2>2, PlacedWords DEF LINK_BAG
  <2> QED BY <1>1, <1>2, <1>4, <2>1, <2>3, <2>4, MoveFields
<1> HIDE DEF h, p, s, d, k
<1>8. /\ v \in Workspace /\ v.mptrEnd = w.mptrEnd /\ v.oldBags = w.oldBags /\ v.endBags = w.endBags
      /\ v.allocBags = q + n /\ v.youngBags = w.youngBags /\ v.freeMptr = w.freeMptr
      /\ v.changed = IF LINK_BAG(w, b) = b /\ IsOld(w, b) THEN b ELSE w.changed
      /\ v.newMarker = w.newMarker /\ v.nrHalfDead = w.nrHalfDead /\ v.nrLive = w.nrLive
  BY <1>7 DEF Moves
<1>9. \A a \in 1 .. Limit :
          v.mem[a] = IF a = b THEN q
                     ELSE IF a = p - 2 THEN d
                     ELSE IF a = q - 2 THEN h
                     ELSE IF a = q - 1 THEN k
                     ELSE IF a \in q .. q + s - 1
                          THEN w.mem[p + (a - q)]
                     ELSE w.mem[a]
  BY ONLY <1>7, Zenon DEF Moves, MovedWord, p, s, h, d, k, q
<1> HIDE DEF q
<1>10. /\ v.mem[b] = q /\ v.mem[p - 2] = d /\ v.mem[q - 2] = h /\ v.mem[q - 1] = k
       /\ \A a \in 1 .. Limit : a # b /\ a # p - 2 /\ (a < w.allocBags \/ a >= q + s) => v.mem[a] = w.mem[a]
       /\ \A i \in 0 .. s - 1 : v.mem[q + i] = w.mem[p + i]
  <2>1. p - 2 \in 1 .. Limit /\ q - 2 \in 1 .. Limit /\ q - 1 \in 1 .. Limit /\ p - 2 # b
        /\ q - 2 # b /\ q - 2 # p - 2 /\ q - 1 # b /\ q - 1 # p - 2 /\ q - 1 # q - 2
    BY ONLY <1>2, <1>3, <1>4
  <2>2. v.mem[b] = q /\ v.mem[p - 2] = d /\ v.mem[q - 2] = h /\ v.mem[q - 1] = k
    BY ONLY <1>2, <1>9, <2>1
  <2>3. ASSUME NEW a \in 1 .. Limit, a # b, a # p - 2, a < w.allocBags \/ a >= q + s PROVE v.mem[a] = w.mem[a]
    <3>1. a # q - 2 /\ a # q - 1 /\ a \notin q .. q + s - 1
      BY ONLY <1>2, <1>3, <1>4, <2>3
    <3> QED BY ONLY <1>9, <2>3, <3>1
  <2>4. ASSUME NEW i \in 0 .. s - 1 PROVE v.mem[q + i] = w.mem[p + i]
    <3>1. q + i \in 1 .. Limit /\ q + i # b /\ q + i # p - 2 /\ q + i # q - 2 /\ q + i # q - 1
          /\ q + i \in q .. q + s - 1 /\ p + ((q + i) - q) = p + i
      BY ONLY <1>2, <1>3, <1>4, <2>4
    <3> QED BY ONLY <1>9, <3>1
  <2> QED BY ONLY <2>2, <2>3, <2>4
<1>11. Areas(v)
  <2>1. /\ 1 <= v.mptrEnd /\ v.mptrEnd <= v.oldBags /\ v.oldBags <= v.youngBags
        /\ v.youngBags <= v.allocBags /\ v.allocBags <= v.endBags /\ v.endBags <= Limit + 1
    BY ONLY <1>2, <1>3, <1>4, <1>8
  <2> QED BY ONLY <1>8, <2>1 DEF Areas
<1>12. ASSUME NEW x \in IdsOf(w), x # b PROVE v.mem[x] = w.mem[x]
  <2>1. x \in 1 .. Limit /\ x # p - 2 /\ x < w.allocBags
    BY ONLY <1>2, <1>3, x \in IdsOf(w) DEF IdsOf
  <2> QED BY <1>10, <1>12, <2>1
<1>13. LiveBags(v) = LiveBags(w) /\ DeadIds(v) = DeadIds(w)
  <2>1. IdsOf(v) = IdsOf(w)
    BY <1>8 DEF IdsOf
  <2>2. ASSUME NEW x \in IdsOf(w), x # b PROVE x \in LiveBags(v) <=> x \in LiveBags(w)
    <3>1. x \in 1 .. Limit /\ w.mem \in [1 .. Limit -> Int]
      BY <1>1, <1>3, AreaFacts DEF IdsOf
    <3>2. w.mem[x] \in Int
      BY ONLY <3>1
    <3>3. x \in FreeIds(w) \cup LiveBags(w) \cup DeadIds(w)
      BY <1>1 DEF MptrsOK
    <3>4. (x \in FreeIds(w) => w.mem[x] < w.oldBags + 2) /\ (x \in DeadIds(w) => w.mem[x] < w.oldBags + 2)
      BY ONLY <1>3 DEF FreeIds, DeadIds, Markers, IdsOf
    <3>5. v.mem[x] = w.mem[x]
      BY <1>12, <2>2
    <3> QED BY ONLY <1>3, <1>4, <1>8, <3>2, <3>3, <3>4, <3>5, x \in IdsOf(w) DEF LiveBags, IdsOf, HeaderWords
  <2>3. LiveBags(v) \subseteq IdsOf(w) /\ LiveBags(w) \subseteq IdsOf(w)
    BY <2>1 DEF LiveBags, IdsOf
  <2>4. b \in LiveBags(v)
    BY ONLY <1>2, <1>3, <1>4, <1>8, <1>10 DEF LiveBags, IdsOf, HeaderWords
  <2>5. LiveBags(v) = LiveBags(w)
    BY ONLY <2>2, <2>3, <2>4, b \in LiveBags(w)
  <2>6. v.mem[b] \notin Markers /\ w.mem[b] \notin Markers
    BY <1>2, <1>3, <1>4, <1>10 DEF Markers, p
  <2>7. DeadIds(v) = DeadIds(w)
    BY <1>12, <2>1, <2>6 DEF DeadIds
  <2> QED BY <2>5, <2>7
<1>14. \A c \in LiveBags(w) :
          c # b => /\ v.mem[c] = w.mem[c] /\ SameBag(w, v, c) /\ LINK_BAG(v, c) = LINK_BAG(w, c)
                   /\ v.mem[w.mem[c] - 2] = w.mem[w.mem[c] - 2]
  <2>1. \A a \in 1 .. Limit :
              w.mptrEnd <= a /\ a < w.allocBags /\ a \notin WholeBag(w, b) => v.mem[a] = w.mem[a]
    <3>1. p - 2 \in WholeBag(w, b)
      BY <1>2 DEF WholeBag, p, s
    <3>2. b < w.mptrEnd
      BY <1>2, <1>3 DEF IdsOf
    <3> QED BY <1>2, <1>3, <1>10, <3>1, <3>2
  <2> QED BY <1>1, <1>12, <2>1, OthersKept
<1>15. TNUM_BAG(v, b) = TNUM_BAG(w, b) /\ SIZE_BAG(v, b) = n
  BY <1>5, <1>10 DEF TNUM_BAG, SIZE_BAG
<1>16. LINK_BAG(v, b) = k
  BY <1>10 DEF LINK_BAG
<1>17. \A i \in 0 .. n - 1 : Word(v, b, i) = IF i < s THEN Word(w, b, i) ELSE 0
  <2> SUFFICES ASSUME NEW i \in 0 .. n - 1 PROVE v.mem[q + i] = IF i < s THEN w.mem[p + i] ELSE 0
    BY <1>10 DEF Word, p
  <2>1. CASE i < s
    BY <1>2, <1>10, <2>1
  <2>2. CASE ~ (i < s)
    <3>1. q + i \in 1 .. Limit /\ q + i # b /\ q + i # p - 2 /\ q + i >= q + s /\ q + i \in w.allocBags .. Limit
      BY ONLY <1>2, <1>3, <1>4, <2>2, i \in 0 .. n - 1
    <3> QED BY <1>1, <1>10, <2>2, <3>1 DEF ZeroOK
  <2> QED BY <2>1, <2>2
<1>18. Resizes(w, v, b, n)
  BY <1>8, <1>12, <1>13, <1>14, <1>15, <1>17 DEF Resizes, s
<1>19. ZeroOK(v)
  <2> SUFFICES ASSUME NEW a \in v.allocBags .. Limit PROVE v.mem[a] = 0
    BY DEF ZeroOK
  <2>1. a \in 1 .. Limit /\ a \in w.allocBags .. Limit /\ a # p - 2 /\ a # b /\ a >= q + s
    BY <1>2, <1>3, <1>4, <1>8
  <2> QED BY <1>1, <1>10, <2>1 DEF ZeroOK
<1>20. LinksOK(v) /\ (Remembered(w, b) => LINK_BAG(v, b) # b)
  <2>0. w.changed \in ListedBags(w) \cup {0} /\ Chain(w.changed, Links(w), ListedBags(w))
    BY <1>1 DEF LinksOK, Chain
  <2>1. CASE LINK_BAG(w, b) # b
    <3>1. LINK_BAG(v, b) = LINK_BAG(w, b) /\ v.changed = w.changed
      BY <1>8, <1>16, <2>1 DEF k, MovedLink
    <3> QED BY <1>1, <1>13, <1>14, <2>1, <3>1, LinksKept
  <2>2. CASE LINK_BAG(w, b) = b /\ ~ IsOld(w, b)
    <3>1. LINK_BAG(v, b) = LINK_BAG(w, b) /\ v.changed = w.changed
      BY <1>8, <1>16, <2>2 DEF k, MovedLink
    <3> QED BY <1>1, <1>13, <1>14, <2>2, <3>1, LinksKept DEF Remembered
  <2>3. CASE LINK_BAG(w, b) = b /\ IsOld(w, b)
    <3>1. LINK_BAG(v, b) = w.changed /\ v.changed = b
      BY <1>8, <1>16, <2>3 DEF k, MovedLink
    <3>2. b \notin ListedBags(w)
      BY <2>3 DEF ListedBags
    <3>3. w.changed # b
      BY <1>2, <2>0, <3>2
    <3>4. ListedBags(v) = ListedBags(w) \cup {b}
      BY <1>13, <1>14, <3>1, <3>2, <3>3 DEF ListedBags
    <3>5. Links(v)[b] = w.changed /\ \A c \in ListedBags(w) : Links(v)[c] = Links(w)[c]
      BY <1>13, <1>14, <3>1, <3>2 DEF Links, ListedBags
    <3>6. LinksOK(v)
      BY <1>2, <2>0, <3>1, <3>2, <3>4, <3>5, ChainPush DEF LinksOK
    <3> QED BY <3>1, <3>3, <3>6
  <2> QED BY <2>1, <2>2, <2>3
<1>21. Tiles(v, U)
  <2>1. \A a \in W : a \in Int /\ w.oldBags <= a /\ a <= w.allocBags
    BY <1>1, <1>3 DEF Tiles
  <2>2. \A a \in W : a < w.allocBags =>
            /\ w.mem[a] \in Nat /\ TypeIn(w.mem[a]) \in 1 .. 3
            /\ a + Stride(w.mem[a]) \in W
    BY <1>1 DEF Tiles
  <2>3. \A a \in W : a < w.allocBags /\ a # p - 2 => v.mem[a] = w.mem[a]
    <3>1. \A a \in W : a < w.allocBags => a \in 1 .. Limit /\ a # b
      BY ONLY <1>2, <1>3, <2>1
    <3> QED BY <1>10, <3>1
  <2>4. \A a \in W : a < w.allocBags =>
            v.mem[a] \in Nat /\ TypeIn(v.mem[a]) \in 1 .. 3 /\ Stride(v.mem[a]) = Stride(w.mem[a])
    <3> SUFFICES ASSUME NEW a \in W, a < w.allocBags
                 PROVE  v.mem[a] \in Nat /\ TypeIn(v.mem[a]) \in 1 .. 3 /\ Stride(v.mem[a]) = Stride(w.mem[a])
      OBVIOUS
    <3>1. CASE a = p - 2
      BY <1>2, <1>6, <1>10, <3>1 DEF T_DUMMY
    <3>2. CASE a # p - 2
      BY <2>2, <2>3, <3>2
    <3> QED BY <3>1, <3>2
  <2>5. w.allocBags = q - 2 /\ v.mem[w.allocBags] = h
    <3>1. w.allocBags = q - 2
      BY ONLY <1>3, <1>4
    <3> QED BY <1>10, <3>1
  <2>6. U \subseteq v.oldBags .. v.allocBags
    BY <1>2, <1>3, <1>4, <1>8, <2>1
  <2>7. v.oldBags \in U /\ v.youngBags \in U /\ v.allocBags \in U
    BY <1>1, <1>8 DEF Tiles
  <2>8. ASSUME NEW a \in U, a < v.allocBags
        PROVE  /\ v.mem[a] \in Nat /\ TypeIn(v.mem[a]) \in 1 .. 3 /\ a + Stride(v.mem[a]) \in U
    <3>0. a \in W
      <4>1. a # q + n
        BY ONLY <1>4, <1>8, <2>8
      <4> QED BY <4>1
    <3>1. CASE a < w.allocBags
      BY <2>2, <2>4, <3>0, <3>1
    <3>2. CASE a = w.allocBags
      <4>1. a + Stride(v.mem[a]) = q + n
        BY <1>3, <1>4, <1>5, <2>5, <3>2
      <4> QED BY <1>5, <2>5, <3>2, <4>1
    <3> QED BY <1>3, <2>1, <3>0, <3>1, <3>2
  <2>9. ASSUME NEW a \in U, NEW c \in U, a < c PROVE a + Stride(v.mem[a]) <= c
    <3>0. \A e \in W : e < q + n
      BY ONLY <1>3, <1>4, <2>1
    <3>1. a \in W
      <4>1. a # q + n
        BY <1>4, <2>1, <2>9, <3>0
      <4> QED BY <4>1
    <3>2. CASE a < w.allocBags /\ c \in W
      BY <1>1, <2>4, <2>9, <3>1, <3>2 DEF Tiles
    <3>3. CASE a < w.allocBags /\ c = q + n
      <4>1. a + Stride(v.mem[a]) <= w.allocBags /\ Stride(v.mem[a]) \in Nat /\ a \in Int
        BY <1>1, <2>1, <2>4, <3>1, <3>3, StrideFacts DEF Tiles
      <4> QED BY ONLY <4>1, <1>3, <1>4, <3>3
    <3>4. CASE a = w.allocBags
      <4>1. c = q + n
        <5>1. c \notin W
          BY ONLY <1>3, <2>1, <2>9, <3>4
        <5> QED BY <5>1
      <4>2. a + Stride(v.mem[a]) = w.allocBags + (2 + n)
        BY <1>5, <2>5, <3>4
      <4> QED BY ONLY <1>3, <1>4, <4>1, <4>2
    <3> QED BY <1>3, <2>1, <3>1, <3>2, <3>3, <3>4
  <2>10. ASSUME NEW c \in LiveBags(v) PROVE v.mem[c] - 2 \in U /\ TNUM_BAG(v, c) # T_DUMMY
    <3>1. CASE c = b
      <4>1. v.mem[b] - 2 = w.allocBags
        BY <1>3, <1>10, <2>5
      <4> QED BY <1>1, <1>5, <1>15, <3>1, <4>1 DEF Tiles
    <3>2. CASE c # b
      BY <1>1, <1>13, <1>14, <3>2 DEF Tiles, SameBag
    <3> QED BY <3>1, <3>2
  <2>11. ASSUME NEW a \in U, a < v.allocBags, TypeIn(v.mem[a]) # T_DUMMY
         PROVE  \E c \in LiveBags(v) : v.mem[c] = a + 2
    <3>0. a \in W
      <4>1. a # q + n
        BY ONLY <1>4, <1>8, <2>11
      <4> QED BY <4>1
    <3>1. CASE a = w.allocBags
      <4>1. v.mem[b] = a + 2
        BY <1>4, <1>10, <3>1
      <4> QED BY <1>13, <4>1
    <3>2. CASE a < w.allocBags
      <4>1. a # p - 2
        BY <1>6, <1>10, <2>11
      <4>2. v.mem[a] = w.mem[a]
        BY <2>3, <3>0, <3>2, <4>1
      <4>3. PICK c \in LiveBags(w) : w.mem[c] = a + 2
        BY <1>1, <2>11, <3>0, <3>2, <4>2 DEF Tiles
      <4>4. c # b
        BY <1>2, <2>1, <3>0, <4>1, <4>3 DEF p
      <4> QED BY <1>13, <1>14, <4>3, <4>4
    <3> QED BY <1>3, <2>1, <3>0, <3>1, <3>2
  <2>12. ASSUME NEW c \in LiveBags(v), NEW e \in LiveBags(v), v.mem[c] = v.mem[e] PROVE c = e
    <3>1. \A f \in LiveBags(w) : f # b => v.mem[f] = w.mem[f] /\ w.mem[f] \in Int /\ w.mem[f] <= w.allocBags
      BY <1>1, <1>14, Placed
    <3>2. \A f, g \in LiveBags(w) : w.mem[f] = w.mem[g] => f = g
      BY <1>1 DEF Tiles
    <3> QED BY ONLY <1>3, <1>4, <1>10, <1>13, <2>12, <3>1, <3>2
  <2> QED BY <2>6, <2>7, <2>8, <2>9, <2>10, <2>11, <2>12 DEF Tiles
<1>22. \A c \in LiveBags(w) : c # b => (IsOld(v, c) <=> IsOld(w, c)) /\ LINK_BAG(v, c) = LINK_BAG(w, c)
  BY <1>8, <1>14 DEF IsOld, PTR_BAG
<1>23. Remembered(w, b) => Remembered(v, b)
  BY <1>20 DEF Remembered
<1>24. TNUM_BAG(w, b) = T_WPOBJ => n >= SIZE_BAG(w, b)
  BY <1>2, <1>4 DEF s
<1>25. ~ IsOld(v, b)
  BY <1>3, <1>4, <1>8, <1>10 DEF IsOld, PTR_BAG
<1>26. Sound(v, U)
  BY <1>11, <1>18, <1>19, <1>20, <1>21, <1>22, <1>23, <1>24, <1>25, ResizeSound
<1> QED BY <1>18, <1>26 DEF q

-----------------------------------------------------------------------------
(* SwapMasterPoint.                                                        *)

(* Bag b of v has the type, size and words of bag c of w.                  *)
Copies(w, c, v, b) ==
    /\ TNUM_BAG(v, b) = TNUM_BAG(w, c) /\ SIZE_BAG(v, b) = SIZE_BAG(w, c)
    /\ \A i \in 0 .. SIZE_BAG(w, c) - 1 : Word(v, b, i) = Word(w, c, i)

(* The words of the copy are what they may be.                             *)
LEMMA WordsCopied ==
    ASSUME NEW w, NEW v, NEW b, NEW c, WordsAt(w, c), Copies(w, c, v, b), SIZE_BAG(w, c) \in Nat,
           LiveBags(w) \subseteq LiveBags(v), DeadIds(w) \subseteq DeadIds(v)
    PROVE  WordsAt(v, b)
<1>1. CASE TNUM_BAG(w, c) = T_LIST
  BY <1>1 DEF WordsAt, Copies, T_LIST, T_WPOBJ
<1>2. CASE TNUM_BAG(w, c) = T_WPOBJ
  <2>1. 0 \in 0 .. SIZE_BAG(w, c) - 1
    BY <1>2 DEF WordsAt
  <2>2. Word(v, b, 0) = Word(w, c, 0)
    BY <2>1 DEF Copies
  <2>3. LenWord(v, b) = LenWord(w, c)
    BY <2>2 DEF LenWord
  <2>4. \A i \in 1 .. SIZE_BAG(w, c) - 1 : i \in 0 .. SIZE_BAG(w, c) - 1
    OBVIOUS
  <2> QED BY <1>2, <2>3, <2>4 DEF WordsAt, Copies, T_LIST, T_WPOBJ
<1> QED BY <1>1, <1>2 DEF WordsAt, Copies

(* The words that SwapMasterPoint writes, once both bags are listed.       *)
Swapped(v, b, c) ==
    [v EXCEPT !.mem[b] = v.mem[c], !.mem[c] = v.mem[b],
              !.mem[v.mem[c] - 1] = LINK_BAG(v, b),
              !.mem[v.mem[b] - 1] = LINK_BAG(v, c)]
Swaps(v, u, b, c) ==
    /\ u \in Workspace /\ SameAreas(v, u) /\ u.freeMptr = v.freeMptr /\ u.changed = v.changed
    /\ u.newMarker = v.newMarker /\ u.nrHalfDead = v.nrHalfDead /\ u.nrLive = v.nrLive
    /\ u.mem[b] = v.mem[c] /\ u.mem[c] = v.mem[b]
    /\ u.mem[v.mem[c] - 1] = LINK_BAG(v, b) /\ u.mem[v.mem[b] - 1] = LINK_BAG(v, c)
    /\ \A a \in 1 .. Limit :
          a \notin {b, c, v.mem[c] - 1, v.mem[b] - 1} => u.mem[a] = v.mem[a]

(* These words and no others.                                              *)
LEMMA SwapFields ==
    ASSUME NEW v, v \in Workspace, NEW b, b \in 1 .. Limit, NEW c, c \in 1 .. Limit, b # c,
           v.mem[b] - 1 \in 1 .. Limit, v.mem[c] - 1 \in 1 .. Limit, v.mem[b] - 1 # v.mem[c] - 1,
           v.mem[b] - 1 \notin {b, c}, v.mem[c] - 1 \notin {b, c},
           v.mem[b] \in Int, v.mem[c] \in Int, LINK_BAG(v, b) \in Int, LINK_BAG(v, c) \in Int
    PROVE  Swaps(v, Swapped(v, b, c), b, c)
<1> DEFINE u == Swapped(v, b, c)
           p == v.mem[b]
           q == v.mem[c]
           x == LINK_BAG(v, b)
           y == LINK_BAG(v, c)
           m1 == [v.mem EXCEPT ![b] = q]
           m2 == [m1 EXCEPT ![c] = p]
           m3 == [m2 EXCEPT ![q - 1] = x]
           m == [m3 EXCEPT ![p - 1] = y]
<1>1. v.mem \in [1 .. Limit -> Int]
  BY ONLY v \in Workspace DEF Workspace
<1>2. u = [v EXCEPT !.mem = m]
  BY ONLY v \in Workspace DEF Workspace, Swapped
<1> HIDE DEF u
<1>3. /\ p - 1 \in 1 .. Limit /\ q - 1 \in 1 .. Limit /\ p - 1 # q - 1 /\ b # c
      /\ p - 1 # b /\ p - 1 # c /\ q - 1 # b /\ q - 1 # c
      /\ p \in Int /\ q \in Int /\ x \in Int /\ y \in Int
      /\ b \in 1 .. Limit /\ c \in 1 .. Limit
  OBVIOUS
<1> HIDE DEF p, q, x, y
<1>4. m1 \in [1 .. Limit -> Int] /\ m1[b] = q /\ \A a \in 1 .. Limit : a # b => m1[a] = v.mem[a]
  BY ONLY <1>1, <1>3, Poked
<1> HIDE DEF m1
<1>5. m2 \in [1 .. Limit -> Int] /\ m2[c] = p /\ \A a \in 1 .. Limit : a # c => m2[a] = m1[a]
  BY ONLY <1>4, <1>3, Poked
<1> HIDE DEF m2
<1>6. m3 \in [1 .. Limit -> Int] /\ m3[q - 1] = x /\ \A a \in 1 .. Limit : a # q - 1 => m3[a] = m2[a]
  BY ONLY <1>5, <1>3, Poked
<1> HIDE DEF m3
<1>7. m \in [1 .. Limit -> Int] /\ m[p - 1] = y /\ \A a \in 1 .. Limit : a # p - 1 => m[a] = m3[a]
  BY ONLY <1>6, <1>3, Poked
<1> HIDE DEF m
<1>8. /\ m[b] = q /\ m[c] = p /\ m[q - 1] = x /\ m[p - 1] = y
      /\ \A a \in 1 .. Limit : a \notin {b, c, q - 1, p - 1} => m[a] = v.mem[a]
  BY ONLY <1>3, <1>4, <1>5, <1>6, <1>7
<1>9. u \in Workspace
  BY ONLY <1>2, <1>7, v \in Workspace DEF Workspace
<1>10. /\ u.mem = m /\ SameAreas(v, u) /\ u.freeMptr = v.freeMptr /\ u.changed = v.changed
       /\ u.newMarker = v.newMarker /\ u.nrHalfDead = v.nrHalfDead /\ u.nrLive = v.nrLive
  BY ONLY <1>2, v \in Workspace DEF Workspace, SameAreas
<1>11. Swaps(v, u, b, c)
  BY ONLY <1>8, <1>9, <1>10 DEF Swaps, p, q, x, y
<1> QED BY ONLY <1>11 DEF u

(* The bodies of two listed bags change owners.                            *)
LEMMA SwappedSound ==
    ASSUME NEW w, NEW W, Sound(w, W), NEW b \in LiveBags(w), NEW c \in LiveBags(w), b # c,
           LINK_BAG(w, b) # b, LINK_BAG(w, c) # c, NEW v, v = Swapped(w, b, c)
    PROVE  /\ Sound(v, W) /\ LiveBags(v) = LiveBags(w) /\ DeadIds(v) = DeadIds(w)
           /\ SameAreas(w, v) /\ v.freeMptr = w.freeMptr
           /\ v.newMarker = w.newMarker /\ v.nrHalfDead = w.nrHalfDead /\ v.nrLive = w.nrLive
           /\ \A x \in IdsOf(w) : x \notin {b, c} => v.mem[x] = w.mem[x]
           /\ \A d \in LiveBags(w) : d \notin {b, c} => SameBag(w, v, d)
           /\ Copies(w, c, v, b) /\ Copies(w, b, v, c)
<1>1. /\ Areas(w) /\ Tiles(w, W) /\ WordsOK(w) /\ LinksOK(w) /\ MptrsOK(w) /\ ZeroOK(w) /\ RemembersOK(w)
      /\ w \in Workspace
  BY DEF Sound, Areas
<1> DEFINE p == w.mem[b]
           q == w.mem[c]
           s == SIZE_BAG(w, b)
           t == SIZE_BAG(w, c)
<1>2. /\ b \in IdsOf(w) /\ b < w.oldBags /\ b \in 1 .. Limit /\ b # 0
      /\ p \in Int /\ w.oldBags + 2 <= p /\ p <= w.allocBags /\ s \in Nat /\ p + s <= w.allocBags
      /\ c \in IdsOf(w) /\ c < w.oldBags /\ c \in 1 .. Limit /\ c # 0
      /\ q \in Int /\ w.oldBags + 2 <= q /\ q <= w.allocBags /\ t \in Nat /\ q + t <= w.allocBags
  BY <1>1, Placed
<1>3. /\ w.mptrEnd \in Nat /\ w.oldBags \in Nat /\ w.youngBags \in Nat
      /\ w.allocBags \in Nat /\ Limit \in Nat /\ 1 <= w.mptrEnd /\ w.mptrEnd <= w.oldBags
      /\ w.oldBags <= w.allocBags /\ w.allocBags <= Limit + 1
  BY <1>1, AreaNumbers
<1>4. (p + s <= q - 2 \/ q + t <= p - 2) /\ p # q
  <2>1. p + s <= q - 2 \/ q + t <= p - 2
    BY <1>1, Apart
  <2> QED BY ONLY <1>2, <2>1
<1>5. Swaps(w, v, b, c)
  <2>1. p - 1 \in 1 .. Limit /\ q - 1 \in 1 .. Limit /\ p - 1 # q - 1 /\ p - 1 \notin {b, c} /\ q - 1 \notin {b, c}
    BY ONLY <1>2, <1>3, <1>4 DEF IdsOf
  <2>2. w.mem \in [1 .. Limit -> Int]
    BY <1>1, AreaFacts
  <2>3. LINK_BAG(w, b) \in Int /\ LINK_BAG(w, c) \in Int
    BY <2>1, <2>2 DEF LINK_BAG
  <2> QED BY <1>1, <1>2, <2>1, <2>3, SwapFields
<1> HIDE DEF p, q, s, t
<1>6. /\ v \in Workspace /\ SameAreas(w, v) /\ v.freeMptr = w.freeMptr /\ v.changed = w.changed
      /\ v.newMarker = w.newMarker /\ v.nrHalfDead = w.nrHalfDead /\ v.nrLive = w.nrLive
      /\ v.mem[b] = q /\ v.mem[c] = p
      /\ v.mem[q - 1] = LINK_BAG(w, b) /\ v.mem[p - 1] = LINK_BAG(w, c)
      /\ \A a \in 1 .. Limit : a \notin {b, c, q - 1, p - 1} => v.mem[a] = w.mem[a]
  BY <1>5 DEF Swaps, p, q
<1>7. Areas(v) /\ v.allocBags = w.allocBags /\ v.youngBags = w.youngBags /\ v.oldBags = w.oldBags
      /\ v.mptrEnd = w.mptrEnd /\ v.endBags = w.endBags
  BY ONLY <1>1, <1>6 DEF Areas, SameAreas
<1>8. ASSUME NEW x \in IdsOf(w), x \notin {b, c} PROVE v.mem[x] = w.mem[x]
  <2>1. x \in 1 .. Limit /\ x \notin {b, c, q - 1, p - 1}
    BY ONLY <1>2, <1>3, <1>8 DEF IdsOf
  <2> QED BY <1>6, <2>1
<1>9. LiveBags(v) = LiveBags(w) /\ DeadIds(v) = DeadIds(w)
  <2>1. IdsOf(v) = IdsOf(w)
    BY <1>7 DEF IdsOf
  <2>2. \A x \in IdsOf(w) : x \in LiveBags(v) <=> x \in LiveBags(w)
    <3>1. b \in LiveBags(v) /\ c \in LiveBags(v)
      BY ONLY <1>2, <1>3, <1>6, <1>7 DEF LiveBags, IdsOf, HeaderWords
    <3> QED BY <1>7, <1>8, <3>1 DEF LiveBags
  <2>3. LiveBags(v) \subseteq IdsOf(w) /\ LiveBags(w) \subseteq IdsOf(w)
    BY <2>1 DEF LiveBags, IdsOf
  <2>4. v.mem[b] \notin Markers /\ w.mem[b] \notin Markers /\ v.mem[c] \notin Markers /\ w.mem[c] \notin Markers
    BY <1>2, <1>3, <1>6 DEF Markers, p, q
  <2>5. DeadIds(v) = DeadIds(w)
    BY <1>8, <2>1, <2>4 DEF DeadIds
  <2> QED BY <2>2, <2>3, <2>5
<1>10. ASSUME NEW a \in Int, w.mptrEnd <= a, a <= Limit, a # q - 1, a # p - 1 PROVE v.mem[a] = w.mem[a]
  <2>1. a \in 1 .. Limit /\ a \notin {b, c, q - 1, p - 1}
    BY ONLY <1>2, <1>3, <1>10 DEF IdsOf
  <2> QED BY <1>6, <2>1
<1>11. ASSUME NEW d \in LiveBags(w)
       PROVE  /\ v.mem[w.mem[d] - 2] = w.mem[w.mem[d] - 2]
              /\ \A i \in 0 .. SIZE_BAG(w, d) - 1 : v.mem[w.mem[d] + i] = w.mem[w.mem[d] + i]
              /\ w.mem[d] - 1 = (IF d = b THEN p - 1 ELSE IF d = c THEN q - 1 ELSE w.mem[d] - 1)
              /\ d \notin {b, c} => v.mem[w.mem[d] - 1] = w.mem[w.mem[d] - 1]
  <2>1. /\ w.mem[d] \in Int /\ w.oldBags + 2 <= w.mem[d] /\ SIZE_BAG(w, d) \in Nat
        /\ w.mem[d] + SIZE_BAG(w, d) <= w.allocBags
    BY <1>1, Placed
  <2>2. d # b => w.mem[b] + SIZE_BAG(w, b) <= w.mem[d] - 2 \/ w.mem[d] + SIZE_BAG(w, d) <= w.mem[b] - 2
    BY <1>1, Apart
  <2>3. d # c => w.mem[c] + SIZE_BAG(w, c) <= w.mem[d] - 2 \/ w.mem[d] + SIZE_BAG(w, d) <= w.mem[c] - 2
    BY <1>1, Apart
  <2>4. /\ d # b => p + s <= w.mem[d] - 2 \/ w.mem[d] + SIZE_BAG(w, d) <= p - 2
        /\ d # c => q + t <= w.mem[d] - 2 \/ w.mem[d] + SIZE_BAG(w, d) <= q - 2
        /\ d = b => w.mem[d] = p
        /\ d = c => w.mem[d] = q
    BY <2>2, <2>3 DEF p, q, s, t
  <2>5. v.mem[w.mem[d] - 2] = w.mem[w.mem[d] - 2]
    <3>1. w.mem[d] - 2 \in Int /\ w.mptrEnd <= w.mem[d] - 2 /\ w.mem[d] - 2 <= Limit
          /\ w.mem[d] - 2 # p - 1 /\ w.mem[d] - 2 # q - 1
      BY ONLY <1>2, <1>3, <2>1, <2>4
    <3> QED BY <1>10, <3>1
  <2>6. ASSUME NEW i \in 0 .. SIZE_BAG(w, d) - 1 PROVE v.mem[w.mem[d] + i] = w.mem[w.mem[d] + i]
    <3>1. w.mem[d] + i \in Int /\ w.mptrEnd <= w.mem[d] + i /\ w.mem[d] + i <= Limit
          /\ w.mem[d] + i # p - 1 /\ w.mem[d] + i # q - 1
      BY ONLY <1>2, <1>3, <2>1, <2>4, <2>6
    <3> QED BY <1>10, <3>1
  <2>7. d \notin {b, c} => v.mem[w.mem[d] - 1] = w.mem[w.mem[d] - 1]
    <3> SUFFICES ASSUME d \notin {b, c} PROVE v.mem[w.mem[d] - 1] = w.mem[w.mem[d] - 1]
      OBVIOUS
    <3>1. w.mem[d] - 1 \in Int /\ w.mptrEnd <= w.mem[d] - 1 /\ w.mem[d] - 1 <= Limit
          /\ w.mem[d] - 1 # p - 1 /\ w.mem[d] - 1 # q - 1
      BY ONLY <1>2, <1>3, <2>1, <2>4, d \notin {b, c}
    <3> QED BY <1>10, <3>1
  <2> QED BY <2>4, <2>5, <2>6, <2>7
<1>12. Copies(w, c, v, b) /\ Copies(w, b, v, c) /\ LINK_BAG(v, b) = LINK_BAG(w, b) /\ LINK_BAG(v, c) = LINK_BAG(w, c)
  <2>1. v.mem[q - 2] = w.mem[q - 2] /\ \A i \in 0 .. t - 1 : v.mem[q + i] = w.mem[q + i]
    BY <1>11 DEF q, t
  <2>2. v.mem[p - 2] = w.mem[p - 2] /\ \A i \in 0 .. s - 1 : v.mem[p + i] = w.mem[p + i]
    BY <1>11 DEF p, s
  <2>3. Copies(w, c, v, b)
    BY <1>6, <2>1 DEF Copies, TNUM_BAG, SIZE_BAG, Word, q, t
  <2>4. Copies(w, b, v, c)
    BY <1>6, <2>2 DEF Copies, TNUM_BAG, SIZE_BAG, Word, p, s
  <2>5. v.mem[v.mem[b] - 1] = LINK_BAG(w, b) /\ v.mem[v.mem[c] - 1] = LINK_BAG(w, c)
    BY <1>6
  <2> QED BY <2>3, <2>4, <2>5 DEF LINK_BAG
<1>13. ASSUME NEW d \in LiveBags(w), d \notin {b, c}
       PROVE  v.mem[d] = w.mem[d] /\ SameBag(w, v, d) /\ LINK_BAG(v, d) = LINK_BAG(w, d)
  <2>1. v.mem[d] = w.mem[d]
    BY <1>1, <1>8, <1>13, Placed
  <2> QED BY <1>11, <1>13, <2>1 DEF SameBag, TNUM_BAG, SIZE_BAG, Word, LINK_BAG
<1>14. \A d \in LiveBags(w) : LINK_BAG(v, d) = LINK_BAG(w, d)
  BY <1>12, <1>13
<1>15. LinksOK(v)
  BY <1>1, <1>6, <1>9, <1>14, LinksKept
<1>16. FreeIds(v) = FreeIds(w) /\ b \notin FreeIds(w) /\ c \notin FreeIds(w)
  <2>1. v.mem[b] # 0 /\ v.mem[b] \notin IdsOf(w) /\ v.mem[c] # 0 /\ v.mem[c] \notin IdsOf(w)
        /\ w.mem[b] # 0 /\ w.mem[b] \notin IdsOf(w) /\ w.mem[c] # 0 /\ w.mem[c] \notin IdsOf(w)
    BY <1>2, <1>3, <1>6 DEF IdsOf, p, q
  <2>2. IdsOf(v) = IdsOf(w)
    BY <1>7 DEF IdsOf
  <2> QED BY <1>8, <2>1, <2>2 DEF FreeIds
<1>17. MptrsOK(v)
  <2>1. \A x \in FreeIds(w) : v.mem[x] = w.mem[x]
    BY <1>8, <1>16 DEF FreeIds
  <2>2. Chain(v.freeMptr, v.mem, FreeIds(v))
    BY <1>1, <1>6, <1>16, <2>1, ChainSame DEF MptrsOK
  <2>3. IdsOf(v) = IdsOf(w)
    BY <1>7 DEF IdsOf
  <2> QED BY <1>1, <1>9, <1>16, <2>2, <2>3 DEF MptrsOK
<1>18. ZeroOK(v)
  <2> SUFFICES ASSUME NEW a \in w.allocBags .. Limit PROVE v.mem[a] = 0
    BY <1>7 DEF ZeroOK
  <2>1. a \in Int /\ w.mptrEnd <= a /\ a <= Limit /\ a # q - 1 /\ a # p - 1
    BY ONLY <1>2, <1>3, a \in w.allocBags .. Limit
  <2> QED BY <1>1, <1>10, <2>1 DEF ZeroOK
<1>19. Tiles(v, W)
  <2>1. \A a \in W : a \in Int /\ w.oldBags <= a /\ a <= w.allocBags
    BY <1>1, <1>3 DEF Tiles
  <2>2. ASSUME NEW a \in W, a < w.allocBags PROVE v.mem[a] = w.mem[a]
    <3>1. /\ \A e \in W : p - 2 < e => p - 2 + (2 + s) <= e
          /\ \A e \in W : q - 2 < e => q - 2 + (2 + t) <= e
      <4>1. p - 2 \in W /\ Stride(w.mem[p - 2]) = 2 + s /\ q - 2 \in W /\ Stride(w.mem[q - 2]) = 2 + t
        BY <1>1, Placed DEF p, q, s, t
      <4> QED BY <1>1, <4>1 DEF Tiles
    <3>2. w.mptrEnd <= a /\ a <= Limit /\ a # q - 1 /\ a # p - 1 /\ a \in Int
      BY ONLY <1>2, <1>3, <2>1, <2>2, <3>1
    <3> QED BY <1>10, <3>2
  <2>3. W \subseteq v.oldBags .. v.allocBags /\ v.oldBags \in W /\ v.youngBags \in W /\ v.allocBags \in W
    BY <1>1, <1>7 DEF Tiles
  <2>4. \A a \in W : a < v.allocBags =>
          /\ v.mem[a] \in Nat /\ TypeIn(v.mem[a]) \in 1 .. 3
          /\ a + Stride(v.mem[a]) \in W
    BY <1>1, <1>7, <2>2 DEF Tiles
  <2>5. ASSUME NEW a \in W, NEW e \in W, a < e PROVE a + Stride(v.mem[a]) <= e
    <3>1. a < w.allocBags
      BY <1>3, <2>1, <2>5
    <3> QED BY <1>1, <2>2, <2>5, <3>1 DEF Tiles
  <2>6. ASSUME NEW d \in LiveBags(v) PROVE v.mem[d] - 2 \in W /\ TNUM_BAG(v, d) # T_DUMMY
    <3>1. \A e \in LiveBags(w) : w.mem[e] - 2 \in W /\ TNUM_BAG(w, e) # T_DUMMY
      BY <1>1 DEF Tiles
    <3>2. CASE d = b
      BY <1>6, <1>12, <3>1, <3>2 DEF Copies, q
    <3>3. CASE d = c
      BY <1>6, <1>12, <3>1, <3>3 DEF Copies, p
    <3>4. CASE d \notin {b, c}
      BY <1>9, <1>13, <3>1, <3>4 DEF SameBag
    <3> QED BY <3>2, <3>3, <3>4
  <2>7. ASSUME NEW a \in W, a < v.allocBags, TypeIn(v.mem[a]) # T_DUMMY
        PROVE  \E d \in LiveBags(v) : v.mem[d] = a + 2
    <3>1. PICK d \in LiveBags(w) : w.mem[d] = a + 2
      BY <1>1, <1>7, <2>2, <2>7 DEF Tiles
    <3>2. CASE d = b
      BY <1>6, <1>9, <3>1, <3>2 DEF p
    <3>3. CASE d = c
      BY <1>6, <1>9, <3>1, <3>3 DEF q
    <3>4. CASE d \notin {b, c}
      BY <1>9, <1>13, <3>1, <3>4
    <3> QED BY <3>2, <3>3, <3>4
  <2>8. ASSUME NEW d \in LiveBags(v), NEW e \in LiveBags(v), v.mem[d] = v.mem[e] PROVE d = e
    <3>1. \A f, g \in LiveBags(w) : w.mem[f] = w.mem[g] => f = g
      BY <1>1 DEF Tiles
    <3>2. v.mem[b] = w.mem[c] /\ v.mem[c] = w.mem[b] /\ \A f \in LiveBags(w) : f \notin {b, c} => v.mem[f] = w.mem[f]
      BY <1>6, <1>13 DEF p, q
    <3> QED BY ONLY <1>9, <2>8, <3>1, <3>2, b \in LiveBags(w), c \in LiveBags(w)
  <2> QED BY <2>3, <2>4, <2>5, <2>6, <2>7, <2>8 DEF Tiles
<1>20. WordsOK(v)
  <2> SUFFICES ASSUME NEW d \in LiveBags(w) PROVE WordsAt(v, d)
    BY <1>9 DEF WordsOK
  <2>1. \A e \in LiveBags(w) : WordsAt(w, e) /\ SIZE_BAG(w, e) \in Nat
    BY <1>1, Placed DEF WordsOK
  <2>2. CASE d = b
    BY <1>9, <1>12, <2>1, <2>2, WordsCopied
  <2>3. CASE d = c
    BY <1>9, <1>12, <2>1, <2>3, WordsCopied
  <2>4. CASE d \notin {b, c}
    BY <1>9, <1>13, <2>1, <2>4, WordsKept
  <2> QED BY <2>2, <2>3, <2>4
<1>21. RemembersOK(v)
  <2> SUFFICES ASSUME NEW d \in LiveBags(w) PROVE RemembersAt(v, d)
    BY <1>9 DEF RemembersOK
  <2>1. CASE d \in {b, c}
    BY <1>14, <2>1 DEF RemembersAt
  <2>2. CASE d \notin {b, c}
    <3>1. \A x \in LiveBags(w) : Remembered(w, x) => Remembered(v, x)
      <4> SUFFICES ASSUME NEW x \in LiveBags(w), Remembered(w, x) PROVE Remembered(v, x)
        OBVIOUS
      <4>1. CASE x \in {b, c}
        BY <1>14, <4>1 DEF Remembered
      <4>2. CASE x \notin {b, c}
        BY <1>7, <1>13, <4>2 DEF Remembered, IsOld, PTR_BAG
      <4> QED BY <4>1, <4>2
    <3>2. RemembersAt(w, d) /\ SameBag(w, v, d) /\ LINK_BAG(v, d) = LINK_BAG(w, d) /\ (IsOld(v, d) <=> IsOld(w, d))
      BY <1>1, <1>7, <1>13, <2>2 DEF RemembersOK, IsOld, PTR_BAG
    <3> QED BY <1>9, <3>1, <3>2, RemembersKept
  <2> QED BY <2>1, <2>2
<1>22. Sound(v, W)
  BY <1>7, <1>15, <1>17, <1>18, <1>19, <1>20, <1>21 DEF Sound
<1> QED BY <1>6, <1>8, <1>9, <1>12, <1>13, <1>22

(* SwapMasterPoint as a whole.                                             *)
LEMMA SwapMasterPointSound ==
    ASSUME NEW w, NEW W, Sound(w, W), NEW b \in LiveBags(w), NEW c \in LiveBags(w), b # c,
           NEW v, v = SwapMasterPoint(w, b, c)
    PROVE  /\ Sound(v, W) /\ LiveBags(v) = LiveBags(w) /\ DeadIds(v) = DeadIds(w)
           /\ SameAreas(w, v) /\ v.freeMptr = w.freeMptr
           /\ v.newMarker = w.newMarker /\ v.nrHalfDead = w.nrHalfDead /\ v.nrLive = w.nrLive
           /\ \A x \in IdsOf(w) : x \notin {b, c} => v.mem[x] = w.mem[x]
           /\ \A d \in LiveBags(w) : d \notin {b, c} => SameBag(w, v, d)
           /\ Copies(w, c, v, b) /\ Copies(w, b, v, c)
<1> DEFINE x == ForceChanged(w, b)
           y == ForceChanged(x, c)
<1>1. v = Swapped(y, b, c)
  BY DEF SwapMasterPoint, Swapped
<1>2. /\ Sound(x, W) /\ Kept(w, x) /\ LINK_BAG(x, b) # b
  BY ForceChangedSound
<1> HIDE DEF x
<1>3. b \in LiveBags(x) /\ c \in LiveBags(x)
  BY <1>2 DEF Kept
<1>3a. Sound(x, W) /\ c \in LiveBags(x) /\ y = ForceChanged(x, c)
  BY <1>2, <1>3
<1> HIDE DEF y
<1>4. /\ Sound(y, W) /\ Kept(x, y) /\ LINK_BAG(y, c) # c
      /\ \A d \in LiveBags(x) : d # c => LINK_BAG(y, d) = LINK_BAG(x, d)
  BY ONLY <1>3a, ForceChangedSound
<1>5. LINK_BAG(y, b) # b /\ b \in LiveBags(y) /\ c \in LiveBags(y)
  BY <1>2, <1>3, <1>4 DEF Kept
<1>6. /\ Sound(v, W) /\ LiveBags(v) = LiveBags(y) /\ DeadIds(v) = DeadIds(y)
      /\ SameAreas(y, v) /\ v.freeMptr = y.freeMptr
      /\ v.newMarker = y.newMarker /\ v.nrHalfDead = y.nrHalfDead /\ v.nrLive = y.nrLive
      /\ \A z \in IdsOf(y) : z \notin {b, c} => v.mem[z] = y.mem[z]
      /\ \A d \in LiveBags(y) : d \notin {b, c} => SameBag(y, v, d)
      /\ Copies(y, c, v, b) /\ Copies(y, b, v, c)
  BY <1>1, <1>4, <1>5, SwappedSound
<1>7. /\ LiveBags(y) = LiveBags(w) /\ DeadIds(y) = DeadIds(w) /\ SameAreas(w, y) /\ y.freeMptr = w.freeMptr
      /\ y.newMarker = w.newMarker /\ y.nrHalfDead = w.nrHalfDead /\ y.nrLive = w.nrLive
      /\ IdsOf(y) = IdsOf(w)
      /\ \A z \in IdsOf(w) : y.mem[z] = w.mem[z]
      /\ \A d \in LiveBags(w) : SameBag(w, y, d)
  <2>1. IdsOf(x) = IdsOf(w) /\ IdsOf(y) = IdsOf(x)
    BY <1>2, <1>4 DEF Kept, SameAreas, IdsOf
  <2>2. \A d \in LiveBags(w) : SameBag(w, y, d)
    BY <1>2, <1>4 DEF Kept, SameBag
  <2>3. SameAreas(w, y)
    BY <1>2, <1>4 DEF Kept, SameAreas
  <2> QED BY <1>2, <1>4, <2>1, <2>2, <2>3 DEF Kept
<1>8. \A d \in LiveBags(w) : d \notin {b, c} => SameBag(w, v, d)
  BY <1>6, <1>7 DEF SameBag
<1>9. Copies(w, c, v, b) /\ Copies(w, b, v, c)
  BY <1>6, <1>7 DEF Copies, SameBag
<1>10. SameAreas(w, v)
  BY <1>6, <1>7 DEF SameAreas
<1> QED BY <1>6, <1>7, <1>8, <1>9, <1>10

-----------------------------------------------------------------------------
(* CollectBags: the list of changed bags, the mark phase.                  *)

(* Sets of identifiers are no larger than the area of masterpointers.      *)
LEMMA FewIds ==
    ASSUME NEW w, Areas(w), NEW C, C \subseteq IdsOf(w)
    PROVE  IsFiniteSet(C) /\ Cardinality(C) \in Nat /\ Cardinality(C) <= SizeMptrsArea(w)
           /\ SizeMptrsArea(w) \in Nat
<1>1. w.mptrEnd \in Nat /\ 1 <= w.mptrEnd
  BY AreaNumbers
<1>2. /\ IsFiniteSet(1 .. w.mptrEnd - 1)
      /\ Cardinality(1 .. w.mptrEnd - 1) = IF 1 > w.mptrEnd - 1 THEN 0 ELSE w.mptrEnd - 1 - 1 + 1
  <2>1. 1 \in Int /\ w.mptrEnd - 1 \in Int
    BY <1>1
  <2> QED BY <2>1, FS_Interval
<1>3. Cardinality(IdsOf(w)) = SizeMptrsArea(w) /\ IsFiniteSet(IdsOf(w)) /\ SizeMptrsArea(w) \in Nat
  BY <1>1, <1>2 DEF IdsOf, SizeMptrsArea
<1>4. IsFiniteSet(C) /\ Cardinality(C) <= Cardinality(IdsOf(w))
  BY <1>3, FS_Subset
<1>5. Cardinality(C) \in Nat
  BY <1>4, FS_CardinalityType
<1> QED BY <1>3, <1>4, <1>5

(* The walk along the list of changed bags finds the bags whose link word  *)
(* is not the bag itself.                                                  *)
LEMMA ChangedIsListed ==
    ASSUME NEW w, Areas(w), LinksOK(w)
    PROVE  ChangedBags(w) = ListedBags(w)
<1>1. Chain(w.changed, Links(w), ListedBags(w))
  BY DEF LinksOK
<1>2. CASE w.changed = 0
  <2>1. {} \in SUBSET ListedBags(w) /\ w.changed \in {} \cup {0} /\ \A b \in {} : Links(w)[b] \in {} \cup {0}
    BY <1>2
  <2>2. ListedBags(w) = {}
    BY <1>1, <2>1 DEF Chain
  <2> QED BY <1>2, <2>2 DEF ChangedBags
<1>3. CASE w.changed # 0
  <2> DEFINE next == [b \in LiveBags(w) |-> {LINK_BAG(w, b)} \ {0}]
  <2>1. ListedBags(w) \subseteq IdsOf(w)
    BY DEF ListedBags, LiveBags, IdsOf
  <2>2. /\ IsFiniteSet(ListedBags(w)) /\ SizeMptrsArea(w) \in Nat
        /\ Cardinality(ListedBags(w)) <= SizeMptrsArea(w)
    BY <2>1, FewIds
  <2>3. ListedBags(w) \subseteq DOMAIN next /\ \A b \in ListedBags(w) : next[b] = {Links(w)[b]} \ {0}
    BY DEF ListedBags, Links
  <2> HIDE DEF next
  <2>4. Closure({w.changed}, next, SizeMptrsArea(w)) = ListedBags(w)
    BY <1>1, <1>3, <2>2, <2>3, ChainClosure
  <2> QED BY <1>3, <2>4 DEF ChangedBags, next
<1> QED BY <1>2, <1>3

(* Sound, but for what the list of changed bags should remember.           *)
Forgetful(w, W) ==
    Areas(w) /\ Tiles(w, W) /\ WordsOK(w) /\ LinksOK(w) /\ MptrsOK(w) /\ ZeroOK(w)

(* The fields that DropChangedBags leaves.                                 *)
Drops(w, v) ==
    /\ v \in Workspace /\ SameAreas(w, v) /\ v.freeMptr = w.freeMptr /\ v.changed = 0
    /\ v.newMarker = w.newMarker /\ v.nrHalfDead = w.nrHalfDead /\ v.nrLive = w.nrLive
    /\ \A b \in ListedBags(w) : v.mem[w.mem[b] - 1] = b
    /\ \A a \in 1 .. Limit : (\A b \in ListedBags(w) : a # w.mem[b] - 1) => v.mem[a] = w.mem[a]

(* They are those of its definition.                                       *)
LEMMA DropFields ==
    ASSUME NEW w, NEW W, Areas(w), Tiles(w, W), LinksOK(w)
    PROVE  Drops(w, DropChangedBags(w))
<1> DEFINE v == DropChangedBags(w)
           L == ListedBags(w)
           links == {w.mem[b] - 1 : b \in L}
           owner == [a \in links |-> CHOOSE b \in L : w.mem[b] - 1 = a]
           m == [a \in 1 .. Limit |-> IF a \in links THEN owner[a] ELSE w.mem[a]]
<1>1. w \in Workspace /\ w.mem \in [1 .. Limit -> Int]
  BY AreaFacts DEF Areas
<1>2. ChangedBags(w) = L
  BY ChangedIsListed
<1>3. v = [w EXCEPT !.changed = 0, !.mem = m]
  BY ONLY <1>2 DEF DropChangedBags
<1> HIDE DEF v
<1>4. ASSUME NEW b \in L PROVE w.mem[b] - 1 \in links /\ owner[w.mem[b] - 1] = b /\ w.mem[b] - 1 \in 1 .. Limit /\ b \in Int
  <2>1. \A c \in L : w.mem[c] \in Int /\ w.mem[c] - 1 \in 1 .. Limit /\ c \in Int /\ c \in LiveBags(w)
    BY Placed, PlacedWords DEF ListedBags
  <2>2. \A c, d \in L : w.mem[c] = w.mem[d] => c = d
    BY <2>1 DEF Tiles
  <2>3. \A c \in L : w.mem[c] - 1 = w.mem[b] - 1 => c = b
    <3> SUFFICES ASSUME NEW c \in L, w.mem[c] - 1 = w.mem[b] - 1 PROVE c = b
      OBVIOUS
    <3>1. w.mem[c] = w.mem[b]
      BY ONLY <2>1, b \in L, c \in L, w.mem[c] - 1 = w.mem[b] - 1
    <3> QED BY <2>2, <3>1
  <2>4. w.mem[b] - 1 \in links
    OBVIOUS
  <2>5. owner[w.mem[b] - 1] = CHOOSE c \in L : w.mem[c] - 1 = w.mem[b] - 1
    BY <2>4
  <2>6. (CHOOSE c \in L : w.mem[c] - 1 = w.mem[b] - 1) = b
    BY <2>3
  <2> QED BY <2>1, <2>4, <2>5, <2>6
<1>5. ASSUME NEW a \in links PROVE owner[a] \in Int
  <2>1. PICK b \in L : a = w.mem[b] - 1
    OBVIOUS
  <2> QED BY <1>4, <2>1
<1> HIDE DEF owner
<1>6. m \in [1 .. Limit -> Int]
  BY <1>1, <1>5
<1>7. \A b \in L : m[w.mem[b] - 1] = b
  BY <1>4
<1>8. \A a \in 1 .. Limit : (\A b \in L : a # w.mem[b] - 1) => m[a] = w.mem[a]
  OBVIOUS
<1> HIDE DEF m
<1>9. v \in Workspace
  BY ONLY <1>1, <1>3, <1>6 DEF Workspace
<1>10. /\ v.mem = m /\ SameAreas(w, v) /\ v.freeMptr = w.freeMptr /\ v.changed = 0
       /\ v.newMarker = w.newMarker /\ v.nrHalfDead = w.nrHalfDead /\ v.nrLive = w.nrLive
  BY ONLY <1>1, <1>3 DEF Workspace, SameAreas
<1>11. Drops(w, v)
  BY ONLY <1>7, <1>8, <1>9, <1>10 DEF Drops
<1> QED BY ONLY <1>11 DEF v

(* After DropChangedBags no bag is on the list, and the bags are the same. *)
LEMMA DropSound ==
    ASSUME NEW w, NEW W, Forgetful(w, W), NEW v, v = DropChangedBags(w)
    PROVE  /\ Forgetful(v, W) /\ Kept(w, v) /\ v.changed = 0
           /\ \A b \in LiveBags(w) : LINK_BAG(v, b) = b
<1>1. Areas(w) /\ Tiles(w, W) /\ WordsOK(w) /\ LinksOK(w) /\ MptrsOK(w) /\ ZeroOK(w) /\ w \in Workspace
  BY DEF Forgetful, Areas
<1>2. Drops(w, v)
  BY <1>1, DropFields
<1>3. /\ v \in Workspace /\ SameAreas(w, v) /\ v.freeMptr = w.freeMptr /\ v.changed = 0
      /\ v.newMarker = w.newMarker /\ v.nrHalfDead = w.nrHalfDead /\ v.nrLive = w.nrLive
      /\ \A b \in ListedBags(w) : v.mem[w.mem[b] - 1] = b
      /\ \A a \in 1 .. Limit : (\A b \in ListedBags(w) : a # w.mem[b] - 1) => v.mem[a] = w.mem[a]
  BY <1>2 DEF Drops
<1>4. Areas(v) /\ v.allocBags = w.allocBags /\ v.youngBags = w.youngBags /\ v.oldBags = w.oldBags
      /\ v.mptrEnd = w.mptrEnd
  BY ONLY <1>1, <1>3 DEF Areas, SameAreas
<1>5. /\ w.mptrEnd \in Nat /\ w.oldBags \in Nat /\ w.youngBags \in Nat
      /\ w.allocBags \in Nat /\ Limit \in Nat /\ 1 <= w.mptrEnd /\ w.mptrEnd <= w.oldBags
      /\ w.oldBags <= w.allocBags /\ w.allocBags <= Limit + 1
  BY <1>1, AreaNumbers
<1>6. \A b \in LiveBags(w) : /\ w.mem[b] \in Int /\ w.oldBags + 2 <= w.mem[b] /\ w.mem[b] <= w.allocBags
                             /\ SIZE_BAG(w, b) \in Nat /\ w.mem[b] + SIZE_BAG(w, b) <= w.allocBags
                             /\ b \in IdsOf(w)
  BY <1>1, Placed
<1>7. \A b \in ListedBags(w) : b \in LiveBags(w)
  BY DEF ListedBags
<1>8. ASSUME NEW x \in IdsOf(w) PROVE v.mem[x] = w.mem[x]
  <2>1. x \in 1 .. Limit /\ \A b \in ListedBags(w) : x # w.mem[b] - 1
    BY ONLY <1>5, <1>6, <1>7, x \in IdsOf(w) DEF IdsOf
  <2> QED BY <1>3, <2>1
<1>9. LiveBags(v) = LiveBags(w)
  BY <1>4, <1>8 DEF LiveBags, IdsOf
<1>10. ASSUME NEW a \in W, a < w.allocBags PROVE v.mem[a] = w.mem[a]
  <2>1. a \in Int /\ w.oldBags <= a
    BY <1>1, <1>5 DEF Tiles
  <2>2. \A b \in LiveBags(w) : w.mem[b] - 2 < a => w.mem[b] - 2 + (2 + SIZE_BAG(w, b)) <= a
    <3>1. \A b \in LiveBags(w) : w.mem[b] - 2 \in W /\ Stride(w.mem[w.mem[b] - 2]) = 2 + SIZE_BAG(w, b)
      BY <1>1, Placed
    <3> QED BY <1>1, <3>1 DEF Tiles
  <2>3. a \in 1 .. Limit /\ \A b \in ListedBags(w) : a # w.mem[b] - 1
    BY ONLY <1>5, <1>6, <1>7, <1>10, <2>1, <2>2
  <2> QED BY <1>3, <2>3
<1>11. ASSUME NEW c \in LiveBags(w)
       PROVE  v.mem[c] = w.mem[c] /\ SameBag(w, v, c) /\ LINK_BAG(v, c) = c
  <2>1. v.mem[c] = w.mem[c]
    BY <1>6, <1>8
  <2>2. v.mem[w.mem[c] - 2] = w.mem[w.mem[c] - 2]
    <3>1. w.mem[c] - 2 \in W /\ w.mem[c] - 2 < w.allocBags
      <4>1. w.mem[c] - 2 \in W /\ w.mem[c] \in Int /\ w.mem[c] <= w.allocBags
        BY <1>1, Placed
      <4> QED BY <1>5, <4>1
    <3> QED BY <1>10, <3>1
  <2>3. \A b \in LiveBags(w) : b # c => \/ w.mem[b] + SIZE_BAG(w, b) <= w.mem[c] - 2
                                        \/ w.mem[c] + SIZE_BAG(w, c) <= w.mem[b] - 2
    BY <1>1, Apart
  <2>4. ASSUME NEW i \in 0 .. SIZE_BAG(w, c) - 1 PROVE Word(v, c, i) = Word(w, c, i)
    <3>1. w.mem[c] + i \in 1 .. Limit /\ \A b \in ListedBags(w) : w.mem[c] + i # w.mem[b] - 1
      BY ONLY <1>5, <1>6, <1>7, <2>3, <2>4, c \in LiveBags(w)
    <3> QED BY <1>3, <2>1, <3>1 DEF Word
  <2>5. LINK_BAG(v, c) = c
    <3>1. CASE c \in ListedBags(w)
      BY <1>3, <2>1, <3>1 DEF LINK_BAG
    <3>2. CASE c \notin ListedBags(w)
      <4>1. w.mem[c] - 1 \in 1 .. Limit /\ \A b \in ListedBags(w) : w.mem[c] - 1 # w.mem[b] - 1
        BY ONLY <1>5, <1>6, <1>7, <2>3, <3>2, c \in LiveBags(w)
      <4>2. v.mem[w.mem[c] - 1] = w.mem[w.mem[c] - 1]
        BY <1>3, <4>1
      <4> QED BY <2>1, <3>2, <4>2 DEF LINK_BAG, ListedBags
    <3> QED BY <3>1, <3>2
  <2> QED BY <2>1, <2>2, <2>4, <2>5 DEF SameBag, TNUM_BAG, SIZE_BAG
<1>12. MptrsOK(v) /\ DeadIds(v) = DeadIds(w)
  BY <1>1, <1>3, <1>4, <1>8, <1>9, MptrsKept
<1>13. LinksOK(v)
  <2>1. ListedBags(v) = {}
    BY <1>9, <1>11 DEF ListedBags
  <2> QED BY <1>3, <2>1 DEF LinksOK, Chain
<1>14. ZeroOK(v)
  <2> SUFFICES ASSUME NEW a \in w.allocBags .. Limit PROVE v.mem[a] = 0
    BY <1>4 DEF ZeroOK
  <2>1. a \in 1 .. Limit /\ \A b \in ListedBags(w) : a # w.mem[b] - 1
    BY ONLY <1>5, <1>6, <1>7, a \in w.allocBags .. Limit
  <2> QED BY <1>1, <1>3, <2>1 DEF ZeroOK
<1>15. WordsOK(v)
  <2> SUFFICES ASSUME NEW c \in LiveBags(w) PROVE WordsAt(v, c)
    BY <1>9 DEF WordsOK
  <2>1. WordsAt(w, c) /\ SIZE_BAG(w, c) \in Nat /\ SameBag(w, v, c)
    BY <1>1, <1>6, <1>11 DEF WordsOK
  <2> QED BY <1>9, <1>12, <2>1, WordsKept
<1>16. Tiles(v, W)
  <2>3. W \subseteq v.oldBags .. v.allocBags /\ v.oldBags \in W /\ v.youngBags \in W /\ v.allocBags \in W
    BY <1>1, <1>4 DEF Tiles
  <2>4. \A a \in W : a < v.allocBags =>
          /\ v.mem[a] \in Nat /\ TypeIn(v.mem[a]) \in 1 .. 3
          /\ a + Stride(v.mem[a]) \in W
    BY <1>1, <1>4, <1>10 DEF Tiles
  <2>5. ASSUME NEW a \in W, NEW e \in W, a < e PROVE a + Stride(v.mem[a]) <= e
    <3>1. a < w.allocBags
      BY <1>1, <1>5, <2>5 DEF Tiles
    <3> QED BY <1>1, <1>10, <2>5, <3>1 DEF Tiles
  <2>6. \A d \in LiveBags(v) : v.mem[d] - 2 \in W /\ TNUM_BAG(v, d) # T_DUMMY
    BY <1>1, <1>9, <1>11 DEF Tiles, SameBag
  <2>7. \A a \in W : a < v.allocBags /\ TypeIn(v.mem[a]) # T_DUMMY => \E d \in LiveBags(v) : v.mem[d] = a + 2
    BY <1>1, <1>4, <1>9, <1>10, <1>11 DEF Tiles
  <2>8. \A d, e \in LiveBags(v) : v.mem[d] = v.mem[e] => d = e
    BY <1>1, <1>9, <1>11 DEF Tiles
  <2> QED BY <2>3, <2>4, <2>5, <2>6, <2>7, <2>8 DEF Tiles
<1>17. Forgetful(v, W)
  BY <1>4, <1>12, <1>13, <1>14, <1>15, <1>16 DEF Forgetful
<1>18. Kept(w, v)
  BY <1>3, <1>8, <1>9, <1>11, <1>12 DEF Kept
<1> QED BY <1>3, <1>11, <1>17, <1>18

(* The fields that a full collection begins with.                          *)
Younger(d, v) ==
    /\ v \in Workspace /\ v.mem = d.mem /\ v.mptrEnd = d.mptrEnd /\ v.oldBags = d.oldBags
    /\ v.youngBags = d.oldBags /\ v.allocBags = d.allocBags /\ v.endBags = d.endBags
    /\ v.freeMptr = d.freeMptr /\ v.changed = d.changed /\ v.nrHalfDead = d.nrHalfDead
    /\ v.nrLive = 0 /\ v.newMarker # d.newMarker

(* They are those of MakeAllYoung.                                         *)
LEMMA YoungerFields ==
    ASSUME NEW w, NEW d, d = DropChangedBags(w), d \in Workspace, w.oldBags = d.oldBags
    PROVE  Younger(d, MakeAllYoung(w))
<1> DEFINE v == MakeAllYoung(w)
           y == CHOOSE m \in Markers : m # d.newMarker
<1>1. y \in Markers /\ y # d.newMarker
  BY SMTT(20) DEF Workspace, Markers
<1>2. v = [d EXCEPT !.youngBags = d.oldBags, !.nrLive = 0, !.newMarker = y]
  BY DEF MakeAllYoung, Workspace
<1> HIDE DEF v, y
<1>3. v \in Workspace
  BY ONLY <1>1, <1>2, d \in Workspace DEF Workspace
<1>4. Younger(d, v)
  BY ONLY <1>1, <1>2, <1>3, d \in Workspace DEF Workspace, Younger
<1> QED BY ONLY <1>4 DEF v

(* A full collection begins with a sound workspace without old bags.       *)
LEMMA MakeAllYoungSound ==
    ASSUME NEW w, NEW W, Sound(w, W), NEW v, v = MakeAllYoung(w)
    PROVE  /\ Sound(v, W) /\ v.youngBags = v.oldBags /\ v.nrLive = 0
           /\ v.mptrEnd = w.mptrEnd /\ v.endBags = w.endBags /\ v.allocBags = w.allocBags
           /\ v.oldBags = w.oldBags
           /\ v.newMarker # w.newMarker /\ v.nrHalfDead = w.nrHalfDead
           /\ LiveBags(v) = LiveBags(w) /\ DeadIds(v) = DeadIds(w)
           /\ \A x \in IdsOf(w) : v.mem[x] = w.mem[x]
           /\ \A c \in LiveBags(w) : SameBag(w, v, c)
<1> DEFINE d == DropChangedBags(w)
<1>1. Forgetful(w, W)
  BY DEF Sound, Forgetful
<1>2. /\ Forgetful(d, W) /\ Kept(w, d) /\ d.changed = 0
      /\ \A b \in LiveBags(w) : LINK_BAG(d, b) = b
  BY <1>1, DropSound
<1>3. /\ d \in Workspace /\ d.oldBags = w.oldBags /\ d.mptrEnd = w.mptrEnd /\ d.allocBags = w.allocBags
      /\ d.endBags = w.endBags /\ d.newMarker = w.newMarker /\ d.nrHalfDead = w.nrHalfDead
      /\ LiveBags(d) = LiveBags(w) /\ DeadIds(d) = DeadIds(w)
      /\ \A x \in IdsOf(w) : d.mem[x] = w.mem[x]
      /\ \A c \in LiveBags(w) : SameBag(w, d, c)
  BY <1>2 DEF Kept, SameAreas
<1> HIDE DEF d
<1>4. Younger(d, v)
  BY <1>3, YoungerFields DEF d
<1>5. /\ v \in Workspace /\ v.mem = d.mem /\ v.mptrEnd = d.mptrEnd /\ v.oldBags = d.oldBags
      /\ v.youngBags = d.oldBags /\ v.allocBags = d.allocBags /\ v.endBags = d.endBags
      /\ v.freeMptr = d.freeMptr /\ v.changed = d.changed /\ v.nrHalfDead = d.nrHalfDead
      /\ v.nrLive = 0 /\ v.newMarker # d.newMarker
  BY <1>4 DEF Younger
<1>6. Areas(d) /\ Tiles(d, W) /\ WordsOK(d) /\ LinksOK(d) /\ MptrsOK(d) /\ ZeroOK(d)
  BY <1>2 DEF Forgetful
<1>7. Areas(v)
  <2>1. /\ d.mptrEnd \in Nat /\ d.oldBags \in Nat /\ d.youngBags \in Nat
      /\ d.allocBags \in Nat /\ d.endBags \in Nat /\ Limit \in Nat
      /\ 1 <= d.mptrEnd /\ d.mptrEnd <= d.oldBags /\ d.oldBags <= d.allocBags
      /\ d.allocBags <= d.endBags /\ d.endBags <= Limit + 1
    BY <1>6, AreaNumbers
  <2> QED BY ONLY <1>5, <2>1 DEF Areas
<1>8. /\ LiveBags(v) = LiveBags(d) /\ DeadIds(v) = DeadIds(d) /\ IdsOf(v) = IdsOf(d) /\ FreeIds(v) = FreeIds(d)
  BY <1>5 DEF LiveBags, DeadIds, IdsOf, FreeIds
<1>9. \A c \in LiveBags(d) : /\ SIZE_BAG(v, c) = SIZE_BAG(d, c) /\ TNUM_BAG(v, c) = TNUM_BAG(d, c)
                             /\ LINK_BAG(v, c) = LINK_BAG(d, c) /\ \A i : Word(v, c, i) = Word(d, c, i)
  BY <1>5 DEF SIZE_BAG, TNUM_BAG, LINK_BAG, Word
<1>10. \A c \in LiveBags(w) : SameBag(w, v, c)
  BY <1>3, <1>9 DEF SameBag
<1>11. Tiles(v, W)
  <2>1. d.oldBags \in W
    BY <1>6 DEF Tiles
  <2> QED BY <1>5, <1>6, <1>8, <1>9, <2>1 DEF Tiles
<1>12. WordsOK(v)
  BY <1>6, <1>8, <1>9 DEF WordsOK, WordsAt, LenWord
<1>13. MptrsOK(v)
  BY <1>5, <1>6, <1>8 DEF MptrsOK
<1>14. ZeroOK(v)
  BY <1>5, <1>6 DEF ZeroOK
<1>15. LinksOK(v)
  BY <1>5, <1>6, <1>8, <1>9, LinksKept
<1>16. RemembersOK(v)
  <2> SUFFICES ASSUME NEW b \in LiveBags(v) PROVE ~ IsOld(v, b)
    BY DEF RemembersOK, RemembersAt
  <2>1. v.oldBags + 2 <= v.mem[b] /\ v.mem[b] \in Int /\ v.oldBags \in Nat /\ v.youngBags = v.oldBags
    BY <1>5, <1>7, <1>11, Placed, AreaNumbers
  <2> QED BY <2>1 DEF IsOld, PTR_BAG
<1>17. Sound(v, W)
  BY <1>7, <1>11, <1>12, <1>13, <1>14, <1>15, <1>16 DEF Sound
<1> QED BY <1>3, <1>5, <1>8, <1>10, <1>17

YoungBagsOf(w) == {b \in LiveBags(w) : ~ IsOld(w, b)}

(* The bags that a collection keeps.                                       *)
Survivors(w, m) == {b \in LiveBags(w) : IsOld(w, b)} \cup m.alive

(* What the mark phase tells the sweeper.                                  *)
MarksOK(w, m) ==
    /\ m.alive \subseteq YoungBagsOf(w) /\ m.halfDead \subseteq YoungBagsOf(w)
    /\ m.alive \cap m.halfDead = {}
    /\ \A b \in Survivors(w, m) : TNUM_BAG(w, b) = T_LIST =>
          \A i \in 0 .. SIZE_BAG(w, b) - 1 : Word(w, b, i) \in Survivors(w, m) \cup {0}
    /\ \A b \in Survivors(w, m) : TNUM_BAG(w, b) = T_WPOBJ =>
          \A i \in 1 .. SIZE_BAG(w, b) - 1 :
             Word(w, b, i) \in LiveBags(w) => Word(w, b, i) \in Survivors(w, m) \cup m.halfDead

(* MarkBag picks the young bags.                                           *)
LEMMA MarkBagYoung ==
    ASSUME NEW w, NEW W, Areas(w), Tiles(w, W), MptrsOK(w), NEW S
    PROVE  MarkBag(w, S) = S \cap YoungBagsOf(w)
<1>1. /\ w.mptrEnd \in Nat /\ w.oldBags \in Nat /\ w.youngBags \in Nat /\ w.allocBags \in Nat
      /\ 1 <= w.mptrEnd /\ w.mptrEnd <= w.oldBags /\ w.oldBags <= w.youngBags /\ w.youngBags <= w.allocBags
  BY AreaNumbers
<1>2. ASSUME NEW b \in IdsOf(w), IsYoung(w, b) PROVE b \in YoungBagsOf(w)
  <2>1. w.youngBags < w.mem[b] /\ w.mem[b] <= w.allocBags
    BY <1>2 DEF IsYoung, PTR_BAG
  <2>2. b \in FreeIds(w) \cup LiveBags(w) \cup DeadIds(w)
    BY DEF MptrsOK
  <2>3. b \notin FreeIds(w) /\ b \notin DeadIds(w)
    <3>1. b \in FreeIds(w) => w.mem[b] = 0 \/ w.mem[b] \in IdsOf(w)
      BY DEF FreeIds
    <3>2. b \in DeadIds(w) => w.mem[b] \in Markers
      BY DEF DeadIds
    <3> QED BY ONLY <1>1, <2>1, <3>1, <3>2 DEF IdsOf, Markers
  <2>4. w.mem[b] \in Int
    BY <2>2, <2>3, Placed
  <2>5. ~ IsOld(w, b)
    BY ONLY <1>1, <2>1, <2>4 DEF IsOld, PTR_BAG
  <2> QED BY <2>2, <2>3, <2>5 DEF YoungBagsOf
<1>3. ASSUME NEW b \in YoungBagsOf(w) PROVE b \in IdsOf(w) /\ IsYoung(w, b)
  <2>1. b \in LiveBags(w) /\ ~ IsOld(w, b)
    BY DEF YoungBagsOf
  <2> QED BY <2>1, Placed, OldOrYoung
<1> QED BY <1>2, <1>3 DEF MarkBag, IS_BAG_ID, IdsOf

(* The words of a bag among its sub-bags.                                  *)
LEMMA SubBagWords ==
    ASSUME NEW w, NEW b, w.mem[b] \in Int, SIZE_BAG(w, b) \in Nat
    PROVE  /\ TNUM_BAG(w, b) = T_LIST =>
                 \A i \in 0 .. SIZE_BAG(w, b) - 1 : Word(w, b, i) \in StrongSubBags(w, b)
           /\ TNUM_BAG(w, b) = T_WPOBJ =>
                 \A i \in 1 .. SIZE_BAG(w, b) - 1 : Word(w, b, i) \in WeakSubBags(w, b)
<1>1. ASSUME NEW f \in 0 .. 1, NEW i \in f .. SIZE_BAG(w, b) - 1 PROVE Word(w, b, i) \in WordsOf(w, b, f)
  <2>1. w.mem[b] + i \in w.mem[b] + f .. w.mem[b] + SIZE_BAG(w, b) - 1
    <3> DEFINE p == w.mem[b]
               s == SIZE_BAG(w, b)
    <3>1. p \in Int /\ s \in Nat /\ f \in 0 .. 1 /\ i \in f .. s - 1
      OBVIOUS
    <3> HIDE DEF p, s
    <3>2. p + i \in p + f .. p + s - 1
      BY ONLY <3>1
    <3> QED BY ONLY <3>2 DEF p, s
  <2> QED BY <2>1 DEF Word, WordsOf, PTR_BAG
<1>2. TNUM_BAG(w, b) = T_LIST => StrongSubBags(w, b) = WordsOf(w, b, 0)
  BY DEF StrongSubBags, T_LIST, T_WPOBJ
<1>3. TNUM_BAG(w, b) = T_WPOBJ => WeakSubBags(w, b) = WordsOf(w, b, 1)
  BY DEF WeakSubBags
<1> QED BY <1>1, <1>2, <1>3

(* The mark phase reaches what the program can reach.                      *)
LEMMA MarkSound ==
    ASSUME NEW w, NEW W, Sound(w, W), NEW R, R \subseteq LiveBags(w),
           NEW m, m = CollectBags_Mark(w, R)
    PROVE  MarksOK(w, m) /\ R \subseteq Survivors(w, m)
<1> DEFINE Y == YoungBagsOf(w)
           old == {b \in ListedBags(w) : IsOld(w, b)}
           start == MarkBag(w, R \cup (ListedBags(w) \ old) \cup UNION {StrongSubBags(w, b) : b \in old})
           next == [b \in LiveBags(w) |-> MarkBag(w, StrongSubBags(w, b))]
           alive == Closure(start, next, SizeMptrsArea(w))
           weak == MarkBag(w, UNION {WeakSubBags(w, b) : b \in old \cup alive})
<1>1. Areas(w) /\ Tiles(w, W) /\ WordsOK(w) /\ LinksOK(w) /\ MptrsOK(w) /\ RemembersOK(w)
  BY DEF Sound
<1>2. ChangedBags(w) = ListedBags(w)
  BY <1>1, ChangedIsListed
<1>3. m.alive = alive /\ m.halfDead = weak \ alive
  BY <1>2 DEF CollectBags_Mark
<1>4. \A S : MarkBag(w, S) = S \cap Y
  BY <1>1, MarkBagYoung
<1>5. start \subseteq Y /\ DOMAIN next = LiveBags(w) /\ \A b \in LiveBags(w) : next[b] = StrongSubBags(w, b) \cap Y
  BY <1>4
<1>6. /\ (R \cap Y) \subseteq start /\ ((ListedBags(w) \ old) \cap Y) \subseteq start
      /\ \A b \in old : (StrongSubBags(w, b) \cap Y) \subseteq start
  BY <1>4
<1>7. \A b \in old \cup alive : (WeakSubBags(w, b) \cap Y) \subseteq weak
  <2> DEFINE named == UNION {WeakSubBags(w, b) : b \in old \cup alive}
  <2>1. weak = named \cap Y
    BY <1>4
  <2>2. \A b \in old \cup alive : WeakSubBags(w, b) \subseteq named
    OBVIOUS
  <2> HIDE DEF named, old, alive, weak, Y
  <2> QED BY <2>1, <2>2
<1>8. weak \subseteq Y
  BY <1>4
<1> HIDE DEF start, next, weak
<1>9. Y \subseteq IdsOf(w) /\ Y \subseteq LiveBags(w)
  BY DEF YoungBagsOf, LiveBags, IdsOf
<1>10. IsFiniteSet(Y) /\ Cardinality(Y) <= SizeMptrsArea(w) /\ SizeMptrsArea(w) \in Nat
  BY <1>1, <1>9, FewIds
<1> HIDE DEF Y
<1>11. \A x \in Y \cap DOMAIN next : next[x] \subseteq Y
  BY <1>5
<1>12. start \subseteq alive /\ alive \subseteq Y
  BY <1>5, <1>10, <1>11, ClosureLeast
<1>13. \A x \in alive \cap DOMAIN next : next[x] \subseteq alive
  BY <1>5, <1>10, <1>11, ClosureClosed
<1> HIDE DEF alive
<1>14. \A b \in alive : b \in LiveBags(w) /\ (StrongSubBags(w, b) \cap Y) \subseteq alive
  BY <1>5, <1>9, <1>12, <1>13
<1>15. \A b \in LiveBags(w) : IsOld(w, b) \/ b \in Y
  BY DEF YoungBagsOf, Y
<1>16. \A b \in LiveBags(w) : w.mem[b] \in Int /\ SIZE_BAG(w, b) \in Nat /\ WordsAt(w, b) /\ RemembersAt(w, b)
  BY <1>1, Placed DEF WordsOK, RemembersOK
<1>17. Survivors(w, m) = {b \in LiveBags(w) : IsOld(w, b)} \cup alive
  BY <1>3 DEF Survivors
<1>18. R \subseteq Survivors(w, m)
  BY <1>6, <1>12, <1>15, <1>17
<1>19. ASSUME NEW b \in LiveBags(w), IsOld(w, b), b \notin ListedBags(w),
              NEW i \in 0 .. SIZE_BAG(w, b) - 1, Word(w, b, i) \in LiveBags(w)
       PROVE  Word(w, b, i) \in Survivors(w, m)
  <2> DEFINE x == Word(w, b, i)
  <2>1. LINK_BAG(w, b) = b
    BY <1>19 DEF ListedBags
  <2>2. Remembered(w, x)
    BY <1>16, <1>19, <2>1 DEF RemembersAt
  <2>3. IsOld(w, x) \/ x \in ListedBags(w)
    BY <1>19, <2>2 DEF Remembered, ListedBags
  <2> HIDE DEF x
  <2>4. x \in LiveBags(w)
    BY <1>19 DEF x
  <2>5. CASE IsOld(w, x)
    BY <1>17, <2>4, <2>5 DEF x
  <2>6. CASE ~ IsOld(w, x)
    <3>1. x \in (ListedBags(w) \ old) \cap Y
      BY <1>15, <2>3, <2>4, <2>6
    <3> QED BY <1>6, <1>12, <1>17, <3>1 DEF x
  <2> QED BY <2>5, <2>6
<1>20. ASSUME NEW b \in Survivors(w, m) PROVE b \in LiveBags(w) /\ (b \in alive \/ b \in old \/ (IsOld(w, b) /\ b \notin ListedBags(w)))
  BY <1>14, <1>17
<1>21. ASSUME NEW b \in Survivors(w, m), TNUM_BAG(w, b) = T_LIST, NEW i \in 0 .. SIZE_BAG(w, b) - 1
       PROVE  Word(w, b, i) \in Survivors(w, m) \cup {0}
  <2> DEFINE x == Word(w, b, i)
  <2>1. b \in LiveBags(w)
    BY <1>20
  <2>2. x \in LiveBags(w) \cup {0}
    BY <1>16, <1>21, <2>1 DEF WordsAt
  <2>3. x \in StrongSubBags(w, b)
    BY <1>16, <1>21, <2>1, SubBagWords
  <2>4. CASE b \in alive \cup old
    <3>1. (StrongSubBags(w, b) \cap Y) \subseteq alive
      BY <1>6, <1>12, <1>14, <2>4
    <3> HIDE DEF x
    <3>2. x \in Survivors(w, m) \cup {0}
      BY <1>15, <1>17, <2>2, <2>3, <3>1
    <3> QED BY <3>2 DEF x
  <2>5. CASE b \notin alive \cup old
    BY <1>19, <1>20, <2>1, <2>2, <2>5
  <2> QED BY <2>4, <2>5
<1>22. ASSUME NEW b \in Survivors(w, m), TNUM_BAG(w, b) = T_WPOBJ, NEW i \in 1 .. SIZE_BAG(w, b) - 1,
              Word(w, b, i) \in LiveBags(w)
       PROVE  Word(w, b, i) \in Survivors(w, m) \cup m.halfDead
  <2> DEFINE x == Word(w, b, i)
  <2>1. b \in LiveBags(w)
    BY <1>20
  <2>3. x \in WeakSubBags(w, b)
    BY <1>16, <1>22, <2>1, SubBagWords
  <2>4. CASE b \in alive \cup old
    <3>1. (WeakSubBags(w, b) \cap Y) \subseteq weak
      BY <1>7, <2>4
    <3>2. x \in LiveBags(w)
      BY <1>22
    <3> HIDE DEF x
    <3>3. x \in Survivors(w, m) \cup m.halfDead
      BY <1>3, <1>15, <1>17, <2>3, <3>1, <3>2
    <3> QED BY <3>3 DEF x
  <2>5. CASE b \notin alive \cup old
    <3>1. i \in 0 .. SIZE_BAG(w, b) - 1
      BY <1>16, <2>1
    <3> QED BY <1>19, <1>20, <1>22, <2>1, <2>5, <3>1
  <2> QED BY <2>4, <2>5
<1>23. m.alive \subseteq Y /\ m.halfDead \subseteq Y /\ m.alive \cap m.halfDead = {}
  BY <1>3, <1>8, <1>12
<1> QED BY <1>18, <1>21, <1>22, <1>23 DEF MarksOK, Y

(* The marks hold for the workspace without the list of changed bags.      *)
LEMMA MarksKept ==
    ASSUME NEW w, NEW W, Areas(w), Tiles(w, W), NEW m, MarksOK(w, m), NEW d, Kept(w, d)
    PROVE  MarksOK(d, m) /\ Survivors(d, m) = Survivors(w, m)
<1>1. /\ d.youngBags = w.youngBags /\ LiveBags(d) = LiveBags(w)
      /\ \A x \in IdsOf(w) : d.mem[x] = w.mem[x]
      /\ \A c \in LiveBags(w) : SameBag(w, d, c)
  BY DEF Kept, SameAreas
<1>2. \A b \in LiveBags(w) : b \in IdsOf(w) /\ SIZE_BAG(w, b) \in Nat
  BY Placed
<1>3. \A b \in LiveBags(w) : IsOld(d, b) <=> IsOld(w, b)
  BY <1>1, <1>2 DEF IsOld, PTR_BAG
<1>4. Survivors(d, m) = Survivors(w, m) /\ YoungBagsOf(d) = YoungBagsOf(w)
  BY <1>1, <1>3 DEF Survivors, YoungBagsOf
<1>5. Survivors(w, m) \subseteq LiveBags(w)
  BY DEF MarksOK, Survivors, YoungBagsOf
<1>6. ASSUME NEW b \in Survivors(w, m)
      PROVE  /\ TNUM_BAG(d, b) = TNUM_BAG(w, b) /\ SIZE_BAG(d, b) = SIZE_BAG(w, b)
             /\ \A i \in 0 .. SIZE_BAG(w, b) - 1 : Word(d, b, i) = Word(w, b, i)
             /\ \A i \in 1 .. SIZE_BAG(w, b) - 1 : Word(d, b, i) = Word(w, b, i)
  <2>1. SameBag(w, d, b) /\ SIZE_BAG(w, b) \in Nat
    BY <1>1, <1>2, <1>5
  <2>2. \A i \in 1 .. SIZE_BAG(w, b) - 1 : i \in 0 .. SIZE_BAG(w, b) - 1
    BY <2>1
  <2> QED BY <2>1, <2>2 DEF SameBag
<1> QED BY <1>1, <1>4, <1>6 DEF MarksOK

-----------------------------------------------------------------------------
(* CollectBags: the sweep.                                                 *)

(* The state of the sweeper.                                               *)
SweepState == [mem : [1 .. Limit -> Int], src : Nat, dst : Nat, freeMptr : Nat, nrHalfDead : Int]

(* The bags that the sweeper has passed.                                   *)
Done(w, s) == {b \in YoungBagsOf(w) : w.mem[b] - 2 < s.src}

(* The sweeper reads at a header and writes behind it.                     *)
Behind(w, W, s) ==
    /\ s \in SweepState /\ s.src \in W
    /\ w.youngBags <= s.dst /\ s.dst <= s.src

(* What it has not passed is as it was.                                    *)
Untouched(w, s) ==
    /\ \A a \in 1 .. Limit : a >= s.src \/ (w.mptrEnd <= a /\ a < w.youngBags) => s.mem[a] = w.mem[a]
    /\ \A x \in IdsOf(w) : x \notin Done(w, s) => s.mem[x] = w.mem[x]

(* A word x of a bag becomes y.                                            *)
SweptTo(w, m, b, x, y) ==
    /\ y = x \/ (y = 0 /\ TNUM_BAG(w, b) = T_WPOBJ /\ x \in DeadIds(w) \cup m.halfDead)
    /\ TNUM_BAG(w, b) = T_WPOBJ /\ x \in DeadIds(w) => y = 0

(* A bag that was moved.                                                   *)
SlidAt(w, m, s, b) ==
    /\ w.youngBags + 2 <= s.mem[b] /\ s.mem[b] + SIZE_BAG(w, b) <= s.dst
    /\ s.mem[s.mem[b] - 2] = w.mem[w.mem[b] - 2]
    /\ s.mem[s.mem[b] - 1] = b
    /\ \A i \in 0 .. SIZE_BAG(w, b) - 1 : SweptTo(w, m, b, Word(w, b, i), s.mem[s.mem[b] + i])
Slid(w, m, s) == \A b \in Done(w, s) \cap m.alive : SlidAt(w, m, s, b)

(* The bags that were moved follow each other without a gap, in the order  *)
(* that they had.                                                          *)
Adjoin(w, m, s) ==
    /\ s.dst = w.youngBags \/ \E b \in Done(w, s) \cap m.alive : s.mem[b] - 2 = w.youngBags
    /\ \A b \in Done(w, s) \cap m.alive :
          \/ s.mem[b] + SIZE_BAG(w, b) = s.dst
          \/ \E c \in Done(w, s) \cap m.alive : s.mem[c] - 2 = s.mem[b] + SIZE_BAG(w, b)
    /\ \A b, c \in Done(w, s) \cap m.alive :
          w.mem[b] < w.mem[c] => s.mem[b] + SIZE_BAG(w, b) <= s.mem[c] - 2

(* The masterpointers of the others.                                       *)
Freed(w, m, s) == FreeIds(w) \cup ((Done(w, s) \ m.alive) \ m.halfDead)
Released(w, m, s) ==
    /\ \A b \in Done(w, s) \cap m.halfDead : s.mem[b] = w.newMarker
    /\ Chain(s.freeMptr, s.mem, Freed(w, m, s))
    /\ s.nrHalfDead = w.nrHalfDead + Cardinality(Done(w, s) \cap m.halfDead)

Sweeping(w, W, m, s) ==
    Behind(w, W, s) /\ Untouched(w, s) /\ Slid(w, m, s) /\ Adjoin(w, m, s) /\ Released(w, m, s)

(* What the sweeper may rely on.                                           *)
Sweepable(w, W, m) ==
    /\ Forgetful(w, W) /\ MarksOK(w, m)
    /\ \A b \in LiveBags(w) : LINK_BAG(w, b) = b

-----------------------------------------------------------------------------
(* A young bag, in numbers.                                                *)
LEMMA YoungPlaced ==
    ASSUME NEW w, NEW W, Areas(w), Tiles(w, W), NEW b \in YoungBagsOf(w)
    PROVE  /\ b \in LiveBags(w) /\ b \in IdsOf(w) /\ b \in Nat /\ b \in 1 .. Limit /\ b # 0 /\ b < w.mptrEnd
           /\ w.mem[b] \in Int /\ w.youngBags <= w.mem[b] - 2
           /\ SIZE_BAG(w, b) \in Nat /\ w.mem[b] + SIZE_BAG(w, b) <= w.allocBags
           /\ w.mem[b] - 2 \in W
           /\ b \notin FreeIds(w) /\ b \notin DeadIds(w)
<1>1. b \in LiveBags(w) /\ ~ IsOld(w, b)
  BY DEF YoungBagsOf
<1>2. /\ b \in IdsOf(w) /\ b \in Nat /\ b \in 1 .. Limit /\ b # 0 /\ w.mem[b] \in Int
      /\ SIZE_BAG(w, b) \in Nat /\ w.mem[b] + SIZE_BAG(w, b) <= w.allocBags /\ w.mem[b] - 2 \in W
      /\ w.oldBags + 2 <= w.mem[b]
  BY <1>1, Placed
<1>3. w.youngBags <= w.mem[b] - 2
  BY <1>1, OldOrYoung
<1>4. /\ w.mptrEnd \in Nat /\ w.oldBags \in Nat /\ w.mptrEnd <= w.oldBags /\ 1 <= w.mptrEnd
  BY AreaNumbers
<1>5. b < w.mptrEnd
  BY <1>2, <1>4 DEF IdsOf
<1>6. b \notin FreeIds(w)
  <2>1. b \in FreeIds(w) => w.mem[b] = 0 \/ w.mem[b] \in IdsOf(w)
    BY DEF FreeIds
  <2> QED BY ONLY <1>2, <1>4, <2>1 DEF IdsOf
<1>7. b \notin DeadIds(w)
  <2>1. b \in DeadIds(w) => w.mem[b] \in Markers
    BY DEF DeadIds
  <2> QED BY ONLY <1>2, <1>4, <2>1 DEF Markers
<1> QED BY <1>1, <1>2, <1>3, <1>5, <1>6, <1>7

(* What the sweeper finds where it reads.                                  *)
LEMMA SweepFinds ==
    ASSUME NEW w, NEW W, NEW m, Sweepable(w, W, m), NEW s, Behind(w, W, s), Untouched(w, s),
           s.src < w.allocBags
    PROVE  LET h == s.mem[s.src]
           IN  /\ h \in Nat /\ s.src \in Nat /\ Stride(h) \in Nat /\ Stride(h) >= 1
               /\ s.src + Stride(h) \in W /\ s.src + Stride(h) \in Nat
               /\ TypeIn(h) = T_DUMMY =>
                    \A t : t.src = s.src + Stride(h) => Done(w, t) = Done(w, s)
               /\ TypeIn(h) # T_DUMMY =>
                    \E b \in YoungBagsOf(w) \ Done(w, s) :
                       /\ s.mem[s.src + 1] = b /\ w.mem[b] = s.src + 2
                       /\ SizeIn(h) = SIZE_BAG(w, b) /\ Stride(h) = 2 + SIZE_BAG(w, b)
                       /\ TypeIn(h) = TNUM_BAG(w, b)
                       /\ \A t : t.src = s.src + Stride(h) => Done(w, t) = Done(w, s) \cup {b}
<1> DEFINE h == s.mem[s.src]
           p == s.src
<1>1. Areas(w) /\ Tiles(w, W) /\ MptrsOK(w)
  BY DEF Sweepable, Forgetful
<1>2. /\ w.mptrEnd \in Nat /\ w.oldBags \in Nat /\ w.youngBags \in Nat
      /\ w.allocBags \in Nat /\ Limit \in Nat /\ 1 <= w.mptrEnd /\ w.mptrEnd <= w.oldBags
      /\ w.oldBags <= w.youngBags /\ w.allocBags <= Limit + 1
  BY <1>1, AreaNumbers
<1>3. p \in Nat /\ s.dst \in Nat /\ p \in W /\ w.youngBags <= s.dst /\ s.dst <= p /\ p < w.allocBags
  BY DEF Behind, SweepState
<1>4. p \in 1 .. Limit
  BY ONLY <1>2, <1>3
<1>5. h = w.mem[p]
  <2>1. p >= s.src
    BY <1>3
  <2> QED BY <1>4, <2>1 DEF Untouched
<1>6. h \in Nat /\ TypeIn(h) \in 1 .. 3 /\ p + Stride(h) \in W
  BY <1>1, <1>3, <1>5 DEF Tiles
<1>7. Stride(h) \in Nat /\ Stride(h) >= 1
  BY <1>6, StrideFacts
<1>8. \A c \in W : p < c => p + Stride(h) <= c
  BY <1>1, <1>3, <1>5 DEF Tiles
<1> HIDE DEF h
<1>9. \A c \in YoungBagsOf(w) : /\ w.mem[c] - 2 \in W /\ w.mem[c] \in Int /\ c \in LiveBags(w)
  BY <1>1, YoungPlaced
<1>10. \A c \in YoungBagsOf(w) : w.mem[c] - 2 < p + Stride(h) <=> (w.mem[c] - 2 < p \/ w.mem[c] - 2 = p)
  <2> SUFFICES ASSUME NEW c \in YoungBagsOf(w)
               PROVE w.mem[c] - 2 < p + Stride(h) <=> (w.mem[c] - 2 < p \/ w.mem[c] - 2 = p)
    OBVIOUS
  <2>1. w.mem[c] - 2 \in Int /\ (p < w.mem[c] - 2 => p + Stride(h) <= w.mem[c] - 2)
    BY <1>8, <1>9
  <2> QED BY ONLY <1>3, <1>7, <2>1
<1>11. ASSUME TypeIn(h) = T_DUMMY, NEW t, t.src = p + Stride(h) PROVE Done(w, t) = Done(w, s)
  <2>1. \A c \in YoungBagsOf(w) : w.mem[c] - 2 # p
    <3> SUFFICES ASSUME NEW c \in YoungBagsOf(w), w.mem[c] - 2 = p PROVE FALSE
      OBVIOUS
    <3>1. TNUM_BAG(w, c) # T_DUMMY
      BY <1>1, <1>9 DEF Tiles
    <3>2. w.mem[w.mem[c] - 2] = h
      BY <1>5
    <3> QED BY <1>11, <3>1, <3>2 DEF TNUM_BAG
  <2> QED BY <1>10, <1>11, <2>1 DEF Done
<1>12. ASSUME TypeIn(h) # T_DUMMY
       PROVE  \E b \in YoungBagsOf(w) \ Done(w, s) :
                       /\ s.mem[p + 1] = b /\ w.mem[b] = p + 2
                       /\ SizeIn(h) = SIZE_BAG(w, b) /\ Stride(h) = 2 + SIZE_BAG(w, b)
                       /\ TypeIn(h) = TNUM_BAG(w, b)
                       /\ \A t : t.src = p + Stride(h) => Done(w, t) = Done(w, s) \cup {b}
  <2>1. PICK b \in LiveBags(w) : w.mem[b] = p + 2
    BY <1>1, <1>3, <1>5, <1>12 DEF Tiles
  <2>2. w.mem[b] - 2 = p /\ w.mem[b] - 1 = p + 1 /\ ~ (w.mem[b] <= w.youngBags)
    BY ONLY <1>2, <1>3, <2>1
  <2>3. b \in YoungBagsOf(w)
    BY <2>2 DEF YoungBagsOf, IsOld, PTR_BAG
  <2>4. b \notin Done(w, s)
    BY <1>3, <2>2 DEF Done
  <2>5. LINK_BAG(w, b) = b
    BY DEF Sweepable
  <2>6. w.mem[p + 1] = b
    BY <2>2, <2>5 DEF LINK_BAG
  <2>7. p + 1 \in 1 .. Limit /\ p + 1 >= s.src
    <3>1. w.mem[b] - 1 \in 1 .. Limit
      BY <1>1, PlacedWords
    <3> QED BY <1>3, <2>2, <3>1
  <2>8. s.mem[p + 1] = b
    BY <2>6, <2>7 DEF Untouched
  <2>9. SizeIn(h) = SIZE_BAG(w, b) /\ TypeIn(h) = TNUM_BAG(w, b)
    BY <1>5, <2>2 DEF SIZE_BAG, TNUM_BAG
  <2>10. Stride(h) = 2 + SIZE_BAG(w, b)
    BY <1>6, <1>12, <2>9, StrideFacts
  <2>11. ASSUME NEW t, t.src = p + Stride(h) PROVE Done(w, t) = Done(w, s) \cup {b}
    <3>1. \A c \in YoungBagsOf(w) : w.mem[c] - 2 = p <=> c = b
      <4> SUFFICES ASSUME NEW c \in YoungBagsOf(w), w.mem[c] - 2 = p PROVE c = b
        BY <2>2
      <4>1. w.mem[c] \in Int /\ c \in LiveBags(w)
        BY <1>9
      <4>2. w.mem[c] = p + 2
        BY ONLY <1>3, <4>1, w.mem[c] - 2 = p
      <4> QED BY <1>1, <2>1, <4>1, <4>2 DEF Tiles
    <3> QED BY <1>10, <2>3, <2>11, <3>1 DEF Done
  <2> QED BY <2>1, <2>3, <2>4, <2>8, <2>9, <2>10, <2>11
<1>13. p + Stride(h) \in Nat
  BY <1>3, <1>7
<1> QED BY <1>3, <1>6, <1>7, <1>11, <1>12, <1>13 DEF h

(* The sweeper passes a dummy or a bag that does not survive.              *)
LEMMA PassedOver ==
    ASSUME NEW w, NEW W, NEW m, Sweepable(w, W, m), NEW s, Behind(w, W, s), Untouched(w, s),
           Slid(w, m, s), Adjoin(w, m, s),
           NEW t \in SweepState, t.dst = s.dst, t.src \in W, s.src <= t.src,
           Done(w, s) \subseteq Done(w, t),
           Done(w, t) \cap m.alive = Done(w, s) \cap m.alive,
           \A a \in 1 .. Limit : a \notin Done(w, t) \ Done(w, s) => t.mem[a] = s.mem[a]
    PROVE  Behind(w, W, t) /\ Untouched(w, t) /\ Slid(w, m, t) /\ Adjoin(w, m, t)
<1> DEFINE DA == Done(w, s) \cap m.alive
<1>1. Areas(w) /\ Tiles(w, W)
  BY DEF Sweepable, Forgetful
<1>2. /\ w.mptrEnd \in Nat /\ w.oldBags \in Nat /\ w.youngBags \in Nat
      /\ w.allocBags \in Nat /\ Limit \in Nat /\ 1 <= w.mptrEnd /\ w.mptrEnd <= w.oldBags
      /\ w.oldBags <= w.youngBags /\ w.allocBags <= Limit + 1
  BY <1>1, AreaNumbers
<1>3. /\ s.src \in Nat /\ s.dst \in Nat /\ s.src \in W /\ w.youngBags <= s.dst /\ s.dst <= s.src
      /\ t.src \in Nat /\ s.src <= w.allocBags
  <2>1. W \subseteq w.oldBags .. w.allocBags
    BY <1>1 DEF Tiles
  <2> QED BY <1>2, <2>1 DEF Behind, SweepState
<1>4. Behind(w, W, t)
  BY <1>3 DEF Behind
<1>5. \A x \in Done(w, t) : x \in IdsOf(w) /\ x \in YoungBagsOf(w) /\ x \in Nat /\ x < w.mptrEnd
  BY <1>1, YoungPlaced DEF Done
<1>6. ASSUME NEW a \in 1 .. Limit, w.mptrEnd <= a PROVE t.mem[a] = s.mem[a]
  BY <1>2, <1>5, <1>6
<1>7. Untouched(w, t)
  <2>1. ASSUME NEW a \in 1 .. Limit, a >= t.src \/ (w.mptrEnd <= a /\ a < w.youngBags)
        PROVE t.mem[a] = w.mem[a]
    <3>1. a >= s.src \/ (w.mptrEnd <= a /\ a < w.youngBags)
      BY ONLY <1>3, <2>1, s.src <= t.src, a \in 1 .. Limit
    <3>2. w.mptrEnd <= a
      BY ONLY <1>2, <1>3, <3>1, a \in 1 .. Limit
    <3>3. t.mem[a] = s.mem[a] /\ s.mem[a] = w.mem[a]
      BY <1>6, <3>1, <3>2 DEF Untouched
    <3> QED BY <3>3
  <2>2. ASSUME NEW x \in IdsOf(w), x \notin Done(w, t) PROVE t.mem[x] = w.mem[x]
    <3>1. x \in 1 .. Limit
      <4>1. w.mptrEnd <= Limit + 1
        BY <1>1, AreaNumbers
      <4> QED BY ONLY <1>2, <4>1, x \in IdsOf(w) DEF IdsOf
    <3> QED BY <2>2, <3>1 DEF Untouched
  <2> QED BY <2>1, <2>2 DEF Untouched
<1>8. ASSUME NEW b \in DA PROVE t.mem[b] = s.mem[b]
  <2>1. b \in YoungBagsOf(w) /\ b \notin Done(w, t) \ Done(w, s)
    BY DEF Done
  <2>2. b \in 1 .. Limit
    BY <1>1, <2>1, YoungPlaced
  <2> QED BY <2>1, <2>2
<1>9. ASSUME NEW b \in DA PROVE SlidAt(w, m, t, b)
  <2>1. SlidAt(w, m, s, b)
    BY DEF Slid
  <2>2. w.youngBags + 2 <= s.mem[b] /\ s.mem[b] + SIZE_BAG(w, b) <= s.dst
    BY <2>1 DEF SlidAt
  <2>3. SIZE_BAG(w, b) \in Nat /\ s.mem[b] \in Int
    <3>1. b \in YoungBagsOf(w)
      BY DEF Done
    <3>2. b \in 1 .. Limit /\ SIZE_BAG(w, b) \in Nat
      BY <1>1, <3>1, YoungPlaced
    <3> QED BY <3>2 DEF Behind, SweepState
  <2>4. /\ s.mem[b] - 2 \in 1 .. Limit /\ s.mem[b] - 1 \in 1 .. Limit
        /\ w.mptrEnd <= s.mem[b] - 2 /\ w.mptrEnd <= s.mem[b] - 1
        /\ \A i \in 0 .. SIZE_BAG(w, b) - 1 : s.mem[b] + i \in 1 .. Limit /\ w.mptrEnd <= s.mem[b] + i
    BY ONLY <1>2, <1>3, <2>2, <2>3
  <2>5. /\ t.mem[s.mem[b] - 2] = s.mem[s.mem[b] - 2] /\ t.mem[s.mem[b] - 1] = s.mem[s.mem[b] - 1]
        /\ \A i \in 0 .. SIZE_BAG(w, b) - 1 : t.mem[s.mem[b] + i] = s.mem[s.mem[b] + i]
    BY <1>6, <2>4
  <2> QED BY <1>8, <2>1, <2>5 DEF SlidAt
<1>10. Slid(w, m, t)
  BY <1>9 DEF Slid
<1>11. Adjoin(w, m, t)
  <2>1. Done(w, t) \cap m.alive = DA
    OBVIOUS
  <2>2. /\ s.dst = w.youngBags \/ \E b \in DA : s.mem[b] - 2 = w.youngBags
        /\ \A b \in DA : \/ s.mem[b] + SIZE_BAG(w, b) = s.dst
                         \/ \E c \in DA : s.mem[c] - 2 = s.mem[b] + SIZE_BAG(w, b)
        /\ \A b, c \in DA : w.mem[b] < w.mem[c] => s.mem[b] + SIZE_BAG(w, b) <= s.mem[c] - 2
    BY DEF Adjoin
  <2> HIDE DEF DA
  <2> QED BY <1>8, <2>1, <2>2 DEF Adjoin
<1> QED BY <1>4, <1>7, <1>10, <1>11

-----------------------------------------------------------------------------
(* The state after a bag b of n words that survives.                       *)
SlideWord(s, w, b, n, h, a) ==
    IF a = b THEN s.dst + 2
    ELSE IF a \in s.dst .. s.dst + 1 THEN s.mem[s.src + (a - s.dst)]
    ELSE IF a \in s.dst + 2 .. s.dst + 1 + n
         THEN IF TypeIn(h) = T_WPOBJ /\ IsWeakDeadBag(s.mem, w.mptrEnd, s.mem[s.src + (a - s.dst)])
              THEN 0 ELSE s.mem[s.src + (a - s.dst)]
    ELSE s.mem[a]

SlidTo(s, w, b, n, h, t) ==
    /\ t \in SweepState /\ t.src = s.src + 2 + n /\ t.dst = s.dst + 2 + n
    /\ t.freeMptr = s.freeMptr /\ t.nrHalfDead = s.nrHalfDead
    /\ \A a \in 1 .. Limit : t.mem[a] = SlideWord(s, w, b, n, h, a)

(* They are those of SweepBody.                                            *)
LEMMA SlideFields ==
    ASSUME NEW s \in SweepState, NEW w, NEW m, NEW b \in Nat, NEW n \in Nat, NEW h,
           h = s.mem[s.src], b = s.mem[s.src + 1], n = SizeIn(h),
           TypeIn(h) # T_DUMMY, b \in m.alive, s.dst \in Nat, s.src \in Nat, s.dst >= 1,
           s.dst <= s.src, s.src + 2 + n <= Limit + 1
    PROVE  SlidTo(s, w, b, n, h, SweepBody(s, m, w.mptrEnd, w.newMarker))
<1> DEFINE mm == [a \in DOMAIN s.mem |-> SlideWord(s, w, b, n, h, a)]
           t == SweepBody(s, m, w.mptrEnd, w.newMarker)
<1>1. t = [s EXCEPT !.src = s.src + 2 + n, !.dst = @ + 2 + n, !.mem = mm]
  BY DEF SweepBody, SlideWord, HeaderWords
<1>2. s.mem \in [1 .. Limit -> Int] /\ DOMAIN s.mem = 1 .. Limit
  BY DEF SweepState
<1> HIDE DEF t
<1>3. ASSUME NEW a \in 1 .. Limit PROVE SlideWord(s, w, b, n, h, a) \in Int
  <2>1. a \in s.dst .. s.dst + 1 + n => s.src + (a - s.dst) \in 1 .. Limit
    <3>1. Limit \in Nat
      BY LayoutAssumption
    <3> QED BY ONLY <3>1, s.dst \in Nat, s.src \in Nat, s.dst >= 1, n \in Nat,
           s.dst <= s.src, s.src + 2 + n <= Limit + 1, a \in 1 .. Limit
  <2>2. /\ a \in s.dst .. s.dst + 1 => a \in s.dst .. s.dst + 1 + n
        /\ a \in s.dst + 2 .. s.dst + 1 + n => a \in s.dst .. s.dst + 1 + n
    BY ONLY s.dst \in Nat, n \in Nat, a \in 1 .. Limit
  <2> DEFINE y == s.mem[s.src + (a - s.dst)]
  <2>3. a \in s.dst .. s.dst + 1 + n => y \in Int
    BY <1>2, <2>1
  <2>4. s.mem[a] \in Int /\ s.dst + 2 \in Int /\ 0 \in Int
    <3>1. s.mem[a] \in Int
      BY ONLY <1>2, a \in 1 .. Limit
    <3> QED BY ONLY <3>1, s.dst \in Nat
  <2> HIDE DEF y
  <2>5. SlideWord(s, w, b, n, h, a) \in {s.dst + 2, s.mem[a]} \/ (a \in s.dst .. s.dst + 1 + n /\ SlideWord(s, w, b, n, h, a) \in {0, y})
    BY ONLY <2>2, Zenon DEF SlideWord, y
  <2> QED BY ONLY <2>3, <2>4, <2>5
<1>4. mm \in [1 .. Limit -> Int] /\ \A a \in 1 .. Limit : mm[a] = SlideWord(s, w, b, n, h, a)
  BY <1>2, <1>3
<1> HIDE DEF mm
<1>5. t \in SweepState
  <2>1. s.src + 2 + n \in Nat /\ s.dst + 2 + n \in Nat
    BY ONLY s.src \in Nat, s.dst \in Nat, n \in Nat
  <2> QED BY ONLY <1>1, <1>4, <2>1, s \in SweepState DEF SweepState
<1>6. t.src = s.src + 2 + n /\ t.dst = s.dst + 2 + n /\ t.freeMptr = s.freeMptr /\ t.nrHalfDead = s.nrHalfDead
      /\ t.mem = mm
  BY ONLY <1>1, s \in SweepState DEF SweepState
<1>7. SlidTo(s, w, b, n, h, t)
  BY ONLY <1>4, <1>5, <1>6 DEF SlidTo
<1> QED BY ONLY <1>7 DEF t

(* The dead entries that the sweeper finds when it copies a bag.           *)
LEMMA DeadSeen ==
    ASSUME NEW w, NEW W, NEW m, Sweepable(w, W, m), NEW s, Sweeping(w, W, m, s), NEW x
    PROVE  /\ IsWeakDeadBag(s.mem, w.mptrEnd, x) => x \in DeadIds(w) \cup m.halfDead
           /\ x \in DeadIds(w) => IsWeakDeadBag(s.mem, w.mptrEnd, x)
<1>1. Areas(w) /\ Tiles(w, W)
  BY DEF Sweepable, Forgetful
<1>2. /\ Behind(w, W, s) /\ Untouched(w, s) /\ Slid(w, m, s) /\ Released(w, m, s)
  BY DEF Sweeping
<1>3. w.youngBags \in Nat /\ w.mptrEnd \in Nat
  BY <1>1, AreaNumbers
<1>4. ASSUME NEW y \in IdsOf(w), y \notin Done(w, s) PROVE s.mem[y] = w.mem[y]
  BY <1>2, <1>4 DEF Untouched
<1>5. ASSUME x \in DeadIds(w) PROVE IsWeakDeadBag(s.mem, w.mptrEnd, x)
  <2>1. x \in IdsOf(w) /\ w.mem[x] \in Markers
    BY <1>5 DEF DeadIds
  <2>2. x \notin Done(w, s)
    <3>1. \A b \in YoungBagsOf(w) : b \notin DeadIds(w)
      BY <1>1, YoungPlaced
    <3> QED BY <1>5, <3>1 DEF Done
  <2> QED BY <1>4, <2>1, <2>2 DEF IsWeakDeadBag, IdsOf
<1>6. ASSUME IsWeakDeadBag(s.mem, w.mptrEnd, x) PROVE x \in DeadIds(w) \cup m.halfDead
  <2>1. x \in IdsOf(w) /\ s.mem[x] \in Markers
    BY <1>6 DEF IsWeakDeadBag, IdsOf
  <2>2. CASE x \notin Done(w, s)
    BY <1>4, <2>1, <2>2 DEF DeadIds
  <2>3. CASE x \in Done(w, s) /\ x \in m.alive
    <3>1. w.youngBags + 2 <= s.mem[x]
      BY <1>2, <2>3 DEF Slid, SlidAt
    <3> QED BY ONLY <1>3, <2>1, <3>1 DEF Markers
  <2>4. CASE x \in Done(w, s) /\ x \notin m.alive /\ x \notin m.halfDead
    <3>1. x \in Freed(w, m, s)
      BY <2>4 DEF Freed
    <3>2. s.mem[x] \in Freed(w, m, s) \cup {0}
      BY <1>2, <3>1 DEF Released, Chain
    <3>3. \A y \in Freed(w, m, s) : y \in IdsOf(w)
      <4>1. \A b \in YoungBagsOf(w) : b \in IdsOf(w)
        BY <1>1, YoungPlaced
      <4> QED BY <4>1 DEF Freed, FreeIds, Done
    <3> QED BY <2>1, <3>2, <3>3 DEF Markers, IdsOf
  <2> QED BY <2>2, <2>3, <2>4
<1> QED BY <1>5, <1>6

(* The sweeper moves a bag that survives.                                  *)
LEMMA MovedOver ==
    ASSUME NEW w, NEW W, NEW m, Sweepable(w, W, m), NEW s, Sweeping(w, W, m, s),
           s.src < w.allocBags, NEW b \in YoungBagsOf(w) \ Done(w, s), b \in m.alive,
           s.mem[s.src + 1] = b, w.mem[b] = s.src + 2,
           NEW h, h = s.mem[s.src], TypeIn(h) = TNUM_BAG(w, b),
           NEW n \in Nat, n = SIZE_BAG(w, b), s.src + (2 + n) \in W,
           NEW t, SlidTo(s, w, b, n, h, t), Done(w, t) = Done(w, s) \cup {b}
    PROVE  Sweeping(w, W, m, t)
<1> DEFINE D == Done(w, s) \cap m.alive
<1>1. Areas(w) /\ Tiles(w, W)
  BY DEF Sweepable, Forgetful
<1>2. /\ Behind(w, W, s) /\ Untouched(w, s) /\ Slid(w, m, s) /\ Adjoin(w, m, s) /\ Released(w, m, s)
  BY DEF Sweeping
<1>3. /\ w.mptrEnd \in Nat /\ w.oldBags \in Nat /\ w.youngBags \in Nat
      /\ w.allocBags \in Nat /\ Limit \in Nat /\ 1 <= w.mptrEnd /\ w.mptrEnd <= w.oldBags
      /\ w.oldBags <= w.youngBags /\ w.allocBags <= Limit + 1 /\ w.mptrEnd <= Limit + 1
  BY <1>1, AreaNumbers
<1>4. /\ s.src \in Nat /\ s.dst \in Nat /\ w.youngBags <= s.dst /\ s.dst <= s.src
      /\ s.src + (2 + n) <= w.allocBags
  <2>1. W \subseteq w.oldBags .. w.allocBags
    BY <1>1 DEF Tiles
  <2>2. s.src + (2 + n) <= w.allocBags
    <3>1. s.src + (2 + n) \in w.oldBags .. w.allocBags
      BY ONLY <2>1, s.src + (2 + n) \in W
    <3> QED BY ONLY <1>3, <3>1
  <2> QED BY <1>2, <2>2 DEF Behind, SweepState
<1>5. /\ t \in SweepState /\ t.src = s.src + 2 + n /\ t.dst = s.dst + 2 + n
      /\ t.freeMptr = s.freeMptr /\ t.nrHalfDead = s.nrHalfDead
      /\ \A a \in 1 .. Limit : t.mem[a] = SlideWord(s, w, b, n, h, a)
  BY DEF SlidTo
<1>6. b \in Nat /\ b \in 1 .. Limit /\ b < w.mptrEnd /\ b \in IdsOf(w) /\ b \in LiveBags(w)
  BY <1>1, YoungPlaced
<1>7. Behind(w, W, t)
  <2>1. t.src = s.src + (2 + n) /\ w.youngBags <= t.dst /\ t.dst <= t.src
    BY ONLY <1>3, <1>4, <1>5, n \in Nat
  <2> QED BY <1>5, <2>1 DEF Behind
<1>8. ASSUME NEW a \in 1 .. Limit, a # b, a < s.dst \/ a >= t.src PROVE t.mem[a] = s.mem[a]
  <2>1. a \notin s.dst .. s.dst + 1 /\ a \notin s.dst + 2 .. s.dst + 1 + n
    BY ONLY <1>4, <1>5, <1>8, n \in Nat
  <2> QED BY <1>5, <1>8, <2>1 DEF SlideWord
<1>9. t.mem[b] = s.dst + 2
  BY <1>5, <1>6 DEF SlideWord
<1>10. Untouched(w, t)
  <2>1. ASSUME NEW a \in 1 .. Limit, a >= t.src \/ (w.mptrEnd <= a /\ a < w.youngBags)
        PROVE t.mem[a] = w.mem[a]
    <3>1. /\ a # b /\ (a < s.dst \/ a >= t.src)
          /\ a >= s.src \/ (w.mptrEnd <= a /\ a < w.youngBags)
      BY ONLY <1>3, <1>4, <1>5, <1>6, <2>1, n \in Nat, a \in 1 .. Limit
    <3> QED BY <1>2, <1>8, <3>1 DEF Untouched
  <2>2. ASSUME NEW x \in IdsOf(w), x \notin Done(w, t) PROVE t.mem[x] = w.mem[x]
    <3>1. x \in 1 .. Limit /\ x < s.dst
      BY ONLY <1>3, <1>4, x \in IdsOf(w) DEF IdsOf
    <3>2. x # b /\ x \notin Done(w, s)
      BY <2>2
    <3> QED BY <1>2, <1>8, <3>1, <3>2 DEF Untouched
  <2> QED BY <2>1, <2>2 DEF Untouched
<1>11. Done(w, t) \cap m.alive = D \cup {b}
  OBVIOUS
<1>12. ASSUME NEW c \in D
       PROVE  /\ SlidAt(w, m, s, c) /\ t.mem[c] = s.mem[c] /\ c # b /\ c \in LiveBags(w)
              /\ SIZE_BAG(w, c) \in Nat /\ s.mem[c] \in Int /\ w.mem[c] \in Int
              /\ w.youngBags + 2 <= s.mem[c] /\ s.mem[c] + SIZE_BAG(w, c) <= s.dst
              /\ w.mem[c] - 2 < s.src
  <2>1. SlidAt(w, m, s, c)
    BY <1>2 DEF Slid
  <2>2. c \in YoungBagsOf(w) /\ c # b /\ w.mem[c] - 2 < s.src
    BY DEF Done
  <2>3. c \in 1 .. Limit /\ c \in Nat /\ c < w.mptrEnd /\ SIZE_BAG(w, c) \in Nat /\ w.mem[c] \in Int /\ c \in LiveBags(w)
    BY <1>1, <2>2, YoungPlaced
  <2>4. c < s.dst
    BY ONLY <1>3, <1>4, <2>3
  <2>5. t.mem[c] = s.mem[c]
    BY <1>8, <2>2, <2>3, <2>4
  <2>6. s.mem[c] \in Int
    BY <1>2, <2>3 DEF Behind, SweepState
  <2> QED BY <2>1, <2>2, <2>3, <2>5, <2>6 DEF SlidAt
<1>13. ASSUME NEW c \in D PROVE SlidAt(w, m, t, c)
  <2>1. /\ SlidAt(w, m, s, c) /\ t.mem[c] = s.mem[c]
        /\ SIZE_BAG(w, c) \in Nat /\ s.mem[c] \in Int
        /\ w.youngBags + 2 <= s.mem[c] /\ s.mem[c] + SIZE_BAG(w, c) <= s.dst
    BY <1>12
  <2>2. /\ s.mem[c] - 2 \in 1 .. Limit /\ s.mem[c] - 2 < s.dst /\ s.mem[c] - 2 # b
        /\ s.mem[c] - 1 \in 1 .. Limit /\ s.mem[c] - 1 < s.dst /\ s.mem[c] - 1 # b
        /\ s.mem[c] + SIZE_BAG(w, c) <= t.dst
    BY ONLY <1>3, <1>4, <1>5, <1>6, <2>1, n \in Nat
  <2>3. ASSUME NEW i \in 0 .. SIZE_BAG(w, c) - 1
        PROVE  s.mem[c] + i \in 1 .. Limit /\ s.mem[c] + i < s.dst /\ s.mem[c] + i # b
    BY ONLY <1>3, <1>4, <1>6, <2>1, i \in 0 .. SIZE_BAG(w, c) - 1, n \in Nat
  <2>4. /\ t.mem[s.mem[c] - 2] = s.mem[s.mem[c] - 2] /\ t.mem[s.mem[c] - 1] = s.mem[s.mem[c] - 1]
        /\ \A i \in 0 .. SIZE_BAG(w, c) - 1 : t.mem[s.mem[c] + i] = s.mem[s.mem[c] + i]
    BY <1>8, <2>2, <2>3
  <2> QED BY <2>1, <2>2, <2>4 DEF SlidAt
<1>14. SlidAt(w, m, t, b)
  <2> DEFINE q == s.dst
  <2>1. w.youngBags + 2 <= q + 2 /\ q + 2 + n <= t.dst /\ q \in Nat
    BY ONLY <1>3, <1>4, <1>5, n \in Nat
  <2>2. ASSUME NEW a \in q .. q + 1 + n
        PROVE  /\ a \in 1 .. Limit /\ a # b
               /\ s.src + (a - q) \in 1 .. Limit /\ s.src + (a - q) >= s.src
    BY ONLY <1>3, <1>4, <1>6, <2>2, n \in Nat
  <2>3. ASSUME NEW a \in q .. q + 1 + n PROVE s.mem[s.src + (a - q)] = w.mem[s.src + (a - q)]
    BY <1>2, <2>2 DEF Untouched
  <2>4. /\ q \in q .. q + 1 + n /\ q + 1 \in q .. q + 1 + n /\ q \in q .. q + 1 /\ q + 1 \in q .. q + 1
        /\ s.src + (q - q) = s.src /\ s.src + (q + 1 - q) = s.src + 1
        /\ w.mem[b] - 2 = s.src /\ q + 2 - 2 = q /\ q + 2 - 1 = q + 1
    BY ONLY <1>4, w.mem[b] = s.src + 2, n \in Nat
  <2>5. t.mem[q] = s.mem[s.src + (q - q)] /\ t.mem[q + 1] = s.mem[s.src + (q + 1 - q)]
    <3>1. q \in 1 .. Limit /\ q # b /\ q + 1 \in 1 .. Limit /\ q + 1 # b
      BY <2>2, <2>4
    <3> QED BY <1>5, <2>4, <3>1 DEF SlideWord
  <2>6. t.mem[q] = w.mem[w.mem[b] - 2] /\ t.mem[q + 1] = b
    BY <2>3, <2>4, <2>5
  <2>7. ASSUME NEW i \in 0 .. SIZE_BAG(w, b) - 1
        PROVE  SweptTo(w, m, b, Word(w, b, i), t.mem[q + 2 + i])
    <3> DEFINE a == q + 2 + i
               x == Word(w, b, i)
    <3>1. /\ a \in q .. q + 1 + n /\ a \in q + 2 .. q + 1 + n /\ a \notin q .. q + 1
          /\ s.src + (a - q) = w.mem[b] + i
      BY ONLY <1>4, w.mem[b] = s.src + 2, n \in Nat, n = SIZE_BAG(w, b), i \in 0 .. SIZE_BAG(w, b) - 1
    <3> HIDE DEF a
    <3>2. s.mem[s.src + (a - q)] = x
      BY <2>3, <3>1 DEF Word
    <3>3. a \in 1 .. Limit /\ a # b
      BY <2>2, <3>1
    <3>4. t.mem[a] = IF TypeIn(h) = T_WPOBJ /\ IsWeakDeadBag(s.mem, w.mptrEnd, x) THEN 0 ELSE x
      BY <1>5, <3>1, <3>2, <3>3 DEF SlideWord
    <3> HIDE DEF x
    <3>5. /\ IsWeakDeadBag(s.mem, w.mptrEnd, x) => x \in DeadIds(w) \cup m.halfDead
          /\ x \in DeadIds(w) => IsWeakDeadBag(s.mem, w.mptrEnd, x)
      BY DeadSeen
    <3>6. SweptTo(w, m, b, x, t.mem[a])
      BY <3>4, <3>5 DEF SweptTo
    <3> QED BY <3>6 DEF a, x
  <2> QED BY <1>9, <2>1, <2>4, <2>6, <2>7 DEF SlidAt
<1>15. Slid(w, m, t)
  BY <1>11, <1>13, <1>14 DEF Slid
<1>16. Adjoin(w, m, t)
  <2>1. /\ s.dst = w.youngBags \/ \E c \in D : s.mem[c] - 2 = w.youngBags
        /\ \A c \in D : \/ s.mem[c] + SIZE_BAG(w, c) = s.dst
                        \/ \E e \in D : s.mem[e] - 2 = s.mem[c] + SIZE_BAG(w, c)
        /\ \A c, e \in D : w.mem[c] < w.mem[e] => s.mem[c] + SIZE_BAG(w, c) <= s.mem[e] - 2
    BY <1>2 DEF Adjoin
  <2>2. \A c \in D : /\ t.mem[c] = s.mem[c] /\ SIZE_BAG(w, c) \in Nat /\ s.mem[c] \in Int
                     /\ s.mem[c] + SIZE_BAG(w, c) <= s.dst /\ w.mem[c] \in Int /\ w.mem[c] - 2 < s.src
    BY <1>12
  <2> HIDE DEF D
  <2>3. t.mem[b] - 2 = s.dst /\ t.mem[b] + SIZE_BAG(w, b) = t.dst
    BY ONLY <1>4, <1>5, <1>9, n = SIZE_BAG(w, b), n \in Nat
  <2>4. t.dst = w.youngBags \/ \E c \in D \cup {b} : t.mem[c] - 2 = w.youngBags
    BY <2>1, <2>2, <2>3
  <2>5. ASSUME NEW c \in D \cup {b}
        PROVE  \/ t.mem[c] + SIZE_BAG(w, c) = t.dst
               \/ \E e \in D \cup {b} : t.mem[e] - 2 = t.mem[c] + SIZE_BAG(w, c)
    <3>1. CASE c = b
      BY <2>3, <3>1
    <3>2. CASE c \in D /\ s.mem[c] + SIZE_BAG(w, c) = s.dst
      BY <2>2, <2>3, <3>2
    <3>3. CASE c \in D /\ s.mem[c] + SIZE_BAG(w, c) # s.dst
      <4>1. PICK e \in D : s.mem[e] - 2 = s.mem[c] + SIZE_BAG(w, c)
        BY <2>1, <3>3
      <4>2. t.mem[e] - 2 = t.mem[c] + SIZE_BAG(w, c)
        BY <2>2, <3>3, <4>1
      <4> QED BY <4>2
    <3> QED BY <3>1, <3>2, <3>3
  <2>6. ASSUME NEW c \in D \cup {b}, NEW e \in D \cup {b}, w.mem[c] < w.mem[e]
        PROVE  t.mem[c] + SIZE_BAG(w, c) <= t.mem[e] - 2
    <3>1. CASE c \in D /\ e \in D
      BY <2>1, <2>2, <2>6, <3>1
    <3>2. CASE c \in D /\ e = b
      BY <2>2, <2>3, <3>2
    <3>3. CASE c = b
      <4>1. e \in D
        <5>1. e # c
          <6>1. ~ (w.mem[b] < w.mem[b])
            BY ONLY <1>4, w.mem[b] = s.src + 2
          <6> QED BY <2>6, <3>3, <6>1
        <5> QED BY <3>3, <5>1
      <4>2. w.mem[e] \in Int /\ w.mem[e] - 2 < s.src
        BY <2>2, <4>1
      <4>3. w.mem[b] < w.mem[e]
        BY <2>6, <3>3
      <4> QED BY ONLY <1>4, <4>2, <4>3, w.mem[b] = s.src + 2
    <3> QED BY <3>1, <3>2, <3>3
  <2> QED BY <1>11, <2>4, <2>5, <2>6 DEF Adjoin
<1>17. Released(w, m, t)
  <2>1. b \notin m.halfDead
    BY DEF Sweepable, MarksOK
  <2>2. Done(w, t) \cap m.halfDead = Done(w, s) \cap m.halfDead /\ Freed(w, m, t) = Freed(w, m, s)
    BY <2>1 DEF Freed
  <2>3. \A x \in FreeIds(w) \cup Done(w, s) : x \in IdsOf(w) /\ x # b
    <3>1. \A c \in YoungBagsOf(w) : c \in IdsOf(w) /\ c \notin FreeIds(w)
      BY <1>1, YoungPlaced
    <3> QED BY <3>1 DEF FreeIds, Done
  <2>4. \A x \in FreeIds(w) \cup Done(w, s) : t.mem[x] = s.mem[x]
    <3> SUFFICES ASSUME NEW x \in FreeIds(w) \cup Done(w, s) PROVE t.mem[x] = s.mem[x]
      OBVIOUS
    <3>1. x \in IdsOf(w) /\ x # b
      BY <2>3
    <3>2. x \in 1 .. Limit /\ x < s.dst
      BY ONLY <1>3, <1>4, <3>1 DEF IdsOf
    <3> QED BY <1>8, <3>1, <3>2
  <2>5. Chain(s.freeMptr, s.mem, Freed(w, m, s)) /\ \A x \in Freed(w, m, s) : t.mem[x] = s.mem[x]
    BY <1>2, <2>4 DEF Released, Freed
  <2>6. Chain(t.freeMptr, t.mem, Freed(w, m, t))
    BY <1>5, <2>2, <2>5, ChainSame
  <2> QED BY <1>2, <1>5, <2>2, <2>4, <2>6 DEF Released
<1> QED BY <1>7, <1>10, <1>15, <1>16, <1>17 DEF Sweeping

(* The states after the other bodies.                                      *)
Skipped(s, n) == [s EXCEPT !.src = n]
HalfDied(s, n, b, x) == [s EXCEPT !.src = n, !.mem[b] = x, !.nrHalfDead = @ + 1]
Died(s, n, b) == [s EXCEPT !.src = n, !.mem[b] = s.freeMptr, !.freeMptr = b]

SamePlace(s, n, t) == t \in SweepState /\ t.src = n /\ t.dst = s.dst
SameBut(s, b, t) == \A a \in 1 .. Limit : a # b => t.mem[a] = s.mem[a]

(* Their fields: a dummy.                                                  *)
LEMMA SkippedFields ==
    ASSUME NEW s \in SweepState, NEW n \in Nat
    PROVE  /\ SamePlace(s, n, Skipped(s, n)) /\ Skipped(s, n).mem = s.mem
           /\ Skipped(s, n).freeMptr = s.freeMptr /\ Skipped(s, n).nrHalfDead = s.nrHalfDead
BY DEF SweepState, Skipped, SamePlace

(* A bag that only weak pointers name.                                     *)
LEMMA HalfDiedFields ==
    ASSUME NEW s \in SweepState, NEW n \in Nat, NEW b \in 1 .. Limit, NEW x \in Int
    PROVE  /\ SamePlace(s, n, HalfDied(s, n, b, x)) /\ SameBut(s, b, HalfDied(s, n, b, x))
           /\ HalfDied(s, n, b, x).mem[b] = x
           /\ HalfDied(s, n, b, x).freeMptr = s.freeMptr
           /\ HalfDied(s, n, b, x).nrHalfDead = s.nrHalfDead + 1
<1> DEFINE mm == [s.mem EXCEPT ![b] = x]
           t == HalfDied(s, n, b, x)
<1>1. t = [s EXCEPT !.src = n, !.mem = mm, !.nrHalfDead = s.nrHalfDead + 1]
  BY DEF HalfDied, SweepState
<1>2. mm \in [1 .. Limit -> Int] /\ mm[b] = x /\ \A c \in 1 .. Limit : c # b => mm[c] = s.mem[c]
  BY Poked DEF SweepState
<1> HIDE DEF mm, t
<1>3. t \in SweepState
  <2>1. mm \in [1 .. Limit -> Int]
    BY <1>2
  <2>2. s.nrHalfDead + 1 \in Int
    BY DEF SweepState
  <2> QED BY ONLY <1>1, <2>1, <2>2, s \in SweepState, n \in Nat DEF SweepState
<1>4. t.src = n /\ t.mem = mm /\ t.dst = s.dst /\ t.freeMptr = s.freeMptr /\ t.nrHalfDead = s.nrHalfDead + 1
  BY ONLY <1>1, s \in SweepState DEF SweepState
<1>5. /\ SamePlace(s, n, t) /\ SameBut(s, b, t) /\ t.mem[b] = x
      /\ t.freeMptr = s.freeMptr /\ t.nrHalfDead = s.nrHalfDead + 1
  BY ONLY <1>2, <1>3, <1>4 DEF SamePlace, SameBut
<1> QED BY ONLY <1>5 DEF t

(* A bag that nothing names.                                               *)
LEMMA DiedFields ==
    ASSUME NEW s \in SweepState, NEW n \in Nat, NEW b \in 1 .. Limit
    PROVE  /\ SamePlace(s, n, Died(s, n, b)) /\ SameBut(s, b, Died(s, n, b))
           /\ Died(s, n, b).mem[b] = s.freeMptr
           /\ Died(s, n, b).freeMptr = b
           /\ Died(s, n, b).nrHalfDead = s.nrHalfDead
<1> DEFINE mm == [s.mem EXCEPT ![b] = s.freeMptr]
           t == Died(s, n, b)
<1>1. t = [s EXCEPT !.src = n, !.mem = mm, !.freeMptr = b]
  BY DEF Died, SweepState
<1>2. mm \in [1 .. Limit -> Int] /\ mm[b] = s.freeMptr /\ \A c \in 1 .. Limit : c # b => mm[c] = s.mem[c]
  <2>1. s.mem \in [1 .. Limit -> Int] /\ s.freeMptr \in Int
    BY DEF SweepState
  <2> QED BY <2>1, Poked
<1> HIDE DEF mm, t
<1>3. t \in SweepState
  <2>1. mm \in [1 .. Limit -> Int]
    BY <1>2
  <2>2. b \in Nat
    OBVIOUS
  <2> QED BY ONLY <1>1, <2>1, <2>2, s \in SweepState, n \in Nat DEF SweepState
<1>4. t.src = n /\ t.mem = mm /\ t.dst = s.dst /\ t.freeMptr = b /\ t.nrHalfDead = s.nrHalfDead
  BY ONLY <1>1, s \in SweepState DEF SweepState
<1>5. /\ SamePlace(s, n, t) /\ SameBut(s, b, t) /\ t.mem[b] = s.freeMptr
      /\ t.freeMptr = b /\ t.nrHalfDead = s.nrHalfDead
  BY ONLY <1>2, <1>3, <1>4 DEF SamePlace, SameBut
<1> QED BY ONLY <1>5 DEF t

-----------------------------------------------------------------------------
(* One body of the sweeper.                                                *)
LEMMA SweepBodySound ==
    ASSUME NEW w, NEW W, NEW m, Sweepable(w, W, m), NEW s, Sweeping(w, W, m, s),
           s.src < w.allocBags,
           NEW t, t = SweepBody(s, m, w.mptrEnd, w.newMarker)
    PROVE  Sweeping(w, W, m, t) /\ t.src > s.src
<1> DEFINE h == s.mem[s.src]
<1>1. Areas(w) /\ Tiles(w, W)
  BY DEF Sweepable, Forgetful
<1>2. /\ Behind(w, W, s) /\ Untouched(w, s) /\ Slid(w, m, s) /\ Adjoin(w, m, s) /\ Released(w, m, s)
  BY DEF Sweeping
<1>3. /\ s \in SweepState /\ s.src \in Nat /\ s.dst \in Nat /\ w.youngBags <= s.dst /\ s.dst <= s.src
      /\ s.nrHalfDead \in Int
  BY <1>2 DEF Behind, SweepState
<1>4. /\ h \in Nat /\ s.src \in Nat /\ Stride(h) \in Nat /\ Stride(h) >= 1
      /\ s.src + Stride(h) \in W /\ s.src + Stride(h) \in Nat
      /\ TypeIn(h) = T_DUMMY =>
           \A r : r.src = s.src + Stride(h) => Done(w, r) = Done(w, s)
      /\ TypeIn(h) # T_DUMMY =>
           \E b \in YoungBagsOf(w) \ Done(w, s) :
              /\ s.mem[s.src + 1] = b /\ w.mem[b] = s.src + 2
              /\ SizeIn(h) = SIZE_BAG(w, b) /\ Stride(h) = 2 + SIZE_BAG(w, b)
              /\ TypeIn(h) = TNUM_BAG(w, b)
              /\ \A r : r.src = s.src + Stride(h) => Done(w, r) = Done(w, s) \cup {b}
  BY <1>2, SweepFinds
<1> HIDE DEF h
<1>5. s.src + Stride(h) > s.src /\ s.src <= s.src + Stride(h)
  BY ONLY <1>4
<1>6. CASE TypeIn(h) = T_DUMMY
  <2>1. t = Skipped(s, s.src + Stride(h))
    <3>1. CASE FlagsIn(h) = 1
      <4>1. Stride(h) = 1
        BY <1>6, <3>1 DEF Stride
      <4>2. t = Skipped(s, s.src + 1)
        BY <1>3, <1>6, <3>1 DEF SweepBody, Skipped, h, SweepState
      <4> QED BY <4>1, <4>2
    <3>2. CASE FlagsIn(h) # 1
      <4>1. Stride(h) = 1 + SizeIn(h)
        BY <1>6, <3>2 DEF Stride
      <4>2. t = Skipped(s, s.src + 1 + SizeIn(h))
        BY <1>3, <1>6, <3>2 DEF SweepBody, Skipped, h, SweepState
      <4>3. SizeIn(h) \in Nat
        BY <1>4, StrideFacts
      <4>4. s.src + (1 + SizeIn(h)) = s.src + 1 + SizeIn(h)
        BY ONLY <1>3, <4>3
      <4> QED BY <4>1, <4>2, <4>4
    <3> QED BY <3>1, <3>2
  <2>2. /\ SamePlace(s, s.src + Stride(h), t) /\ t.mem = s.mem
        /\ t.freeMptr = s.freeMptr /\ t.nrHalfDead = s.nrHalfDead
    BY <1>3, <1>4, <2>1, SkippedFields
  <2>3. t \in SweepState /\ t.src = s.src + Stride(h) /\ t.dst = s.dst
    BY <2>2 DEF SamePlace
  <2>4. Done(w, t) = Done(w, s)
    BY <1>4, <1>6, <2>3
  <2>5. Behind(w, W, t) /\ Untouched(w, t) /\ Slid(w, m, t) /\ Adjoin(w, m, t)
    BY <1>2, <1>4, <1>5, <2>2, <2>3, <2>4, PassedOver
  <2>6. Released(w, m, t)
    BY <1>2, <2>2, <2>4 DEF Released, Freed
  <2> QED BY <1>5, <2>3, <2>5, <2>6 DEF Sweeping
<1>7. CASE TypeIn(h) # T_DUMMY
  <2>1. PICK b \in YoungBagsOf(w) \ Done(w, s) :
              /\ s.mem[s.src + 1] = b /\ w.mem[b] = s.src + 2
              /\ SizeIn(h) = SIZE_BAG(w, b) /\ Stride(h) = 2 + SIZE_BAG(w, b)
              /\ TypeIn(h) = TNUM_BAG(w, b)
              /\ \A r : r.src = s.src + Stride(h) => Done(w, r) = Done(w, s) \cup {b}
    BY <1>4, <1>7
  <2> DEFINE n == SIZE_BAG(w, b)
             k == s.src + Stride(h)
  <2>2. /\ b \in Nat /\ b \in 1 .. Limit /\ b # 0 /\ n \in Nat /\ b \notin FreeIds(w)
        /\ w.mem[b] + n <= w.allocBags
    BY <1>1, YoungPlaced
  <2>3. k = s.src + 2 + n /\ k = s.src + (2 + n)
    BY ONLY <1>3, <2>1, <2>2
  <2>4. b \notin Freed(w, m, s)
    BY <2>1, <2>2 DEF Freed
  <2>5. Chain(s.freeMptr, s.mem, Freed(w, m, s))
    BY <1>2 DEF Released
  <2>6. Freed(w, m, s) \subseteq 1 .. Limit
    <3>1. \A c \in YoungBagsOf(w) : c \in 1 .. Limit
      BY <1>1, YoungPlaced
    <3>2. FreeIds(w) \subseteq 1 .. Limit
      <4>1. w.mptrEnd \in Nat /\ Limit \in Nat /\ w.mptrEnd <= Limit + 1
        BY <1>1, AreaNumbers
      <4> QED BY <4>1 DEF FreeIds, IdsOf
    <3> QED BY <3>1, <3>2 DEF Freed, Done
  <2>7. CASE b \in m.alive
    <3>1. s.dst >= 1 /\ s.src + 2 + n <= Limit + 1
      <4>1. /\ w.youngBags \in Nat /\ 1 <= w.mptrEnd /\ w.mptrEnd \in Nat /\ w.oldBags \in Nat
            /\ w.mptrEnd <= w.oldBags /\ w.oldBags <= w.youngBags /\ w.allocBags \in Nat
            /\ Limit \in Nat /\ w.allocBags <= Limit + 1
        BY <1>1, AreaNumbers
      <4> QED BY ONLY <1>3, <2>1, <2>2, <4>1
    <3>2. SlidTo(s, w, b, n, h, t)
      BY <1>3, <1>7, <2>1, <2>2, <2>7, <3>1, SlideFields DEF h
    <3>3. t.src = k
      BY <2>3, <3>2 DEF SlidTo
    <3>4. Done(w, t) = Done(w, s) \cup {b}
      BY <2>1, <3>3
    <3>5. s.src + (2 + n) \in W
      BY <1>4, <2>1
    <3>6. Sweeping(w, W, m, t)
      BY <2>1, <2>2, <2>7, <3>2, <3>4, <3>5, MovedOver DEF h
    <3> QED BY <1>5, <3>3, <3>6
  <2>8. CASE b \notin m.alive /\ b \in m.halfDead
    <3>1. w.newMarker \in Int
      BY <1>1, AreaFacts DEF Markers
    <3>2. t = HalfDied(s, s.src + 2 + n, b, w.newMarker)
      BY <1>7, <2>1, <2>8 DEF SweepBody, HalfDied, h, HeaderWords
    <3>3. /\ SamePlace(s, k, t) /\ SameBut(s, b, t) /\ t.mem[b] = w.newMarker
          /\ t.freeMptr = s.freeMptr /\ t.nrHalfDead = s.nrHalfDead + 1
      BY <1>3, <1>4, <2>2, <2>3, <3>1, <3>2, HalfDiedFields, SMTT(20)
    <3>4. t \in SweepState /\ t.src = k /\ t.dst = s.dst
      BY <3>3 DEF SamePlace
    <3>5. Done(w, t) = Done(w, s) \cup {b}
      BY <2>1, <3>4
    <3>6. \A a \in 1 .. Limit : a # b => t.mem[a] = s.mem[a]
      BY <3>3 DEF SameBut
    <3>7. Behind(w, W, t) /\ Untouched(w, t) /\ Slid(w, m, t) /\ Adjoin(w, m, t)
      <4>1. /\ Done(w, s) \subseteq Done(w, t) /\ Done(w, t) \cap m.alive = Done(w, s) \cap m.alive
            /\ \A a \in 1 .. Limit : a \notin Done(w, t) \ Done(w, s) => t.mem[a] = s.mem[a]
        BY <2>1, <2>8, <3>5, <3>6
      <4> QED BY <1>2, <1>4, <1>5, <3>4, <4>1, PassedOver
    <3>8. Freed(w, m, t) = Freed(w, m, s)
      BY <2>8, <3>5 DEF Freed
    <3>9. Chain(t.freeMptr, t.mem, Freed(w, m, t))
      <4>1. \A x \in Freed(w, m, s) : t.mem[x] = s.mem[x]
        BY <2>4, <2>6, <3>6
      <4> QED BY <2>5, <3>3, <3>8, <4>1, ChainSame
    <3>10. \A c \in Done(w, t) \cap m.halfDead : t.mem[c] = w.newMarker
      <4>1. \A c \in Done(w, s) \cap m.halfDead : s.mem[c] = w.newMarker
        BY <1>2 DEF Released
      <4>2. \A c \in YoungBagsOf(w) : c \in 1 .. Limit
        BY <1>1, YoungPlaced
      <4>3. \A c \in Done(w, s) \cap m.halfDead : c \in 1 .. Limit /\ c # b
        BY <2>1, <4>2 DEF Done
      <4> QED BY <3>3, <3>5, <3>6, <4>1, <4>3
    <3>11. t.nrHalfDead = w.nrHalfDead + Cardinality(Done(w, t) \cap m.halfDead)
      <4> DEFINE H == Done(w, s) \cap m.halfDead
      <4>1. s.nrHalfDead = w.nrHalfDead + Cardinality(H)
        BY <1>2 DEF Released
      <4>2. H \subseteq IdsOf(w)
        <5>1. \A c \in YoungBagsOf(w) : c \in IdsOf(w)
          BY <1>1, YoungPlaced
        <5> QED BY <5>1 DEF Done
      <4>3. IsFiniteSet(H) /\ Cardinality(H) \in Nat
        BY <1>1, <4>2, FewIds
      <4>4. Done(w, t) \cap m.halfDead = H \cup {b} /\ b \notin H
        BY <2>1, <2>8, <3>5
      <4> HIDE DEF H
      <4>5. Cardinality(H \cup {b}) = Cardinality(H) + 1
        BY <4>3, <4>4, FS_AddElement
      <4>6. w.nrHalfDead \in Int
        BY <1>1, AreaFacts
      <4>7. w.nrHalfDead + Cardinality(H) + 1 = w.nrHalfDead + (Cardinality(H) + 1)
        BY ONLY <4>3, <4>6
      <4> QED BY <3>3, <4>1, <4>4, <4>5, <4>7
    <3> QED BY <1>5, <3>4, <3>7, <3>9, <3>10, <3>11 DEF Sweeping, Released
  <2>9. CASE b \notin m.alive /\ b \notin m.halfDead
    <3>2. t = Died(s, s.src + 2 + n, b)
      BY <1>7, <2>1, <2>9 DEF SweepBody, Died, h, HeaderWords
    <3>3. /\ SamePlace(s, k, t) /\ SameBut(s, b, t) /\ t.mem[b] = s.freeMptr
          /\ t.freeMptr = b /\ t.nrHalfDead = s.nrHalfDead
      BY <1>3, <1>4, <2>2, <2>3, <3>2, DiedFields
    <3>4. t \in SweepState /\ t.src = k /\ t.dst = s.dst
      BY <3>3 DEF SamePlace
    <3>5. Done(w, t) = Done(w, s) \cup {b}
      BY <2>1, <3>4
    <3>6. \A a \in 1 .. Limit : a # b => t.mem[a] = s.mem[a]
      BY <3>3 DEF SameBut
    <3>7. Behind(w, W, t) /\ Untouched(w, t) /\ Slid(w, m, t) /\ Adjoin(w, m, t)
      <4>1. /\ Done(w, s) \subseteq Done(w, t) /\ Done(w, t) \cap m.alive = Done(w, s) \cap m.alive
            /\ \A a \in 1 .. Limit : a \notin Done(w, t) \ Done(w, s) => t.mem[a] = s.mem[a]
        BY <2>1, <2>9, <3>5, <3>6
      <4> QED BY <1>2, <1>4, <1>5, <3>4, <4>1, PassedOver
    <3>8. Freed(w, m, t) = Freed(w, m, s) \cup {b} /\ Done(w, t) \cap m.halfDead = Done(w, s) \cap m.halfDead
      BY <2>9, <3>5 DEF Freed
    <3>9. Chain(t.freeMptr, t.mem, Freed(w, m, t))
      <4>1. \A x \in Freed(w, m, s) : t.mem[x] = s.mem[x]
        BY <2>4, <2>6, <3>6
      <4>2. Chain(b, t.mem, Freed(w, m, s) \cup {b})
        BY <2>2, <2>4, <2>5, <3>3, <4>1, ChainPush
      <4> QED BY <3>3, <3>8, <4>2
    <3>10. \A c \in Done(w, t) \cap m.halfDead : t.mem[c] = w.newMarker
      <4>1. \A c \in Done(w, s) \cap m.halfDead : s.mem[c] = w.newMarker
        BY <1>2 DEF Released
      <4>2. \A c \in YoungBagsOf(w) : c \in 1 .. Limit
        BY <1>1, YoungPlaced
      <4>3. \A c \in Done(w, s) \cap m.halfDead : c \in 1 .. Limit /\ c # b
        BY <2>1, <4>2 DEF Done
      <4> QED BY <3>6, <3>8, <4>1, <4>3
    <3>11. t.nrHalfDead = w.nrHalfDead + Cardinality(Done(w, t) \cap m.halfDead)
      BY <1>2, <3>3, <3>8 DEF Released
    <3> QED BY <1>5, <3>4, <3>7, <3>9, <3>10, <3>11 DEF Sweeping, Released
  <2> QED BY <2>7, <2>8, <2>9
<1> QED BY <1>6, <1>7

(* The loop of the sweeper.                                                *)
SweepStart(w) ==
    [mem |-> w.mem, src |-> w.youngBags, dst |-> w.youngBags,
     freeMptr |-> w.freeMptr, nrHalfDead |-> w.nrHalfDead]
SweepStep(s, w, m) ==
    IF s.src < w.allocBags THEN SweepBody(s, m, w.mptrEnd, w.newMarker) ELSE s
Sweeps(f, w, m, N) ==
    f = [n \in 0 .. N |-> IF n = 0 THEN SweepStart(w) ELSE SweepStep(f[n - 1], w, m)]

(* Its states are well defined.                                            *)
LEMMA SweepsExist ==
    ASSUME NEW w, NEW m, NEW N \in Nat
    PROVE  \E f : Sweeps(f, w, m, N)
<1> DEFINE Bad == {k \in Nat : ~ \E f : Sweeps(f, w, m, k)}
<1> SUFFICES ASSUME Bad # {} PROVE FALSE
  OBVIOUS
<1>1. PICK k \in Bad : \A n \in Bad : k <= n
  BY NatLeast
<1>2. CASE k = 0
  <2> DEFINE f == [n \in 0 .. 0 |-> SweepStart(w)]
  <2>1. Sweeps(f, w, m, 0)
    BY DEF Sweeps
  <2> QED BY <1>1, <1>2, <2>1
<1>3. CASE k # 0
  <2>1. k - 1 \in Nat /\ k - 1 \notin Bad
    BY <1>1, <1>3
  <2>2. PICK f : Sweeps(f, w, m, k - 1)
    BY <2>1
  <2> DEFINE g == [n \in 0 .. k |-> IF n < k THEN f[n] ELSE SweepStep(f[k - 1], w, m)]
  <2>3. f = [n \in 0 .. k - 1 |-> IF n = 0 THEN SweepStart(w) ELSE SweepStep(f[n - 1], w, m)]
    BY <2>2 DEF Sweeps
  <2>4. \A n \in 0 .. k - 1 : f[n] = IF n = 0 THEN SweepStart(w) ELSE SweepStep(f[n - 1], w, m)
    BY <2>3
  <2>5. \A n \in 0 .. k : g[n] = IF n = 0 THEN SweepStart(w) ELSE SweepStep(g[n - 1], w, m)
    BY <1>3, <2>4
  <2>6. Sweeps(g, w, m, k)
    BY <2>5 DEF Sweeps
  <2> QED BY <1>1, <2>6
<1> QED BY <1>2, <1>3

(* The workspace that the sweeper leaves, from its last state.             *)
SweptWorkspace(w, m, s) ==
    [w EXCEPT !.mem = [a \in 1 .. Limit |-> IF a \in s.dst .. s.src - 1 THEN 0 ELSE s.mem[a]],
              !.youngBags = s.dst, !.allocBags = s.dst,
              !.freeMptr = s.freeMptr, !.nrHalfDead = s.nrHalfDead,
              !.nrLive = @ + Cardinality(m.alive)]

(* Nothing has been swept yet.                                             *)
LEMMA SweepStarts ==
    ASSUME NEW w, NEW W, NEW m, Sweepable(w, W, m)
    PROVE  Sweeping(w, W, m, SweepStart(w))
<1> DEFINE s == SweepStart(w)
<1>1. Areas(w) /\ Tiles(w, W) /\ MptrsOK(w)
  BY DEF Sweepable, Forgetful
<1>2. /\ w.mem \in [1 .. Limit -> Int] /\ w.youngBags \in Nat /\ w.freeMptr \in Nat /\ w.nrHalfDead \in Int
  BY <1>1, AreaFacts
<1>3. /\ s \in SweepState /\ s.mem = w.mem /\ s.src = w.youngBags /\ s.dst = w.youngBags
      /\ s.freeMptr = w.freeMptr /\ s.nrHalfDead = w.nrHalfDead
  BY <1>2 DEF SweepStart, SweepState
<1> HIDE DEF s
<1>4. Done(w, s) = {}
  <2>1. \A b \in YoungBagsOf(w) : w.mem[b] \in Int /\ w.youngBags <= w.mem[b] - 2
    BY <1>1, YoungPlaced
  <2> QED BY <1>2, <1>3, <2>1 DEF Done
<1>5. Behind(w, W, s)
  BY <1>1, <1>2, <1>3 DEF Behind, Tiles
<1>6. Untouched(w, s) /\ Slid(w, m, s) /\ Adjoin(w, m, s)
  BY <1>3, <1>4 DEF Untouched, Slid, Adjoin
<1>7. Released(w, m, s)
  <2>1. Freed(w, m, s) = FreeIds(w)
    BY <1>4 DEF Freed
  <2>2. Cardinality({}) = 0
    BY FS_EmptySet
  <2>3. w.nrHalfDead = w.nrHalfDead + 0
    BY <1>2
  <2> QED BY <1>1, <1>3, <1>4, <2>1, <2>2, <2>3 DEF Released, MptrsOK
<1> QED BY <1>5, <1>6, <1>7 DEF Sweeping, s

(* The sweeper comes to the end, with all that its steps establish.        *)
LEMMA SweepEnds ==
    ASSUME NEW w, NEW W, NEW m, Sweepable(w, W, m)
    PROVE  \E s : /\ Sweeping(w, W, m, s) /\ s.src = w.allocBags
                  /\ CollectBags_Sweep(w, m) = SweptWorkspace(w, m, s)
<1> DEFINE f == CHOOSE f : Sweeps(f, w, m, Limit)
           N == w.allocBags - w.youngBags
<1>1. Areas(w) /\ Tiles(w, W)
  BY DEF Sweepable, Forgetful
<1>2. /\ w.youngBags \in Nat /\ w.allocBags \in Nat /\ Limit \in Nat /\ N \in 0 .. Limit
  <2>1. /\ w.mptrEnd \in Nat /\ w.oldBags \in Nat /\ w.youngBags \in Nat
        /\ w.allocBags \in Nat /\ Limit \in Nat /\ 1 <= w.mptrEnd /\ w.mptrEnd <= w.oldBags
        /\ w.oldBags <= w.youngBags /\ w.youngBags <= w.allocBags /\ w.allocBags <= Limit + 1
    BY <1>1, AreaNumbers
  <2> QED BY ONLY <2>1
<1>3. Sweeps(f, w, m, Limit)
  BY <1>2, SweepsExist
<1>4. CollectBags_Sweep(w, m) = SweptWorkspace(w, m, f[N])
  BY ONLY Zenon DEF CollectBags_Sweep, SweptWorkspace, Sweeps, SweepStep, SweepStart
<1>5. f = [n \in 0 .. Limit |-> IF n = 0 THEN SweepStart(w) ELSE SweepStep(f[n - 1], w, m)]
  BY <1>3 DEF Sweeps
<1> HIDE DEF f
<1>6. f[0] = SweepStart(w) /\ \A n \in 1 .. Limit : f[n] = SweepStep(f[n - 1], w, m)
  <2>1. \A n \in 0 .. Limit : f[n] = IF n = 0 THEN SweepStart(w) ELSE SweepStep(f[n - 1], w, m)
    BY <1>5
  <2> QED BY <1>2, <2>1
<1> DEFINE Good(n) == /\ Sweeping(w, W, m, f[n])
                      /\ f[n].src = w.allocBags \/ f[n].src >= w.youngBags + n
           Bad == {n \in 0 .. Limit : ~ Good(n)}
<1>7. \A n \in 0 .. Limit : Good(n)
  <2> SUFFICES ASSUME Bad # {} PROVE FALSE
    OBVIOUS
  <2>1. Bad \in SUBSET Nat
    OBVIOUS
  <2>2. PICK k \in Bad : \A n \in Bad : k <= n
    BY <2>1, NatLeast
  <2>3. Good(0)
    <3>1. Sweeping(w, W, m, f[0])
      BY <1>6, SweepStarts
    <3>2. f[0].src = w.youngBags
      BY <1>6 DEF SweepStart
    <3> QED BY <1>2, <3>1, <3>2
  <2>4. k # 0
    BY <2>2, <2>3
  <2>5. k - 1 \in 0 .. Limit /\ k - 1 \notin Bad /\ k \in 1 .. Limit /\ k \in Nat
    BY <1>2, <2>2, <2>4
  <2> DEFINE s == f[k - 1]
             t == f[k]
  <2>6. Sweeping(w, W, m, s) /\ (s.src = w.allocBags \/ s.src >= w.youngBags + (k - 1))
    BY <2>5
  <2>7. t = SweepStep(s, w, m)
    BY <1>6, <2>5
  <2> HIDE DEF s, t
  <2>8. s.src \in Nat /\ s.src <= w.allocBags
    <3>1. s.src \in W /\ s.src \in Nat
      BY <2>6 DEF Sweeping, Behind, SweepState
    <3>2. W \subseteq w.oldBags .. w.allocBags /\ w.oldBags \in Nat
      BY <1>1, AreaNumbers DEF Tiles
    <3> QED BY <1>2, <3>1, <3>2
  <2>9. Sweeping(w, W, m, t) /\ (t.src = w.allocBags \/ t.src >= w.youngBags + k)
    <3>1. CASE s.src < w.allocBags
      <4>1. t = SweepBody(s, m, w.mptrEnd, w.newMarker)
        BY <2>7, <3>1 DEF SweepStep
      <4>2. Sweeping(w, W, m, t) /\ t.src > s.src
        BY <2>6, <3>1, <4>1, SweepBodySound
      <4>3. t.src \in Nat
        BY <4>2 DEF Sweeping, Behind, SweepState
      <4>4. s.src >= w.youngBags + (k - 1)
        BY ONLY <1>2, <2>6, <2>8, <3>1
      <4>5. t.src >= w.youngBags + k
        BY ONLY <1>2, <2>5, <2>8, <4>2, <4>3, <4>4
      <4> QED BY <4>2, <4>5
    <3>2. CASE ~ (s.src < w.allocBags)
      <4>1. t = s /\ s.src = w.allocBags
        BY <1>2, <2>7, <2>8, <3>2 DEF SweepStep
      <4> QED BY <2>6, <4>1
    <3> QED BY <3>1, <3>2
  <2> QED BY <2>2, <2>9 DEF t
<1>8. Sweeping(w, W, m, f[N]) /\ (f[N].src = w.allocBags \/ f[N].src >= w.youngBags + N)
  BY <1>2, <1>7
<1>9. f[N].src \in W /\ f[N].src \in Nat
  BY <1>8 DEF Sweeping, Behind, SweepState
<1>10. f[N].src <= w.allocBags
  <2>1. W \subseteq w.oldBags .. w.allocBags /\ w.oldBags \in Nat
    BY <1>1, AreaNumbers DEF Tiles
  <2> QED BY <1>2, <1>9, <2>1
<1>11. f[N].src = w.allocBags
  <2>1. w.youngBags + N = w.allocBags
    BY <1>2
  <2> HIDE DEF N
  <2> QED BY <1>2, <1>8, <1>9, <1>10, <2>1
<1> QED BY <1>4, <1>8, <1>11

-----------------------------------------------------------------------------
(* CollectBags: a whole collection, and what follows a full one.           *)

(* What a collection does to the bags, as a program may see it.            *)
Collected(w, m, v) ==
    /\ v.mptrEnd = w.mptrEnd /\ v.oldBags = w.oldBags /\ v.endBags = w.endBags
    /\ v.allocBags <= w.allocBags /\ v.newMarker = w.newMarker
    /\ v.nrLive = w.nrLive + Cardinality(m.alive)
    /\ v.nrHalfDead = w.nrHalfDead + Cardinality(m.halfDead)
    /\ LiveBags(v) = Survivors(w, m) /\ DeadIds(v) = DeadIds(w) \cup m.halfDead
    /\ \A x \in DeadIds(w) : v.mem[x] = w.mem[x]
    /\ \A x \in m.halfDead : v.mem[x] = w.newMarker
    /\ \A b \in Survivors(w, m) :
          /\ TNUM_BAG(v, b) = TNUM_BAG(w, b) /\ SIZE_BAG(v, b) = SIZE_BAG(w, b)
          /\ IsLastBag(w, b) => IsLastBag(v, b)
          /\ \A i \in 0 .. SIZE_BAG(w, b) - 1 :
                \/ Word(v, b, i) = Word(w, b, i)
                \/ /\ Word(v, b, i) = 0 /\ TNUM_BAG(w, b) = T_WPOBJ
                   /\ Word(w, b, i) \in DeadIds(w) \cup m.halfDead
          /\ b \in m.alive /\ TNUM_BAG(w, b) = T_WPOBJ =>
                \A i \in 0 .. SIZE_BAG(w, b) - 1 : Word(w, b, i) \in DeadIds(w) => Word(v, b, i) = 0

(* The fields after the sweep.                                             *)
SweptFields(w, m, s, v) ==
    /\ v \in Workspace /\ v.mptrEnd = w.mptrEnd /\ v.oldBags = w.oldBags /\ v.endBags = w.endBags
    /\ v.youngBags = s.dst /\ v.allocBags = s.dst /\ v.freeMptr = s.freeMptr
    /\ v.nrHalfDead = s.nrHalfDead /\ v.nrLive = w.nrLive + Cardinality(m.alive)
    /\ v.changed = w.changed /\ v.newMarker = w.newMarker
    /\ \A a \in 1 .. Limit : v.mem[a] = IF a \in s.dst .. s.src - 1 THEN 0 ELSE s.mem[a]

(* They are those of the definition.                                       *)
LEMMA SweptWorkspaceFields ==
    ASSUME NEW w \in Workspace, NEW m, NEW s \in SweepState, Cardinality(m.alive) \in Nat
    PROVE  SweptFields(w, m, s, SweptWorkspace(w, m, s))
<1> DEFINE v == SweptWorkspace(w, m, s)
           mm == [a \in 1 .. Limit |-> IF a \in s.dst .. s.src - 1 THEN 0 ELSE s.mem[a]]
           k == Cardinality(m.alive)
<1>1. v = [w EXCEPT !.mem = mm, !.youngBags = s.dst, !.allocBags = s.dst,
                    !.freeMptr = s.freeMptr, !.nrHalfDead = s.nrHalfDead, !.nrLive = w.nrLive + k]
  BY ONLY w \in Workspace DEF Workspace, SweptWorkspace
<1>2. /\ s.mem \in [1 .. Limit -> Int] /\ s.dst \in Nat /\ s.freeMptr \in Nat /\ s.nrHalfDead \in Int
      /\ w.nrLive \in Nat
  BY DEF SweepState, Workspace
<1>3. mm \in [1 .. Limit -> Int] /\ \A a \in 1 .. Limit : mm[a] = IF a \in s.dst .. s.src - 1 THEN 0 ELSE s.mem[a]
  <2>1. \A a \in 1 .. Limit : s.mem[a] \in Int
    BY ONLY <1>2
  <2>2. \A a \in 1 .. Limit : (IF a \in s.dst .. s.src - 1 THEN 0 ELSE s.mem[a]) \in Int
    BY ONLY <2>1
  <2>3. mm \in [1 .. Limit -> Int]
    BY ONLY <2>2 DEF mm
  <2> QED BY ONLY <2>3 DEF mm
<1>4. w.nrLive + k \in Nat
  BY <1>2
<1>5. mm \in [1 .. Limit -> Int]
  BY <1>3
<1> HIDE DEF mm, v, k
<1>6. v \in Workspace
  BY ONLY <1>1, <1>2, <1>4, <1>5, w \in Workspace DEF Workspace
<1>7. /\ v.mem = mm /\ v.mptrEnd = w.mptrEnd /\ v.oldBags = w.oldBags /\ v.endBags = w.endBags
      /\ v.youngBags = s.dst /\ v.allocBags = s.dst /\ v.freeMptr = s.freeMptr
      /\ v.nrHalfDead = s.nrHalfDead /\ v.nrLive = w.nrLive + k
      /\ v.changed = w.changed /\ v.newMarker = w.newMarker
  BY ONLY <1>1, w \in Workspace DEF Workspace
<1> QED BY <1>3, <1>6, <1>7 DEF SweptFields, v, k

-----------------------------------------------------------------------------
(* The sweeper leaves the bags that survive, moved together, and nothing   *)
(* else.                                                                   *)
LEMMA SweepSound ==
    ASSUME NEW w, NEW W, NEW m, Sweepable(w, W, m), w.changed = 0,
           NEW v, v = CollectBags_Sweep(w, m)
    PROVE  (\E V : Sound(v, V)) /\ Collected(w, m, v)
<1>1. Areas(w) /\ Tiles(w, W) /\ MptrsOK(w) /\ WordsOK(w) /\ ZeroOK(w) /\ w \in Workspace
  BY DEF Sweepable, Forgetful, Areas
<1>2. /\ w.mptrEnd \in Nat /\ w.oldBags \in Nat /\ w.youngBags \in Nat
      /\ w.allocBags \in Nat /\ w.endBags \in Nat /\ Limit \in Nat /\ 1 <= w.mptrEnd /\ w.mptrEnd <= w.oldBags
      /\ w.oldBags <= w.youngBags /\ w.youngBags <= w.allocBags
      /\ w.allocBags <= w.endBags /\ w.endBags <= Limit + 1
      /\ w.allocBags <= Limit + 1 /\ w.mptrEnd <= Limit + 1
  BY <1>1, AreaNumbers
<1>3. PICK s : /\ Sweeping(w, W, m, s) /\ s.src = w.allocBags
               /\ CollectBags_Sweep(w, m) = SweptWorkspace(w, m, s)
  BY SweepEnds
<1>4. /\ Behind(w, W, s) /\ Untouched(w, s) /\ Slid(w, m, s) /\ Adjoin(w, m, s) /\ Released(w, m, s)
  BY <1>3 DEF Sweeping
<1>5. s.dst \in Nat /\ w.youngBags <= s.dst /\ s.dst <= w.allocBags
  BY <1>3, <1>4 DEF Behind, SweepState
<1>50. s \in SweepState /\ s.mem \in [1 .. Limit -> Int]
  BY <1>4 DEF Behind, SweepState
<1>6. /\ m.alive \subseteq YoungBagsOf(w) /\ m.halfDead \subseteq YoungBagsOf(w)
      /\ m.alive \cap m.halfDead = {}
  BY DEF Sweepable, MarksOK
<1>7. \A b \in YoungBagsOf(w) :
          /\ b \in LiveBags(w) /\ b \in IdsOf(w) /\ b \in Nat /\ b \in 1 .. Limit /\ b # 0 /\ b < w.mptrEnd
          /\ w.mem[b] \in Int /\ w.youngBags <= w.mem[b] - 2
          /\ SIZE_BAG(w, b) \in Nat /\ w.mem[b] + SIZE_BAG(w, b) <= w.allocBags
          /\ w.mem[b] - 2 \in W
          /\ b \notin FreeIds(w) /\ b \notin DeadIds(w)
  BY <1>1, YoungPlaced
<1>8. Done(w, s) = YoungBagsOf(w)
  <2>1. \A b \in YoungBagsOf(w) : w.mem[b] - 2 < w.allocBags
    BY <1>2, <1>7
  <2> QED BY <1>3, <2>1 DEF Done
<1>9. Done(w, s) \cap m.alive = m.alive /\ Done(w, s) \cap m.halfDead = m.halfDead
  BY <1>6, <1>8
<1>10. Cardinality(m.alive) \in Nat
  <2>1. m.alive \subseteq IdsOf(w)
    BY <1>6, <1>7
  <2> QED BY <1>1, <2>1, FewIds
<1>11. SweptFields(w, m, s, v)
  BY <1>1, <1>3, <1>10, <1>50, SweptWorkspaceFields
<1>12. /\ v \in Workspace /\ v.mptrEnd = w.mptrEnd /\ v.oldBags = w.oldBags /\ v.endBags = w.endBags
       /\ v.youngBags = s.dst /\ v.allocBags = s.dst /\ v.freeMptr = s.freeMptr
       /\ v.nrHalfDead = s.nrHalfDead /\ v.nrLive = w.nrLive + Cardinality(m.alive)
       /\ v.changed = w.changed /\ v.newMarker = w.newMarker
       /\ \A a \in 1 .. Limit : v.mem[a] = IF a \in s.dst .. w.allocBags - 1 THEN 0 ELSE s.mem[a]
  BY <1>3, <1>11 DEF SweptFields
<1>13. Areas(v)
  BY ONLY <1>2, <1>5, <1>12 DEF Areas
<1>14. ASSUME NEW a \in 1 .. Limit, a < s.dst PROVE v.mem[a] = s.mem[a]
  BY ONLY <1>2, <1>5, <1>12, <1>14, a \in 1 .. Limit
<1>15. ASSUME NEW a \in 1 .. Limit, w.mptrEnd <= a, a < w.youngBags PROVE v.mem[a] = w.mem[a]
  <2>1. s.mem[a] = w.mem[a]
    BY <1>4, <1>15 DEF Untouched
  <2>2. a < s.dst
    BY ONLY <1>2, <1>5, <1>15, a \in 1 .. Limit
  <2> QED BY <1>14, <2>1, <2>2
<1>16. ASSUME NEW x \in IdsOf(w) PROVE v.mem[x] = s.mem[x] /\ x \in 1 .. Limit /\ x \in Nat
  <2>1. x \in 1 .. Limit /\ x < s.dst /\ x \in Nat
    BY ONLY <1>2, <1>5, x \in IdsOf(w) DEF IdsOf
  <2> QED BY <1>14, <2>1
<1>17. IdsOf(v) = IdsOf(w)
  BY <1>12 DEF IdsOf
<1> DEFINE S == Survivors(w, m)
           O == {b \in LiveBags(w) : IsOld(w, b)}
<1>18. S = O \cup m.alive
  BY DEF Survivors
<1>19. \A b \in O : /\ b \in LiveBags(w) /\ b \in IdsOf(w) /\ b \notin YoungBagsOf(w)
                    /\ w.mem[b] \in Int /\ w.oldBags + 2 <= w.mem[b] /\ SIZE_BAG(w, b) \in Nat
                    /\ w.mem[b] + SIZE_BAG(w, b) <= w.youngBags
                    /\ w.mem[b] - 2 \in W
  <2> SUFFICES ASSUME NEW b \in O
               PROVE /\ b \in LiveBags(w) /\ b \in IdsOf(w) /\ b \notin YoungBagsOf(w)
                     /\ w.mem[b] \in Int /\ w.oldBags + 2 <= w.mem[b] /\ SIZE_BAG(w, b) \in Nat
                     /\ w.mem[b] + SIZE_BAG(w, b) <= w.youngBags
                     /\ w.mem[b] - 2 \in W
    OBVIOUS
  <2>1. b \in LiveBags(w) /\ IsOld(w, b)
    OBVIOUS
  <2> QED BY <1>1, <2>1, Placed, OldOrYoung DEF YoungBagsOf
<1>20. \A b \in O : s.mem[b] = w.mem[b] /\ v.mem[b] = w.mem[b]
  <2>1. \A b \in O : s.mem[b] = w.mem[b]
    BY <1>4, <1>8, <1>19 DEF Untouched
  <2> QED BY <1>16, <1>19, <2>1
<1>21. \A b \in m.alive : /\ v.mem[b] = s.mem[b] /\ v.mem[b] \in Int /\ b \in IdsOf(w) /\ b \in LiveBags(w)
                          /\ w.youngBags + 2 <= v.mem[b] /\ v.mem[b] + SIZE_BAG(w, b) <= s.dst
                          /\ SIZE_BAG(w, b) \in Nat
  <2> SUFFICES ASSUME NEW b \in m.alive
               PROVE /\ v.mem[b] = s.mem[b] /\ v.mem[b] \in Int /\ b \in IdsOf(w) /\ b \in LiveBags(w)
                     /\ w.youngBags + 2 <= v.mem[b] /\ v.mem[b] + SIZE_BAG(w, b) <= s.dst
                     /\ SIZE_BAG(w, b) \in Nat
    OBVIOUS
  <2>1. b \in IdsOf(w) /\ SIZE_BAG(w, b) \in Nat /\ b \in LiveBags(w)
    BY <1>6, <1>7
  <2>2. v.mem[b] = s.mem[b] /\ s.mem[b] \in Int
    BY <1>16, <1>50, <2>1
  <2>3. SlidAt(w, m, s, b)
    BY <1>4, <1>9 DEF Slid
  <2> QED BY <2>1, <2>2, <2>3 DEF SlidAt
<1> HIDE DEF O
<1>22. ASSUME NEW x \in FreeIds(w) \cup ((YoungBagsOf(w) \ m.alive) \ m.halfDead)
       PROVE  x \in IdsOf(w) /\ (v.mem[x] = 0 \/ v.mem[x] \in IdsOf(w))
  <2> DEFINE F == FreeIds(w) \cup ((YoungBagsOf(w) \ m.alive) \ m.halfDead)
  <2>1. F = Freed(w, m, s)
    BY <1>8 DEF Freed
  <2>2. s.mem[x] \in F \cup {0}
    BY <1>4, <2>1 DEF Released, Chain
  <2>3. F \subseteq IdsOf(w)
    BY <1>7 DEF FreeIds
  <2> QED BY <1>16, <2>2, <2>3
<1>23. ASSUME NEW x \in m.halfDead PROVE x \in IdsOf(w) /\ v.mem[x] = w.newMarker /\ v.mem[x] \in Markers
  <2>1. s.mem[x] = w.newMarker
    BY <1>4, <1>9 DEF Released
  <2>2. w.newMarker \in Markers
    BY <1>1, AreaFacts
  <2> QED BY <1>6, <1>7, <1>16, <2>1, <2>2
<1>24. ASSUME NEW x \in DeadIds(w) PROVE x \in IdsOf(w) /\ v.mem[x] = w.mem[x] /\ v.mem[x] \in Markers
  <2>1. x \in IdsOf(w) /\ w.mem[x] \in Markers
    BY DEF DeadIds
  <2>2. x \notin Done(w, s)
    BY <1>7, <1>8
  <2>3. s.mem[x] = w.mem[x]
    BY <1>4, <2>1, <2>2 DEF Untouched
  <2> QED BY <1>16, <2>1, <2>3
<1>25. ASSUME NEW x \in IdsOf(w)
       PROVE  \/ x \in S
              \/ x \in DeadIds(w) \cup m.halfDead
              \/ x \in FreeIds(w) \cup ((YoungBagsOf(w) \ m.alive) \ m.halfDead)
  <2>1. x \in FreeIds(w) \cup LiveBags(w) \cup DeadIds(w)
    BY <1>1 DEF MptrsOK
  <2>2. x \in LiveBags(w) => x \in O \/ x \in YoungBagsOf(w)
    BY DEF O, YoungBagsOf
  <2> QED BY <1>18, <2>1, <2>2
<1>26. ASSUME NEW x \in S
       PROVE  x \in IdsOf(w) /\ v.mem[x] \in Int /\ w.oldBags + 2 <= v.mem[x] /\ v.mem[x] <= s.dst
  <2>1. CASE x \in O
    <3>1. /\ x \in IdsOf(w) /\ v.mem[x] = w.mem[x] /\ w.mem[x] \in Int /\ w.oldBags + 2 <= w.mem[x]
          /\ SIZE_BAG(w, x) \in Nat /\ w.mem[x] + SIZE_BAG(w, x) <= w.youngBags
      BY <1>19, <1>20, <2>1
    <3>2. w.mem[x] <= s.dst
      BY ONLY <1>2, <1>5, <3>1
    <3> QED BY <3>1, <3>2
  <2>2. CASE x \in m.alive
    <3>1. /\ v.mem[x] \in Int /\ x \in IdsOf(w)
          /\ w.youngBags + 2 <= v.mem[x] /\ v.mem[x] + SIZE_BAG(w, x) <= s.dst
          /\ SIZE_BAG(w, x) \in Nat
      BY <1>21, <2>2
    <3>2. v.mem[x] <= s.dst /\ w.oldBags + 2 <= v.mem[x]
      BY ONLY <1>2, <1>5, <3>1
    <3> QED BY <3>1, <3>2
  <2> QED BY <1>18, <2>1, <2>2
<1> HIDE DEF S
<1>27. LiveBags(v) = S
  <2>1. ASSUME NEW x \in IdsOf(w), x \notin S PROVE ~ (w.oldBags + 2 <= v.mem[x])
    <3>1. v.mem[x] = 0 \/ v.mem[x] \in IdsOf(w) \/ v.mem[x] \in Markers
      BY <1>22, <1>23, <1>24, <1>25, <2>1
    <3> QED BY ONLY <1>2, <3>1 DEF IdsOf, Markers
  <2>2. \A x \in S : x \in LiveBags(v)
    BY <1>12, <1>26 DEF LiveBags, HeaderWords, IdsOf
  <2>3. \A x \in LiveBags(v) : x \in IdsOf(w) /\ w.oldBags + 2 <= v.mem[x]
    BY <1>12 DEF LiveBags, HeaderWords, IdsOf
  <2> QED BY <2>1, <2>2, <2>3
<1>28. DeadIds(v) = DeadIds(w) \cup m.halfDead
  <2>1. ASSUME NEW x \in DeadIds(v) PROVE x \in DeadIds(w) \cup m.halfDead
    <3>1. x \in IdsOf(w) /\ v.mem[x] \in Markers
      BY <1>17 DEF DeadIds
    <3>2. x \notin S
      <4>1. ~ (w.oldBags + 2 <= v.mem[x])
        BY ONLY <1>2, <3>1 DEF Markers
      <4> QED BY <1>26, <4>1
    <3>3. x \notin FreeIds(w) \cup ((YoungBagsOf(w) \ m.alive) \ m.halfDead)
      <4>1. ~ (v.mem[x] = 0 \/ v.mem[x] \in IdsOf(w))
        BY ONLY <3>1 DEF Markers, IdsOf
      <4> QED BY <1>22, <4>1
    <3> QED BY <1>25, <3>1, <3>2, <3>3
  <2>2. \A x \in DeadIds(w) \cup m.halfDead : x \in DeadIds(v)
    BY <1>17, <1>23, <1>24 DEF DeadIds
  <2> QED BY <2>1, <2>2
<1>29. FreeIds(v) = FreeIds(w) \cup ((YoungBagsOf(w) \ m.alive) \ m.halfDead)
  <2>1. ASSUME NEW x \in FreeIds(v) PROVE x \in FreeIds(w) \cup ((YoungBagsOf(w) \ m.alive) \ m.halfDead)
    <3>1. x \in IdsOf(w) /\ (v.mem[x] = 0 \/ v.mem[x] \in IdsOf(w))
      BY <1>17 DEF FreeIds
    <3>2. x \notin S
      <4>1. ~ (w.oldBags + 2 <= v.mem[x])
        BY ONLY <1>2, <3>1 DEF IdsOf
      <4> QED BY <1>26, <4>1
    <3>3. x \notin DeadIds(w) \cup m.halfDead
      <4>1. v.mem[x] \notin Markers
        BY ONLY <3>1 DEF Markers, IdsOf
      <4> QED BY <1>23, <1>24, <4>1
    <3> QED BY <1>25, <3>1, <3>2, <3>3
  <2>2. \A x \in FreeIds(w) \cup ((YoungBagsOf(w) \ m.alive) \ m.halfDead) : x \in FreeIds(v)
    BY <1>17, <1>22 DEF FreeIds
  <2> QED BY <2>1, <2>2
<1>30. MptrsOK(v)
  <2>1. Freed(w, m, s) = FreeIds(v)
    BY <1>8, <1>29 DEF Freed
  <2>2. \A x \in FreeIds(v) : v.mem[x] = s.mem[x]
    BY <1>16, <1>17 DEF FreeIds
  <2>3. Chain(v.freeMptr, v.mem, FreeIds(v))
    BY <1>4, <1>12, <2>1, <2>2, ChainSame DEF Released
  <2>4. \A x \in IdsOf(v) : x \in FreeIds(v) \cup LiveBags(v) \cup DeadIds(v)
    BY <1>17, <1>25, <1>27, <1>28, <1>29
  <2> QED BY <2>3, <2>4 DEF MptrsOK
<1>31. ASSUME NEW b \in O
       PROVE  SameBag(w, v, b) /\ LINK_BAG(v, b) = b /\ v.mem[v.mem[b] - 2] = w.mem[w.mem[b] - 2]
  <2>1. /\ b \in LiveBags(w) /\ v.mem[b] = w.mem[b] /\ w.mem[b] \in Int /\ w.oldBags + 2 <= w.mem[b]
        /\ SIZE_BAG(w, b) \in Nat /\ w.mem[b] + SIZE_BAG(w, b) <= w.youngBags
    BY <1>19, <1>20
  <2>2. /\ w.mem[b] - 2 \in 1 .. Limit /\ w.mptrEnd <= w.mem[b] - 2 /\ w.mem[b] - 2 < w.youngBags
        /\ w.mem[b] - 1 \in 1 .. Limit /\ w.mptrEnd <= w.mem[b] - 1 /\ w.mem[b] - 1 < w.youngBags
    BY ONLY <1>2, <2>1
  <2>3. ASSUME NEW i \in 0 .. SIZE_BAG(w, b) - 1
        PROVE  w.mem[b] + i \in 1 .. Limit /\ w.mptrEnd <= w.mem[b] + i /\ w.mem[b] + i < w.youngBags
    BY ONLY <1>2, <2>1, i \in 0 .. SIZE_BAG(w, b) - 1
  <2>4. v.mem[w.mem[b] - 2] = w.mem[w.mem[b] - 2] /\ v.mem[w.mem[b] - 1] = w.mem[w.mem[b] - 1]
    BY <1>15, <2>2
  <2>5. \A i \in 0 .. SIZE_BAG(w, b) - 1 : Word(v, b, i) = Word(w, b, i)
    BY <1>15, <2>1, <2>3 DEF Word
  <2>6. LINK_BAG(w, b) = b
    BY <2>1 DEF Sweepable
  <2> QED BY <2>1, <2>4, <2>5, <2>6 DEF SameBag, LINK_BAG, TNUM_BAG, SIZE_BAG
<1>32. ASSUME NEW b \in m.alive
       PROVE  /\ LINK_BAG(v, b) = b /\ v.mem[v.mem[b] - 2] = w.mem[w.mem[b] - 2]
              /\ TNUM_BAG(v, b) = TNUM_BAG(w, b) /\ SIZE_BAG(v, b) = SIZE_BAG(w, b)
              /\ \A i \in 0 .. SIZE_BAG(w, b) - 1 : SweptTo(w, m, b, Word(w, b, i), Word(v, b, i))
  <2>1. /\ v.mem[b] = s.mem[b] /\ v.mem[b] \in Int
        /\ w.youngBags + 2 <= v.mem[b] /\ v.mem[b] + SIZE_BAG(w, b) <= s.dst
        /\ SIZE_BAG(w, b) \in Nat
    BY <1>21
  <2>2. SlidAt(w, m, s, b)
    BY <1>4, <1>9 DEF Slid
  <2>3. /\ v.mem[b] - 2 \in 1 .. Limit /\ v.mem[b] - 2 < s.dst
        /\ v.mem[b] - 1 \in 1 .. Limit /\ v.mem[b] - 1 < s.dst
    BY ONLY <1>2, <1>5, <2>1
  <2>4. ASSUME NEW i \in 0 .. SIZE_BAG(w, b) - 1
        PROVE  v.mem[b] + i \in 1 .. Limit /\ v.mem[b] + i < s.dst
    BY ONLY <1>2, <1>5, <2>1, i \in 0 .. SIZE_BAG(w, b) - 1
  <2>5. /\ v.mem[v.mem[b] - 2] = s.mem[s.mem[b] - 2] /\ v.mem[v.mem[b] - 1] = s.mem[s.mem[b] - 1]
        /\ \A i \in 0 .. SIZE_BAG(w, b) - 1 : v.mem[v.mem[b] + i] = s.mem[s.mem[b] + i]
    BY <1>14, <2>1, <2>3, <2>4
  <2> QED BY <2>2, <2>5 DEF SlidAt, LINK_BAG, TNUM_BAG, SIZE_BAG, Word
<1>33. ASSUME NEW b \in S
       PROVE  /\ LINK_BAG(v, b) = b /\ v.mem[v.mem[b] - 2] = w.mem[w.mem[b] - 2] /\ b \in LiveBags(w)
              /\ TNUM_BAG(v, b) = TNUM_BAG(w, b) /\ SIZE_BAG(v, b) = SIZE_BAG(w, b) /\ SIZE_BAG(w, b) \in Nat
              /\ \A i \in 0 .. SIZE_BAG(w, b) - 1 :
                    \/ Word(v, b, i) = Word(w, b, i)
                    \/ /\ Word(v, b, i) = 0 /\ TNUM_BAG(w, b) = T_WPOBJ
                       /\ Word(w, b, i) \in DeadIds(w) \cup m.halfDead
  <2>1. CASE b \in O
    BY <1>19, <1>31, <2>1 DEF SameBag
  <2>2. CASE b \in m.alive
    BY <1>21, <1>32, <2>2 DEF SweptTo
  <2> QED BY <1>18, <2>1, <2>2
<1> DEFINE V == {a \in W : a < w.youngBags} \cup {v.mem[b] - 2 : b \in m.alive} \cup {s.dst}
<1>34. /\ s.dst = w.youngBags \/ \E b \in m.alive : v.mem[b] - 2 = w.youngBags
       /\ \A b \in m.alive : \/ v.mem[b] + SIZE_BAG(w, b) = s.dst
                             \/ \E c \in m.alive : v.mem[c] - 2 = v.mem[b] + SIZE_BAG(w, b)
       /\ \A b, c \in m.alive : w.mem[b] < w.mem[c] => v.mem[b] + SIZE_BAG(w, b) <= v.mem[c] - 2
  <2>1. /\ s.dst = w.youngBags \/ \E b \in m.alive : s.mem[b] - 2 = w.youngBags
        /\ \A b \in m.alive : \/ s.mem[b] + SIZE_BAG(w, b) = s.dst
                              \/ \E c \in m.alive : s.mem[c] - 2 = s.mem[b] + SIZE_BAG(w, b)
        /\ \A b, c \in m.alive : w.mem[b] < w.mem[c] => s.mem[b] + SIZE_BAG(w, b) <= s.mem[c] - 2
    BY <1>4, <1>9 DEF Adjoin
  <2>2. \A b \in m.alive : v.mem[b] = s.mem[b]
    BY <1>21
  <2> QED BY <2>1, <2>2
<1>35. w.youngBags \in V
  BY <1>34
<1>36. \A a \in W : a \in Int /\ w.oldBags <= a /\ a <= w.allocBags
  BY <1>1, <1>2 DEF Tiles
<1>37. ASSUME NEW a \in W, a < w.youngBags
       PROVE  /\ v.mem[a] = w.mem[a] /\ w.mem[a] \in Nat /\ TypeIn(w.mem[a]) \in 1 .. 3 /\ a < w.allocBags
              /\ a + Stride(w.mem[a]) \in W /\ a + Stride(w.mem[a]) <= w.youngBags
              /\ Stride(w.mem[a]) \in Nat /\ Stride(w.mem[a]) >= 1
  <2>1. a \in 1 .. Limit /\ w.mptrEnd <= a /\ a < w.allocBags
    BY <1>2, <1>36, <1>37
  <2>2. v.mem[a] = w.mem[a]
    BY <1>15, <1>37, <2>1
  <2>3. w.youngBags \in W
    BY <1>1 DEF Tiles
  <2>4. w.mem[a] \in Nat /\ TypeIn(w.mem[a]) \in 1 .. 3 /\ a + Stride(w.mem[a]) \in W /\ a + Stride(w.mem[a]) <= w.youngBags
    BY <1>1, <1>37, <2>1, <2>3 DEF Tiles
  <2> QED BY <2>1, <2>2, <2>4, StrideFacts
<1>38. ASSUME NEW b \in m.alive
       PROVE  /\ v.mem[v.mem[b] - 2] \in Nat /\ TypeIn(v.mem[v.mem[b] - 2]) \in 1 .. 3
              /\ Stride(v.mem[v.mem[b] - 2]) = 2 + SIZE_BAG(w, b)
              /\ v.mem[b] - 2 + (2 + SIZE_BAG(w, b)) = v.mem[b] + SIZE_BAG(w, b)
              /\ v.mem[b] - 2 + (2 + SIZE_BAG(w, b)) \in V
              /\ v.mem[b] \in Int /\ SIZE_BAG(w, b) \in Nat
              /\ w.youngBags <= v.mem[b] - 2 /\ v.mem[b] - 2 < s.dst /\ v.mem[b] + SIZE_BAG(w, b) <= s.dst
  <2>1. /\ b \in LiveBags(w) /\ v.mem[b] \in Int /\ SIZE_BAG(w, b) \in Nat
        /\ w.youngBags + 2 <= v.mem[b] /\ v.mem[b] + SIZE_BAG(w, b) <= s.dst
    BY <1>21
  <2>2. /\ w.mem[w.mem[b] - 2] \in Nat /\ Stride(w.mem[w.mem[b] - 2]) = 2 + SIZE_BAG(w, b)
        /\ TNUM_BAG(w, b) \in {T_LIST, T_WPOBJ}
    BY <1>1, <2>1, Placed
  <2>3. TypeIn(w.mem[w.mem[b] - 2]) \in 1 .. 3
    BY <2>2 DEF TNUM_BAG, T_LIST, T_WPOBJ
  <2>4. v.mem[v.mem[b] - 2] = w.mem[w.mem[b] - 2]
    BY <1>32
  <2>5. /\ v.mem[b] - 2 + (2 + SIZE_BAG(w, b)) = v.mem[b] + SIZE_BAG(w, b)
        /\ w.youngBags <= v.mem[b] - 2 /\ v.mem[b] - 2 < s.dst
    BY ONLY <1>2, <1>5, <2>1
  <2>6. v.mem[b] + SIZE_BAG(w, b) \in V
    <3>1. CASE v.mem[b] + SIZE_BAG(w, b) = s.dst
      BY <3>1
    <3>2. CASE v.mem[b] + SIZE_BAG(w, b) # s.dst
      <4>1. PICK c \in m.alive : v.mem[c] - 2 = v.mem[b] + SIZE_BAG(w, b)
        BY <1>34, <3>2
      <4> QED BY <4>1
    <3> QED BY <3>1, <3>2
  <2> QED BY <2>1, <2>2, <2>3, <2>4, <2>5, <2>6
<1>39. Tiles(v, V)
  <2>1. ASSUME NEW a \in V
        PROVE  \/ a \in W /\ a < w.youngBags
               \/ \E b \in m.alive : a = v.mem[b] - 2
               \/ a = s.dst
    OBVIOUS
  <2>2. V \subseteq v.oldBags .. v.allocBags
    <3> SUFFICES ASSUME NEW a \in V PROVE a \in w.oldBags .. s.dst
      BY <1>12
    <3>1. CASE a \in W /\ a < w.youngBags
      BY <1>2, <1>5, <1>36, <3>1
    <3>2. CASE \E b \in m.alive : a = v.mem[b] - 2
      <4>1. PICK b \in m.alive : a = v.mem[b] - 2
        BY <3>2
      <4>2. v.mem[b] \in Int /\ w.youngBags <= v.mem[b] - 2 /\ v.mem[b] - 2 < s.dst
        BY <1>38
      <4> QED BY ONLY <1>2, <1>5, <4>1, <4>2
    <3>3. CASE a = s.dst
      BY <1>2, <1>5, <3>3
    <3> QED BY <2>1, <3>1, <3>2, <3>3
  <2>3. w.oldBags \in V
    <3>1. CASE w.oldBags < w.youngBags
      BY <1>1, <3>1 DEF Tiles
    <3>2. CASE ~ (w.oldBags < w.youngBags)
      <4>1. w.oldBags = w.youngBags
        BY <1>2, <3>2
      <4> QED BY <1>35, <4>1
    <3> QED BY <3>1, <3>2
  <2>4. v.oldBags \in V /\ v.youngBags \in V /\ v.allocBags \in V
    BY <1>12, <2>3
  <2>5. ASSUME NEW a \in V, a < v.allocBags
        PROVE  v.mem[a] \in Nat /\ TypeIn(v.mem[a]) \in 1 .. 3 /\ a + Stride(v.mem[a]) \in V
    <3>1. CASE a \in W /\ a < w.youngBags
      <4>1. /\ v.mem[a] = w.mem[a] /\ w.mem[a] \in Nat /\ TypeIn(w.mem[a]) \in 1 .. 3
            /\ a + Stride(w.mem[a]) \in W /\ a + Stride(w.mem[a]) <= w.youngBags
        BY <1>37, <3>1
      <4>2. a + Stride(w.mem[a]) < w.youngBags \/ a + Stride(w.mem[a]) = w.youngBags
        BY <1>2, <1>36, <4>1
      <4>3. a + Stride(w.mem[a]) \in V
        BY <1>35, <4>1, <4>2
      <4> QED BY <4>1, <4>3
    <3>2. CASE \E b \in m.alive : a = v.mem[b] - 2
      BY <1>38, <3>2
    <3>3. CASE a = s.dst
      BY <1>5, <1>12, <2>5, <3>3
    <3> QED BY <2>1, <3>1, <3>2, <3>3
  <2>6. ASSUME NEW a \in V, NEW e \in V, a < e PROVE a + Stride(v.mem[a]) <= e
    <3>0. /\ a \in Int /\ e \in Int /\ e <= s.dst
      BY <1>2, <1>5, <1>12, <2>2
    <3>1. CASE a \in W /\ a < w.youngBags /\ e \in W
      <4>1. v.mem[a] = w.mem[a]
        BY <1>37, <3>1
      <4> QED BY <1>1, <2>6, <3>1, <4>1 DEF Tiles
    <3>2. CASE a \in W /\ a < w.youngBags /\ w.youngBags <= e
      <4>1. v.mem[a] = w.mem[a] /\ a + Stride(w.mem[a]) <= w.youngBags /\ Stride(w.mem[a]) \in Nat
        BY <1>37, <3>2
      <4> QED BY <1>2, <3>0, <3>2, <4>1
    <3>3. CASE \E b \in m.alive : a = v.mem[b] - 2
      <4>1. PICK b \in m.alive : a = v.mem[b] - 2
        BY <3>3
      <4>2. /\ Stride(v.mem[a]) = 2 + SIZE_BAG(w, b) /\ v.mem[b] \in Int /\ SIZE_BAG(w, b) \in Nat
            /\ a + Stride(v.mem[a]) = v.mem[b] + SIZE_BAG(w, b) /\ w.youngBags <= a
            /\ v.mem[b] + SIZE_BAG(w, b) <= s.dst
        BY <1>38, <4>1
      <4>3. CASE e = s.dst
        BY <4>2, <4>3
      <4>4. CASE e \in W /\ e < w.youngBags
        BY ONLY <1>2, <2>6, <3>0, <4>2, <4>4
      <4>5. CASE \E c \in m.alive : e = v.mem[c] - 2
        <5>1. PICK c \in m.alive : e = v.mem[c] - 2
          BY <4>5
        <5>2. v.mem[c] \in Int /\ SIZE_BAG(w, c) \in Nat
          BY <1>38
        <5>3. w.mem[b] \in Int /\ w.mem[c] \in Int /\ b \in LiveBags(w) /\ c \in LiveBags(w)
          BY <1>6, <1>7
        <5>4. CASE w.mem[b] < w.mem[c]
          BY <1>34, <4>2, <5>1, <5>4
        <5>5. CASE w.mem[c] < w.mem[b]
          <6>1. v.mem[c] + SIZE_BAG(w, c) <= v.mem[b] - 2
            BY <1>34, <5>5
          <6> QED BY ONLY <2>6, <4>1, <4>2, <5>1, <5>2, <6>1
        <5>6. CASE w.mem[b] = w.mem[c]
          <6>1. b = c
            BY <1>1, <5>3, <5>6 DEF Tiles
          <6> QED BY <2>6, <3>0, <4>1, <5>1, <6>1
        <5> QED BY <5>3, <5>4, <5>5, <5>6
      <4> QED BY <2>1, <4>3, <4>4, <4>5
    <3>4. CASE a = s.dst
      BY <1>5, <2>6, <3>0, <3>4
    <3>5. e \in W \/ w.youngBags <= e
      <4>1. \A b \in m.alive : w.youngBags <= v.mem[b] - 2
        BY <1>38
      <4> QED BY <1>5, <2>1, <4>1
    <3> QED BY <2>1, <3>1, <3>2, <3>3, <3>4, <3>5
  <2>7. \A b \in S : v.mem[b] - 2 \in V /\ TNUM_BAG(v, b) # T_DUMMY
    <3> SUFFICES ASSUME NEW b \in S PROVE v.mem[b] - 2 \in V /\ TNUM_BAG(v, b) # T_DUMMY
      OBVIOUS
    <3>1. TNUM_BAG(v, b) # T_DUMMY
      <4>1. b \in LiveBags(w) /\ TNUM_BAG(v, b) = TNUM_BAG(w, b)
        BY <1>33
      <4> QED BY <1>1, <4>1 DEF Tiles
    <3>2. CASE b \in O
      <4>1. /\ v.mem[b] = w.mem[b] /\ w.mem[b] - 2 \in W /\ w.mem[b] \in Int /\ SIZE_BAG(w, b) \in Nat
            /\ w.mem[b] + SIZE_BAG(w, b) <= w.youngBags
        BY <1>19, <1>20, <3>2
      <4>2. w.mem[b] - 2 < w.youngBags
        BY ONLY <1>2, <4>1
      <4> QED BY <3>1, <4>1, <4>2
    <3> QED BY <1>18, <3>1, <3>2
  <2>8. ASSUME NEW a \in V, a < v.allocBags, TypeIn(v.mem[a]) # T_DUMMY PROVE \E b \in S : v.mem[b] = a + 2
    <3>1. CASE a \in W /\ a < w.youngBags
      <4>1. /\ v.mem[a] = w.mem[a] /\ w.mem[a] \in Nat /\ a < w.allocBags
            /\ a + Stride(w.mem[a]) <= w.youngBags
        BY <1>37, <3>1
      <4>2. PICK b \in LiveBags(w) : w.mem[b] = a + 2
        BY <1>1, <2>8, <3>1, <4>1 DEF Tiles
      <4>3. Stride(w.mem[a]) = 2 + SizeIn(w.mem[a]) /\ SizeIn(w.mem[a]) \in Nat
        BY <2>8, <4>1, StrideFacts
      <4>4. w.mem[b] <= w.youngBags
        <5>1. a \in Int
          BY <1>36, <3>1
        <5> QED BY ONLY <1>2, <4>1, <4>2, <4>3, <5>1
      <4>5. b \in O
        BY <4>4 DEF O, IsOld, PTR_BAG
      <4> QED BY <1>18, <1>20, <4>2, <4>5
    <3>2. CASE \E b \in m.alive : a = v.mem[b] - 2
      <4>1. PICK b \in m.alive : a = v.mem[b] - 2
        BY <3>2
      <4>2. v.mem[b] \in Int
        BY <1>38
      <4>3. v.mem[b] = a + 2
        BY ONLY <4>1, <4>2
      <4> QED BY <1>18, <4>3
    <3>3. CASE a = s.dst
      BY <1>5, <1>12, <2>8, <3>3
    <3> QED BY <2>1, <3>1, <3>2, <3>3
  <2>9. ASSUME NEW b \in S, NEW c \in S, v.mem[b] = v.mem[c] PROVE b = c
    <3>1. \A d \in O : v.mem[d] = w.mem[d] /\ w.mem[d] \in Int /\ w.mem[d] <= w.youngBags /\ d \in LiveBags(w)
      <4> SUFFICES ASSUME NEW d \in O PROVE v.mem[d] = w.mem[d] /\ w.mem[d] \in Int /\ w.mem[d] <= w.youngBags /\ d \in LiveBags(w)
        OBVIOUS
      <4>1. v.mem[d] = w.mem[d] /\ w.mem[d] \in Int /\ SIZE_BAG(w, d) \in Nat /\ w.mem[d] + SIZE_BAG(w, d) <= w.youngBags /\ d \in LiveBags(w)
        BY <1>19, <1>20
      <4> QED BY <1>2, <4>1
    <3>2. \A d \in m.alive : v.mem[d] \in Int /\ w.youngBags + 2 <= v.mem[d] /\ SIZE_BAG(w, d) \in Nat /\ d \in LiveBags(w)
      BY <1>21
    <3>3. CASE b \in O /\ c \in O
      BY <1>1, <2>9, <3>1, <3>3 DEF Tiles
    <3>4. CASE b \in O /\ c \in m.alive
      BY <1>2, <2>9, <3>1, <3>2, <3>4
    <3>5. CASE b \in m.alive /\ c \in O
      BY <1>2, <2>9, <3>1, <3>2, <3>5
    <3>6. CASE b \in m.alive /\ c \in m.alive
      <4>1. w.mem[b] \in Int /\ w.mem[c] \in Int
        BY <1>6, <1>7, <3>6
      <4>2. ~ (w.mem[b] < w.mem[c])
        BY <1>34, <2>9, <3>2, <3>6
      <4>3. ~ (w.mem[c] < w.mem[b])
        BY <1>34, <2>9, <3>2, <3>6
      <4>4. w.mem[b] = w.mem[c]
        BY ONLY <4>1, <4>2, <4>3
      <4> QED BY <1>1, <3>2, <3>6, <4>4 DEF Tiles
    <3> QED BY <1>18, <3>3, <3>4, <3>5, <3>6
  <2> HIDE DEF V
  <2> QED BY <1>27, <2>2, <2>4, <2>5, <2>6, <2>7, <2>8, <2>9 DEF Tiles
<1> HIDE DEF V
<1>40. ASSUME NEW b \in S PROVE WordsAt(v, b)
  <2>1. /\ b \in LiveBags(w) /\ TNUM_BAG(v, b) = TNUM_BAG(w, b)
        /\ SIZE_BAG(v, b) = SIZE_BAG(w, b) /\ SIZE_BAG(w, b) \in Nat
        /\ \A i \in 0 .. SIZE_BAG(w, b) - 1 :
              \/ Word(v, b, i) = Word(w, b, i)
              \/ /\ Word(v, b, i) = 0 /\ TNUM_BAG(w, b) = T_WPOBJ
                 /\ Word(w, b, i) \in DeadIds(w) \cup m.halfDead
    BY <1>33
  <2>2. WordsAt(w, b)
    BY <1>1, <2>1 DEF WordsOK
  <2>3. CASE TNUM_BAG(w, b) = T_LIST
    <3>1. \A i \in 0 .. SIZE_BAG(w, b) - 1 : Word(w, b, i) \in S \cup {0}
      BY <2>3 DEF Sweepable, MarksOK, S
    <3>2. T_LIST # T_WPOBJ
      BY DEF T_LIST, T_WPOBJ
    <3> QED BY <1>27, <2>1, <2>3, <3>1, <3>2 DEF WordsAt
  <2>4. CASE TNUM_BAG(w, b) = T_WPOBJ
    <3>1. /\ SIZE_BAG(w, b) >= 2 /\ LenWord(w, b) \in 0 .. SIZE_BAG(w, b) - 1
          /\ \A i \in 1 .. SIZE_BAG(w, b) - 1 :
                /\ Word(w, b, i) \in LiveBags(w) \cup DeadIds(w) \cup {0}
                /\ i > LenWord(w, b) => Word(w, b, i) = 0
      BY <2>2, <2>4 DEF WordsAt
    <3>2. 0 \in 0 .. SIZE_BAG(w, b) - 1 /\ \A i \in 1 .. SIZE_BAG(w, b) - 1 : i \in 0 .. SIZE_BAG(w, b) - 1
      BY <2>1, <3>1
    <3>3. Word(w, b, 0) \notin DeadIds(w) \cup m.halfDead
      <4>1. \A x \in DeadIds(w) \cup m.halfDead : x \in IdsOf(w)
        BY <1>23, <1>24
      <4>2. Word(w, b, 0) \notin IdsOf(w)
        <5> SUFFICES ASSUME Word(w, b, 0) \in IdsOf(w) PROVE FALSE
          OBVIOUS
        <5>1. LenWord(w, b) \in Nat
          BY <3>1
        <5> QED BY <5>1 DEF LenWord, INT_INTOBJ, IdsOf
      <4> QED BY <4>1, <4>2
    <3>4. LenWord(v, b) = LenWord(w, b)
      <4>1. Word(v, b, 0) = Word(w, b, 0)
        BY <2>1, <3>2, <3>3
      <4> QED BY <4>1 DEF LenWord
    <3>5. ASSUME NEW i \in 1 .. SIZE_BAG(w, b) - 1
          PROVE  /\ Word(v, b, i) \in S \cup (DeadIds(w) \cup m.halfDead) \cup {0}
                 /\ i > LenWord(w, b) => Word(v, b, i) = 0
      <4>1. Word(v, b, i) = Word(w, b, i) \/ Word(v, b, i) = 0
        BY <2>1, <3>2
      <4>2. Word(w, b, i) \in LiveBags(w) => Word(w, b, i) \in S \cup m.halfDead
        BY <2>4 DEF Sweepable, MarksOK, S
      <4>3. Word(w, b, i) \in LiveBags(w) \cup DeadIds(w) \cup {0} /\ (i > LenWord(w, b) => Word(w, b, i) = 0)
        BY <3>1
      <4> QED BY <4>1, <4>2, <4>3
    <3>6. T_LIST # T_WPOBJ
      BY DEF T_LIST, T_WPOBJ
    <3> QED BY <1>27, <1>28, <2>1, <2>4, <3>1, <3>4, <3>5, <3>6 DEF WordsAt
  <2>5. TNUM_BAG(w, b) \in {T_LIST, T_WPOBJ}
    BY <1>1, <2>1, Placed
  <2> QED BY <2>3, <2>4, <2>5
<1>41. WordsOK(v)
  BY <1>27, <1>40 DEF WordsOK
<1>42. ZeroOK(v)
  <2> SUFFICES ASSUME NEW a \in s.dst .. Limit PROVE v.mem[a] = 0
    BY <1>12 DEF ZeroOK
  <2>1. a \in 1 .. Limit
    BY ONLY <1>2, <1>5, a \in s.dst .. Limit
  <2>2. CASE a < w.allocBags
    <3>1. a \in s.dst .. w.allocBags - 1
      BY ONLY <1>2, <1>5, <2>2, a \in s.dst .. Limit
    <3> QED BY <1>12, <2>1, <3>1
  <2>3. CASE ~ (a < w.allocBags)
    <3>1. a \notin s.dst .. w.allocBags - 1 /\ a >= w.allocBags /\ a \in w.allocBags .. Limit
      BY ONLY <1>2, <1>5, <2>3, a \in s.dst .. Limit
    <3>2. s.mem[a] = w.mem[a]
      BY <1>3, <1>4, <2>1, <3>1 DEF Untouched
    <3>3. w.mem[a] = 0
      BY <1>1, <3>1 DEF ZeroOK
    <3> QED BY <1>12, <2>1, <3>1, <3>2, <3>3
  <2> QED BY <2>2, <2>3
<1>43. LinksOK(v)
  <2>1. ListedBags(v) = {}
    BY <1>27, <1>33 DEF ListedBags
  <2> QED BY <1>12, <2>1 DEF LinksOK, Chain
<1>44. RemembersOK(v)
  <2> SUFFICES ASSUME NEW b \in LiveBags(v), NEW x \in LiveBags(v) PROVE Remembered(v, x)
    BY DEF RemembersOK, RemembersAt
  <2> QED BY <1>12, <1>26, <1>27 DEF Remembered, IsOld, PTR_BAG
<1>45. Sound(v, V)
  BY <1>13, <1>30, <1>39, <1>41, <1>42, <1>43, <1>44 DEF Sound
<1>46. ASSUME NEW b \in S, IsLastBag(w, b) PROVE IsLastBag(v, b)
  <2>1. w.mem[b] + SIZE_BAG(w, b) = w.allocBags
    BY <1>46 DEF IsLastBag, PTR_BAG
  <2>2. SIZE_BAG(v, b) = SIZE_BAG(w, b)
    BY <1>33
  <2>3. v.mem[b] + SIZE_BAG(w, b) = s.dst
    <3>1. CASE b \in O
      <4>1. /\ v.mem[b] = w.mem[b] /\ w.mem[b] \in Int /\ SIZE_BAG(w, b) \in Nat
            /\ w.mem[b] + SIZE_BAG(w, b) <= w.youngBags
        BY <1>19, <1>20, <3>1
      <4> QED BY ONLY <1>2, <1>5, <2>1, <4>1
    <3>2. CASE b \in m.alive
      <4> SUFFICES ASSUME v.mem[b] + SIZE_BAG(w, b) # s.dst PROVE FALSE
        OBVIOUS
      <4>1. PICK c \in m.alive : v.mem[c] - 2 = v.mem[b] + SIZE_BAG(w, b)
        BY <1>34, <3>2
      <4>2. /\ v.mem[b] \in Int /\ v.mem[c] \in Int /\ SIZE_BAG(w, b) \in Nat /\ SIZE_BAG(w, c) \in Nat
            /\ b \in LiveBags(w) /\ c \in LiveBags(w)
        BY <1>21, <3>2
      <4>3. w.mem[b] \in Int /\ w.mem[c] \in Int /\ w.mem[c] + SIZE_BAG(w, c) <= w.allocBags
        BY <1>6, <1>7, <3>2
      <4>4. b # c
        BY <4>1, <4>2
      <4>5. \/ w.mem[b] + SIZE_BAG(w, b) <= w.mem[c] - 2
            \/ w.mem[c] + SIZE_BAG(w, c) <= w.mem[b] - 2
        BY <1>1, <4>2, <4>4, Apart
      <4>6. w.mem[c] < w.mem[b]
        BY ONLY <1>2, <2>1, <4>2, <4>3, <4>5
      <4>7. v.mem[c] + SIZE_BAG(w, c) <= v.mem[b] - 2
        BY <1>34, <3>2, <4>6
      <4> QED BY ONLY <4>1, <4>2, <4>7
    <3> QED BY <1>18, <3>1, <3>2
  <2> QED BY <1>12, <2>2, <2>3 DEF IsLastBag, PTR_BAG
<1>47. ASSUME NEW b \in m.alive, TNUM_BAG(w, b) = T_WPOBJ,
              NEW i \in 0 .. SIZE_BAG(w, b) - 1, Word(w, b, i) \in DeadIds(w)
       PROVE  Word(v, b, i) = 0
  BY <1>32, <1>47 DEF SweptTo
<1>48. /\ v.nrHalfDead = w.nrHalfDead + Cardinality(m.halfDead)
       /\ \A x \in DeadIds(w) : v.mem[x] = w.mem[x]
       /\ \A x \in m.halfDead : v.mem[x] = w.newMarker
  BY <1>4, <1>9, <1>12, <1>23, <1>24 DEF Released
<1>49. Collected(w, m, v)
  BY <1>5, <1>12, <1>27, <1>28, <1>33, <1>46, <1>47, <1>48 DEF Collected, S
<1> QED BY <1>45, <1>49

(* A collection, from the list of changed bags to the last body.           *)
LEMMA MarkAndSweepSound ==
    ASSUME NEW w, NEW W, Sound(w, W), NEW R, R \subseteq LiveBags(w),
           NEW v, v = MarkAndSweep(w, R)
    PROVE  /\ \E V : Sound(v, V)
           /\ \E m : MarksOK(w, m) /\ R \subseteq Survivors(w, m) /\ Collected(w, m, v)
<1> DEFINE d == DropChangedBags(w)
           m == CollectBags_Mark(w, R)
<1>1. Areas(w) /\ Tiles(w, W) /\ Forgetful(w, W)
  BY DEF Sound, Forgetful
<1>2. /\ Forgetful(d, W) /\ Kept(w, d) /\ d.changed = 0
      /\ \A b \in LiveBags(w) : LINK_BAG(d, b) = b
  BY <1>1, DropSound
<1>3. v = CollectBags_Sweep(d, m)
  BY DEF MarkAndSweep
<1>4. MarksOK(w, m) /\ R \subseteq Survivors(w, m)
  BY MarkSound
<1> HIDE DEF d, m
<1>5. MarksOK(d, m) /\ Survivors(d, m) = Survivors(w, m)
  BY <1>1, <1>2, <1>4, MarksKept
<1>6. /\ d.mptrEnd = w.mptrEnd /\ d.oldBags = w.oldBags /\ d.endBags = w.endBags /\ d.allocBags = w.allocBags
      /\ d.newMarker = w.newMarker /\ d.nrLive = w.nrLive /\ d.nrHalfDead = w.nrHalfDead
      /\ LiveBags(d) = LiveBags(w) /\ DeadIds(d) = DeadIds(w)
      /\ \A x \in IdsOf(w) : d.mem[x] = w.mem[x]
      /\ \A c \in LiveBags(w) : SameBag(w, d, c)
  BY <1>2 DEF Kept, SameAreas
<1>7. Sweepable(d, W, m)
  BY <1>2, <1>5, <1>6 DEF Sweepable
<1>8. (\E V : Sound(v, V)) /\ Collected(d, m, v)
  BY <1>2, <1>3, <1>7, SweepSound
<1>9. Survivors(w, m) \subseteq LiveBags(w)
  BY <1>4 DEF MarksOK, Survivors, YoungBagsOf
<1>10. \A x \in DeadIds(w) : d.mem[x] = w.mem[x]
  BY <1>6 DEF DeadIds
<1>11. ASSUME NEW b \in Survivors(w, m)
       PROVE  /\ TNUM_BAG(d, b) = TNUM_BAG(w, b) /\ SIZE_BAG(d, b) = SIZE_BAG(w, b)
              /\ IsLastBag(w, b) => IsLastBag(d, b)
              /\ \A i \in 0 .. SIZE_BAG(w, b) - 1 : Word(d, b, i) = Word(w, b, i)
  <2>1. SameBag(w, d, b) /\ b \in IdsOf(w)
    BY <1>1, <1>6, <1>9, Placed
  <2>2. d.mem[b] = w.mem[b]
    BY <1>6, <2>1
  <2> QED BY <1>6, <2>1, <2>2 DEF SameBag, IsLastBag, PTR_BAG
<1>12. Collected(w, m, v)
  <2>1. /\ v.mptrEnd = w.mptrEnd /\ v.oldBags = w.oldBags /\ v.endBags = w.endBags
        /\ v.allocBags <= w.allocBags /\ v.newMarker = w.newMarker
        /\ v.nrLive = w.nrLive + Cardinality(m.alive)
        /\ v.nrHalfDead = w.nrHalfDead + Cardinality(m.halfDead)
        /\ LiveBags(v) = Survivors(w, m) /\ DeadIds(v) = DeadIds(w) \cup m.halfDead
        /\ \A x \in DeadIds(w) : v.mem[x] = w.mem[x]
        /\ \A x \in m.halfDead : v.mem[x] = w.newMarker
    BY <1>5, <1>6, <1>8, <1>10 DEF Collected
  <2>2. ASSUME NEW b \in Survivors(w, m)
        PROVE  /\ TNUM_BAG(v, b) = TNUM_BAG(w, b) /\ SIZE_BAG(v, b) = SIZE_BAG(w, b)
               /\ IsLastBag(w, b) => IsLastBag(v, b)
               /\ \A i \in 0 .. SIZE_BAG(w, b) - 1 :
                     \/ Word(v, b, i) = Word(w, b, i)
                     \/ /\ Word(v, b, i) = 0 /\ TNUM_BAG(w, b) = T_WPOBJ
                        /\ Word(w, b, i) \in DeadIds(w) \cup m.halfDead
               /\ b \in m.alive /\ TNUM_BAG(w, b) = T_WPOBJ =>
                     \A i \in 0 .. SIZE_BAG(w, b) - 1 : Word(w, b, i) \in DeadIds(w) => Word(v, b, i) = 0
    <3>1. b \in Survivors(d, m)
      BY <1>5
    <3>2. /\ TNUM_BAG(v, b) = TNUM_BAG(d, b) /\ SIZE_BAG(v, b) = SIZE_BAG(d, b)
          /\ IsLastBag(d, b) => IsLastBag(v, b)
          /\ \A i \in 0 .. SIZE_BAG(d, b) - 1 :
                \/ Word(v, b, i) = Word(d, b, i)
                \/ /\ Word(v, b, i) = 0 /\ TNUM_BAG(d, b) = T_WPOBJ
                   /\ Word(d, b, i) \in DeadIds(d) \cup m.halfDead
          /\ b \in m.alive /\ TNUM_BAG(d, b) = T_WPOBJ =>
                \A i \in 0 .. SIZE_BAG(d, b) - 1 : Word(d, b, i) \in DeadIds(d) => Word(v, b, i) = 0
      BY <1>8, <3>1 DEF Collected
    <3> QED BY <1>6, <1>11, <3>2
  <2> QED BY <2>1, <2>2 DEF Collected
<1> QED BY <1>4, <1>8, <1>12

-----------------------------------------------------------------------------
(* No weak pointer names a masterpointer that is about to be reclaimed.    *)
NoStaleIn(w) ==
    \A b \in LiveBags(w) : TNUM_BAG(w, b) = T_WPOBJ =>
        \A i \in 1 .. SIZE_BAG(w, b) - 1 :
            Word(w, b, i) \in DeadIds(w) => w.mem[Word(w, b, i)] = w.newMarker

(* The same bags, perhaps elsewhere.                                       *)
SameBags(w, v) ==
    /\ v.newMarker = w.newMarker /\ LiveBags(v) = LiveBags(w)
    /\ \A b \in LiveBags(w) : SameBag(w, v, b) /\ (IsLastBag(w, b) => IsLastBag(v, b))

StaleIds(w) == {x \in IdsOf(w) : w.mem[x] \in Markers /\ w.mem[x] # w.newMarker}

(* The greatest of some identifiers below b.                               *)
LEMMA MaxBelow ==
    ASSUME NEW C, NEW top \in Nat, C \subseteq 1 .. top, NEW b \in Nat
    PROVE  LET m == Max({c \in C : c < b} \cup {0})
           IN  /\ m \in C \cup {0} /\ m \in Nat /\ (b > 0 => m < b)
               /\ \A c \in C : c < b => c <= m
<1> DEFINE S == {c \in C : c < b} \cup {0}
<1>1. \A n \in S : n \in Int /\ n \in Nat /\ n <= top
  <2>1. \A n \in C : n \in Int /\ n \in Nat /\ n <= top
    OBVIOUS
  <2>2. \A n \in S : n \in C \/ n = 0
    OBVIOUS
  <2> HIDE DEF S
  <2>3. 0 \in Int /\ 0 \in Nat /\ 0 <= top
    BY ONLY top \in Nat
  <2> QED BY ONLY <2>1, <2>2, <2>3
<1>2. \E x \in S : \A y \in S : y <= x
  <2>1. S # {}
    OBVIOUS
  <2> HIDE DEF S
  <2>2. S \in SUBSET Int /\ \A n \in S : n <= top
    BY <1>1
  <2>3. top \in Int
    OBVIOUS
  <2> QED BY ONLY <2>1, <2>2, <2>3, IntGreatest
<1>3. \E x \in S : \A y \in S : x >= y
  <2> HIDE DEF S
  <2> QED BY <1>1, <1>2
<1>4. Max(S) \in S /\ \A y \in S : Max(S) >= y
  <2> HIDE DEF S
  <2> QED BY ONLY <1>3, Zenon DEF Max
<1>5. Max(S) \in Nat
  <2> HIDE DEF S
  <2> QED BY <1>1, <1>4
<1> DEFINE m == Max(S)
<1> HIDE DEF m
<1>6. m \in S /\ m \in Nat /\ \A y \in S : m >= y
  BY <1>4, <1>5 DEF m
<1>7. /\ m \in C \cup {0} /\ m \in Nat /\ (b > 0 => m < b) /\ \A c \in C : c < b => c <= m
  BY <1>6
<1> QED BY <1>7 DEF m

(* The masterpointers that a full collection finds free.                   *)
FoundFree(w) == StaleIds(w) \cup FreeIds(w)
BelowIn(w, b) == Max({c \in FoundFree(w) : c < b} \cup {0})

Reclaims(w, v) ==
    /\ v \in Workspace /\ SameAreas(w, v) /\ v.changed = w.changed /\ v.newMarker = w.newMarker
    /\ v.nrLive = w.nrLive /\ v.nrHalfDead = w.nrHalfDead - Cardinality(StaleIds(w))
    /\ v.freeMptr = BelowIn(w, w.mptrEnd)
    /\ \A a \in 1 .. Limit : v.mem[a] = IF a \in FoundFree(w) THEN BelowIn(w, a) ELSE w.mem[a]

(* The fields that ReclaimMptrs leaves.                                    *)
LEMMA ReclaimFields ==
    ASSUME NEW w, Areas(w)
    PROVE  Reclaims(w, ReclaimMptrs(w))
<1> DEFINE v == ReclaimMptrs(w)
           old == CHOOSE x \in Markers : x # w.newMarker
           stale == {b \in 1 .. w.mptrEnd - 1 : w.mem[b] = old}
           free == stale \cup {b \in 1 .. w.mptrEnd - 1 : w.mem[b] = 0 \/ IS_BAG_ID(w, w.mem[b])}
           Bel(b) == Max({c \in free : c < b} \cup {0})
           mm == [a \in 1 .. Limit |-> IF a \in free THEN Bel(a) ELSE w.mem[a]]
           k == Cardinality(stale)
<1>1. w \in Workspace /\ w.mem \in [1 .. Limit -> Int]
  BY AreaFacts DEF Areas
<1>2. /\ w.mptrEnd \in Nat /\ 1 <= w.mptrEnd /\ Limit \in Nat /\ w.mptrEnd <= Limit + 1
      /\ w.nrHalfDead \in Int /\ w.newMarker \in Markers
  BY AreaNumbers, AreaFacts
<1>3. v = [w EXCEPT !.freeMptr = Bel(w.mptrEnd), !.mem = mm, !.nrHalfDead = w.nrHalfDead - k]
  BY ONLY <1>1 DEF ReclaimMptrs, Workspace
<1>4. old \in Markers /\ old # w.newMarker
  BY DEF Markers
<1>5. \A x : x = old <=> x \in Markers /\ x # w.newMarker
  BY <1>2, <1>4 DEF Markers
<1> HIDE DEF old
<1>6. stale = StaleIds(w)
  BY <1>5 DEF StaleIds, IdsOf
<1>7. free = FoundFree(w)
  BY <1>6 DEF FoundFree, FreeIds, IdsOf, IS_BAG_ID
<1> HIDE DEF v, stale
<1>8. \A b : Bel(b) = BelowIn(w, b)
  BY ONLY <1>7 DEF BelowIn
<1> HIDE DEF free
<1>9. \A b \in Nat : BelowIn(w, b) \in Nat
  <2>1. FoundFree(w) \subseteq 1 .. w.mptrEnd - 1
    BY DEF FoundFree, StaleIds, FreeIds, IdsOf
  <2>2. w.mptrEnd - 1 \in Nat
    BY <1>2
  <2> QED BY <2>1, <2>2, MaxBelow DEF BelowIn
<1> HIDE DEF Bel
<1>10. \A a \in 1 .. Limit : (IF a \in free THEN Bel(a) ELSE w.mem[a]) \in Int
  <2>1. \A a \in 1 .. Limit : w.mem[a] \in Int
    BY ONLY <1>1
  <2>2. \A a \in 1 .. Limit : a \in Nat
    OBVIOUS
  <2>3. \A a \in 1 .. Limit : Bel(a) \in Nat
    BY ONLY <1>8, <1>9, <2>2
  <2> QED BY ONLY <2>1, <2>3
<1>11. mm \in [1 .. Limit -> Int]
  BY ONLY <1>10 DEF mm
<1>12. \A a \in 1 .. Limit : mm[a] = IF a \in FoundFree(w) THEN BelowIn(w, a) ELSE w.mem[a]
  BY ONLY <1>7, <1>8 DEF mm
<1> HIDE DEF mm
<1>13. k \in Nat /\ k = Cardinality(StaleIds(w))
  <2>1. StaleIds(w) \subseteq IdsOf(w)
    BY DEF StaleIds
  <2> QED BY <1>6, <2>1, FewIds
<1> HIDE DEF k
<1>14. w.nrHalfDead - k \in Int /\ Bel(w.mptrEnd) \in Nat
  BY <1>2, <1>8, <1>9, <1>13
<1>15. v \in Workspace
  BY ONLY <1>1, <1>3, <1>11, <1>14 DEF Workspace
<1>16. /\ v.mem = mm /\ SameAreas(w, v) /\ v.changed = w.changed /\ v.newMarker = w.newMarker
       /\ v.nrLive = w.nrLive /\ v.nrHalfDead = w.nrHalfDead - k /\ v.freeMptr = Bel(w.mptrEnd)
  BY ONLY <1>1, <1>3 DEF Workspace, SameAreas
<1> QED BY <1>8, <1>12, <1>13, <1>15, <1>16 DEF Reclaims, v

(* The list of free masterpointers is rebuilt, and no bag notices.         *)
LEMMA ReclaimSound ==
    ASSUME NEW w, NEW W, Sound(w, W), NoStaleIn(w), NEW v, v = ReclaimMptrs(w)
    PROVE  /\ Sound(v, W) /\ SameBags(w, v) /\ SameAreas(w, v) /\ v.nrLive = w.nrLive
           /\ v.nrHalfDead = w.nrHalfDead - Cardinality(StaleIds(w))
           /\ DeadIds(v) = DeadIds(w) \ StaleIds(w)
           /\ \A x \in DeadIds(v) : v.mem[x] = w.mem[x]
<1>1. Areas(w) /\ Tiles(w, W) /\ WordsOK(w) /\ LinksOK(w) /\ MptrsOK(w) /\ ZeroOK(w) /\ RemembersOK(w)
  BY DEF Sound
<1>2. /\ w.mptrEnd \in Nat /\ w.oldBags \in Nat /\ w.youngBags \in Nat
      /\ w.allocBags \in Nat /\ Limit \in Nat /\ 1 <= w.mptrEnd /\ w.mptrEnd <= w.oldBags
      /\ w.oldBags <= w.allocBags /\ w.allocBags <= Limit + 1 /\ w.mptrEnd <= Limit + 1
  BY <1>1, AreaNumbers
<1>3. Reclaims(w, v)
  BY <1>1, ReclaimFields
<1>4. /\ v \in Workspace /\ SameAreas(w, v) /\ v.changed = w.changed /\ v.newMarker = w.newMarker
      /\ v.nrLive = w.nrLive /\ v.nrHalfDead = w.nrHalfDead - Cardinality(StaleIds(w))
      /\ v.freeMptr = BelowIn(w, w.mptrEnd)
      /\ \A a \in 1 .. Limit : v.mem[a] = IF a \in FoundFree(w) THEN BelowIn(w, a) ELSE w.mem[a]
  BY <1>3 DEF Reclaims
<1>5. /\ Areas(v) /\ v.mptrEnd = w.mptrEnd /\ v.oldBags = w.oldBags /\ v.youngBags = w.youngBags
      /\ v.allocBags = w.allocBags
  BY <1>1, <1>4 DEF Areas, SameAreas
<1> DEFINE F == FoundFree(w)
<1>6. F \subseteq 1 .. w.mptrEnd - 1 /\ w.mptrEnd - 1 \in Nat
  BY <1>2 DEF FoundFree, StaleIds, FreeIds, IdsOf
<1>7. \A b \in Nat : /\ BelowIn(w, b) \in F \cup {0} /\ BelowIn(w, b) \in Nat
                     /\ b > 0 => BelowIn(w, b) < b
                     /\ \A c \in F : c < b => c <= BelowIn(w, b)
  BY <1>6, MaxBelow DEF BelowIn
<1> HIDE DEF F
<1>8. ASSUME NEW x \in F PROVE x \in Nat /\ x > 0 /\ x \in 1 .. Limit /\ v.mem[x] = BelowIn(w, x) /\ x \in IdsOf(w)
  <2>1. x \in 1 .. w.mptrEnd - 1
    BY <1>6
  <2>2. x \in Nat /\ x > 0 /\ x \in 1 .. Limit
    BY <1>2, <2>1
  <2> QED BY <1>4, <2>1, <2>2 DEF F, IdsOf
<1>9. ASSUME NEW a \in 1 .. Limit, a \notin F PROVE v.mem[a] = w.mem[a]
  BY <1>4, <1>9 DEF F
<1>10. ASSUME NEW a \in 1 .. Limit, a >= w.mptrEnd PROVE v.mem[a] = w.mem[a]
  <2>1. a \notin F
    BY <1>2, <1>6, <1>10
  <2> QED BY <1>9, <2>1
<1>11. ASSUME NEW b \in LiveBags(w) PROVE b \notin F /\ b \in 1 .. Limit /\ v.mem[b] = w.mem[b] /\ b \in IdsOf(w)
  <2>1. /\ b \in IdsOf(w) /\ b \in 1 .. Limit /\ w.mem[b] \in Int /\ w.oldBags + 2 <= w.mem[b]
    BY <1>1, Placed
  <2>2. b \notin F
    <3>1. b \in F => w.mem[b] \in Markers \/ w.mem[b] = 0 \/ w.mem[b] \in IdsOf(w)
      BY DEF F, FoundFree, StaleIds, FreeIds
    <3> QED BY ONLY <1>2, <2>1, <3>1 DEF Markers, IdsOf
  <2> QED BY <1>9, <2>1, <2>2
<1>12. ASSUME NEW x \in IdsOf(w), x \notin F, x \notin LiveBags(w)
       PROVE  x \in DeadIds(w) \ StaleIds(w) /\ v.mem[x] = w.mem[x]
  <2>1. x \in FreeIds(w) \cup LiveBags(w) \cup DeadIds(w)
    BY <1>1 DEF MptrsOK
  <2>2. x \in 1 .. Limit
    BY ONLY <1>2, x \in IdsOf(w) DEF IdsOf
  <2> QED BY <1>9, <1>12, <2>1, <2>2 DEF F, FoundFree
<1>13. ASSUME NEW x \in F PROVE v.mem[x] = 0 \/ v.mem[x] \in IdsOf(w)
  <2>1. x \in Nat /\ v.mem[x] = BelowIn(w, x)
    BY <1>8
  <2> QED BY <1>7, <1>8, <2>1
<1>14. IdsOf(v) = IdsOf(w)
  BY <1>5 DEF IdsOf
<1>15. LiveBags(v) = LiveBags(w)
  <2>1. ASSUME NEW x \in IdsOf(w) PROVE x \in LiveBags(v) <=> x \in LiveBags(w)
    <3>1. CASE x \in LiveBags(w)
      BY <1>5, <1>11, <3>1 DEF LiveBags
    <3>2. CASE x \in F
      <4>1. x \notin LiveBags(w)
        BY <1>11, <3>2
      <4>2. ~ (w.oldBags + 2 <= v.mem[x])
        BY ONLY <1>2, <1>13, <3>2 DEF IdsOf
      <4> QED BY <1>5, <4>1, <4>2 DEF LiveBags, HeaderWords
    <3>3. CASE x \notin F /\ x \notin LiveBags(w)
      <4>1. v.mem[x] = w.mem[x]
        BY <1>12, <3>3
      <4> QED BY <1>5, <3>3, <4>1 DEF LiveBags
    <3> QED BY <3>1, <3>2, <3>3
  <2> QED BY <1>5, <2>1 DEF LiveBags, IdsOf
<1>16. DeadIds(v) = DeadIds(w) \ StaleIds(w) /\ \A x \in DeadIds(v) : v.mem[x] = w.mem[x]
  <2>1. ASSUME NEW x \in DeadIds(v) PROVE x \in DeadIds(w) \ StaleIds(w) /\ v.mem[x] = w.mem[x]
    <3>1. x \in IdsOf(w) /\ v.mem[x] \in Markers
      BY <1>14 DEF DeadIds
    <3>2. x \notin F
      BY <1>13, <3>1 DEF Markers, IdsOf
    <3>3. x \notin LiveBags(w)
      <4>1. x \in LiveBags(w) => w.oldBags + 2 <= v.mem[x]
        BY <1>5, <1>15 DEF LiveBags, HeaderWords
      <4> QED BY ONLY <1>2, <3>1, <4>1 DEF Markers
    <3> QED BY <1>12, <3>1, <3>2, <3>3
  <2>2. ASSUME NEW x \in DeadIds(w), x \notin StaleIds(w) PROVE x \in DeadIds(v)
    <3>1. x \in IdsOf(w) /\ w.mem[x] \in Markers
      BY DEF DeadIds
    <3>2. x \notin FreeIds(w)
      <4>1. x \in FreeIds(w) => w.mem[x] = 0 \/ w.mem[x] \in IdsOf(w)
        BY DEF FreeIds
      <4> QED BY ONLY <3>1, <4>1 DEF Markers, IdsOf
    <3>3. x \notin F
      BY <2>2, <3>2 DEF F, FoundFree
    <3>4. x \in 1 .. Limit
      BY ONLY <1>2, <3>1 DEF IdsOf
    <3>5. v.mem[x] = w.mem[x]
      BY <1>9, <3>3, <3>4
    <3> QED BY <1>14, <3>1, <3>5 DEF DeadIds
  <2> QED BY <2>1, <2>2
<1>17. FreeIds(v) = F
  <2>1. ASSUME NEW x \in FreeIds(v) PROVE x \in F
    <3>1. x \in IdsOf(w) /\ (v.mem[x] = 0 \/ v.mem[x] \in IdsOf(w))
      BY <1>14 DEF FreeIds
    <3>2. x \notin LiveBags(w)
      <4>1. x \in LiveBags(w) => w.oldBags + 2 <= v.mem[x]
        BY <1>5, <1>15 DEF LiveBags, HeaderWords
      <4> QED BY ONLY <1>2, <3>1, <4>1 DEF IdsOf
    <3>3. x \in DeadIds(w) => w.mem[x] \in Markers
      BY DEF DeadIds
    <3>4. v.mem[x] \notin Markers
      BY ONLY <3>1 DEF Markers, IdsOf
    <3> QED BY <1>12, <3>1, <3>2, <3>3, <3>4
  <2>2. \A x \in F : x \in FreeIds(v)
    BY <1>8, <1>13, <1>14 DEF FreeIds
  <2> QED BY <2>1, <2>2
<1>18. MptrsOK(v)
  <2>1. \A b \in F : b \in 1 .. w.mptrEnd - 1 /\ b \in Nat /\ b > 0 /\ b < w.mptrEnd
    BY <1>2, <1>6
  <2>2. v.freeMptr \in F \cup {0}
    BY <1>2, <1>4, <1>7
  <2>3. \A b \in F : v.mem[b] \in F \cup {0} /\ v.mem[b] < b
    BY <1>7, <1>8, <2>1
  <2>4. \A b, c \in F : c < b => c <= v.mem[b]
    BY <1>7, <1>8
  <2>5. \A b \in F : b <= v.freeMptr
    BY <1>2, <1>4, <1>7, <2>1
  <2>6. Chain(v.freeMptr, v.mem, F)
    BY <1>6, <2>1, <2>2, <2>3, <2>4, <2>5, ChainDescending
  <2>7. \A x \in IdsOf(v) : x \in FreeIds(v) \cup LiveBags(v) \cup DeadIds(v)
    BY <1>12, <1>14, <1>15, <1>16, <1>17
  <2> QED BY <1>17, <2>6, <2>7 DEF MptrsOK
<1>19. ASSUME NEW b \in LiveBags(w)
       PROVE  /\ SameBag(w, v, b) /\ LINK_BAG(v, b) = LINK_BAG(w, b)
              /\ IsLastBag(w, b) => IsLastBag(v, b)
              /\ IsOld(v, b) <=> IsOld(w, b)
  <2>1. /\ w.mem[b] \in Int /\ w.oldBags + 2 <= w.mem[b] /\ SIZE_BAG(w, b) \in Nat
        /\ w.mem[b] + SIZE_BAG(w, b) <= w.allocBags /\ v.mem[b] = w.mem[b]
    BY <1>1, <1>11, Placed
  <2>2. /\ w.mem[b] - 2 \in 1 .. Limit /\ w.mem[b] - 2 >= w.mptrEnd
        /\ w.mem[b] - 1 \in 1 .. Limit /\ w.mem[b] - 1 >= w.mptrEnd
    BY ONLY <1>2, <2>1
  <2>3. ASSUME NEW i \in 0 .. SIZE_BAG(w, b) - 1 PROVE w.mem[b] + i \in 1 .. Limit /\ w.mem[b] + i >= w.mptrEnd
    BY ONLY <1>2, <2>1, i \in 0 .. SIZE_BAG(w, b) - 1
  <2>4. v.mem[w.mem[b] - 2] = w.mem[w.mem[b] - 2] /\ v.mem[w.mem[b] - 1] = w.mem[w.mem[b] - 1]
    BY <1>10, <2>2
  <2>5. \A i \in 0 .. SIZE_BAG(w, b) - 1 : Word(v, b, i) = Word(w, b, i)
    BY <1>10, <2>1, <2>3 DEF Word
  <2> QED BY <1>5, <2>1, <2>4, <2>5 DEF SameBag, LINK_BAG, TNUM_BAG, SIZE_BAG, IsLastBag, IsOld, PTR_BAG
<1>20. LinksOK(v)
  BY <1>1, <1>4, <1>15, <1>19, LinksKept
<1>21. ZeroOK(v)
  <2> SUFFICES ASSUME NEW a \in w.allocBags .. Limit PROVE v.mem[a] = 0
    BY <1>5 DEF ZeroOK
  <2>1. a \in 1 .. Limit /\ a >= w.mptrEnd
    BY ONLY <1>2, a \in w.allocBags .. Limit
  <2> QED BY <1>1, <1>10, <2>1 DEF ZeroOK
<1>22. ASSUME NEW a \in W, a < w.allocBags PROVE v.mem[a] = w.mem[a]
  <2>1. a \in Int /\ w.oldBags <= a
    BY <1>1, <1>2 DEF Tiles
  <2>2. a \in 1 .. Limit /\ a >= w.mptrEnd
    BY ONLY <1>2, <1>22, <2>1
  <2> QED BY <1>10, <2>2
<1>23. Tiles(v, W)
  <2>1. W \subseteq v.oldBags .. v.allocBags /\ v.oldBags \in W /\ v.youngBags \in W /\ v.allocBags \in W
    BY <1>1, <1>5 DEF Tiles
  <2>2. \A a \in W : a < v.allocBags =>
          /\ v.mem[a] \in Nat /\ TypeIn(v.mem[a]) \in 1 .. 3
          /\ a + Stride(v.mem[a]) \in W
    BY <1>1, <1>5, <1>22 DEF Tiles
  <2>3. ASSUME NEW a \in W, NEW e \in W, a < e PROVE a + Stride(v.mem[a]) <= e
    <3>1. a < w.allocBags
      BY <1>1, <1>2, <2>3 DEF Tiles
    <3> QED BY <1>1, <1>22, <2>3, <3>1 DEF Tiles
  <2>4. \A d \in LiveBags(v) : v.mem[d] - 2 \in W /\ TNUM_BAG(v, d) # T_DUMMY
    BY <1>1, <1>11, <1>15, <1>19 DEF Tiles, SameBag
  <2>5. \A a \in W : a < v.allocBags /\ TypeIn(v.mem[a]) # T_DUMMY => \E d \in LiveBags(v) : v.mem[d] = a + 2
    BY <1>1, <1>5, <1>11, <1>15, <1>22 DEF Tiles
  <2>6. \A d, e \in LiveBags(v) : v.mem[d] = v.mem[e] => d = e
    BY <1>1, <1>11, <1>15 DEF Tiles
  <2> QED BY <2>1, <2>2, <2>3, <2>4, <2>5, <2>6 DEF Tiles
<1>24. WordsOK(v)
  <2> SUFFICES ASSUME NEW b \in LiveBags(w) PROVE WordsAt(v, b)
    BY <1>15 DEF WordsOK
  <2>1. WordsAt(w, b) /\ SIZE_BAG(w, b) \in Nat /\ SameBag(w, v, b) /\ TNUM_BAG(w, b) \in {T_LIST, T_WPOBJ}
    BY <1>1, <1>19, Placed DEF WordsOK
  <2>2. CASE TNUM_BAG(w, b) = T_LIST
    BY <1>15, <2>1, <2>2 DEF WordsAt, SameBag, T_LIST, T_WPOBJ
  <2>3. CASE TNUM_BAG(w, b) = T_WPOBJ
    <3>1. /\ SIZE_BAG(w, b) >= 2 /\ LenWord(w, b) \in 0 .. SIZE_BAG(w, b) - 1
          /\ \A i \in 1 .. SIZE_BAG(w, b) - 1 :
                /\ Word(w, b, i) \in LiveBags(w) \cup DeadIds(w) \cup {0}
                /\ i > LenWord(w, b) => Word(w, b, i) = 0
      BY <2>1, <2>3 DEF WordsAt
    <3>2. 0 \in 0 .. SIZE_BAG(w, b) - 1 /\ \A i \in 1 .. SIZE_BAG(w, b) - 1 : i \in 0 .. SIZE_BAG(w, b) - 1
      BY <2>1, <3>1
    <3>3. LenWord(v, b) = LenWord(w, b) /\ \A i \in 1 .. SIZE_BAG(w, b) - 1 : Word(v, b, i) = Word(w, b, i)
      BY <2>1, <3>2 DEF SameBag, LenWord
    <3>4. \A i \in 1 .. SIZE_BAG(w, b) - 1 : Word(w, b, i) \in DeadIds(w) => Word(w, b, i) \in DeadIds(v)
      <4>1. \A i \in 1 .. SIZE_BAG(w, b) - 1 : Word(w, b, i) \in DeadIds(w) => Word(w, b, i) \notin StaleIds(w)
        BY <2>3 DEF NoStaleIn, StaleIds
      <4> QED BY <1>16, <4>1
    <3>5. TNUM_BAG(v, b) = T_WPOBJ /\ SIZE_BAG(v, b) = SIZE_BAG(w, b) /\ T_LIST # T_WPOBJ
      BY <2>1, <2>3 DEF SameBag, T_LIST, T_WPOBJ
    <3> QED BY <1>15, <3>1, <3>3, <3>4, <3>5 DEF WordsAt
  <2> QED BY <2>1, <2>2, <2>3
<1>25. RemembersOK(v)
  <2> SUFFICES ASSUME NEW b \in LiveBags(w) PROVE RemembersAt(v, b)
    BY <1>15 DEF RemembersOK
  <2>1. RemembersAt(w, b) /\ SameBag(w, v, b)
    BY <1>1, <1>19 DEF RemembersOK
  <2>2. \A x \in LiveBags(v) : Remembered(w, x) => Remembered(v, x)
    BY <1>15, <1>19 DEF Remembered
  <2> QED BY <1>15, <1>19, <2>1, <2>2, RemembersKept
<1>26. Sound(v, W)
  BY <1>5, <1>18, <1>20, <1>21, <1>23, <1>24, <1>25 DEF Sound
<1>27. SameBags(w, v)
  BY <1>4, <1>15, <1>19 DEF SameBags
<1> QED BY <1>4, <1>16, <1>26, <1>27

(* Whole blocks.                                                           *)
LEMMA Blocks ==
    ASSUME NEW k \in Nat
    PROVE  /\ k * Block \in Nat /\ 0 * Block = 0 /\ 1 * Block = Block
           /\ k # 0 => (k - 1) * Block + Block = k * Block
<1>1. Block \in Nat
  BY LayoutAssumption
<1> QED BY ONLY <1>1, k \in Nat

(* The workspace has less than one block more than Limit \div Block of     *)
(* them.                                                                   *)
LEMMA MostBlocks == Limit \div Block \in Nat /\ (Limit \div Block) * Block + Block > Limit
<1>1. Block \in Nat /\ Block > 0 /\ Limit \in Nat
  BY LayoutAssumption
<1> QED BY ONLY <1>1

(* The least element of a set of numbers.                                  *)
LEMMA LeastOf ==
    ASSUME NEW S, S \subseteq Nat, S # {}
    PROVE  Min(S) \in S /\ \A y \in S : Min(S) <= y
<1>1. \E x \in S : \A y \in S : x <= y
  BY NatLeast
<1> QED BY ONLY <1>1, Zenon DEF Min

(* ExtendToStop only adds, and stays within the limit.                     *)
LEMMA ExtendBounds ==
    ASSUME NEW end \in Nat, NEW stop \in Nat, end <= Limit + 1
    PROVE  /\ ExtendToStop(end, stop) \in Nat /\ end <= ExtendToStop(end, stop)
           /\ ExtendToStop(end, stop) <= Limit + 1
<1> DEFINE blocks == (stop - end + Block - 1) \div Block
<1>1. Block \in Nat /\ Block > 0 /\ Limit \in Nat
  BY LayoutAssumption
<1>2. CASE end < stop /\ SyAllocBags(end, blocks)
  <2>1. blocks \in Nat
    <3>1. stop - end + Block - 1 \in Nat
      BY ONLY <1>1, <1>2, end \in Nat, stop \in Nat
    <3> QED BY ONLY <1>1, <3>1
  <2>2. ExtendToStop(end, stop) = end + blocks * Block /\ end + blocks * Block <= Limit + 1
    BY <1>2 DEF ExtendToStop, SyAllocBags
  <2> HIDE DEF blocks
  <2>3. blocks * Block \in Nat
    BY <2>1, Blocks
  <2> DEFINE x == blocks * Block
  <2> HIDE DEF x
  <2>4. x \in Nat /\ ExtendToStop(end, stop) = end + x /\ end + x <= Limit + 1
    BY <2>2, <2>3 DEF x
  <2> QED BY ONLY <1>1, <2>4, end \in Nat
<1>3. CASE ~ (end < stop /\ SyAllocBags(end, blocks))
  <2>1. ExtendToStop(end, stop) = end
    BY <1>3 DEF ExtendToStop
  <2> QED BY <2>1
<1> QED BY <1>2, <1>3

(* The blocks that AdjustEnd asks for fit into the limit.                  *)
LEMMA GrownBounds ==
    ASSUME NEW w, NEW end \in Nat, NEW stop \in Nat, 1 <= end, end <= Limit + 1
    PROVE  LET Grown(k) == end + k * Block
               k == Min({k \in 0 .. Limit \div Block : ~(TooFull(w, Grown(k), stop) /\ SyAllocBags(Grown(k), 1))})
           IN  k \in Nat /\ Grown(k) \in Nat /\ end <= Grown(k) /\ Grown(k) <= Limit + 1
<1> DEFINE Grown(k) == end + k * Block
           K == {k \in 0 .. Limit \div Block : ~(TooFull(w, Grown(k), stop) /\ SyAllocBags(Grown(k), 1))}
           k == Min(K)
           most == Limit \div Block
<1>1. Block \in Nat /\ Block > 0 /\ Limit \in Nat /\ most \in Nat /\ most * Block + Block > Limit
  BY LayoutAssumption, MostBlocks
<1>2. \A n : SyAllocBags(Grown(n), 1) <=> end + n * Block + Block <= Limit + 1
  <2>1. 1 * Block = Block
    BY Blocks
  <2> QED BY ONLY <2>1 DEF SyAllocBags
<1>3. K \subseteq Nat /\ K # {}
  <2>1. most \in 0 .. most
    BY ONLY <1>1
  <2>2. ~ SyAllocBags(Grown(most), 1)
    <3>1. most * Block \in Nat
      BY <1>1, Blocks
    <3> HIDE DEF most
    <3>2. ~ (end + most * Block + Block <= Limit + 1)
      <4> DEFINE x == most * Block
      <4>1. x \in Nat /\ x + Block > Limit
        BY <1>1, <3>1
      <4> HIDE DEF x
      <4>2. ~ (end + x + Block <= Limit + 1)
        BY ONLY <1>1, <4>1, end \in Nat, 1 <= end
      <4> QED BY <4>2 DEF x
    <3> QED BY <1>2, <3>2
  <2>3. most \in K
    BY <2>1, <2>2
  <2>4. \A x \in K : x \in 0 .. most
    OBVIOUS
  <2> HIDE DEF K, most
  <2> QED BY ONLY <1>1, <2>3, <2>4
<1>4. k \in K /\ \A y \in K : k <= y
  <2> HIDE DEF K
  <2> QED BY <1>3, LeastOf
<1>5. k \in Nat /\ k <= most
  BY ONLY <1>1, <1>4
<1>6. k * Block \in Nat
  BY <1>5, Blocks
<1>7. CASE k = 0
  <2>1. Grown(k) = end
    <3>1. 0 * Block = 0
      BY Blocks
    <3> QED BY <1>7, <3>1
  <2> QED BY <1>1, <1>5, <2>1
<1>8. CASE k # 0
  <2>1. k - 1 \in 0 .. most /\ k - 1 \in Nat /\ ~ (k <= k - 1)
    BY ONLY <1>1, <1>5, <1>8
  <2>2. k - 1 \notin K
    BY ONLY <1>4, <2>1
  <2>3. SyAllocBags(Grown(k - 1), 1)
    BY <2>1, <2>2
  <2>4. end + (k - 1) * Block + Block <= Limit + 1
    BY <1>2, <2>3
  <2>5. (k - 1) * Block + Block = k * Block /\ (k - 1) * Block \in Nat
    BY <1>5, <1>8, <2>1, Blocks
  <2> DEFINE x == (k - 1) * Block
             y == k * Block
  <2>6. x \in Nat /\ y \in Nat /\ end + x + Block <= Limit + 1 /\ x + Block = y
    BY <1>6, <2>4, <2>5
  <2> HIDE DEF x, y
  <2>7. end + y <= Limit + 1 /\ end + y \in Nat /\ end <= end + y
    BY ONLY <1>1, <2>6, end \in Nat
  <2> QED BY <1>5, <2>7 DEF y
<1> QED BY <1>7, <1>8

(* The blocks that AdjustEnd gives back are not needed.                    *)
LEMMA ShrunkBounds ==
    ASSUME NEW w, NEW end \in Nat, NEW stop \in Nat, stop <= end, end <= Limit + 1
    PROVE  LET Shrunk(j) == end - j * Block
               j == Min({j \in 0 .. Limit \div Block : ~(TooEmpty(w, Shrunk(j), stop) /\ SyFreeBags(Shrunk(j)))})
           IN  Shrunk(j) \in Nat /\ stop <= Shrunk(j) /\ Shrunk(j) <= end
<1> DEFINE Shrunk(j) == end - j * Block
           J == {j \in 0 .. Limit \div Block : ~(TooEmpty(w, Shrunk(j), stop) /\ SyFreeBags(Shrunk(j)))}
           j == Min(J)
           most == Limit \div Block
<1>1. Block \in Nat /\ Block > 0 /\ Limit \in Nat /\ most \in Nat /\ most * Block + Block > Limit
  BY LayoutAssumption, MostBlocks
<1>2. InitEnd \in Nat /\ InitEnd > 0 /\ FullSpare \in Nat
  BY LayoutAssumption
<1>3. J \subseteq Nat /\ J # {}
  <2>1. most \in 0 .. most
    BY ONLY <1>1
  <2>2. ~ SyFreeBags(Shrunk(most))
    <3>1. most * Block \in Nat
      BY <1>1, Blocks
    <3> HIDE DEF most
    <3> DEFINE x == most * Block
    <3>2. x \in Nat /\ x + Block > Limit
      BY <1>1, <3>1
    <3> HIDE DEF x
    <3>3. ~ (end - x - Block >= InitEnd)
      BY ONLY <1>1, <1>2, <3>2, end \in Nat, end <= Limit + 1
    <3> QED BY <3>3 DEF x, SyFreeBags
  <2>3. most \in J
    BY <2>1, <2>2
  <2>4. \A x \in J : x \in 0 .. most
    OBVIOUS
  <2> HIDE DEF J, most
  <2> QED BY ONLY <1>1, <2>3, <2>4
<1>4. j \in J /\ \A y \in J : j <= y
  <2> HIDE DEF J
  <2> QED BY <1>3, LeastOf
<1>5. j \in Nat /\ j <= most
  BY ONLY <1>1, <1>4
<1>6. j * Block \in Nat
  BY <1>5, Blocks
<1>7. CASE j = 0
  <2>1. Shrunk(j) = end
    <3>1. 0 * Block = 0
      BY Blocks
    <3> QED BY <1>7, <3>1
  <2> QED BY <1>1, <1>5, <2>1
<1>8. CASE j # 0
  <2>1. j - 1 \in 0 .. most /\ j - 1 \in Nat /\ ~ (j <= j - 1)
    BY ONLY <1>1, <1>5, <1>8
  <2>2. j - 1 \notin J
    BY ONLY <1>4, <2>1
  <2>3. TooEmpty(w, Shrunk(j - 1), stop)
    BY <2>1, <2>2
  <2>4. end - (j - 1) * Block - stop > FullSpare + Block
    BY <2>3 DEF TooEmpty
  <2>5. (j - 1) * Block + Block = j * Block /\ (j - 1) * Block \in Nat
    BY <1>5, <1>8, <2>1, Blocks
  <2> DEFINE x == (j - 1) * Block
             y == j * Block
  <2>6. x \in Nat /\ y \in Nat /\ end - x - stop > FullSpare + Block /\ x + Block = y
    BY <1>6, <2>4, <2>5
  <2> HIDE DEF x, y
  <2>7. end - y \in Nat /\ stop <= end - y /\ end - y <= end
    BY ONLY <1>1, <1>2, <2>6, end \in Nat, stop \in Nat
  <2> QED BY <1>5, <2>7 DEF y
<1> QED BY <1>7, <1>8

(* AdjustEnd moves the end of the workspace only, and leaves the room that *)
(* was asked for.                                                          *)
LEMMA AdjustBounds ==
    ASSUME NEW w, NEW stop \in Nat, w.endBags \in Nat, 1 <= w.endBags,
           stop <= w.endBags, w.endBags <= Limit + 1
    PROVE  \E end \in Nat : /\ stop <= end /\ end <= Limit + 1
                            /\ AdjustEnd(w, stop) = [w EXCEPT !.endBags = end]
<1> DEFINE Grown(k) == w.endBags + k * Block
           k == Min({k \in 0 .. Limit \div Block : ~(TooFull(w, Grown(k), stop) /\ SyAllocBags(Grown(k), 1))})
           g == Grown(k)
           Shrunk(j) == g - j * Block
           j == Min({j \in 0 .. Limit \div Block : ~(TooEmpty(w, Shrunk(j), stop) /\ SyFreeBags(Shrunk(j)))})
           end == Shrunk(j)
<1>1. g \in Nat /\ w.endBags <= g /\ g <= Limit + 1
  BY GrownBounds
<1>2. AdjustEnd(w, stop) = [w EXCEPT !.endBags = end]
  BY Zenon DEF AdjustEnd
<1> HIDE DEF g
<1>3. Limit \in Nat
  BY LayoutAssumption
<1>4. stop <= g
  BY ONLY <1>1, stop \in Nat, w.endBags \in Nat, stop <= w.endBags
<1>5. end \in Nat /\ stop <= end /\ end <= g
  BY <1>1, <1>4, ShrunkBounds
<1> HIDE DEF end
<1>6. end <= Limit + 1
  BY ONLY <1>1, <1>3, <1>5
<1> QED BY <1>2, <1>5, <1>6

(* Only the end of the workspace is another one.                           *)
EndMoved(w, v, end) ==
    /\ v \in Workspace /\ v.mem = w.mem /\ v.mptrEnd = w.mptrEnd /\ v.oldBags = w.oldBags
    /\ v.youngBags = w.youngBags /\ v.allocBags = w.allocBags /\ v.endBags = end
    /\ v.freeMptr = w.freeMptr /\ v.changed = w.changed /\ v.newMarker = w.newMarker
    /\ v.nrLive = w.nrLive /\ v.nrHalfDead = w.nrHalfDead

(* The fields after a change of the end.                                   *)
LEMMA EndFields ==
    ASSUME NEW w \in Workspace, NEW end \in Nat
    PROVE  EndMoved(w, [w EXCEPT !.endBags = end], end)
<1> DEFINE v == [w EXCEPT !.endBags = end]
<1>1. v \in Workspace
  BY DEF Workspace
<1>2. /\ v.mem = w.mem /\ v.mptrEnd = w.mptrEnd /\ v.oldBags = w.oldBags
      /\ v.youngBags = w.youngBags /\ v.allocBags = w.allocBags /\ v.endBags = end
      /\ v.freeMptr = w.freeMptr /\ v.changed = w.changed /\ v.newMarker = w.newMarker
      /\ v.nrLive = w.nrLive /\ v.nrHalfDead = w.nrHalfDead
  BY DEF Workspace
<1> QED BY <1>1, <1>2 DEF EndMoved

(* The end of the workspace may be anywhere between the bags and the       *)
(* limit.                                                                  *)
LEMMA EndSound ==
    ASSUME NEW w, NEW W, Sound(w, W), NEW end, NEW v, EndMoved(w, v, end),
           w.allocBags <= end, end <= Limit + 1
    PROVE  Sound(v, W) /\ SameBags(w, v) /\ IdsOf(v) = IdsOf(w) /\ DeadIds(v) = DeadIds(w)
<1>1. Areas(w) /\ Tiles(w, W) /\ WordsOK(w) /\ LinksOK(w) /\ MptrsOK(w) /\ ZeroOK(w) /\ RemembersOK(w)
  BY DEF Sound
<1>2. /\ v \in Workspace /\ v.mem = w.mem /\ v.mptrEnd = w.mptrEnd /\ v.oldBags = w.oldBags
      /\ v.youngBags = w.youngBags /\ v.allocBags = w.allocBags /\ v.endBags = end
      /\ v.freeMptr = w.freeMptr /\ v.changed = w.changed /\ v.newMarker = w.newMarker
  BY DEF EndMoved
<1>3. Areas(v)
  BY <1>1, <1>2 DEF Areas
<1>4. /\ LiveBags(v) = LiveBags(w) /\ IdsOf(v) = IdsOf(w) /\ DeadIds(v) = DeadIds(w)
      /\ FreeIds(v) = FreeIds(w)
  BY <1>2 DEF LiveBags, IdsOf, DeadIds, FreeIds
<1>5. \A b : /\ TNUM_BAG(v, b) = TNUM_BAG(w, b) /\ SIZE_BAG(v, b) = SIZE_BAG(w, b)
             /\ LINK_BAG(v, b) = LINK_BAG(w, b) /\ (IsOld(v, b) <=> IsOld(w, b))
             /\ LenWord(v, b) = LenWord(w, b) /\ (IsLastBag(v, b) <=> IsLastBag(w, b))
             /\ \A i : Word(v, b, i) = Word(w, b, i)
  BY <1>2 DEF TNUM_BAG, SIZE_BAG, LINK_BAG, IsOld, PTR_BAG, LenWord, Word, IsLastBag
<1>6. Tiles(v, W)
  BY <1>1, <1>2, <1>4, <1>5 DEF Tiles
<1>7. WordsOK(v)
  BY <1>1, <1>4, <1>5 DEF WordsOK, WordsAt
<1>8. RemembersOK(v)
  BY <1>1, <1>4, <1>5 DEF RemembersOK, RemembersAt, Remembered
<1>9. LinksOK(v)
  BY <1>1, <1>2, <1>4, <1>5, LinksKept
<1>10. MptrsOK(v)
  BY <1>1, <1>2, <1>4, MptrsKept
<1>11. ZeroOK(v)
  BY <1>1, <1>2 DEF ZeroOK
<1> QED BY <1>2, <1>3, <1>4, <1>5, <1>6, <1>7, <1>8, <1>9, <1>10, <1>11 DEF Sound, SameBags, SameBag

-----------------------------------------------------------------------------
(* The words after the bodies moved up by i words.                         *)
MovedUp(w, v, i) ==
    /\ v \in Workspace
    /\ v.mptrEnd = w.mptrEnd + i /\ v.oldBags = w.oldBags + i /\ v.youngBags = w.youngBags + i
    /\ v.allocBags = w.allocBags + i /\ v.endBags = w.endBags
    /\ v.freeMptr = w.mptrEnd /\ v.changed = w.changed /\ v.newMarker = w.newMarker
    /\ v.nrLive = w.nrLive /\ v.nrHalfDead = w.nrHalfDead
    /\ \A a \in IdsOf(w) : v.mem[a] = IF w.mem[a] >= w.mptrEnd THEN w.mem[a] + i ELSE w.mem[a]
    /\ \A a \in w.mptrEnd .. w.mptrEnd + i - 2 : v.mem[a] = a + 1
    /\ v.mem[w.mptrEnd + i - 1] = w.freeMptr
    /\ \A a \in w.oldBags .. w.allocBags - 1 : v.mem[a + i] = w.mem[a]
    /\ \A a \in w.allocBags + i .. Limit : v.mem[a] = w.mem[a]

(* The fields that ExtendMptrs leaves.                                     *)
LEMMA ExtendFields ==
    ASSUME NEW w, Areas(w), NEW i \in Nat, i >= 1, w.allocBags + i <= w.endBags
    PROVE  MovedUp(w, ExtendMptrs(w, i), i)
<1> DEFINE v == ExtendMptrs(w, i)
           m == w.mem
           mm == [a \in 1 .. Limit |->
                     IF a < w.mptrEnd THEN (IF m[a] >= w.mptrEnd THEN m[a] + i ELSE m[a])
                     ELSE IF a < w.mptrEnd + i - 1 THEN a + 1
                     ELSE IF a = w.mptrEnd + i - 1 THEN w.freeMptr
                     ELSE IF a \in w.oldBags + i .. w.allocBags + i - 1 THEN m[a - i]
                     ELSE m[a]]
<1>1. w \in Workspace /\ m \in [1 .. Limit -> Int]
  BY AreaFacts DEF Areas
<1>2. /\ w.mptrEnd \in Nat /\ w.oldBags \in Nat /\ w.youngBags \in Nat /\ w.allocBags \in Nat
      /\ w.endBags \in Nat /\ Limit \in Nat /\ w.freeMptr \in Nat
      /\ 1 <= w.mptrEnd /\ w.mptrEnd <= w.oldBags /\ w.oldBags <= w.youngBags
      /\ w.youngBags <= w.allocBags /\ w.allocBags <= w.endBags /\ w.endBags <= Limit + 1
  BY AreaFacts
<1>3. v = [w EXCEPT !.mem = mm, !.freeMptr = w.mptrEnd, !.mptrEnd = w.mptrEnd + i,
                    !.oldBags = w.oldBags + i, !.youngBags = w.youngBags + i,
                    !.allocBags = w.allocBags + i]
  BY ONLY <1>1 DEF ExtendMptrs, Workspace
<1>4. \A a \in 1 .. Limit : m[a] \in Int
  BY ONLY <1>1
<1> HIDE DEF m
<1>5. mm \in [1 .. Limit -> Int]
  <2> DEFINE Val(a) == IF a < w.mptrEnd THEN (IF m[a] >= w.mptrEnd THEN m[a] + i ELSE m[a])
                       ELSE IF a < w.mptrEnd + i - 1 THEN a + 1
                       ELSE IF a = w.mptrEnd + i - 1 THEN w.freeMptr
                       ELSE IF a \in w.oldBags + i .. w.allocBags + i - 1 THEN m[a - i]
                       ELSE m[a]
  <2>1. ASSUME NEW a \in 1 .. Limit PROVE Val(a) \in Int
    <3>1. a \in w.oldBags + i .. w.allocBags + i - 1 => a - i \in 1 .. Limit
      BY ONLY <1>2, i \in Nat, a \in 1 .. Limit
    <3>2. m[a] \in Int /\ (a \in w.oldBags + i .. w.allocBags + i - 1 => m[a - i] \in Int)
      BY <1>4, <3>1
    <3> QED BY ONLY <1>2, <3>2, i \in Nat, a \in 1 .. Limit
  <2>2. mm = [a \in 1 .. Limit |-> Val(a)]
    OBVIOUS
  <2> HIDE DEF Val, mm
  <2> QED BY ONLY <2>1, <2>2
<1>6. \A a \in IdsOf(w) : mm[a] = IF m[a] >= w.mptrEnd THEN m[a] + i ELSE m[a]
  <2>1. \A a \in IdsOf(w) : a \in 1 .. Limit /\ a < w.mptrEnd
    BY <1>2 DEF IdsOf
  <2> QED BY ONLY <2>1 DEF mm
<1>7. \A a \in w.mptrEnd .. w.mptrEnd + i - 2 : mm[a] = a + 1
  <2>1. \A a \in w.mptrEnd .. w.mptrEnd + i - 2 : a \in 1 .. Limit /\ ~ (a < w.mptrEnd) /\ a < w.mptrEnd + i - 1
    BY <1>2
  <2> QED BY ONLY <2>1 DEF mm
<1>8. mm[w.mptrEnd + i - 1] = w.freeMptr
  <2> DEFINE a == w.mptrEnd + i - 1
  <2>1. a \in 1 .. Limit /\ ~ (a < w.mptrEnd) /\ ~ (a < a)
    BY <1>2
  <2> QED BY ONLY <2>1 DEF mm
<1>9. \A a \in w.oldBags .. w.allocBags - 1 : mm[a + i] = m[a]
  <2> SUFFICES ASSUME NEW a \in w.oldBags .. w.allocBags - 1 PROVE mm[a + i] = m[a]
    OBVIOUS
  <2>1. /\ a + i \in 1 .. Limit /\ ~ (a + i < w.mptrEnd) /\ ~ (a + i < w.mptrEnd + i - 1)
        /\ a + i # w.mptrEnd + i - 1 /\ a + i \in w.oldBags + i .. w.allocBags + i - 1
        /\ (a + i) - i = a
    BY <1>2
  <2>2. mm[a + i] = m[(a + i) - i]
    BY ONLY <2>1 DEF mm
  <2> QED BY ONLY <2>1, <2>2
<1>10. \A a \in w.allocBags + i .. Limit : mm[a] = m[a]
  <2> SUFFICES ASSUME NEW a \in w.allocBags + i .. Limit PROVE mm[a] = m[a]
    OBVIOUS
  <2>1. /\ a \in 1 .. Limit /\ ~ (a < w.mptrEnd) /\ ~ (a < w.mptrEnd + i - 1)
        /\ a # w.mptrEnd + i - 1 /\ a \notin w.oldBags + i .. w.allocBags + i - 1
    BY <1>2
  <2> QED BY ONLY <2>1 DEF mm
<1> HIDE DEF v, mm
<1>11. /\ w.mptrEnd + i \in Nat /\ w.oldBags + i \in Nat /\ w.youngBags + i \in Nat
       /\ w.allocBags + i \in Nat
  BY <1>2
<1>12. v \in Workspace
  <2>1. w.mptrEnd \in Nat
    BY <1>2
  <2> QED BY ONLY <1>1, <1>3, <1>5, <1>11, <2>1 DEF Workspace
<1>13. /\ v.mem = mm /\ v.mptrEnd = w.mptrEnd + i /\ v.oldBags = w.oldBags + i
       /\ v.youngBags = w.youngBags + i
       /\ v.allocBags = w.allocBags + i /\ v.endBags = w.endBags
       /\ v.freeMptr = w.mptrEnd /\ v.changed = w.changed /\ v.newMarker = w.newMarker
       /\ v.nrLive = w.nrLive /\ v.nrHalfDead = w.nrHalfDead
  BY ONLY <1>1, <1>3 DEF Workspace
<1> QED BY <1>6, <1>7, <1>8, <1>9, <1>10, <1>12, <1>13 DEF MovedUp, v, m

(* More masterpointers: every bag moves, and none notices.                 *)
LEMMA MovedUpSound ==
    ASSUME NEW w, NEW W, Sound(w, W), NEW i \in Nat, i >= 1, w.allocBags + i <= w.endBags,
           NEW v, MovedUp(w, v, i)
    PROVE  /\ \E V : Sound(v, V)
           /\ SameBags(w, v) /\ DeadIds(v) = DeadIds(w)
           /\ \A x \in DeadIds(w) : v.mem[x] = w.mem[x]
<1> DEFINE V == {a + i : a \in W}
<1>1. Areas(w) /\ Tiles(w, W) /\ WordsOK(w) /\ LinksOK(w) /\ MptrsOK(w) /\ ZeroOK(w) /\ RemembersOK(w)
  BY DEF Sound
<1>2. /\ w.mptrEnd \in Nat /\ w.oldBags \in Nat /\ w.youngBags \in Nat /\ w.allocBags \in Nat
      /\ w.endBags \in Nat /\ Limit \in Nat
      /\ 1 <= w.mptrEnd /\ w.mptrEnd <= w.oldBags /\ w.oldBags <= w.youngBags
      /\ w.youngBags <= w.allocBags /\ w.allocBags <= w.endBags /\ w.endBags <= Limit + 1
      /\ w.mptrEnd <= Limit + 1
  BY <1>1, AreaNumbers
<1>3. /\ v \in Workspace
      /\ v.mptrEnd = w.mptrEnd + i /\ v.oldBags = w.oldBags + i /\ v.youngBags = w.youngBags + i
      /\ v.allocBags = w.allocBags + i /\ v.endBags = w.endBags
      /\ v.freeMptr = w.mptrEnd /\ v.changed = w.changed /\ v.newMarker = w.newMarker
  BY DEF MovedUp
<1>4. /\ \A a \in IdsOf(w) : v.mem[a] = IF w.mem[a] >= w.mptrEnd THEN w.mem[a] + i ELSE w.mem[a]
      /\ \A a \in w.mptrEnd .. w.mptrEnd + i - 2 : v.mem[a] = a + 1
      /\ v.mem[w.mptrEnd + i - 1] = w.freeMptr
      /\ \A a \in w.oldBags .. w.allocBags - 1 : v.mem[a + i] = w.mem[a]
      /\ \A a \in w.allocBags + i .. Limit : v.mem[a] = w.mem[a]
  BY DEF MovedUp
<1>5. Areas(v)
  <2>1. /\ 1 <= w.mptrEnd + i /\ w.mptrEnd + i <= w.oldBags + i /\ w.oldBags + i <= w.youngBags + i
        /\ w.youngBags + i <= w.allocBags + i
    BY ONLY <1>2, i \in Nat
  <2> QED BY <1>2, <1>3, <2>1 DEF Areas
<1>6. \A x \in IdsOf(w) : x \in 1 .. Limit /\ x \in Nat /\ x < w.mptrEnd /\ w.mem[x] \in Int
  <2>1. \A x \in IdsOf(w) : x \in 1 .. Limit /\ x \in Nat /\ x < w.mptrEnd
    BY ONLY <1>2 DEF IdsOf
  <2>2. \A a \in 1 .. Limit : w.mem[a] \in Int
    BY <1>1, AreaFacts
  <2> QED BY ONLY <2>1, <2>2
<1>7. w.freeMptr \in FreeIds(w) \cup {0}
  BY <1>1 DEF MptrsOK, Chain
<1> DEFINE New == w.mptrEnd .. w.mptrEnd + i - 1
<1>8. IdsOf(v) = IdsOf(w) \cup New
  <2>1. \A x : x \in 1 .. (w.mptrEnd + i) - 1 <=> x \in 1 .. w.mptrEnd - 1 \/ x \in New
    BY ONLY <1>2, i \in Nat
  <2> HIDE DEF New
  <2> QED BY <1>3, <2>1 DEF IdsOf
<1>9. ASSUME NEW x \in New PROVE /\ v.mem[x] = 0 \/ v.mem[x] \in IdsOf(v)
                                 /\ v.mem[x] \in Int /\ v.mem[x] >= 0 /\ v.mem[x] < w.mptrEnd + i
  <2>1. CASE x = w.mptrEnd + i - 1
    <3>1. v.mem[x] = w.freeMptr
      BY <1>4, <2>1
    <3>2. w.freeMptr = 0 \/ w.freeMptr \in IdsOf(w)
      BY <1>7 DEF FreeIds
    <3>3. w.freeMptr \in Int /\ w.freeMptr >= 0 /\ w.freeMptr < w.mptrEnd + i
      <4>1. w.freeMptr = 0 \/ w.freeMptr \in 1 .. w.mptrEnd - 1
        BY <3>2 DEF IdsOf
      <4> QED BY ONLY <4>1, <1>2, i \in Nat
    <3> QED BY <1>8, <3>1, <3>2, <3>3
  <2>2. CASE x # w.mptrEnd + i - 1
    <3>1. x \in w.mptrEnd .. w.mptrEnd + i - 2 /\ x + 1 \in New /\ x + 1 >= 0 /\ x + 1 < w.mptrEnd + i /\ x + 1 \in Int
      BY ONLY <1>2, <2>2, x \in New, i \in Nat
    <3>2. v.mem[x] = x + 1
      BY <1>4, <3>1
    <3> QED BY <1>8, <3>1, <3>2
  <2> QED BY <2>1, <2>2
<1> HIDE DEF New
<1>10. ASSUME NEW b \in LiveBags(w)
       PROVE  /\ b \in IdsOf(w) /\ b \in LiveBags(v) /\ v.mem[b] = w.mem[b] + i
  <2>1. b \in IdsOf(w) /\ w.mem[b] \in Int /\ w.oldBags + 2 <= w.mem[b] /\ w.mem[b] <= w.allocBags
    BY <1>1, Placed
  <2>2. w.mem[b] >= w.mptrEnd
    BY ONLY <1>2, <2>1
  <2>3. v.mem[b] = w.mem[b] + i
    BY <1>4, <2>1, <2>2
  <2>4. w.oldBags + i + 2 <= w.mem[b] + i /\ w.mem[b] + i <= w.allocBags + i
    BY ONLY <1>2, <2>1, i \in Nat
  <2>5. b \in IdsOf(v)
    BY <1>8, <2>1
  <2> QED BY <1>3, <2>1, <2>3, <2>4, <2>5 DEF LiveBags, IdsOf, HeaderWords
<1>11. ASSUME NEW b \in IdsOf(w), b \notin LiveBags(w)
       PROVE  v.mem[b] = w.mem[b] /\ w.mem[b] < w.mptrEnd
  <2>1. b \in FreeIds(w) \/ b \in DeadIds(w)
    BY <1>1, <1>11 DEF MptrsOK
  <2>2. w.mem[b] = 0 \/ w.mem[b] \in IdsOf(w) \/ w.mem[b] \in Markers
    BY <2>1 DEF FreeIds, DeadIds
  <2>3. w.mem[b] \in Int /\ w.mem[b] < w.mptrEnd
    <3>1. w.mem[b] = 0 \/ w.mem[b] \in 1 .. w.mptrEnd - 1 \/ w.mem[b] \in {-1, -2}
      BY <2>2 DEF IdsOf, Markers
    <3> QED BY ONLY <1>2, <3>1
  <2>4. ~ (w.mem[b] >= w.mptrEnd)
    BY ONLY <1>2, <2>3
  <2> QED BY <1>4, <2>3, <2>4
<1>12. LiveBags(v) = LiveBags(w)
  <2>1. ASSUME NEW b \in LiveBags(v) PROVE b \in LiveBags(w)
    <3>1. b \in IdsOf(v) /\ w.oldBags + i + 2 <= v.mem[b]
      BY <1>3 DEF LiveBags, IdsOf, HeaderWords
    <3>2. CASE b \in New
      <4>1. v.mem[b] \in Int /\ v.mem[b] < w.mptrEnd + i
        BY <1>9, <3>2
      <4> QED BY ONLY <1>2, <3>1, <4>1, i \in Nat
    <3>3. CASE b \in IdsOf(w)
      <4>1. ASSUME b \notin LiveBags(w) PROVE FALSE
        <5>1. w.mem[b] < w.mptrEnd /\ v.mem[b] = w.mem[b] /\ w.mem[b] \in Int
          BY <1>6, <1>11, <3>3, <4>1
        <5> QED BY ONLY <1>2, <3>1, <5>1, i \in Nat
      <4> QED BY <4>1
    <3> QED BY <1>8, <3>1, <3>2, <3>3
  <2> QED BY <1>10, <2>1
<1>13. DeadIds(v) = DeadIds(w) /\ \A x \in DeadIds(w) : v.mem[x] = w.mem[x]
  <2>1. ASSUME NEW x \in IdsOf(v) PROVE x \in DeadIds(v) <=> x \in DeadIds(w)
    <3>1. CASE x \in New
      <4>1. v.mem[x] \in Int /\ v.mem[x] >= 0
        BY <1>9, <3>1
      <4>2. x \notin IdsOf(w)
        BY <1>2, <3>1 DEF IdsOf, New
      <4> QED BY <4>1, <4>2 DEF DeadIds, Markers
    <3>2. CASE x \in IdsOf(w) /\ x \in LiveBags(w)
      <4>1. v.mem[x] = w.mem[x] + i /\ w.mem[x] \in Int /\ w.mem[x] >= 0
        <5>1. w.oldBags + 2 <= w.mem[x] /\ w.mem[x] \in Int
          BY <1>1, <3>2, Placed
        <5>2. v.mem[x] = w.mem[x] + i
          BY <1>10, <3>2
        <5> QED BY ONLY <1>2, <5>1, <5>2
      <4>2. v.mem[x] \notin Markers /\ w.mem[x] \notin Markers
        BY <4>1 DEF Markers
      <4> QED BY <4>2 DEF DeadIds
    <3>3. CASE x \in IdsOf(w) /\ x \notin LiveBags(w)
      <4>1. v.mem[x] = w.mem[x]
        BY <1>11, <3>3
      <4> QED BY <1>8, <3>3, <4>1 DEF DeadIds
    <3> QED BY <1>8, <3>1, <3>2, <3>3
  <2>2. DeadIds(v) = DeadIds(w)
    <3>1. DeadIds(v) \subseteq IdsOf(v) /\ DeadIds(w) \subseteq IdsOf(v)
      BY <1>8 DEF DeadIds
    <3> QED BY <2>1, <3>1
  <2>3. ASSUME NEW x \in DeadIds(w) PROVE v.mem[x] = w.mem[x]
    <3>1. x \in IdsOf(w) /\ w.mem[x] \in Markers
      BY DEF DeadIds
    <3>2. x \notin LiveBags(w)
      <4>1. ASSUME x \in LiveBags(w) PROVE FALSE
        <5>1. w.oldBags + 2 <= w.mem[x]
          BY <1>1, <4>1, Placed
        <5> QED BY <1>2, <3>1, <5>1 DEF Markers
      <4> QED BY <4>1
    <3> QED BY <1>11, <3>1, <3>2
  <2> QED BY <2>2, <2>3
<1>14. FreeIds(v) = FreeIds(w) \cup New
  <2>1. ASSUME NEW x \in IdsOf(w), x \in LiveBags(w) PROVE x \notin FreeIds(v) /\ x \notin FreeIds(w)
    <3>1. v.mem[x] = w.mem[x] + i /\ w.mem[x] \in Int /\ w.oldBags + 2 <= w.mem[x]
      BY <1>1, <1>10, <2>1, Placed
    <3>2. w.mem[x] # 0 /\ w.mem[x] \notin 1 .. w.mptrEnd - 1 /\ w.mem[x] + i # 0 /\ w.mem[x] + i \notin 1 .. (w.mptrEnd + i) - 1
      BY ONLY <1>2, <3>1, i \in Nat
    <3> QED BY <1>3, <3>1, <3>2 DEF FreeIds, IdsOf
  <2>2. ASSUME NEW x \in IdsOf(w), x \notin LiveBags(w) PROVE x \in FreeIds(v) <=> x \in FreeIds(w)
    <3>1. v.mem[x] = w.mem[x] /\ w.mem[x] < w.mptrEnd /\ w.mem[x] \in Int
      BY <1>6, <1>11, <2>2
    <3>2. w.mem[x] \in IdsOf(w) <=> w.mem[x] \in IdsOf(v)
      <4>1. w.mem[x] \notin New
        BY ONLY <1>2, <3>1 DEF New
      <4> QED BY <1>8, <4>1
    <3> QED BY <1>8, <3>1, <3>2 DEF FreeIds
  <2>3. ASSUME NEW x \in New PROVE x \in FreeIds(v)
    BY <1>8, <1>9, <2>3 DEF FreeIds
  <2>4. FreeIds(v) \subseteq IdsOf(w) \cup New /\ FreeIds(w) \subseteq IdsOf(w)
    BY <1>8 DEF FreeIds
  <2> QED BY <2>1, <2>2, <2>3, <2>4
<1>15. MptrsOK(v)
  <2>1. Chain(w.mptrEnd, v.mem, FreeIds(w) \cup (w.mptrEnd .. w.mptrEnd + i - 1))
    <3> DEFINE lo == w.mptrEnd
               hi == w.mptrEnd + i - 1
    <3>1. Chain(w.freeMptr, w.mem, FreeIds(w))
      BY <1>1 DEF MptrsOK
    <3>2. lo \in Nat /\ hi \in Nat /\ 0 < lo /\ lo <= hi
      BY ONLY <1>2, i \in Nat, i >= 1
    <3>3. FreeIds(w) \subseteq 1 .. lo - 1
      BY DEF FreeIds, IdsOf
    <3>4. \A c \in FreeIds(w) : v.mem[c] = w.mem[c]
      <4>1. \A c \in FreeIds(w) : c \in IdsOf(w) /\ c \notin LiveBags(w)
        <5> SUFFICES ASSUME NEW c \in FreeIds(w), c \in LiveBags(w) PROVE FALSE
          BY DEF FreeIds
        <5>1. w.oldBags + 2 <= w.mem[c] /\ w.mem[c] \in Int
          BY <1>1, Placed
        <5>2. w.mem[c] = 0 \/ w.mem[c] \in 1 .. w.mptrEnd - 1
          BY DEF FreeIds, IdsOf
        <5> QED BY ONLY <1>2, <5>1, <5>2
      <4> QED BY <1>11, <4>1
    <3>5. \A c \in lo .. hi - 1 : v.mem[c] = c + 1
      <4>1. hi - 1 = w.mptrEnd + i - 2
        BY ONLY <1>2, i \in Nat
      <4> QED BY <1>4, <4>1
    <3>6. v.mem[hi] = w.freeMptr
      BY <1>4
    <3> QED BY ONLY <3>1, <3>2, <3>3, <3>4, <3>5, <3>6, ChainPrepend
  <2>2. Chain(v.freeMptr, v.mem, FreeIds(v))
    BY <1>3, <1>14, <2>1 DEF New
  <2>3. \A x \in IdsOf(v) : x \in FreeIds(v) \cup LiveBags(v) \cup DeadIds(v)
    <3>1. \A x \in IdsOf(w) : x \in FreeIds(w) \cup LiveBags(w) \cup DeadIds(w)
      BY <1>1 DEF MptrsOK
    <3> QED BY <1>8, <1>12, <1>13, <1>14, <3>1
  <2> QED BY <2>2, <2>3 DEF MptrsOK
<1>16. ASSUME NEW b \in LiveBags(w)
       PROVE  /\ TNUM_BAG(v, b) = TNUM_BAG(w, b) /\ SIZE_BAG(v, b) = SIZE_BAG(w, b)
              /\ LINK_BAG(v, b) = LINK_BAG(w, b) /\ (IsOld(v, b) <=> IsOld(w, b))
              /\ IsLastBag(w, b) => IsLastBag(v, b)
              /\ SameBag(w, v, b)
  <2> DEFINE p == w.mem[b]
             s == SIZE_BAG(w, b)
  <2>1. v.mem[b] = p + i
    BY <1>10
  <2>2. p \in Int /\ w.oldBags + 2 <= p /\ s \in Nat /\ p + s <= w.allocBags
    BY <1>1, Placed
  <2> HIDE DEF p, s
  <2>3. /\ p - 2 \in w.oldBags .. w.allocBags - 1 /\ p - 1 \in w.oldBags .. w.allocBags - 1
        /\ (p + i) - 2 = (p - 2) + i /\ (p + i) - 1 = (p - 1) + i
        /\ \A j \in 0 .. s - 1 : p + j \in w.oldBags .. w.allocBags - 1 /\ (p + i) + j = (p + j) + i
        /\ (p + i <= w.youngBags + i <=> p <= w.youngBags)
        /\ (p + s = w.allocBags => (p + i) + s = w.allocBags + i)
    BY ONLY <1>2, <2>2, i \in Nat
  <2>4. /\ v.mem[(p + i) - 2] = w.mem[p - 2] /\ v.mem[(p + i) - 1] = w.mem[p - 1]
        /\ \A j \in 0 .. s - 1 : v.mem[(p + i) + j] = w.mem[p + j]
    BY <1>4, <2>3
  <2>5. TNUM_BAG(v, b) = TNUM_BAG(w, b) /\ SIZE_BAG(v, b) = SIZE_BAG(w, b) /\ LINK_BAG(v, b) = LINK_BAG(w, b)
    BY <2>1, <2>4 DEF TNUM_BAG, SIZE_BAG, LINK_BAG, p
  <2>6. IsOld(v, b) <=> IsOld(w, b)
    BY <1>3, <2>1, <2>3 DEF IsOld, PTR_BAG, p
  <2>7. \A j \in 0 .. SIZE_BAG(w, b) - 1 : Word(v, b, j) = Word(w, b, j)
    BY <2>1, <2>4 DEF Word, p, s
  <2>8. IsLastBag(w, b) => IsLastBag(v, b)
    BY <1>3, <2>1, <2>3, <2>5 DEF IsLastBag, PTR_BAG, p, s
  <2> QED BY <2>5, <2>6, <2>7, <2>8 DEF SameBag
<1>17. Tiles(v, V)
  <2>1. W \subseteq w.oldBags .. w.allocBags
    BY <1>1 DEF Tiles
  <2>2. ASSUME NEW a \in W, a < w.allocBags
        PROVE  /\ v.mem[a + i] = w.mem[a] /\ w.mem[a] \in Nat /\ TypeIn(w.mem[a]) \in 1 .. 3
               /\ a + Stride(w.mem[a]) \in W /\ Stride(w.mem[a]) \in Nat
    <3>1. a \in w.oldBags .. w.allocBags - 1
      BY <1>2, <2>1, <2>2
    <3>2. w.mem[a] \in Nat /\ TypeIn(w.mem[a]) \in 1 .. 3 /\ a + Stride(w.mem[a]) \in W
      BY <1>1, <2>2 DEF Tiles
    <3> QED BY <1>4, <3>1, <3>2, StrideFacts
  <2>3. V \subseteq v.oldBags .. v.allocBags
    <3>1. \A a \in W : a + i \in w.oldBags + i .. w.allocBags + i
      BY <1>2, <2>1
    <3> QED BY <1>3, <3>1
  <2>4. v.oldBags \in V /\ v.youngBags \in V /\ v.allocBags \in V
    <3>1. w.oldBags \in W /\ w.youngBags \in W /\ w.allocBags \in W
      BY <1>1 DEF Tiles
    <3> QED BY <1>3, <3>1
  <2>5. ASSUME NEW x \in V, x < v.allocBags
        PROVE  v.mem[x] \in Nat /\ TypeIn(v.mem[x]) \in 1 .. 3 /\ x + Stride(v.mem[x]) \in V
    <3>1. PICK a \in W : x = a + i
      OBVIOUS
    <3>2. a \in Int /\ a < w.allocBags
      BY <1>2, <1>3, <2>1, <2>5, <3>1
    <3>3. /\ v.mem[x] = w.mem[a] /\ w.mem[a] \in Nat /\ TypeIn(w.mem[a]) \in 1 .. 3
          /\ a + Stride(w.mem[a]) \in W /\ Stride(w.mem[a]) \in Nat
      BY <2>2, <3>1, <3>2
    <3>4. x + Stride(v.mem[x]) = (a + Stride(w.mem[a])) + i
      BY <3>1, <3>2, <3>3
    <3> QED BY <3>3, <3>4
  <2>6. ASSUME NEW x \in V, NEW y \in V, x < y PROVE x + Stride(v.mem[x]) <= y
    <3>1. PICK a \in W : x = a + i
      OBVIOUS
    <3>2. PICK c \in W : y = c + i
      OBVIOUS
    <3>3. a \in Int /\ c \in Int /\ c <= w.allocBags
      BY <1>2, <2>1
    <3>4. a < c /\ a < w.allocBags
      BY ONLY <1>2, <2>6, <3>1, <3>2, <3>3, i \in Nat
    <3>5. a + Stride(w.mem[a]) <= c
      BY <1>1, <3>4 DEF Tiles
    <3>6. v.mem[x] = w.mem[a] /\ Stride(w.mem[a]) \in Nat
      BY <2>2, <3>1, <3>4
    <3> DEFINE d == Stride(w.mem[a])
    <3>7. Stride(v.mem[x]) = d /\ d \in Nat /\ a + d <= c
      BY <3>5, <3>6
    <3> HIDE DEF d
    <3> QED BY ONLY <3>1, <3>2, <3>3, <3>7, i \in Nat
  <2>7. ASSUME NEW b \in LiveBags(v) PROVE v.mem[b] - 2 \in V /\ TNUM_BAG(v, b) # T_DUMMY
    <3>1. b \in LiveBags(w)
      BY <1>12
    <3>2. w.mem[b] - 2 \in W /\ TNUM_BAG(w, b) # T_DUMMY /\ w.mem[b] \in Int
      BY <1>1, <3>1, Placed DEF Tiles
    <3>3. v.mem[b] - 2 = (w.mem[b] - 2) + i
      BY <1>10, <3>1, <3>2
    <3> QED BY <1>16, <3>1, <3>2, <3>3
  <2>8. ASSUME NEW x \in V, x < v.allocBags, TypeIn(v.mem[x]) # T_DUMMY
        PROVE  \E b \in LiveBags(v) : v.mem[b] = x + 2
    <3>1. PICK a \in W : x = a + i
      OBVIOUS
    <3>2. a \in Int /\ a < w.allocBags
      BY <1>2, <1>3, <2>1, <2>8, <3>1
    <3>3. v.mem[x] = w.mem[a]
      BY <2>2, <3>1, <3>2
    <3>4. PICK b \in LiveBags(w) : w.mem[b] = a + 2
      BY <1>1, <2>8, <3>2, <3>3 DEF Tiles
    <3>5. v.mem[b] = (a + 2) + i
      BY <1>10, <3>4
    <3>6. (a + 2) + i = x + 2
      BY ONLY <3>1, <3>2, i \in Nat
    <3> QED BY <1>12, <3>5, <3>6
  <2>9. ASSUME NEW b \in LiveBags(v), NEW c \in LiveBags(v), v.mem[b] = v.mem[c] PROVE b = c
    <3>1. b \in LiveBags(w) /\ c \in LiveBags(w)
      BY <1>12
    <3>2. w.mem[b] \in Int /\ w.mem[c] \in Int
      BY <1>1, <3>1, Placed
    <3>3. v.mem[b] = w.mem[b] + i /\ v.mem[c] = w.mem[c] + i
      BY <1>10, <3>1
    <3> DEFINE x == w.mem[b]
               y == w.mem[c]
    <3>a. x \in Int /\ y \in Int /\ x + i = y + i
      BY <2>9, <3>2, <3>3
    <3> HIDE DEF x, y
    <3>b. x = y
      BY ONLY <3>a, i \in Nat
    <3>4. w.mem[b] = w.mem[c]
      BY ONLY <3>b DEF x, y
    <3> QED BY <1>1, <3>1, <3>4 DEF Tiles
  <2> HIDE DEF V
  <2> QED BY <2>3, <2>4, <2>5, <2>6, <2>7, <2>8, <2>9 DEF Tiles
<1>18. LinksOK(v)
  BY <1>1, <1>3, <1>12, <1>16, LinksKept
<1>19. WordsOK(v)
  <2> SUFFICES ASSUME NEW b \in LiveBags(w) PROVE WordsAt(v, b)
    BY <1>12 DEF WordsOK
  <2>1. WordsAt(w, b) /\ SIZE_BAG(w, b) \in Nat
    BY <1>1, Placed DEF WordsOK
  <2> QED BY <1>12, <1>13, <1>16, <2>1, WordsKept
<1>20. RemembersOK(v)
  <2> SUFFICES ASSUME NEW b \in LiveBags(w) PROVE RemembersAt(v, b)
    BY <1>12 DEF RemembersOK
  <2>1. RemembersAt(w, b)
    BY <1>1 DEF RemembersOK
  <2>2. \A x \in LiveBags(v) : Remembered(w, x) => Remembered(v, x)
    BY <1>12, <1>16 DEF Remembered
  <2>3. IsOld(v, b) /\ LINK_BAG(v, b) = b => IsOld(w, b) /\ LINK_BAG(w, b) = b
    BY <1>16
  <2> QED BY <1>12, <1>16, <2>1, <2>2, <2>3, RemembersKept
<1>21. ZeroOK(v)
  <2> SUFFICES ASSUME NEW a \in w.allocBags + i .. Limit PROVE v.mem[a] = 0
    BY <1>3 DEF ZeroOK
  <2>1. a \in w.allocBags .. Limit
    BY <1>2
  <2> QED BY <1>1, <1>4, <2>1 DEF ZeroOK
<1>22. Sound(v, V)
  BY <1>5, <1>15, <1>17, <1>18, <1>19, <1>20, <1>21 DEF Sound
<1>23. SameBags(w, v)
  BY <1>3, <1>12, <1>16 DEF SameBags
<1> QED BY <1>13, <1>22, <1>23

(* The same bags, twice.                                                   *)
LEMMA SameBagsTwice ==
    ASSUME NEW w, NEW v, NEW u, SameBags(w, v), SameBags(v, u)
    PROVE  SameBags(w, u)
BY DEF SameBags, SameBag

(* A share of some words is no more than they are.                         *)
LEMMA ShareOf ==
    ASSUME NEW n \in Nat
    PROVE  n \div Share \in Nat /\ n \div Share <= n
<1>1. Share \in Nat /\ Share > 0
  BY LayoutAssumption
<1>2. n \div Share \in Nat /\ Share * (n \div Share) <= n
  BY ONLY <1>1, n \in Nat
<1> DEFINE q == n \div Share
<1>3. q \in Nat /\ Share * q <= n
  BY <1>2
<1> HIDE DEF q
<1>4. Share * q >= q
  BY ONLY <1>1, <1>3
<1>5. q <= n
  BY ONLY <1>1, <1>3, <1>4, n \in Nat
<1> QED BY <1>3, <1>5 DEF q

(* CollectBags_Check after a full collection: no bag notices, the          *)
(* masterpointers kept for dead weak pointers are those that a weak        *)
(* pointer may name, and success means that there is room.                 *)
LEMMA CheckFullSound ==
    ASSUME NEW w, NEW W, Sound(w, W), NoStaleIn(w), w.nrLive <= SizeMptrsArea(w),
           w.nrHalfDead = Cardinality(DeadIds(w)), NEW size \in Nat,
           NEW c, c = CollectBags_CheckFull(w, size)
    PROVE  /\ \E V : Sound(c.w, V)
           /\ SameBags(w, c.w)
           /\ \A x \in DeadIds(c.w) : c.w.mem[x] = c.w.newMarker
           /\ c.w.nrHalfDead = Cardinality(DeadIds(c.w))
           /\ c.done = "yes" => StopBags(c.w, size) <= c.w.endBags
<1> DEFINE r == ReclaimMptrs(w)
           stop == StopBags(w, size)
           x == ExtendToStop(r.endBags, stop)
           e == [r EXCEPT !.endBags = x]
           f == AdjustEnd(e, stop)
           spare == (f.endBags - stop) \div Share
           available == SizeMptrsArea(f) - f.nrLive
<1>1. /\ Sound(r, W) /\ SameBags(w, r) /\ SameAreas(w, r) /\ r.nrLive = w.nrLive
      /\ r.nrHalfDead = w.nrHalfDead - Cardinality(StaleIds(w))
      /\ DeadIds(r) = DeadIds(w) \ StaleIds(w)
      /\ \A y \in DeadIds(r) : r.mem[y] = w.mem[y]
  BY ReclaimSound
<1>2. c = IF e.endBags < stop THEN [w |-> e, done |-> "fail"]
          ELSE IF available < spare THEN [w |-> ExtendMptrs(f, spare - available), done |-> "yes"]
          ELSE [w |-> f, done |-> "yes"]
  BY Zenon DEF CollectBags_CheckFull
<1> HIDE DEF r
<1>3. r \in Workspace /\ Areas(r) /\ Areas(w)
  BY <1>1 DEF Sound, Areas
<1>4. /\ r.endBags \in Nat /\ r.endBags <= Limit + 1 /\ 1 <= r.endBags /\ r.allocBags \in Nat
      /\ r.allocBags <= r.endBags /\ Limit \in Nat /\ r.mptrEnd \in Nat /\ r.nrLive \in Nat
      /\ r.allocBags = w.allocBags /\ r.mptrEnd = w.mptrEnd
  <2>1. /\ r.endBags \in Nat /\ r.endBags <= Limit + 1 /\ 1 <= r.mptrEnd /\ r.allocBags \in Nat
        /\ r.allocBags <= r.endBags /\ Limit \in Nat /\ r.mptrEnd \in Nat /\ r.mptrEnd <= r.allocBags
    BY <1>3, AreaNumbers
  <2>2. r.nrLive \in Nat
    BY <1>3, AreaFacts
  <2>3. 1 <= r.endBags
    BY ONLY <2>1
  <2> QED BY <1>1, <2>1, <2>2, <2>3 DEF SameAreas
<1>5. stop \in Nat /\ stop = r.allocBags + 2 + size /\ r.allocBags <= stop
  BY <1>4 DEF StopBags, HeaderWords
<1> HIDE DEF stop
<1>6. x \in Nat /\ r.endBags <= x /\ x <= Limit + 1
  BY <1>4, <1>5, ExtendBounds
<1> HIDE DEF x
<1>7. EndMoved(r, e, x)
  BY <1>3, <1>6, EndFields
<1> HIDE DEF e
<1>8. Sound(e, W) /\ SameBags(r, e) /\ DeadIds(e) = DeadIds(r)
  <2>1. r.allocBags <= x
    BY ONLY <1>4, <1>6
  <2> QED BY <1>1, <1>6, <1>7, <2>1, EndSound
<1>9. /\ e \in Workspace /\ e.endBags = x /\ e.mem = r.mem /\ e.nrHalfDead = r.nrHalfDead
      /\ e.allocBags = r.allocBags /\ e.newMarker = r.newMarker /\ e.nrLive = r.nrLive /\ e.mptrEnd = r.mptrEnd
  BY <1>7 DEF EndMoved
<1>10. SameBags(w, e)
  BY <1>1, <1>8, SameBagsTwice
<1>11. \A y \in DeadIds(r) : r.mem[y] = r.newMarker
  <2>1. r.newMarker = w.newMarker
    BY <1>1 DEF SameBags
  <2> QED BY <1>1, <2>1 DEF DeadIds, StaleIds
<1>12. r.nrHalfDead = Cardinality(DeadIds(r))
  <2>1. StaleIds(w) \subseteq DeadIds(w) /\ DeadIds(w) \subseteq IdsOf(w)
    BY DEF StaleIds, DeadIds
  <2>2. IsFiniteSet(DeadIds(w))
    BY <1>3, <2>1, FewIds
  <2>3. Cardinality(DeadIds(w) \ StaleIds(w)) = Cardinality(DeadIds(w)) - Cardinality(DeadIds(w) \cap StaleIds(w))
    BY <2>2, FS_Difference
  <2>4. DeadIds(w) \cap StaleIds(w) = StaleIds(w)
    BY <2>1
  <2> QED BY <1>1, <2>3, <2>4
<1>13. CASE e.endBags < stop
  <2>1. c.w = e /\ c.done = "fail"
    BY <1>2, <1>13
  <2> QED BY <1>8, <1>9, <1>10, <1>11, <1>12, <2>1
<1>14. CASE ~ (e.endBags < stop)
  <2>1. stop <= x
    BY <1>5, <1>6, <1>9, <1>14
  <2>2. PICK end \in Nat : stop <= end /\ end <= Limit + 1 /\ f = [e EXCEPT !.endBags = end]
    <3>1. e.endBags \in Nat /\ 1 <= e.endBags /\ stop <= e.endBags /\ e.endBags <= Limit + 1
      BY <1>4, <1>6, <1>9, <2>1
    <3> QED BY <1>5, <3>1, AdjustBounds
  <2>3. EndMoved(e, f, end)
    BY <1>9, <2>2, EndFields
  <2> HIDE DEF f
  <2>4. Sound(f, W) /\ SameBags(e, f) /\ DeadIds(f) = DeadIds(e)
    <3>1. e.allocBags <= end
      BY <1>4, <1>5, <1>9, <2>2
    <3> QED BY <1>8, <2>2, <2>3, <3>1, EndSound
  <2>5. /\ f \in Workspace /\ f.endBags = end /\ f.mem = r.mem /\ f.nrHalfDead = r.nrHalfDead
        /\ f.allocBags = r.allocBags /\ f.newMarker = r.newMarker /\ f.nrLive = r.nrLive /\ f.mptrEnd = r.mptrEnd
    BY <1>9, <2>3 DEF EndMoved
  <2>6. SameBags(w, f) /\ DeadIds(f) = DeadIds(r)
    BY <1>8, <1>10, <2>4, SameBagsTwice
  <2>7. \A y \in DeadIds(f) : f.mem[y] = f.newMarker
    BY <1>11, <2>5, <2>6
  <2>8. available \in Nat
    <3>1. w.nrLive <= w.mptrEnd - 1
      BY DEF SizeMptrsArea
    <3>2. available = r.mptrEnd - 1 - r.nrLive
      BY <2>5 DEF SizeMptrsArea
    <3> QED BY <1>1, <1>4, <3>1, <3>2
  <2>9. spare \in Nat /\ spare <= end - stop
    <3>1. end - stop \in Nat
      BY <1>5, <2>2
    <3> QED BY <2>5, <3>1, ShareOf
  <2> HIDE DEF available, spare
  <2>10. CASE available < spare
    <3> DEFINE i == spare - available
               v == ExtendMptrs(f, i)
    <3>1. c.w = v
      BY <1>2, <1>14, <2>10
    <3>2. i \in Nat /\ i >= 1 /\ i <= end - stop
      BY <1>5, <2>8, <2>9, <2>10
    <3>3. f.allocBags + i <= f.endBags
      BY <1>4, <1>5, <2>5, <3>2
    <3> HIDE DEF i
    <3>4. MovedUp(f, v, i)
      <4>1. Areas(f)
        BY <2>4 DEF Sound
      <4> QED BY <3>2, <3>3, <4>1, ExtendFields
    <3> HIDE DEF v
    <3>5. /\ \E V : Sound(v, V)
          /\ SameBags(f, v) /\ DeadIds(v) = DeadIds(f)
          /\ \A y \in DeadIds(f) : v.mem[y] = f.mem[y]
      BY <2>4, <3>2, <3>3, <3>4, MovedUpSound
    <3>6. /\ v.endBags = end /\ v.allocBags = r.allocBags + i /\ v.newMarker = f.newMarker
          /\ v.nrHalfDead = r.nrHalfDead
      BY <2>5, <3>4 DEF MovedUp
    <3>7. StopBags(v, size) <= v.endBags
      BY <1>4, <1>5, <2>2, <3>2, <3>6 DEF StopBags, HeaderWords
    <3>8. SameBags(w, v)
      BY <2>6, <3>5, SameBagsTwice
    <3> QED BY <1>12, <2>6, <2>7, <3>1, <3>5, <3>6, <3>7, <3>8
  <2>11. CASE ~ (available < spare)
    <3>1. c.w = f
      BY <1>2, <1>14, <2>11
    <3>2. StopBags(f, size) <= f.endBags
      BY <1>5, <2>2, <2>5 DEF StopBags, HeaderWords
    <3> QED BY <1>12, <2>4, <2>5, <2>6, <2>7, <3>1, <3>2
  <2> QED BY <2>10, <2>11
<1> QED BY <1>13, <1>14
=============================================================================
