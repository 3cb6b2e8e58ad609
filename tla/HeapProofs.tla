----------------------------- MODULE HeapProofs -----------------------------
(***************************************************************************)
(* Proofs about Heap: a program that keeps the rules of Gasman never       *)
(* notices the collector.                                                  *)
(*                                                                         *)
(* The inductive invariant HeapInv says that the workspace is sound and    *)
(* that every bag in it, reachable or not, holds what the program last     *)
(* stored in it (MemoryOK: Objects, HeldAt), that a call which waits for a *)
(* collection still finds its bag (RequestOK), and how many masterpointers *)
(* are kept for dead weak pointers (CountsOK, Settled). A step may change  *)
(* what the dead leave behind (Quiet, Fades: an entry of a weak pointer    *)
(* object fades when its object has died) but not the objects that live.   *)
(***************************************************************************)
EXTENDS GasmanProofs, SequenceTheorems

-----------------------------------------------------------------------------
(* What the program sees of the workspace: weak pointer objects, and words *)
(* stored in bags.                                                         *)

(* What was kept for dead weak pointers is as it was.                      *)
Quiet(w, v) ==
    /\ v.newMarker = w.newMarker /\ v.nrHalfDead = w.nrHalfDead
    /\ DeadIds(v) = DeadIds(w) /\ \A x \in DeadIds(w) : v.mem[x] = w.mem[x]
Settled(w) ==
    /\ \A x \in DeadIds(w) : w.mem[x] = w.newMarker
    /\ w.nrHalfDead = Cardinality(DeadIds(w))

(* It is as it was after two steps.                                        *)
LEMMA QuietTwice ==
    ASSUME NEW w, NEW v, NEW u, Quiet(w, v), Quiet(v, u)
    PROVE  Quiet(w, u)
BY DEF Quiet

(* Such steps keep the counts of them right.                               *)
LEMMA QuietSettled ==
    ASSUME NEW w, NEW v, Settled(w), Quiet(w, v)
    PROVE  Settled(v)
BY DEF Quiet, Settled

(* Words of bag b are written, and nothing else.                           *)
Writes(w, v, b) ==
    /\ v \in Workspace /\ SameAreas(w, v) /\ v.changed = w.changed /\ v.freeMptr = w.freeMptr
    /\ v.newMarker = w.newMarker /\ v.nrHalfDead = w.nrHalfDead /\ v.nrLive = w.nrLive
    /\ \A a \in 1 .. Limit :
          a \notin w.mem[b] .. w.mem[b] + SIZE_BAG(w, b) - 1 => v.mem[a] = w.mem[a]

(* What such a write leaves alone.                                         *)
LEMMA WriteSound ==
    ASSUME NEW w, NEW W, NEW b \in LiveBags(w), SoundBut(w, W, b), NEW v, Writes(w, v, b)
    PROVE  /\ SoundBut(v, W, b) /\ LiveBags(v) = LiveBags(w) /\ Quiet(w, v)
           /\ v.mem[b] = w.mem[b] /\ SameAreas(w, v)
           /\ \A c \in LiveBags(w) :
                 /\ TNUM_BAG(v, c) = TNUM_BAG(w, c) /\ SIZE_BAG(v, c) = SIZE_BAG(w, c)
                 /\ LINK_BAG(v, c) = LINK_BAG(w, c) /\ (IsOld(v, c) <=> IsOld(w, c))
                 /\ (IsLastBag(v, c) <=> IsLastBag(w, c))
                 /\ c # b => SameBag(w, v, c)
<1>1. /\ v \in Workspace /\ SameAreas(w, v) /\ v.changed = w.changed /\ v.freeMptr = w.freeMptr
      /\ v.newMarker = w.newMarker /\ v.nrHalfDead = w.nrHalfDead
      /\ \A a \in 1 .. Limit :
            a \notin w.mem[b] .. w.mem[b] + SIZE_BAG(w, b) - 1 => v.mem[a] = w.mem[a]
  BY DEF Writes
<1>2. /\ SoundBut(v, W, b) /\ LiveBags(v) = LiveBags(w) /\ DeadIds(v) = DeadIds(w)
      /\ \A x \in IdsOf(w) : v.mem[x] = w.mem[x]
      /\ \A c \in LiveBags(w) :
            /\ TNUM_BAG(v, c) = TNUM_BAG(w, c) /\ SIZE_BAG(v, c) = SIZE_BAG(w, c)
            /\ LINK_BAG(v, c) = LINK_BAG(w, c) /\ (c # b => SameBag(w, v, c))
  BY <1>1, BodyWrite
<1>3. \A c \in LiveBags(w) : v.mem[c] = w.mem[c]
  BY <1>2 DEF LiveBags, IdsOf
<1>4. \A c \in LiveBags(w) : (IsOld(v, c) <=> IsOld(w, c)) /\ (IsLastBag(v, c) <=> IsLastBag(w, c))
  BY <1>1, <1>2, <1>3 DEF IsOld, IsLastBag, PTR_BAG, SameAreas
<1>5. Quiet(w, v)
  BY <1>1, <1>2 DEF Quiet, DeadIds
<1> QED BY <1>1, <1>2, <1>3, <1>4, <1>5

(* Weak pointers that are cleared, and the length that is cut, need no     *)
(* entry in the list of changed bags.                                      *)
LEMMA FadeWriteSound ==
    ASSUME NEW w, NEW W, NEW b \in LiveBags(w), Sound(w, W), NEW v, Writes(w, v, b),
           TNUM_BAG(w, b) = T_WPOBJ, LenWord(v, b) \in 0 .. LenWord(w, b),
           Word(v, b, 0) = INTOBJ_INT(LenWord(v, b)),
           \A i \in 1 .. SIZE_BAG(w, b) - 1 :
              /\ Word(v, b, i) \in {Word(w, b, i), 0}
              /\ i > LenWord(v, b) => Word(v, b, i) = 0
    PROVE  Sound(v, W)
<1>1. SoundBut(w, W, b) /\ WordsAt(w, b) /\ RemembersAt(w, b) /\ Areas(w) /\ Tiles(w, W)
  BY SoundIsBut DEF Sound, RemembersOK
<1>2. /\ SoundBut(v, W, b) /\ LiveBags(v) = LiveBags(w) /\ Quiet(w, v)
      /\ \A c \in LiveBags(w) :
            /\ TNUM_BAG(v, c) = TNUM_BAG(w, c) /\ SIZE_BAG(v, c) = SIZE_BAG(w, c)
            /\ LINK_BAG(v, c) = LINK_BAG(w, c) /\ (IsOld(v, c) <=> IsOld(w, c))
  BY <1>1, WriteSound
<1>3. DeadIds(v) = DeadIds(w)
  BY <1>2 DEF Quiet
<1>4. /\ SIZE_BAG(w, b) \in Nat /\ SIZE_BAG(w, b) >= 2
      /\ LenWord(w, b) \in 0 .. SIZE_BAG(w, b) - 1
      /\ \A i \in 1 .. SIZE_BAG(w, b) - 1 : Word(w, b, i) \in LiveBags(w) \cup DeadIds(w) \cup {0}
  BY <1>1, Placed DEF WordsAt
<1>5. LenWord(v, b) \in 0 .. SIZE_BAG(w, b) - 1
  BY ONLY <1>4, LenWord(v, b) \in 0 .. LenWord(w, b)
<1>6. WordsAt(v, b)
  BY <1>2, <1>3, <1>4, <1>5 DEF WordsAt, T_LIST, T_WPOBJ
<1>7. RemembersAt(v, b)
  <2> SUFFICES ASSUME IsOld(v, b), LINK_BAG(v, b) = b, NEW i \in 0 .. SIZE_BAG(v, b) - 1,
                      Word(v, b, i) \in LiveBags(v)
               PROVE  Remembered(v, Word(v, b, i))
    BY DEF RemembersAt
  <2>1. i # 0
    <3> SUFFICES ASSUME i = 0 PROVE FALSE
      OBVIOUS
    <3>1. Word(v, b, 0) \in LiveBags(w)
      BY <1>2
    <3>2. Word(v, b, 0) \in Nat
      BY <1>1, <3>1, Placed
    <3>3. LenWord(v, b) \in Nat /\ Word(v, b, 0) = -10 - LenWord(v, b)
      BY <1>5 DEF INTOBJ_INT
    <3> DEFINE l == LenWord(v, b)
               x == Word(v, b, 0)
    <3>4. l \in Nat /\ x \in Nat /\ x = -10 - l
      BY <3>2, <3>3
    <3> HIDE DEF l, x
    <3> QED BY ONLY <3>4
  <2>2. i \in 1 .. SIZE_BAG(w, b) - 1 /\ i \in 0 .. SIZE_BAG(w, b) - 1
    BY <1>2, <1>4, <2>1
  <2>3. Word(v, b, i) = Word(w, b, i)
    <3>1. Word(v, b, i) # 0
      BY <1>1, <1>2, Placed
    <3> QED BY <2>2, <3>1
  <2>4. IsOld(w, b) /\ LINK_BAG(w, b) = b /\ Word(w, b, i) \in LiveBags(w)
    BY <1>2, <2>3
  <2>5. Remembered(w, Word(w, b, i))
    BY <1>1, <2>2, <2>4 DEF RemembersAt
  <2> QED BY <1>2, <2>3, <2>4, <2>5 DEF Remembered
<1> QED BY <1>2, <1>6, <1>7 DEF SoundBut, Sound, WordsOK, RemembersOK

(* One word of a workspace is written.                                     *)
Poke(w, a, x) == [w EXCEPT !.mem[a] = x]

(* The fields after it.                                                    *)
LEMMA PokeFields ==
    ASSUME NEW w, w \in Workspace, NEW a, a \in 1 .. Limit, NEW x, x \in Int, NEW v, v = Poke(w, a, x)
    PROVE  /\ v \in Workspace /\ SameAreas(w, v) /\ v.freeMptr = w.freeMptr /\ v.changed = w.changed
           /\ v.newMarker = w.newMarker /\ v.nrHalfDead = w.nrHalfDead /\ v.nrLive = w.nrLive
           /\ v.mem[a] = x
           /\ \A c \in 1 .. Limit : c # a => v.mem[c] = w.mem[c]
<1>1. w.mem \in [1 .. Limit -> Int]
  BY ONLY w \in Workspace DEF Workspace
<1> DEFINE m == [w.mem EXCEPT ![a] = x]
<1>2. m \in [1 .. Limit -> Int] /\ m[a] = x /\ \A c \in 1 .. Limit : c # a => m[c] = w.mem[c]
  BY ONLY <1>1, a \in 1 .. Limit, x \in Int, Poked
<1>3. v = [w EXCEPT !.mem = m]
  BY ONLY w \in Workspace, v = Poke(w, a, x) DEF Workspace, Poke
<1> HIDE DEF m
<1>4. v \in Workspace
  BY ONLY <1>2, <1>3, w \in Workspace DEF Workspace
<1>5. /\ v.mem = m /\ SameAreas(w, v) /\ v.freeMptr = w.freeMptr /\ v.changed = w.changed
      /\ v.newMarker = w.newMarker /\ v.nrHalfDead = w.nrHalfDead /\ v.nrLive = w.nrLive
  BY ONLY <1>3, w \in Workspace DEF Workspace, SameAreas
<1> QED BY ONLY <1>2, <1>4, <1>5

(* One word of a bag is written.                                           *)
LEMMA PokeWrites ==
    ASSUME NEW w, NEW W, NEW b \in LiveBags(w), Areas(w), Tiles(w, W), NEW k \in 0 .. SIZE_BAG(w, b) - 1,
           NEW a, a = w.mem[b] + k, NEW x \in Int, NEW v, v = Poke(w, a, x)
    PROVE  /\ Writes(w, v, b)
           /\ \A i \in 0 .. SIZE_BAG(w, b) - 1 : Word(v, b, i) = IF i = k THEN x ELSE Word(w, b, i)
<1> DEFINE p == w.mem[b]
           s == SIZE_BAG(w, b)
<1>1. /\ p \in Int /\ w.oldBags + 2 <= p /\ s \in Nat /\ p + s <= w.allocBags /\ b < w.oldBags
      /\ b \in Nat /\ b \in 1 .. Limit
  BY Placed
<1>2. /\ w.oldBags \in Nat /\ w.allocBags \in Nat /\ Limit \in Nat /\ w.allocBags <= Limit + 1
  BY AreaNumbers
<1>3. w \in Workspace
  BY DEF Areas
<1> HIDE DEF p, s
<1>4. k \in 0 .. s - 1 /\ a = p + k
  BY DEF p, s
<1>5. a \in 1 .. Limit /\ b # a /\ a \in p .. p + s - 1
  BY ONLY <1>1, <1>2, <1>4
<1>6. /\ v \in Workspace /\ SameAreas(w, v) /\ v.freeMptr = w.freeMptr /\ v.changed = w.changed
      /\ v.newMarker = w.newMarker /\ v.nrHalfDead = w.nrHalfDead /\ v.nrLive = w.nrLive
      /\ v.mem[a] = x
      /\ \A c \in 1 .. Limit : c # a => v.mem[c] = w.mem[c]
  BY <1>3, <1>5, PokeFields
<1>7. v.mem[b] = p
  BY <1>1, <1>5, <1>6 DEF p
<1>8. ASSUME NEW i \in 0 .. s - 1 PROVE v.mem[p + i] = IF i = k THEN x ELSE w.mem[p + i]
  <2>1. p + i \in 1 .. Limit /\ (i # k => p + i # a) /\ (i = k => p + i = a)
    BY ONLY <1>1, <1>2, <1>4, i \in 0 .. s - 1
  <2> QED BY <1>6, <2>1
<1>9. Writes(w, v, b)
  BY <1>5, <1>6 DEF Writes, p, s
<1> QED BY <1>7, <1>8, <1>9 DEF Word, p, s

(* The operators of weak pointer objects by words.                         *)
LEMMA ElmWord ==
    ASSUME NEW w, NEW W, NEW b \in LiveBags(w), Areas(w), Tiles(w, W)
    PROVE  /\ STORED_LEN_WPOBJ(w, b) = LenWord(w, b) /\ w.mem[b] + 0 = w.mem[b]
           /\ \A i : ELM_WPOBJ(w, b, i) = IF Word(w, b, i) \in DeadIds(w) THEN 0 ELSE Word(w, b, i)
<1>1. w.mem[b] \in Int
  BY Placed
<1>2. w.mem[b] + 0 = w.mem[b]
  BY <1>1
<1>3. \A i : DeadEntry(w, b, i) <=> Word(w, b, i) \in DeadIds(w)
  BY DEF DeadEntry, Word, DeadIds, IdsOf, IsWeakDeadBag, PTR_BAG
<1> QED BY <1>2, <1>3 DEF ELM_WPOBJ, STORED_LEN_WPOBJ, LenWord, Word, PTR_BAG

(* The length of a weak pointer object is the position of the last entry   *)
(* that has not died.                                                      *)
LEMMA LengthFacts ==
    ASSUME NEW w, NEW W, NEW b \in LiveBags(w), Areas(w), Tiles(w, W), LenWord(w, b) \in Nat
    PROVE  /\ LengthWPObj(w, b) \in 0 .. LenWord(w, b)
           /\ \A i \in 1 .. LenWord(w, b) : ELM_WPOBJ(w, b, i) # 0 => i <= LengthWPObj(w, b)
<1> DEFINE L == LenWord(w, b)
           C == {i \in 1 .. L : ELM_WPOBJ(w, b, i) # 0}
           D == {i \in C : i < L + 1}
           len == Max(D \cup {0})
<1>1. STORED_LEN_WPOBJ(w, b) = L
  BY ElmWord
<1>2. \A i \in 1 .. L : i < L + 1
  BY ONLY L \in Nat
<1>3. D = C
  BY <1>2
<1>4. LengthWPObj(w, b) = len
  BY <1>1, <1>3 DEF LengthWPObj
<1>5. L + 1 \in Nat /\ C \subseteq 1 .. L
  BY ONLY L \in Nat
<1>6. /\ len \in C \cup {0} /\ len \in Nat
      /\ \A c \in C : c < L + 1 => c <= len
  <2> HIDE DEF C, L
  <2>1. L \in Nat
    BY DEF L
  <2> QED BY <1>5, <2>1, MaxBelow
<1> HIDE DEF len
<1>7. len \in 0 .. L
  BY <1>5, <1>6
<1> QED BY <1>2, <1>4, <1>6, <1>7

(* The words of a weak pointer object cut to a length.                     *)
TrimsWords(w, v, b, len) ==
    \A i \in 1 .. SIZE_BAG(w, b) - 1 :
        /\ Word(v, b, i) = IF i > len THEN 0 ELSE Word(w, b, i)
        /\ i > len => ELM_WPOBJ(w, b, i) = 0

(* The words that LengthWPObj leaves.                                      *)
LEMMA TrimSound ==
    ASSUME NEW w, NEW W, NEW b \in LiveBags(w), Sound(w, W), TNUM_BAG(w, b) = T_WPOBJ,
           NEW v, v = TrimWPObj(w, b), NEW len, len = LengthWPObj(w, b)
    PROVE  /\ Sound(v, W) /\ Writes(w, v, b)
           /\ len \in 0 .. LenWord(w, b) /\ LenWord(w, b) \in 0 .. SIZE_BAG(w, b) - 1
           /\ LenWord(v, b) = len /\ TrimsWords(w, v, b, len)
<1> DEFINE p == w.mem[b]
           s == SIZE_BAG(w, b)
           L == LenWord(w, b)
           Val(a) == IF a = p THEN INTOBJ_INT(len)
                     ELSE IF a \in p + len + 1 .. p + L THEN 0 ELSE w.mem[a]
           mm == [a \in 1 .. Limit |-> Val(a)]
<1>1. Areas(w) /\ Tiles(w, W) /\ WordsAt(w, b)
  BY DEF Sound, WordsOK
<1>2. /\ s \in Nat /\ s >= 2 /\ L \in 0 .. s - 1
      /\ \A i \in 1 .. s - 1 : i > L => Word(w, b, i) = 0
  BY <1>1, Placed DEF WordsAt
<1>3. len \in 0 .. L /\ \A i \in 1 .. L : ELM_WPOBJ(w, b, i) # 0 => i <= len
  BY <1>1, <1>2, LengthFacts
<1>4. /\ p \in Int /\ w.oldBags + 2 <= p /\ p + s <= w.allocBags /\ b < w.oldBags
      /\ b \in Nat /\ b \in 1 .. Limit
  BY <1>1, Placed
<1>5. w.oldBags \in Nat /\ w.allocBags \in Nat /\ Limit \in Nat /\ w.allocBags <= Limit + 1
  BY <1>1, AreaNumbers
<1>6. w \in Workspace
  BY <1>1 DEF Areas
<1>7. STORED_LEN_WPOBJ(w, b) = L /\ p + 0 = p
  BY <1>1, ElmWord
<1>8. v = [w EXCEPT !.mem = mm]
  BY ONLY <1>6, <1>7, v = TrimWPObj(w, b), len = LengthWPObj(w, b) DEF TrimWPObj, Workspace, PTR_BAG
<1>9. \A a \in 1 .. Limit : Val(a) \in Int
  <2>1. INTOBJ_INT(len) \in Int
    BY <1>2, <1>3 DEF INTOBJ_INT
  <2>2. \A a \in 1 .. Limit : w.mem[a] \in Int
    BY <1>1, AreaFacts
  <2> QED BY ONLY <2>1, <2>2
<1>10. mm \in [1 .. Limit -> Int] /\ \A a \in 1 .. Limit : mm[a] = Val(a)
  <2> HIDE DEF Val
  <2> QED BY ONLY <1>9
<1> HIDE DEF mm
<1>11. /\ v \in Workspace /\ v.mem = mm /\ SameAreas(w, v) /\ v.changed = w.changed /\ v.freeMptr = w.freeMptr
       /\ v.newMarker = w.newMarker /\ v.nrHalfDead = w.nrHalfDead /\ v.nrLive = w.nrLive
  <2>1. v \in Workspace
    BY ONLY <1>6, <1>8, <1>10 DEF Workspace
  <2> QED BY ONLY <1>6, <1>8, <2>1 DEF Workspace, SameAreas
<1> HIDE DEF p, s, L
<1>12. ASSUME NEW a \in 1 .. Limit, a \notin p .. p + s - 1 PROVE v.mem[a] = w.mem[a]
  <2>1. a # p /\ a \notin p + len + 1 .. p + L
    BY ONLY <1>2, <1>3, <1>4, <1>5, <1>12
  <2>2. Val(a) = w.mem[a]
    BY ONLY <2>1
  <2> QED BY <1>10, <1>11, <2>2
<1>13. Writes(w, v, b)
  BY <1>11, <1>12 DEF Writes, p, s
<1>14. v.mem[b] = p
  <2>1. b \notin p .. p + s - 1
    BY ONLY <1>2, <1>4, <1>5
  <2> QED BY <1>4, <1>12, <2>1 DEF p
<1>15. Word(v, b, 0) = INTOBJ_INT(len) /\ LenWord(v, b) = len
  <2>1. p \in 1 .. Limit
    BY ONLY <1>2, <1>4, <1>5
  <2>2. v.mem[p] = INTOBJ_INT(len)
    BY <1>10, <1>11, <2>1
  <2>3. Word(v, b, 0) = INTOBJ_INT(len)
    BY <1>7, <1>14, <2>2 DEF Word
  <2>4. INT_INTOBJ(INTOBJ_INT(len)) = len
    BY <1>2, <1>3 DEF INT_INTOBJ, INTOBJ_INT
  <2> QED BY <2>3, <2>4 DEF LenWord
<1>16. ASSUME NEW i \in 1 .. s - 1
       PROVE  /\ Word(v, b, i) = IF i > len THEN 0 ELSE Word(w, b, i)
              /\ i > len => ELM_WPOBJ(w, b, i) = 0
  <2>1. /\ p + i \in 1 .. Limit /\ p + i # p /\ (i > len /\ i <= L <=> p + i \in p + len + 1 .. p + L)
        /\ i \in Int
    BY ONLY <1>2, <1>3, <1>4, <1>5, i \in 1 .. s - 1
  <2>2. Word(v, b, i) = IF i > len /\ i <= L THEN 0 ELSE Word(w, b, i)
    <3>1. v.mem[p + i] = IF p + i \in p + len + 1 .. p + L THEN 0 ELSE w.mem[p + i]
      BY <1>10, <1>11, <2>1
    <3> QED BY <1>14, <2>1, <3>1 DEF Word, p
  <2>3. i > L => Word(w, b, i) = 0
    BY <1>2
  <2>4. i > len => ELM_WPOBJ(w, b, i) = 0
    <3>1. CASE i > L
      <4>1. ELM_WPOBJ(w, b, i) = IF Word(w, b, i) \in DeadIds(w) THEN 0 ELSE Word(w, b, i)
        BY <1>1, ElmWord
      <4> QED BY <2>3, <3>1, <4>1
    <3>2. CASE ~ (i > L)
      <4>1. i \in 1 .. L
        BY ONLY <1>2, <3>2, i \in 1 .. s - 1
      <4>2. i > len => ~ (i <= len)
        BY ONLY <1>2, <1>3, <2>1
      <4> QED BY <1>3, <4>1, <4>2
    <3> QED BY <3>1, <3>2
  <2>5. Word(v, b, i) = IF i > len THEN 0 ELSE Word(w, b, i)
    <3>1. i > L => i > len
      BY ONLY <1>2, <1>3, <2>1
    <3>2. i > L \/ i <= L
      BY ONLY <1>2, <2>1
    <3> QED BY <2>2, <2>3, <3>1, <3>2
  <2> QED BY <2>4, <2>5
<1>17. Sound(v, W)
  <2>1. \A i \in 1 .. SIZE_BAG(w, b) - 1 :
           Word(v, b, i) \in {Word(w, b, i), 0} /\ (i > LenWord(v, b) => Word(v, b, i) = 0)
    BY <1>15, <1>16 DEF s
  <2>2. LenWord(v, b) \in 0 .. LenWord(w, b) /\ Word(v, b, 0) = INTOBJ_INT(LenWord(v, b))
    BY <1>3, <1>15 DEF L
  <2> QED BY <1>13, <2>1, <2>2, FadeWriteSound
<1> QED BY <1>2, <1>3, <1>13, <1>15, <1>16, <1>17 DEF s, L, TrimsWords

(* An entry that is cleared, or written as it was.                         *)
LEMMA ClearSound ==
    ASSUME NEW w, NEW W, NEW b \in LiveBags(w), Sound(w, W), TNUM_BAG(w, b) = T_WPOBJ,
           NEW pos \in 1 .. SIZE_BAG(w, b) - 1, NEW x \in {Word(w, b, pos), 0},
           NEW v, v = SET_ELM_WPOBJ(w, b, pos, x)
    PROVE  /\ Sound(v, W) /\ Writes(w, v, b) /\ LenWord(v, b) = LenWord(w, b)
           /\ \A i \in 1 .. SIZE_BAG(w, b) - 1 : Word(v, b, i) = IF i = pos THEN x ELSE Word(w, b, i)
<1>1. Areas(w) /\ Tiles(w, W) /\ WordsAt(w, b)
  BY DEF Sound, WordsOK
<1>2. /\ SIZE_BAG(w, b) \in Nat /\ LenWord(w, b) \in 0 .. SIZE_BAG(w, b) - 1
      /\ \A i \in 1 .. SIZE_BAG(w, b) - 1 :
            Word(w, b, i) \in LiveBags(w) \cup DeadIds(w) \cup {0} /\ (i > LenWord(w, b) => Word(w, b, i) = 0)
  BY <1>1, Placed DEF WordsAt
<1>3. x \in Int
  <2>1. Word(w, b, pos) \in LiveBags(w) \cup IdsOf(w) \cup {0}
    BY <1>2 DEF DeadIds
  <2>2. LiveBags(w) \subseteq IdsOf(w) /\ IdsOf(w) \subseteq Int
    BY DEF LiveBags, IdsOf
  <2> QED BY <2>1, <2>2
<1>4. pos \in 0 .. SIZE_BAG(w, b) - 1 /\ 0 \in 0 .. SIZE_BAG(w, b) - 1 /\ 0 # pos
  BY <1>2
<1>5. v = Poke(w, w.mem[b] + pos, x)
  BY DEF SET_ELM_WPOBJ, Poke
<1>6. /\ Writes(w, v, b)
      /\ \A i \in 0 .. SIZE_BAG(w, b) - 1 : Word(v, b, i) = IF i = pos THEN x ELSE Word(w, b, i)
  BY <1>1, <1>3, <1>4, <1>5, PokeWrites
<1>7. Word(v, b, 0) = Word(w, b, 0)
  BY <1>4, <1>6
<1>8. LenWord(v, b) = LenWord(w, b)
  BY <1>7 DEF LenWord
<1>9. Word(w, b, 0) = INTOBJ_INT(LenWord(w, b))
  <2>1. Word(w, b, 0) \in Int
    <3>1. w.mem[b] + 0 \in 1 .. Limit
      BY <1>1, <1>4, PlacedWords
    <3>2. w.mem \in [1 .. Limit -> Int]
      BY <1>1, AreaFacts
    <3> QED BY <3>1, <3>2 DEF Word
  <2> QED BY <2>1 DEF LenWord, INT_INTOBJ, INTOBJ_INT
<1>10. \A i \in 1 .. SIZE_BAG(w, b) - 1 :
          /\ Word(v, b, i) = IF i = pos THEN x ELSE Word(w, b, i)
          /\ Word(v, b, i) \in {Word(w, b, i), 0} /\ (i > LenWord(v, b) => Word(v, b, i) = 0)
  BY <1>2, <1>6, <1>8
<1>11. LenWord(v, b) \in 0 .. LenWord(w, b)
  BY <1>2, <1>8
<1> QED BY <1>6, <1>7, <1>8, <1>9, <1>10, <1>11, FadeWriteSound

(* What the program may see of a step that changes bag b only.             *)
OnlyBag(w, v, b) ==
    /\ LiveBags(v) = LiveBags(w) /\ Quiet(w, v)
    /\ TNUM_BAG(v, b) = TNUM_BAG(w, b)
    /\ \A c \in LiveBags(w) : c # b => SameBag(w, v, c)

(* The same after two such steps.                                          *)
LEMMA OnlyTwice ==
    ASSUME NEW w, NEW v, NEW u, NEW b, OnlyBag(w, v, b), OnlyBag(v, u, b)
    PROVE  OnlyBag(w, u, b)
<1>1. Quiet(w, u)
  BY QuietTwice DEF OnlyBag
<1> QED BY <1>1 DEF OnlyBag, SameBag

(* A live bag is not one that was kept for a weak pointer.                 *)
LEMMA LiveNotDead ==
    ASSUME NEW w, NEW W, Areas(w), Tiles(w, W), NEW b \in LiveBags(w)
    PROVE  b \notin DeadIds(w)
<1>1. w.oldBags + 2 <= w.mem[b] /\ w.mem[b] \in Int
  BY Placed
<1>2. w.oldBags \in Nat
  BY AreaNumbers
<1> QED BY <1>1, <1>2 DEF DeadIds, Markers

(* Steps that keep all bags.                                               *)
LEMMA KeptOnly ==
    ASSUME NEW w, NEW v, NEW b \in LiveBags(w), Kept(w, v)
    PROVE  OnlyBag(w, v, b) /\ SameBag(w, v, b)
BY DEF Kept, OnlyBag, Quiet, SameBag, DeadIds

(* A write.                                                                *)
LEMMA WriteOnly ==
    ASSUME NEW w, NEW W, NEW b \in LiveBags(w), SoundBut(w, W, b), NEW v, Writes(w, v, b)
    PROVE  OnlyBag(w, v, b) /\ SIZE_BAG(v, b) = SIZE_BAG(w, b)
BY WriteSound DEF OnlyBag

(* The cases in which ResizeBag has the room it needs.                     *)
ResizeFits(w, b, n, last) ==
    \/ n = SIZE_BAG(w, b)
    \/ n < SIZE_BAG(w, b) /\ TNUM_BAG(w, b) = T_LIST
    \/ n > SIZE_BAG(w, b) /\ last /\ IsLastBag(w, b) /\ w.mem[b] + n <= w.endBags
    \/ n > SIZE_BAG(w, b) /\ ~ last /\ w.allocBags + 2 + n <= w.endBags

(* ResizeBag as a whole.                                                   *)
LEMMA ResizeBagSound ==
    ASSUME NEW w, NEW W, Sound(w, W), NEW b \in LiveBags(w), NEW n \in Nat, NEW last,
           ResizeFits(w, b, n, last), NEW v, v = ResizeBag(w, b, n, last)
    PROVE  /\ \E U : Sound(v, U)
           /\ OnlyBag(w, v, b) /\ SIZE_BAG(v, b) = n
           /\ \A i \in 0 .. n - 1 : Word(v, b, i) = IF i < SIZE_BAG(w, b) THEN Word(w, b, i) ELSE 0
<1>1. Areas(w) /\ Tiles(w, W)
  BY DEF Sound
<1>2. SIZE_BAG(w, b) \in Nat
  BY <1>1, Placed
<1>3. (\E U : Sound(v, U)) /\ Resizes(w, v, b, n)
  <2>1. CASE n = SIZE_BAG(w, b)
    <3>1. v = w
      BY <2>1 DEF ResizeBag
    <3>2. Resizes(w, w, b, n)
      <4>1. \A i \in 0 .. n - 1 : Word(w, b, i) = IF i < SIZE_BAG(w, b) THEN Word(w, b, i) ELSE 0
        BY <1>2, <2>1
      <4> QED BY <2>1, <4>1 DEF Resizes, SameBag
    <3> QED BY <3>1, <3>2
  <2>2. CASE n < SIZE_BAG(w, b) /\ TNUM_BAG(w, b) = T_LIST
    <3>1. v = ShrinkBag(w, b, n)
      BY <1>2, <2>2 DEF ResizeBag
    <3>2. Sound(v, W \cup {w.mem[b] + n}) /\ Resizes(w, v, b, n)
      BY <2>2, <3>1, ShrinkBagSound
    <3> QED BY <3>2
  <2>3. CASE n > SIZE_BAG(w, b) /\ last /\ IsLastBag(w, b) /\ w.mem[b] + n <= w.endBags
    <3>1. v = EnlargeLastBag(w, b, n)
      BY <1>2, <2>3 DEF ResizeBag
    <3>2. w.mem[b] + SIZE_BAG(w, b) = w.allocBags
      BY <2>3 DEF IsLastBag, PTR_BAG
    <3> QED BY <2>3, <3>1, <3>2, EnlargeLastBagSound
  <2>4. CASE n > SIZE_BAG(w, b) /\ ~ last /\ w.allocBags + 2 + n <= w.endBags
    <3>1. v = MoveBag(w, b, n)
      BY <1>2, <2>4 DEF ResizeBag
    <3> QED BY <2>4, <3>1, MoveBagSound
  <2> QED BY <2>1, <2>2, <2>3, <2>4 DEF ResizeFits
<1>4. b \notin DeadIds(w)
  BY <1>1, LiveNotDead
<1>5. Quiet(w, v)
  BY <1>3, <1>4 DEF Resizes, Quiet, DeadIds
<1>6. OnlyBag(w, v, b)
  BY <1>3, <1>5 DEF Resizes, OnlyBag
<1> QED BY <1>3, <1>6 DEF Resizes

(* A word of a bag, by its position.                                       *)
LEMMA PokeWritesAt ==
    ASSUME NEW w, NEW W, NEW b \in LiveBags(w), Areas(w), Tiles(w, W), NEW k \in 0 .. SIZE_BAG(w, b) - 1,
           NEW x \in Int
    PROVE  LET v == Poke(w, w.mem[b] + k, x)
    IN /\ Writes(w, v, b)
           /\ \A i \in 0 .. SIZE_BAG(w, b) - 1 : Word(v, b, i) = IF i = k THEN x ELSE Word(w, b, i)
<1> DEFINE a == w.mem[b] + k
           v == Poke(w, a, x)
<1>1. a = w.mem[b] + k /\ v = Poke(w, a, x)
  OBVIOUS
<1> HIDE DEF a, v
<1>2. Writes(w, v, b) /\ \A i \in 0 .. SIZE_BAG(w, b) - 1 : Word(v, b, i) = IF i = k THEN x ELSE Word(w, b, i)
  BY <1>1, PokeWrites
<1> QED BY <1>2 DEF a, v

(* An identifier is assigned into a list.                                  *)
SetList(w, b, pos, x) == CHANGED_BAG([w EXCEPT !.mem[w.mem[b] + pos - 1] = x], b)

(* The write is sound, with the call of CHANGED_BAG after it.              *)
LEMMA SetListSound ==
    ASSUME NEW w, NEW W, Sound(w, W), NEW b \in LiveBags(w), TNUM_BAG(w, b) = T_LIST,
           NEW pos, pos \in 1 .. SIZE_BAG(w, b), NEW x, x \in LiveBags(w) \cup {0},
           NEW v, v = SetList(w, b, pos, x)
    PROVE  /\ Sound(v, W) /\ OnlyBag(w, v, b) /\ SIZE_BAG(v, b) = SIZE_BAG(w, b)
           /\ \A i \in 0 .. SIZE_BAG(w, b) - 1 : Word(v, b, i) = IF i = pos - 1 THEN x ELSE Word(w, b, i)
<1>0. PICK k : k = pos - 1
  OBVIOUS
<1> DEFINE u == Poke(w, w.mem[b] + k, x)
<1>1. Areas(w) /\ Tiles(w, W) /\ SoundBut(w, W, b) /\ WordsAt(w, b)
  BY SoundIsBut DEF Sound
<1>2. /\ SIZE_BAG(w, b) \in Nat /\ w.mem[b] \in Int
      /\ \A i \in 0 .. SIZE_BAG(w, b) - 1 : Word(w, b, i) \in LiveBags(w) \cup {0}
  BY <1>1, Placed DEF WordsAt
<1>3. k \in 0 .. SIZE_BAG(w, b) - 1 /\ w.mem[b] + pos - 1 = w.mem[b] + k
  BY <1>0, <1>2
<1>4. x \in Int
  BY <1>1, Placed
<1>5. v = CHANGED_BAG(u, b)
  BY <1>3 DEF Poke, SetList
<1>5a. u = Poke(w, w.mem[b] + k, x)
  OBVIOUS
<1> HIDE DEF u
<1>5b. Writes(w, u, b)
  BY ONLY <1>1, <1>3, <1>4, <1>5a, b \in LiveBags(w), PokeWritesAt
<1>5c. \A i \in 0 .. SIZE_BAG(w, b) - 1 : Word(u, b, i) = IF i = k THEN x ELSE Word(w, b, i)
  BY ONLY <1>1, <1>3, <1>4, <1>5a, b \in LiveBags(w), PokeWritesAt
<1>6. /\ Writes(w, u, b)
      /\ \A i \in 0 .. SIZE_BAG(w, b) - 1 : Word(u, b, i) = IF i = pos - 1 THEN x ELSE Word(w, b, i)
  BY <1>0, <1>5b, <1>5c
<1>7. /\ SoundBut(u, W, b) /\ LiveBags(u) = LiveBags(w) /\ OnlyBag(w, u, b)
      /\ SIZE_BAG(u, b) = SIZE_BAG(w, b) /\ TNUM_BAG(u, b) = TNUM_BAG(w, b)
  BY <1>1, <1>6, WriteSound, WriteOnly
<1>8. WordsAt(u, b)
  BY <1>2, <1>6, <1>7 DEF WordsAt, T_LIST, T_WPOBJ
<1>9. Sound(v, W) /\ Kept(u, v)
  BY <1>5, <1>7, <1>8, ChangedBagSound
<1>10. OnlyBag(u, v, b) /\ SameBag(u, v, b)
  BY <1>7, <1>9, KeptOnly
<1>11. OnlyBag(w, v, b)
  BY <1>7, <1>10, OnlyTwice
<1> QED BY <1>6, <1>7, <1>9, <1>10, <1>11 DEF SameBag

(* The length and an entry of a weak pointer object are written.           *)
StoreSet(w, b, len, pos, x) ==
    CHANGED_BAG(SET_ELM_WPOBJ(STORE_LEN_WPOBJ(w, b, len), b, pos, x), b)

(* The words of the object, before and after.                              *)
Storable(w, b, len) ==
    \A i \in 1 .. SIZE_BAG(w, b) - 1 :
        Word(w, b, i) \in LiveBags(w) \cup DeadIds(w) \cup {0} /\ (i > len => Word(w, b, i) = 0)
Stored(w, v, b, len, pos, x) ==
    /\ SIZE_BAG(v, b) = SIZE_BAG(w, b) /\ LenWord(v, b) = len
    /\ \A i \in 1 .. SIZE_BAG(w, b) - 1 : Word(v, b, i) = IF i = pos THEN x ELSE Word(w, b, i)

(* The write is sound.                                                     *)
LEMMA StoreSetSound ==
    ASSUME NEW w, NEW W, NEW b \in LiveBags(w), SoundBut(w, W, b), TNUM_BAG(w, b) = T_WPOBJ,
           NEW len, len \in 0 .. SIZE_BAG(w, b) - 1, NEW pos, pos \in 1 .. len,
           NEW x, x \in LiveBags(w) \cup {0}, Storable(w, b, len),
           NEW v, v = StoreSet(w, b, len, pos, x)
    PROVE  Sound(v, W) /\ OnlyBag(w, v, b) /\ Stored(w, v, b, len, pos, x)
<1> DEFINE t == STORE_LEN_WPOBJ(w, b, len)
           u == SET_ELM_WPOBJ(t, b, pos, x)
<1>1. Areas(w) /\ Tiles(w, W)
  BY DEF SoundBut
<1>2. SIZE_BAG(w, b) \in Nat /\ w.mem[b] \in Int
  BY <1>1, Placed
<1>3. /\ w.mem[b] + 0 = w.mem[b] /\ 0 \in 0 .. SIZE_BAG(w, b) - 1 /\ SIZE_BAG(w, b) >= 2
      /\ INTOBJ_INT(len) \in Int /\ INT_INTOBJ(INTOBJ_INT(len)) = len
      /\ pos \in 0 .. SIZE_BAG(w, b) - 1 /\ pos # 0
  BY <1>2 DEF INT_INTOBJ, INTOBJ_INT
<1>4. x \in Int
  BY <1>1, Placed
<1>5. t = Poke(w, w.mem[b], INTOBJ_INT(len)) /\ u = Poke(t, t.mem[b] + pos, x) /\ v = CHANGED_BAG(u, b)
  BY DEF Poke, STORE_LEN_WPOBJ, SET_ELM_WPOBJ, StoreSet
<1> HIDE DEF t, u
<1>6. /\ Writes(w, t, b)
      /\ \A i \in 0 .. SIZE_BAG(w, b) - 1 : Word(t, b, i) = IF i = 0 THEN INTOBJ_INT(len) ELSE Word(w, b, i)
  BY <1>1, <1>3, <1>5, PokeWrites
<1>7. /\ SoundBut(t, W, b) /\ LiveBags(t) = LiveBags(w) /\ OnlyBag(w, t, b)
      /\ SIZE_BAG(t, b) = SIZE_BAG(w, b) /\ TNUM_BAG(t, b) = TNUM_BAG(w, b)
  BY <1>6, WriteSound, WriteOnly
<1>8. Areas(t) /\ Tiles(t, W)
  BY <1>7 DEF SoundBut
<1>9. /\ Writes(t, u, b)
      /\ \A i \in 0 .. SIZE_BAG(t, b) - 1 : Word(u, b, i) = IF i = pos THEN x ELSE Word(t, b, i)
  <2>1. b \in LiveBags(t) /\ pos \in 0 .. SIZE_BAG(t, b) - 1
    BY <1>3, <1>7
  <2>2. u = Poke(t, t.mem[b] + pos, x)
    BY <1>5
  <2> HIDE DEF t, u
  <2>3. \A i \in 0 .. SIZE_BAG(t, b) - 1 :
           Word(Poke(t, t.mem[b] + pos, x), b, i) = IF i = pos THEN x ELSE Word(t, b, i)
    BY ONLY <1>4, <1>8, <2>1, PokeWritesAt
  <2>4. Writes(t, Poke(t, t.mem[b] + pos, x), b)
    BY ONLY <1>4, <1>8, <2>1, PokeWritesAt
  <2> QED BY ONLY <2>2, <2>3, <2>4
<1>10. /\ SoundBut(u, W, b) /\ LiveBags(u) = LiveBags(t) /\ OnlyBag(t, u, b)
       /\ SIZE_BAG(u, b) = SIZE_BAG(t, b) /\ TNUM_BAG(u, b) = TNUM_BAG(t, b)
  BY <1>7, <1>9, WriteSound, WriteOnly
<1>11. LenWord(u, b) = len /\ \A i \in 1 .. SIZE_BAG(w, b) - 1 : Word(u, b, i) = IF i = pos THEN x ELSE Word(w, b, i)
  <2>1. Word(u, b, 0) = INTOBJ_INT(len)
    BY <1>3, <1>6, <1>7, <1>9
  <2>2. \A i \in 1 .. SIZE_BAG(w, b) - 1 : i \in 0 .. SIZE_BAG(w, b) - 1 /\ i # 0
    BY <1>2
  <2> QED BY <1>3, <1>6, <1>7, <1>9, <2>1, <2>2 DEF LenWord
<1>12. WordsAt(u, b)
  <2>1. DeadIds(u) = DeadIds(w)
    BY <1>7, <1>10 DEF OnlyBag, Quiet
  <2>2. \A i \in 1 .. SIZE_BAG(w, b) - 1 :
           /\ Word(u, b, i) \in LiveBags(w) \cup DeadIds(w) \cup {0}
           /\ i > len => Word(u, b, i) = 0
    <3>1. \A i \in 1 .. SIZE_BAG(w, b) - 1 : i > len => i # pos
      OBVIOUS
    <3> QED BY <1>11, <3>1 DEF Storable
  <2>3. TNUM_BAG(u, b) = T_WPOBJ /\ SIZE_BAG(u, b) = SIZE_BAG(w, b) /\ LiveBags(u) = LiveBags(w)
    BY <1>7, <1>10
  <2> QED BY <1>3, <1>11, <2>1, <2>2, <2>3 DEF WordsAt, T_LIST, T_WPOBJ
<1>13. b \in LiveBags(u)
  BY <1>7, <1>10
<1>14. Sound(v, W) /\ Kept(u, v)
  BY <1>5, <1>10, <1>12, <1>13, ChangedBagSound
<1>15. OnlyBag(u, v, b) /\ SameBag(u, v, b)
  BY <1>13, <1>14, KeptOnly
<1>16. OnlyBag(w, v, b)
  BY <1>7, <1>10, <1>15, OnlyTwice
<1>17. SIZE_BAG(v, b) = SIZE_BAG(w, b) /\ \A i \in 0 .. SIZE_BAG(w, b) - 1 : Word(v, b, i) = Word(u, b, i)
  BY <1>7, <1>10, <1>15 DEF SameBag
<1>18. LenWord(v, b) = len
  BY <1>3, <1>11, <1>17 DEF LenWord
<1>19. \A i \in 1 .. SIZE_BAG(w, b) - 1 : i \in 0 .. SIZE_BAG(w, b) - 1
  BY <1>2
<1> QED BY <1>11, <1>14, <1>16, <1>17, <1>18, <1>19 DEF Stored

-----------------------------------------------------------------------------
(* Objects as the program knows them, and the bags that hold them.         *)

Object == [type : {T_LIST, T_WPOBJ}, slots : Seq(Nat)]
NumIn(num, b) == IF b = 0 THEN 0 ELSE num[b]
ElmAt(w, b, i) == IF i < SIZE_BAG(w, b) THEN ELM_WPOBJ(w, b, i) ELSE 0

(* Bag b holds what the program stored in an object.                       *)
ListAt(w, num, b, slots) ==
    /\ SIZE_BAG(w, b) = Len(slots)
    /\ \A i \in 1 .. Len(slots) : NumIn(num, Word(w, b, i - 1)) = slots[i]
EntryAt(w, num, b, i, n) ==
    IF ElmAt(w, b, i) = 0 THEN n = 0 \/ \A c \in LiveBags(w) : num[c] # n
    ELSE ElmAt(w, b, i) \in LiveBags(w) /\ num[ElmAt(w, b, i)] = n
WPObjAt(w, num, b, slots) ==
    /\ LenWord(w, b) <= Len(slots)
    /\ \A i \in 1 .. Len(slots) : EntryAt(w, num, b, i, slots[i])
HoldsAt(w, num, b, slots) ==
    /\ TNUM_BAG(w, b) = T_LIST => ListAt(w, num, b, slots)
    /\ TNUM_BAG(w, b) = T_WPOBJ => WPObjAt(w, num, b, slots)
ObjectAt(w, obj, num, b) ==
    /\ num[b] \in 1 .. Len(obj) /\ obj[num[b]].type = TNUM_BAG(w, b)
    /\ HoldsAt(w, num, b, obj[num[b]].slots)

(* Every live bag is an object of its own.                                 *)
ObjectTypes(obj, num) ==
    /\ obj \in Seq(Object) /\ num \in [1 .. Limit -> Nat]
    /\ \A n \in 1 .. Len(obj) : \A i \in 1 .. Len(obj[n].slots) : obj[n].slots[i] <= Len(obj)
Distinct(w, num) == \A b, c \in LiveBags(w) : num[b] = num[c] => b = c
Objects(w, obj, num) ==
    /\ ObjectTypes(obj, num) /\ Distinct(w, num)
    /\ \A b \in LiveBags(w) : ObjectAt(w, obj, num, b)

(* What is needed of a sound workspace here.                               *)
Readable(w) == \E W : Areas(w) /\ Tiles(w, W) /\ WordsOK(w)

(* An entry of a weak pointer object, by what the word is.                 *)
LEMMA ElmCases ==
    ASSUME NEW w, Readable(w), NEW b, b \in LiveBags(w), TNUM_BAG(w, b) = T_WPOBJ, NEW i, i \in Nat, i # 0
    PROVE  /\ SIZE_BAG(w, b) \in Nat
           /\ i < SIZE_BAG(w, b) => Word(w, b, i) \in LiveBags(w) \cup DeadIds(w) \cup {0}
           /\ i < SIZE_BAG(w, b) /\ Word(w, b, i) \in LiveBags(w) => ElmAt(w, b, i) = Word(w, b, i)
           /\ ~ (i < SIZE_BAG(w, b) /\ Word(w, b, i) \in LiveBags(w)) => ElmAt(w, b, i) = 0
           /\ 0 \notin LiveBags(w)
<1>1. PICK W : Areas(w) /\ Tiles(w, W) /\ WordsOK(w)
  BY DEF Readable
<1>2. SIZE_BAG(w, b) \in Nat /\ WordsAt(w, b)
  BY <1>1, Placed DEF WordsOK
<1>3. i < SIZE_BAG(w, b) => i \in 1 .. SIZE_BAG(w, b) - 1
  BY <1>2
<1>4. i < SIZE_BAG(w, b) => Word(w, b, i) \in LiveBags(w) \cup DeadIds(w) \cup {0}
  BY <1>2, <1>3 DEF WordsAt
<1>5. Word(w, b, i) \in LiveBags(w) => Word(w, b, i) \notin DeadIds(w)
  BY <1>1, LiveNotDead
<1>6. ELM_WPOBJ(w, b, i) = IF Word(w, b, i) \in DeadIds(w) THEN 0 ELSE Word(w, b, i)
  BY <1>1, ElmWord
<1>7. 0 \notin LiveBags(w)
  BY <1>1, Placed
<1>8. ASSUME i < SIZE_BAG(w, b), Word(w, b, i) \in LiveBags(w) PROVE ElmAt(w, b, i) = Word(w, b, i)
  BY <1>5, <1>6, <1>8 DEF ElmAt
<1>9. ASSUME ~ (i < SIZE_BAG(w, b) /\ Word(w, b, i) \in LiveBags(w)) PROVE ElmAt(w, b, i) = 0
  <2>1. CASE i < SIZE_BAG(w, b)
    <3>1. ELM_WPOBJ(w, b, i) = 0
      BY <1>4, <1>6, <1>9, <2>1
    <3> QED BY <3>1 DEF ElmAt
  <2>2. CASE ~ (i < SIZE_BAG(w, b))
    BY <2>2 DEF ElmAt
  <2> QED BY <2>1, <2>2
<1> QED BY <1>2, <1>4, <1>7, <1>8, <1>9

(* The slots of an object.                                                 *)
LEMMA ObjectSlots ==
    ASSUME NEW obj, NEW num, ObjectTypes(obj, num), NEW n, n \in 1 .. Len(obj)
    PROVE  /\ obj[n] \in Object /\ obj[n].slots \in Seq(Nat) /\ Len(obj[n].slots) \in Nat
           /\ obj[n].type \in {T_LIST, T_WPOBJ} /\ Len(obj) \in Nat
<1>1. obj \in Seq(Object)
  BY DEF ObjectTypes
<1>2. obj[n] \in Object /\ Len(obj) \in Nat
  BY <1>1
<1> DEFINE o == obj[n]
<1>3. o \in Object
  BY <1>2
<1> HIDE DEF o
<1>4. o.slots \in Seq(Nat) /\ o.type \in {T_LIST, T_WPOBJ}
  BY ONLY <1>3 DEF Object
<1>5. Len(o.slots) \in Nat
  BY ONLY <1>4
<1> QED BY <1>2, <1>4, <1>5 DEF o

-----------------------------------------------------------------------------
(* Bags may go, and entries of weak pointer objects with them.             *)
Fades(w, v) ==
    /\ LiveBags(v) \subseteq LiveBags(w)
    /\ \A b \in LiveBags(v) :
          /\ TNUM_BAG(v, b) = TNUM_BAG(w, b) /\ SIZE_BAG(v, b) = SIZE_BAG(w, b)
          /\ TNUM_BAG(w, b) = T_LIST =>
                \A i \in 0 .. SIZE_BAG(w, b) - 1 : Word(v, b, i) = Word(w, b, i)
          /\ TNUM_BAG(w, b) = T_WPOBJ =>
                /\ LenWord(v, b) <= LenWord(w, b)
                /\ \A i \in 1 .. SIZE_BAG(w, b) - 1 :
                      \/ Word(v, b, i) = Word(w, b, i)
                      \/ Word(v, b, i) = 0 /\ Word(w, b, i) \notin LiveBags(v)

(* An entry remains, or the object in it has gone.                         *)
LEMMA FadedEntry ==
    ASSUME NEW w, NEW v, Readable(w), Readable(v), Fades(w, v), NEW num, Distinct(w, num),
           NEW b, b \in LiveBags(v), TNUM_BAG(w, b) = T_WPOBJ, NEW i, i \in Nat, i # 0, NEW n,
           EntryAt(w, num, b, i, n)
    PROVE  EntryAt(v, num, b, i, n)
<1>1. /\ b \in LiveBags(w) /\ LiveBags(v) \subseteq LiveBags(w)
      /\ TNUM_BAG(v, b) = T_WPOBJ /\ SIZE_BAG(v, b) = SIZE_BAG(w, b)
  BY DEF Fades
<1>2. SIZE_BAG(w, b) \in Nat
  BY <1>1, ElmCases
<1>3. CASE i < SIZE_BAG(w, b) /\ Word(v, b, i) \in LiveBags(v)
  <2>1. ElmAt(v, b, i) = Word(v, b, i) /\ Word(v, b, i) # 0
    BY <1>1, <1>3, ElmCases
  <2>2. i \in 1 .. SIZE_BAG(w, b) - 1
    BY <1>2, <1>3
  <2>3. Word(w, b, i) = Word(v, b, i)
    BY <2>1, <2>2 DEF Fades
  <2>4. ElmAt(w, b, i) = Word(w, b, i)
    BY <1>1, <1>3, <2>3, ElmCases
  <2> QED BY <1>3, <2>1, <2>3, <2>4 DEF EntryAt
<1>4. CASE ~ (i < SIZE_BAG(w, b) /\ Word(v, b, i) \in LiveBags(v))
  <2>1. ElmAt(v, b, i) = 0
    BY <1>1, <1>4, ElmCases
  <2>2. ASSUME n # 0, NEW c \in LiveBags(v) PROVE num[c] # n
    <3>1. CASE ElmAt(w, b, i) = 0
      BY <1>1, <2>2, <3>1 DEF EntryAt
    <3>2. CASE ElmAt(w, b, i) # 0
      <4>1. i < SIZE_BAG(w, b) /\ ElmAt(w, b, i) = Word(w, b, i)
        BY <1>1, <3>2, ElmCases
      <4>2. i \in 1 .. SIZE_BAG(w, b) - 1
        BY <1>2, <4>1
      <4>3. Word(w, b, i) \notin LiveBags(v)
        BY <1>4, <4>1, <4>2 DEF Fades
      <4>4. Word(w, b, i) \in LiveBags(w) /\ num[Word(w, b, i)] = n
        BY <3>2, <4>1 DEF EntryAt
      <4>5. c \in LiveBags(w)
        BY <1>1
      <4> QED BY <4>3, <4>4, <4>5 DEF Distinct
    <3> QED BY <3>1, <3>2
  <2> QED BY <2>1, <2>2 DEF EntryAt
<1> QED BY <1>3, <1>4

(* The program does not notice.                                            *)
LEMMA FadesObjects ==
    ASSUME NEW w, NEW v, Readable(w), Readable(v), Fades(w, v), NEW obj, NEW num, Objects(w, obj, num)
    PROVE  Objects(v, obj, num)
<1>1. LiveBags(v) \subseteq LiveBags(w)
  BY DEF Fades
<1>2. Distinct(w, num) /\ Distinct(v, num) /\ ObjectTypes(obj, num)
  BY <1>1 DEF Objects, Distinct
<1>3. ASSUME NEW b \in LiveBags(v) PROVE ObjectAt(v, obj, num, b)
  <2>1. /\ b \in LiveBags(w) /\ TNUM_BAG(v, b) = TNUM_BAG(w, b) /\ SIZE_BAG(v, b) = SIZE_BAG(w, b)
        /\ num[b] \in 1 .. Len(obj) /\ obj[num[b]].type = TNUM_BAG(w, b)
    BY <1>1 DEF Fades, Objects, ObjectAt
  <2> DEFINE slots == obj[num[b]].slots
  <2>2. slots \in Seq(Nat)
    BY <1>2, <2>1, ObjectSlots
  <2>3. HoldsAt(w, num, b, slots)
    BY <2>1 DEF Objects, ObjectAt
  <2> HIDE DEF slots
  <2>4. Len(slots) \in Nat
    BY <2>2
  <2>5. TNUM_BAG(v, b) = T_LIST => ListAt(v, num, b, slots)
    <3> SUFFICES ASSUME TNUM_BAG(v, b) = T_LIST PROVE ListAt(v, num, b, slots)
      OBVIOUS
    <3>1. ListAt(w, num, b, slots)
      BY <2>1, <2>3 DEF HoldsAt
    <3>2. \A i \in 0 .. SIZE_BAG(w, b) - 1 : Word(v, b, i) = Word(w, b, i)
      BY <2>1 DEF Fades
    <3>3. \A i \in 1 .. Len(slots) : i - 1 \in 0 .. Len(slots) - 1
      BY <2>4
    <3> QED BY <2>1, <3>1, <3>2, <3>3 DEF ListAt
  <2>6. TNUM_BAG(v, b) = T_WPOBJ => WPObjAt(v, num, b, slots)
    <3> SUFFICES ASSUME TNUM_BAG(v, b) = T_WPOBJ PROVE WPObjAt(v, num, b, slots)
      OBVIOUS
    <3>1. WPObjAt(w, num, b, slots)
      BY <2>1, <2>3 DEF HoldsAt
    <3>2. LenWord(v, b) <= LenWord(w, b) /\ LenWord(w, b) <= Len(slots)
      BY <2>1, <3>1 DEF Fades, WPObjAt
    <3>3. LenWord(v, b) \in Int /\ LenWord(w, b) \in Int
      <4>1. WordsAt(w, b) /\ WordsAt(v, b)
        BY <2>1 DEF Readable, WordsOK
      <4> QED BY <2>1, <4>1 DEF WordsAt
    <3>4. LenWord(v, b) <= Len(slots)
      BY <2>4, <3>2, <3>3
    <3>5. \A i \in 1 .. Len(slots) : EntryAt(v, num, b, i, slots[i])
      <4> TAKE i \in 1 .. Len(slots)
      <4>1. EntryAt(w, num, b, i, slots[i])
        BY <3>1 DEF WPObjAt
      <4>2. i \in Nat /\ i # 0
        OBVIOUS
      <4> QED BY <1>2, <2>1, <4>1, <4>2, FadedEntry
    <3> QED BY <3>4, <3>5 DEF WPObjAt
  <2> QED BY <2>1, <2>5, <2>6 DEF ObjectAt, HoldsAt, slots
<1> QED BY <1>2, <1>3 DEF Objects

(* A sound workspace can be read.                                          *)
LEMMA SoundReadable ==
    ASSUME NEW w, NEW W, Sound(w, W)
    PROVE  Readable(w) /\ Areas(w) /\ Tiles(w, W)
BY DEF Sound, Readable

(* What a weak pointer object has for its length is no identifier.         *)
LEMMA LengthIsNoId ==
    ASSUME NEW w, Readable(w), NEW b \in LiveBags(w), TNUM_BAG(w, b) = T_WPOBJ
    PROVE  /\ SIZE_BAG(w, b) \in Nat /\ 0 \in 0 .. SIZE_BAG(w, b) - 1
           /\ LenWord(w, b) \in Nat /\ LenWord(w, b) < SIZE_BAG(w, b)
           /\ Word(w, b, 0) \notin IdsOf(w)
<1>1. PICK W : Areas(w) /\ Tiles(w, W) /\ WordsOK(w)
  BY DEF Readable
<1>2. SIZE_BAG(w, b) \in Nat /\ WordsAt(w, b)
  BY <1>1, Placed DEF WordsOK
<1>3. SIZE_BAG(w, b) >= 2 /\ LenWord(w, b) \in 0 .. SIZE_BAG(w, b) - 1
  BY <1>2 DEF WordsAt
<1>4. LenWord(w, b) \in Nat /\ LenWord(w, b) < SIZE_BAG(w, b) /\ 0 \in 0 .. SIZE_BAG(w, b) - 1
  BY ONLY <1>2, <1>3
<1>5. ASSUME Word(w, b, 0) \in IdsOf(w) PROVE FALSE
  <2>1. Word(w, b, 0) \in Nat
    BY <1>5 DEF IdsOf
  <2>2. -10 - Word(w, b, 0) \in Nat
    BY <1>4 DEF LenWord, INT_INTOBJ
  <2> QED BY <2>1, <2>2
<1> QED BY <1>2, <1>4, <1>5

(* The program does not notice a collection.                               *)
LEMMA CollectedFades ==
    ASSUME NEW w, NEW W, Sound(w, W), NEW m, MarksOK(w, m), NEW v, Collected(w, m, v)
    PROVE  Fades(w, v)
<1>1. Readable(w) /\ Areas(w) /\ Tiles(w, W)
  BY SoundReadable
<1>2. /\ LiveBags(v) = Survivors(w, m) /\ Survivors(w, m) \subseteq LiveBags(w)
      /\ m.halfDead \cap Survivors(w, m) = {}
  BY DEF Collected, MarksOK, Survivors, YoungBagsOf
<1>3. \A x \in LiveBags(w) : x \notin DeadIds(w)
  BY <1>1, LiveNotDead
<1>4. LiveBags(w) \cup DeadIds(w) \subseteq IdsOf(w) /\ m.halfDead \subseteq LiveBags(w)
  BY DEF LiveBags, IdsOf, DeadIds, MarksOK, YoungBagsOf
<1>5. ASSUME NEW b \in LiveBags(v)
      PROVE  /\ TNUM_BAG(v, b) = TNUM_BAG(w, b) /\ SIZE_BAG(v, b) = SIZE_BAG(w, b)
             /\ TNUM_BAG(w, b) = T_LIST =>
                   \A i \in 0 .. SIZE_BAG(w, b) - 1 : Word(v, b, i) = Word(w, b, i)
             /\ TNUM_BAG(w, b) = T_WPOBJ =>
                   /\ LenWord(v, b) <= LenWord(w, b)
                   /\ \A i \in 1 .. SIZE_BAG(w, b) - 1 :
                         \/ Word(v, b, i) = Word(w, b, i)
                         \/ Word(v, b, i) = 0 /\ Word(w, b, i) \notin LiveBags(v)
  <2>1. /\ TNUM_BAG(v, b) = TNUM_BAG(w, b) /\ SIZE_BAG(v, b) = SIZE_BAG(w, b)
        /\ \A i \in 0 .. SIZE_BAG(w, b) - 1 :
              \/ Word(v, b, i) = Word(w, b, i)
              \/ /\ Word(v, b, i) = 0 /\ TNUM_BAG(w, b) = T_WPOBJ
                 /\ Word(w, b, i) \in DeadIds(w) \cup m.halfDead
    BY <1>2 DEF Collected
  <2>2. TNUM_BAG(w, b) = T_LIST => \A i \in 0 .. SIZE_BAG(w, b) - 1 : Word(v, b, i) = Word(w, b, i)
    BY <2>1 DEF T_LIST, T_WPOBJ
  <2>3. ASSUME TNUM_BAG(w, b) = T_WPOBJ PROVE LenWord(v, b) <= LenWord(w, b)
    <3>1. LenWord(w, b) \in Nat /\ Word(w, b, 0) \notin IdsOf(w) /\ 0 \in 0 .. SIZE_BAG(w, b) - 1
      BY <1>1, <1>2, <2>3, LengthIsNoId
    <3>2. Word(v, b, 0) = Word(w, b, 0)
      BY <1>4, <2>1, <3>1
    <3> QED BY <3>1, <3>2 DEF LenWord
  <2>4. ASSUME TNUM_BAG(w, b) = T_WPOBJ, NEW i \in 1 .. SIZE_BAG(w, b) - 1
        PROVE  \/ Word(v, b, i) = Word(w, b, i)
               \/ Word(v, b, i) = 0 /\ Word(w, b, i) \notin LiveBags(v)
    <3>1. i \in 0 .. SIZE_BAG(w, b) - 1
      OBVIOUS
    <3> QED BY <1>2, <1>3, <2>1, <3>1
  <2> QED BY <2>1, <2>2, <2>3, <2>4
<1> QED BY <1>2, <1>5 DEF Fades

(* Nor does it notice that bags have moved.                                *)
LEMMA SameBagsFades ==
    ASSUME NEW w, Readable(w), NEW v, LiveBags(v) = LiveBags(w), \A b \in LiveBags(w) : SameBag(w, v, b)
    PROVE  Fades(w, v)
<1>1. ASSUME NEW b \in LiveBags(v)
      PROVE  /\ TNUM_BAG(v, b) = TNUM_BAG(w, b) /\ SIZE_BAG(v, b) = SIZE_BAG(w, b)
             /\ \A i \in 0 .. SIZE_BAG(w, b) - 1 : Word(v, b, i) = Word(w, b, i)
             /\ TNUM_BAG(w, b) = T_WPOBJ => LenWord(v, b) <= LenWord(w, b)
  <2>1. /\ TNUM_BAG(v, b) = TNUM_BAG(w, b) /\ SIZE_BAG(v, b) = SIZE_BAG(w, b)
        /\ \A i \in 0 .. SIZE_BAG(w, b) - 1 : Word(v, b, i) = Word(w, b, i)
    BY DEF SameBag
  <2>2. ASSUME TNUM_BAG(w, b) = T_WPOBJ PROVE LenWord(v, b) <= LenWord(w, b)
    <3>1. LenWord(w, b) \in Nat /\ 0 \in 0 .. SIZE_BAG(w, b) - 1
      BY <2>2, LengthIsNoId
    <3>2. Word(v, b, 0) = Word(w, b, 0)
      BY <2>1, <3>1
    <3> QED BY <3>1, <3>2 DEF LenWord
  <2> QED BY <2>1, <2>2
<1>2. \A s, i : i \in 1 .. s - 1 => i \in 0 .. s - 1
  OBVIOUS
<1> QED BY <1>1, <1>2 DEF Fades

(* Nor that the entries of a weak pointer object that have died are gone.  *)
LEMMA OnlyFades ==
    ASSUME NEW w, Readable(w), NEW b \in LiveBags(w), TNUM_BAG(w, b) = T_WPOBJ,
           NEW v, OnlyBag(w, v, b), SIZE_BAG(v, b) = SIZE_BAG(w, b), LenWord(v, b) <= LenWord(w, b),
           \A i \in 1 .. SIZE_BAG(w, b) - 1 :
              \/ Word(v, b, i) = Word(w, b, i)
              \/ Word(v, b, i) = 0 /\ Word(w, b, i) \notin LiveBags(w)
    PROVE  Fades(w, v)
<1>1. LiveBags(v) = LiveBags(w) /\ TNUM_BAG(v, b) = TNUM_BAG(w, b)
      /\ \A c \in LiveBags(w) : c # b => SameBag(w, v, c)
  BY DEF OnlyBag
<1>2. ASSUME NEW c \in LiveBags(v), c # b
      PROVE  /\ TNUM_BAG(v, c) = TNUM_BAG(w, c) /\ SIZE_BAG(v, c) = SIZE_BAG(w, c)
             /\ \A i \in 0 .. SIZE_BAG(w, c) - 1 : Word(v, c, i) = Word(w, c, i)
             /\ TNUM_BAG(w, c) = T_WPOBJ => LenWord(v, c) <= LenWord(w, c)
  <2>1. /\ TNUM_BAG(v, c) = TNUM_BAG(w, c) /\ SIZE_BAG(v, c) = SIZE_BAG(w, c)
        /\ \A i \in 0 .. SIZE_BAG(w, c) - 1 : Word(v, c, i) = Word(w, c, i)
    BY <1>1, <1>2 DEF SameBag
  <2>2. ASSUME TNUM_BAG(w, c) = T_WPOBJ PROVE LenWord(v, c) <= LenWord(w, c)
    <3>1. LenWord(w, c) \in Nat /\ 0 \in 0 .. SIZE_BAG(w, c) - 1
      BY <1>1, <2>2, LengthIsNoId
    <3>2. Word(v, c, 0) = Word(w, c, 0)
      BY <2>1, <3>1
    <3> QED BY <3>1, <3>2 DEF LenWord
  <2> QED BY <2>1, <2>2
<1>3. \A s, i : i \in 1 .. s - 1 => i \in 0 .. s - 1
  OBVIOUS
<1>4. TNUM_BAG(w, b) # T_LIST
  BY DEF T_LIST, T_WPOBJ
<1> QED BY <1>1, <1>2, <1>3, <1>4 DEF Fades

-----------------------------------------------------------------------------
(* A bag that is copied, or stays, holds the same object, though objects   *)
(* may have come with numbers that it does not name.                       *)
LEMMA HoldsCopied ==
    ASSUME NEW w, NEW v, Readable(w), Readable(v), NEW c \in LiveBags(w), NEW d \in LiveBags(v),
           Copies(w, c, v, d), LiveBags(w) \subseteq LiveBags(v), DeadIds(w) \subseteq DeadIds(v),
           NEW num, NEW num2, \A x \in LiveBags(w) : num2[x] = num[x],
           NEW slots, slots \in Seq(Nat), HoldsAt(w, num, c, slots),
           \A x \in LiveBags(v) \ LiveBags(w) : \A i \in 1 .. Len(slots) : num2[x] # slots[i]
    PROVE  HoldsAt(v, num2, d, slots)
<1>0. PICK W : Areas(w) /\ Tiles(w, W) /\ WordsOK(w)
  BY DEF Readable
<1>1. /\ TNUM_BAG(v, d) = TNUM_BAG(w, c) /\ SIZE_BAG(v, d) = SIZE_BAG(w, c)
      /\ \A i \in 0 .. SIZE_BAG(w, c) - 1 : Word(v, d, i) = Word(w, c, i)
  BY DEF Copies
<1>2. SIZE_BAG(w, c) \in Nat /\ WordsAt(w, c) /\ Len(slots) \in Nat
  BY <1>0, Placed DEF WordsOK
<1>3. \A x \in LiveBags(v) : x \notin DeadIds(v)
  BY LiveNotDead DEF Readable
<1>3a. 0 \notin LiveBags(w) /\ 0 \notin LiveBags(v)
  <2>1. \A x \in LiveBags(w) : x # 0
    BY <1>0, Placed
  <2>2. \A x \in LiveBags(v) : x # 0
    BY Placed DEF Readable
  <2> QED BY <2>1, <2>2
<1>3b. TNUM_BAG(v, d) = T_WPOBJ => TNUM_BAG(w, c) = T_WPOBJ
  BY <1>1
<1>4. ASSUME TNUM_BAG(v, d) = T_LIST PROVE ListAt(v, num2, d, slots)
  <2>1. SIZE_BAG(w, c) = Len(slots) /\ \A i \in 1 .. Len(slots) : NumIn(num, Word(w, c, i - 1)) = slots[i]
    BY <1>1, <1>4 DEF HoldsAt, ListAt
  <2>2. ASSUME NEW i \in 1 .. Len(slots) PROVE NumIn(num2, Word(v, d, i - 1)) = slots[i]
    <3>1. i - 1 \in 0 .. SIZE_BAG(w, c) - 1
      BY <1>2, <2>1
    <3>2. Word(v, d, i - 1) = Word(w, c, i - 1) /\ Word(w, c, i - 1) \in LiveBags(w) \cup {0}
      BY <1>1, <1>2, <1>4, <3>1 DEF WordsAt
    <3> QED BY <2>1, <3>2 DEF NumIn
  <2> QED BY <1>1, <2>1, <2>2 DEF ListAt
<1>5. ASSUME TNUM_BAG(v, d) = T_WPOBJ PROVE WPObjAt(v, num2, d, slots)
  <2>1. LenWord(w, c) <= Len(slots) /\ \A i \in 1 .. Len(slots) : EntryAt(w, num, c, i, slots[i])
    BY <1>1, <1>5 DEF HoldsAt, WPObjAt
  <2>2. LenWord(v, d) = LenWord(w, c)
    <3>1. 0 \in 0 .. SIZE_BAG(w, c) - 1
      BY <1>1, <1>5, LengthIsNoId
    <3> QED BY <1>1, <3>1 DEF LenWord
  <2>3. ASSUME NEW i \in 1 .. Len(slots) PROVE EntryAt(v, num2, d, i, slots[i])
    <3>0. i \in Nat /\ i # 0
      BY <1>2
    <3>1. CASE i < SIZE_BAG(w, c) /\ Word(w, c, i) \in LiveBags(w)
      <4>1. i \in 0 .. SIZE_BAG(w, c) - 1
        BY <1>2, <3>0, <3>1
      <4>2. Word(v, d, i) = Word(w, c, i)
        BY <1>1, <4>1
      <4>4. ElmAt(w, c, i) = Word(w, c, i)
        BY <1>3b, <1>5, <3>0, <3>1, ElmCases
      <4>5. i < SIZE_BAG(v, d) /\ Word(v, d, i) \in LiveBags(v)
        BY <1>1, <3>1, <4>2
      <4>6. ElmAt(v, d, i) = Word(v, d, i)
        BY <1>5, <3>0, <4>5, ElmCases
      <4>3. ElmAt(w, c, i) = Word(w, c, i) /\ ElmAt(v, d, i) = Word(w, c, i) /\ Word(w, c, i) # 0
        BY <1>3a, <3>1, <4>2, <4>4, <4>6
      <4> QED BY <2>1, <3>1, <4>3 DEF EntryAt
    <3>2. CASE ~ (i < SIZE_BAG(w, c) /\ Word(w, c, i) \in LiveBags(w))
      <4>1. ElmAt(w, c, i) = 0
        BY <1>1, <1>5, <3>0, <3>2, ElmCases
      <4>2. ASSUME i < SIZE_BAG(w, c) PROVE Word(v, d, i) \notin LiveBags(v)
        <5>1. i \in 0 .. SIZE_BAG(w, c) - 1
          BY <1>2, <3>0, <4>2
        <5>2. Word(v, d, i) = Word(w, c, i) /\ Word(w, c, i) \in DeadIds(w) \cup {0}
          BY <1>1, <1>5, <3>0, <3>2, <4>2, <5>1, ElmCases
        <5> QED BY <1>3, <1>3a, <5>2
      <4>3. ElmAt(v, d, i) = 0
        BY <1>1, <1>5, <3>0, <4>2, ElmCases
      <4>4. slots[i] = 0 \/ \A x \in LiveBags(w) : num[x] # slots[i]
        BY <2>1, <4>1 DEF EntryAt
      <4> QED BY <4>3, <4>4 DEF EntryAt
    <3> QED BY <3>1, <3>2
  <2> QED BY <2>1, <2>2, <2>3 DEF WPObjAt
<1> QED BY <1>4, <1>5 DEF HoldsAt

(* One value of a function, and the slots of one object, are replaced.     *)
SetTo(f, x, y) == [f EXCEPT ![x] = y]
Added(obj, type, s) == Append(obj, [type |-> type, slots |-> s])

(* The slots of one object are replaced.                                   *)
Put(obj, n, s) == [obj EXCEPT ![n].slots = s]

(* What Put makes of the objects.                                          *)
LEMMA PutSlots ==
    ASSUME NEW obj, NEW num, ObjectTypes(obj, num), NEW n, n \in 1 .. Len(obj),
           NEW s, s \in Seq(Nat), \A i \in 1 .. Len(s) : s[i] <= Len(obj),
           NEW o, o = Put(obj, n, s)
    PROVE  /\ ObjectTypes(o, num) /\ Len(o) = Len(obj)
           /\ o[n].type = obj[n].type /\ o[n].slots = s
           /\ \A k \in 1 .. Len(obj) : k # n => o[k] = obj[k]
<1> DEFINE e == [obj[n] EXCEPT !.slots = s]
<1>1. obj[n] \in Object /\ obj \in Seq(Object)
  BY ObjectSlots DEF ObjectTypes
<1>2. e \in Object /\ e.type = obj[n].type /\ e.slots = s
  <2> DEFINE p == obj[n]
  <2>1. p \in Object
    BY <1>1
  <2> HIDE DEF p
  <2>2. /\ [p EXCEPT !.slots = s] \in Object /\ [p EXCEPT !.slots = s].type = p.type
        /\ [p EXCEPT !.slots = s].slots = s
    BY <2>1 DEF Object
  <2> QED BY <2>2 DEF p
<1>3. o = [obj EXCEPT ![n] = e]
  BY DEF Put
<1> HIDE DEF e
<1>4. /\ o \in Seq(Object) /\ Len(o) = Len(obj)
      /\ \A j \in 1 .. Len(obj) : o[j] = IF j = n THEN e ELSE obj[j]
  BY ONLY <1>1, <1>2, <1>3, n \in 1 .. Len(obj), ExceptSeq
<1>5. ASSUME NEW k \in 1 .. Len(o), NEW i \in 1 .. Len(o[k].slots) PROVE o[k].slots[i] <= Len(o)
  <2>1. CASE k = n
    <3>1. o[k].slots = s
      BY <1>2, <1>4, <2>1
    <3> QED BY <1>4, <1>5, <3>1
  <2>2. CASE k # n
    <3>1. o[k] = obj[k]
      BY <1>4, <2>2
    <3> QED BY <1>4, <1>5, <3>1 DEF ObjectTypes
  <2> QED BY <2>1, <2>2
<1>6. ObjectTypes(o, num)
  BY <1>4, <1>5 DEF ObjectTypes
<1> QED BY <1>2, <1>4, <1>6

(* The program writes into one object.                                     *)
LEMMA OneObject ==
    ASSUME NEW w, NEW v, Readable(w), Readable(v), NEW b \in LiveBags(w), OnlyBag(w, v, b),
           NEW obj, NEW num, Objects(w, obj, num), NEW n, n = num[b],
           NEW s, s \in Seq(Nat), \A i \in 1 .. Len(s) : s[i] <= Len(obj), HoldsAt(v, num, b, s),
           NEW o, o = Put(obj, n, s)
    PROVE  Objects(v, o, num)
<1>1. ObjectTypes(obj, num) /\ Distinct(w, num) /\ \A c \in LiveBags(w) : ObjectAt(w, obj, num, c)
  BY DEF Objects
<1>2. n \in 1 .. Len(obj) /\ obj[n].type = TNUM_BAG(w, b)
  BY <1>1 DEF ObjectAt
<1>3. /\ ObjectTypes(o, num) /\ Len(o) = Len(obj)
      /\ o[n].type = obj[n].type /\ o[n].slots = s
      /\ \A k \in 1 .. Len(obj) : k # n => o[k] = obj[k]
  BY <1>1, <1>2, PutSlots
<1>4. /\ LiveBags(v) = LiveBags(w) /\ TNUM_BAG(v, b) = TNUM_BAG(w, b) /\ DeadIds(v) = DeadIds(w)
      /\ \A c \in LiveBags(w) : c # b => SameBag(w, v, c)
  BY DEF OnlyBag, Quiet
<1>5. ASSUME NEW c \in LiveBags(v), c # b PROVE ObjectAt(v, o, num, c)
  <2>1. c \in LiveBags(w) /\ Copies(w, c, v, c)
    BY <1>4, <1>5 DEF SameBag, Copies
  <2>2. num[c] # n
    BY <1>1, <1>5, <2>1 DEF Distinct
  <2>3. /\ num[c] \in 1 .. Len(obj) /\ obj[num[c]].type = TNUM_BAG(w, c)
        /\ HoldsAt(w, num, c, obj[num[c]].slots)
    BY <1>1, <2>1 DEF ObjectAt
  <2>4. o[num[c]] = obj[num[c]]
    BY <1>3, <2>2, <2>3
  <2> DEFINE slots == obj[num[c]].slots
  <2>5. slots \in Seq(Nat) /\ HoldsAt(w, num, c, slots)
    BY <1>1, <2>3, ObjectSlots
  <2> HIDE DEF slots
  <2>6. HoldsAt(v, num, c, slots)
    BY <1>4, <2>1, <2>5, HoldsCopied
  <2> QED BY <1>3, <2>1, <2>3, <2>4, <2>6 DEF ObjectAt, Copies, slots
<1>6. ObjectAt(v, o, num, b)
  BY <1>2, <1>3, <1>4 DEF ObjectAt
<1>7. Distinct(v, num)
  BY <1>1, <1>4 DEF Distinct
<1> QED BY <1>3, <1>5, <1>6, <1>7 DEF Objects

Switched(obj, m, n) == [obj EXCEPT ![m] = obj[n], ![n] = obj[m]]

(* Two objects change places, and with them what the program knows.        *)
LEMMA SwapObjects ==
    ASSUME NEW w, NEW v, Readable(w), Readable(v), NEW b \in LiveBags(w), NEW c \in LiveBags(w), b # c,
           LiveBags(v) = LiveBags(w), DeadIds(v) = DeadIds(w),
           \A d \in LiveBags(w) : d \notin {b, c} => SameBag(w, v, d),
           Copies(w, c, v, b), Copies(w, b, v, c),
           NEW obj, NEW num, Objects(w, obj, num), NEW m, m = num[b], NEW n, n = num[c],
           NEW o, o = Switched(obj, m, n)
    PROVE  Objects(v, o, num)
<1>1. ObjectTypes(obj, num) /\ Distinct(w, num) /\ \A d \in LiveBags(w) : ObjectAt(w, obj, num, d)
  BY DEF Objects
<1>2. m \in 1 .. Len(obj) /\ n \in 1 .. Len(obj) /\ m # n
  BY <1>1 DEF ObjectAt, Distinct
<1>3. obj[m] \in Object /\ obj[n] \in Object /\ obj \in Seq(Object)
  BY <1>1, <1>2, ObjectSlots DEF ObjectTypes
<1> DEFINE x == [obj EXCEPT ![m] = obj[n]]
<1>4. /\ x \in Seq(Object) /\ Len(x) = Len(obj)
      /\ \A j \in 1 .. Len(obj) : x[j] = IF j = m THEN obj[n] ELSE obj[j]
  BY ONLY <1>2, <1>3, ExceptSeq
<1>5. o = [x EXCEPT ![n] = obj[m]]
  BY DEF Switched
<1> HIDE DEF x
<1>6. /\ o \in Seq(Object) /\ Len(o) = Len(x)
      /\ \A j \in 1 .. Len(x) : o[j] = IF j = n THEN obj[m] ELSE x[j]
  BY ONLY <1>2, <1>3, <1>4, <1>5, ExceptSeq
<1>7. \A j \in 1 .. Len(obj) : o[j] = obj[IF j = n THEN m ELSE IF j = m THEN n ELSE j]
  BY ONLY <1>2, <1>4, <1>6
<1>8. ObjectTypes(o, num)
  <2>1. ASSUME NEW k \in 1 .. Len(o), NEW i \in 1 .. Len(o[k].slots) PROVE o[k].slots[i] <= Len(o)
    <3>1. PICK j \in 1 .. Len(obj) : o[k] = obj[j]
      BY <1>2, <1>4, <1>6, <1>7
    <3> QED BY <1>1, <1>4, <1>6, <2>1, <3>1 DEF ObjectTypes
  <2> QED BY <1>1, <1>6, <2>1 DEF ObjectTypes
<1>9. ASSUME NEW d \in LiveBags(w), NEW e \in LiveBags(w), Copies(w, d, v, e), o[num[e]] = obj[num[d]]
      PROVE  ObjectAt(v, o, num, e)
  <2>1. /\ num[d] \in 1 .. Len(obj) /\ obj[num[d]].type = TNUM_BAG(w, d)
        /\ HoldsAt(w, num, d, obj[num[d]].slots) /\ num[e] \in 1 .. Len(obj)
    BY <1>1 DEF ObjectAt
  <2> DEFINE slots == obj[num[d]].slots
  <2>2. slots \in Seq(Nat) /\ HoldsAt(w, num, d, slots)
    BY <1>1, <2>1, ObjectSlots
  <2> HIDE DEF slots
  <2>3. HoldsAt(v, num, e, slots)
    BY <1>9, <2>2, HoldsCopied
  <2>4. TNUM_BAG(v, e) = TNUM_BAG(w, d)
    BY <1>9 DEF Copies
  <2> QED BY <1>4, <1>6, <1>9, <2>1, <2>3, <2>4 DEF ObjectAt, slots
<1>10. ASSUME NEW d \in LiveBags(v) PROVE ObjectAt(v, o, num, d)
  <2>1. num[d] \in 1 .. Len(obj)
    BY <1>1 DEF ObjectAt
  <2>2. CASE d = b
    BY <1>2, <1>7, <1>9, <2>1, <2>2
  <2>3. CASE d = c
    BY <1>2, <1>7, <1>9, <2>1, <2>3
  <2>4. CASE d \notin {b, c}
    <3>1. Copies(w, d, v, d)
      BY <2>4 DEF SameBag, Copies
    <3>2. num[d] \notin {m, n}
      BY <1>1, <2>4 DEF Distinct
    <3> QED BY <1>7, <1>9, <2>1, <3>1, <3>2
  <2> QED BY <2>2, <2>3, <2>4
<1>11. Distinct(v, num)
  BY <1>1 DEF Distinct
<1> QED BY <1>8, <1>10, <1>11 DEF Objects

(* A new object.                                                           *)
LEMMA NewObject ==
    ASSUME NEW w, NEW v, Readable(w), Readable(v), NEW b \in 1 .. Limit, b \notin LiveBags(w),
           LiveBags(v) = LiveBags(w) \cup {b}, DeadIds(v) = DeadIds(w),
           \A d \in LiveBags(w) : SameBag(w, v, d),
           NEW obj, NEW num, Objects(w, obj, num), NEW n, n = Len(obj) + 1,
           NEW num2, num2 = SetTo(num, b, n),
           NEW type, type = TNUM_BAG(v, b), type \in {T_LIST, T_WPOBJ},
           NEW s, s \in Seq(Nat), \A i \in 1 .. Len(s) : s[i] <= Len(obj), HoldsAt(v, num2, b, s),
           NEW o, o = Added(obj, type, s)
    PROVE  Objects(v, o, num2)
<1>1. /\ ObjectTypes(obj, num) /\ Distinct(w, num) /\ \A d \in LiveBags(w) : ObjectAt(w, obj, num, d)
      /\ obj \in Seq(Object) /\ num \in [1 .. Limit -> Nat]
  BY DEF Objects, ObjectTypes
<1>2. Len(obj) \in Nat /\ n \in Nat
  BY <1>1
<1> DEFINE e == [type |-> type, slots |-> s]
<1>3. e \in Object /\ e.type = type /\ e.slots = s
  BY DEF Object
<1>4. o = Append(obj, e)
  BY DEF Added
<1> HIDE DEF e
<1>5. o \in Seq(Object) /\ Len(o) = n /\ o[n] = e /\ \A j \in 1 .. Len(obj) : o[j] = obj[j]
  BY ONLY <1>1, <1>2, <1>3, <1>4, n = Len(obj) + 1, AppendProperties
<1>6. num2 \in [1 .. Limit -> Nat] /\ num2[b] = n /\ \A d \in LiveBags(w) : num2[d] = num[d]
  <2>1. num2 \in [1 .. Limit -> Nat] /\ num2[b] = n /\ \A d \in 1 .. Limit : d # b => num2[d] = num[d]
    BY <1>1, <1>2 DEF SetTo
  <2>2. \A d \in LiveBags(w) : d \in 1 .. Limit
    BY Placed DEF Readable
  <2> QED BY <2>1, <2>2
<1>7. ObjectTypes(o, num2)
  <2>1. ASSUME NEW k \in 1 .. Len(o), NEW i \in 1 .. Len(o[k].slots) PROVE o[k].slots[i] <= Len(o)
    <3>1. CASE k = n
      <4>1. o[k].slots = s
        BY <1>3, <1>5, <3>1
      <4>2. s[i] <= Len(obj) /\ s[i] \in Nat
        BY <2>1, <4>1, ElementOfSeq
      <4>3. s[i] <= n
        BY ONLY <1>2, <4>2, n = Len(obj) + 1
      <4> QED BY <1>5, <4>1, <4>3
    <3>2. CASE k # n
      <4>1. k \in 1 .. Len(obj)
        BY <1>2, <1>5, <3>2
      <4>2. o[k] = obj[k]
        BY <1>5, <4>1
      <4>3. obj[k].slots[i] <= Len(obj)
        BY <1>1, <2>1, <4>1, <4>2 DEF ObjectTypes
      <4>4. obj[k].slots \in Seq(Nat)
        BY <1>1, <4>1, ObjectSlots
      <4>5. obj[k].slots[i] \in Nat
        BY <2>1, <4>2, <4>4, ElementOfSeq
      <4>6. obj[k].slots[i] <= n
        BY ONLY <1>2, <4>3, <4>5, n = Len(obj) + 1
      <4> QED BY <1>5, <4>2, <4>6
    <3> QED BY <3>1, <3>2
  <2> QED BY <1>5, <1>6, <2>1 DEF ObjectTypes
<1>8. ASSUME NEW d \in LiveBags(w) PROVE ObjectAt(v, o, num2, d) /\ num2[d] # n
  <2>1. /\ num[d] \in 1 .. Len(obj) /\ obj[num[d]].type = TNUM_BAG(w, d)
        /\ HoldsAt(w, num, d, obj[num[d]].slots)
    BY <1>1 DEF ObjectAt
  <2>2. num2[d] = num[d] /\ num2[d] \in 1 .. Len(o) /\ num2[d] # n /\ o[num2[d]] = obj[num[d]]
    BY <1>2, <1>5, <1>6, <2>1
  <2> DEFINE slots == obj[num[d]].slots
  <2>3. /\ slots \in Seq(Nat) /\ HoldsAt(w, num, d, slots)
        /\ \A i \in 1 .. Len(slots) : slots[i] <= Len(obj)
    BY <1>1, <2>1, ObjectSlots DEF ObjectTypes
  <2> HIDE DEF slots
  <2>4. Copies(w, d, v, d)
    BY DEF SameBag, Copies
  <2>5. \A x \in LiveBags(v) \ LiveBags(w) : \A i \in 1 .. Len(slots) : num2[x] # slots[i]
    <3>1. \A i \in 1 .. Len(slots) : slots[i] # n
      BY <1>2, <2>3
    <3> QED BY <1>6, <3>1
  <2>6. HoldsAt(v, num2, d, slots)
    BY <1>6, <2>3, <2>4, <2>5, HoldsCopied
  <2> QED BY <2>1, <2>2, <2>4, <2>6 DEF ObjectAt, Copies, slots
<1>9. ObjectAt(v, o, num2, b)
  <2>1. num2[b] \in 1 .. Len(o)
    BY <1>2, <1>5, <1>6
  <2> QED BY <1>3, <1>5, <1>6, <2>1 DEF ObjectAt
<1>10. Distinct(v, num2)
  BY <1>1, <1>6, <1>8 DEF Distinct
<1> QED BY <1>7, <1>8, <1>9, <1>10 DEF Objects

(* The variables of the program hold bags, and the program knows which.    *)
HeldAt(w, rt, num, ro) ==
    /\ rt \in [Roots -> Nat] /\ ro \in [Roots -> Nat]
    /\ \A r \in Roots : rt[r] \in LiveBags(w) \cup {0} /\ ro[r] = NumIn(num, rt[r])

MemoryOK(w, rt, obj, num, ro) ==
    (\E W : Sound(w, W)) /\ Objects(w, obj, num) /\ HeldAt(w, rt, num, ro)

(* The masterpointers kept for dead weak pointers are counted; before a    *)
(* full collection has ended there may be some of the collection before.   *)
CountsOK(w, ph) ==
    /\ w.nrHalfDead = Cardinality(DeadIds(w))
    /\ ph # "check" => Settled(w)
    /\ ph = "check" => NoStaleIn(w) /\ w.nrLive <= SizeMptrsArea(w)

IsListAt(w, rt, r) == r \in Roots /\ rt[r] # 0 /\ TNUM_BAG(w, rt[r]) = T_LIST
IsWPObjAt(w, rt, r) == r \in Roots /\ rt[r] # 0 /\ TNUM_BAG(w, rt[r]) = T_WPOBJ

(* What is remembered of a call that waits for a collection.               *)
Grows(w, b, q) ==
    /\ q.size \in Nat /\ q.size > SIZE_BAG(w, b)
    /\ q.need = IF q.last THEN q.size - SIZE_BAG(w, b) ELSE q.size
    /\ q.last => IsLastBag(w, b)
RequestAt(w, rt, q) ==
    \/ q.op = "Collect" /\ q.need = 0
    \/ q.op = "NewList" /\ q.r \in Roots /\ q.size \in Nat /\ q.need = q.size
    \/ /\ q.op = "WeakPointerObj" /\ q.r \in Roots /\ q.s \in Roots /\ rt[q.s] # 0
       /\ q.size = 2 /\ q.need = 2
    \/ q.op = "ResizeList" /\ IsListAt(w, rt, q.r) /\ Grows(w, rt[q.r], q)
    \/ /\ q.op = "SetElmWPObj" /\ IsWPObjAt(w, rt, q.r) /\ Grows(w, rt[q.r], q)
       /\ q.s \in Roots /\ q.pos \in Nat \ {0} /\ q.pos < q.size
RequestOK(w, rt, ph, q) ==
    ph \in {"partial", "full", "check", "ready"} =>
        /\ RequestAt(w, rt, q)
        /\ ph = "ready" /\ q.op # "Collect" => StopBags(w, q.need) <= w.endBags

(* The inductive invariant.                                                *)
HeapInv ==
    /\ MemoryOK(ws, root, object, number, rootObject)
    /\ CountsOK(ws, phase) /\ phase \in Phases /\ RequestOK(ws, root, phase, request)

-----------------------------------------------------------------------------
(* A variable of the program.                                              *)
LEMMA HeldBag ==
    ASSUME NEW w, NEW rt, NEW obj, NEW num, NEW ro, MemoryOK(w, rt, obj, num, ro), NEW r \in Roots, rt[r] # 0
    PROVE  /\ rt[r] \in LiveBags(w) /\ ro[r] = num[rt[r]] /\ ObjectAt(w, obj, num, rt[r])
           /\ ro[r] \in 1 .. Len(obj) /\ Readable(w) /\ ObjectTypes(obj, num)
<1>1. rt[r] \in LiveBags(w) /\ ro[r] = num[rt[r]]
  BY DEF MemoryOK, HeldAt, NumIn
<1>2. ObjectAt(w, obj, num, rt[r]) /\ ObjectTypes(obj, num)
  BY <1>1 DEF MemoryOK, Objects
<1>3. Readable(w)
  BY SoundReadable DEF MemoryOK
<1> QED BY <1>1, <1>2, <1>3 DEF ObjectAt

(* The number of an object that a variable holds, or of none.              *)
LEMMA HeldNumber ==
    ASSUME NEW w, NEW rt, NEW obj, NEW num, NEW ro, MemoryOK(w, rt, obj, num, ro), NEW r \in Roots
    PROVE  /\ ro[r] \in Nat /\ ro[r] <= Len(obj) /\ ro[r] = NumIn(num, rt[r])
           /\ rt[r] \in LiveBags(w) \cup {0}
<1>1. ro[r] = NumIn(num, rt[r]) /\ rt[r] \in LiveBags(w) \cup {0}
  BY DEF MemoryOK, HeldAt
<1>2. obj \in Seq(Object)
  BY DEF MemoryOK, Objects, ObjectTypes
<1>3. Len(obj) \in Nat
  BY <1>2
<1>4. CASE rt[r] = 0
  BY <1>1, <1>3, <1>4 DEF NumIn
<1>5. CASE rt[r] # 0
  <2>1. ro[r] \in 1 .. Len(obj)
    BY <1>5, HeldBag
  <2> QED BY <1>1, <1>3, <2>1
<1> QED BY <1>4, <1>5

(* What the program does not notice leaves its memory as it was.           *)
LEMMA MemoryFades ==
    ASSUME NEW w, NEW rt, NEW obj, NEW num, NEW ro, MemoryOK(w, rt, obj, num, ro),
           NEW v, NEW V, Sound(v, V), Fades(w, v), \A r \in Roots : rt[r] \in LiveBags(v) \cup {0}
    PROVE  MemoryOK(v, rt, obj, num, ro)
<1>1. Readable(w) /\ Readable(v) /\ Objects(w, obj, num) /\ HeldAt(w, rt, num, ro)
  BY SoundReadable DEF MemoryOK
<1>2. Objects(v, obj, num)
  BY <1>1, FadesObjects
<1>3. HeldAt(v, rt, num, ro)
  BY <1>1 DEF HeldAt
<1> QED BY <1>2, <1>3 DEF MemoryOK

(* The program writes into the object in one of its variables.             *)
LEMMA MemoryOne ==
    ASSUME NEW w, NEW rt, NEW obj, NEW num, NEW ro, MemoryOK(w, rt, obj, num, ro),
           NEW r \in Roots, rt[r] # 0, NEW v, NEW V, Sound(v, V), OnlyBag(w, v, rt[r]),
           NEW s, s \in Seq(Nat), \A i \in 1 .. Len(s) : s[i] <= Len(obj), HoldsAt(v, num, rt[r], s),
           NEW o, o = Put(obj, ro[r], s)
    PROVE  MemoryOK(v, rt, o, num, ro)
<1>1. Readable(v)
  BY SoundReadable
<1>2. Readable(w) /\ rt[r] \in LiveBags(w) /\ ro[r] = num[rt[r]] /\ Objects(w, obj, num)
  BY HeldBag DEF MemoryOK
<1>3. Objects(v, o, num)
  BY <1>1, <1>2, OneObject
<1>4. HeldAt(v, rt, num, ro)
  BY DEF MemoryOK, HeldAt, OnlyBag
<1> QED BY <1>3, <1>4 DEF MemoryOK

(* An identifier is put into a variable.                                   *)
LEMMA MemoryRoot ==
    ASSUME NEW w, NEW rt, NEW obj, NEW num, NEW ro, MemoryOK(w, rt, obj, num, ro),
           NEW r \in Roots, NEW x, x \in LiveBags(w) \cup {0}, NEW n, n = NumIn(num, x),
           NEW rt2, rt2 = SetTo(rt, r, x), NEW ro2, ro2 = SetTo(ro, r, n)
    PROVE  MemoryOK(w, rt2, obj, num, ro2)
<1>1. HeldAt(w, rt, num, ro) /\ Objects(w, obj, num) /\ Readable(w)
  BY SoundReadable DEF MemoryOK
<1>2. \A b \in LiveBags(w) : b \in Nat /\ b \in 1 .. Limit
  BY <1>1, Placed DEF Readable
<1>3. num \in [1 .. Limit -> Nat]
  BY <1>1 DEF Objects, ObjectTypes
<1>4. x \in Nat /\ n \in Nat
  BY <1>2, <1>3 DEF NumIn
<1>5. HeldAt(w, rt2, num, ro2)
  <2>1. rt2 \in [Roots -> Nat] /\ ro2 \in [Roots -> Nat]
    BY <1>1, <1>4 DEF HeldAt, SetTo
  <2>2. ASSUME NEW s \in Roots PROVE rt2[s] \in LiveBags(w) \cup {0} /\ ro2[s] = NumIn(num, rt2[s])
    <3>1. rt2[s] = (IF s = r THEN x ELSE rt[s]) /\ ro2[s] = IF s = r THEN n ELSE ro[s]
      BY <1>1 DEF HeldAt, SetTo
    <3> QED BY <1>1, <3>1 DEF HeldAt
  <2> QED BY <2>1, <2>2 DEF HeldAt
<1> QED BY <1>1, <1>5 DEF MemoryOK

-----------------------------------------------------------------------------
(* An entry of a weak pointer object whose word is, or is not, a live bag  *)
(* as it was.                                                              *)
LEMMA EntrySame ==
    ASSUME NEW w, NEW v, Readable(w), Readable(v), NEW b, b \in LiveBags(w), LiveBags(v) = LiveBags(w),
           TNUM_BAG(w, b) = T_WPOBJ, TNUM_BAG(v, b) = T_WPOBJ, NEW i, i \in Nat, i # 0,
           i < SIZE_BAG(w, b) /\ Word(w, b, i) \in LiveBags(w) =>
              i < SIZE_BAG(v, b) /\ Word(v, b, i) = Word(w, b, i),
           i < SIZE_BAG(v, b) /\ Word(v, b, i) \in LiveBags(w) =>
              i < SIZE_BAG(w, b) /\ Word(v, b, i) = Word(w, b, i),
           NEW num, NEW n, EntryAt(w, num, b, i, n)
    PROVE  EntryAt(v, num, b, i, n)
<1>0. \A x \in LiveBags(w) : x # 0
  BY Placed DEF Readable
<1>1. CASE i < SIZE_BAG(w, b) /\ Word(w, b, i) \in LiveBags(w)
  <2>1. ElmAt(w, b, i) = Word(w, b, i)
    BY <1>1, ElmCases
  <2>2. ElmAt(v, b, i) = Word(v, b, i)
    BY <1>1, ElmCases
  <2>3. ElmAt(w, b, i) # 0
    BY <1>0, <1>1, <2>1
  <2> QED BY <1>1, <2>1, <2>2, <2>3 DEF EntryAt
<1>2. CASE ~ (i < SIZE_BAG(w, b) /\ Word(w, b, i) \in LiveBags(w))
  <2>1. ElmAt(w, b, i) = 0
    BY <1>2, ElmCases
  <2>2. ~ (i < SIZE_BAG(v, b) /\ Word(v, b, i) \in LiveBags(v))
    BY <1>2
  <2>3. ElmAt(v, b, i) = 0
    BY <2>2, ElmCases
  <2> QED BY <2>1, <2>3 DEF EntryAt
<1> QED BY <1>1, <1>2

(* An entry that has just been written, or of which nothing is known.      *)
LEMMA EntryHere ==
    ASSUME NEW v, Readable(v), NEW b, b \in LiveBags(v), TNUM_BAG(v, b) = T_WPOBJ, NEW i, i \in Nat, i # 0,
           NEW num, NEW n, NEW x, x \in LiveBags(v) \cup {0}, n = NumIn(num, x),
           i < SIZE_BAG(v, b) => Word(v, b, i) = x, ~ (i < SIZE_BAG(v, b)) => x = 0
    PROVE  EntryAt(v, num, b, i, n)
<1>0. \A y \in LiveBags(v) : y # 0
  BY Placed DEF Readable
<1>1. CASE x \in LiveBags(v)
  <2>1. i < SIZE_BAG(v, b) /\ Word(v, b, i) = x
    BY <1>0, <1>1
  <2>2. ElmAt(v, b, i) = x
    BY <1>1, <2>1, ElmCases
  <2> QED BY <1>0, <1>1, <2>2 DEF EntryAt, NumIn
<1>2. CASE x = 0
  <2>1. ~ (i < SIZE_BAG(v, b) /\ Word(v, b, i) \in LiveBags(v))
    BY <1>0, <1>2
  <2>2. ElmAt(v, b, i) = 0
    BY <2>1, ElmCases
  <2> QED BY <1>2, <2>2 DEF EntryAt, NumIn
<1> QED BY <1>1, <1>2

-----------------------------------------------------------------------------
(* The operations of the program.                                          *)

(* A new bag, once what belongs into it has been stored.                   *)
LEMMA MemoryNew ==
    ASSUME NEW w, NEW rt, NEW obj, NEW num, NEW ro, MemoryOK(w, rt, obj, num, ro), NEW r \in Roots,
           NEW b, b \in IdsOf(w), b \notin LiveBags(w), NEW v, NEW V, Sound(v, V),
           LiveBags(v) = LiveBags(w) \cup {b}, DeadIds(v) = DeadIds(w),
           \A d \in LiveBags(w) : SameBag(w, v, d),
           NEW type, type = TNUM_BAG(v, b),
           NEW n, n = Len(obj) + 1, NEW num2, num2 = SetTo(num, b, n),
           NEW s, s \in Seq(Nat), \A i \in 1 .. Len(s) : s[i] <= Len(obj), HoldsAt(v, num2, b, s),
           NEW o, o = Added(obj, type, s),
           NEW rt2, rt2 = SetTo(rt, r, b), NEW ro2, ro2 = SetTo(ro, r, n)
    PROVE  MemoryOK(v, rt2, o, num2, ro2)
<1>1. /\ Readable(w) /\ Readable(v) /\ Objects(w, obj, num) /\ HeldAt(w, rt, num, ro)
      /\ num \in [1 .. Limit -> Nat] /\ Len(obj) \in Nat
  <2>1. Readable(w) /\ Readable(v) /\ Objects(w, obj, num) /\ HeldAt(w, rt, num, ro)
    BY SoundReadable DEF MemoryOK
  <2>2. obj \in Seq(Object) /\ num \in [1 .. Limit -> Nat]
    BY <2>1 DEF Objects, ObjectTypes
  <2> QED BY <2>1, <2>2
<1>2. \A x \in LiveBags(v) : x \in 1 .. Limit /\ x # 0 /\ TNUM_BAG(v, x) \in {T_LIST, T_WPOBJ}
  BY <1>1, Placed DEF Readable
<1>3. Objects(v, o, num2)
  <2>1. b \in 1 .. Limit /\ type \in {T_LIST, T_WPOBJ}
    BY <1>2
  <2> QED BY <1>1, <2>1, NewObject
<1>4. \A x \in LiveBags(w) : num2[x] = num[x]
  BY <1>1, <1>2 DEF SetTo
<1>5. num2[b] = n /\ n \in Nat
  BY <1>1, <1>2 DEF SetTo
<1>6. HeldAt(v, rt, num2, ro)
  BY <1>1, <1>4, <1>2 DEF HeldAt, NumIn
<1>7. MemoryOK(v, rt, o, num2, ro)
  BY <1>3, <1>6 DEF MemoryOK
<1>8. n = NumIn(num2, b)
  BY <1>2, <1>5 DEF NumIn
<1> QED BY <1>7, <1>8, MemoryRoot

(* NewBag leaves alone what is kept for dead weak pointers.                *)
LEMMA NewQuiet ==
    ASSUME NEW w, NEW v, NEW V, NEW b, SoundBut(v, V, b), NEW t, NEW n, IsNew(w, v, b, t, n)
    PROVE  Quiet(w, v)
<1>1. Areas(v) /\ Tiles(v, V) /\ b \in LiveBags(v)
  BY DEF SoundBut, IsNew
<1>2. b \notin DeadIds(v)
  BY <1>1, LiveNotDead
<1>3. DeadIds(w) \subseteq IdsOf(w)
  BY DEF DeadIds
<1> QED BY <1>2, <1>3 DEF Quiet, IsNew

(* NewBag as the program sees it: the bag b is the new object n, and the   *)
(* variable r holds it.                                                    *)
Allocates(rt, obj, num, ro, r, b, type, s, n, o, num2, rt2, ro2) ==
    /\ r \in Roots /\ b # 0 /\ n = Len(obj) + 1 /\ num2 = SetTo(num, b, n)
    /\ o = Added(obj, type, s) /\ rt2 = SetTo(rt, r, b) /\ ro2 = SetTo(ro, r, n)
NewListAt(w, size, b, v, s) ==
    /\ size \in Nat /\ w.allocBags + 2 + size <= w.endBags /\ b = w.freeMptr
    /\ v = NewBag(w, T_LIST, size) /\ s = [i \in 1 .. size |-> 0]
NewWPObjAt(w, rt, ro, h, b, v, s) ==
    /\ h \in Roots /\ rt[h] # 0 /\ w.allocBags + 2 + 2 <= w.endBags /\ b = w.freeMptr
    /\ v = StoreSet(NewBag(w, T_WPOBJ, 2), b, 1, 1, rt[h]) /\ s = <<ro[h]>>

(* NewBag of a list.                                                       *)
LEMMA NewListOK ==
    ASSUME NEW w, NEW rt, NEW obj, NEW num, NEW ro, MemoryOK(w, rt, obj, num, ro), NEW r, NEW b, NEW v,
           NEW size, NEW s, NEW n, NEW o, NEW num2, NEW rt2, NEW ro2, NewListAt(w, size, b, v, s),
           Allocates(rt, obj, num, ro, r, b, T_LIST, s, n, o, num2, rt2, ro2)
    PROVE  MemoryOK(v, rt2, o, num2, ro2) /\ Quiet(w, v)
<1>0. /\ size \in Nat /\ w.allocBags + 2 + size <= w.endBags /\ b = w.freeMptr
      /\ v = NewBag(w, T_LIST, size) /\ s = [i \in 1 .. size |-> 0]
      /\ r \in Roots /\ b # 0 /\ n = Len(obj) + 1 /\ num2 = SetTo(num, b, n)
      /\ o = Added(obj, T_LIST, s) /\ rt2 = SetTo(rt, r, b) /\ ro2 = SetTo(ro, r, n)
  BY DEF NewListAt, Allocates
<1> USE <1>0
<1>1. PICK W : Sound(w, W)
  BY DEF MemoryOK
<1>2a. (\E V : SoundBut(v, V, b)) /\ IsNew(w, v, b, T_LIST, size)
  <2>1. T_LIST \in 1 .. 2
    BY DEF T_LIST
  <2> QED BY <1>1, <2>1, NewBagSound
<1>2b. PICK V : SoundBut(v, V, b)
  BY <1>2a
<1>2. /\ b \in IdsOf(w) /\ b \notin LiveBags(w) /\ LiveBags(v) = LiveBags(w) \cup {b}
      /\ DeadIds(v) = DeadIds(w)
      /\ \A c \in LiveBags(w) : SameBag(w, v, c)
      /\ TNUM_BAG(v, b) = T_LIST /\ SIZE_BAG(v, b) = size
      /\ \A i \in 0 .. size - 1 : Word(v, b, i) = 0
      /\ ~ IsOld(v, b)
  BY <1>2a DEF IsNew
<1>3. WordsAt(v, b) /\ RemembersAt(v, b)
  BY <1>2 DEF WordsAt, RemembersAt, T_LIST, T_WPOBJ
<1>4. Sound(v, V)
  BY <1>2b, <1>3 DEF Sound, SoundBut, WordsOK, RemembersOK
<1>5. s \in Seq(Nat) /\ Len(s) = size /\ \A i \in 1 .. Len(s) : s[i] = 0
  OBVIOUS
<1>6. HoldsAt(v, num2, b, s)
  <2>1. ListAt(v, num2, b, s)
    <3>1. \A i \in 1 .. Len(s) : i - 1 \in 0 .. size - 1
      BY <1>5
    <3> QED BY <1>2, <1>5, <3>1 DEF ListAt, NumIn
  <2> QED BY <1>2, <2>1 DEF HoldsAt, T_LIST, T_WPOBJ
<1>7. \A i \in 1 .. Len(s) : s[i] <= Len(obj)
  <2>1. obj \in Seq(Object)
    BY DEF MemoryOK, Objects, ObjectTypes
  <2>2. Len(obj) \in Nat
    BY <2>1
  <2> QED BY <1>5, <2>2
<1>8. T_LIST = TNUM_BAG(v, b) /\ b \in IdsOf(w) /\ b \notin LiveBags(w)
  BY <1>2
<1>9. MemoryOK(v, rt2, o, num2, ro2)
  BY <1>2, <1>4, <1>5, <1>6, <1>7, <1>8, MemoryNew
<1>10. Quiet(w, v)
  BY <1>2a, <1>2b, NewQuiet
<1> QED BY <1>9, <1>10

(* WeakPointerObj of a bag that another variable holds.                    *)
LEMMA NewWPObjOK ==
    ASSUME NEW w, NEW rt, NEW obj, NEW num, NEW ro, MemoryOK(w, rt, obj, num, ro), NEW r, NEW b, NEW v,
           NEW h, NEW s, NEW n, NEW o, NEW num2, NEW rt2, NEW ro2, NewWPObjAt(w, rt, ro, h, b, v, s),
           Allocates(rt, obj, num, ro, r, b, T_WPOBJ, s, n, o, num2, rt2, ro2)
    PROVE  MemoryOK(v, rt2, o, num2, ro2) /\ Quiet(w, v)
<1>0. /\ h \in Roots /\ rt[h] # 0 /\ w.allocBags + 2 + 2 <= w.endBags /\ b = w.freeMptr
      /\ v = StoreSet(NewBag(w, T_WPOBJ, 2), b, 1, 1, rt[h]) /\ s = <<ro[h]>>
      /\ r \in Roots /\ b # 0 /\ n = Len(obj) + 1 /\ num2 = SetTo(num, b, n)
      /\ o = Added(obj, T_WPOBJ, s) /\ rt2 = SetTo(rt, r, b) /\ ro2 = SetTo(ro, r, n)
  BY DEF NewWPObjAt, Allocates
<1> USE <1>0
<1>1. PICK W : Sound(w, W)
  BY DEF MemoryOK
<1> DEFINE u == NewBag(w, T_WPOBJ, 2)
           x == rt[h]
<1>2a. (\E V : SoundBut(u, V, b)) /\ IsNew(w, u, b, T_WPOBJ, 2)
  <2>1. PICK k : k = 2
    OBVIOUS
  <2>2. T_WPOBJ \in 1 .. 2 /\ k \in Nat
    BY <2>1 DEF T_WPOBJ
  <2>3. w.allocBags + 2 + k <= w.endBags /\ u = NewBag(w, T_WPOBJ, k)
    BY <2>1
  <2>4. (\E V : SoundBut(u, V, b)) /\ IsNew(w, u, b, T_WPOBJ, k)
    BY <1>1, <2>2, <2>3, NewBagSound
  <2> QED BY <2>1, <2>4
<1>2b. PICK V : SoundBut(u, V, b)
  BY <1>2a
<1>2. /\ b \in IdsOf(w) /\ b \notin LiveBags(w) /\ LiveBags(u) = LiveBags(w) \cup {b}
      /\ DeadIds(u) = DeadIds(w)
      /\ \A c \in LiveBags(w) : SameBag(w, u, c)
      /\ TNUM_BAG(u, b) = T_WPOBJ /\ SIZE_BAG(u, b) = 2
      /\ \A i \in 0 .. 2 - 1 : Word(u, b, i) = 0
  BY <1>2a DEF IsNew
<1>3. v = StoreSet(u, b, 1, 1, x)
  OBVIOUS
<1>4. x \in LiveBags(w) /\ ro[h] = num[x] /\ ro[h] \in Nat /\ ro[h] <= Len(obj)
  BY HeldBag, HeldNumber
<1> HIDE DEF u, x
<1>5. /\ Sound(v, V) /\ OnlyBag(u, v, b) /\ SIZE_BAG(v, b) = 2 /\ LenWord(v, b) = 1
      /\ Word(v, b, 1) = x
  <2>0. PICK k : k = 1
    OBVIOUS
  <2>1. k \in 0 .. SIZE_BAG(u, b) - 1 /\ k \in 1 .. k /\ x \in LiveBags(u) \cup {0} /\ b \in LiveBags(u)
    BY <1>2, <1>4, <2>0
  <2>2. Storable(u, b, k)
    BY <1>2, <2>0 DEF Storable
  <2>3. v = StoreSet(u, b, k, k, x)
    BY <1>3, <2>0
  <2>5. Sound(v, V) /\ OnlyBag(u, v, b) /\ Stored(u, v, b, k, k, x)
    BY <1>2, <1>2b, <2>1, <2>2, <2>3, StoreSetSound
  <2>4. 1 \in 1 .. SIZE_BAG(u, b) - 1
    BY <1>2
  <2> QED BY <1>2, <2>0, <2>4, <2>5 DEF Stored
<1>6. /\ LiveBags(v) = LiveBags(w) \cup {b} /\ DeadIds(v) = DeadIds(w) /\ Quiet(u, v)
      /\ TNUM_BAG(v, b) = T_WPOBJ /\ \A c \in LiveBags(w) : SameBag(u, v, c)
  BY <1>2, <1>5 DEF OnlyBag, Quiet
<1>7. \A c \in LiveBags(w) : SameBag(w, v, c)
  BY <1>2, <1>6 DEF SameBag
<1>8. s \in Seq(Nat) /\ Len(s) = 1 /\ s[1] = ro[h]
  BY <1>4
<1>9. num2[x] = ro[h]
  <2>1. num \in [1 .. Limit -> Nat]
    BY DEF MemoryOK, Objects, ObjectTypes
  <2>2. x \in 1 .. Limit
    BY <1>1, <1>4, Placed, SoundReadable
  <2> QED BY <1>2, <1>4, <2>1, <2>2 DEF SetTo
<1>10. HoldsAt(v, num2, b, s)
  <2>1. Readable(v) /\ b \in LiveBags(v) /\ x \in LiveBags(v) \cup {0}
    BY <1>4, <1>5, <1>6, SoundReadable
  <2>2. x # 0
    BY <1>1, <1>4, Placed, SoundReadable
  <2>3. ro[h] = NumIn(num2, x)
    BY <1>9, <2>2 DEF NumIn
  <2>4. EntryAt(v, num2, b, 1, ro[h])
    <3>1. 1 \in Nat /\ 1 # 0 /\ 1 < SIZE_BAG(v, b)
      BY <1>5
    <3> QED BY <1>5, <1>6, <2>1, <2>3, <3>1, EntryHere
  <2>5. WPObjAt(v, num2, b, s)
    BY <1>5, <1>8, <2>4 DEF WPObjAt
  <2> QED BY <1>6, <2>5 DEF HoldsAt, T_LIST, T_WPOBJ
<1>11. \A i \in 1 .. Len(s) : s[i] <= Len(obj)
  BY <1>4, <1>8
<1>12. T_WPOBJ = TNUM_BAG(v, b) /\ b \in IdsOf(w) /\ b \notin LiveBags(w)
  BY <1>2, <1>6
<1>13. MemoryOK(v, rt2, o, num2, ro2)
  BY ONLY MemoryOK(w, rt, obj, num, ro), r \in Roots, n = Len(obj) + 1, num2 = SetTo(num, b, n),
          o = Added(obj, T_WPOBJ, s), rt2 = SetTo(rt, r, b), ro2 = SetTo(ro, r, n), <1>5, <1>6, <1>7, <1>8, <1>10, <1>11, <1>12, MemoryNew
<1>14. Quiet(w, u)
  BY <1>2a, <1>2b, NewQuiet
<1>15. Quiet(w, v)
  BY <1>6, <1>14, QuietTwice
<1> QED BY <1>13, <1>15

(* Numbers of objects in slots.                                            *)
UpTo(s, top) == s \in Seq(Nat) /\ \A i \in 1 .. Len(s) : s[i] <= top

(* What a resize, and an assignment, make of slots.                        *)
ResizesTo(slots, n, s) == Len(s) = n /\ \A i \in 1 .. n : s[i] = IF i <= Len(slots) THEN slots[i] ELSE 0
AssignsTo(slots, k, x, s) ==
    Len(s) = Len(slots) /\ \A i \in 1 .. Len(slots) : s[i] = IF i = k THEN x ELSE slots[i]

(* The slots of an object after a resize.                                  *)
LEMMA ResizedSlots ==
    ASSUME NEW top, top \in Nat, NEW slots, UpTo(slots, top), NEW n, n \in Nat, NEW s, s = Resized(slots, n)
    PROVE  UpTo(s, top) /\ ResizesTo(slots, n, s)
<1>1. Len(slots) \in Nat /\ slots \in Seq(Nat) /\ \A i \in 1 .. Len(slots) : slots[i] <= top
  BY DEF UpTo
<1>2. \A i \in 1 .. n : (IF i <= Len(slots) THEN slots[i] ELSE 0) \in Nat
  <2> TAKE i \in 1 .. n
  <2>1. CASE i <= Len(slots)
    <3>1. i \in 1 .. Len(slots)
      BY <1>1, <2>1
    <3> QED BY <1>1, <2>1, <3>1, ElementOfSeq
  <2>2. CASE ~ (i <= Len(slots))
    BY <2>2
  <2> QED BY <2>1, <2>2
<1>3. s = [i \in 1 .. n |-> IF i <= Len(slots) THEN slots[i] ELSE 0]
  BY DEF Resized
<1>4. s \in Seq(Nat) /\ Len(s) = n /\ \A i \in 1 .. n : s[i] = IF i <= Len(slots) THEN slots[i] ELSE 0
  BY <1>2, <1>3
<1>5. ASSUME NEW i \in 1 .. Len(s) PROVE s[i] <= top
  <2>1. CASE i <= Len(slots)
    <3>1. i \in 1 .. Len(slots)
      BY <1>1, <1>4, <2>1
    <3> QED BY <1>1, <1>4, <2>1, <3>1
  <2>2. CASE ~ (i <= Len(slots))
    BY <1>4, <2>2
  <2> QED BY <2>1, <2>2
<1> QED BY <1>4, <1>5 DEF UpTo, ResizesTo

(* One slot is written.                                                    *)
LEMMA PutSlot ==
    ASSUME NEW top, top \in Nat, NEW slots, UpTo(slots, top), NEW k, k \in 1 .. Len(slots), NEW x, x \in Nat, x <= top,
           NEW s, s = SetTo(slots, k, x)
    PROVE  UpTo(s, top) /\ AssignsTo(slots, k, x, s)
<1>1. /\ s \in Seq(Nat) /\ Len(s) = Len(slots)
      /\ \A i \in 1 .. Len(slots) : s[i] = IF i = k THEN x ELSE slots[i]
  BY ExceptSeq DEF SetTo, UpTo
<1> QED BY <1>1 DEF UpTo, AssignsTo

(* What a variable holds.                                                  *)
LEMMA HeldSlots ==
    ASSUME NEW w, NEW rt, NEW obj, NEW num, NEW ro, MemoryOK(w, rt, obj, num, ro), NEW r \in Roots, rt[r] # 0
    PROVE  /\ UpTo(obj[ro[r]].slots, Len(obj)) /\ HoldsAt(w, num, rt[r], obj[ro[r]].slots)
           /\ Len(obj) \in Nat /\ Len(obj[ro[r]].slots) \in Nat
<1>1. /\ rt[r] \in LiveBags(w) /\ ro[r] = num[rt[r]] /\ ObjectAt(w, obj, num, rt[r])
      /\ ro[r] \in 1 .. Len(obj) /\ ObjectTypes(obj, num)
  BY HeldBag
<1>2. obj[ro[r]].slots \in Seq(Nat) /\ Len(obj) \in Nat
  BY <1>1, ObjectSlots
<1>3. HoldsAt(w, num, rt[r], obj[ro[r]].slots)
  BY <1>1 DEF ObjectAt
<1> QED BY <1>1, <1>2, <1>3 DEF ObjectTypes, UpTo

(* ResizeBag of a list.                                                    *)
LEMMA ResizeListOK ==
    ASSUME NEW w, NEW rt, NEW obj, NEW num, NEW ro, MemoryOK(w, rt, obj, num, ro),
           NEW r, IsListAt(w, rt, r), NEW n, n \in Nat, NEW last, ResizeFits(w, rt[r], n, last),
           NEW v, v = ResizeBag(w, rt[r], n, last),
           NEW o, o = Put(obj, ro[r], Resized(obj[ro[r]].slots, n))
    PROVE  MemoryOK(v, rt, o, num, ro) /\ Quiet(w, v)
<1> DEFINE b == rt[r]
           slots == obj[ro[r]].slots
           s == Resized(slots, n)
<1>0. r \in Roots /\ rt[r] # 0 /\ TNUM_BAG(w, b) = T_LIST
  BY DEF IsListAt
<1>1. b \in LiveBags(w)
  BY <1>0, HeldBag
<1>2. UpTo(slots, Len(obj)) /\ HoldsAt(w, num, b, slots) /\ Len(obj) \in Nat /\ Len(slots) \in Nat
  BY <1>0, HeldSlots
<1>3. PICK W : Sound(w, W)
  BY DEF MemoryOK
<1>3a. s = Resized(slots, n) /\ o = Put(obj, ro[r], s) /\ b = rt[r] /\ v = ResizeBag(w, b, n, last)
       /\ ResizeFits(w, b, n, last)
  OBVIOUS
<1> HIDE DEF slots, s, b
<1>4. /\ \E U : Sound(v, U)
      /\ OnlyBag(w, v, b) /\ SIZE_BAG(v, b) = n
      /\ \A i \in 0 .. n - 1 : Word(v, b, i) = IF i < SIZE_BAG(w, b) THEN Word(w, b, i) ELSE 0
  BY <1>1, <1>3, <1>3a, ResizeBagSound
<1>5. /\ UpTo(s, Len(obj)) /\ Len(s) = n
      /\ \A i \in 1 .. n : s[i] = IF i <= Len(slots) THEN slots[i] ELSE 0
  <2>1. PICK top : top = Len(obj)
    OBVIOUS
  <2>2. top \in Nat /\ UpTo(slots, top) /\ n \in Nat /\ s = Resized(slots, n)
    BY <1>2, <1>3a, <2>1
  <2>3. UpTo(s, top)
    BY ONLY <2>2, ResizedSlots
  <2>4. ResizesTo(slots, n, s)
    BY ONLY <2>2, ResizedSlots
  <2> QED BY <2>1, <2>3, <2>4 DEF ResizesTo
<1>6. SIZE_BAG(w, b) = Len(slots) /\ \A i \in 1 .. Len(slots) : NumIn(num, Word(w, b, i - 1)) = slots[i]
  BY <1>0, <1>2, <1>3a DEF HoldsAt, ListAt
<1>7. ASSUME NEW i \in 1 .. Len(s) PROVE NumIn(num, Word(v, b, i - 1)) = s[i]
  <2>0. i \in 1 .. n /\ i - 1 \in 0 .. n - 1 /\ Len(slots) \in Nat
    BY <1>2, <1>5
  <2>1. CASE i <= Len(slots)
    <3>1. i \in 1 .. Len(slots) /\ i - 1 < Len(slots)
      BY <2>0, <2>1
    <3>2. Word(v, b, i - 1) = Word(w, b, i - 1)
      BY <1>4, <1>6, <2>0, <3>1
    <3> QED BY <1>5, <1>6, <2>0, <2>1, <3>1, <3>2
  <2>2. CASE ~ (i <= Len(slots))
    <3>1. ~ (i - 1 < Len(slots))
      BY <2>0, <2>2
    <3>2. Word(v, b, i - 1) = 0
      BY <1>4, <1>6, <2>0, <3>1
    <3> QED BY <1>5, <2>0, <2>2, <3>2 DEF NumIn
  <2> QED BY <2>1, <2>2
<1>8. TNUM_BAG(v, b) = T_LIST
  BY <1>0, <1>3a, <1>4 DEF OnlyBag
<1>9. HoldsAt(v, num, b, s)
  BY <1>4, <1>5, <1>7, <1>8 DEF HoldsAt, ListAt, T_LIST, T_WPOBJ
<1>10. MemoryOK(v, rt, o, num, ro)
  BY <1>0, <1>3a, <1>4, <1>5, <1>9, MemoryOne DEF UpTo
<1> QED BY <1>4, <1>10 DEF OnlyBag

(* An identifier is stored in a list.                                      *)
LEMMA SetListOK ==
    ASSUME NEW w, NEW rt, NEW obj, NEW num, NEW ro, MemoryOK(w, rt, obj, num, ro),
           NEW r, IsListAt(w, rt, r), NEW h, h \in Roots, NEW pos, pos \in 1 .. SIZE_BAG(w, rt[r]),
           NEW v, v = SetList(w, rt[r], pos, rt[h]),
           NEW o, o = Put(obj, ro[r], SetTo(obj[ro[r]].slots, pos, ro[h]))
    PROVE  MemoryOK(v, rt, o, num, ro) /\ Quiet(w, v)
<1> DEFINE b == rt[r]
           x == rt[h]
           slots == obj[ro[r]].slots
           s == SetTo(slots, pos, ro[h])
<1>0. r \in Roots /\ rt[r] # 0 /\ TNUM_BAG(w, b) = T_LIST
  BY DEF IsListAt
<1>1. b \in LiveBags(w) /\ x \in LiveBags(w) \cup {0} /\ ro[h] = NumIn(num, x) /\ ro[h] \in Nat /\ ro[h] <= Len(obj)
  BY <1>0, HeldBag, HeldNumber
<1>2. UpTo(slots, Len(obj)) /\ HoldsAt(w, num, b, slots) /\ Len(obj) \in Nat /\ Len(slots) \in Nat
  BY <1>0, HeldSlots
<1>3. PICK W : Sound(w, W)
  BY DEF MemoryOK
<1>4. /\ Sound(v, W) /\ OnlyBag(w, v, b) /\ SIZE_BAG(v, b) = SIZE_BAG(w, b)
      /\ \A i \in 0 .. SIZE_BAG(w, b) - 1 : Word(v, b, i) = IF i = pos - 1 THEN x ELSE Word(w, b, i)
  BY <1>0, <1>1, <1>3, SetListSound
<1>3a. s = SetTo(slots, pos, ro[h]) /\ o = Put(obj, ro[r], s) /\ b = rt[r] /\ x = rt[h] /\ pos \in 1 .. SIZE_BAG(w, b)
  OBVIOUS
<1> HIDE DEF slots, s, b, x
<1>6. SIZE_BAG(w, b) = Len(slots) /\ \A i \in 1 .. Len(slots) : NumIn(num, Word(w, b, i - 1)) = slots[i]
  BY <1>0, <1>2, <1>3a DEF HoldsAt, ListAt
<1>5. /\ UpTo(s, Len(obj)) /\ Len(s) = Len(slots)
      /\ \A i \in 1 .. Len(slots) : s[i] = IF i = pos THEN ro[h] ELSE slots[i]
  <2>1. PICK top, y : top = Len(obj) /\ y = ro[h]
    OBVIOUS
  <2>2. /\ top \in Nat /\ UpTo(slots, top) /\ pos \in 1 .. Len(slots) /\ y \in Nat /\ y <= top
        /\ s = SetTo(slots, pos, y)
    BY <1>1, <1>2, <1>3a, <1>6, <2>1
  <2>3. UpTo(s, top)
    BY ONLY <2>2, PutSlot
  <2>4. AssignsTo(slots, pos, y, s)
    BY ONLY <2>2, PutSlot
  <2> QED BY <2>1, <2>3, <2>4 DEF AssignsTo
<1>7. ASSUME NEW i \in 1 .. Len(s) PROVE NumIn(num, Word(v, b, i - 1)) = s[i]
  <2>0. i \in 1 .. Len(slots) /\ i - 1 \in 0 .. SIZE_BAG(w, b) - 1 /\ (i - 1 = pos - 1 <=> i = pos)
    BY <1>2, <1>3a, <1>5, <1>6
  <2>1. CASE i = pos
    BY <1>1, <1>4, <1>5, <2>0, <2>1
  <2>2. CASE i # pos
    BY <1>4, <1>5, <1>6, <2>0, <2>2
  <2> QED BY <2>1, <2>2
<1>8. TNUM_BAG(v, b) = T_LIST
  BY <1>0, <1>3a, <1>4 DEF OnlyBag
<1>9. HoldsAt(v, num, b, s)
  BY <1>4, <1>5, <1>6, <1>7, <1>8 DEF HoldsAt, ListAt, T_LIST, T_WPOBJ
<1>10. MemoryOK(v, rt, o, num, ro)
  BY <1>0, <1>3a, <1>4, <1>5, <1>9, MemoryOne DEF UpTo
<1> QED BY <1>4, <1>10 DEF OnlyBag

(* FuncSWITCH_OBJ.                                                         *)
LEMMA SwitchOK ==
    ASSUME NEW w, NEW rt, NEW obj, NEW num, NEW ro, MemoryOK(w, rt, obj, num, ro),
           NEW r, r \in Roots, NEW h, h \in Roots, rt[r] # 0, rt[h] # 0, rt[r] # rt[h],
           NEW v, v = SwapMasterPoint(w, rt[r], rt[h]),
           NEW o, o = Switched(obj, ro[r], ro[h])
    PROVE  MemoryOK(v, rt, o, num, ro) /\ Quiet(w, v)
<1> DEFINE b == rt[r]
           c == rt[h]
<1>1. /\ b \in LiveBags(w) /\ c \in LiveBags(w) /\ b # c /\ ro[r] = num[b] /\ ro[h] = num[c]
      /\ Readable(w) /\ Objects(w, obj, num) /\ HeldAt(w, rt, num, ro)
  BY HeldBag DEF MemoryOK
<1>2. PICK W : Sound(w, W)
  BY DEF MemoryOK
<1>3. /\ Sound(v, W) /\ LiveBags(v) = LiveBags(w) /\ DeadIds(v) = DeadIds(w)
      /\ v.newMarker = w.newMarker /\ v.nrHalfDead = w.nrHalfDead
      /\ \A x \in IdsOf(w) : x \notin {b, c} => v.mem[x] = w.mem[x]
      /\ \A d \in LiveBags(w) : d \notin {b, c} => SameBag(w, v, d)
      /\ Copies(w, c, v, b) /\ Copies(w, b, v, c)
  BY <1>1, <1>2, SwapMasterPointSound
<1>4. Readable(v) /\ Areas(w) /\ Tiles(w, W)
  BY <1>2, <1>3, SoundReadable
<1>5. o = Switched(obj, num[b], num[c])
  BY <1>1
<1> HIDE DEF b, c
<1>6. Objects(v, o, num)
  BY <1>1, <1>3, <1>4, <1>5, SwapObjects
<1>7. HeldAt(v, rt, num, ro)
  BY <1>1, <1>3 DEF HeldAt
<1>8. Quiet(w, v)
  <2>1. b \notin DeadIds(w) /\ c \notin DeadIds(w) /\ DeadIds(w) \subseteq IdsOf(w)
    BY <1>1, <1>4, LiveNotDead DEF DeadIds
  <2> QED BY <1>3, <2>1 DEF Quiet
<1> QED BY <1>3, <1>6, <1>7, <1>8 DEF MemoryOK

(* What LengthWPObj makes of a weak pointer object.                        *)
Trims(w, v, b) ==
    /\ OnlyBag(w, v, b) /\ SIZE_BAG(v, b) = SIZE_BAG(w, b) /\ v.mem[b] = w.mem[b] /\ SameAreas(w, v)
    /\ LenWord(v, b) = LengthWPObj(w, b) /\ LengthWPObj(w, b) \in 0 .. LenWord(w, b)
    /\ LenWord(w, b) \in 0 .. SIZE_BAG(w, b) - 1 /\ (IsLastBag(v, b) <=> IsLastBag(w, b))
    /\ \A i \in 1 .. SIZE_BAG(w, b) - 1 :
          /\ Word(v, b, i) = IF i > LengthWPObj(w, b) THEN 0 ELSE Word(w, b, i)
          /\ i > LengthWPObj(w, b) => ELM_WPOBJ(w, b, i) = 0

(* FuncLengthWPObj: entries that died are cleared, which nobody notices.   *)
LEMMA TrimOK ==
    ASSUME NEW w, NEW rt, NEW obj, NEW num, NEW ro, MemoryOK(w, rt, obj, num, ro),
           NEW r, IsWPObjAt(w, rt, r), NEW v, v = TrimWPObj(w, rt[r])
    PROVE  MemoryOK(v, rt, obj, num, ro) /\ Trims(w, v, rt[r])
<1> DEFINE b == rt[r]
           len == LengthWPObj(w, b)
<1>1. r \in Roots /\ b # 0 /\ TNUM_BAG(w, b) = T_WPOBJ /\ b \in LiveBags(w) /\ Readable(w)
  BY HeldBag DEF IsWPObjAt
<1>2. PICK W : Sound(w, W)
  BY DEF MemoryOK
<1>3. v = TrimWPObj(w, b) /\ len = LengthWPObj(w, b) /\ b = rt[r]
  OBVIOUS
<1>4. SoundBut(w, W, b) /\ Areas(w) /\ Tiles(w, W)
  BY <1>1, <1>2, SoundIsBut, SoundReadable
<1> HIDE DEF b, len
<1>5. /\ Sound(v, W) /\ Writes(w, v, b)
      /\ len \in 0 .. LenWord(w, b) /\ LenWord(w, b) \in 0 .. SIZE_BAG(w, b) - 1
      /\ LenWord(v, b) = len
      /\ \A i \in 1 .. SIZE_BAG(w, b) - 1 :
            /\ Word(v, b, i) = IF i > len THEN 0 ELSE Word(w, b, i)
            /\ i > len => ELM_WPOBJ(w, b, i) = 0
  <2>1. Sound(v, W) /\ Writes(w, v, b) /\ LenWord(v, b) = len
    BY ONLY <1>1, <1>2, <1>3, TrimSound
  <2>2. len \in 0 .. LenWord(w, b) /\ LenWord(w, b) \in 0 .. SIZE_BAG(w, b) - 1
    BY ONLY <1>1, <1>2, <1>3, TrimSound
  <2>3. TrimsWords(w, v, b, len)
    BY ONLY <1>1, <1>2, <1>3, TrimSound
  <2> QED BY <2>1, <2>2, <2>3 DEF TrimsWords
<1>6. OnlyBag(w, v, b) /\ SIZE_BAG(v, b) = SIZE_BAG(w, b)
  BY <1>1, <1>4, <1>5, WriteOnly
<1>7. v.mem[b] = w.mem[b] /\ SameAreas(w, v) /\ (IsLastBag(v, b) <=> IsLastBag(w, b))
  BY <1>1, <1>4, <1>5, WriteSound
<1>8. Trims(w, v, b)
  BY <1>3, <1>5, <1>6, <1>7 DEF Trims
<1>9. ASSUME NEW i \in 1 .. SIZE_BAG(w, b) - 1
      PROVE  \/ Word(v, b, i) = Word(w, b, i)
             \/ Word(v, b, i) = 0 /\ Word(w, b, i) \notin LiveBags(w)
  <2>1. CASE i > len
    <3>1. Word(v, b, i) = 0 /\ ELM_WPOBJ(w, b, i) = 0
      BY <1>5, <2>1
    <3>2. ELM_WPOBJ(w, b, i) = IF Word(w, b, i) \in DeadIds(w) THEN 0 ELSE Word(w, b, i)
      BY <1>1, <1>4, ElmWord
    <3>3. Word(w, b, i) \in DeadIds(w) \/ Word(w, b, i) = 0
      BY <3>1, <3>2
    <3>4. 0 \notin LiveBags(w) /\ \A x \in LiveBags(w) : x \notin DeadIds(w)
      BY <1>4, LiveNotDead, Placed
    <3> QED BY <3>1, <3>3, <3>4
  <2>2. CASE ~ (i > len)
    BY <1>5, <2>2
  <2> QED BY <2>1, <2>2
<1>10. LenWord(v, b) <= LenWord(w, b)
  BY <1>5
<1>11. Fades(w, v)
  BY <1>1, <1>6, <1>9, <1>10, OnlyFades
<1>12. \A k \in Roots : rt[k] \in LiveBags(v) \cup {0}
  BY <1>6 DEF OnlyBag, MemoryOK, HeldAt
<1>13. MemoryOK(v, rt, obj, num, ro)
  BY <1>5, <1>11, <1>12, MemoryFades
<1> QED BY <1>3, <1>8, <1>13

(* An entry is read: a dead one is cleared.                                *)
LEMMA ReadOK ==
    ASSUME NEW w, NEW rt, NEW obj, NEW num, NEW ro, MemoryOK(w, rt, obj, num, ro),
           NEW r, IsWPObjAt(w, rt, r), NEW pos, pos \in 1 .. SIZE_BAG(w, rt[r]) - 1,
           NEW x, x = ELM_WPOBJ(w, rt[r], pos), NEW v, v = SET_ELM_WPOBJ(w, rt[r], pos, x)
    PROVE  MemoryOK(v, rt, obj, num, ro) /\ Quiet(w, v) /\ x \in LiveBags(v) \cup {0}
<1> DEFINE b == rt[r]
<1>1. r \in Roots /\ b # 0 /\ TNUM_BAG(w, b) = T_WPOBJ /\ b \in LiveBags(w) /\ Readable(w)
  BY HeldBag DEF IsWPObjAt
<1>2. PICK W : Sound(w, W)
  BY DEF MemoryOK
<1>3. /\ v = SET_ELM_WPOBJ(w, b, pos, x) /\ b = rt[r] /\ pos \in 1 .. SIZE_BAG(w, b) - 1
      /\ x = ELM_WPOBJ(w, b, pos)
  OBVIOUS
<1>4. SoundBut(w, W, b) /\ Areas(w) /\ Tiles(w, W) /\ WordsAt(w, b)
  BY <1>1, <1>2, SoundIsBut DEF Sound, WordsOK
<1> HIDE DEF b
<1>5. x = IF Word(w, b, pos) \in DeadIds(w) THEN 0 ELSE Word(w, b, pos)
  BY <1>1, <1>3, <1>4, ElmWord
<1>6. x \in {Word(w, b, pos), 0}
  BY <1>5
<1>6a. Word(w, b, pos) \in LiveBags(w) \cup DeadIds(w) \cup {0}
  BY <1>1, <1>3, <1>4 DEF WordsAt
<1>7. x \in LiveBags(w) \cup {0} /\ (x # Word(w, b, pos) => Word(w, b, pos) \in DeadIds(w) /\ x = 0)
  BY <1>5, <1>6a
<1>8. Sound(v, W) /\ Writes(w, v, b) /\ LenWord(v, b) = LenWord(w, b)
  BY <1>1, <1>2, <1>3, <1>6, ClearSound
<1>9. \A i \in 1 .. SIZE_BAG(w, b) - 1 : Word(v, b, i) = IF i = pos THEN x ELSE Word(w, b, i)
  BY <1>1, <1>2, <1>3, <1>6, ClearSound
<1>10. OnlyBag(w, v, b) /\ SIZE_BAG(v, b) = SIZE_BAG(w, b)
  BY <1>1, <1>4, <1>8, WriteOnly
<1>11. \A y \in LiveBags(w) : y \notin DeadIds(w)
  BY <1>4, LiveNotDead
<1>12. ASSUME NEW i \in 1 .. SIZE_BAG(w, b) - 1
      PROVE  \/ Word(v, b, i) = Word(w, b, i)
             \/ Word(v, b, i) = 0 /\ Word(w, b, i) \notin LiveBags(w)
  BY <1>7, <1>9, <1>11
<1>13. LenWord(v, b) <= LenWord(w, b)
  BY <1>1, <1>8, LengthIsNoId
<1>14. Fades(w, v)
  BY <1>1, <1>10, <1>12, <1>13, OnlyFades
<1>15. (\A k \in Roots : rt[k] \in LiveBags(v) \cup {0}) /\ LiveBags(v) = LiveBags(w) /\ Quiet(w, v)
  BY <1>10 DEF OnlyBag, MemoryOK, HeldAt
<1>16. MemoryOK(v, rt, obj, num, ro)
  BY <1>8, <1>14, <1>15, MemoryFades
<1> QED BY <1>7, <1>15, <1>16

(* An entry of a list is read.                                             *)
LEMMA ListWord ==
    ASSUME NEW w, NEW rt, NEW obj, NEW num, NEW ro, MemoryOK(w, rt, obj, num, ro),
           NEW r, IsListAt(w, rt, r), NEW pos, pos \in 1 .. SIZE_BAG(w, rt[r]),
           NEW x, x = w.mem[w.mem[rt[r]] + pos - 1]
    PROVE  x \in LiveBags(w) \cup {0} /\ obj[ro[r]].slots[pos] = NumIn(num, x)
<1> DEFINE b == rt[r]
           slots == obj[ro[r]].slots
<1>1. r \in Roots /\ b # 0 /\ TNUM_BAG(w, b) = T_LIST /\ b \in LiveBags(w)
  BY HeldBag DEF IsListAt
<1>2. HoldsAt(w, num, b, slots)
  BY <1>1, HeldSlots
<1>3. PICK W : Sound(w, W)
  BY DEF MemoryOK
<1>4. Areas(w) /\ Tiles(w, W) /\ WordsAt(w, b)
  BY <1>1, <1>3 DEF Sound, WordsOK
<1>5. w.mem[b] \in Int /\ SIZE_BAG(w, b) \in Nat
  BY <1>1, <1>4, Placed
<1>6. x = Word(w, b, pos - 1) /\ pos - 1 \in 0 .. SIZE_BAG(w, b) - 1
  <2>1. w.mem[b] + pos - 1 = w.mem[b] + (pos - 1)
    BY <1>5
  <2>2. x = w.mem[w.mem[b] + (pos - 1)]
    BY <2>1
  <2> QED BY <1>5, <2>2 DEF Word
<1>7. x \in LiveBags(w) \cup {0}
  BY <1>1, <1>4, <1>6 DEF WordsAt
<1>8. SIZE_BAG(w, b) = Len(slots) /\ \A i \in 1 .. Len(slots) : NumIn(num, Word(w, b, i - 1)) = slots[i]
  BY <1>1, <1>2 DEF HoldsAt, ListAt
<1> QED BY <1>6, <1>7, <1>8

(* An entry is looked at after FuncLengthWPObj.                            *)
LEMMA TrimElm ==
    ASSUME NEW w, NEW rt, NEW obj, NEW num, NEW ro, MemoryOK(w, rt, obj, num, ro),
           NEW r, IsWPObjAt(w, rt, r), NEW v, MemoryOK(v, rt, obj, num, ro), Trims(w, v, rt[r]),
           NEW pos, pos \in 1 .. LengthWPObj(w, rt[r])
    PROVE  ELM_WPOBJ(v, rt[r], pos) = ELM_WPOBJ(w, rt[r], pos) /\ pos \in 1 .. SIZE_BAG(v, rt[r]) - 1
<1> DEFINE b == rt[r]
           len == LengthWPObj(w, b)
<1>1. r \in Roots /\ b # 0 /\ b \in LiveBags(w) /\ b \in LiveBags(v)
  BY HeldBag DEF IsWPObjAt
<1>2. /\ len \in 0 .. LenWord(w, b) /\ LenWord(w, b) \in 0 .. SIZE_BAG(w, b) - 1
      /\ SIZE_BAG(v, b) = SIZE_BAG(w, b) /\ DeadIds(v) = DeadIds(w)
      /\ \A i \in 1 .. SIZE_BAG(w, b) - 1 : Word(v, b, i) = IF i > len THEN 0 ELSE Word(w, b, i)
  BY DEF Trims, OnlyBag, Quiet
<1>3. PICK W : Areas(w) /\ Tiles(w, W)
  BY DEF MemoryOK, Sound
<1>4. PICK V : Areas(v) /\ Tiles(v, V)
  BY DEF MemoryOK, Sound
<1>5. SIZE_BAG(w, b) \in Nat
  BY <1>1, <1>3, Placed
<1>6. b = rt[r] /\ pos \in 1 .. len
  OBVIOUS
<1> HIDE DEF b, len
<1>7. pos \in 1 .. SIZE_BAG(w, b) - 1 /\ ~ (pos > len)
  BY ONLY <1>2, <1>5, <1>6
<1>8. Word(v, b, pos) = Word(w, b, pos)
  BY <1>2, <1>7
<1>9. ELM_WPOBJ(w, b, pos) = IF Word(w, b, pos) \in DeadIds(w) THEN 0 ELSE Word(w, b, pos)
  BY <1>1, <1>3, ElmWord
<1>10. ELM_WPOBJ(v, b, pos) = IF Word(v, b, pos) \in DeadIds(v) THEN 0 ELSE Word(v, b, pos)
  BY <1>1, <1>4, ElmWord
<1> QED BY <1>2, <1>6, <1>7, <1>8, <1>9, <1>10

(* FuncIsBoundElmWPObj                                                     *)
LEMMA IsBoundOK ==
    ASSUME NEW w, NEW rt, NEW obj, NEW num, NEW ro, MemoryOK(w, rt, obj, num, ro),
           NEW r, IsWPObjAt(w, rt, r), NEW pos, pos \in Nat \ {0},
           NEW t, t = TrimWPObj(w, rt[r]),
           NEW v, v = IF pos <= LengthWPObj(w, rt[r])
                      THEN SET_ELM_WPOBJ(t, rt[r], pos, ELM_WPOBJ(w, rt[r], pos)) ELSE t
    PROVE  MemoryOK(v, rt, obj, num, ro) /\ Quiet(w, v)
<1>1. MemoryOK(t, rt, obj, num, ro) /\ Trims(w, t, rt[r])
  BY TrimOK
<1>2. IsWPObjAt(t, rt, r) /\ Quiet(w, t)
  BY <1>1 DEF Trims, OnlyBag, IsWPObjAt
<1>3. CASE pos <= LengthWPObj(w, rt[r])
  <2>1. LengthWPObj(w, rt[r]) \in Nat
    <3>1. r \in Roots /\ rt[r] # 0 /\ TNUM_BAG(w, rt[r]) = T_WPOBJ /\ rt[r] \in LiveBags(w) /\ Readable(w)
      BY HeldBag DEF IsWPObjAt
    <3>2. LenWord(w, rt[r]) \in Nat
      BY <3>1, LengthIsNoId
    <3> QED BY <1>1, <3>2 DEF Trims
  <2>2. pos \in 1 .. LengthWPObj(w, rt[r])
    BY <1>3, <2>1
  <2>3. PICK x : x = ELM_WPOBJ(w, rt[r], pos)
    OBVIOUS
  <2>4. x = ELM_WPOBJ(t, rt[r], pos) /\ pos \in 1 .. SIZE_BAG(t, rt[r]) - 1
    BY <1>1, <2>2, <2>3, TrimElm
  <2>5. v = SET_ELM_WPOBJ(t, rt[r], pos, x)
    BY <1>3, <2>3
  <2>6. MemoryOK(v, rt, obj, num, ro) /\ Quiet(t, v)
    BY ONLY <1>1, <1>2, <2>4, <2>5, ReadOK
  <2> QED BY <1>2, <2>6, QuietTwice
<1>4. CASE ~ (pos <= LengthWPObj(w, rt[r]))
  BY <1>1, <1>2, <1>4
<1> QED BY <1>3, <1>4

(* An entry of a weak pointer object is unbound, after LengthWPObj.        *)
LEMMA ClearOK ==
    ASSUME NEW w, NEW rt, NEW obj, NEW num, NEW ro, MemoryOK(w, rt, obj, num, ro),
           NEW r, IsWPObjAt(w, rt, r), NEW pos, pos \in Nat, pos # 0, pos <= Len(obj[ro[r]].slots),
           NEW v, v = IF pos <= LenWord(w, rt[r]) THEN SET_ELM_WPOBJ(w, rt[r], pos, 0) ELSE w,
           NEW o, o = Put(obj, ro[r], SetTo(obj[ro[r]].slots, pos, 0))
    PROVE  MemoryOK(v, rt, o, num, ro) /\ Quiet(w, v)
<1> DEFINE b == rt[r]
           slots == obj[ro[r]].slots
           s == SetTo(slots, pos, 0)
<1>1. r \in Roots /\ b # 0 /\ TNUM_BAG(w, b) = T_WPOBJ /\ b \in LiveBags(w) /\ Readable(w)
  BY HeldBag DEF IsWPObjAt
<1>2. UpTo(slots, Len(obj)) /\ HoldsAt(w, num, b, slots) /\ Len(obj) \in Nat /\ Len(slots) \in Nat
  BY <1>1, HeldSlots
<1>3. PICK W : Sound(w, W)
  BY DEF MemoryOK
<1>4. /\ s = SetTo(slots, pos, 0) /\ o = Put(obj, ro[r], s) /\ b = rt[r] /\ pos <= Len(slots)
      /\ v = IF pos <= LenWord(w, b) THEN SET_ELM_WPOBJ(w, b, pos, 0) ELSE w
  OBVIOUS
<1>5. Areas(w) /\ Tiles(w, W) /\ WordsAt(w, b) /\ SoundBut(w, W, b)
  BY <1>1, <1>3, SoundIsBut DEF Sound, WordsOK
<1> HIDE DEF slots, s, b
<1>6. /\ LenWord(w, b) \in Nat /\ LenWord(w, b) < SIZE_BAG(w, b) /\ SIZE_BAG(w, b) \in Nat
      /\ \A i \in 1 .. SIZE_BAG(w, b) - 1 : i > LenWord(w, b) => Word(w, b, i) = 0
  BY <1>1, <1>5, LengthIsNoId DEF WordsAt
<1>7. /\ Sound(v, W) /\ OnlyBag(w, v, b) /\ SIZE_BAG(v, b) = SIZE_BAG(w, b) /\ LenWord(v, b) = LenWord(w, b)
      /\ \A i \in 1 .. SIZE_BAG(w, b) - 1 : Word(v, b, i) = IF i = pos THEN 0 ELSE Word(w, b, i)
  <2>1. CASE pos <= LenWord(w, b)
    <3>1. pos \in 1 .. SIZE_BAG(w, b) - 1
      BY <1>6, <2>1
    <3>2. PICK x : x = 0
      OBVIOUS
    <3>3. x \in {Word(w, b, pos), 0} /\ v = SET_ELM_WPOBJ(w, b, pos, x)
      BY <1>4, <2>1, <3>2
    <3>4. Sound(v, W) /\ Writes(w, v, b) /\ LenWord(v, b) = LenWord(w, b)
      BY <1>1, <1>3, <3>1, <3>3, ClearSound
    <3>5. \A i \in 1 .. SIZE_BAG(w, b) - 1 : Word(v, b, i) = IF i = pos THEN x ELSE Word(w, b, i)
      BY <1>1, <1>3, <3>1, <3>3, ClearSound
    <3>6. OnlyBag(w, v, b) /\ SIZE_BAG(v, b) = SIZE_BAG(w, b)
      BY <1>1, <1>5, <3>4, WriteOnly
    <3> QED BY <3>2, <3>4, <3>5, <3>6
  <2>2. CASE ~ (pos <= LenWord(w, b))
    <3>1. v = w /\ pos > LenWord(w, b)
      BY <1>4, <1>6, <2>2
    <3>2. OnlyBag(w, w, b)
      BY DEF OnlyBag, Quiet, SameBag
    <3> QED BY <1>3, <1>6, <3>1, <3>2
  <2> QED BY <2>1, <2>2
<1>8. /\ UpTo(s, Len(obj)) /\ Len(s) = Len(slots)
      /\ \A i \in 1 .. Len(slots) : s[i] = IF i = pos THEN 0 ELSE slots[i]
  <2>1. PICK top, y : top = Len(obj) /\ y = 0
    OBVIOUS
  <2>2. /\ top \in Nat /\ UpTo(slots, top) /\ pos \in 1 .. Len(slots) /\ y \in Nat /\ y <= top
        /\ s = SetTo(slots, pos, y)
    BY <1>2, <1>4, <2>1
  <2>3. UpTo(s, top)
    BY ONLY <2>2, PutSlot
  <2>4. AssignsTo(slots, pos, y, s)
    BY ONLY <2>2, PutSlot
  <2> QED BY <2>1, <2>3, <2>4 DEF AssignsTo
<1>9. /\ LenWord(w, b) <= Len(slots) /\ \A i \in 1 .. Len(slots) : EntryAt(w, num, b, i, slots[i])
      /\ TNUM_BAG(v, b) = T_WPOBJ /\ Readable(v) /\ LiveBags(v) = LiveBags(w) /\ 0 \notin LiveBags(w)
  BY <1>1, <1>2, <1>5, <1>7, SoundReadable, Placed DEF HoldsAt, WPObjAt, OnlyBag
<1>10. ASSUME NEW i \in 1 .. Len(s) PROVE EntryAt(v, num, b, i, s[i])
  <2>1. i \in 1 .. Len(slots) /\ i \in Nat /\ i # 0 /\ (i < SIZE_BAG(w, b) => i \in 1 .. SIZE_BAG(w, b) - 1)
    BY <1>2, <1>6, <1>8
  <2>2. CASE i = pos
    <3>1. PICK n, x : n = s[i] /\ x = 0
      OBVIOUS
    <3>2. n = NumIn(num, x) /\ x \in LiveBags(v) \cup {0} /\ (i < SIZE_BAG(v, b) => Word(v, b, i) = x)
      BY <1>7, <1>8, <2>1, <2>2, <3>1 DEF NumIn
    <3>3. EntryAt(v, num, b, i, n)
      BY <1>1, <1>9, <2>1, <3>1, <3>2, EntryHere
    <3> QED BY <3>1, <3>3
  <2>3. CASE i # pos
    <3>1. PICK n : n = slots[i]
      OBVIOUS
    <3>2. s[i] = n /\ EntryAt(w, num, b, i, n)
      BY <1>8, <1>9, <2>1, <2>3, <3>1
    <3>3. i < SIZE_BAG(w, b) => Word(v, b, i) = Word(w, b, i)
      BY <1>7, <2>1, <2>3
    <3>4. EntryAt(v, num, b, i, n)
      BY <1>1, <1>7, <1>9, <2>1, <3>2, <3>3, EntrySame
    <3> QED BY <3>2, <3>4
  <2> QED BY <2>2, <2>3
<1>11. HoldsAt(v, num, b, s)
  BY <1>7, <1>8, <1>9, <1>10 DEF HoldsAt, WPObjAt, T_LIST, T_WPOBJ
<1>12. MemoryOK(v, rt, o, num, ro)
  BY <1>1, <1>4, <1>7, <1>8, <1>11, MemoryOne DEF UpTo
<1> QED BY <1>7, <1>12 DEF OnlyBag

(* FuncUnbindElmWPObj                                                      *)
LEMMA UnbindOK ==
    ASSUME NEW w, NEW rt, NEW obj, NEW num, NEW ro, MemoryOK(w, rt, obj, num, ro),
           NEW r, IsWPObjAt(w, rt, r), NEW pos, pos \in Nat, pos # 0,
           NEW t, t = TrimWPObj(w, rt[r]),
           NEW v, v = IF pos <= LengthWPObj(w, rt[r]) THEN SET_ELM_WPOBJ(t, rt[r], pos, 0) ELSE t,
           NEW o, o = IF pos <= Len(obj[ro[r]].slots) THEN Put(obj, ro[r], SetTo(obj[ro[r]].slots, pos, 0))
                      ELSE obj
    PROVE  MemoryOK(v, rt, o, num, ro) /\ Quiet(w, v)
<1>1. MemoryOK(t, rt, obj, num, ro) /\ Trims(w, t, rt[r])
  BY TrimOK
<1>2. IsWPObjAt(t, rt, r) /\ Quiet(w, t) /\ LenWord(t, rt[r]) = LengthWPObj(w, rt[r])
  BY <1>1 DEF Trims, OnlyBag, IsWPObjAt
<1>3. v = IF pos <= LenWord(t, rt[r]) THEN SET_ELM_WPOBJ(t, rt[r], pos, 0) ELSE t
  BY <1>2
<1>4. CASE pos <= Len(obj[ro[r]].slots)
  <2>1. o = Put(obj, ro[r], SetTo(obj[ro[r]].slots, pos, 0))
    BY <1>4
  <2>2. MemoryOK(v, rt, o, num, ro) /\ Quiet(t, v)
    BY <1>1, <1>2, <1>3, <1>4, <2>1, ClearOK
  <2> QED BY <1>2, <2>2, QuietTwice
<1>5. CASE ~ (pos <= Len(obj[ro[r]].slots))
  <2>0. r \in Roots /\ rt[r] # 0 /\ TNUM_BAG(t, rt[r]) = T_WPOBJ /\ rt[r] \in LiveBags(t) /\ Readable(t)
    BY <1>1, <1>2, HeldBag DEF IsWPObjAt
  <2>1. HoldsAt(t, num, rt[r], obj[ro[r]].slots) /\ Len(obj[ro[r]].slots) \in Nat
    BY <1>1, <2>0, HeldSlots
  <2>2. LenWord(t, rt[r]) <= Len(obj[ro[r]].slots) /\ LenWord(t, rt[r]) \in Nat
    BY <2>0, <2>1, LengthIsNoId DEF HoldsAt, WPObjAt
  <2>3. ~ (pos <= LenWord(t, rt[r]))
    BY <1>5, <2>1, <2>2
  <2>4. v = t /\ o = obj
    BY <1>3, <1>5, <2>3
  <2> QED BY <1>1, <1>2, <2>4
<1> QED BY <1>4, <1>5

(* The greater of two numbers.                                             *)
LEMMA MaxOfTwo ==
    ASSUME NEW m, m \in Nat, NEW n, n \in Nat, NEW k, k = Max({m, n})
    PROVE  k = IF m >= n THEN m ELSE n
<1>1. Max({m, n}) = CHOOSE x \in {m, n} : \A y \in {m, n} : x >= y
  BY DEF Max
<1>2. \E x \in {m, n} : \A y \in {m, n} : x >= y
  OBVIOUS
<1>3. k \in {m, n} /\ \A y \in {m, n} : k >= y
  BY <1>1, <1>2
<1> QED BY <1>3

(* The bag of a weak pointer object grows, and with it what may be stored. *)
LEMMA GrowStorable ==
    ASSUME NEW w, NEW W, Sound(w, W), NEW b, b \in LiveBags(w), TNUM_BAG(w, b) = T_WPOBJ,
           NEW size, size \in Nat, size >= SIZE_BAG(w, b), NEW last, ResizeFits(w, b, size, last),
           NEW u, u = ResizeBag(w, b, size, last), NEW len, len \in Nat, len >= LenWord(w, b)
    PROVE  /\ \E U : Sound(u, U)
           /\ OnlyBag(w, u, b) /\ SIZE_BAG(u, b) = size /\ Storable(u, b, len)
           /\ \A i \in 0 .. size - 1 : Word(u, b, i) = IF i < SIZE_BAG(w, b) THEN Word(w, b, i) ELSE 0
<1>1. /\ \E U : Sound(u, U)
      /\ OnlyBag(w, u, b) /\ SIZE_BAG(u, b) = size
      /\ \A i \in 0 .. size - 1 : Word(u, b, i) = IF i < SIZE_BAG(w, b) THEN Word(w, b, i) ELSE 0
  BY ResizeBagSound
<1>2. PICK U : Sound(u, U)
  BY <1>1
<1>3. b \in LiveBags(u) /\ TNUM_BAG(u, b) = T_WPOBJ /\ Readable(w) /\ Readable(u)
  BY <1>1, <1>2, SoundReadable DEF OnlyBag
<1>4. WordsAt(u, b)
  BY <1>2, <1>3 DEF Sound, WordsOK
<1>5. /\ SIZE_BAG(w, b) \in Nat /\ 0 \in 0 .. SIZE_BAG(w, b) - 1 /\ LenWord(w, b) \in Nat
      /\ LenWord(u, b) \in Nat
  BY <1>3, LengthIsNoId
<1>6. 0 \in 0 .. size - 1 /\ 0 < SIZE_BAG(w, b)
  BY <1>5
<1>7. Word(u, b, 0) = Word(w, b, 0)
  BY <1>1, <1>6
<1>8. LenWord(u, b) = LenWord(w, b)
  BY <1>7 DEF LenWord
<1>9. \A i \in 1 .. SIZE_BAG(u, b) - 1 :
        Word(u, b, i) \in LiveBags(u) \cup DeadIds(u) \cup {0} /\ (i > LenWord(u, b) => Word(u, b, i) = 0)
  BY <1>3, <1>4 DEF WordsAt
<1>10. \A i \in 1 .. SIZE_BAG(u, b) - 1 : i > len => i > LenWord(u, b)
  BY <1>5, <1>8
<1>11. Storable(u, b, len)
  BY <1>9, <1>10 DEF Storable
<1> QED BY <1>1, <1>11

(* The words of a weak pointer object before and after FuncSetElmWPObj.    *)
SetsEntry(w, v, b, size, len, pos, x) ==
    /\ OnlyBag(w, v, b) /\ SIZE_BAG(v, b) = size /\ LenWord(v, b) = len
    /\ \A i \in 1 .. size - 1 :
        Word(v, b, i) = IF i = pos THEN x ELSE IF i < SIZE_BAG(w, b) THEN Word(w, b, i) ELSE 0

(* They are as they should be.                                             *)
LEMMA SetEntrySound ==
    ASSUME NEW w, NEW W, Sound(w, W), NEW b, b \in LiveBags(w), TNUM_BAG(w, b) = T_WPOBJ,
           NEW size, size \in Nat, size >= SIZE_BAG(w, b), NEW last, ResizeFits(w, b, size, last),
           NEW pos, pos \in Nat, pos # 0, pos < size, NEW x, x \in LiveBags(w) \cup {0},
           NEW len, len = Max({LenWord(w, b), pos}),
           NEW v, v = StoreSet(ResizeBag(w, b, size, last), b, len, pos, x)
    PROVE  (\E V : Sound(v, V)) /\ SetsEntry(w, v, b, size, len, pos, x)
<1>1. PICK u : u = ResizeBag(w, b, size, last)
  OBVIOUS
<1>2. LenWord(w, b) \in Nat /\ LenWord(w, b) < SIZE_BAG(w, b) /\ SIZE_BAG(w, b) \in Nat
  BY SoundReadable, LengthIsNoId
<1>3. len = IF LenWord(w, b) >= pos THEN LenWord(w, b) ELSE pos
  BY <1>2, MaxOfTwo
<1>4. len \in Nat /\ len >= LenWord(w, b) /\ pos \in 1 .. len /\ len \in 0 .. size - 1
  BY <1>2, <1>3
<1>5. /\ \E U : Sound(u, U)
      /\ OnlyBag(w, u, b) /\ SIZE_BAG(u, b) = size /\ Storable(u, b, len)
  BY <1>1, <1>4, GrowStorable
<1>6. \A i \in 0 .. size - 1 : Word(u, b, i) = IF i < SIZE_BAG(w, b) THEN Word(w, b, i) ELSE 0
  BY <1>1, <1>4, GrowStorable
<1>7. PICK U : Sound(u, U)
  BY <1>5
<1>8. /\ b \in LiveBags(u) /\ SoundBut(u, U, b) /\ TNUM_BAG(u, b) = T_WPOBJ
      /\ len \in 0 .. SIZE_BAG(u, b) - 1 /\ x \in LiveBags(u) \cup {0}
      /\ v = StoreSet(u, b, len, pos, x)
  <2>1. LiveBags(u) = LiveBags(w) /\ TNUM_BAG(u, b) = TNUM_BAG(w, b)
    BY <1>5 DEF OnlyBag
  <2>2. SoundBut(u, U, b)
    BY <1>7, <2>1, SoundIsBut
  <2> QED BY <1>1, <1>4, <1>5, <2>1, <2>2
<1>9. Sound(v, U) /\ OnlyBag(u, v, b) /\ Stored(u, v, b, len, pos, x)
  BY <1>4, <1>5, <1>8, StoreSetSound
<1>10. OnlyBag(w, v, b)
  BY <1>5, <1>9, OnlyTwice
<1>11. SIZE_BAG(v, b) = size /\ LenWord(v, b) = len
  BY <1>5, <1>9 DEF Stored
<1>12. \A i \in 1 .. size - 1 : Word(v, b, i) = IF i = pos THEN x ELSE Word(u, b, i)
  BY <1>5, <1>9 DEF Stored
<1>13. \A i \in 1 .. size - 1 : i \in 0 .. size - 1
  OBVIOUS
<1>14. SetsEntry(w, v, b, size, len, pos, x)
  BY <1>6, <1>10, <1>11, <1>12, <1>13 DEF SetsEntry
<1> QED BY <1>9, <1>14

(* The slots that the program then expects.                                *)
SetSlots(slots, pos, y) == SetTo(Resized(slots, Max({pos, Len(slots)})), pos, y)
SetsTo(slots, pos, y, s) ==
    /\ Len(s) = (IF pos >= Len(slots) THEN pos ELSE Len(slots))
    /\ \A i \in 1 .. Len(s) : s[i] = IF i = pos THEN y ELSE IF i <= Len(slots) THEN slots[i] ELSE 0

(* What FuncSetElmWPObj makes of the slots.                                *)
LEMMA SetSlotsFacts ==
    ASSUME NEW top, top \in Nat, NEW slots, UpTo(slots, top), NEW pos, pos \in Nat, pos # 0,
           NEW y, y \in Nat, y <= top, NEW s, s = SetSlots(slots, pos, y)
    PROVE  UpTo(s, top) /\ SetsTo(slots, pos, y, s)
<1>1. Len(slots) \in Nat
  BY DEF UpTo
<1>2. PICK k : k = Max({pos, Len(slots)})
  OBVIOUS
<1>3. k = IF pos >= Len(slots) THEN pos ELSE Len(slots)
  <2>1. PICK n : n = Len(slots)
    OBVIOUS
  <2> QED BY <1>1, <1>2, <2>1, MaxOfTwo
<1>4. k \in Nat /\ pos \in 1 .. k
  BY <1>1, <1>3
<1>5. PICK t : t = Resized(slots, k)
  OBVIOUS
<1>6. UpTo(t, top) /\ ResizesTo(slots, k, t)
  BY <1>4, <1>5, ResizedSlots
<1>7. Len(t) = k /\ \A i \in 1 .. k : t[i] = IF i <= Len(slots) THEN slots[i] ELSE 0
  BY <1>6 DEF ResizesTo
<1>8. s = SetTo(t, pos, y) /\ pos \in 1 .. Len(t)
  BY <1>2, <1>4, <1>5, <1>7 DEF SetSlots
<1>9. UpTo(s, top) /\ AssignsTo(t, pos, y, s)
  BY <1>6, <1>8, PutSlot
<1>10. Len(s) = k /\ \A i \in 1 .. k : s[i] = IF i = pos THEN y ELSE t[i]
  BY <1>7, <1>9 DEF AssignsTo
<1> QED BY <1>3, <1>7, <1>9, <1>10 DEF SetsTo

(* The rest of FuncSetElmWPObj.                                            *)
LEMMA SetWPObjOK ==
    ASSUME NEW w, NEW rt, NEW obj, NEW num, NEW ro, MemoryOK(w, rt, obj, num, ro),
           NEW r, IsWPObjAt(w, rt, r), NEW h, h \in Roots, NEW pos, pos \in Nat, pos # 0,
           NEW size, size \in Nat, size >= SIZE_BAG(w, rt[r]), pos < size,
           NEW last, ResizeFits(w, rt[r], size, last),
           NEW len, len = Max({LenWord(w, rt[r]), pos}),
           NEW v, v = StoreSet(ResizeBag(w, rt[r], size, last), rt[r], len, pos, rt[h]),
           NEW o, o = Put(obj, ro[r], SetSlots(obj[ro[r]].slots, pos, ro[h]))
    PROVE  MemoryOK(v, rt, o, num, ro) /\ Quiet(w, v)
<1> DEFINE b == rt[r]
           x == rt[h]
           y == ro[h]
           slots == obj[ro[r]].slots
           s == SetSlots(slots, pos, y)
           top == Len(obj)
<1>1. r \in Roots /\ b # 0 /\ TNUM_BAG(w, b) = T_WPOBJ /\ b \in LiveBags(w) /\ Readable(w)
  BY HeldBag DEF IsWPObjAt
<1>2. UpTo(slots, top) /\ HoldsAt(w, num, b, slots) /\ top \in Nat /\ Len(slots) \in Nat
  BY <1>1, HeldSlots
<1>3. PICK W : Sound(w, W)
  BY DEF MemoryOK
<1>4. x \in LiveBags(w) \cup {0} /\ y = NumIn(num, x) /\ y \in Nat /\ y <= top
  BY HeldNumber
<1>5. /\ s = SetSlots(slots, pos, y) /\ o = Put(obj, ro[r], s) /\ b = rt[r] /\ top = Len(obj)
      /\ size >= SIZE_BAG(w, b) /\ ResizeFits(w, b, size, last) /\ len = Max({LenWord(w, b), pos})
      /\ v = StoreSet(ResizeBag(w, b, size, last), b, len, pos, x)
  OBVIOUS
<1>6. Areas(w) /\ Tiles(w, W) /\ WordsAt(w, b) /\ 0 \notin LiveBags(w)
  BY <1>1, <1>3, Placed DEF Sound, WordsOK
<1> HIDE DEF slots, s, b, x, y, top
<1>7. /\ LenWord(w, b) \in Nat /\ LenWord(w, b) < SIZE_BAG(w, b) /\ SIZE_BAG(w, b) \in Nat
      /\ \A i \in 1 .. SIZE_BAG(w, b) - 1 : i > LenWord(w, b) => Word(w, b, i) = 0
  BY <1>1, <1>6, LengthIsNoId DEF WordsAt
<1>8a. pos \in Nat /\ pos # 0 /\ pos < size /\ size \in Nat
  OBVIOUS
<1>8b. (\E V : Sound(v, V)) /\ SetsEntry(w, v, b, size, len, pos, x)
  BY ONLY <1>1, <1>3, <1>4, <1>5, <1>8a, SetEntrySound
<1>8. /\ \E V : Sound(v, V)
      /\ OnlyBag(w, v, b) /\ SIZE_BAG(v, b) = size /\ LenWord(v, b) = len
  BY <1>8b DEF SetsEntry
<1>9. UpTo(s, top) /\ SetsTo(slots, pos, y, s)
  BY <1>2, <1>4, <1>5, SetSlotsFacts
<1>10. len = IF LenWord(w, b) >= pos THEN LenWord(w, b) ELSE pos
  BY <1>5, <1>7, MaxOfTwo
<1>11. /\ LenWord(w, b) <= Len(slots) /\ \A i \in 1 .. Len(slots) : EntryAt(w, num, b, i, slots[i])
  BY <1>1, <1>2 DEF HoldsAt, WPObjAt
<1>12. TNUM_BAG(v, b) = T_WPOBJ /\ Readable(v) /\ LiveBags(v) = LiveBags(w) /\ b \in LiveBags(v)
  BY <1>1, <1>8, SoundReadable DEF OnlyBag
<1>13. /\ Len(s) = (IF pos >= Len(slots) THEN pos ELSE Len(slots))
       /\ \A i \in 1 .. Len(s) : s[i] = IF i = pos THEN y ELSE IF i <= Len(slots) THEN slots[i] ELSE 0
  BY <1>9 DEF SetsTo
<1>14. LenWord(v, b) <= Len(s)
  BY <1>2, <1>7, <1>8, <1>10, <1>11, <1>13
<1>15. ASSUME NEW i \in 1 .. Len(s) PROVE EntryAt(v, num, b, i, s[i])
  <2>1. /\ i \in Nat /\ i # 0 /\ (i < size => i \in 1 .. size - 1)
        /\ (i < SIZE_BAG(w, b) => i \in 1 .. SIZE_BAG(w, b) - 1)
    BY <1>2, <1>7, <1>13
  <2>2. PICK n : n = s[i]
    OBVIOUS
  <2>3. i < size => Word(v, b, i) = IF i = pos THEN x ELSE IF i < SIZE_BAG(w, b) THEN Word(w, b, i) ELSE 0
    BY <1>8b, <2>1 DEF SetsEntry
  <2>4. n = IF i = pos THEN y ELSE IF i <= Len(slots) THEN slots[i] ELSE 0
    BY <1>13, <2>2
  <2>5. CASE i = pos
    <3>1. n = y /\ i < size /\ Word(v, b, i) = x
      BY <2>3, <2>4, <2>5
    <3>2. n = NumIn(num, x) /\ x \in LiveBags(v) \cup {0} /\ i < SIZE_BAG(v, b)
      BY <1>4, <1>8, <1>12, <3>1
    <3>3. EntryAt(v, num, b, i, n)
      BY <1>12, <2>1, <3>1, <3>2, EntryHere
    <3> QED BY <2>2, <3>3
  <2>6. CASE i # pos /\ i <= Len(slots)
    <3>1. n = slots[i] /\ i \in 1 .. Len(slots)
      BY <1>2, <2>1, <2>4, <2>6
    <3>2. EntryAt(w, num, b, i, n)
      BY <1>11, <3>1
    <3>3. i < SIZE_BAG(w, b) => i < SIZE_BAG(v, b) /\ Word(v, b, i) = Word(w, b, i)
      BY <1>5, <1>7, <1>8, <2>1, <2>3, <2>6
    <3>4. i < SIZE_BAG(v, b) /\ Word(v, b, i) \in LiveBags(w) => i < SIZE_BAG(w, b) /\ Word(v, b, i) = Word(w, b, i)
      BY <1>6, <1>8, <2>3, <2>6
    <3>5. EntryAt(v, num, b, i, n)
      BY <1>1, <1>12, <2>1, <3>2, <3>3, <3>4, EntrySame
    <3> QED BY <2>2, <3>5
  <2>7. CASE i # pos /\ ~ (i <= Len(slots))
    <3>1. PICK z : z = 0
      OBVIOUS
    <3>2. n = NumIn(num, z) /\ z \in LiveBags(v) \cup {0}
      BY <2>4, <2>7, <3>1 DEF NumIn
    <3>3. i > LenWord(w, b)
      BY <1>2, <1>7, <1>11, <2>1, <2>7
    <3>4. i < SIZE_BAG(v, b) => Word(v, b, i) = z
      BY <1>7, <1>8, <2>1, <2>3, <2>7, <3>1, <3>3
    <3>5. EntryAt(v, num, b, i, n)
      BY <1>12, <2>1, <3>1, <3>2, <3>4, EntryHere
    <3> QED BY <2>2, <3>5
  <2> QED BY <2>5, <2>6, <2>7
<1>16. HoldsAt(v, num, b, s)
  <2>1. \A i \in 1 .. Len(s) : EntryAt(v, num, b, i, s[i])
    BY <1>15
  <2>2. WPObjAt(v, num, b, s)
    BY ONLY <1>14, <2>1 DEF WPObjAt
  <2> QED BY ONLY <1>12, <2>2 DEF HoldsAt, T_LIST, T_WPOBJ
<1>17. MemoryOK(v, rt, o, num, ro)
  BY <1>1, <1>5, <1>8, <1>9, <1>16, MemoryOne DEF UpTo
<1> QED BY <1>8, <1>17 DEF OnlyBag

-----------------------------------------------------------------------------
(* Collections, between the two halves of a call.                          *)

(* What a collection leaves of the bags in the variables of the program.   *)
KeepsHeld(w, v, rt) ==
    \A r \in Roots : rt[r] # 0 =>
        /\ TNUM_BAG(v, rt[r]) = TNUM_BAG(w, rt[r]) /\ SIZE_BAG(v, rt[r]) = SIZE_BAG(w, rt[r])
        /\ IsLastBag(w, rt[r]) => IsLastBag(v, rt[r])

(* The call that waits may go on as it began.                              *)
LEMMA RequestKept ==
    ASSUME NEW w, NEW v, NEW rt, NEW q, RequestAt(w, rt, q), KeepsHeld(w, v, rt)
    PROVE  RequestAt(v, rt, q)
<1>1. ASSUME IsListAt(w, rt, q.r), Grows(w, rt[q.r], q)
      PROVE  IsListAt(v, rt, q.r) /\ Grows(v, rt[q.r], q)
  BY <1>1 DEF IsListAt, Grows, KeepsHeld
<1>2. ASSUME IsWPObjAt(w, rt, q.r), Grows(w, rt[q.r], q)
      PROVE  IsWPObjAt(v, rt, q.r) /\ Grows(v, rt[q.r], q)
  BY <1>2 DEF IsWPObjAt, Grows, KeepsHeld
<1> QED BY <1>1, <1>2 DEF RequestAt

(* MarkAndSweep, for a program that holds some bags.                       *)
LEMMA CollectOK ==
    ASSUME NEW w, NEW rt, NEW obj, NEW num, NEW ro, MemoryOK(w, rt, obj, num, ro),
           NEW R, R = {rt[r] : r \in Roots} \ {0}, NEW v, v = MarkAndSweep(w, R)
    PROVE  /\ MemoryOK(v, rt, obj, num, ro) /\ KeepsHeld(w, v, rt)
           /\ \E m : MarksOK(w, m) /\ Collected(w, m, v)
<1>1. PICK W : Sound(w, W)
  BY DEF MemoryOK
<1>2. R \subseteq LiveBags(w)
  BY DEF MemoryOK, HeldAt
<1>3. /\ \E V : Sound(v, V)
      /\ \E m : MarksOK(w, m) /\ R \subseteq Survivors(w, m) /\ Collected(w, m, v)
  BY <1>1, <1>2, MarkAndSweepSound
<1>4. PICK m : MarksOK(w, m) /\ R \subseteq Survivors(w, m) /\ Collected(w, m, v)
  BY <1>3
<1>5. Fades(w, v)
  BY <1>1, <1>4, CollectedFades
<1>6. LiveBags(v) = Survivors(w, m)
  BY <1>4 DEF Collected
<1>7. \A r \in Roots : rt[r] \in Survivors(w, m) \cup {0}
  BY <1>4
<1>8. MemoryOK(v, rt, obj, num, ro)
  BY <1>3, <1>5, <1>6, <1>7, MemoryFades
<1>9. \A b \in Survivors(w, m) :
          /\ TNUM_BAG(v, b) = TNUM_BAG(w, b) /\ SIZE_BAG(v, b) = SIZE_BAG(w, b)
          /\ IsLastBag(w, b) => IsLastBag(v, b)
  BY <1>4 DEF Collected
<1>10. KeepsHeld(w, v, rt)
  BY <1>7, <1>9 DEF KeepsHeld
<1> QED BY <1>4, <1>8, <1>10

(* The count of masterpointers kept for dead weak pointers stays right.    *)
LEMMA CollectedCount ==
    ASSUME NEW w, NEW W, Sound(w, W), NEW m, MarksOK(w, m), NEW v, Collected(w, m, v),
           w.nrHalfDead = Cardinality(DeadIds(w))
    PROVE  v.nrHalfDead = Cardinality(DeadIds(v))
<1>1. Areas(w) /\ Tiles(w, W)
  BY SoundReadable
<1>2. m.halfDead \subseteq LiveBags(w)
  BY DEF MarksOK, YoungBagsOf
<1>3. DeadIds(w) \cap m.halfDead = {}
  BY <1>1, <1>2, LiveNotDead
<1>4. DeadIds(w) \subseteq IdsOf(w) /\ m.halfDead \subseteq IdsOf(w)
  BY <1>2 DEF DeadIds, LiveBags, IdsOf
<1>5. /\ IsFiniteSet(DeadIds(w)) /\ Cardinality(DeadIds(w)) \in Nat
      /\ IsFiniteSet(m.halfDead) /\ Cardinality(m.halfDead) \in Nat
  BY <1>1, <1>4, FewIds
<1>6. Cardinality(DeadIds(w) \cup m.halfDead)
        = Cardinality(DeadIds(w)) + Cardinality(m.halfDead) - Cardinality(DeadIds(w) \cap m.halfDead)
  BY <1>5, FS_Union
<1>7. Cardinality(DeadIds(w) \cap m.halfDead) = 0
  BY <1>3, FS_EmptySet
<1>8. Cardinality(DeadIds(w) \cup m.halfDead) = Cardinality(DeadIds(w)) + Cardinality(m.halfDead)
  BY <1>5, <1>6, <1>7
<1> QED BY <1>8 DEF Collected

(* After a partial collection.                                             *)
LEMMA PartialOK ==
    ASSUME NEW w, NEW rt, NEW obj, NEW num, NEW ro, MemoryOK(w, rt, obj, num, ro), Settled(w),
           NEW R, R = {rt[r] : r \in Roots} \ {0}, NEW v, v = MarkAndSweep(w, R)
    PROVE  MemoryOK(v, rt, obj, num, ro) /\ KeepsHeld(w, v, rt) /\ Settled(v)
<1>1. /\ MemoryOK(v, rt, obj, num, ro) /\ KeepsHeld(w, v, rt)
      /\ \E m : MarksOK(w, m) /\ Collected(w, m, v)
  BY CollectOK
<1>2. PICK m : MarksOK(w, m) /\ Collected(w, m, v)
  BY <1>1
<1>3. v.nrHalfDead = Cardinality(DeadIds(v))
  BY <1>2, CollectedCount DEF MemoryOK, Settled
<1>4. \A x \in DeadIds(v) : v.mem[x] = v.newMarker
  BY <1>2 DEF Collected, Settled
<1> QED BY <1>1, <1>3, <1>4 DEF Settled

(* After a full collection no weak pointer names a bag that was dead       *)
(* before it.                                                              *)
LEMMA FullOK ==
    ASSUME NEW w, NEW rt, NEW obj, NEW num, NEW ro, MemoryOK(w, rt, obj, num, ro), Settled(w),
           NEW R, R = {rt[r] : r \in Roots} \ {0}, NEW v, v = MarkAndSweep(MakeAllYoung(w), R)
    PROVE  /\ MemoryOK(v, rt, obj, num, ro) /\ KeepsHeld(w, v, rt)
           /\ v.nrHalfDead = Cardinality(DeadIds(v))
           /\ NoStaleIn(v) /\ v.nrLive <= SizeMptrsArea(v)
<1>1. PICK W : Sound(w, W)
  BY DEF MemoryOK
<1>2. PICK y : y = MakeAllYoung(w)
  OBVIOUS
<1>3. /\ Sound(y, W) /\ y.youngBags = y.oldBags /\ y.nrLive = 0 /\ y.allocBags = w.allocBags
      /\ y.nrHalfDead = w.nrHalfDead /\ LiveBags(y) = LiveBags(w) /\ DeadIds(y) = DeadIds(w)
      /\ \A x \in IdsOf(w) : y.mem[x] = w.mem[x]
      /\ \A c \in LiveBags(w) : SameBag(w, y, c)
  BY <1>1, <1>2, MakeAllYoungSound
<1>4. Readable(w) /\ Areas(y) /\ Tiles(y, W)
  BY <1>1, <1>3, SoundReadable
<1>5. MemoryOK(y, rt, obj, num, ro)
  <2>1. Fades(w, y)
    BY <1>3, <1>4, SameBagsFades
  <2>2. \A r \in Roots : rt[r] \in LiveBags(y) \cup {0}
    BY <1>3 DEF MemoryOK, HeldAt
  <2> QED BY <1>3, <2>1, <2>2, MemoryFades
<1>6. KeepsHeld(w, y, rt)
  <2>1. ASSUME NEW r \in Roots, rt[r] # 0
        PROVE  /\ TNUM_BAG(y, rt[r]) = TNUM_BAG(w, rt[r]) /\ SIZE_BAG(y, rt[r]) = SIZE_BAG(w, rt[r])
               /\ IsLastBag(w, rt[r]) => IsLastBag(y, rt[r])
    <3>1. rt[r] \in LiveBags(w) /\ rt[r] \in IdsOf(w)
      BY <2>1, HeldBag DEF LiveBags, IdsOf
    <3>2. SameBag(w, y, rt[r]) /\ y.mem[rt[r]] = w.mem[rt[r]]
      BY <1>3, <3>1
    <3> QED BY <1>3, <3>2 DEF SameBag, IsLastBag, PTR_BAG
  <2> QED BY <2>1 DEF KeepsHeld
<1>7. v = MarkAndSweep(y, R)
  BY <1>2
<1>8. /\ MemoryOK(v, rt, obj, num, ro) /\ KeepsHeld(y, v, rt)
      /\ \E m : MarksOK(y, m) /\ Collected(y, m, v)
  BY <1>5, <1>7, CollectOK
<1>9. PICK m : MarksOK(y, m) /\ Collected(y, m, v)
  BY <1>8
<1>10. v.nrHalfDead = Cardinality(DeadIds(v))
  BY <1>3, <1>9, CollectedCount DEF Settled
<1>11. Survivors(y, m) = m.alive
  <2>1. \A b \in LiveBags(y) : ~ IsOld(y, b)
    <3>1. ASSUME NEW b \in LiveBags(y) PROVE ~ IsOld(y, b)
      <4>1. y.oldBags + 2 <= y.mem[b] /\ y.mem[b] \in Int /\ y.oldBags \in Nat
        BY <1>4, Placed, AreaNumbers
      <4> QED BY <1>3, <4>1 DEF IsOld, PTR_BAG
    <3> QED BY <3>1
  <2> QED BY <2>1 DEF Survivors
<1>12. NoStaleIn(v)
  <2>1. ASSUME NEW b \in LiveBags(v), TNUM_BAG(v, b) = T_WPOBJ, NEW i \in 1 .. SIZE_BAG(v, b) - 1,
               Word(v, b, i) \in DeadIds(v)
        PROVE  v.mem[Word(v, b, i)] = v.newMarker
    <3>1. b \in Survivors(y, m) /\ b \in m.alive /\ b \in LiveBags(y)
      BY <1>9, <1>11 DEF Collected, MarksOK, YoungBagsOf
    <3>2. TNUM_BAG(y, b) = T_WPOBJ /\ SIZE_BAG(y, b) = SIZE_BAG(v, b) /\ SIZE_BAG(y, b) \in Nat
      BY <1>4, <1>9, <2>1, <3>1, Placed DEF Collected
    <3>3. i \in 0 .. SIZE_BAG(y, b) - 1
      BY <3>2
    <3>4. Word(y, b, i) \in DeadIds(y) => Word(v, b, i) = 0
      BY <1>9, <3>1, <3>2, <3>3 DEF Collected
    <3>5. Word(v, b, i) = Word(y, b, i) \/ Word(v, b, i) = 0
      BY <1>9, <3>1, <3>3 DEF Collected
    <3>6. Word(v, b, i) # 0
      BY <2>1 DEF DeadIds, IdsOf
    <3>7. Word(v, b, i) \notin DeadIds(y)
      BY <3>4, <3>5, <3>6
    <3>8. Word(v, b, i) \in m.halfDead
      BY <1>9, <2>1, <3>7 DEF Collected
    <3> QED BY <1>9, <3>8 DEF Collected
  <2> QED BY <2>1 DEF NoStaleIn
<1>13. v.nrLive <= SizeMptrsArea(v)
  <2>1. m.alive \subseteq IdsOf(y)
    BY <1>9 DEF MarksOK, YoungBagsOf, LiveBags, IdsOf
  <2>2. Cardinality(m.alive) \in Nat /\ Cardinality(m.alive) <= SizeMptrsArea(y)
    BY <1>4, <2>1, FewIds
  <2>3. v.nrLive = 0 + Cardinality(m.alive) /\ v.mptrEnd = y.mptrEnd
    BY <1>3, <1>9 DEF Collected
  <2> QED BY <2>2, <2>3 DEF SizeMptrsArea
<1>14. KeepsHeld(w, v, rt)
  BY <1>6, <1>8 DEF KeepsHeld
<1> QED BY <1>8, <1>10, <1>12, <1>13, <1>14

(* The last part of a full collection.                                     *)
LEMMA CheckOK ==
    ASSUME NEW w, NEW rt, NEW obj, NEW num, NEW ro, MemoryOK(w, rt, obj, num, ro),
           NoStaleIn(w), w.nrLive <= SizeMptrsArea(w), w.nrHalfDead = Cardinality(DeadIds(w)),
           NEW size, size \in Nat, NEW c, c = CollectBags_CheckFull(w, size), NEW v, v = c.w
    PROVE  /\ MemoryOK(v, rt, obj, num, ro) /\ KeepsHeld(w, v, rt) /\ Settled(v)
           /\ c.done = "yes" => StopBags(v, size) <= v.endBags
<1>1. PICK W : Sound(w, W)
  BY DEF MemoryOK
<1>2. /\ \E V : Sound(v, V)
      /\ SameBags(w, v)
      /\ \A x \in DeadIds(v) : v.mem[x] = v.newMarker
      /\ v.nrHalfDead = Cardinality(DeadIds(v))
      /\ c.done = "yes" => StopBags(v, size) <= v.endBags
  BY <1>1, CheckFullSound
<1>3. Readable(w)
  BY <1>1, SoundReadable
<1>4. LiveBags(v) = LiveBags(w) /\ \A b \in LiveBags(w) : SameBag(w, v, b) /\ (IsLastBag(w, b) => IsLastBag(v, b))
  BY <1>2 DEF SameBags
<1>5. Fades(w, v)
  BY <1>3, <1>4, SameBagsFades
<1>6. \A r \in Roots : rt[r] \in LiveBags(w) \cup {0}
  BY DEF MemoryOK, HeldAt
<1>7. MemoryOK(v, rt, obj, num, ro)
  BY <1>2, <1>4, <1>5, <1>6, MemoryFades
<1>8. KeepsHeld(w, v, rt)
  BY <1>4, <1>6 DEF KeepsHeld, SameBag
<1>9. Settled(v)
  BY <1>2 DEF Settled
<1> QED BY <1>2, <1>7, <1>8, <1>9

Memory == MemoryOK(ws, root, object, number, rootObject)

(* NewBag of a list by the program.                                        *)
LEMMA DoNewListOK ==
    ASSUME Memory, NEW q, q.r \in Roots, q.size \in Nat, StopBags(ws, q.size) <= ws.endBags, DoNewList(q)
    PROVE  Memory' /\ Quiet(ws, ws')
<1> DEFINE b == ws.freeMptr
           n == Len(object) + 1
           s == [i \in 1 .. q.size |-> 0]
<1>1. /\ b # 0 /\ ws' = NewBag(ws, T_LIST, q.size)
      /\ object' = Added(object, T_LIST, s)
      /\ number' = SetTo(number, b, n)
      /\ root' = SetTo(root, q.r, b) /\ rootObject' = SetTo(rootObject, q.r, n)
  BY DEF DoNewList, DoNewBag, SetRoot, Added, SetTo
<1>2. ws.allocBags + 2 + q.size <= ws.endBags
  BY DEF StopBags, HeaderWords
<1>3. NewListAt(ws, q.size, b, ws', s)
  BY <1>1, <1>2 DEF NewListAt
<1>4. Allocates(root, object, number, rootObject, q.r, b, T_LIST, s, n, object', number', root', rootObject')
  BY <1>1 DEF Allocates
<1>5. MemoryOK(ws, root, object, number, rootObject)
  BY DEF Memory
<1> HIDE DEF b, n, s
<1>6. MemoryOK(ws', root', object', number', rootObject') /\ Quiet(ws, ws')
  BY ONLY <1>3, <1>4, <1>5, NewListOK
<1> QED BY <1>6 DEF Memory

(* NewBag of a weak pointer object by the program.                         *)
LEMMA DoWeakPointerObjOK ==
    ASSUME Memory, NEW q, q.r \in Roots, q.s \in Roots, root[q.s] # 0, q.size = 2,
           StopBags(ws, 2) <= ws.endBags, DoWeakPointerObj(q)
    PROVE  Memory' /\ Quiet(ws, ws')
<1> DEFINE b == ws.freeMptr
           n == Len(object) + 1
           s == <<rootObject[q.s]>>
<1>1. /\ b # 0 /\ ws' = StoreSet(NewBag(ws, T_WPOBJ, 2), b, 1, 1, root[q.s])
      /\ object' = Added(object, T_WPOBJ, s)
      /\ number' = SetTo(number, b, n)
      /\ root' = SetTo(root, q.r, b) /\ rootObject' = SetTo(rootObject, q.r, n)
  BY DEF DoWeakPointerObj, DoNewBag, SetRoot, Added, SetTo, StoreSet
<1>2. ws.allocBags + 2 + 2 <= ws.endBags
  BY DEF StopBags, HeaderWords
<1>3. NewWPObjAt(ws, root, rootObject, q.s, b, ws', s)
  BY <1>1, <1>2 DEF NewWPObjAt
<1>4. Allocates(root, object, number, rootObject, q.r, b, T_WPOBJ, s, n, object', number', root', rootObject')
  BY <1>1 DEF Allocates
<1>5. MemoryOK(ws, root, object, number, rootObject)
  BY DEF Memory
<1> HIDE DEF b, n, s
<1>6. MemoryOK(ws', root', object', number', rootObject') /\ Quiet(ws, ws')
  BY ONLY <1>3, <1>4, <1>5, NewWPObjOK
<1> QED BY <1>6 DEF Memory

(* ResizeBag of a list by the program.                                     *)
LEMMA DoResizeListOK ==
    ASSUME Memory, NEW q, IsListAt(ws, root, q.r), q.size \in Nat, ResizeFits(ws, root[q.r], q.size, q.last),
           DoResizeList(q)
    PROVE  Memory' /\ Quiet(ws, ws')
<1>1. /\ ws' = ResizeBag(ws, root[q.r], q.size, q.last)
      /\ object' = Put(object, rootObject[q.r], Resized(object[rootObject[q.r]].slots, q.size))
      /\ root' = root /\ number' = number /\ rootObject' = rootObject
  BY DEF DoResizeList, Put
<1>2. MemoryOK(ws, root, object, number, rootObject)
  BY DEF Memory
<1>3. MemoryOK(ws', root, object', number, rootObject) /\ Quiet(ws, ws')
  BY <1>1, <1>2, ResizeListOK
<1> QED BY <1>1, <1>3 DEF Memory

(* The rest of FuncSetElmWPObj, on the workspace w left by LengthWPObj.    *)
LEMMA DoSetElmWPObjOK ==
    ASSUME NEW w, MemoryOK(w, root, object, number, rootObject),
           NEW q, IsWPObjAt(w, root, q.r), q.s \in Roots, q.pos \in Nat \ {0}, q.size \in Nat,
           q.size >= SIZE_BAG(w, root[q.r]), q.pos < q.size,
           ResizeFits(w, root[q.r], q.size, q.last), DoSetElmWPObj(q, w)
    PROVE  Memory' /\ Quiet(w, ws')
<1> DEFINE b == root[q.r]
           slots == object[rootObject[q.r]].slots
           len == Max({STORED_LEN_WPOBJ(w, b), q.pos})
<1>1. /\ ws' = StoreSet(ResizeBag(w, b, q.size, q.last), b, len, q.pos, root[q.s])
      /\ object' = Put(object, rootObject[q.r], SetSlots(slots, q.pos, rootObject[q.s]))
      /\ root' = root /\ number' = number /\ rootObject' = rootObject
  BY DEF DoSetElmWPObj, StoreSet, Put, SetSlots, SetTo
<1>2. STORED_LEN_WPOBJ(w, b) = LenWord(w, b)
  <2>1. b \in LiveBags(w)
    BY HeldBag DEF IsWPObjAt
  <2>2. PICK W : Areas(w) /\ Tiles(w, W)
    BY DEF MemoryOK, Sound
  <2> QED BY <2>1, <2>2, ElmWord
<1>3. PICK r, h, pos, size, last : r = q.r /\ h = q.s /\ pos = q.pos /\ size = q.size /\ last = q.last
  OBVIOUS
<1>4. /\ IsWPObjAt(w, root, r) /\ h \in Roots /\ pos \in Nat /\ pos # 0 /\ size \in Nat
      /\ size >= SIZE_BAG(w, root[r]) /\ pos < size /\ ResizeFits(w, root[r], size, last)
  BY <1>3
<1>5. len = Max({LenWord(w, root[r]), pos})
  BY <1>2, <1>3
<1>6. /\ ws' = StoreSet(ResizeBag(w, root[r], size, last), root[r], len, pos, root[h])
      /\ object' = Put(object, rootObject[r], SetSlots(object[rootObject[r]].slots, pos, rootObject[h]))
  BY <1>1, <1>3
<1> HIDE DEF b, slots, len
<1>7. MemoryOK(w, root, object, number, rootObject)
  OBVIOUS
<1>8. MemoryOK(ws', root, object', number, rootObject) /\ Quiet(w, ws')
  BY ONLY <1>4, <1>5, <1>6, <1>7, SetWPObjOK
<1> QED BY <1>1, <1>8 DEF Memory

(* Room for a new bag.                                                     *)
LEMMA NewBagRoom ==
    ASSUME NEW w, Areas(w), NEW size, size \in Nat, ~ NewBagCollects(w, size)
    PROVE  StopBags(w, size) <= w.endBags
<1>1. w.endBags \in Nat /\ w.allocBags \in Nat
  BY AreaNumbers
<1> QED BY <1>1 DEF NewBagCollects, SizeAllocationArea, StopBags, HeaderWords

(* Room for ResizeBag, at once.                                            *)
LEMMA ResizeRoom ==
    ASSUME NEW w, NEW W, Areas(w), Tiles(w, W), NEW b \in LiveBags(w), NEW size, size \in Nat,
           ~ ResizeBagCollects(w, b, size), size >= SIZE_BAG(w, b) \/ TNUM_BAG(w, b) = T_LIST
    PROVE  ResizeFits(w, b, size, IsLastBag(w, b))
<1>1. w.endBags \in Nat /\ w.allocBags \in Nat /\ w.mem[b] \in Int /\ SIZE_BAG(w, b) \in Nat
  BY AreaNumbers, Placed
<1>2. CASE size > SIZE_BAG(w, b)
  <2>1. CASE IsLastBag(w, b)
    <3>1. ~ (w.endBags - w.mem[b] < size)
      BY <1>2, <2>1 DEF ResizeBagCollects, PTR_BAG
    <3>2. w.mem[b] + size <= w.endBags
      BY <1>1, <3>1
    <3> QED BY <1>2, <2>1, <3>2 DEF ResizeFits
  <2>2. CASE ~ IsLastBag(w, b)
    <3>1. ~ (w.endBags - w.allocBags < 2 + size)
      BY <1>2, <2>2 DEF ResizeBagCollects, SizeAllocationArea, HeaderWords
    <3>2. w.allocBags + 2 + size <= w.endBags
      BY <1>1, <3>1
    <3> QED BY <1>2, <2>2, <3>2 DEF ResizeFits
  <2> QED BY <2>1, <2>2
<1>3. CASE size = SIZE_BAG(w, b)
  BY <1>3 DEF ResizeFits
<1>4. CASE size < SIZE_BAG(w, b)
  <2>1. TNUM_BAG(w, b) = T_LIST
    BY <1>1, <1>4
  <2> QED BY <1>4, <2>1 DEF ResizeFits
<1> QED BY <1>1, <1>2, <1>3, <1>4

(* Room for ResizeBag after the collection that it called.                 *)
LEMMA GrowRoom ==
    ASSUME NEW w, NEW W, Areas(w), Tiles(w, W), NEW b \in LiveBags(w), NEW q, Grows(w, b, q),
           StopBags(w, q.need) <= w.endBags
    PROVE  ResizeFits(w, b, q.size, q.last)
<1>1. w.endBags \in Nat /\ w.allocBags \in Nat /\ w.mem[b] \in Int /\ SIZE_BAG(w, b) \in Nat
  BY AreaNumbers, Placed
<1>2. q.size \in Nat /\ q.size > SIZE_BAG(w, b) /\ w.allocBags + 2 + q.need <= w.endBags
  BY DEF Grows, StopBags, HeaderWords
<1>3. CASE q.last
  <2>1. IsLastBag(w, b) /\ q.need = q.size - SIZE_BAG(w, b)
    BY <1>3 DEF Grows
  <2>2. w.mem[b] + SIZE_BAG(w, b) = w.allocBags
    BY <2>1 DEF IsLastBag, PTR_BAG
  <2>3. w.mem[b] + q.size <= w.endBags
    BY <1>1, <1>2, <2>1, <2>2
  <2> QED BY <1>2, <1>3, <2>1, <2>3 DEF ResizeFits
<1>4. CASE ~ q.last
  <2>1. q.need = q.size
    BY <1>4 DEF Grows
  <2> QED BY <1>2, <1>4, <2>1 DEF ResizeFits
<1> QED BY <1>3, <1>4

(* What ResizeBag asks CollectBags for.                                    *)
LEMMA GrowsAtOnce ==
    ASSUME NEW w, NEW b, NEW q, q.size \in Nat, ResizeBagCollects(w, b, q.size),
           q.need = ResizeBagNeeds(w, b, q.size), q.last = IsLastBag(w, b)
    PROVE  Grows(w, b, q)
BY DEF Grows, ResizeBagCollects, ResizeBagNeeds

(* GROW_WPOBJ makes room for the position.                                 *)
LEMMA GrownSizeFacts ==
    ASSUME NEW w, NEW b, SIZE_BAG(w, b) \in Nat, SIZE_BAG(w, b) > 0, NEW pos, pos \in Nat,
           NEW size, size = GrownSize(w, b, pos)
    PROVE  size \in Nat /\ size >= SIZE_BAG(w, b) /\ pos < size
<1> DEFINE k == SIZE_BAG(w, b)
           j == (5 * (k - 1)) \div 4 + 4
<1>1. k \in Nat /\ k > 0
  OBVIOUS
<1>2. size = IF pos < k THEN k ELSE 1 + Max({pos, j})
  BY DEF GrownSize
<1>3. j \in Nat /\ j >= k
  BY <1>1
<1> HIDE DEF k, j
<1>4. CASE pos < k
  BY <1>1, <1>2, <1>4 DEF k
<1>5. CASE ~ (pos < k)
  <2>1. PICK m : m = Max({pos, j})
    OBVIOUS
  <2>2. m = IF pos >= j THEN pos ELSE j
    BY <1>3, <2>1, MaxOfTwo
  <2>3. size = 1 + m
    BY <1>2, <1>5, <2>1
  <2> QED BY <1>1, <1>3, <1>5, <2>2, <2>3 DEF k
<1> QED BY <1>4, <1>5

-----------------------------------------------------------------------------
(* The parts of the invariant, by what Gasman is doing.                    *)
LEMMA InRun ==
    ASSUME Memory', Settled(ws'), phase' = "run"
    PROVE  HeapInv'
<1>1. CountsOK(ws', phase')
  BY DEF CountsOK, Settled
<1>2. RequestOK(ws', root', phase', request')
  BY DEF RequestOK
<1> QED BY <1>1, <1>2 DEF HeapInv, Memory, Phases

(* It does not look at the bags while a collection runs.                   *)
LEMMA InCollection ==
    ASSUME Memory', Settled(ws'), phase' \in {"partial", "full"}, RequestAt(ws', root', request')
    PROVE  HeapInv'
<1>1. CountsOK(ws', phase')
  BY DEF CountsOK, Settled
<1>2. RequestOK(ws', root', phase', request')
  BY DEF RequestOK
<1> QED BY <1>1, <1>2 DEF HeapInv, Memory, Phases

(* The invariant after a call is over.                                     *)
LEMMA AtRest ==
    ASSUME HeapInv, phase # "check"
    PROVE  /\ Memory /\ Settled(ws) /\ \E W : Sound(ws, W)
           /\ \A W : Sound(ws, W) => Areas(ws) /\ Tiles(ws, W)
BY SoundReadable DEF HeapInv, CountsOK, Memory, MemoryOK

-----------------------------------------------------------------------------
(* The actions.                                                            *)

(* A call that has to wait for a collection.                               *)
LEMMA BeginCollection ==
    ASSUME HeapInv, phase = "run", NEW q, RequestAt(ws, root, q),
           phase' = "partial", request' = q, UNCHANGED <<ws, program>>
    PROVE  HeapInv'
<1>1. Memory' /\ Settled(ws')
  BY AtRest DEF Memory, program
<1>2. RequestAt(ws', root', request')
  BY DEF program
<1> QED BY <1>1, <1>2, InCollection

(* NewBag of a list.                                                       *)
LEMMA NewListStep ==
    ASSUME HeapInv, NEW r \in Roots, NEW size, size \in Nat, NewList(r, size)
    PROVE  HeapInv'
<1> DEFINE q == Request("NewList", r, r, 0, size, size, FALSE)
<1>1. phase = "run" /\ Begin(q, NewBagCollects(ws, size))
  BY DEF NewList, Call
<1>2. q.op = "NewList" /\ q.r = r /\ q.size = size /\ q.need = size
  BY DEF Request
<1> HIDE DEF q
<1>3. Memory /\ Settled(ws) /\ \E W : Sound(ws, W) /\ Areas(ws)
  BY <1>1, AtRest
<1>4. CASE ~ NewBagCollects(ws, size) /\ Do(q) /\ NoCollection
  <2>1. DoNewList(q)
    BY <1>2, <1>4 DEF Do, DoWeakPointerObj, DoResizeList, DoSetElmWPObj
  <2>2. StopBags(ws, q.size) <= ws.endBags
    BY <1>2, <1>3, <1>4, NewBagRoom
  <2>3. Memory' /\ Quiet(ws, ws')
    BY <1>2, <1>3, <2>1, <2>2, DoNewListOK
  <2>4. phase' = "run"
    BY <1>1, <1>4 DEF NoCollection
  <2> QED BY <1>3, <2>3, <2>4, QuietSettled, InRun
<1>5. CASE phase' = "partial" /\ request' = q /\ UNCHANGED <<ws, program>>
  <2>1. RequestAt(ws, root, q)
    BY <1>2 DEF RequestAt
  <2> QED BY <1>1, <1>5, <2>1, BeginCollection
<1> QED BY <1>1, <1>4, <1>5 DEF Begin

(* NewBag of a weak pointer object.                                        *)
LEMMA WeakPointerObjStep ==
    ASSUME HeapInv, NEW r \in Roots, NEW s \in Roots, WeakPointerObj(r, s)
    PROVE  HeapInv'
<1> DEFINE q == Request("WeakPointerObj", r, s, 0, 2, 2, FALSE)
<1>1. phase = "run" /\ Begin(q, NewBagCollects(ws, 2)) /\ root[s] # 0
  BY DEF WeakPointerObj, Call
<1>2. q.op = "WeakPointerObj" /\ q.r = r /\ q.s = s /\ q.size = 2 /\ q.need = 2
  BY DEF Request
<1> HIDE DEF q
<1>3. Memory /\ Settled(ws) /\ \E W : Sound(ws, W) /\ Areas(ws)
  BY <1>1, AtRest
<1>4. CASE ~ NewBagCollects(ws, 2) /\ Do(q) /\ NoCollection
  <2>1. DoWeakPointerObj(q)
    BY <1>2, <1>4 DEF Do, DoNewList, DoResizeList, DoSetElmWPObj
  <2>2. StopBags(ws, 2) <= ws.endBags
    <3>1. PICK size : size = 2
      OBVIOUS
    <3>2. StopBags(ws, size) <= ws.endBags
      BY <1>3, <1>4, <3>1, NewBagRoom
    <3> QED BY <3>1, <3>2
  <2>3. Memory' /\ Quiet(ws, ws')
    BY <1>1, <1>2, <1>3, <2>1, <2>2, DoWeakPointerObjOK
  <2>4. phase' = "run"
    BY <1>1, <1>4 DEF NoCollection
  <2> QED BY <1>3, <2>3, <2>4, QuietSettled, InRun
<1>5. CASE phase' = "partial" /\ request' = q /\ UNCHANGED <<ws, program>>
  <2>1. RequestAt(ws, root, q)
    BY <1>1, <1>2 DEF RequestAt
  <2> QED BY <1>1, <1>5, <2>1, BeginCollection
<1> QED BY <1>1, <1>4, <1>5 DEF Begin

(* ResizeBag of a list.                                                    *)
LEMMA ResizeListStep ==
    ASSUME HeapInv, NEW r \in Roots, NEW size, size \in Nat, ResizeList(r, size)
    PROVE  HeapInv'
<1> DEFINE b == root[r]
           q == Request("ResizeList", r, r, 0, size, ResizeBagNeeds(ws, b, size), IsLastBag(ws, b))
<1>1. phase = "run" /\ IsList(r) /\ Begin(q, ResizeBagCollects(ws, b, size))
  BY DEF ResizeList, Call
<1>2. /\ q.op = "ResizeList" /\ q.r = r /\ q.size = size /\ q.need = ResizeBagNeeds(ws, b, size)
      /\ q.last = IsLastBag(ws, b) /\ b = root[r]
  BY DEF Request
<1> HIDE DEF q, b
<1>3. Memory /\ Settled(ws)
  BY <1>1, AtRest
<1>4. PICK W : Areas(ws) /\ Tiles(ws, W)
  BY <1>1, AtRest
<1>5. IsListAt(ws, root, r) /\ b \in LiveBags(ws) /\ TNUM_BAG(ws, b) = T_LIST
  <2>1. root[r] # 0 /\ TNUM_BAG(ws, root[r]) = T_LIST
    BY <1>1 DEF IsList
  <2> QED BY <1>2, <1>3, <2>1, HeldBag DEF Memory, IsListAt
<1>6. CASE ~ ResizeBagCollects(ws, b, size) /\ Do(q) /\ NoCollection
  <2>1. DoResizeList(q)
    BY <1>2, <1>6 DEF Do, DoNewList, DoWeakPointerObj, DoSetElmWPObj
  <2>2. ResizeFits(ws, b, size, IsLastBag(ws, b))
    BY <1>4, <1>5, <1>6, ResizeRoom
  <2>3. Memory' /\ Quiet(ws, ws')
    BY <1>2, <1>3, <1>5, <2>1, <2>2, DoResizeListOK
  <2>4. phase' = "run"
    BY <1>1, <1>6 DEF NoCollection
  <2> QED BY <1>3, <2>3, <2>4, QuietSettled, InRun
<1>7. CASE ResizeBagCollects(ws, b, size) /\ phase' = "partial" /\ request' = q /\ UNCHANGED <<ws, program>>
  <2>1. Grows(ws, b, q)
    BY <1>2, <1>7, GrowsAtOnce
  <2>2. RequestAt(ws, root, q)
    BY <1>2, <1>5, <2>1 DEF RequestAt
  <2> QED BY <1>1, <1>7, <2>2, BeginCollection
<1> QED BY <1>1, <1>6, <1>7 DEF Begin

(* FuncSetElmWPObj                                                         *)
LEMMA SetElmWPObjStep ==
    ASSUME HeapInv, NEW r \in Roots, NEW pos, pos \in Nat \ {0}, NEW s \in Roots, SetElmWPObj(r, pos, s)
    PROVE  HeapInv'
<1> DEFINE b == root[r]
           size == GrownSize(ws, b, pos)
           q == Request("SetElmWPObj", r, s, pos, size, ResizeBagNeeds(ws, b, size), IsLastBag(ws, b))
           t == TrimWPObj(ws, b)
<1>1. /\ phase = "run" /\ IsWPObj(r)
      /\ \/ ~ ResizeBagCollects(ws, b, size) /\ NoCollection /\ DoSetElmWPObj(q, t)
         \/ /\ ResizeBagCollects(ws, b, size) /\ ws' = t /\ phase' = "partial" /\ request' = q
            /\ UNCHANGED program
  BY DEF SetElmWPObj, Call
<1>2. /\ q.op = "SetElmWPObj" /\ q.r = r /\ q.s = s /\ q.pos = pos /\ q.size = size
      /\ q.need = ResizeBagNeeds(ws, b, size) /\ q.last = IsLastBag(ws, b) /\ b = root[r]
      /\ size = GrownSize(ws, b, pos) /\ t = TrimWPObj(ws, b)
  BY DEF Request
<1> HIDE DEF q, b, size, t
<1>3. Memory /\ Settled(ws)
  BY <1>1, AtRest
<1>4. PICK W : Areas(ws) /\ Tiles(ws, W)
  BY <1>1, AtRest
<1>5. /\ IsWPObjAt(ws, root, r) /\ b \in LiveBags(ws) /\ TNUM_BAG(ws, b) = T_WPOBJ
      /\ SIZE_BAG(ws, b) \in Nat /\ SIZE_BAG(ws, b) > 0
  <2>1. root[r] # 0 /\ TNUM_BAG(ws, root[r]) = T_WPOBJ
    BY <1>1 DEF IsWPObj
  <2>2. IsWPObjAt(ws, root, r) /\ b \in LiveBags(ws) /\ TNUM_BAG(ws, b) = T_WPOBJ /\ Readable(ws)
    BY <1>2, <1>3, <2>1, HeldBag DEF Memory, IsWPObjAt
  <2>3. SIZE_BAG(ws, b) \in Nat /\ 0 \in 0 .. SIZE_BAG(ws, b) - 1
    BY <2>2, LengthIsNoId
  <2> QED BY <2>2, <2>3
<1>6. size \in Nat /\ size >= SIZE_BAG(ws, b) /\ pos < size
  BY <1>2, <1>5, GrownSizeFacts
<1>7. MemoryOK(t, root, object, number, rootObject) /\ Trims(ws, t, b)
  BY <1>2, <1>3, <1>5, TrimOK DEF Memory
<1>8. /\ Quiet(ws, t) /\ SIZE_BAG(t, b) = SIZE_BAG(ws, b) /\ TNUM_BAG(t, b) = T_WPOBJ
      /\ t.mem[b] = ws.mem[b] /\ SameAreas(ws, t) /\ (IsLastBag(t, b) <=> IsLastBag(ws, b))
  BY <1>5, <1>7 DEF Trims, OnlyBag
<1>9. IsWPObjAt(t, root, r)
  BY <1>2, <1>5, <1>8 DEF IsWPObjAt
<1>10. CASE ~ ResizeBagCollects(ws, b, size) /\ NoCollection /\ DoSetElmWPObj(q, t)
  <2>1. ResizeFits(ws, b, size, IsLastBag(ws, b))
    BY <1>4, <1>5, <1>6, <1>10, ResizeRoom
  <2>2. ResizeFits(t, b, size, q.last)
    BY <1>2, <1>5, <1>8, <2>1 DEF ResizeFits, SameAreas
  <2>3. Memory' /\ Quiet(t, ws')
    BY <1>2, <1>6, <1>7, <1>8, <1>9, <1>10, <2>2, DoSetElmWPObjOK
  <2>4. Quiet(ws, ws')
    BY <1>8, <2>3, QuietTwice
  <2>5. phase' = "run"
    BY <1>1, <1>10 DEF NoCollection
  <2> QED BY <1>3, <2>3, <2>4, <2>5, QuietSettled, InRun
<1>11. CASE /\ ResizeBagCollects(ws, b, size) /\ ws' = t /\ phase' = "partial" /\ request' = q
            /\ UNCHANGED program
  <2>1. Grows(ws, b, q)
    BY <1>2, <1>6, <1>11, GrowsAtOnce
  <2>2. Grows(t, b, q)
    BY <1>8, <2>1 DEF Grows
  <2>3. RequestAt(t, root, q)
    BY <1>2, <1>6, <1>9, <2>2 DEF RequestAt
  <2>4. RequestAt(ws', root', request')
    BY <1>11, <2>3 DEF program
  <2>5. Memory'
    BY <1>7, <1>11 DEF Memory, program
  <2>6. Settled(ws')
    BY <1>3, <1>8, <1>11, QuietSettled
  <2> QED BY <1>11, <2>4, <2>5, <2>6, InCollection
<1> QED BY <1>1, <1>10, <1>11

(* The variables of the program, at rest.                                  *)
LEMMA ListHeld ==
    ASSUME NEW r \in Roots, IsList(r)
    PROVE  IsListAt(ws, root, r)
BY DEF IsList, IsListAt

(* A variable that holds a weak pointer object.                            *)
LEMMA WPObjHeld ==
    ASSUME NEW r \in Roots, IsWPObj(r)
    PROVE  IsWPObjAt(ws, root, r)
BY DEF IsWPObj, IsWPObjAt

(* The program forgets an identifier.                                      *)
LEMMA ForgetStep ==
    ASSUME HeapInv, NEW r \in Roots, Forget(r)
    PROVE  HeapInv'
<1>1. /\ phase = "run" /\ phase' = "run" /\ root' = SetTo(root, r, 0) /\ rootObject' = SetTo(rootObject, r, 0)
      /\ ws' = ws /\ object' = object /\ number' = number
  BY DEF Forget, Call, SetRoot, SetTo, NoCollection
<1>2. Memory /\ Settled(ws)
  BY <1>1, AtRest
<1>3. PICK x : x = 0
  OBVIOUS
<1>4. x \in LiveBags(ws) \cup {0} /\ x = NumIn(number, x)
  BY <1>3 DEF NumIn
<1>5. root' = SetTo(root, r, x) /\ rootObject' = SetTo(rootObject, r, x)
  BY <1>1, <1>3
<1>6. MemoryOK(ws, root', object, number, rootObject')
  BY <1>2, <1>4, <1>5, MemoryRoot DEF Memory
<1> QED BY <1>1, <1>2, <1>6, InRun DEF Memory

(* An assignment to a list.                                                *)
LEMMA SetElmListStep ==
    ASSUME HeapInv, NEW r \in Roots, NEW pos, pos \in Nat \ {0}, NEW s \in Roots, SetElmList(r, pos, s)
    PROVE  HeapInv'
<1>1. /\ phase = "run" /\ phase' = "run" /\ IsList(r) /\ pos <= SIZE_BAG(ws, root[r])
      /\ ws' = SetList(ws, root[r], pos, root[s])
      /\ object' = Put(object, rootObject[r], SetTo(object[rootObject[r]].slots, pos, rootObject[s]))
      /\ root' = root /\ number' = number /\ rootObject' = rootObject
  BY DEF SetElmList, Call, NoCollection, SetList, Put, SetTo
<1>2. Memory /\ Settled(ws) /\ IsListAt(ws, root, r)
  BY <1>1, AtRest, ListHeld
<1>3. pos \in 1 .. SIZE_BAG(ws, root[r])
  <2>1. PICK W : Areas(ws) /\ Tiles(ws, W)
    BY <1>1, AtRest
  <2>2. SIZE_BAG(ws, root[r]) \in Nat
    BY <1>2, <2>1, HeldBag, Placed DEF Memory, IsListAt
  <2> QED BY <1>1, <2>2
<1>4. MemoryOK(ws', root, object', number, rootObject) /\ Quiet(ws, ws')
  <2>1. MemoryOK(ws, root, object, number, rootObject) /\ s \in Roots
    BY <1>2 DEF Memory
  <2>2. /\ IsListAt(ws, root, r) /\ ws' = SetList(ws, root[r], pos, root[s])
        /\ object' = Put(object, rootObject[r], SetTo(object[rootObject[r]].slots, pos, rootObject[s]))
    BY <1>1, <1>2
  <2> QED BY ONLY <1>3, <2>1, <2>2, SetListOK
<1> QED BY <1>1, <1>2, <1>4, QuietSettled, InRun DEF Memory

(* A list is read.                                                         *)
LEMMA ElmListStep ==
    ASSUME HeapInv, NEW r \in Roots, NEW pos, pos \in Nat \ {0}, NEW s \in Roots, ElmList(r, pos, s)
    PROVE  HeapInv'
<1> DEFINE x == ws.mem[ws.mem[root[r]] + pos - 1]
           n == object[rootObject[r]].slots[pos]
<1>1. /\ phase = "run" /\ phase' = "run" /\ IsList(r) /\ pos <= SIZE_BAG(ws, root[r])
      /\ root' = SetTo(root, s, x) /\ rootObject' = SetTo(rootObject, s, n)
      /\ ws' = ws /\ object' = object /\ number' = number
  BY DEF ElmList, Call, NoCollection, SetRoot, SetTo, PTR_BAG
<1>2. Memory /\ Settled(ws) /\ IsListAt(ws, root, r)
  BY <1>1, AtRest, ListHeld
<1>3. pos \in 1 .. SIZE_BAG(ws, root[r])
  <2>1. PICK W : Areas(ws) /\ Tiles(ws, W)
    BY <1>1, AtRest
  <2>2. SIZE_BAG(ws, root[r]) \in Nat
    BY <1>2, <2>1, HeldBag, Placed DEF Memory, IsListAt
  <2> QED BY <1>1, <2>2
<1>4. x \in LiveBags(ws) \cup {0} /\ n = NumIn(number, x)
  BY <1>2, <1>3, ListWord DEF Memory
<1> HIDE DEF x, n
<1>5. MemoryOK(ws, root', object, number, rootObject')
  BY <1>1, <1>2, <1>4, MemoryRoot DEF Memory
<1> QED BY <1>1, <1>2, <1>5, InRun DEF Memory

(* FuncSWITCH_OBJ                                                          *)
LEMMA SwitchObjStep ==
    ASSUME HeapInv, NEW r \in Roots, NEW s \in Roots, SwitchObj(r, s)
    PROVE  HeapInv'
<1>1. /\ phase = "run" /\ phase' = "run" /\ root[r] # 0 /\ root[s] # 0 /\ root[r] # root[s]
      /\ ws' = SwapMasterPoint(ws, root[r], root[s])
      /\ object' = Switched(object, rootObject[r], rootObject[s])
      /\ root' = root /\ number' = number /\ rootObject' = rootObject
  BY DEF SwitchObj, Call, NoCollection, Switched
<1>2. Memory /\ Settled(ws)
  BY <1>1, AtRest
<1>3. MemoryOK(ws', root, object', number, rootObject) /\ Quiet(ws, ws')
  BY <1>1, <1>2, SwitchOK DEF Memory
<1> QED BY <1>1, <1>2, <1>3, QuietSettled, InRun DEF Memory

(* FuncElmWPObj                                                            *)
LEMMA ElmWPObjStep ==
    ASSUME HeapInv, NEW r \in Roots, NEW pos, pos \in Nat \ {0}, NEW s \in Roots, ElmWPObj(r, pos, s)
    PROVE  HeapInv'
<1> DEFINE b == root[r]
           x == ELM_WPOBJ(ws, b, pos)
           n == NumIn(number, x)
<1>1. /\ phase = "run" /\ phase' = "run" /\ IsWPObj(r) /\ pos <= STORED_LEN_WPOBJ(ws, b)
      /\ ws' = SET_ELM_WPOBJ(ws, b, pos, x)
      /\ root' = SetTo(root, s, x) /\ rootObject' = SetTo(rootObject, s, n)
      /\ object' = object /\ number' = number
  BY DEF ElmWPObj, Call, NoCollection, SetRoot, SetTo, NumberOf, NumIn
<1>2. Memory /\ Settled(ws) /\ IsWPObjAt(ws, root, r)
  BY <1>1, AtRest, WPObjHeld
<1>3. pos \in 1 .. SIZE_BAG(ws, b) - 1
  <2>1. b \in LiveBags(ws) /\ TNUM_BAG(ws, b) = T_WPOBJ /\ Readable(ws)
    BY <1>2, HeldBag DEF Memory, IsWPObjAt
  <2>2. PICK W : Areas(ws) /\ Tiles(ws, W)
    BY <1>1, AtRest
  <2>3. STORED_LEN_WPOBJ(ws, b) = LenWord(ws, b)
    BY <2>1, <2>2, ElmWord
  <2>4. SIZE_BAG(ws, b) \in Nat /\ LenWord(ws, b) \in Nat /\ LenWord(ws, b) < SIZE_BAG(ws, b)
    BY <2>1, LengthIsNoId
  <2> QED BY <1>1, <2>3, <2>4
<1>4. b = root[r] /\ x = ELM_WPOBJ(ws, b, pos) /\ n = NumIn(number, x)
  OBVIOUS
<1> HIDE DEF b, x, n
<1>5. MemoryOK(ws', root, object, number, rootObject) /\ Quiet(ws, ws') /\ x \in LiveBags(ws') \cup {0}
  BY <1>1, <1>2, <1>3, <1>4, ReadOK DEF Memory
<1>6. MemoryOK(ws', root', object, number, rootObject')
  BY <1>1, <1>4, <1>5, MemoryRoot
<1> QED BY <1>1, <1>2, <1>5, <1>6, QuietSettled, InRun DEF Memory

(* FuncIsBoundElmWPObj                                                     *)
LEMMA IsBoundElmWPObjStep ==
    ASSUME HeapInv, NEW r \in Roots, NEW pos, pos \in Nat \ {0}, IsBoundElmWPObj(r, pos)
    PROVE  HeapInv'
<1>1. /\ phase = "run" /\ phase' = "run" /\ IsWPObj(r)
      /\ ws' = IF pos <= LengthWPObj(ws, root[r])
               THEN SET_ELM_WPOBJ(TrimWPObj(ws, root[r]), root[r], pos, ELM_WPOBJ(ws, root[r], pos))
               ELSE TrimWPObj(ws, root[r])
      /\ root' = root /\ object' = object /\ number' = number /\ rootObject' = rootObject
  BY DEF IsBoundElmWPObj, Call, NoCollection, program
<1>2. Memory /\ Settled(ws) /\ IsWPObjAt(ws, root, r)
  BY <1>1, AtRest, WPObjHeld
<1>3. PICK t : t = TrimWPObj(ws, root[r])
  OBVIOUS
<1>4. MemoryOK(ws', root, object, number, rootObject) /\ Quiet(ws, ws')
  BY <1>1, <1>2, <1>3, IsBoundOK DEF Memory
<1> QED BY <1>1, <1>2, <1>4, QuietSettled, InRun DEF Memory

(* FuncUnbindElmWPObj                                                      *)
LEMMA UnbindElmWPObjStep ==
    ASSUME HeapInv, NEW r \in Roots, NEW pos, pos \in Nat \ {0}, UnbindElmWPObj(r, pos)
    PROVE  HeapInv'
<1>1. /\ phase = "run" /\ phase' = "run" /\ IsWPObj(r)
      /\ ws' = IF pos <= LengthWPObj(ws, root[r])
               THEN SET_ELM_WPOBJ(TrimWPObj(ws, root[r]), root[r], pos, 0)
               ELSE TrimWPObj(ws, root[r])
      /\ object' = IF pos <= Len(object[rootObject[r]].slots)
                   THEN Put(object, rootObject[r], SetTo(object[rootObject[r]].slots, pos, 0))
                   ELSE object
      /\ root' = root /\ number' = number /\ rootObject' = rootObject
  BY DEF UnbindElmWPObj, Call, NoCollection, Put, SetTo
<1>2. Memory /\ Settled(ws) /\ IsWPObjAt(ws, root, r)
  BY <1>1, AtRest, WPObjHeld
<1>3. PICK t : t = TrimWPObj(ws, root[r])
  OBVIOUS
<1>4. MemoryOK(ws', root, object', number, rootObject) /\ Quiet(ws, ws')
  BY <1>1, <1>2, <1>3, UnbindOK DEF Memory
<1> QED BY <1>1, <1>2, <1>4, QuietSettled, InRun DEF Memory

(* FuncCollectBags                                                         *)
LEMMA CollectStep ==
    ASSUME HeapInv, NEW full, Collect(full)
    PROVE  HeapInv'
<1>1. /\ phase = "run" /\ phase' \in {"partial", "full"} /\ request' = [op |-> "Collect", need |-> 0]
      /\ ws' = ws /\ UNCHANGED program
  BY DEF Collect, Call
<1>2. Memory /\ Settled(ws)
  BY <1>1, AtRest
<1>3. Memory' /\ Settled(ws')
  BY <1>1, <1>2 DEF Memory, program
<1>4. RequestAt(ws', root', request')
  BY <1>1 DEF RequestAt
<1> QED BY <1>1, <1>3, <1>4, InCollection

(* The call that waits.                                                    *)
LEMMA Waiting ==
    ASSUME HeapInv, phase \in {"partial", "full", "check", "ready"}
    PROVE  RequestAt(ws, root, request) /\ request.need \in Nat
<1>1. RequestAt(ws, root, request)
  BY DEF HeapInv, RequestOK
<1>2. MemoryOK(ws, root, object, number, rootObject)
  BY DEF HeapInv
<1>3. ASSUME NEW b \in LiveBags(ws), Grows(ws, b, request) PROVE request.need \in Nat
  <2>1. PICK W : Areas(ws) /\ Tiles(ws, W)
    BY <1>2 DEF MemoryOK, Sound
  <2>2. SIZE_BAG(ws, b) \in Nat
    BY <2>1, Placed
  <2> QED BY <1>3, <2>2 DEF Grows
<1>4. ASSUME NEW r, r \in Roots, root[r] # 0 PROVE root[r] \in LiveBags(ws)
  BY <1>2, <1>4, HeldBag
<1>5. request.op = "ResizeList" => request.need \in Nat
  BY <1>1, <1>3, <1>4 DEF RequestAt, IsListAt
<1>6. request.op = "SetElmWPObj" => request.need \in Nat
  BY <1>1, <1>3, <1>4 DEF RequestAt, IsWPObjAt
<1>7. request.op \notin {"ResizeList", "SetElmWPObj"} => request.need \in Nat
  BY <1>1 DEF RequestAt
<1> QED BY <1>1, <1>5, <1>6, <1>7

(* The partial collection.                                                 *)
LEMMA PartialCollectionStep ==
    ASSUME HeapInv, PartialCollection
    PROVE  HeapInv'
<1>1. /\ phase = "partial" /\ ws' = MarkAndSweep(ws, Held) /\ UNCHANGED <<program, request>>
      /\ phase' = IF EnoughAfterPartial(ws', request.need) THEN "ready" ELSE "full"
  BY DEF PartialCollection
<1>2. Memory /\ Settled(ws)
  BY <1>1, AtRest
<1>3. MemoryOK(ws', root, object, number, rootObject) /\ KeepsHeld(ws, ws', root) /\ Settled(ws')
  BY <1>1, <1>2, PartialOK DEF Memory, Held
<1>4. RequestAt(ws', root, request) /\ request.need \in Nat
  BY <1>1, <1>3, Waiting, RequestKept
<1>5. Memory'
  BY <1>1, <1>3 DEF Memory, program
<1>6. RequestAt(ws', root', request')
  BY <1>1, <1>4 DEF program
<1>7. EnoughAfterPartial(ws', request.need) => StopBags(ws', request.need) <= ws'.endBags
  <2>1. PICK W : Areas(ws') /\ Tiles(ws', W)
    BY <1>3 DEF MemoryOK, Sound
  <2>2. ws'.endBags \in Nat /\ ws'.allocBags \in Nat
    BY <2>1, AreaNumbers
  <2> QED BY <1>4, <2>2, LayoutAssumption DEF EnoughAfterPartial, StopBags, HeaderWords
<1>8. RequestOK(ws', root', phase', request')
  BY <1>1, <1>6, <1>7 DEF RequestOK
<1>9. CountsOK(ws', phase')
  BY <1>1, <1>3 DEF CountsOK, Settled
<1> QED BY <1>1, <1>5, <1>8, <1>9 DEF HeapInv, Memory, Phases

(* The full collection.                                                    *)
LEMMA FullCollectionStep ==
    ASSUME HeapInv, FullCollection
    PROVE  HeapInv'
<1>1. /\ phase = "full" /\ ws' = MarkAndSweep(MakeAllYoung(ws), Held) /\ UNCHANGED <<program, request>>
      /\ phase' = "check"
  BY DEF FullCollection
<1>2. Memory /\ Settled(ws)
  BY <1>1, AtRest
<1>3. /\ MemoryOK(ws', root, object, number, rootObject) /\ KeepsHeld(ws, ws', root)
      /\ ws'.nrHalfDead = Cardinality(DeadIds(ws')) /\ NoStaleIn(ws') /\ ws'.nrLive <= SizeMptrsArea(ws')
  BY <1>1, <1>2, FullOK DEF Memory, Held
<1>4. RequestAt(ws', root, request)
  BY <1>1, <1>3, Waiting, RequestKept
<1>5. Memory'
  BY <1>1, <1>3 DEF Memory, program
<1>6. RequestOK(ws', root', phase', request')
  BY <1>1, <1>4 DEF RequestOK, program
<1>7. CountsOK(ws', phase')
  BY <1>1, <1>3 DEF CountsOK
<1> QED BY <1>1, <1>5, <1>6, <1>7 DEF HeapInv, Memory, Phases

(* The check after it.                                                     *)
LEMMA CheckAfterFullStep ==
    ASSUME HeapInv, CheckAfterFull
    PROVE  HeapInv'
<1> DEFINE c == CollectBags_CheckFull(ws, request.need)
<1>1. /\ phase = "check" /\ ws' = c.w /\ UNCHANGED <<program, request>>
      /\ phase' = IF c.done = "yes" \/ request.op = "Collect" THEN "ready" ELSE "panic"
  BY DEF CheckAfterFull
<1>2. c = CollectBags_CheckFull(ws, request.need)
  OBVIOUS
<1> HIDE DEF c
<1>3. /\ MemoryOK(ws, root, object, number, rootObject) /\ NoStaleIn(ws) /\ ws.nrLive <= SizeMptrsArea(ws)
      /\ ws.nrHalfDead = Cardinality(DeadIds(ws)) /\ RequestAt(ws, root, request) /\ request.need \in Nat
  BY <1>1, Waiting DEF HeapInv, CountsOK
<1>4. /\ MemoryOK(ws', root, object, number, rootObject) /\ KeepsHeld(ws, ws', root) /\ Settled(ws')
      /\ c.done = "yes" => StopBags(ws', request.need) <= ws'.endBags
  BY <1>1, <1>2, <1>3, CheckOK
<1>5. RequestAt(ws', root, request)
  BY <1>3, <1>4, RequestKept
<1>6. Memory'
  BY <1>1, <1>4 DEF Memory, program
<1>7. RequestOK(ws', root', phase', request')
  BY <1>1, <1>4, <1>5 DEF RequestOK, program
<1>8. CountsOK(ws', phase')
  BY <1>1, <1>4 DEF CountsOK, Settled
<1> QED BY <1>1, <1>6, <1>7, <1>8 DEF HeapInv, Memory, Phases

(* The call goes on.                                                       *)
LEMMA ProceedStep ==
    ASSUME HeapInv, Proceed
    PROVE  HeapInv'
<1> DEFINE q == request
<1>1. phase = "ready" /\ request.op # "Collect" /\ Do(q) /\ phase' = "run"
  BY DEF Proceed
<1>2. Memory /\ Settled(ws) /\ MemoryOK(ws, root, object, number, rootObject)
  BY <1>1, AtRest DEF Memory
<1>3. PICK W : Areas(ws) /\ Tiles(ws, W)
  BY <1>1, AtRest
<1>4. RequestAt(ws, root, q) /\ StopBags(ws, q.need) <= ws.endBags /\ q.op # "Collect"
  BY <1>1 DEF HeapInv, RequestOK
<1> HIDE DEF q
<1>5. ASSUME NEW b \in LiveBags(ws), Grows(ws, b, q)
      PROVE  ResizeFits(ws, b, q.size, q.last) /\ q.size \in Nat /\ q.size >= SIZE_BAG(ws, b)
  <2>1. ResizeFits(ws, b, q.size, q.last)
    BY <1>3, <1>4, <1>5, GrowRoom
  <2>2. SIZE_BAG(ws, b) \in Nat
    BY <1>3, Placed
  <2> QED BY <1>5, <2>1, <2>2 DEF Grows
<1>6. ASSUME NEW r, r \in Roots, root[r] # 0 PROVE root[r] \in LiveBags(ws)
  BY <1>2, <1>6, HeldBag
<1>7. Memory' /\ Quiet(ws, ws')
  <2>1. CASE q.op = "NewList"
    <3>1. DoNewList(q) /\ q.r \in Roots /\ q.size \in Nat /\ q.need = q.size
      BY <1>1, <1>4, <2>1 DEF Do, DoNewList, DoWeakPointerObj, DoResizeList, DoSetElmWPObj, RequestAt
    <3> QED BY <1>2, <1>4, <3>1, DoNewListOK
  <2>2. CASE q.op = "WeakPointerObj"
    <3>1. /\ DoWeakPointerObj(q) /\ q.r \in Roots /\ q.s \in Roots /\ root[q.s] # 0
          /\ q.size = 2 /\ q.need = 2
      BY <1>1, <1>4, <2>2 DEF Do, DoNewList, DoWeakPointerObj, DoResizeList, DoSetElmWPObj, RequestAt
    <3> QED BY <1>2, <1>4, <3>1, DoWeakPointerObjOK
  <2>3. CASE q.op = "ResizeList"
    <3>1. DoResizeList(q) /\ IsListAt(ws, root, q.r) /\ Grows(ws, root[q.r], q)
      BY <1>1, <1>4, <2>3 DEF Do, DoNewList, DoWeakPointerObj, DoResizeList, DoSetElmWPObj, RequestAt
    <3>2. root[q.r] \in LiveBags(ws)
      BY <1>6, <3>1 DEF IsListAt
    <3> QED BY <1>2, <1>5, <3>1, <3>2, DoResizeListOK
  <2>4. CASE q.op = "SetElmWPObj"
    <3>1. /\ DoSetElmWPObj(q, ws) /\ IsWPObjAt(ws, root, q.r) /\ Grows(ws, root[q.r], q)
          /\ q.s \in Roots /\ q.pos \in Nat \ {0} /\ q.pos < q.size
      BY <1>1, <1>4, <2>4 DEF Do, DoNewList, DoWeakPointerObj, DoResizeList, DoSetElmWPObj, RequestAt
    <3>2. root[q.r] \in LiveBags(ws)
      BY <1>6, <3>1 DEF IsWPObjAt
    <3>3. ResizeFits(ws, root[q.r], q.size, q.last) /\ q.size \in Nat /\ q.size >= SIZE_BAG(ws, root[q.r])
      BY <1>5, <3>1, <3>2
    <3> QED BY <1>2, <3>1, <3>3, DoSetElmWPObjOK
  <2> QED BY <1>4, <2>1, <2>2, <2>3, <2>4 DEF RequestAt
<1> QED BY <1>1, <1>2, <1>7, QuietSettled, InRun

(* A collection called by the program ends.                                *)
LEMMA CollectEndStep ==
    ASSUME HeapInv, CollectEnd
    PROVE  HeapInv'
<1>1. phase = "ready" /\ phase' = "run" /\ UNCHANGED <<ws, program>>
  BY DEF CollectEnd
<1>2. Memory /\ Settled(ws)
  BY <1>1, AtRest
<1>3. Memory' /\ Settled(ws')
  BY <1>1, <1>2 DEF Memory, program
<1> QED BY <1>1, <1>3, InRun

(* NewBag takes a masterpointer where there is none.                       *)
LEMMA ProceedWithoutMptrStep ==
    ASSUME HeapInv, ProceedWithoutMptr
    PROVE  HeapInv'
<1>1. phase = "ready" /\ phase' = "crash" /\ UNCHANGED <<ws, program>>
  BY DEF ProceedWithoutMptr
<1>2. Memory /\ Settled(ws)
  BY <1>1, AtRest
<1>3. Memory' /\ Settled(ws')
  BY <1>1, <1>2 DEF Memory, program
<1>4. CountsOK(ws', phase') /\ RequestOK(ws', root', phase', request')
  BY <1>1, <1>3 DEF CountsOK, Settled, RequestOK
<1> QED BY <1>1, <1>3, <1>4 DEF HeapInv, Memory, Phases

-----------------------------------------------------------------------------
(* The invariant, and what follows from it.                                *)

(* The first workspace, field by field.                                    *)
LEMMA NewWorkspaceFields ==
    ASSUME NEW w, w = NewWorkspace, NEW first, first = 1 + InitMptrs + Gap
    PROVE  /\ w \in Workspace /\ w.mptrEnd = 1 + InitMptrs /\ w.oldBags = first /\ w.youngBags = first
           /\ w.allocBags = first /\ w.endBags = InitEnd /\ w.freeMptr = 1 /\ w.changed = 0
           /\ w.nrHalfDead = 0
           /\ \A a \in 1 .. Limit : w.mem[a] = IF a < InitMptrs THEN a + 1 ELSE 0
<1> DEFINE mm == [a \in 1 .. Limit |-> IF a < InitMptrs THEN a + 1 ELSE 0]
<1>1. /\ InitMptrs \in Nat /\ Gap \in Nat /\ InitEnd \in Nat /\ Limit \in Nat
      /\ InitMptrs > 0
  BY LayoutAssumption
<1>2. w = [mem |-> mm, mptrEnd |-> 1 + InitMptrs, oldBags |-> first, youngBags |-> first,
           allocBags |-> first, endBags |-> InitEnd,
           freeMptr |-> 1, changed |-> 0, newMarker |-> -1, nrLive |-> 0, nrHalfDead |-> 0]
  BY DEF NewWorkspace
<1>3. mm \in [1 .. Limit -> Int] /\ \A a \in 1 .. Limit : mm[a] = IF a < InitMptrs THEN a + 1 ELSE 0
  BY <1>1
<1>4. first \in Nat
  BY <1>1
<1> HIDE DEF mm
<1>5. -1 \in Markers
  BY DEF Markers
<1>6. w \in Workspace
  BY ONLY <1>1, <1>2, <1>3, <1>4, <1>5 DEF Workspace
<1> QED BY <1>2, <1>3, <1>6

(* It is sound: all its masterpointers are free.                           *)
LEMMA NewWorkspaceSound ==
    ASSUME NEW w, w = NewWorkspace
    PROVE  Sound(w, {w.oldBags}) /\ LiveBags(w) = {} /\ Settled(w)
<1>0. PICK first : first = 1 + InitMptrs + Gap
  OBVIOUS
<1>1. /\ w \in Workspace /\ w.mptrEnd = 1 + InitMptrs /\ w.oldBags = first /\ w.youngBags = first
      /\ w.allocBags = first /\ w.endBags = InitEnd /\ w.freeMptr = 1 /\ w.changed = 0
      /\ w.nrHalfDead = 0
      /\ \A a \in 1 .. Limit : w.mem[a] = IF a < InitMptrs THEN a + 1 ELSE 0
  BY <1>0, NewWorkspaceFields
<1>2. /\ InitMptrs \in Nat /\ Gap \in Nat /\ InitEnd \in Nat /\ Limit \in Nat
      /\ InitMptrs > 0 /\ InitMptrs + Gap < InitEnd /\ InitEnd <= Limit + 1
  BY LayoutAssumption
<1>3. first \in Nat /\ 1 + InitMptrs <= first /\ first <= InitEnd
  BY <1>0, <1>2
<1>4. Areas(w)
  BY <1>1, <1>2, <1>3 DEF Areas
<1>5. LiveBags(w) = {}
  <2>1. ASSUME NEW b \in 1 .. w.mptrEnd - 1 PROVE w.mem[b] < w.oldBags + 2
    <3>1. b \in 1 .. Limit /\ b \in 1 .. InitMptrs
      BY <1>1, <1>2
    <3>2. w.mem[b] = IF b < InitMptrs THEN b + 1 ELSE 0
      BY <1>1, <3>1
    <3> QED BY <1>1, <1>2, <1>3, <3>1, <3>2
  <2>2. \A b \in 1 .. w.mptrEnd - 1 : w.mem[b] \in Int
    BY <1>1, <1>2 DEF Workspace
  <2> QED BY <1>1, <1>3, <2>1, <2>2 DEF LiveBags, HeaderWords
<1>6. IdsOf(w) = 1 .. InitMptrs
  BY <1>1, <1>2 DEF IdsOf
<1>7. \A b \in 1 .. InitMptrs : w.mem[b] = IF b < InitMptrs THEN b + 1 ELSE 0
  <2>1. \A b \in 1 .. InitMptrs : b \in 1 .. Limit
    BY <1>2
  <2> QED BY <1>1, <2>1
<1>8. DeadIds(w) = {} /\ FreeIds(w) = 1 .. InitMptrs
  <2>1. \A b \in 1 .. InitMptrs : w.mem[b] = 0 \/ w.mem[b] \in 1 .. InitMptrs
    BY <1>2, <1>7
  <2>2. \A b \in 1 .. InitMptrs : w.mem[b] \notin Markers
    BY <2>1 DEF Markers
  <2> QED BY <1>6, <2>1, <2>2 DEF DeadIds, FreeIds
<1>9. Tiles(w, {w.oldBags})
  BY <1>1, <1>3, <1>5 DEF Tiles
<1>10. LinksOK(w)
  <2>1. ListedBags(w) = {}
    BY <1>5 DEF ListedBags
  <2> QED BY <1>1, <2>1 DEF LinksOK, Chain
<1>11. MptrsOK(w)
  <2>1. PICK lo, h, C : lo = 1 /\ h = 0 /\ C = {}
    OBVIOUS
  <2>2. Chain(h, w.mem, C)
    BY <2>1 DEF Chain
  <2>3. \A c \in lo .. InitMptrs - 1 : w.mem[c] = c + 1
    BY <1>2, <1>7, <2>1
  <2>4. w.mem[InitMptrs] = h
    BY <1>2, <1>7, <2>1
  <2>5. /\ lo \in Nat /\ 0 < lo /\ lo <= InitMptrs /\ C \subseteq 1 .. lo - 1
        /\ \A c \in C : w.mem[c] = w.mem[c]
    BY <1>2, <2>1
  <2>6. Chain(lo, w.mem, C \cup (lo .. InitMptrs))
    BY <1>2, <2>2, <2>3, <2>4, <2>5, ChainPrepend
  <2>7. C \cup (lo .. InitMptrs) = FreeIds(w) /\ w.freeMptr = lo
    BY <1>1, <1>8, <2>1
  <2> QED BY <1>6, <1>8, <2>6, <2>7 DEF MptrsOK
<1>12. ZeroOK(w)
  <2>1. ASSUME NEW a \in first .. Limit PROVE w.mem[a] = 0
    <3>1. a \in 1 .. Limit /\ ~ (a < InitMptrs)
      BY <1>2, <1>3
    <3> QED BY <1>1, <3>1
  <2> QED BY <1>1, <2>1 DEF ZeroOK
<1>13. Sound(w, {w.oldBags})
  BY <1>4, <1>5, <1>9, <1>10, <1>11, <1>12 DEF Sound, WordsOK, RemembersOK
<1>14. Settled(w)
  BY <1>1, <1>8, FS_EmptySet DEF Settled
<1> QED BY <1>5, <1>13, <1>14

(* The invariant holds at the start.                                       *)
LEMMA HeapInit ==
    ASSUME Init
    PROVE  HeapInv
<1>1. /\ ws = NewWorkspace /\ root = [r \in Roots |-> 0] /\ phase = "run" /\ object = <<>>
      /\ number = [b \in 1 .. Limit |-> 0] /\ rootObject = [r \in Roots |-> 0]
  BY DEF Init
<1>2. Sound(ws, {ws.oldBags}) /\ LiveBags(ws) = {} /\ Settled(ws)
  BY <1>1, NewWorkspaceSound
<1>3. Objects(ws, object, number)
  <2>1. object \in Seq(Object) /\ Len(object) = 0
    BY <1>1
  <2>2. number \in [1 .. Limit -> Nat]
    BY <1>1
  <2>3. ObjectTypes(object, number)
    BY <2>1, <2>2 DEF ObjectTypes
  <2> QED BY <1>2, <2>3 DEF Objects, Distinct
<1>4. HeldAt(ws, root, number, rootObject)
  BY <1>1, <1>2 DEF HeldAt, NumIn
<1>5. CountsOK(ws, phase)
  BY <1>1, <1>2 DEF CountsOK, Settled
<1> QED BY <1>1, <1>2, <1>3, <1>4, <1>5 DEF HeapInv, MemoryOK, RequestOK, Phases

(* Every step keeps it.                                                    *)
LEMMA HeapStep ==
    ASSUME HeapInv, [Next]_vars
    PROVE  HeapInv'
<1>1. /\ NewSizes \subseteq Nat /\ Sizes \subseteq Nat
      /\ Places \subseteq Nat \ {0} /\ Positions \subseteq Nat \ {0}
  BY HeapBoundsAssumption
<1>2. CASE UNCHANGED vars
  BY <1>2 DEF HeapInv, vars
<1>3. CASE \E r \in Roots, n \in NewSizes : NewList(r, n)
  BY <1>1, <1>3, NewListStep
<1>4. CASE \E r \in Roots, n \in Sizes : ResizeList(r, n)
  BY <1>1, <1>4, ResizeListStep
<1>5. CASE \E r \in Roots, s \in Roots : WeakPointerObj(r, s) \/ SwitchObj(r, s)
  BY <1>5, WeakPointerObjStep, SwitchObjStep
<1>6. CASE \E r \in Roots : Forget(r)
  BY <1>6, ForgetStep
<1>7. CASE \E r \in Roots, s \in Roots, pos \in Places : SetElmList(r, pos, s) \/ ElmList(r, pos, s)
  BY <1>1, <1>7, SetElmListStep, ElmListStep
<1>8. CASE \E r \in Roots, s \in Roots, pos \in Positions : SetElmWPObj(r, pos, s) \/ ElmWPObj(r, pos, s)
  BY <1>1, <1>8, SetElmWPObjStep, ElmWPObjStep
<1>9. CASE \E r \in Roots, pos \in Positions : UnbindElmWPObj(r, pos) \/ IsBoundElmWPObj(r, pos)
  BY <1>1, <1>9, UnbindElmWPObjStep, IsBoundElmWPObjStep
<1>10. CASE \E full \in BOOLEAN : Collect(full)
  BY <1>10, CollectStep
<1>11. CASE PartialCollection \/ FullCollection \/ CheckAfterFull
  BY <1>11, PartialCollectionStep, FullCollectionStep, CheckAfterFullStep
<1>12. CASE Proceed \/ ProceedWithoutMptr \/ CollectEnd
  BY <1>12, ProceedStep, ProceedWithoutMptrStep, CollectEndStep
<1> QED BY <1>2, <1>3, <1>4, <1>5, <1>6, <1>7, <1>8, <1>9, <1>10, <1>11, <1>12 DEF Next

(* The workspace of a state with the invariant.                            *)
LEMMA SoundState ==
    ASSUME HeapInv
    PROVE  /\ \E W : Sound(ws, W)
           /\ \A W : Sound(ws, W) => Areas(ws) /\ Tiles(ws, W)
           /\ Objects(ws, object, number) /\ HeldAt(ws, root, number, rootObject)
BY SoundReadable DEF HeapInv, MemoryOK

(* The borders.                                                            *)
LEMMA InvTypeOK ==
    ASSUME HeapInv
    PROVE  TypeOK
<1>1. Areas(ws) /\ HeldAt(ws, root, number, rootObject)
  BY SoundState
<1>2. root \in [Roots -> {0} \cup Ids]
  <2>1. \A r \in Roots : root[r] \in {0} \cup Ids
    BY <1>1 DEF HeldAt, LiveBags, Ids
  <2> QED BY <1>1, <2>1 DEF HeldAt
<1>3. ws.mem \in [1 .. Limit -> Int]
  BY <1>1 DEF Areas, Workspace
<1> QED BY <1>1, <1>2, <1>3 DEF TypeOK, Areas, HeapInv

(* The words of a bag, by their addresses.                                 *)
LEMMA WordsOfBag ==
    ASSUME NEW w, NEW W, Areas(w), Tiles(w, W), NEW b \in LiveBags(w), NEW k, k \in Nat, NEW x \in WordsOf(w, b, k)
    PROVE  \E i \in k .. SIZE_BAG(w, b) - 1 : x = Word(w, b, i)
<1>1. w.mem[b] \in Int /\ SIZE_BAG(w, b) \in Nat
  BY Placed
<1>2. PICK a \in w.mem[b] + k .. w.mem[b] + SIZE_BAG(w, b) - 1 : x = w.mem[a]
  BY DEF WordsOf, PTR_BAG
<1>3. PICK i : i = a - w.mem[b]
  OBVIOUS
<1>4. i \in k .. SIZE_BAG(w, b) - 1 /\ a = w.mem[b] + i
  BY <1>1, <1>2, <1>3
<1> QED BY <1>2, <1>4 DEF Word

(* The generational invariant.                                             *)
LEMMA InvRememberedSet ==
    ASSUME HeapInv
    PROVE  RememberedSet
<1>1. PICK W : Sound(ws, W)
  BY SoundState
<1>2. Areas(ws) /\ Tiles(ws, W) /\ ChangedBags(ws) = ListedBags(ws) /\ RemembersOK(ws)
  BY <1>1, ChangedIsListed DEF Sound
<1> SUFFICES ASSUME NEW b \in Live \ ChangedBags(ws), IsOld(ws, b),
                    NEW x \in (StrongSubBags(ws, b) \cup WeakSubBags(ws, b)) \cap Live
             PROVE  IsOld(ws, x) \/ x \in ChangedBags(ws)
  BY DEF RememberedSet
<1>3. b \in LiveBags(ws) /\ LINK_BAG(ws, b) = b /\ x \in LiveBags(ws)
  BY <1>2 DEF Live, ListedBags
<1>4. \E i \in 0 .. SIZE_BAG(ws, b) - 1 : x = Word(ws, b, i)
  <2>1. PICK k : k \in {0, 1} /\ x \in WordsOf(ws, b, k)
    BY DEF StrongSubBags, WeakSubBags
  <2>2. k \in Nat
    BY <2>1
  <2>3. PICK i \in k .. SIZE_BAG(ws, b) - 1 : x = Word(ws, b, i)
    BY <1>2, <1>3, <2>1, <2>2, WordsOfBag
  <2>4. SIZE_BAG(ws, b) \in Nat
    BY <1>2, <1>3, Placed
  <2>5. i \in 0 .. SIZE_BAG(ws, b) - 1
    BY <2>2, <2>4
  <2> QED BY <2>3, <2>5
<1>5. Remembered(ws, x)
  BY <1>2, <1>3, <1>4 DEF RemembersOK, RemembersAt
<1> QED BY <1>2, <1>3, <1>5 DEF Remembered, ListedBags

(* The masterpointers.                                                     *)
LEMMA InvMptrsAccounted ==
    ASSUME HeapInv
    PROVE  MptrsAccounted
<1> DEFINE free == {b \in Ids : ws.mem[b] \in {0} \cup Ids}
           next == [b \in Ids |-> {ws.mem[b]} \cap Ids]
           listed == IF ws.freeMptr = 0 THEN {} ELSE Closure({ws.freeMptr}, next, SizeMptrsArea(ws))
<1>0. 0 \notin Ids
  <2>1. ws.mptrEnd \in Nat
    BY SoundState, AreaNumbers
  <2> QED BY <2>1 DEF Ids
<1>1. PICK W : Sound(ws, W)
  BY SoundState
<1>2. Areas(ws) /\ Tiles(ws, W) /\ MptrsOK(ws) /\ ChangedBags(ws) = ListedBags(ws)
  BY <1>1, ChangedIsListed DEF Sound
<1>3. Ids = IdsOf(ws) /\ free = FreeIds(ws)
  BY DEF Ids, IdsOf, FreeIds
<1>4. Chain(ws.freeMptr, ws.mem, free)
  BY <1>2, <1>3 DEF MptrsOK
<1>5. listed = free
  <2>1. CASE ws.freeMptr = 0
    <3> HIDE DEF free
    <3>1. \A T \in SUBSET free : ws.freeMptr \in T \cup {0} /\ (\A b \in T : ws.mem[b] \in T \cup {0}) => T = free
      BY <1>4 DEF Chain
    <3>2. PICK T : T = {}
      OBVIOUS
    <3>3. T \in SUBSET free /\ ws.freeMptr \in T \cup {0} /\ (\A b \in T : ws.mem[b] \in T \cup {0})
      BY <2>1, <3>2
    <3>4. T = free
      BY ONLY <3>1, <3>3
    <3> QED BY <2>1, <3>2, <3>4
  <2>2. CASE ws.freeMptr # 0
    <3>1. free \subseteq IdsOf(ws)
      BY <1>3
    <3> HIDE DEF free
    <3>2. IsFiniteSet(free) /\ Cardinality(free) <= SizeMptrsArea(ws) /\ SizeMptrsArea(ws) \in Nat
      BY <1>2, <3>1, FewIds
    <3>3. free \subseteq DOMAIN next
      BY <1>3, <3>1
    <3>4. \A b \in free : next[b] = {ws.mem[b]} \ {0}
      <4>1. ASSUME NEW b \in free PROVE next[b] = {ws.mem[b]} \ {0}
        <5>1. ws.mem[b] \in free \cup {0}
          BY <1>4 DEF Chain
        <5>2. b \in Ids /\ free \subseteq Ids
          BY <1>3, <3>1
        <5> QED BY <1>0, <5>1, <5>2
      <4> QED BY <4>1
    <3> HIDE DEF next
    <3>5. Closure({ws.freeMptr}, next, SizeMptrsArea(ws)) = free
      BY <1>4, <2>2, <3>2, <3>3, <3>4, ChainClosure
    <3> QED BY <2>2, <3>5
  <2> QED BY <2>1, <2>2
<1>6. \A b, c \in free : ws.mem[b] = ws.mem[c] => b = c
  BY <1>4 DEF Chain
<1>7. \A b \in Ids \ free : b \in Live \/ ws.mem[b] = ws.newMarker \/ phase = "check"
  BY <1>2, <1>3 DEF MptrsOK, Live, HeapInv, CountsOK, Settled
<1>8. ws.nrHalfDead = Cardinality({b \in Ids : ws.mem[b] \in Markers})
  BY <1>3 DEF HeapInv, CountsOK, DeadIds
<1>9. ChangedBags(ws) \subseteq Live /\ {b \in Live : LINK_BAG(ws, b) # b} = ChangedBags(ws)
  BY <1>2 DEF ListedBags, Live
<1> QED BY <1>5, <1>6, <1>7, <1>8, <1>9 DEF MptrsAccounted

(* The bodies.                                                             *)
LEMMA WalkIsTiles ==
    ASSUME HeapInv, NEW W, Sound(ws, W)
    PROVE  Walk = W
<1> DEFINE next == [a \in ws.oldBags .. ws.allocBags - 1 |-> {a + Stride(ws.mem[a])}]
           S == {ws.oldBags}
           N == ws.allocBags - ws.oldBags + 1
<1>1. Areas(ws) /\ Tiles(ws, W)
  BY SoundState
<1>2. /\ ws.oldBags \in Nat /\ ws.allocBags \in Nat /\ ws.oldBags <= ws.allocBags
  BY <1>1, AreaNumbers
<1>3. N \in Nat
  BY <1>2
<1>4. /\ W \subseteq ws.oldBags .. ws.allocBags /\ S \subseteq W
      /\ \A a \in W : a < ws.allocBags => a + Stride(ws.mem[a]) \in W
  BY <1>1 DEF Tiles
<1>41. \A a \in W : a \in Nat /\ ws.oldBags <= a /\ a <= ws.allocBags
  BY <1>2, <1>4
<1>5. DOMAIN next = ws.oldBags .. ws.allocBags - 1
      /\ \A a \in ws.oldBags .. ws.allocBags - 1 : next[a] = {a + Stride(ws.mem[a])}
  OBVIOUS
<1>6. IsFiniteSet(W) /\ Cardinality(W) <= N
  <2>0. ws.oldBags \in Int /\ ws.allocBags \in Int
    BY <1>2
  <2>1. /\ IsFiniteSet(ws.oldBags .. ws.allocBags)
        /\ Cardinality(ws.oldBags .. ws.allocBags) =
             IF ws.oldBags > ws.allocBags THEN 0 ELSE ws.allocBags - ws.oldBags + 1
    BY <2>0, FS_Interval
  <2>2. Cardinality(ws.oldBags .. ws.allocBags) = N
    BY <1>2, <2>1
  <2> QED BY <1>4, <2>1, <2>2, FS_Subset
<1> HIDE DEF next, N, S
<1>7. \A x \in W \cap DOMAIN next : next[x] \subseteq W
  <2>1. \A x \in W \cap DOMAIN next : x < ws.allocBags
    BY <1>2, <1>5
  <2> QED BY <1>4, <1>5, <2>1
<1> DEFINE R == Closure(S, next, N)
<1>8. S \subseteq R /\ R \subseteq W
  BY <1>3, <1>4, <1>7, ClosureLeast
<1>9. \A x \in R \cap DOMAIN next : next[x] \subseteq R
  BY <1>3, <1>4, <1>6, <1>7, ClosureClosed
<1> HIDE DEF R
<1>10. W \subseteq R
  <2>1. ASSUME W \ R # {} PROVE FALSE
    <3>1. W \ R \in SUBSET Nat
      BY <1>41
    <3>2. PICK m \in W \ R : \A n \in W \ R : m <= n
      BY <2>1, <3>1, NatLeast
    <3>3. m \in Int /\ m # ws.oldBags /\ ws.oldBags < m /\ m <= ws.allocBags
      <4>1. m \in Nat /\ ws.oldBags <= m /\ m <= ws.allocBags
        BY <1>41, <3>2
      <4>2. m # ws.oldBags
        BY <1>8, <3>2 DEF S
      <4> QED BY <1>2, <4>1, <4>2
    <3> DEFINE P == {n \in W : n < m}
    <3>4. ws.oldBags \in P
      BY <1>4, <3>3 DEF S
    <3>42. \A n \in P : n \in W /\ n < m
      OBVIOUS
    <3>43. \A n \in W : n < m => n \in P
      OBVIOUS
    <3> HIDE DEF P
    <3>44. \A n \in P : n \in Int /\ n <= m
      <4>1. ASSUME NEW n \in P PROVE n \in Int /\ n <= m
        <5>1. n \in Nat /\ n < m
          BY <1>41, <3>42
        <5> QED BY <3>3, <5>1
      <4> QED BY <4>1
    <3>41. P \in SUBSET Int
      BY <3>44
    <3>5. PICK c \in P : \A n \in P : n <= c
      BY <3>3, <3>4, <3>41, <3>44, IntGreatest
    <3>6. c \in W /\ c < m /\ c \in Nat /\ c < ws.allocBags /\ c \in ws.oldBags .. ws.allocBags - 1
      <4>1. c \in W /\ c < m
        BY <3>42, <3>5
      <4>2. c \in Nat /\ ws.oldBags <= c
        BY <1>41, <4>1
      <4> QED BY <1>2, <3>3, <4>1, <4>2
    <3>7. c \in R
      <4>1. ASSUME c \notin R PROVE FALSE
        <5>1. m <= c
          BY <3>2, <3>6, <4>1
        <5> QED BY <3>3, <3>6, <5>1
      <4> QED BY <4>1
    <3> DEFINE d == c + Stride(ws.mem[c])
    <3>8. d \in R
      BY <1>5, <1>9, <3>6, <3>7
    <3>9. d \in W /\ d <= m /\ c < d
      <4>1. ws.mem[c] \in Nat /\ d <= m
        BY <1>1, <3>2, <3>6 DEF Tiles
      <4>2. Stride(ws.mem[c]) \in Nat /\ Stride(ws.mem[c]) >= 1
        BY <4>1, StrideFacts
      <4> QED BY <1>4, <3>6, <4>1, <4>2
    <3>10. d \in Nat
      BY <1>41, <3>9
    <3> HIDE DEF d
    <3>11. d = m
      <4>1. ASSUME d # m PROVE FALSE
        <5>1. d < m
          BY <3>3, <3>9, <3>10, <4>1
        <5>2. d <= c
          BY <3>43, <3>5, <3>9, <5>1
        <5> QED BY <3>6, <3>9, <3>10, <5>2
      <4> QED BY <4>1
    <3> QED BY <3>2, <3>8, <3>11
  <2> QED BY <2>1
<1>11. Walk = R
  BY DEF Walk, R, S, next, N
<1> QED BY <1>8, <1>10, <1>11

(* The walk over the bodies.                                               *)
LEMMA InvBodiesTile ==
    ASSUME HeapInv
    PROVE  BodiesTile
<1>1. PICK W : Sound(ws, W)
  BY SoundState
<1>2. Areas(ws) /\ Tiles(ws, W) /\ ZeroOK(ws) /\ Walk = W
  BY <1>1, WalkIsTiles DEF Sound
<1>3. /\ ws.oldBags \in Nat /\ ws.allocBags \in Nat /\ ws.endBags \in Nat /\ Limit \in Nat
      /\ ws.endBags <= Limit + 1
  BY <1>2, AreaNumbers DEF Areas
<1>4. {ws.youngBags, ws.allocBags} \subseteq Walk /\ \A a \in Walk : a <= ws.allocBags
  BY <1>2, <1>3 DEF Tiles
<1>5. {ws.mem[b] - 2 : b \in LiveBags(ws)} = {a \in W : a < ws.allocBags /\ TypeIn(ws.mem[a]) # T_DUMMY}
  <2>1. ASSUME NEW b \in LiveBags(ws)
        PROVE  ws.mem[b] - 2 \in W /\ ws.mem[b] - 2 < ws.allocBags /\ TypeIn(ws.mem[ws.mem[b] - 2]) # T_DUMMY
    <3>1. ws.mem[b] - 2 \in W /\ ws.mem[b] \in Int /\ ws.mem[b] <= ws.allocBags /\ TNUM_BAG(ws, b) # T_DUMMY
      BY <1>2, Placed DEF Tiles, LiveBags
    <3> QED BY <1>3, <3>1 DEF TNUM_BAG
  <2>2. ASSUME NEW a \in W, a < ws.allocBags, TypeIn(ws.mem[a]) # T_DUMMY
        PROVE  \E b \in LiveBags(ws) : a = ws.mem[b] - 2
    <3>1. PICK b \in LiveBags(ws) : ws.mem[b] = a + 2
      BY <1>2, <2>2 DEF Tiles
    <3>2. a \in Int
      BY <1>2, <1>3 DEF Tiles
    <3> QED BY <3>1, <3>2
  <2> QED BY <2>1, <2>2
<1>6. \A b, c \in LiveBags(ws) : ws.mem[b] = ws.mem[c] => b = c
  BY <1>2 DEF Tiles
<1>7. \A a \in ws.allocBags .. ws.endBags - 1 : ws.mem[a] = 0
  BY <1>2, <1>3 DEF ZeroOK
<1> QED BY <1>2, <1>4, <1>5, <1>6, <1>7 DEF BodiesTile, Live, HeaderWords

(* The objects.                                                            *)
LEMMA InvObjectsIntact ==
    ASSUME HeapInv
    PROVE  ObjectsIntact
<1>1. PICK W : Sound(ws, W)
  BY SoundState
<1>2. /\ Areas(ws) /\ Tiles(ws, W) /\ WordsOK(ws)
      /\ Objects(ws, object, number) /\ HeldAt(ws, root, number, rootObject)
  BY <1>1, SoundState DEF Sound
<1>3. Reachable \subseteq LiveBags(ws)
  <2> DEFINE next == [b \in Live |-> StrongSubBags(ws, b) \ {0}]
             N == SizeMptrsArea(ws)
  <2>1. N \in Nat
    <3>1. {} \subseteq IdsOf(ws)
      OBVIOUS
    <3> QED BY <1>2, <3>1, FewIds
  <2>2. Held \subseteq LiveBags(ws)
    BY <1>2 DEF Held, HeldAt
  <2>3. ASSUME NEW b \in LiveBags(ws), NEW x \in StrongSubBags(ws, b) \ {0} PROVE x \in LiveBags(ws)
    <3>1. TNUM_BAG(ws, b) = T_LIST /\ x \in WordsOf(ws, b, 0)
      <4>1. TNUM_BAG(ws, b) \in {T_LIST, T_WPOBJ}
        BY <1>2, Placed
      <4> QED BY <2>3, <4>1 DEF StrongSubBags
    <3>2. PICK k : k = 0
      OBVIOUS
    <3>3. \E i \in k .. SIZE_BAG(ws, b) - 1 : x = Word(ws, b, i)
      BY <1>2, <3>1, <3>2, WordsOfBag
    <3> QED BY <1>2, <2>3, <3>1, <3>2, <3>3 DEF WordsOK, WordsAt
  <2>4. \A b \in LiveBags(ws) \cap DOMAIN next : next[b] \subseteq LiveBags(ws)
    BY <2>3 DEF Live
  <2> HIDE DEF next, N
  <2>5. Closure(Held, next, N) \subseteq LiveBags(ws)
    BY <2>1, <2>2, <2>4, ClosureLeast
  <2> QED BY <2>5 DEF Reachable, next, N
<1>4. \A r \in Roots : NumberOf(root[r]) = rootObject[r]
  BY <1>2 DEF HeldAt, NumIn, NumberOf
<1>5. ASSUME NEW b \in Reachable
      PROVE  /\ b \in Live /\ number[b] # 0
             /\ TNUM_BAG(ws, b) = object[number[b]].type
             /\ IF TNUM_BAG(ws, b) = T_WPOBJ THEN SameWPObj(b, object[number[b]])
                ELSE SameList(b, object[number[b]])
  <2>1. b \in LiveBags(ws) /\ ObjectAt(ws, object, number, b)
    BY <1>2, <1>3 DEF Objects
  <2>2. b \in Live /\ number[b] # 0 /\ TNUM_BAG(ws, b) = object[number[b]].type
    BY <2>1 DEF Live, ObjectAt
  <2> DEFINE o == object[number[b]]
  <2>3. HoldsAt(ws, number, b, o.slots)
    BY <2>1 DEF ObjectAt
  <2>4. ws.mem[b] \in Int /\ TNUM_BAG(ws, b) \in {T_LIST, T_WPOBJ}
    BY <1>2, <2>1, Placed
  <2>5. Len(o.slots) \in Nat
    BY <1>2, <2>1, ObjectSlots DEF ObjectAt, Objects
  <2> HIDE DEF o
  <2>6. ASSUME TNUM_BAG(ws, b) = T_WPOBJ PROVE SameWPObj(b, o)
    <3>1. \A i \in 1 .. Len(o.slots) : EntryAt(ws, number, b, i, o.slots[i])
      BY <2>3, <2>6 DEF HoldsAt, WPObjAt
    <3> QED BY <1>3, <3>1 DEF SameWPObj, EntryAt, ElmAt, Live
  <2>7. ASSUME TNUM_BAG(ws, b) # T_WPOBJ PROVE SameList(b, o)
    <3>1. SIZE_BAG(ws, b) = Len(o.slots) /\ \A i \in 1 .. Len(o.slots) : NumIn(number, Word(ws, b, i - 1)) = o.slots[i]
      BY <2>3, <2>4, <2>7 DEF HoldsAt, ListAt
    <3>2. \A i \in 1 .. Len(o.slots) : ws.mem[b] + i - 1 = ws.mem[b] + (i - 1)
      BY <2>4, <2>5
    <3> QED BY <3>1, <3>2 DEF SameList, Word, NumIn, NumberOf, PTR_BAG
  <2> QED BY <2>2, <2>6, <2>7 DEF o
<1> QED BY <1>4, <1>5 DEF ObjectsIntact

(* HeapInv holds at every step of the program and of CollectBags: the      *)
(* workspace is sound between any two steps, the objects are in it as the  *)
(* program stored them, and a call that NewBag, ResizeBag or               *)
(* FuncSetElmWPObj interrupted for a collection finds its bag as it left   *)
(* it.                                                                     *)
THEOREM HeapInvariant == Spec => []HeapInv
BY HeapInit, HeapStep, PTL DEF Spec

(* The areas of the workspace keep the order that                          *)
(* SanityCheckGasmanPointers asserts, whatever the program allocates,      *)
(* resizes or exchanges and wherever CollectBags has stopped; its          *)
(* variables hold identifiers of the masterpointers area.                  *)
THEOREM HeapTypeOK == Spec => []TypeOK
BY HeapInvariant, InvTypeOK, PTL

(* A walk over the bags area, as the sweeper of CollectBags makes it,      *)
(* passes the body of every live bag once and nothing else but the dummies *)
(* ResizeBag left, and meets the border between old and young bags and the *)
(* end of the last body; the free area is zero, as NewBag and ResizeBag    *)
(* rely on.                                                                *)
THEOREM HeapBodiesTile == Spec => []BodiesTile
BY HeapInvariant, InvBodiesTile, PTL

(* No masterpointer is lost or given out twice: the list NewBag takes from *)
(* holds exactly the free ones, without a cycle, the others are those of   *)
(* live bags or kept for dead weak pointers, as many as CollectBags        *)
(* counts; and the list that CHANGED_BAG threads through the link words    *)
(* holds live bags only.                                                   *)
THEOREM HeapMptrsAccounted == Spec => []MptrsAccounted
BY HeapInvariant, InvMptrsAccounted, PTL

(* The generational invariant: after any mixture of assignments with       *)
(* CHANGED_BAG, ResizeBag, SwapMasterPoint and collections, an old bag     *)
(* that is not on the list of changed bags refers to no young bag but one  *)
(* that is on the list, so that a partial collection that starts at the    *)
(* roots and the changed bags misses nothing.                              *)
THEOREM HeapRememberedSet == Spec => []RememberedSet
BY HeapInvariant, InvRememberedSet, PTL

(* The storage manager is invisible to the program: every bag it can reach *)
(* has the type and the content last stored in it, its identifier was      *)
(* given to no other bag, and a weak pointer is either the object stored   *)
(* or unbound, and unbound only when that object can no longer be reached. *)
THEOREM HeapObjectsIntact == Spec => []ObjectsIntact
BY HeapInvariant, InvObjectsIntact, PTL
=============================================================================
