----------------------------- MODULE HeapProofs -----------------------------
(***************************************************************************)
(* Proofs about the heap, for any number of blocks, any owners and any     *)
(* sizes, when no thread runs inside the call of another: that the         *)
(* source's own check of it succeeds, that free blocks are merged, that    *)
(* every owner keeps its memory and its bytes, that nothing is lost, that  *)
(* a call fails only when no free block is large enough, and that the      *)
(* fragmentation shown is 0 just when the free memory is in one piece.     *)
(*                                                                         *)
(* The blocks of a good heap are a set S, of which the set F is free.  The *)
(* chain is linked both ways in ascending order, the free list both ways   *)
(* in some order: a number that grows along it is all that is known of it. *)
(* Each step of a call is shown to lead from a good heap to a good heap    *)
(* with other sets; what it writes lies in headers of S and in links of F, *)
(* so outside of the memory of used blocks.                                *)
(***************************************************************************)
EXTENDS Heap, SequencesExt, SequenceTheorems, FiniteSetTheorems, WellFoundedInduction, TLAPS

------------------------------------------------------------------------------
(* Sequences without repetitions, recursion up to a number, and division.  *)

(***************************************************************************)
(* Fetching the head of a mailbox without repetitions takes just the head  *)
(* from its elements.                                                      *)
(***************************************************************************)
LEMMA TailOfInjective ==
  ASSUME NEW S, NEW s \in Seq(S), s # <<>>, IsInjective(s)
  PROVE  /\ Head(s) \in ToSet(s) /\ IsInjective(Tail(s))
         /\ ToSet(Tail(s)) = ToSet(s) \ {Head(s)}
<1>1. /\ DOMAIN s = 1 .. Len(s) /\ Len(s) \in Nat /\ Len(s) >= 1 /\ Head(s) = s[1]
      /\ Tail(s) \in Seq(S) /\ Len(Tail(s)) = Len(s) - 1
      /\ \A i \in 1 .. Len(Tail(s)) : Tail(s)[i] = s[i + 1]
  BY HeadTailProperties, LenProperties
<1>2. DOMAIN Tail(s) = 1 .. Len(s) - 1
  BY <1>1, LenProperties
<1>3. IsInjective(Tail(s))
  BY <1>1, <1>2 DEF IsInjective
<1>4. Head(s) \in ToSet(s)
  BY <1>1 DEF ToSet
<1>5. ToSet(Tail(s)) \subseteq ToSet(s) \ {Head(s)}
  BY <1>1, <1>2 DEF ToSet, IsInjective
<1>6. ASSUME NEW x \in ToSet(s) \ {Head(s)} PROVE x \in ToSet(Tail(s))
  <2>1. PICK i \in 1 .. Len(s) : x = s[i]
    BY <1>1 DEF ToSet
  <2>2. i # 1 /\ i - 1 \in 1 .. Len(s) - 1
    BY <1>1, <1>6, <2>1
  <2>3. x = Tail(s)[i - 1]
    BY <1>1, <2>1, <2>2
  <2> QED
    BY <1>2, <2>2, <2>3 DEF ToSet
<1> QED
  BY <1>3, <1>4, <1>5, <1>6

(***************************************************************************)
(* A sequence without repetitions is no longer than the set it draws from. *)
(***************************************************************************)
LEMMA InjectiveLength ==
  ASSUME NEW S, IsFiniteSet(S), NEW s, NEW R, s \in Seq(R), IsInjective(s),
         ToSet(s) \subseteq S
  PROVE  Len(s) <= Cardinality(S)
<1>1. Len(s) \in Nat /\ DOMAIN s = 1 .. Len(s) /\ s \in [1 .. Len(s) -> R]
  BY LenProperties
<1>2. s \in [1 .. Len(s) -> S]
  BY <1>1 DEF ToSet
<1>3. s \in Injection(1 .. Len(s), S)
  BY <1>2 DEF Injection
<1>4. Cardinality(1 .. Len(s)) <= Cardinality(S)
  BY <1>3, FS_Injection
<1>5. Cardinality(1 .. Len(s)) = Len(s)
  BY <1>1, FS_Interval
<1> QED
  BY <1>4, <1>5

(***************************************************************************)
(* What a search for the smallest finds.                                   *)
(***************************************************************************)
LEMMA LeastExists ==
  ASSUME NEW S, S \subseteq Nat, S # {}
  PROVE  \E x \in S : \A y \in S : x <= y
<1> DEFINE R == OpToRel(<, Nat)
<1>1. IsWellFoundedOn(R, Nat)
  BY NatLessThanWellFounded
<1>2. PICK x \in S : \A y \in S : ~(<<y, x>> \in R)
  <2> HIDE DEF R
  <2> QED
    BY <1>1, WFMin
<1>3. \A y \in S : x <= y
  <2> SUFFICES ASSUME NEW y \in S, y < x PROVE FALSE
    OBVIOUS
  <2>1. <<y, x>> \in R
    BY DEF OpToRel
  <2> QED
    BY <1>2, <2>1
<1> QED
  BY <1>3

(***************************************************************************)
(* What holds at 0 and is passed on, up to n, holds up to n.               *)
(***************************************************************************)
LEMMA Upward ==
  ASSUME NEW n \in Nat, NEW P, 0 \in P, \A k \in 0..(n - 1) : k \in P => k + 1 \in P
  PROVE  0..n \subseteq P
<1> SUFFICES ASSUME (0..n) \ P # {} PROVE FALSE
  OBVIOUS
<1> DEFINE S == (0..n) \ P
<1>1. PICK x \in S : \A y \in S : x <= y
  <2>1. S \subseteq Nat /\ S # {}
    OBVIOUS
  <2> HIDE DEF S
  <2> QED
    BY <2>1, LeastExists
<1>2. x \in 1..n /\ x - 1 \in 0..(n - 1) /\ x - 1 \in 0..n /\ ~(x <= x - 1) /\ x - 1 + 1 = x
  BY <1>1
<1>3. x - 1 \in P
  BY <1>1, <1>2
<1> QED
  BY <1>1, <1>2, <1>3

(***************************************************************************)
(* A function may be given by its value at 0 and a rule for the next.      *)
(***************************************************************************)
ByRule(f, n, S, x, rule) ==
  f \in [0..n -> S] /\ f[0] = x /\ \A k \in 1..n : f[k] = rule[k][f[k - 1]]
HasFunction(n, S, x, rule) == \E f : ByRule(f, n, S, x, rule)

(***************************************************************************)
(* There is a function given so.                                           *)
(***************************************************************************)
LEMMA Recursion ==
  ASSUME NEW n \in Nat, NEW S, NEW x \in S, NEW rule \in [1..n -> [S -> S]]
  PROVE  HasFunction(n, S, x, rule)
<1> DEFINE Upto(f, m) == f \in [0..m -> S] /\ f[0] = x /\ \A k \in 1..m : f[k] = rule[k][f[k - 1]]
           P == {m \in 0..n : \E f : Upto(f, m)}
<1>1. 0 \in P
  <2> DEFINE g == [k \in 0..0 |-> x]
  <2>1. g \in [0..0 -> S] /\ g[0] = x /\ 1..0 = {}
    OBVIOUS
  <2>2. Upto(g, 0)
    BY <2>1
  <2>3. \E f : Upto(f, 0)
    BY <2>2
  <2> QED
    BY <2>3
<1>2. ASSUME NEW m \in 0..(n - 1), m \in P PROVE m + 1 \in P
  <2>1. PICK f : Upto(f, m)
    BY <1>2
  <2> DEFINE g == [k \in 0..(m + 1) |-> IF k <= m THEN f[k] ELSE rule[m + 1][f[m]]]
  <2>2. f[m] \in S /\ rule[m + 1][f[m]] \in S
    BY <2>1
  <2>3. g \in [0..(m + 1) -> S] /\ g[0] = x
    BY <2>1, <2>2
  <2>4. ASSUME NEW k \in 1..(m + 1) PROVE g[k] = rule[k][g[k - 1]]
    <3>1. k - 1 \in 0..m /\ g[k - 1] = f[k - 1]
      OBVIOUS
    <3>2. CASE k <= m
      BY <2>1, <3>1, <3>2
    <3>3. CASE k = m + 1
      <4>1. k - 1 = m /\ ~(k <= m) /\ g[k] = rule[m + 1][f[m]]
        BY <3>3
      <4> QED
        BY <3>1, <3>3, <4>1
    <3> QED
      BY <3>2, <3>3
  <2>5. Upto(g, m + 1)
    BY <2>3, <2>4
  <2>6. \E h : Upto(h, m + 1)
    BY <2>5
  <2> QED
    BY <2>6
<1>3. 0..n \subseteq P
  <2> HIDE DEF P
  <2> QED
    BY <1>1, <1>2, Upward
<1>4. \E f : Upto(f, n)
  BY <1>3
<1> QED
  BY <1>4 DEF HasFunction, ByRule

(***************************************************************************)
(* Quotient and remainder of naturals, in the form products are used in.   *)
(***************************************************************************)
LEMMA Division ==
  ASSUME NEW a \in Nat, NEW b \in Nat \ {0}
  PROVE  a \div b \in Nat /\ a % b \in 0..(b - 1) /\ a = (a \div b) * b + (a % b)
<1>1. a % b \in 0..(b - 1)
  OBVIOUS
<1>2. a \div b \in Int
  OBVIOUS
<1>3. a = b * (a \div b) + (a % b)
  OBVIOUS
<1>4. a \div b >= 0
  <2> DEFINE p == a \div b
  <2> SUFFICES ASSUME p < 0 PROVE FALSE
    BY <1>2
  <2> HIDE DEF p
  <2>1. p * b + b <= 0
    <3>1. PICK d \in Nat : p = -1 - d
      <4>1. -1 - p \in Nat /\ p = -1 - (-1 - p)
        BY <1>2 DEF p
      <4> QED
        BY <4>1
    <3>2. p * b = -b - d * b /\ d * b >= 0
      BY <3>1
    <3> QED
      BY <3>2
  <2> QED
    BY <1>1, <1>3, <2>1 DEF p
<1> QED
  BY <1>1, <1>2, <1>3, <1>4

(***************************************************************************)
(* A larger factor makes the product larger by the other factor or more.   *)
(***************************************************************************)
LEMMA Times ==
  ASSUME NEW p \in Int, NEW q \in Int, NEW b \in Nat \ {0}, p < q
  PROVE  p * b + b <= q * b
<1>1. PICK d \in Nat : q = p + 1 + d
  <2>1. q - p - 1 \in Nat /\ q = p + 1 + (q - p - 1)
    OBVIOUS
  <2> QED
    BY <2>1
<1>2. q * b = p * b + b + d * b
  BY <1>1
<1>3. d * b >= 0
  OBVIOUS
<1> QED
  BY <1>2, <1>3

------------------------------------------------------------------------------

Heaps == [next : [Blocks -> Blocks], prev : [Blocks -> Blocks],
          free : [Blocks -> BOOLEAN], nf : [Blocks -> Blocks], pf : [Blocks -> Blocks]]

(* The blocks in S are linked both ways, in ascending order, from 0 to the *)
(* last.                                                                   *)
Chained(next, prev, S) ==
  /\ S \subseteq Blocks /\ 0 \in S /\ BLOCK_LAST \in S
  /\ \A b \in S \ {BLOCK_LAST} :
       /\ next[b] \in S /\ b < next[b] /\ prev[next[b]] = b
       /\ \A s \in S : s <= b \/ next[b] <= s
  /\ next[BLOCK_LAST] = 0
  /\ \A b \in S \ {0} : prev[b] \in S /\ prev[b] < b /\ next[prev[b]] = b

(* Those of F are linked both ways in a ring through 0, on which pos       *)
(* grows.                                                                  *)
Ring(nf, pf, F, pos) ==
  \A b \in F \union {0} :
    /\ nf[b] \in F \union {0} /\ pf[b] \in F \union {0}
    /\ pf[nf[b]] = b /\ nf[pf[b]] = b
    /\ nf[b] # 0 => pos[b] < pos[nf[b]]
Listed(nf, pf, F) == \E pos \in [Blocks -> Nat] : Ring(nf, pf, F, pos)

(* h has the blocks S, of which those of F are free.                       *)
Good(h, S, F) ==
  /\ h \in Heaps
  /\ Chained(h.next, h.prev, S)
  /\ F \subseteq S \ {0, BLOCK_LAST}
  /\ \A b \in S : h.free[b] <=> b \in F
  /\ \A b \in F : h.next[b] \notin F
  /\ Listed(h.nf, h.pf, F)

(* From h to g only the free list links of blocks of L and the headers of  *)
(* blocks of S are written.                                                *)
Writes(h, g, L, S) ==
  /\ \A b \in Blocks \ L : g.nf[b] = h.nf[b] /\ g.pf[b] = h.pf[b]
  /\ \A b \in Blocks \ S : g.next[b] = h.next[b] /\ g.prev[b] = h.prev[b]

(* Outside of L the links are those of before.                             *)
Kept(nf, pf, nf1, pf1, L) == \A b \in Blocks \ L : nf1[b] = nf[b] /\ pf1[b] = pf[b]

(* What the code writes to the links when it takes a block out of the free *)
(* list, puts one in front, puts d in the place of c, and splits a block.  *)
Unlinked(nf, pf, c, nf1, pf1) ==
  nf1 = [nf EXCEPT ![pf[c]] = nf[c]] /\ pf1 = [pf EXCEPT ![nf1[c]] = pf[c]]
Pushed(nf, pf, c, nf1, pf1) ==
  nf1 = [nf EXCEPT ![c] = nf[0], ![0] = c] /\ pf1 = [pf EXCEPT ![nf[0]] = c, ![c] = 0]
Replaced(nf, pf, c, d, nf1, pf1, nf2, pf2) ==
  /\ nf1 = [nf EXCEPT ![pf[c]] = d] /\ pf1 = [pf EXCEPT ![d] = pf[c]]
  /\ pf2 = [pf1 EXCEPT ![nf1[c]] = d] /\ nf2 = [nf1 EXCEPT ![d] = nf1[c]]
Inserted(next, prev, c, d, next1, prev1) ==
  next1 = [next EXCEPT ![d] = next[c], ![c] = d] /\ prev1 = [prev EXCEPT ![d] = c, ![next[c]] = d]

(* The chain through S with d put in after c.                              *)
Between(next, S, c, d, next1) ==
  (\A b \in S \ {c} : next1[b] = next[b]) /\ next1[c] = d /\ next1[d] = next[c]

(***************************************************************************)
(* The blocks are the numbers from 0 to the last.                          *)
(***************************************************************************)
LEMMA BlocksAreNumbers ==
  /\ Blocks \subseteq Nat /\ 0 \in Blocks /\ BLOCK_LAST \in Blocks /\ BLOCK_LAST \in Nat
  /\ BLOCK_LAST > 2 /\ \A b \in Blocks : b <= BLOCK_LAST
  /\ \A b \in Nat : b <= BLOCK_LAST => b \in Blocks
<1>1. NumBlocks \in Nat /\ NumBlocks > 3
  BY HeapAssumption DEF HeapAssumption
<1>2. BLOCK_LAST \in Nat /\ BLOCK_LAST > 2 /\ Blocks = 0 .. BLOCK_LAST
  BY <1>1 DEF BLOCK_LAST, Blocks
<1> QED
  BY <1>2

(***************************************************************************)
(* A block is taken out of the free list.                                  *)
(***************************************************************************)
LEMMA RingRemove ==
  ASSUME NEW nf \in [Blocks -> Blocks], NEW pf \in [Blocks -> Blocks], NEW F, F \subseteq Blocks \ {0},
         NEW pos \in [Blocks -> Nat], Ring(nf, pf, F, pos), NEW c \in F,
         NEW nf1, NEW pf1, Unlinked(nf, pf, c, nf1, pf1)
  PROVE  /\ Ring(nf1, pf1, F \ {c}, pos)
         /\ Kept(nf, pf, nf1, pf1, F \union {0})
<1> USE DEF Unlinked, Kept
<1>1. c # 0 /\ pf[c] \in F \union {0} /\ nf[c] \in F \union {0} /\ c \in Blocks
  BY DEF Ring
<1>2. nf[c] # c
  <2> SUFFICES ASSUME nf[c] = c PROVE FALSE
    OBVIOUS
  <2>1. pos[c] < pos[c]
    BY <1>1 DEF Ring
  <2> QED
    BY <2>1, <1>1
<1>3. pf[c] # c
  BY <1>1, <1>2 DEF Ring
<1>4. nf1[c] = nf[c]
  BY <1>3
<1>5. pf1 = [pf EXCEPT ![nf[c]] = pf[c]]
  BY <1>4
<1>6. ASSUME NEW b \in (F \ {c}) \union {0}
      PROVE /\ nf1[b] \in (F \ {c}) \union {0} /\ pf1[b] \in (F \ {c}) \union {0}
            /\ pf1[nf1[b]] = b /\ nf1[pf1[b]] = b
            /\ nf1[b] # 0 => pos[b] < pos[nf1[b]]
  <2>1. b \in F \union {0} /\ b # c /\ b \in Blocks
    BY <1>1, BlocksAreNumbers
  <2>2. nf[b] \in F \union {0} /\ pf[b] \in F \union {0} /\ pf[nf[b]] = b /\ nf[pf[b]] = b
        /\ (nf[b] # 0 => pos[b] < pos[nf[b]])
    BY <2>1 DEF Ring
  <2>3. nf[pf[c]] = c /\ pf[nf[c]] = c /\ (nf[c] # 0 => pos[c] < pos[nf[c]])
    BY <1>1 DEF Ring
  <2>4. nf1[b] = IF b = pf[c] THEN nf[c] ELSE nf[b]
    BY <2>1
  <2>5. pf1[b] = IF b = nf[c] THEN pf[c] ELSE pf[b]
    BY <2>1, <1>5
  <2>6. CASE b = pf[c]
    <3>1. nf1[b] = nf[c] /\ nf[b] = c
      BY <2>6, <2>4, <2>3
    <3>2. pf1[nf1[b]] = b
      BY <3>1, <1>5, <1>1, <2>6
    <3>3. nf1[b] # 0 => pos[b] < pos[nf1[b]]
      <4>1. pos[b] \in Nat /\ pos[c] \in Nat /\ pos[nf[c]] \in Nat
        BY <1>1, <2>1
      <4> QED
        BY <3>1, <2>2, <2>3, <1>1, <4>1
    <3>4. nf1[pf1[b]] = b
      <4>1. CASE b = nf[c]
        BY <4>1, <2>5, <2>6, <2>4
      <4>2. CASE b # nf[c]
        <5>1. pf1[b] = pf[b] /\ pf[b] # pf[c]
          BY <4>2, <2>5, <2>2, <2>3, <2>1
        <5> QED
          BY <5>1, <2>2, <1>1
      <4> QED
        BY <4>1, <4>2
    <3>5. nf1[b] # c /\ pf1[b] # c
      BY <3>1, <1>2, <1>3, <2>5, <2>2, <2>3
    <3> QED
      BY <3>1, <3>2, <3>3, <3>4, <3>5, <2>2, <2>5, <1>1
  <2>7. CASE b # pf[c]
    <3>1. nf1[b] = nf[b] /\ nf[b] # c
      BY <2>7, <2>4, <2>2, <2>3
    <3>2. pf1[nf1[b]] = b
      <4>1. nf[b] # nf[c]
        BY <2>1, <2>2, <2>3
      <4> QED
        BY <3>1, <4>1, <1>5, <2>2
    <3>4. nf1[pf1[b]] = b
      <4>1. CASE b = nf[c]
        BY <4>1, <2>5, <1>1
      <4>2. CASE b # nf[c]
        <5>1. pf1[b] = pf[b] /\ pf[b] # pf[c]
          BY <4>2, <2>5, <2>2, <2>3, <2>1
        <5> QED
          BY <5>1, <2>2, <1>1
      <4> QED
        BY <4>1, <4>2
    <3>5. pf1[b] # c
      BY <1>3, <2>5, <2>2, <2>3
    <3> QED
      BY <3>1, <3>2, <3>4, <3>5, <2>2, <2>5, <1>1
  <2> QED
    BY <2>6, <2>7
<1>7. Ring(nf1, pf1, F \ {c}, pos)
  BY <1>6 DEF Ring
<1> QED
  BY <1>1, <1>5, <1>7

(***************************************************************************)
(* A block is put in front of the free list.                               *)
(***************************************************************************)
LEMMA RingPush ==
  ASSUME NEW nf \in [Blocks -> Blocks], NEW pf \in [Blocks -> Blocks], NEW F, F \subseteq Blocks \ {0},
         NEW pos \in [Blocks -> Nat], Ring(nf, pf, F, pos), NEW c \in Blocks \ {0}, c \notin F,
         NEW nf1, NEW pf1, Pushed(nf, pf, c, nf1, pf1)
  PROVE  /\ Listed(nf1, pf1, F \union {c})
         /\ Kept(nf, pf, nf1, pf1, F \union {0, c})
<1> USE DEF Pushed, Kept
<1> DEFINE pos1 == [b \in Blocks |-> IF b = 0 THEN 0 ELSE IF b = c THEN 1 ELSE pos[b] + 2]
<1>1. 0 \in Blocks /\ nf[0] \in F \union {0} /\ nf[0] # c /\ nf[0] \in Blocks /\ pf[nf[0]] = 0
  BY BlocksAreNumbers DEF Ring
<1>2. pos1 \in [Blocks -> Nat]
  OBVIOUS
<1>3. ASSUME NEW b \in F \union {c} \union {0}
      PROVE /\ nf1[b] \in F \union {c} \union {0} /\ pf1[b] \in F \union {c} \union {0}
            /\ pf1[nf1[b]] = b /\ nf1[pf1[b]] = b
            /\ nf1[b] # 0 => pos1[b] < pos1[nf1[b]]
  <2>1. b \in Blocks
    BY <1>1
  <2>2. CASE b = c
    <3>1. nf1[b] = nf[0] /\ pf1[b] = 0 /\ nf1[0] = c
      BY <2>2, <1>1
    <3>2. pf1[nf[0]] = c
      BY <1>1
    <3>3. nf[0] # 0 => pos1[c] < pos1[nf[0]]
      <4>1. pos[nf[0]] \in Nat
        BY <1>1
      <4>2. nf[0] # 0 => pos1[nf[0]] = pos[nf[0]] + 2
        BY <1>1
      <4>3. pos1[c] = 1
        OBVIOUS
      <4> HIDE DEF pos1
      <4> QED
        BY <4>1, <4>2, <4>3
    <3> HIDE DEF pos1
    <3> QED
      BY <2>2, <3>1, <3>2, <3>3, <1>1
  <2>3. CASE b = 0
    <3>1. nf1[b] = c /\ pf1[c] = 0
      BY <2>3, <1>1
    <3>2. pf1[0] = IF nf[0] = 0 THEN c ELSE pf[0]
      BY <1>1
    <3>3. pf[0] \in F \union {0} /\ nf[pf[0]] = 0 /\ pf[nf[0]] = 0
      BY DEF Ring
    <3>4. nf1[pf1[0]] = 0
      <4>1. CASE nf[0] = 0
        BY <4>1, <3>2, <1>1
      <4>2. CASE nf[0] # 0
        <5>1. pf[0] # 0 /\ pf[0] # c /\ pf[0] \in Blocks
          BY <4>2, <3>3, <1>1
        <5> QED
          BY <4>2, <5>1, <3>2, <3>3
      <4> QED
        BY <4>1, <4>2
    <3>5. pos1[0] < pos1[c]
      BY <1>1
    <3> HIDE DEF pos1
    <3> QED
      BY <2>3, <3>1, <3>2, <3>3, <3>4, <3>5
  <2>4. CASE b # 0 /\ b # c
    <3>1. b \in F
      BY <2>4
    <3>2. nf[b] \in F \union {0} /\ pf[b] \in F \union {0} /\ pf[nf[b]] = b /\ nf[pf[b]] = b
          /\ (nf[b] # 0 => pos[b] < pos[nf[b]])
      BY <3>1 DEF Ring
    <3>3. nf1[b] = nf[b]
      BY <2>4, <2>1
    <3>4. nf[b] # nf[0] /\ nf[b] # c /\ pf[b] # c /\ nf[b] \in Blocks /\ pf[b] \in Blocks
      BY <3>2, <1>1, <2>4, <2>1
    <3>5. pf1[nf[b]] = b
      BY <3>4, <3>2
    <3>6. pf1[b] = IF b = nf[0] THEN c ELSE pf[b]
      BY <2>4, <2>1
    <3>7. nf1[pf1[b]] = b
      <4>1. CASE b = nf[0]
        BY <4>1, <3>6, <1>1
      <4>2. CASE b # nf[0]
        <5>1. pf[b] # 0
          BY <4>2, <3>2
        <5> QED
          BY <4>2, <5>1, <3>6, <3>2, <3>4
      <4> QED
        BY <4>1, <4>2
    <3>8. nf[b] # 0 => pos1[b] < pos1[nf[b]]
      <4>1. pos1[b] = pos[b] + 2 /\ pos[b] \in Nat
        BY <2>4, <2>1
      <4>2. nf[b] # 0 => pos1[nf[b]] = pos[nf[b]] + 2 /\ pos[nf[b]] \in Nat
        BY <3>4
      <4> HIDE DEF pos1
      <4> QED
        BY <4>1, <4>2, <3>2
    <3> HIDE DEF pos1
    <3> QED
      BY <3>2, <3>3, <3>5, <3>6, <3>7, <3>8
  <2> QED
    BY <2>2, <2>3, <2>4
<1>4. Ring(nf1, pf1, F \union {c}, pos1)
  <2> HIDE DEF pos1
  <2> QED
    BY <1>3 DEF Ring
<1>5. Listed(nf1, pf1, F \union {c})
  <2> HIDE DEF pos1
  <2> QED
    BY <1>2, <1>4 DEF Listed
<1>6. \A b \in Blocks \ (F \union {0, c}) : nf1[b] = nf[b] /\ pf1[b] = pf[b]
  BY <1>1
<1> QED
  BY <1>5, <1>6

(* d takes the place of c.                                                 *)
LEMMA RingReplace ==
  ASSUME NEW nf \in [Blocks -> Blocks], NEW pf \in [Blocks -> Blocks], NEW F, F \subseteq Blocks \ {0},
         NEW pos \in [Blocks -> Nat], Ring(nf, pf, F, pos), NEW c \in F,
         NEW d \in Blocks \ {0}, d \notin F,
         NEW nf1, NEW pf1, NEW nf2, NEW pf2, Replaced(nf, pf, c, d, nf1, pf1, nf2, pf2)
  PROVE  /\ Listed(nf2, pf2, (F \ {c}) \union {d})
         /\ Kept(nf, pf, nf2, pf2, F \union {0, d})
<1> USE DEF Replaced, Kept
<1> DEFINE pos1 == [pos EXCEPT ![d] = pos[c]]
<1>1. c # 0 /\ pf[c] \in F \union {0} /\ nf[c] \in F \union {0} /\ c \in Blocks /\ c # d
      /\ nf[pf[c]] = c /\ pf[nf[c]] = c /\ (nf[c] # 0 => pos[c] < pos[nf[c]])
  BY DEF Ring
<1>2. nf[c] # c
  <2> SUFFICES ASSUME nf[c] = c PROVE FALSE
    OBVIOUS
  <2>1. pos[c] < pos[c]
    BY <1>1
  <2> QED
    BY <2>1, <1>1
<1>3. pf[c] # c /\ pf[c] # d /\ nf[c] # d
  BY <1>1, <1>2
<1>4. nf1[c] = nf[c]
  BY <1>3
<1>5. pf2 = [pf1 EXCEPT ![nf[c]] = d] /\ nf2 = [nf1 EXCEPT ![d] = nf[c]]
  BY <1>4
<1>6. /\ \A b \in Blocks : nf2[b] = IF b = d THEN nf[c] ELSE IF b = pf[c] THEN d ELSE nf[b]
      /\ \A b \in Blocks : pf2[b] = IF b = nf[c] THEN d ELSE IF b = d THEN pf[c] ELSE pf[b]
  BY <1>5
<1>7. pos1 \in [Blocks -> Nat]
  BY <1>1
<1>8. ASSUME NEW b \in (F \ {c}) \union {d} \union {0}
      PROVE /\ nf2[b] \in (F \ {c}) \union {d} \union {0} /\ pf2[b] \in (F \ {c}) \union {d} \union {0}
            /\ pf2[nf2[b]] = b /\ nf2[pf2[b]] = b
            /\ nf2[b] # 0 => pos1[b] < pos1[nf2[b]]
  <2>1. b \in Blocks
    BY BlocksAreNumbers
  <2>2. CASE b = d
    <3>1. nf2[b] = nf[c] /\ pf2[b] = pf[c]
      BY <2>2, <1>6, <1>3, <2>1
    <3>2. pf2[nf[c]] = d /\ nf2[pf[c]] = d
      BY <1>6, <1>1, <1>3, BlocksAreNumbers
    <3>3. nf[c] # 0 => pos1[d] < pos1[nf[c]]
      BY <1>1, <1>3
    <3> HIDE DEF pos1
    <3> QED
      BY <2>2, <3>1, <3>2, <3>3, <1>1, <1>2, <1>3
  <2>3. CASE b # d
    <3>1. b \in F \union {0} /\ b # c
      BY <2>3, <1>1
    <3>2. nf[b] \in F \union {0} /\ pf[b] \in F \union {0} /\ pf[nf[b]] = b /\ nf[pf[b]] = b
          /\ (nf[b] # 0 => pos[b] < pos[nf[b]])
      BY <3>1 DEF Ring
    <3>3. nf[b] \in Blocks /\ pf[b] \in Blocks /\ nf[b] # d /\ pf[b] # d
      BY <3>2, <2>1
    <3>4. nf2[b] = IF b = pf[c] THEN d ELSE nf[b]
      BY <2>3, <1>6, <2>1
    <3>5. pf2[b] = IF b = nf[c] THEN d ELSE pf[b]
      BY <2>3, <1>6, <2>1
    <3>6. /\ nf2[b] \in (F \ {c}) \union {d} \union {0} /\ pf2[nf2[b]] = b
          /\ nf2[b] # 0 => pos1[b] < pos1[nf2[b]]
      <4>1. CASE b = pf[c]
        <5>1. nf2[b] = d /\ pf2[d] = pf[c]
          BY <4>1, <3>4, <1>6, <1>3
        <5>2. pos1[b] = pos[b] /\ pos1[d] = pos[c]
          BY <2>1, <2>3
        <5>3. nf[b] = c
          BY <4>1, <1>1
        <5> HIDE DEF pos1
        <5> QED
          BY <4>1, <5>1, <5>2, <5>3, <3>2, <1>1
      <4>2. CASE b # pf[c]
        <5>1. nf2[b] = nf[b] /\ nf[b] # c /\ nf[b] # nf[c]
          BY <4>2, <3>4, <3>2, <1>1, <3>1
        <5>2. pf2[nf[b]] = b
          BY <5>1, <1>6, <3>3, <3>2
        <5>3. pos1[b] = pos[b] /\ pos1[nf[b]] = pos[nf[b]]
          BY <2>1, <2>3, <3>3
        <5> HIDE DEF pos1
        <5> QED
          BY <5>1, <5>2, <5>3, <3>2
      <4> QED
        BY <4>1, <4>2
    <3>7. pf2[b] \in (F \ {c}) \union {d} \union {0} /\ nf2[pf2[b]] = b
      <4>1. CASE b = nf[c]
        BY <4>1, <3>5, <1>6, <1>3
      <4>2. CASE b # nf[c]
        <5>1. pf2[b] = pf[b] /\ pf[b] # c /\ pf[b] # pf[c]
          BY <4>2, <3>5, <3>2, <1>1, <3>1
        <5> QED
          BY <5>1, <1>6, <3>3, <3>2
      <4> QED
        BY <4>1, <4>2
    <3> QED
      BY <3>6, <3>7
  <2> QED
    BY <2>2, <2>3
<1>9. Ring(nf2, pf2, (F \ {c}) \union {d}, pos1)
  <2> HIDE DEF pos1
  <2> QED
    BY <1>8 DEF Ring
<1>10. Listed(nf2, pf2, (F \ {c}) \union {d})
  <2> HIDE DEF pos1
  <2> QED
    BY <1>7, <1>9 DEF Listed
<1>11. \A b \in Blocks \ (F \union {0, d}) : nf2[b] = nf[b] /\ pf2[b] = pf[b]
  BY <1>1, <1>6
<1> QED
  BY <1>10, <1>11

----------------------------------------------------------------------------
(***************************************************************************)
(* A block is taken out of the chain: the one before it takes it in.       *)
(***************************************************************************)
LEMMA ChainMerge ==
  ASSUME NEW next \in [Blocks -> Blocks], NEW prev \in [Blocks -> Blocks], NEW S,
         Chained(next, prev, S), NEW c \in S \ {0, BLOCK_LAST},
         NEW next1, next1 = [next EXCEPT ![prev[c]] = next[c]],
         NEW prev1, prev1 = [prev EXCEPT ![next[c]] = prev[c]]
  PROVE  Chained(next1, prev1, S \ {c})
<1> DEFINE p == prev[c]
           e == next[c]
<1>1. /\ S \subseteq Blocks /\ Blocks \subseteq Nat /\ c \in Blocks
      /\ p \in S /\ p < c /\ next[p] = c /\ e \in S /\ c < e /\ prev[e] = c
      /\ \A s \in S : s <= c \/ e <= s
  BY BlocksAreNumbers DEF Chained
<1>2. p \in S \ {BLOCK_LAST}
  BY <1>1, BlocksAreNumbers
<1>3. \A s \in S : s <= p \/ c <= s
  BY <1>1, <1>2 DEF Chained
<1>4. p \in Nat /\ c \in Nat /\ e \in Nat /\ e # 0
  <2>1. p \in Nat /\ c \in Nat /\ e \in Nat
    BY <1>1
  <2> HIDE DEF p, e
  <2> QED
    BY <2>1, <1>1
<1>5. /\ \A b \in Blocks : next1[b] = IF b = p THEN e ELSE next[b]
      /\ \A b \in Blocks : prev1[b] = IF b = e THEN p ELSE prev[b]
  BY <1>1
<1> HIDE DEF p, e
<1>6. ASSUME NEW b \in (S \ {c}) \ {BLOCK_LAST}
      PROVE /\ next1[b] \in S \ {c} /\ b < next1[b] /\ prev1[next1[b]] = b
            /\ \A s \in S \ {c} : s <= b \/ next1[b] <= s
  <2>1. b \in Blocks /\ b \in Nat /\ next[b] \in S /\ b < next[b] /\ prev[next[b]] = b
        /\ \A s \in S : s <= b \/ next[b] <= s
    BY <1>1 DEF Chained
  <2>2. CASE b = p
    <3>1. next1[b] = e /\ prev1[e] = p
      BY <2>2, <2>1, <1>5, <1>1
    <3>2. \A s \in S \ {c} : s <= p \/ e <= s
      <4> SUFFICES ASSUME NEW s \in S, s # c PROVE s <= p \/ e <= s
        OBVIOUS
      <4>1. s \in Nat /\ (s <= c \/ e <= s) /\ (s <= p \/ c <= s)
        BY <1>1, <1>3
      <4> QED
        BY <4>1, <1>4
    <3> QED
      BY <2>2, <3>1, <3>2, <1>1, <1>4
  <2>3. CASE b # p
    <3>1. next[b] # c
      BY <2>3, <2>1, <1>1 DEF p
    <3>2. next[b] # e
      BY <2>1, <1>1
    <3>3. next1[b] = next[b] /\ prev1[next[b]] = prev[next[b]]
      BY <2>1, <2>3, <3>2, <1>5, <1>1
    <3> QED
      BY <3>1, <3>3, <2>1
  <2> QED
    BY <2>2, <2>3
<1>7. ASSUME NEW b \in (S \ {c}) \ {0}
      PROVE prev1[b] \in S \ {c} /\ prev1[b] < b /\ next1[prev1[b]] = b
  <2>1. b \in Blocks /\ b \in Nat /\ prev[b] \in S /\ prev[b] < b /\ next[prev[b]] = b
    BY <1>1 DEF Chained
  <2>2. CASE b = e
    BY <2>2, <2>1, <1>5, <1>1, <1>4
  <2>3. CASE b # e
    <3>1. prev1[b] = prev[b] /\ prev[b] # c /\ prev[b] # p
      BY <2>3, <2>1, <1>5, <1>1 DEF e
    <3> QED
      BY <3>1, <2>1, <1>5, <1>1
  <2> QED
    BY <2>2, <2>3
<1>8. next1[BLOCK_LAST] = 0 /\ 0 \in S \ {c} /\ BLOCK_LAST \in S \ {c} /\ S \ {c} \subseteq Blocks
  BY <1>1, <1>2, <1>5 DEF Chained
<1> QED
  BY <1>6, <1>7, <1>8 DEF Chained

(***************************************************************************)
(* A block is put into the chain within another.                           *)
(***************************************************************************)
LEMMA ChainSplit ==
  ASSUME NEW next \in [Blocks -> Blocks], NEW prev \in [Blocks -> Blocks], NEW S,
         Chained(next, prev, S), NEW c \in S \ {BLOCK_LAST},
         NEW d \in Nat, c < d, d < next[c],
         NEW next1, NEW prev1, Inserted(next, prev, c, d, next1, prev1)
  PROVE  /\ Chained(next1, prev1, S \union {d}) /\ d \in Blocks \ S
         /\ Between(next, S, c, d, next1)
<1> USE DEF Inserted, Between
<1> DEFINE e == next[c]
<1>1. /\ S \subseteq Blocks /\ Blocks \subseteq Nat /\ c \in Blocks
      /\ e \in S /\ c < e /\ prev[e] = c
      /\ \A s \in S : s <= c \/ e <= s
  BY BlocksAreNumbers DEF Chained
<1>2. c \in Nat /\ e \in Nat
  BY <1>1
<1>3. d \in Blocks \ S
  <2>1. d \in Blocks
    BY <1>1, <1>2, BlocksAreNumbers
  <2> QED
    BY <2>1, <1>1, <1>2
<1>4. /\ \A b \in Blocks : next1[b] = IF b = c THEN d ELSE IF b = d THEN e ELSE next[b]
      /\ \A b \in Blocks : prev1[b] = IF b = e THEN d ELSE IF b = d THEN c ELSE prev[b]
  BY <1>1, <1>3
<1>5. d # e /\ d # c /\ c # e
  BY <1>2
<1> HIDE DEF e
<1>6. ASSUME NEW b \in (S \union {d}) \ {BLOCK_LAST}
      PROVE /\ next1[b] \in S \union {d} /\ b < next1[b] /\ prev1[next1[b]] = b
            /\ \A s \in S \union {d} : s <= b \/ next1[b] <= s
  <2>1. CASE b = c
    <3>1. next1[b] = d /\ prev1[d] = c
      BY <2>1, <1>4, <1>5, <1>1, <1>3
    <3>2. \A s \in S \union {d} : s <= c \/ d <= s
      <4> SUFFICES ASSUME NEW s \in S \union {d} PROVE s <= c \/ d <= s
        OBVIOUS
      <4>1. s \in Nat /\ (s = d \/ s <= c \/ e <= s)
        BY <1>1, <1>3
      <4> QED
        BY <4>1, <1>2 DEF e
    <3> QED
      BY <2>1, <3>1, <3>2, <1>1
  <2>2. CASE b = d
    <3>1. next1[b] = e /\ prev1[e] = d
      BY <2>2, <1>4, <1>5, <1>1, <1>3
    <3>2. \A s \in S \union {d} : s <= d \/ e <= s
      <4> SUFFICES ASSUME NEW s \in S \union {d} PROVE s <= d \/ e <= s
        OBVIOUS
      <4>1. s \in Nat /\ (s = d \/ s <= c \/ e <= s)
        BY <1>1, <1>3
      <4> QED
        BY <4>1, <1>2
    <3> QED
      BY <2>2, <3>1, <3>2, <1>1 DEF e
  <2>3. CASE b # c /\ b # d
    <3>1. b \in S \ {BLOCK_LAST}
      BY <2>3
    <3>2. b \in Blocks /\ b \in Nat /\ next[b] \in S /\ b < next[b] /\ prev[next[b]] = b
          /\ \A s \in S : s <= b \/ next[b] <= s
      BY <3>1, <1>1 DEF Chained
    <3>3. next[b] # e /\ next[b] # d
      BY <2>3, <3>2, <1>1, <1>3
    <3>4. next1[b] = next[b] /\ prev1[next[b]] = b
      BY <2>3, <3>2, <3>3, <1>4, <1>1
    <3>5. d <= b \/ next[b] <= d
      <4>1. (c <= b \/ next[b] <= c) /\ (b <= c \/ e <= b) /\ next[b] \in Nat
        BY <3>1, <3>2, <1>1
      <4> QED
        BY <4>1, <3>2, <1>2, <2>3 DEF e
    <3> QED
      BY <3>2, <3>4, <3>5
  <2> QED
    BY <2>1, <2>2, <2>3
<1>7. ASSUME NEW b \in (S \union {d}) \ {0}
      PROVE prev1[b] \in S \union {d} /\ prev1[b] < b /\ next1[prev1[b]] = b
  <2>1. CASE b = e
    BY <2>1, <1>4, <1>1, <1>3, <1>5 DEF e
  <2>2. CASE b = d
    BY <2>2, <1>4, <1>1, <1>3, <1>5
  <2>3. CASE b # e /\ b # d
    <3>1. b \in Blocks /\ b \in Nat /\ prev[b] \in S /\ prev[b] < b /\ next[prev[b]] = b
      BY <1>1, <2>3 DEF Chained
    <3>2. prev1[b] = prev[b] /\ prev[b] # c /\ prev[b] # d
      BY <2>3, <3>1, <1>4, <1>3 DEF e
    <3> QED
      BY <3>1, <3>2, <1>4, <1>1
  <2> QED
    BY <2>1, <2>2, <2>3
<1>8. next1[BLOCK_LAST] = 0 /\ 0 \in S \union {d} /\ BLOCK_LAST \in S \union {d}
      /\ S \union {d} \subseteq Blocks
  <2>1. BLOCK_LAST # c /\ BLOCK_LAST # d /\ next[BLOCK_LAST] = 0 /\ 0 \in S /\ BLOCK_LAST \in S
    BY <1>3 DEF Chained
  <2> QED
    BY <2>1, <1>1, <1>3, <1>4
<1>9. Chained(next1, prev1, S \union {d})
  BY <1>6, <1>7, <1>8 DEF Chained
<1>10. \A b \in S \ {c} : next1[b] = next[b]
  BY <1>1, <1>3, <1>4
<1> QED
  BY <1>1, <1>3, <1>4, <1>5, <1>9, <1>10 DEF e

----------------------------------------------------------------------------
(***************************************************************************)
(* umm_disconnect_from_free_list leaves a good heap in which the block is  *)
(* used.                                                                   *)
(***************************************************************************)
LEMMA DisconnectGood ==
  ASSUME NEW h, NEW S, NEW F, Good(h, S, F), NEW c \in F
  PROVE  LET g == Disconnect(h, c) IN
         /\ Good(g, S, F \ {c}) /\ g.next = h.next /\ g.prev = h.prev
         /\ Writes(h, g, F \union {0}, S)
<1> DEFINE g == Disconnect(h, c)
<1>1. h \in Heaps /\ c \in Blocks /\ F \subseteq Blocks \ {0} /\ S \subseteq Blocks
  BY DEF Good, Chained
<1>2. /\ g \in Heaps /\ g.next = h.next /\ g.prev = h.prev
      /\ g.free = [h.free EXCEPT ![c] = FALSE]
      /\ g.nf = [h.nf EXCEPT ![h.pf[c]] = h.nf[c]]
      /\ g.pf = [h.pf EXCEPT ![g.nf[c]] = h.pf[c]]
  BY <1>1 DEF Heaps, Disconnect
<1>3. h.nf \in [Blocks -> Blocks] /\ h.pf \in [Blocks -> Blocks] /\ h.free \in [Blocks -> BOOLEAN]
  BY <1>1 DEF Heaps
<1>4. PICK pos \in [Blocks -> Nat] : Ring(h.nf, h.pf, F, pos)
  BY DEF Good, Listed
<1> HIDE DEF g
<1>5. /\ Ring(g.nf, g.pf, F \ {c}, pos)
      /\ \A b \in Blocks \ (F \union {0}) : g.nf[b] = h.nf[b] /\ g.pf[b] = h.pf[b]
  <2>1. PICK nf, pf, nf1, pf1 : nf = h.nf /\ pf = h.pf /\ nf1 = g.nf /\ pf1 = g.pf
    OBVIOUS
  <2>2. nf \in [Blocks -> Blocks] /\ pf \in [Blocks -> Blocks] /\ Ring(nf, pf, F, pos)
        /\ Unlinked(nf, pf, c, nf1, pf1)
    BY <1>2, <1>3, <1>4, <2>1 DEF Unlinked
  <2>3. Ring(nf1, pf1, F \ {c}, pos) /\ Kept(nf, pf, nf1, pf1, F \union {0})
    <3>1. F \subseteq Blocks \ {0} /\ c \in F
      BY <1>1
    <3> QED
      BY <2>2, <3>1, RingRemove
  <2> QED
    BY <2>1, <2>3 DEF Kept
<1>6. Good(g, S, F \ {c})
  BY <1>1, <1>2, <1>3, <1>5 DEF Good, Listed
<1> QED
  BY <1>2, <1>5, <1>6 DEF Writes, g

(***************************************************************************)
(* A used block without free neighbours is given to the front of the free  *)
(* list.                                                                   *)
(***************************************************************************)
LEMMA PushFreeGood ==
  ASSUME NEW h, NEW S, NEW F, Good(h, S, F), NEW c \in S \ {0, BLOCK_LAST}, c \notin F,
         h.next[c] \notin F, h.prev[c] \notin F
  PROVE  LET g == PushFree(h, c) IN
         /\ Good(g, S, F \union {c}) /\ g.next = h.next /\ g.prev = h.prev
         /\ Writes(h, g, F \union {0, c}, S)
<1> DEFINE g == PushFree(h, c)
<1>1. h \in Heaps /\ c \in Blocks \ {0} /\ F \subseteq Blocks \ {0} /\ S \subseteq Blocks /\ 0 \in Blocks
  BY BlocksAreNumbers DEF Good, Chained
<1>2. /\ g \in Heaps /\ g.next = h.next /\ g.prev = h.prev
      /\ g.free = [h.free EXCEPT ![c] = TRUE]
      /\ g.nf = [h.nf EXCEPT ![c] = h.nf[0], ![0] = c]
      /\ g.pf = [h.pf EXCEPT ![h.nf[0]] = c, ![c] = 0]
  BY <1>1 DEF Heaps, PushFree
<1>3. h.nf \in [Blocks -> Blocks] /\ h.pf \in [Blocks -> Blocks] /\ h.free \in [Blocks -> BOOLEAN]
  BY <1>1 DEF Heaps
<1>4. PICK pos \in [Blocks -> Nat] : Ring(h.nf, h.pf, F, pos)
  BY DEF Good, Listed
<1> HIDE DEF g
<1>5. /\ Listed(g.nf, g.pf, F \union {c})
      /\ \A b \in Blocks \ (F \union {0, c}) : g.nf[b] = h.nf[b] /\ g.pf[b] = h.pf[b]
  <2>1. PICK nf, pf, nf1, pf1 : nf = h.nf /\ pf = h.pf /\ nf1 = g.nf /\ pf1 = g.pf
    OBVIOUS
  <2>2. nf \in [Blocks -> Blocks] /\ pf \in [Blocks -> Blocks] /\ Ring(nf, pf, F, pos)
        /\ Pushed(nf, pf, c, nf1, pf1)
    BY <1>2, <1>3, <1>4, <2>1 DEF Pushed
  <2>3. /\ Listed(nf1, pf1, F \union {c})
        /\ Kept(nf, pf, nf1, pf1, F \union {0, c})
    BY <1>1, <2>2, RingPush
  <2> QED
    BY <2>1, <2>3 DEF Kept
<1>6. \A b \in F \union {c} : g.next[b] \notin F \union {c}
  <2> SUFFICES ASSUME NEW b \in F \union {c} PROVE h.next[b] \notin F \union {c}
    BY <1>2
  <2>1. b \in S \ {BLOCK_LAST} /\ h.prev[h.next[b]] = b /\ b < h.next[b] /\ b \in Nat
    BY <1>1, BlocksAreNumbers DEF Good, Chained
  <2>2. h.next[c] # c
    BY <1>1, BlocksAreNumbers DEF Good, Chained
  <2> QED
    BY <2>1, <2>2 DEF Good
<1>7. Good(g, S, F \union {c})
  BY <1>1, <1>2, <1>3, <1>5, <1>6 DEF Good
<1> QED
  BY <1>2, <1>5, <1>7 DEF Writes, g

(* What the code writes when the block before c takes it in.               *)
Merged(h, S, c, g) ==
  /\ g \in Heaps /\ g.nf = h.nf /\ g.pf = h.pf
  /\ g.next = [h.next EXCEPT ![h.prev[c]] = h.next[c]]
  /\ g.prev = [h.prev EXCEPT ![h.next[c]] = h.prev[c]]
  /\ \A b \in S \ {c} : g.free[b] = h.free[b]
Bridged(h, S, c, g) ==
  /\ \A b \in S \ {h.prev[c]} : g.next[b] = h.next[b]
  /\ g.next[h.prev[c]] = h.next[c]

(* A used block that is not the last takes in the next one, used or just   *)
(* taken out of the free list.                                             *)
LEMMA MergeGood ==
  ASSUME NEW h, NEW S, NEW F, Good(h, S, F), NEW c \in S \ {0, BLOCK_LAST}, c \notin F,
         h.next[c] \notin F \/ h.prev[c] \notin F,
         NEW g, Merged(h, S, c, g)
  PROVE  /\ Good(g, S \ {c}, F) /\ Writes(h, g, {}, S)
         /\ Bridged(h, S, c, g)
<1> USE DEF Merged, Bridged
<1>1. h \in Heaps /\ F \subseteq S \ {0, BLOCK_LAST} /\ S \subseteq Blocks /\ Chained(h.next, h.prev, S)
  BY DEF Good, Chained
<1>2. h.next \in [Blocks -> Blocks] /\ h.prev \in [Blocks -> Blocks]
  BY <1>1 DEF Heaps
<1>3. Chained(g.next, g.prev, S \ {c})
  BY <1>1, <1>2, ChainMerge
<1>4. h.prev[c] \in S /\ h.next[c] \in S
  BY <1>1 DEF Chained
<1>5. /\ \A b \in Blocks : g.next[b] = IF b = h.prev[c] THEN h.next[c] ELSE h.next[b]
      /\ \A b \in Blocks : g.prev[b] = IF b = h.next[c] THEN h.prev[c] ELSE h.prev[b]
  BY <1>1, <1>2, <1>4
<1>6. \A b \in F : g.next[b] \notin F
  BY <1>1, <1>5 DEF Good
<1>7. Good(g, S \ {c}, F)
  BY <1>1, <1>3, <1>6 DEF Good
<1> QED
  BY <1>1, <1>4, <1>5, <1>7 DEF Writes

(***************************************************************************)
(* A used block is split in two used ones.                                 *)
(***************************************************************************)
LEMMA SplitGood ==
  ASSUME NEW h, NEW S, NEW F, Good(h, S, F), NEW c \in S \ {0, BLOCK_LAST}, c \notin F,
         NEW n \in Nat \ {0}, c + n < h.next[c]
  PROVE  LET g == Split(h, c, n, FALSE) IN
         /\ Good(g, S \union {c + n}, F) /\ c + n \in Blocks \ S
         /\ Writes(h, g, {}, S \union {c + n})
         /\ Between(h.next, S, c, c + n, g.next)
<1> DEFINE g == Split(h, c, n, FALSE)
           d == c + n
<1>1. h \in Heaps /\ F \subseteq S \ {0, BLOCK_LAST} /\ S \subseteq Blocks /\ Chained(h.next, h.prev, S)
      /\ c \in Nat /\ c \in Blocks
  BY BlocksAreNumbers DEF Good, Chained
<1>2. h.next \in [Blocks -> Blocks] /\ h.prev \in [Blocks -> Blocks] /\ h.free \in [Blocks -> BOOLEAN]
  BY <1>1 DEF Heaps
<1>3. d \in Nat /\ c < d /\ d < h.next[c] /\ d \in Blocks
  <2>1. d \in Nat /\ c < d
    BY <1>1
  <2>2. h.next[c] \in Nat /\ h.next[c] <= BLOCK_LAST
    BY <1>1, <1>2, BlocksAreNumbers
  <2> QED
    BY <2>1, <2>2, BlocksAreNumbers
<1>4. /\ g \in Heaps /\ g.nf = h.nf /\ g.pf = h.pf
      /\ g.next = [h.next EXCEPT ![d] = h.next[c], ![c] = d]
      /\ g.free = [h.free EXCEPT ![d] = FALSE, ![c] = FALSE]
      /\ g.prev = [h.prev EXCEPT ![d] = c, ![h.next[c]] = d]
  BY <1>1, <1>3 DEF Heaps, Split
<1> HIDE DEF g, d
<1>5. /\ Chained(g.next, g.prev, S \union {d}) /\ d \in Blocks \ S
      /\ \A b \in S \ {c} : g.next[b] = h.next[b]
      /\ g.next[c] = d /\ g.next[d] = h.next[c]
  <2>1. PICK next, prev, next1, prev1 :
            next = h.next /\ prev = h.prev /\ next1 = g.next /\ prev1 = g.prev
    OBVIOUS
  <2>2. next \in [Blocks -> Blocks] /\ prev \in [Blocks -> Blocks] /\ Chained(next, prev, S)
        /\ Inserted(next, prev, c, d, next1, prev1)
        /\ d \in Nat /\ c < d /\ d < next[c]
    BY <1>1, <1>2, <1>3, <1>4, <2>1 DEF Inserted
  <2>3. /\ Chained(next1, prev1, S \union {d}) /\ d \in Blocks \ S
        /\ Between(next, S, c, d, next1)
    BY <2>2, ChainSplit
  <2> QED
    BY <2>1, <2>3 DEF Between
<1>6. \A b \in S \union {d} : g.free[b] <=> b \in F
  <2>1. d \notin F /\ c \notin F
    BY <1>1, <1>5
  <2>2. ~g.free[c] /\ ~g.free[d] /\ \A b \in Blocks \ {c, d} : g.free[b] = h.free[b]
    <3>1. PICK f : f = h.free
      OBVIOUS
    <3>2. f \in [Blocks -> BOOLEAN] /\ g.free = [f EXCEPT ![d] = FALSE, ![c] = FALSE] /\ d \in Blocks
      BY <1>2, <1>4, <1>5, <3>1
    <3>3. g.free[c] = FALSE /\ g.free[d] = FALSE
      BY <1>1, <3>2
    <3>4. \A b \in Blocks \ {c, d} : g.free[b] = f[b]
      BY <3>2
    <3> QED
      BY <3>1, <3>3, <3>4
  <2>3. \A b \in S : h.free[b] <=> b \in F
    BY DEF Good
  <2>4. ASSUME NEW b \in (S \union {d}) \ {c, d} PROVE g.free[b] <=> b \in F
    BY <2>2, <2>3, <1>1
  <2> QED
    BY <2>1, <2>2, <2>4
<1>7. \A b \in F : g.next[b] \notin F
  BY <1>1, <1>5 DEF Good
<1>8. Good(g, S \union {d}, F)
  BY <1>1, <1>4, <1>5, <1>6, <1>7 DEF Good
<1>9. h.next[c] \in S /\ h.next[c] # d
  BY <1>1, <1>5 DEF Chained
<1>10. Writes(h, g, {}, S \union {d})
  BY <1>1, <1>2, <1>4, <1>9 DEF Writes
<1>11. Between(h.next, S, c, d, g.next)
  BY <1>5, Zenon DEF Between
<1> QED
  BY <1>5, <1>8, <1>10, <1>11 DEF g, d

----------------------------------------------------------------------------
Used(S, F) == (S \ F) \ {0, BLOCK_LAST}

(* The memory of the blocks from b up to e has nothing written to it but   *)
(* the header of b.                                                        *)
Cells(h, g, b, e) ==
  \A x \in Blocks : b <= x /\ x < e =>
    /\ g.nf[x] = h.nf[x] /\ g.pf[x] = h.pf[x]
    /\ x # b => g.next[x] = h.next[x] /\ g.prev[x] = h.prev[x]
Untouched(h, g, b) == g.next[b] = h.next[b] /\ Cells(h, g, b, h.next[b])
AllUntouched(h, g, B) == \A b \in B : Untouched(h, g, b)

(***************************************************************************)
(* What a good heap is, in parts.                                          *)
(***************************************************************************)
LEMMA GoodFacts ==
  ASSUME NEW h, NEW S, NEW F, Good(h, S, F)
  PROVE  /\ h \in Heaps /\ S \subseteq Blocks /\ Blocks \subseteq Nat
         /\ F \subseteq S \ {0, BLOCK_LAST} /\ Chained(h.next, h.prev, S)
         /\ h.next \in [Blocks -> Blocks] /\ h.prev \in [Blocks -> Blocks]
         /\ h.free \in [Blocks -> BOOLEAN]
         /\ \A b \in S : h.free[b] <=> b \in F
         /\ \A b \in F : h.next[b] \notin F
BY BlocksAreNumbers DEF Good, Chained, Heaps

(***************************************************************************)
(* The blocks before and after a block of the chain.                       *)
(***************************************************************************)
LEMMA Neighbours ==
  ASSUME NEW h, NEW S, NEW F, Good(h, S, F), NEW c \in S \ {0, BLOCK_LAST}
  PROVE  /\ c \in Nat /\ c \in Blocks
         /\ h.next[c] \in S \ {0} /\ c < h.next[c] /\ h.prev[h.next[c]] = c
         /\ h.prev[c] \in S \ {BLOCK_LAST} /\ h.prev[c] < c /\ h.next[h.prev[c]] = c
         /\ h.next[c] \in Nat /\ h.prev[c] \in Nat
<1>1. /\ S \subseteq Blocks /\ Blocks \subseteq Nat /\ Chained(h.next, h.prev, S)
  BY GoodFacts
<1>2. /\ h.next[c] \in S /\ c < h.next[c] /\ h.prev[h.next[c]] = c
      /\ h.prev[c] \in S /\ h.prev[c] < c /\ h.next[h.prev[c]] = c
      /\ h.next[BLOCK_LAST] = 0
  BY DEF Good, Chained
<1>3. c \in Nat /\ c \in Blocks /\ h.next[c] \in Nat /\ h.prev[c] \in Nat
  BY <1>1, <1>2
<1> QED
  BY <1>2, <1>3

(***************************************************************************)
(* A step that writes only to headers of blocks and to links of free ones  *)
(* leaves the memory of a block alone that stays used and keeps its size.  *)
(***************************************************************************)
LEMMA UntouchedBy ==
  ASSUME NEW h, NEW S, NEW F, Good(h, S, F), NEW g, NEW T, NEW G, Good(g, T, G),
         Writes(h, g, F \union G \union {0}, S \union T),
         NEW b \in Used(S, F), b \in T, b \notin G, g.next[b] = h.next[b]
  PROVE  Untouched(h, g, b)
<1>1. Cells(h, g, b, h.next[b])
  <2> SUFFICES ASSUME NEW x \in Blocks, b <= x, x < h.next[b]
               PROVE  /\ g.nf[x] = h.nf[x] /\ g.pf[x] = h.pf[x]
                      /\ x # b => g.next[x] = h.next[x] /\ g.prev[x] = h.prev[x]
    BY DEF Cells
  <2>1. b \in S \ {0, BLOCK_LAST} /\ b \notin F
    BY DEF Used
  <2>2. x \in Nat /\ b \in Nat /\ h.next[b] \in Nat /\ S \subseteq Nat /\ T \subseteq Nat
    BY <2>1, GoodFacts, Neighbours
  <2>3. /\ \A s \in S : s <= b \/ h.next[b] <= s
        /\ \A s \in T : s <= b \/ h.next[b] <= s
    BY <2>1 DEF Good, Chained
  <2>4. x # b => x \notin S \union T
    BY <2>2, <2>3
  <2>5. F \union G \union {0} \subseteq S \union T
    BY DEF Good, Chained
  <2>6. x \notin F \union G \union {0}
    BY <2>1, <2>4, <2>5
  <2> QED
    BY <2>4, <2>6 DEF Writes
<1> QED
  BY <1>1 DEF Untouched

(***************************************************************************)
(* Two steps that leave chunks alone.                                      *)
(***************************************************************************)
LEMMA UntouchedTwice ==
  ASSUME NEW h, NEW g, NEW k, NEW B, AllUntouched(h, g, B), AllUntouched(g, k, B)
  PROVE  AllUntouched(h, k, B)
BY DEF AllUntouched, Untouched, Cells

(***************************************************************************)
(* umm_assimilate_up: the used block has the free one after it, if there   *)
(* is one, and keeps its place.                                            *)
(***************************************************************************)
LEMMA AssimilateUpGood ==
  ASSUME NEW h, NEW S, NEW F, Good(h, S, F), NEW c \in Used(S, F)
  PROVE  LET g == AssimilateUp(h, c) IN
         \E T, G :
           /\ Good(g, T, G) /\ Used(T, G) = Used(S, F)
           /\ g.next[c] = IF h.next[c] \in F THEN h.next[h.next[c]] ELSE h.next[c]
           /\ g.next[c] \notin G
           /\ g.prev[c] = h.prev[c] /\ (h.prev[c] \in G <=> h.prev[c] \in F)
           /\ AllUntouched(h, g, Used(S, F) \ {c})
<1> DEFINE g == AssimilateUp(h, c)
           N == h.next[c]
<1>1. c \in S \ {0, BLOCK_LAST} /\ c \notin F
  BY DEF Used
<1>2. /\ N \in S \ {0} /\ c < N /\ h.prev[N] = c /\ N \in Nat /\ c \in Nat /\ c \in Blocks /\ N \in Blocks
      /\ h.prev[c] < c /\ h.prev[c] \in Nat
      /\ h \in Heaps /\ h.next \in [Blocks -> Blocks] /\ h.prev \in [Blocks -> Blocks]
      /\ h.free \in [Blocks -> BOOLEAN] /\ (h.free[N] <=> N \in F)
  BY <1>1, Neighbours, GoodFacts
<1>3. CASE N \notin F
  <2>1. g = h
    BY <1>2, <1>3 DEF AssimilateUp
  <2>2. AllUntouched(h, h, Used(S, F) \ {c})
    BY DEF AllUntouched, Untouched, Cells
  <2> QED
    BY <1>2, <1>3, <2>1, <2>2
<1>4. CASE N \in F
  <2> DEFINE d == Disconnect(h, N)
             E == F \ {N}
             T == S \ {N}
  <2>1. Good(d, S, E) /\ d.next = h.next /\ d.prev = h.prev /\ Writes(h, d, F \union {0}, S)
    BY <1>4, DisconnectGood
  <2>2. g = [d EXCEPT !.prev[d.next[d.next[c]]] = c, !.next[c] = d.next[d.next[c]]]
    BY <1>2, <1>4, <2>1 DEF AssimilateUp
  <2> HIDE DEF d, g
  <2>3. d \in Heaps
    BY <2>1 DEF Good
  <2>4. N \in S \ {0, BLOCK_LAST}
    BY <1>4, GoodFacts
  <2>5. d.next[c] = N /\ d.prev[N] = c /\ d.next[N] = h.next[N] /\ d.next[N] \in Blocks
    BY <1>2, <2>1
  <2>6. /\ g \in Heaps /\ g.next = [d.next EXCEPT ![d.prev[N]] = d.next[N]]
        /\ g.prev = [d.prev EXCEPT ![d.next[N]] = d.prev[N]]
        /\ g.nf = d.nf /\ g.pf = d.pf /\ g.free = d.free
    BY <1>2, <2>2, <2>3, <2>5 DEF Heaps
  <2>7. N \notin E /\ (d.next[N] \notin E \/ d.prev[N] \notin E)
    BY <1>1, <2>5
  <2>8. /\ Good(g, T, E) /\ Writes(d, g, {}, S)
        /\ \A b \in S \ {c} : g.next[b] = d.next[b]
        /\ g.next[c] = d.next[N]
    <3>1. Merged(d, S, N, g)
      BY <2>6 DEF Merged
    <3>2. Good(g, S \ {N}, E) /\ Writes(d, g, {}, S) /\ Bridged(d, S, N, g)
      BY <2>1, <2>4, <2>7, <3>1, MergeGood
    <3> QED
      BY <2>5, <3>2 DEF Bridged
  <2>9. Used(T, E) = Used(S, F)
    BY <1>4 DEF Used
  <2>10. g.next[c] \notin E
    BY <1>4, <2>5, <2>8 DEF Good
  <2>11. h.prev[c] # N /\ h.next[N] # c
    <3>1. N < h.next[N] /\ h.next[N] \in Nat
      BY <2>4, Neighbours
    <3> QED
      BY <3>1, <1>2
  <2>12. g.prev[c] = h.prev[c]
    BY <1>2, <2>1, <2>5, <2>6, <2>11
  <2>13. Writes(h, g, F \union E \union {0}, S \union T)
    BY <2>1, <2>8 DEF Writes
  <2>14. AllUntouched(h, g, Used(S, F) \ {c})
    <3> SUFFICES ASSUME NEW b \in Used(S, F), b # c PROVE Untouched(h, g, b)
      BY DEF AllUntouched
    <3>1. b \in S \ {c} /\ b \in T /\ b \notin E
      BY <1>4 DEF Used
    <3>2. g.next[b] = h.next[b]
      BY <3>1, <2>1, <2>8
    <3> QED
      BY <2>8, <2>13, <3>1, <3>2, UntouchedBy
  <2> QED
    BY <1>4, <2>5, <2>8, <2>9, <2>10, <2>11, <2>12, <2>14 DEF g
<1> QED
  BY <1>3, <1>4

(* The block before takes in a used block that no free one follows, or is  *)
(* itself not in the free list.                                            *)
LEMMA AssimilateDownGood ==
  ASSUME NEW h, NEW S, NEW F, Good(h, S, F), NEW c \in Used(S, F), NEW free \in BOOLEAN,
         free <=> h.prev[c] \in F, h.next[c] \notin F \/ h.prev[c] \notin F
  PROVE  LET g == AssimilateDown(h, c, free) IN
         /\ Good(g, S \ {c}, F)
         /\ g.next[h.prev[c]] = h.next[c]
         /\ AllUntouched(h, g, Used(S, F) \ {c, h.prev[c]})
<1> DEFINE g == AssimilateDown(h, c, free)
           P == h.prev[c]
<1>1. c \in S \ {0, BLOCK_LAST} /\ c \notin F
  BY DEF Used
<1>2. /\ P \in S \ {BLOCK_LAST} /\ P \in Blocks /\ c \in Blocks /\ h.next[c] \in Blocks
      /\ h \in Heaps /\ h.next \in [Blocks -> Blocks] /\ h.prev \in [Blocks -> Blocks]
      /\ h.free \in [Blocks -> BOOLEAN] /\ (h.free[P] <=> P \in F)
  BY <1>1, Neighbours, GoodFacts
<1>3. /\ g \in Heaps /\ g.nf = h.nf /\ g.pf = h.pf
      /\ g.next = [h.next EXCEPT ![P] = h.next[c]]
      /\ g.prev = [h.prev EXCEPT ![h.next[c]] = P]
      /\ g.free = [h.free EXCEPT ![P] = free]
  BY <1>2 DEF Heaps, AssimilateDown
<1> HIDE DEF g
<1>4. g.free = h.free
  <2>1. h.free[P] = free
    BY <1>2
  <2>2. PICK f : f = h.free
    OBVIOUS
  <2>3. f \in [Blocks -> BOOLEAN] /\ f[P] = free /\ g.free = [f EXCEPT ![P] = free]
    BY <1>2, <1>3, <2>1, <2>2
  <2>4. g.free = f
    BY <2>3
  <2> QED
    BY <2>2, <2>4
<1>5. Merged(h, S, c, g)
  BY <1>3, <1>4 DEF Merged
<1>6. Good(g, S \ {c}, F) /\ Writes(h, g, {}, S) /\ Bridged(h, S, c, g)
  BY <1>1, <1>5, MergeGood
<1>7. AllUntouched(h, g, Used(S, F) \ {c, P})
  <2> SUFFICES ASSUME NEW b \in Used(S, F), b # c, b # P PROVE Untouched(h, g, b)
    BY DEF AllUntouched
  <2>1. b \in S \ {P} /\ b \in S \ {c} /\ b \notin F
    BY DEF Used
  <2>2. Writes(h, g, F \union F \union {0}, S \union (S \ {c}))
    BY <1>6 DEF Writes
  <2>3. g.next[b] = h.next[b]
    BY <1>6, <2>1 DEF Bridged
  <2> QED
    BY <1>6, <2>1, <2>2, <2>3, UntouchedBy
<1> QED
  BY <1>6, <1>7 DEF Bridged, g

(***************************************************************************)
(* umm_free_core gives just the chunk at c to the free blocks.             *)
(***************************************************************************)
LEMMA FreeCoreGood ==
  ASSUME NEW h, NEW S, NEW F, Good(h, S, F), NEW c \in Used(S, F)
  PROVE  LET g == umm_free_core(h, c) IN
         \E T, G : /\ Good(g, T, G) /\ Used(T, G) = Used(S, F) \ {c}
                   /\ AllUntouched(h, g, Used(S, F) \ {c})
<1> DEFINE u == AssimilateUp(h, c)
<1>1. PICK T, G : /\ Good(u, T, G) /\ Used(T, G) = Used(S, F)
                  /\ u.next[c] \notin G
                  /\ AllUntouched(h, u, Used(S, F) \ {c})
  BY AssimilateUpGood
<1> HIDE DEF u
<1>2. c \in Used(T, G) /\ c \in T \ {0, BLOCK_LAST} /\ c \notin G
  BY <1>1 DEF Used
<1>3. u.prev[c] \in T /\ (u.free[u.prev[c]] <=> u.prev[c] \in G)
  BY <1>1, <1>2, GoodFacts, Neighbours
<1>4. CASE u.prev[c] \in G
  <2> DEFINE g == AssimilateDown(u, c, TRUE)
  <2>1. umm_free_core(h, c) = g
    BY <1>3, <1>4 DEF umm_free_core, u
  <2>2. Good(g, T \ {c}, G) /\ AllUntouched(u, g, Used(T, G) \ {c, u.prev[c]})
    BY <1>1, <1>2, <1>4, AssimilateDownGood
  <2> HIDE DEF g
  <2>3. Used(T \ {c}, G) = Used(S, F) \ {c}
    BY <1>1 DEF Used
  <2>4. Used(T, G) \ {c, u.prev[c]} = Used(S, F) \ {c}
    BY <1>1, <1>4 DEF Used
  <2>5. AllUntouched(u, g, Used(S, F) \ {c})
    BY <2>2, <2>4
  <2>6. AllUntouched(h, g, Used(S, F) \ {c})
    BY <1>1, <2>5, UntouchedTwice
  <2> QED
    BY <2>1, <2>2, <2>3, <2>6
<1>5. CASE u.prev[c] \notin G
  <2> DEFINE g == PushFree(u, c)
  <2>1. umm_free_core(h, c) = g
    BY <1>3, <1>5 DEF umm_free_core, u
  <2>2. Good(g, T, G \union {c}) /\ g.next = u.next /\ Writes(u, g, G \union {0, c}, T)
    BY <1>1, <1>2, <1>5, PushFreeGood
  <2> HIDE DEF g
  <2>3. Used(T, G \union {c}) = Used(S, F) \ {c}
    BY <1>1 DEF Used
  <2>4. AllUntouched(u, g, Used(S, F) \ {c})
    <3> SUFFICES ASSUME NEW b \in Used(S, F), b # c PROVE Untouched(u, g, b)
      BY DEF AllUntouched
    <3>1. b \in Used(T, G) /\ b \in T /\ b \notin G \union {c}
      BY <1>1 DEF Used
    <3>2. Writes(u, g, G \union (G \union {c}) \union {0}, T \union T)
      BY <2>2 DEF Writes
    <3> QED
      BY <1>1, <2>2, <3>1, <3>2, UntouchedBy
  <2>5. AllUntouched(h, g, Used(S, F) \ {c})
    BY <1>1, <2>4, UntouchedTwice
  <2> QED
    BY <2>1, <2>2, <2>3, <2>5
<1> QED
  BY <1>4, <1>5

(***************************************************************************)
(* Taking n blocks from the front of a free chunk makes a chunk of n.      *)
(***************************************************************************)
LEMMA TakeGood ==
  ASSUME NEW h, NEW S, NEW F, Good(h, S, F), NEW c \in F,
         NEW n \in Nat \ {0}, n <= h.next[c] - c
  PROVE  LET g == Take(h, c, SizeOf(h, c), n) IN
         \E T, G : /\ Good(g, T, G) /\ Used(T, G) = Used(S, F) \union {c}
                   /\ g.next[c] = c + n
                   /\ AllUntouched(h, g, Used(S, F))
<1> DEFINE g == Take(h, c, SizeOf(h, c), n)
           d == c + n
<1>1. /\ c \in S \ {0, BLOCK_LAST} /\ c \in Nat /\ c \in Blocks
      /\ h.next[c] \in Nat /\ h.next[c] \in S /\ c < h.next[c]
      /\ F \subseteq S \ {0, BLOCK_LAST} /\ S \subseteq Blocks /\ Blocks \subseteq Nat
      /\ h \in Heaps /\ h.next \in [Blocks -> Blocks] /\ h.prev \in [Blocks -> Blocks]
      /\ h.free \in [Blocks -> BOOLEAN] /\ Chained(h.next, h.prev, S)
  <2>1. c \in S \ {0, BLOCK_LAST}
    BY GoodFacts
  <2> QED
    BY <2>1, GoodFacts, Neighbours
<1>2. CASE n = SizeOf(h, c)
  <2>1. g = Disconnect(h, c)
    BY <1>2 DEF Take
  <2>2. h.next[c] = d
    BY <1>1, <1>2 DEF SizeOf
  <2>3. Good(g, S, F \ {c}) /\ g.next = h.next /\ Writes(h, g, F \union {0}, S)
    BY <2>1, DisconnectGood
  <2> HIDE DEF g
  <2>4. Used(S, F \ {c}) = Used(S, F) \union {c}
    BY <1>1 DEF Used
  <2>5. AllUntouched(h, g, Used(S, F))
    <3> SUFFICES ASSUME NEW b \in Used(S, F) PROVE Untouched(h, g, b)
      BY DEF AllUntouched
    <3>1. b \in S /\ b \notin F \ {c}
      BY DEF Used
    <3>2. Writes(h, g, F \union (F \ {c}) \union {0}, S \union S)
      BY <2>3 DEF Writes
    <3> QED
      BY <2>3, <3>1, <3>2, UntouchedBy
  <2> QED
    BY <2>2, <2>3, <2>4, <2>5 DEF g
<1>3. CASE n # SizeOf(h, c)
  <2> DEFINE T == S \union {d}
             G == (F \ {c}) \union {d}
             s == Split(h, c, n, TRUE)
             k == [s EXCEPT !.nf[s.pf[c]] = d, !.pf[d] = s.pf[c]]
  <2>1. d \in Nat /\ c < d /\ d < h.next[c]
    BY <1>1, <1>3 DEF SizeOf
  <2>2. d \in Blocks
    <3>1. h.next[c] <= BLOCK_LAST
      BY <1>1, BlocksAreNumbers
    <3> HIDE DEF d
    <3> QED
      BY <2>1, <3>1, <1>1, BlocksAreNumbers
  <2>3. g = [k EXCEPT !.pf[k.nf[c]] = d, !.nf[d] = k.nf[c]]
    BY <1>3 DEF Take
  <2> HIDE DEF d, g
  <2>4. /\ s \in Heaps /\ s.nf = h.nf /\ s.pf = h.pf
        /\ s.next = [h.next EXCEPT ![d] = h.next[c], ![c] = d]
        /\ s.free = [h.free EXCEPT ![d] = TRUE, ![c] = FALSE]
        /\ s.prev = [h.prev EXCEPT ![d] = c, ![h.next[c]] = d]
    BY <1>1, <2>2 DEF Heaps, Split, d
  <2> HIDE DEF s
  <2>5. /\ k \in Heaps /\ k.next = s.next /\ k.prev = s.prev /\ k.free = s.free
        /\ k.nf = [h.nf EXCEPT ![h.pf[c]] = d] /\ k.pf = [h.pf EXCEPT ![d] = h.pf[c]]
    BY <1>1, <2>2, <2>4 DEF Heaps
  <2> HIDE DEF k
  <2>6. /\ g \in Heaps /\ g.next = s.next /\ g.prev = s.prev /\ g.free = s.free
        /\ g.pf = [k.pf EXCEPT ![k.nf[c]] = d] /\ g.nf = [k.nf EXCEPT ![d] = k.nf[c]]
    BY <1>1, <2>2, <2>3, <2>5 DEF Heaps
  <2>7. /\ Chained(g.next, g.prev, T) /\ d \in Blocks \ S
        /\ \A b \in S \ {c} : g.next[b] = h.next[b]
        /\ g.next[c] = d /\ g.next[d] = h.next[c]
    <3>1. PICK next, prev, next1, prev1 :
              next = h.next /\ prev = h.prev /\ next1 = g.next /\ prev1 = g.prev
      OBVIOUS
    <3>2. next \in [Blocks -> Blocks] /\ prev \in [Blocks -> Blocks] /\ Chained(next, prev, S)
          /\ Inserted(next, prev, c, d, next1, prev1)
          /\ d \in Nat /\ c < d /\ d < next[c]
      BY <1>1, <2>1, <2>4, <2>6, <3>1 DEF Inserted
    <3>3. c \in S \ {BLOCK_LAST}
      BY <1>1
    <3>4. /\ Chained(next1, prev1, S \union {d}) /\ d \in Blocks \ S
          /\ Between(next, S, c, d, next1)
      BY <3>2, <3>3, ChainSplit
    <3> QED
      BY <3>1, <3>4 DEF Between
  <2>8. /\ Listed(g.nf, g.pf, G)
        /\ \A b \in Blocks \ (F \union {0, d}) : g.nf[b] = h.nf[b] /\ g.pf[b] = h.pf[b]
    <3>1. PICK nf, pf, nf1, pf1, nf2, pf2 : nf = h.nf /\ pf = h.pf /\ nf1 = k.nf /\ pf1 = k.pf
                                            /\ nf2 = g.nf /\ pf2 = g.pf
      OBVIOUS
    <3>2. PICK pos \in [Blocks -> Nat] : Ring(h.nf, h.pf, F, pos)
      BY DEF Good, Listed
    <3>3. h.nf \in [Blocks -> Blocks] /\ h.pf \in [Blocks -> Blocks]
      BY <1>1 DEF Heaps
    <3>4. nf \in [Blocks -> Blocks] /\ pf \in [Blocks -> Blocks] /\ Ring(nf, pf, F, pos)
          /\ Replaced(nf, pf, c, d, nf1, pf1, nf2, pf2)
      BY <2>5, <2>6, <3>1, <3>2, <3>3 DEF Replaced
    <3>5. F \subseteq Blocks \ {0} /\ d \in Blocks \ {0} /\ d \notin F
      BY <1>1, <2>1, <2>7
    <3>6. Listed(nf2, pf2, (F \ {c}) \union {d}) /\ Kept(nf, pf, nf2, pf2, F \union {0, d})
      BY <3>4, <3>5, RingReplace
    <3> QED
      BY <3>1, <3>6 DEF Kept
  <2>9. \A b \in T : g.free[b] <=> b \in G
    <3>1. PICK f : f = h.free
      OBVIOUS
    <3>2. f \in [Blocks -> BOOLEAN] /\ g.free = [f EXCEPT ![d] = TRUE, ![c] = FALSE] /\ c # d
          /\ d \in Blocks
      BY <1>1, <2>1, <2>2, <2>4, <2>6, <3>1
    <3>3. g.free[c] = FALSE /\ g.free[d] = TRUE
      BY <1>1, <3>2
    <3>4. \A b \in Blocks \ {c, d} : g.free[b] = f[b]
      BY <3>2
    <3>5. \A b \in S : h.free[b] <=> b \in F
      BY GoodFacts
    <3>6. ASSUME NEW b \in S \ {c, d} PROVE g.free[b] <=> b \in G
      BY <1>1, <3>1, <3>4, <3>5
    <3>7. (g.free[c] <=> c \in G) /\ (g.free[d] <=> d \in G)
      BY <3>2, <3>3
    <3> QED
      BY <3>6, <3>7
  <2>10. \A b \in G : g.next[b] \notin G
    <3>1. \A b \in F : h.next[b] \notin F
      BY GoodFacts
    <3>2. g.next[d] \notin G
      BY <1>1, <2>1, <2>7, <3>1
    <3>3. ASSUME NEW b \in F \ {c} PROVE g.next[b] \notin G
      <4>1. g.next[b] = h.next[b] /\ h.next[b] \in S
        BY <1>1, <2>7 DEF Chained
      <4> QED
        BY <4>1, <2>7, <3>1
    <3> QED
      BY <3>2, <3>3
  <2>11. G \subseteq T \ {0, BLOCK_LAST}
    <3>1. 0 \in S /\ BLOCK_LAST \in S
      BY <1>1 DEF Chained
    <3> QED
      BY <1>1, <2>7, <3>1
  <2>12. Good(g, T, G)
    BY <2>6, <2>7, <2>8, <2>9, <2>10, <2>11 DEF Good
  <2>13. Used(T, G) = Used(S, F) \union {c}
    BY <1>1, <2>1, <2>7 DEF Used
  <2>14. Writes(h, g, F \union G \union {0}, S \union T)
    <3>1. \A b \in Blocks \ (S \union T) : g.next[b] = h.next[b] /\ g.prev[b] = h.prev[b]
      BY <1>1, <2>4, <2>6
    <3> QED
      BY <2>8, <3>1 DEF Writes
  <2>15. AllUntouched(h, g, Used(S, F))
    <3> SUFFICES ASSUME NEW b \in Used(S, F) PROVE Untouched(h, g, b)
      BY DEF AllUntouched
    <3>1. b \in S \ {c} /\ b \in T /\ b \notin G
      BY <2>7 DEF Used
    <3> QED
      BY <2>7, <2>12, <2>14, <3>1, UntouchedBy
  <2> QED
    BY <2>7, <2>12, <2>13, <2>15 DEF g, d
<1> QED
  BY <1>2, <1>3

----------------------------------------------------------------------------
(* Walks along links.                                                      *)

(* The links f lead from every block of L to another of L or to 0, and     *)
(* from 0 to every block of L; pos grows on the way.                       *)
Links(f, L, pos) ==
  /\ f \in [Blocks -> Blocks] /\ pos \in [Blocks -> Nat] /\ L \subseteq Blocks /\ 0 \in L
  /\ \A b \in L : f[b] \in L /\ (f[b] # 0 => pos[b] < pos[f[b]])
  /\ \A b \in L \ {0} : \E a \in L : f[a] = b

(* The path p follows the links from 0 on.                                 *)
Follows(f, pos, p) ==
  /\ p[1] = 0
  /\ \A i \in 1 .. Len(p) - 1 : p[i + 1] = f[p[i]] /\ p[i + 1] # 0
  /\ \A i, j \in 1 .. Len(p) : i < j => pos[p[i]] < pos[p[j]]

Longer(f, p) == IF f[p[Len(p)]] = 0 THEN p ELSE Append(p, f[p[Len(p)]])

(***************************************************************************)
(* A step of the walk goes on along the links, or ends at the last.        *)
(***************************************************************************)
LEMMA StepFollows ==
  ASSUME NEW f, NEW L, NEW pos, Links(f, L, pos),
         NEW p \in Seq(L), p # <<>>, Follows(f, pos, p)
  PROVE  LET q == Longer(f, p) IN
         /\ q \in Seq(L) /\ q # <<>> /\ Follows(f, pos, q)
         /\ f[p[Len(p)]] = 0 => q = p
         /\ f[p[Len(p)]] # 0 => Len(q) = Len(p) + 1
<1> DEFINE q == Longer(f, p)
           m == Len(p)
           e == f[p[m]]
<1>1. m \in Nat /\ m >= 1 /\ \A i \in 1 .. m : p[i] \in L
  BY LenProperties, EmptySeq
<1>2. CASE e = 0
  BY <1>2 DEF Longer
<1>3. CASE e # 0
  <2>1. q = Append(p, e)
    BY <1>3 DEF Longer
  <2>2. e \in L /\ pos[p[m]] < pos[e] /\ \A b \in L : pos[b] \in Nat
    BY <1>1, <1>3 DEF Links
  <2>3. /\ q \in Seq(L) /\ Len(q) = m + 1 /\ q[m + 1] = e
        /\ \A i \in 1 .. m : q[i] = p[i]
    BY <2>1, <2>2, AppendProperties
  <2> HIDE DEF q, m, e
  <2>4. q # <<>>
    BY <1>1, <2>3, EmptySeq
  <2>5. q[1] = 0
    BY <1>1, <2>3 DEF Follows
  <2>6. ASSUME NEW i \in 1 .. m PROVE q[i + 1] = f[q[i]] /\ q[i + 1] # 0
    <3>1. CASE i = m
      BY <1>3, <2>3, <3>1 DEF e
    <3>2. CASE i # m
      <4>1. i \in 1 .. m - 1 /\ i + 1 \in 1 .. m
        BY <1>1, <3>2
      <4> QED
        BY <2>3, <4>1 DEF Follows, m
    <3> QED
      BY <3>1, <3>2
  <2>7. ASSUME NEW i \in 1 .. m + 1, NEW j \in 1 .. m + 1, i < j PROVE pos[q[i]] < pos[q[j]]
    <3>1. i \in 1 .. m /\ q[i] = p[i] /\ p[i] \in L
      BY <1>1, <2>3, <2>7
    <3>2. CASE j = m + 1
      <4>1. pos[p[i]] < pos[p[m]] \/ i = m
        BY <1>1, <3>1 DEF Follows, m
      <4>2. pos[p[i]] \in Nat /\ pos[p[m]] \in Nat /\ pos[e] \in Nat
        BY <1>1, <2>2, <3>1
      <4> QED
        BY <2>2, <2>3, <3>1, <3>2, <4>1, <4>2
    <3>3. CASE j # m + 1
      <4>1. j \in 1 .. m /\ q[j] = p[j]
        BY <1>1, <2>3, <3>3
      <4> QED
        BY <2>7, <3>1, <4>1 DEF Follows, m
    <3> QED
      BY <3>2, <3>3
  <2>8. Follows(f, pos, q)
    <3>1. Len(q) - 1 = m /\ Len(q) = m + 1
      BY <1>1, <2>3
    <3> QED
      BY <2>5, <2>6, <2>7, <3>1 DEF Follows
  <2> QED
    BY <1>3, <2>3, <2>4, <2>8 DEF q, m, e
<1> QED
  BY <1>2, <1>3

(***************************************************************************)
(* The blocks of a path are different, so it has no more than there are.   *)
(***************************************************************************)
LEMMA PathIsShort ==
  ASSUME NEW f, NEW L, NEW pos, Links(f, L, pos), NEW p \in Seq(L), Follows(f, pos, p)
  PROVE  Len(p) <= NumBlocks
<1>1. Len(p) \in Nat /\ DOMAIN p = 1 .. Len(p) /\ \A i \in 1 .. Len(p) : p[i] \in L
  BY LenProperties
<1>2. L \subseteq Blocks /\ \A b \in L : pos[b] \in Nat
  BY DEF Links
<1>3. ASSUME NEW i \in 1 .. Len(p), NEW j \in 1 .. Len(p), p[i] = p[j] PROVE i = j
  <2>1. pos[p[i]] \in Nat /\ ~(pos[p[i]] < pos[p[i]])
    BY <1>1, <1>2
  <2>2. ~(i < j) /\ ~(j < i)
    BY <1>3, <2>1 DEF Follows
  <2> QED
    BY <1>1, <2>2
<1>4. IsInjective(p)
  BY <1>1, <1>3 DEF IsInjective
<1>5. ToSet(p) \subseteq Blocks
  BY <1>1, <1>2 DEF ToSet
<1>6. NumBlocks \in Nat /\ NumBlocks > 3
  BY HeapAssumption DEF HeapAssumption
<1>7. IsFiniteSet(Blocks) /\ Cardinality(Blocks) = NumBlocks
  BY <1>6, FS_Interval DEF Blocks
<1> QED
  BY <1>4, <1>5, <1>7, InjectiveLength

(***************************************************************************)
(* A path that cannot go on has met every block.                           *)
(***************************************************************************)
LEMMA PathIsComplete ==
  ASSUME NEW f, NEW L, NEW pos, Links(f, L, pos), NEW p \in Seq(L), p # <<>>,
         Follows(f, pos, p), f[p[Len(p)]] = 0
  PROVE  ToSet(p) = L
<1>1. Len(p) \in Nat /\ Len(p) >= 1 /\ DOMAIN p = 1 .. Len(p) /\ \A i \in 1 .. Len(p) : p[i] \in L
  BY LenProperties, EmptySeq
<1>2. ToSet(p) \subseteq L
  BY <1>1 DEF ToSet
<1> DEFINE Left == L \ ToSet(p)
           Where == {pos[b] : b \in Left}
<1>3. SUFFICES ASSUME Left # {} PROVE FALSE
  BY <1>2
<1>4. Where \subseteq Nat /\ Where # {}
  BY <1>3 DEF Links
<1>5. PICK b \in Left : \A d \in Left : pos[b] <= pos[d]
  <2>1. \E x \in Where : \A y \in Where : x <= y
    <3> HIDE DEF Where
    <3> QED
      BY <1>4, LeastExists
  <2> QED
    BY <2>1
<1>6. b # 0
  BY <1>1 DEF ToSet, Follows
<1>7. PICK a \in L : f[a] = b
  BY <1>6 DEF Links
<1>8. pos[a] < pos[b] /\ pos[a] \in Nat /\ pos[b] \in Nat
  BY <1>6, <1>7 DEF Links
<1>9. a \in ToSet(p)
  BY <1>5, <1>8
<1>10. PICK i \in 1 .. Len(p) : p[i] = a
  BY <1>1, <1>9 DEF ToSet
<1>11. i # Len(p)
  BY <1>6, <1>7, <1>10
<1>12. i \in 1 .. Len(p) - 1 /\ i + 1 \in 1 .. Len(p)
  <2>1. PICK m : m = Len(p) /\ m \in Nat /\ i \in 1 .. m /\ i # m
    BY <1>1, <1>11
  <2> QED
    BY <2>1
<1>13. p[i + 1] = b
  BY <1>7, <1>10, <1>12 DEF Follows
<1> QED
  BY <1>1, <1>12, <1>13 DEF ToSet

(***************************************************************************)
(* The walk from block 0 on follows the links and meets every block.       *)
(***************************************************************************)
Walked(f, L, p) ==
  /\ p \in Seq(L) /\ Len(p) >= 1 /\ p[1] = 0 /\ f[p[Len(p)]] = 0 /\ ToSet(p) = L
  /\ \A i \in 1 .. Len(p) - 1 : p[i + 1] = f[p[i]] /\ p[i + 1] # 0

(***************************************************************************)
(* The walk along such links meets all blocks, and the number grows on it. *)
(***************************************************************************)
LEMMA WalkIs ==
  ASSUME NEW f, NEW L, NEW pos, Links(f, L, pos)
  PROVE  Walked(f, L, Walk(f)) /\ Follows(f, pos, Walk(f))
<1> DEFINE P == {p \in Seq(L) : p # <<>> /\ Follows(f, pos, p)}
           n == NumBlocks
           rule == [k \in 1 .. n |-> [p \in P |-> Longer(f, p)]]
<1>1. n \in Nat
  BY HeapAssumption DEF HeapAssumption
<1>2. <<0>> \in P
  <2>1. <<0>> \in Seq(L) /\ Len(<<0>>) = 1 /\ <<0>>[1] = 0 /\ <<0>> # <<>>
    BY DEF Links
  <2> QED
    BY <2>1 DEF Follows
<1>3. \A p \in P : Longer(f, p) \in P
  BY StepFollows
<1> HIDE DEF P
<1>4. rule \in [1 .. n -> [P -> P]]
  BY <1>3
<1>5. PICK g \in [0 .. n -> P] :
        g[0] = <<0>> /\ \A k \in 1 .. n : g[k] = rule[k][g[k - 1]]
  <2> HIDE DEF n, rule
  <2>1. HasFunction(n, P, <<0>>, rule)
    BY <1>1, <1>2, <1>4, Recursion
  <2> QED
    BY <2>1 DEF HasFunction, ByRule
<1> DEFINE G(h) == [k \in 0 .. NumBlocks |->
                     IF k = 0 THEN <<0>>
                     ELSE LET p == h[k - 1] IN
                          IF f[p[Len(p)]] = 0 THEN p ELSE Append(p, f[p[Len(p)]])]
<1>6. \A k \in 0 .. n : g[k] = G(g)[k]
  <2> SUFFICES ASSUME NEW k \in 0 .. n PROVE g[k] = G(g)[k]
    OBVIOUS
  <2>1. CASE k = 0
    BY <1>1, <1>5, <2>1
  <2>2. CASE k # 0
    <3>1. k \in 1 .. n /\ k - 1 \in 0 .. n
      BY <1>1, <2>2
    <3>2. g[k] = rule[k][g[k - 1]] /\ g[k - 1] \in P
      BY <1>5, <3>1
    <3>3. g[k] = Longer(f, g[k - 1])
      BY <3>1, <3>2
    <3> HIDE DEF rule
    <3> QED
      BY <1>1, <2>2, <3>3 DEF Longer
  <2> QED
    BY <2>1, <2>2
<1>7. g = G(g)
  <2> HIDE DEF rule
  <2> QED
    BY <1>1, <1>5, <1>6
<1>8. Walk(f) = (CHOOSE h : h = G(h))[NumBlocks]
  BY DEF Walk
<1>9. PICK c : c = G(c) /\ Walk(f) = c[n]
  <2> HIDE DEF G, rule
  <2> QED
    BY <1>1, <1>7, <1>8
<1>10. c[0] = <<0>> /\ \A k \in 1 .. n : c[k] = Longer(f, c[k - 1])
  <2> HIDE DEF rule
  <2>1. \A k \in 0 .. n : c[k] = IF k = 0 THEN <<0>> ELSE Longer(f, c[k - 1])
    BY <1>1, <1>9 DEF Longer
  <2> QED
    BY <1>1, <2>1
<1> DEFINE Q == {k \in 0 .. n : c[k] \in P /\ (f[c[k][Len(c[k])]] = 0 \/ Len(c[k]) = k + 1)}
<1>11. 0 \in Q
  <2>1. Len(<<0>>) = 1
    OBVIOUS
  <2> QED
    BY <1>1, <1>2, <1>10, <2>1
<1>12. ASSUME NEW k \in 0 .. n - 1, k \in Q PROVE k + 1 \in Q
  <2>1. k + 1 \in 1 .. n /\ k + 1 - 1 = k /\ k + 1 \in 0 .. n
    BY <1>1
  <2>2. PICK p, q : p = c[k] /\ q = c[k + 1] /\ q = Longer(f, p)
    BY <1>10, <2>1
  <2>3. p \in Seq(L) /\ p # <<>> /\ Follows(f, pos, p)
    BY <1>12, <2>2 DEF P
  <2>4. q \in P
    BY <1>3, <1>12, <2>2
  <2>5. f[q[Len(q)]] = 0 \/ Len(q) = (k + 1) + 1
    <3>1. f[p[Len(p)]] = 0 => q = p
      BY <2>2, <2>3, StepFollows
    <3>2. f[p[Len(p)]] # 0 => Len(q) = Len(p) + 1
      BY <2>2, <2>3, StepFollows
    <3>3. f[p[Len(p)]] = 0 \/ Len(p) = k + 1
      BY <1>12, <2>2
    <3> QED
      BY <1>1, <3>1, <3>2, <3>3
  <2>6. f[c[k + 1][Len(c[k + 1])]] = 0 \/ Len(c[k + 1]) = (k + 1) + 1
    BY <2>2, <2>5
  <2> QED
    BY <2>1, <2>2, <2>4, <2>6
<1>13. n \in Q
  <2> HIDE DEF n, Q
  <2>1. 0 .. n \subseteq Q
    BY <1>1, <1>11, <1>12, Upward
  <2> QED
    BY <1>1, <2>1
<1>14. PICK w : w = Walk(f)
  OBVIOUS
<1>15. w \in P /\ (f[w[Len(w)]] = 0 \/ Len(w) = n + 1)
  BY <1>9, <1>13, <1>14
<1>16. w \in Seq(L) /\ w # <<>> /\ Follows(f, pos, w) /\ Len(w) \in Nat /\ Len(w) >= 1
  BY <1>15, LenProperties, EmptySeq DEF P
<1>17. Len(w) <= n
  BY <1>16, PathIsShort
<1>18. f[w[Len(w)]] = 0
  BY <1>1, <1>15, <1>16, <1>17
<1>19. ToSet(w) = L
  BY <1>16, <1>18, PathIsComplete
<1>20. Walked(f, L, w)
  BY <1>16, <1>18, <1>19 DEF Walked, Follows
<1> QED
  BY <1>14, <1>16, <1>20

(***************************************************************************)
(* The chain and the free list of a good heap are such walks.              *)
(***************************************************************************)
LEMMA ChainWalked ==
  ASSUME NEW h, NEW S, NEW F, Good(h, S, F)
  PROVE  Walked(h.next, S, Chain(h)) /\ Follows(h.next, [b \in Blocks |-> b], Chain(h))
<1> DEFINE pos == [b \in Blocks |-> b]
<1>1. PICK next, prev : next = h.next /\ prev = h.prev
  OBVIOUS
<1>2. Chained(next, prev, S) /\ next \in [Blocks -> Blocks] /\ Blocks \subseteq Nat /\ S \subseteq Blocks
  BY <1>1, GoodFacts
<1>3. pos \in [Blocks -> Nat] /\ \A b \in S : pos[b] = b
  BY <1>2
<1> HIDE DEF pos
<1>4. \A b \in S : next[b] \in S /\ (next[b] # 0 => pos[b] < pos[next[b]])
  BY <1>2, <1>3 DEF Chained
<1>5. \A b \in S \ {0} : \E a \in S : next[a] = b
  BY <1>2 DEF Chained
<1>6. Links(next, S, pos)
  BY <1>2, <1>3, <1>4, <1>5 DEF Links, Chained
<1>7. Walked(next, S, Walk(next)) /\ Follows(next, pos, Walk(next))
  BY <1>6, WalkIs
<1> QED
  BY <1>1, <1>7 DEF Chain, pos

(***************************************************************************)
(* The walk along the free list meets the free blocks, each once.          *)
(***************************************************************************)
LEMMA FreeWalked ==
  ASSUME NEW h, NEW S, NEW F, Good(h, S, F)
  PROVE  /\ Walked(h.nf, F \union {0}, Walk(h.nf)) /\ IsInjective(Walk(h.nf))
         /\ FreeList(h) \in Seq(F) /\ ToSet(FreeList(h)) = F
<1>1. PICK nf, pf : nf = h.nf /\ pf = h.pf
  OBVIOUS
<1>2. PICK pos \in [Blocks -> Nat] : Ring(nf, pf, F, pos)
  BY <1>1 DEF Good, Listed
<1>3. nf \in [Blocks -> Blocks] /\ 0 \in Blocks /\ F \subseteq Blocks \ {0}
  BY <1>1, GoodFacts, BlocksAreNumbers DEF Heaps
<1>4. Links(nf, F \union {0}, pos)
  BY <1>2, <1>3 DEF Links, Ring
<1>5. PICK w : w = Walk(nf)
  OBVIOUS
<1>6. Walked(nf, F \union {0}, w) /\ Follows(nf, pos, w)
  BY <1>4, <1>5, WalkIs
<1>7. /\ w \in Seq(F \union {0}) /\ DOMAIN w = 1 .. Len(w) /\ Len(w) \in Nat /\ w # <<>> /\ Head(w) = 0
      /\ \A i \in 1 .. Len(w) : w[i] \in F \union {0}
  <2>1. w \in Seq(F \union {0}) /\ Len(w) >= 1 /\ w[1] = 0
    BY <1>6 DEF Walked
  <2>2. w # <<>>
    BY <2>1, EmptySeq
  <2> QED
    BY <2>1, <2>2, LenProperties
<1>8. IsInjective(w)
  <2>1. ASSUME NEW i \in 1 .. Len(w), NEW j \in 1 .. Len(w), w[i] = w[j] PROVE i = j
    <3>1. pos[w[i]] \in Nat /\ ~(pos[w[i]] < pos[w[i]])
      BY <1>3, <1>7
    <3>2. ~(i < j) /\ ~(j < i)
      BY <1>6, <2>1, <3>1 DEF Follows
    <3> QED
      BY <1>7, <3>2
  <2> QED
    BY <1>7, <2>1 DEF IsInjective
<1>9. ToSet(Tail(w)) = F
  <2>1. ToSet(Tail(w)) = ToSet(w) \ {0}
    BY <1>7, <1>8, TailOfInjective
  <2> QED
    BY <1>3, <1>6, <2>1 DEF Walked
<1>10. Tail(w) \in Seq(F)
  <2>1. Tail(w) \in Seq(F \union {0})
    BY <1>7, HeadTailProperties
  <2>2. Len(Tail(w)) \in Nat /\ DOMAIN Tail(w) = 1 .. Len(Tail(w))
        /\ Tail(w) \in [1 .. Len(Tail(w)) -> F \union {0}]
    BY <2>1, LenProperties
  <2>3. \A i \in 1 .. Len(Tail(w)) : Tail(w)[i] \in F
    BY <1>9, <2>2 DEF ToSet
  <2>4. Tail(w) \in [1 .. Len(Tail(w)) -> F]
    BY <2>2, <2>3
  <2>5. PICK t, m : t = Tail(w) /\ m = Len(t) /\ m \in Nat /\ t \in [1 .. m -> F]
    BY <2>2, <2>4
  <2>6. t \in Seq(F)
    <3>1. [1 .. m -> F] \in {[1 .. k -> F] : k \in Nat}
      BY <2>5
    <3> QED
      BY <2>5, <3>1, SeqDef
  <2> QED
    BY <2>5, <2>6
<1> QED
  BY <1>1, <1>5, <1>6, <1>8, <1>9, <1>10 DEF FreeList

(***************************************************************************)
(* What the statistics count.                                              *)
(***************************************************************************)
LEMMA GoodChunks ==
  ASSUME NEW h, NEW S, NEW F, Good(h, S, F)
  PROVE  /\ ToSet(Chain(h)) = S /\ ToSet(FreeList(h)) = F
         /\ FreeChunks(h) = F /\ UsedChunks(h) = Used(S, F)
<1>1. ToSet(Chain(h)) = S /\ ToSet(FreeList(h)) = F
  BY ChainWalked, FreeWalked DEF Walked
<1>2. Chunks(h) = S \ {0, BLOCK_LAST}
  BY <1>1 DEF Chunks, BLOCK_LAST
<1>3. F \subseteq S \ {0, BLOCK_LAST} /\ \A b \in S : h.free[b] <=> b \in F
  BY GoodFacts
<1>4. FreeChunks(h) = F
  BY <1>2, <1>3 DEF FreeChunks
<1> QED
  BY <1>1, <1>2, <1>4 DEF UsedChunks, Used

(***************************************************************************)
(* A good heap passes the source's own check.                              *)
(***************************************************************************)
LEMMA GoodIsSound ==
  ASSUME NEW h, NEW S, NEW F, Good(h, S, F)
  PROVE  umm_integrity_check(h)
<1> DEFINE l == <<0>> \o FreeList(h)
           c == Chain(h)
<1>1. PICK w : w = Walk(h.nf)
  OBVIOUS
<1>2. /\ Walked(h.nf, F \union {0}, w) /\ FreeList(h) = Tail(w) /\ FreeList(h) \in Seq(F)
      /\ ToSet(FreeList(h)) = F
  BY <1>1, FreeWalked DEF FreeList
<1>3. w \in Seq(F \union {0}) /\ Len(w) \in Nat /\ Len(w) >= 1 /\ w[1] = 0 /\ w # <<>>
  BY <1>2, LenProperties, EmptySeq DEF Walked
<1>4. l = w
  <2>1. /\ Tail(w) \in Seq(F \union {0}) /\ Len(Tail(w)) = Len(w) - 1
        /\ \A i \in 1 .. Len(Tail(w)) : Tail(w)[i] = w[i + 1]
    BY <1>3, HeadTailProperties
  <2>2. <<0>> \in Seq(F \union {0}) /\ Len(<<0>>) = 1 /\ <<0>>[1] = 0
    OBVIOUS
  <2>3. /\ <<0>> \o Tail(w) \in Seq(F \union {0}) /\ Len(<<0>> \o Tail(w)) = Len(w)
        /\ \A i \in 1 .. Len(w) : (<<0>> \o Tail(w))[i] =
             IF i <= 1 THEN <<0>>[i] ELSE Tail(w)[i - 1]
    BY <1>3, <2>1, <2>2, ConcatProperties
  <2>4. \A i \in 1 .. Len(w) : (<<0>> \o Tail(w))[i] = w[i]
    <3> SUFFICES ASSUME NEW i \in 1 .. Len(w) PROVE (<<0>> \o Tail(w))[i] = w[i]
      OBVIOUS
    <3>1. CASE i = 1
      BY <1>3, <2>2, <2>3, <3>1
    <3>2. CASE i # 1
      <4>1. i - 1 \in 1 .. Len(Tail(w)) /\ ~(i <= 1) /\ i - 1 + 1 = i
        BY <1>3, <2>1, <3>2
      <4> QED
        BY <2>1, <2>3, <4>1
    <3> QED
      BY <3>1, <3>2
  <2> QED
    BY <1>2, <1>3, <2>3, <2>4, SeqEqual
<1>5. PICK nf, pf, next, prev : nf = h.nf /\ pf = h.pf /\ next = h.next /\ prev = h.prev
  OBVIOUS
<1>6. PICK pos \in [Blocks -> Nat] : Ring(nf, pf, F, pos)
  BY <1>5 DEF Good, Listed
<1>7. \A i \in 2 .. Len(l) : h.pf[l[i]] = l[i - 1]
  <2> SUFFICES ASSUME NEW i \in 2 .. Len(w) PROVE pf[w[i]] = w[i - 1]
    BY <1>4, <1>5
  <2>1. i - 1 \in 1 .. Len(w) - 1 /\ i - 1 \in 1 .. Len(w) /\ i - 1 + 1 = i
    BY <1>3
  <2>2. w[i] = nf[w[i - 1]] /\ w[i - 1] \in F \union {0}
    BY <1>2, <1>3, <1>5, <2>1, LenProperties DEF Walked
  <2> QED
    BY <1>6, <2>2 DEF Ring
<1>8. h.nf[l[Len(l)]] = 0
  BY <1>2, <1>4 DEF Walked
<1>9. Tail(l) = FreeList(h)
  BY <1>2, <1>4
<1>10. /\ Walked(next, S, c) /\ Chained(next, prev, S) /\ S \subseteq Nat /\ Len(c) \in Nat
       /\ \A i \in 1 .. Len(c) : c[i] \in S
  <2>1. Walked(next, S, c) /\ Chained(next, prev, S) /\ S \subseteq Nat
    BY <1>5, GoodFacts, ChainWalked
  <2>2. c \in Seq(S)
    BY <2>1 DEF Walked
  <2> QED
    BY <2>1, <2>2, LenProperties
<1>11. \A i \in 2 .. Len(c) :
           /\ c[i] > c[i - 1] /\ h.prev[c[i]] = c[i - 1]
           /\ h.free[c[i]] <=> c[i] \in ToSet(Tail(l))
  <2> SUFFICES ASSUME NEW i \in 2 .. Len(c)
               PROVE  /\ c[i] > c[i - 1] /\ prev[c[i]] = c[i - 1]
                      /\ h.free[c[i]] <=> c[i] \in F
    BY <1>2, <1>5, <1>9
  <2> HIDE DEF c
  <2>1. i - 1 \in 1 .. Len(c) - 1 /\ i - 1 \in 1 .. Len(c) /\ i \in 1 .. Len(c) /\ i - 1 + 1 = i
    BY <1>10
  <2>2. c[i] = next[c[i - 1]] /\ c[i] # 0 /\ c[i - 1] \in S /\ c[i] \in S
    BY <1>10, <2>1 DEF Walked
  <2>3. c[i - 1] \in S \ {BLOCK_LAST}
    BY <1>10, <2>2 DEF Chained
  <2>4. c[i - 1] < c[i] /\ prev[c[i]] = c[i - 1] /\ c[i] \in Nat /\ c[i - 1] \in Nat
    BY <1>10, <2>2, <2>3 DEF Chained
  <2>5. h.free[c[i]] <=> c[i] \in F
    BY <2>2, GoodFacts
  <2> QED
    BY <2>4, <2>5
<1>12. h.next[c[Len(c)]] = 0
  BY <1>5, <1>10 DEF Walked
<1> QED
  BY <1>7, <1>8, <1>11, <1>12 DEF umm_integrity_check

----------------------------------------------------------------------------
(* What the calls do to a good heap.                                       *)

(* cf is a free block of n blocks or more, or 0 because there is none.     *)
Fitting(h, F, n, cf) ==
  \/ cf \in F /\ SizeOf(h, cf) >= n
  \/ cf = 0 /\ \A b \in F : SizeOf(h, b) < n

(***************************************************************************)
(* The scan finds a free block that is large enough if there is one.       *)
(***************************************************************************)
LEMMA BestFitFits ==
  ASSUME NEW h, NEW S, NEW F, Good(h, S, F), NEW n \in Nat \ {0}
  PROVE  Fitting(h, F, n, BestFit(h, n))
<1>1. PICK l : l = FreeList(h)
  OBVIOUS
<1>2. PICK size : size = [b \in F |-> SizeOf(h, b)]
  OBVIOUS
<1>3. \A b \in F : size[b] = SizeOf(h, b) /\ size[b] \in Nat
  <2> SUFFICES ASSUME NEW b \in F PROVE SizeOf(h, b) \in Nat
    BY <1>2
  <2>1. b \in S \ {0, BLOCK_LAST}
    BY GoodFacts
  <2>2. b \in Nat /\ h.next[b] \in Nat /\ b < h.next[b]
    BY <2>1, Neighbours
  <2> QED
    BY <2>2 DEF SizeOf
<1>4. /\ Len(l) \in Nat /\ DOMAIN l = 1 .. Len(l) /\ ToSet(l) = F
      /\ \A i \in 1 .. Len(l) : l[i] \in F
  BY <1>1, FreeWalked, LenProperties
<1> DEFINE fits == {i \in 1 .. Len(l) : SizeOf(h, l[i]) >= n}
           before(i, j) == \/ SizeOf(h, l[i]) < SizeOf(h, l[j])
                           \/ SizeOf(h, l[i]) = SizeOf(h, l[j]) /\ i <= j
           first == CHOOSE i \in fits : \A j \in fits : before(i, j)
<1>5. BestFit(h, n) = IF fits = {} THEN 0 ELSE l[first]
  BY <1>1 DEF BestFit
<1>6. CASE fits = {}
  <2>1. ASSUME NEW b \in F PROVE SizeOf(h, b) < n
    <3>1. PICK i \in 1 .. Len(l) : l[i] = b
      BY <1>4 DEF ToSet
    <3>2. ~(SizeOf(h, l[i]) >= n)
      BY <1>6, <3>1
    <3>3. SizeOf(h, b) \in Nat
      BY <1>3
    <3> QED
      BY <3>1, <3>2, <3>3
  <2> QED
    BY <1>5, <1>6, <2>1 DEF Fitting
<1>7. CASE fits # {}
  <2> DEFINE sizes == {size[l[i]] : i \in fits}
  <2>1. sizes \subseteq Nat /\ sizes # {}
    BY <1>3, <1>4, <1>7
  <2>2. PICK v \in sizes : \A x \in sizes : v <= x
    <3> HIDE DEF sizes
    <3> QED
      BY <2>1, LeastExists
  <2> DEFINE least == {i \in fits : size[l[i]] = v}
  <2>3. least \subseteq Nat /\ least # {}
    BY <1>4, <2>2
  <2>4. PICK i \in least : \A j \in least : i <= j
    <3> HIDE DEF least
    <3> QED
      BY <2>3, LeastExists
  <2>5. ASSUME NEW j \in fits PROVE before(i, j)
    <3>1. /\ i \in 1 .. Len(l) /\ j \in 1 .. Len(l) /\ l[i] \in F /\ l[j] \in F
          /\ size[l[i]] = v /\ size[l[j]] \in sizes
      BY <1>4, <2>4
    <3>2. v <= size[l[j]] /\ v \in Nat /\ size[l[j]] \in Nat
      BY <1>3, <2>1, <2>2, <3>1
    <3>3. size[l[j]] = v => i <= j
      BY <2>4
    <3>4. SizeOf(h, l[i]) = v /\ SizeOf(h, l[j]) = size[l[j]]
      BY <1>3, <3>1
    <3> QED
      BY <3>2, <3>3, <3>4
  <2>6. i \in fits
    OBVIOUS
  <2> HIDE DEF fits, before
  <2>7. \E k \in fits : \A j \in fits : before(k, j)
    BY <2>5, <2>6
  <2>8. first \in fits
    BY <2>7
  <2> HIDE DEF first
  <2>9. l[first] \in F /\ SizeOf(h, l[first]) >= n
    BY <1>4, <2>8 DEF fits
  <2> QED
    BY <1>5, <1>7, <2>9 DEF Fitting
<1> QED
  BY <1>6, <1>7

(***************************************************************************)
(* What the clients write over links and headers that are not in use does  *)
(* no harm.                                                                *)
(***************************************************************************)
LEMMA ScribbleGood ==
  ASSUME NEW h, NEW S, NEW F, Good(h, S, F)
  PROVE  Good(Scribble(h), S, F) /\ \A b \in S : Scribble(h).next[b] = h.next[b]
<1> DEFINE g == Scribble(h)
           unlinked == {b \in Blocks : b \notin S \/ (b # 0 /\ ~h.free[b])}
           Junked(f, T) == [b \in Blocks |-> IF b \in T THEN Junk ELSE f[b]]
<1>1. PICK next, prev, free, nf, pf :
        next = h.next /\ prev = h.prev /\ free = h.free /\ nf = h.nf /\ pf = h.pf
  OBVIOUS
<1>2. /\ next \in [Blocks -> Blocks] /\ prev \in [Blocks -> Blocks] /\ free \in [Blocks -> BOOLEAN]
      /\ nf \in [Blocks -> Blocks] /\ pf \in [Blocks -> Blocks]
      /\ F \subseteq S \ {0, BLOCK_LAST} /\ S \subseteq Blocks /\ Chained(next, prev, S)
      /\ \A b \in S : free[b] <=> b \in F
      /\ \A b \in F : next[b] \notin F
  BY <1>1, GoodFacts DEF Heaps
<1>3. Junk \in Blocks /\ 0 \in S
  BY <1>2, BlocksAreNumbers DEF Junk, BLOCK_LAST, Chained
<1>4. /\ g.next = Junked(next, Blocks \ S) /\ g.prev = Junked(prev, Blocks \ S)
      /\ g.free = [b \in Blocks |-> b \in S /\ free[b]]
      /\ g.nf = Junked(nf, unlinked) /\ g.pf = Junked(pf, unlinked)
      /\ g \in [next : {Junked(next, Blocks \ S)}, prev : {Junked(prev, Blocks \ S)},
                free : {[b \in Blocks |-> b \in S /\ free[b]]},
                nf : {Junked(nf, unlinked)}, pf : {Junked(pf, unlinked)}]
  <2>1. ToSet(Chain(h)) = S
    BY GoodChunks
  <2> QED
    BY <1>1, <2>1 DEF Scribble
<1>5. /\ Junked(next, Blocks \ S) \in [Blocks -> Blocks]
      /\ Junked(prev, Blocks \ S) \in [Blocks -> Blocks]
      /\ [b \in Blocks |-> b \in S /\ free[b]] \in [Blocks -> BOOLEAN]
      /\ Junked(nf, unlinked) \in [Blocks -> Blocks]
      /\ Junked(pf, unlinked) \in [Blocks -> Blocks]
  BY <1>2, <1>3
<1>6. /\ \A b \in S : g.next[b] = next[b] /\ g.prev[b] = prev[b]
      /\ \A b \in S : g.free[b] <=> b \in F
      /\ \A b \in F \union {0} : g.nf[b] = nf[b] /\ g.pf[b] = pf[b]
  <2>1. \A b \in S : g.next[b] = next[b] /\ g.prev[b] = prev[b]
    BY <1>2, <1>4
  <2>2. \A b \in S : g.free[b] <=> b \in F
    <3> SUFFICES ASSUME NEW b \in S PROVE g.free[b] <=> b \in F
      OBVIOUS
    <3>1. g.free[b] = (b \in S /\ free[b])
      BY <1>2, <1>4
    <3> QED
      BY <1>2, <3>1
  <2>3. \A b \in F \union {0} : b \in Blocks /\ b \notin unlinked
    BY <1>1, <1>2, <1>3
  <2>4. \A b \in F \union {0} : g.nf[b] = nf[b] /\ g.pf[b] = pf[b]
    BY <1>4, <2>3
  <2> QED
    BY <2>1, <2>2, <2>4
<1>7. g \in Heaps
  <2> HIDE DEF Junked, unlinked, g
  <2> QED
    BY <1>4, <1>5 DEF Heaps
<1> HIDE DEF g
<1>8. Chained(g.next, g.prev, S)
  BY <1>2, <1>6 DEF Chained
<1>9. Listed(g.nf, g.pf, F)
  <2>1. PICK pos \in [Blocks -> Nat] : Ring(nf, pf, F, pos)
    BY <1>1 DEF Good, Listed
  <2>2. Ring(g.nf, g.pf, F, pos)
    BY <1>6, <2>1 DEF Ring
  <2> QED
    BY <2>2 DEF Listed
<1>10. \A b \in F : g.next[b] \notin F
  BY <1>2, <1>6
<1>11. Good(g, S, F)
  BY <1>2, <1>6, <1>7, <1>8, <1>9, <1>10 DEF Good
<1> QED
  BY <1>1, <1>6, <1>11 DEF g

(* The chunk r.p of r.size blocks in r.h takes the place of the one at c.  *)
Placed(h, S, F, c, r, T, G) ==
  /\ Good(r.h, T, G) /\ r.p \in Used(T, G)
  /\ Used(T, G) = (Used(S, F) \ {c}) \union {r.p} /\ r.p \notin Used(S, F) \ {c}
  /\ r.h.next[r.p] = r.p + r.size /\ r.size \in Nat
  /\ AllUntouched(h, r.h, Used(S, F) \ {c})
Replaces(h, S, F, c, r) == \E T, G : Placed(h, S, F, c, r, T, G)

(***************************************************************************)
(* The same for a used block.                                              *)
(***************************************************************************)
LEMMA UsedFacts ==
  ASSUME NEW h, NEW S, NEW F, Good(h, S, F), NEW c \in Used(S, F)
  PROVE  /\ c \in S \ {0, BLOCK_LAST} /\ c \notin F /\ c \in Nat /\ c \in Blocks
         /\ h.next[c] \in S \ {0} /\ h.next[c] \in Nat /\ c < h.next[c]
         /\ h.prev[h.next[c]] = c
         /\ h.prev[c] \in S /\ h.prev[c] \in Nat /\ h.prev[c] < c /\ h.next[h.prev[c]] = c
         /\ (h.free[h.next[c]] <=> h.next[c] \in F) /\ (h.free[h.prev[c]] <=> h.prev[c] \in F)
BY Neighbours, GoodFacts DEF Used

(***************************************************************************)
(* The chunk is moved to the front of the free block before it, which it   *)
(* takes in.                                                               *)
(***************************************************************************)
LEMMA DownGood ==
  ASSUME NEW h, NEW S, NEW F, Good(h, S, F), NEW c \in Used(S, F), h.prev[c] \in F
  PROVE  LET g == AssimilateDown(Disconnect(h, h.prev[c]), c, FALSE)
             P == h.prev[c]
         IN  \E T, G : /\ Good(g, T, G) /\ P \in Used(T, G)
                       /\ Used(T, G) = (Used(S, F) \ {c}) \union {P}
                       /\ P \notin Used(S, F) /\ g.next[P] = h.next[c]
                       /\ AllUntouched(h, g, Used(S, F) \ {c})
<1> DEFINE P == h.prev[c]
           d == Disconnect(h, P)
           g == AssimilateDown(d, c, FALSE)
<1>1. /\ c \in S \ {0, BLOCK_LAST} /\ c \notin F /\ P < c /\ P \in Nat /\ c \in Nat
      /\ P \in S \ {0, BLOCK_LAST} /\ F \subseteq S \ {0, BLOCK_LAST}
  BY UsedFacts, GoodFacts
<1>2. Good(d, S, F \ {P}) /\ d.next = h.next /\ d.prev = h.prev /\ Writes(h, d, F \union {0}, S)
  BY DisconnectGood
<1> HIDE DEF d
<1>3. c \in Used(S, F \ {P}) /\ d.prev[c] = P /\ d.next[c] = h.next[c]
  BY <1>1, <1>2 DEF Used
<1>4. /\ Good(g, S \ {c}, F \ {P}) /\ g.next[P] = h.next[c]
      /\ AllUntouched(d, g, Used(S, F \ {P}) \ {c, P})
  <2>1. FALSE \in BOOLEAN /\ (FALSE <=> d.prev[c] \in F \ {P}) /\ d.prev[c] \notin F \ {P}
    BY <1>3
  <2> HIDE DEF P, g
  <2>2. /\ Good(AssimilateDown(d, c, FALSE), S \ {c}, F \ {P})
        /\ AssimilateDown(d, c, FALSE).next[d.prev[c]] = d.next[c]
        /\ AllUntouched(d, AssimilateDown(d, c, FALSE), Used(S, F \ {P}) \ {c, d.prev[c]})
    BY <1>2, <1>3, <2>1, AssimilateDownGood
  <2> QED
    BY <1>3, <2>2 DEF g
<1> HIDE DEF g
<1>5. Used(S \ {c}, F \ {P}) = (Used(S, F) \ {c}) \union {P}
  BY <1>1 DEF Used
<1>6. P \notin Used(S, F) /\ Used(S, F \ {P}) \ {c, P} = Used(S, F) \ {c}
  BY <1>1 DEF Used
<1>7. AllUntouched(h, d, Used(S, F) \ {c})
  <2> SUFFICES ASSUME NEW b \in Used(S, F), b # c PROVE Untouched(h, d, b)
    BY DEF AllUntouched
  <2>1. b \in S /\ b \notin F \ {P}
    BY DEF Used
  <2>2. Writes(h, d, F \union (F \ {P}) \union {0}, S \union S)
    BY <1>2 DEF Writes
  <2> QED
    BY <1>2, <2>1, <2>2, UntouchedBy
<1>8. AllUntouched(h, g, Used(S, F) \ {c})
  <2>1. AllUntouched(d, g, Used(S, F) \ {c})
    BY <1>4, <1>6
  <2> QED
    BY <1>7, <2>1, UntouchedTwice
<1>9. P \in Used(S \ {c}, F \ {P})
  BY <1>5
<1> QED
  BY <1>4, <1>5, <1>6, <1>8, <1>9 DEF g, d, P

(***************************************************************************)
(* umm_realloc finds room for n blocks, and changes nothing when it fails. *)
(***************************************************************************)
LEMMA ReallocFitGood ==
  ASSUME NEW h, NEW S, NEW F, Good(h, S, F), NEW c \in Used(S, F), NEW n \in Nat \ {0}
  PROVE  LET r == ReallocFit(h, c, n) IN
         \/ r.p # 0 /\ r.size >= n /\ Replaces(h, S, F, c, r)
         \/ r.p = 0 /\ \A b \in F : SizeOf(h, b) < n
<1> DEFINE size == SizeOf(h, c)
           nextSize == IF h.free[h.next[c]] THEN SizeOf(h, h.next[c]) ELSE 0
           prevSize == IF h.free[h.prev[c]] THEN c - h.prev[c] ELSE 0
           up == AssimilateUp(h, c)
           down(g) == AssimilateDown(Disconnect(g, g.prev[c]), c, FALSE)
           cf == BestFit(h, n)
           r == ReallocFit(h, c, n)
           P == h.prev[c]
           N == h.next[c]
<1>1. /\ c \in S \ {0, BLOCK_LAST} /\ c \notin F /\ c \in Nat /\ N \in Nat /\ c < N
      /\ P \in Nat /\ P < c /\ (h.free[N] <=> N \in F) /\ (h.free[P] <=> P \in F)
      /\ F \subseteq S \ {0, BLOCK_LAST}
  BY UsedFacts, GoodFacts
<1>2. size \in Nat \ {0} /\ c + size = N
  BY <1>1 DEF SizeOf
<1>3. AllUntouched(h, h, Used(S, F) \ {c})
  BY DEF AllUntouched, Untouched, Cells
<1>4. nextSize \in Nat /\ N + nextSize = IF N \in F THEN h.next[N] ELSE N
  <2>1. CASE N \notin F
    BY <1>1, <2>1
  <2>2. CASE N \in F
    <3>1. N \in S \ {0, BLOCK_LAST}
      BY <1>1, <2>2
    <3>2. h.next[N] \in Nat /\ N < h.next[N]
      BY <3>1, Neighbours
    <3> QED
      BY <1>1, <2>2, <3>2 DEF SizeOf
  <2> QED
    BY <2>1, <2>2
<1>5. prevSize \in Nat /\ (prevSize > 0 => P \in F /\ P + prevSize = c)
  BY <1>1
<1>6. PICK T, G :
        /\ Good(up, T, G) /\ Used(T, G) = Used(S, F)
        /\ up.next[c] = N + nextSize /\ up.prev[c] = P /\ (P \in G <=> P \in F)
        /\ AllUntouched(h, up, Used(S, F) \ {c})
  BY <1>4, AssimilateUpGood
<1> HIDE DEF size, nextSize, prevSize, up, cf, r, P, N
<1>7. r = IF size >= n
          THEN [h |-> h, p |-> c, size |-> size]
          ELSE IF size + nextSize = n \/ (prevSize = 0 /\ size + nextSize >= n)
          THEN [h |-> up, p |-> c, size |-> size + nextSize]
          ELSE IF prevSize + size >= n
          THEN [h |-> down(h), p |-> P, size |-> prevSize + size]
          ELSE IF prevSize + size + nextSize >= n
          THEN [h |-> down(up), p |-> P, size |-> prevSize + size + nextSize]
          ELSE IF cf = 0
          THEN [h |-> h, p |-> 0, size |-> n]
          ELSE [h |-> umm_free_core(Take(h, cf, SizeOf(h, cf), n), c), p |-> cf, size |-> n]
  BY DEF r, ReallocFit, size, nextSize, prevSize, up, cf, P
<1>8. CASE size >= n
  <2>1. r.h = h /\ r.p = c /\ r.size = size
    BY <1>7, <1>8
  <2>2. Used(S, F) = (Used(S, F) \ {c}) \union {c}
    OBVIOUS
  <2>3. Placed(h, S, F, c, r, S, F)
    BY <1>2, <1>3, <2>1, <2>2 DEF Placed, N
  <2> QED
    BY <1>1, <1>8, <2>1, <2>3 DEF Replaces, r
<1>9. CASE /\ ~(size >= n)
           /\ size + nextSize = n \/ (prevSize = 0 /\ size + nextSize >= n)
  <2>1. r.h = up /\ r.p = c /\ r.size = size + nextSize
    BY <1>7, <1>9
  <2>2. Used(T, G) = (Used(S, F) \ {c}) \union {c}
    BY <1>6
  <2>3. up.next[c] = c + r.size
    BY <1>1, <1>2, <1>4, <1>6, <2>1
  <2>4. Placed(h, S, F, c, r, T, G)
    BY <1>2, <1>4, <1>6, <2>1, <2>2, <2>3 DEF Placed
  <2>5. r.size >= n
    BY <1>2, <1>4, <1>9, <2>1
  <2> QED
    BY <1>1, <2>1, <2>4, <2>5 DEF Replaces, r
<1>10. CASE /\ ~(size >= n)
            /\ ~(size + nextSize = n \/ (prevSize = 0 /\ size + nextSize >= n))
            /\ prevSize + size >= n
  <2>1. r.h = down(h) /\ r.p = P /\ r.size = prevSize + size
    BY <1>7, <1>10
  <2>2. P \in F /\ P + prevSize = c
    BY <1>2, <1>5, <1>10
  <2>3. PICK U, E : /\ Good(down(h), U, E) /\ P \in Used(U, E)
                    /\ Used(U, E) = (Used(S, F) \ {c}) \union {P}
                    /\ P \notin Used(S, F) /\ down(h).next[P] = N
                    /\ AllUntouched(h, down(h), Used(S, F) \ {c})
    BY <2>2, DownGood DEF P, N
  <2>4. N = P + r.size /\ r.size \in Nat
    BY <1>1, <1>2, <1>5, <2>1, <2>2
  <2> HIDE DEF down
  <2>5. Placed(h, S, F, c, r, U, E)
    BY <2>1, <2>3, <2>4 DEF Placed
  <2>6. P # 0
    BY <1>1, <2>2
  <2> QED
    BY <1>10, <2>1, <2>5, <2>6 DEF Replaces, r
<1>11. CASE /\ ~(size >= n)
            /\ ~(size + nextSize = n \/ (prevSize = 0 /\ size + nextSize >= n))
            /\ ~(prevSize + size >= n)
            /\ prevSize + size + nextSize >= n
  <2>1. r.h = down(up) /\ r.p = P /\ r.size = prevSize + size + nextSize
    BY <1>7, <1>11
  <2>2. P \in F /\ P + prevSize = c
    BY <1>2, <1>4, <1>5, <1>11
  <2>3. c \in Used(T, G) /\ up.prev[c] \in G
    BY <1>6, <2>2
  <2>4. PICK U, E : /\ Good(down(up), U, E) /\ P \in Used(U, E)
                    /\ Used(U, E) = (Used(T, G) \ {c}) \union {P}
                    /\ P \notin Used(T, G) /\ down(up).next[P] = up.next[c]
                    /\ AllUntouched(up, down(up), Used(T, G) \ {c})
    <3>1. \E U, E : /\ Good(down(up), U, E) /\ up.prev[c] \in Used(U, E)
                    /\ Used(U, E) = (Used(T, G) \ {c}) \union {up.prev[c]}
                    /\ up.prev[c] \notin Used(T, G) /\ down(up).next[up.prev[c]] = up.next[c]
                    /\ AllUntouched(up, down(up), Used(T, G) \ {c})
      BY <1>6, <2>3, DownGood
    <3> HIDE DEF down
    <3> QED
      BY <1>6, <3>1
  <2> HIDE DEF down
  <2>5. AllUntouched(h, down(up), Used(S, F) \ {c})
    BY <1>6, <2>4, UntouchedTwice
  <2>6. up.next[c] = P + r.size /\ r.size \in Nat
    BY <1>1, <1>2, <1>4, <1>5, <1>6, <2>1, <2>2
  <2>7. Placed(h, S, F, c, r, U, E)
    BY <1>6, <2>1, <2>4, <2>5, <2>6 DEF Placed
  <2>8. P # 0
    BY <1>1, <2>2
  <2> QED
    BY <1>11, <2>1, <2>7, <2>8 DEF Replaces, r
<1>12. CASE /\ ~(size >= n)
            /\ ~(size + nextSize = n \/ (prevSize = 0 /\ size + nextSize >= n))
            /\ ~(prevSize + size >= n)
            /\ ~(prevSize + size + nextSize >= n)
  <2>1. Fitting(h, F, n, cf)
    BY BestFitFits DEF cf
  <2>2. CASE cf = 0
    <3>1. r.p = 0
      BY <1>7, <1>12, <2>2
    <3>2. 0 \notin F
      BY <1>1
    <3> QED
      BY <2>1, <2>2, <3>1, <3>2 DEF Fitting, r
  <2>3. CASE cf # 0
    <3> DEFINE k == Take(h, cf, SizeOf(h, cf), n)
               g == umm_free_core(k, c)
    <3>1. r.h = g /\ r.p = cf /\ r.size = n
      BY <1>7, <1>12, <2>3
    <3>2. cf \in F /\ SizeOf(h, cf) >= n /\ cf \in S \ {0, BLOCK_LAST}
      BY <1>1, <2>1, <2>3 DEF Fitting
    <3>3. n <= h.next[cf] - cf
      <4>1. cf \in Nat /\ h.next[cf] \in Nat
        BY <3>2, Neighbours
      <4> QED
        BY <3>2, <4>1 DEF SizeOf
    <3>4. PICK U, E : /\ Good(k, U, E) /\ Used(U, E) = Used(S, F) \union {cf}
                      /\ k.next[cf] = cf + n
                      /\ AllUntouched(h, k, Used(S, F))
      BY <3>2, <3>3, TakeGood
    <3> HIDE DEF k
    <3>5. c \in Used(U, E)
      BY <3>4
    <3>6. PICK V, D : /\ Good(g, V, D) /\ Used(V, D) = Used(U, E) \ {c}
                      /\ AllUntouched(k, g, Used(U, E) \ {c})
      BY <3>4, <3>5, FreeCoreGood
    <3> HIDE DEF g
    <3>7. cf # c /\ cf \notin Used(S, F)
      BY <1>1, <3>2 DEF Used
    <3>8. Used(V, D) = (Used(S, F) \ {c}) \union {cf}
      BY <3>4, <3>6, <3>7
    <3>9. g.next[cf] = cf + n
      BY <3>4, <3>6, <3>7 DEF AllUntouched, Untouched
    <3>10. AllUntouched(h, g, Used(S, F) \ {c})
      <4>1. AllUntouched(h, k, Used(S, F) \ {c}) /\ AllUntouched(k, g, Used(S, F) \ {c})
        BY <3>4, <3>6 DEF AllUntouched
      <4> QED
        BY <4>1, UntouchedTwice
    <3>11. Placed(h, S, F, c, r, V, D)
      BY <3>1, <3>6, <3>7, <3>8, <3>9, <3>10 DEF Placed
    <3> QED
      BY <2>3, <3>1, <3>11 DEF Replaces, r
  <2> QED
    BY <2>2, <2>3
<1> QED
  BY <1>8, <1>9, <1>10, <1>11, <1>12

(***************************************************************************)
(* The rest of a chunk is cut off and given back, the chunk keeps n blocks.*)
(***************************************************************************)
LEMMA TrimGood ==
  ASSUME NEW r, NEW T, NEW G, Good(r.h, T, G), NEW n \in Nat \ {0}, r.p \in Used(T, G),
         r.h.next[r.p] = r.p + r.size, r.size \in Nat, r.size >= n
  PROVE  LET g == Trim(r, n) IN
         \E V, D : /\ Good(g, V, D) /\ Used(V, D) = Used(T, G)
                   /\ g.next[r.p] = r.p + n
                   /\ Cells(r.h, g, r.p, r.p + n)
                   /\ AllUntouched(r.h, g, Used(T, G) \ {r.p})
<1>1. PICK h, c : h = r.h /\ c = r.p /\ Good(h, T, G) /\ c \in Used(T, G)
                  /\ h.next[c] = c + r.size /\ r.size \in Nat /\ r.size >= n
  OBVIOUS
<1>2. /\ c \in T \ {0, BLOCK_LAST} /\ c \notin G /\ c \in Nat /\ c # 0
      /\ T \subseteq Nat /\ \A s \in T : s <= c \/ h.next[c] <= s
  <2>1. c \in T \ {0, BLOCK_LAST} /\ c \notin G /\ c \in Nat /\ T \subseteq Nat
    BY <1>1, UsedFacts, GoodFacts
  <2> QED
    BY <1>1, <2>1 DEF Good, Chained
<1>3. CASE r.size = n
  <2>1. Trim(r, n) = h
    <3>1. ~(r.size > n)
      BY <1>3
    <3> QED
      BY <1>1, <3>1, Zenon DEF Trim
  <2>2. AllUntouched(h, h, Used(T, G) \ {c}) /\ Cells(h, h, c, c + n)
    BY DEF AllUntouched, Untouched, Cells
  <2> QED
    BY <1>1, <1>3, <2>1, <2>2
<1>4. CASE r.size # n
  <2> DEFINE s == Split(h, c, n, FALSE)
             d == c + n
             g == umm_free_core(s, d)
  <2>1. Trim(r, n) = g
    <3>1. r.size > n
      BY <1>1, <1>4
    <3> QED
      BY <1>1, <1>2, <3>1, Zenon DEF Trim
  <2>2. d \in Nat /\ c < d /\ d < h.next[c]
    BY <1>1, <1>2, <1>4
  <2>3. /\ Good(s, T \union {d}, G) /\ d \in Blocks \ T
        /\ Writes(h, s, {}, T \union {d})
        /\ Between(h.next, T, c, d, s.next)
    <3>1. c \in T \ {0, BLOCK_LAST} /\ c \notin G /\ c + n < h.next[c] /\ Good(h, T, G)
      BY <1>1, <1>2, <2>2
    <3> QED
      BY <3>1, SplitGood
  <2> HIDE DEF s, g, d
  <2>4. d \in Used(T \union {d}, G)
    <3>1. d \in (T \union {d}) /\ d \notin T /\ 0 \in T /\ BLOCK_LAST \in T /\ G \subseteq T
      BY <1>1, <2>3 DEF Good, Chained
    <3> QED
      BY <3>1 DEF Used
  <2>5. PICK V, D : /\ Good(g, V, D) /\ Used(V, D) = Used(T \union {d}, G) \ {d}
                    /\ AllUntouched(s, g, Used(T \union {d}, G) \ {d})
    BY <2>3, <2>4, FreeCoreGood DEF g
  <2>6. Used(T \union {d}, G) \ {d} = Used(T, G)
    BY <2>3 DEF Used
  <2>7. s.next[c] = d /\ g.next[c] = d /\ Cells(s, g, c, d)
    BY <1>1, <2>3, <2>5, <2>6 DEF AllUntouched, Untouched, Between
  <2>8. Cells(h, s, c, d)
    <3> SUFFICES ASSUME NEW x \in Blocks, c <= x, x < d, x # c PROVE x \notin T \union {d}
      BY <2>3 DEF Cells, Writes
    <3>1. x \in Nat /\ h.next[c] \in Nat
      BY <1>1, <1>2, BlocksAreNumbers
    <3> QED
      BY <1>2, <2>2, <3>1
  <2>9. Cells(h, g, c, d)
    BY <2>7, <2>8 DEF Cells
  <2>10. AllUntouched(h, s, Used(T, G) \ {c})
    <3> SUFFICES ASSUME NEW b \in Used(T, G), b # c PROVE Untouched(h, s, b)
      BY DEF AllUntouched
    <3>1. b \in T \ {c} /\ b \in T \union {d} /\ b \notin G
      BY DEF Used
    <3>2. Writes(h, s, G \union G \union {0}, T \union (T \union {d}))
      BY <2>3 DEF Writes
    <3>3. s.next[b] = h.next[b]
      BY <2>3, <3>1 DEF Between
    <3> QED
      BY <1>1, <2>3, <3>1, <3>2, <3>3, UntouchedBy
  <2>11. AllUntouched(h, g, Used(T, G) \ {c})
    <3>1. AllUntouched(s, g, Used(T, G) \ {c})
      BY <2>5, <2>6 DEF AllUntouched
    <3> QED
      BY <2>10, <3>1, UntouchedTwice
  <2> QED
    BY <1>1, <2>1, <2>5, <2>6, <2>7, <2>9, <2>11 DEF d
<1> QED
  BY <1>1, <1>3, <1>4

----------------------------------------------------------------------------
(* The heap, its owners and their bytes.                                   *)

(***************************************************************************)
(* Every size callers ask for is a positive number of blocks: the count    *)
(* does not wrap.                                                          *)
(***************************************************************************)
LEMMA SizesAreBlocks ==
  ASSUME NEW size \in Sizes
  PROVE  umm_blocks(size) \in Nat \ {0}
<1>1. PICK s \in Nat \ {0} : s = size /\ s < 8 * 65534
  BY HeapAssumption DEF HeapAssumption
<1>2. CASE s <= 4
  BY <1>1, <1>2 DEF umm_blocks
<1>3. CASE s > 4
  <2>1. (s - 5) \div 8 \in Nat /\ (s - 5) \div 8 < 65534
    BY <1>1, <1>3
  <2>2. PICK k \in Nat : k = (s - 5) \div 8 /\ k < 65534
    BY <2>1
  <2>3. (2 + k) % 65536 = 2 + k
    BY <2>2
  <2>4. umm_blocks(size) = 2 + k
    BY <1>1, <1>3, <2>2, <2>3 DEF umm_blocks
  <2> QED
    BY <2>2, <2>4
<1> QED
  BY <1>1, <1>2, <1>3

Handles == [p : Nat, n : Nat, w : Nat]
Calls == [n : Nat, cf : Nat, size : Int]

(* Who holds what in the chunks ch, and the chunks of all but o.           *)
Holds(ch, o) == ch[o] # None
Others(ch, o) == {ch[q].p : q \in {x \in Owners \ {o} : Holds(ch, x)}}

(* Each chunk is a used block of its own, and each used block is held.     *)
Held(h, ch, S, F) ==
  /\ \A o \in Owners : Holds(ch, o) =>
       /\ ch[o].p \in Used(S, F) /\ h.next[ch[o].p] = ch[o].p + ch[o].n
       /\ ch[o].w \in 0 .. ch[o].n
       /\ \A q \in Owners : Holds(ch, q) /\ ch[q].p = ch[o].p => q = o
  /\ \A b \in Used(S, F) : \E o \in Owners : Holds(ch, o) /\ ch[o].p = b

(* The first bytes of the chunk are those o wrote.                         *)
Written(d, o, v) == \A x \in Blocks : v.p <= x /\ x < v.p + v.w => d[x] = o
Contents(d, ch) == \A o \in Owners : Written(d, o, ch[o])

(***************************************************************************)
(* The chunks of the other owners are the used blocks but one's own.       *)
(***************************************************************************)
LEMMA OthersAre ==
  ASSUME NEW h, NEW ch, NEW S, NEW F, Held(h, ch, S, F), NEW o \in Owners
  PROVE  Others(ch, o) = IF Holds(ch, o) THEN Used(S, F) \ {ch[o].p} ELSE Used(S, F)
<1>1. ASSUME NEW b \in Others(ch, o)
      PROVE  b \in Used(S, F) /\ (Holds(ch, o) => b # ch[o].p)
  <2>1. PICK q \in Owners \ {o} : Holds(ch, q) /\ ch[q].p = b
    BY <1>1 DEF Others
  <2> QED
    BY <2>1 DEF Held
<1>2. ASSUME NEW b \in Used(S, F), Holds(ch, o) => b # ch[o].p
      PROVE  b \in Others(ch, o)
  <2>1. PICK q \in Owners : Holds(ch, q) /\ ch[q].p = b
    BY <1>2 DEF Held
  <2>2. q # o
    BY <1>2, <2>1
  <2> QED
    BY <2>1, <2>2 DEF Others
<1> QED
  BY <1>1, <1>2

(* What an owner may have after a call, beside the others' chunks.         *)
NextHandle(g, T, G, B, v) ==
  \/ v = None /\ Used(T, G) = B
  \/ /\ v.p \in Used(T, G) /\ Used(T, G) = B \union {v.p} /\ v.p \notin B
     /\ g.next[v.p] = v.p + v.n /\ v.w \in 0 .. v.n
SameSizes(h, g, B) == \A b \in B : g.next[b] = h.next[b]

(***************************************************************************)
(* After a call of o the used blocks are still held by one owner each, if  *)
(* it left the others' alone.                                              *)
(***************************************************************************)
LEMMA HeldAfter ==
  ASSUME NEW h, NEW ch \in [Owners -> Handles], NEW S, NEW F, Held(h, ch, S, F),
         NEW o \in Owners, NEW v \in Handles, NEW ch1, ch1 = [ch EXCEPT ![o] = v],
         NEW g, NEW T, NEW G, SameSizes(h, g, Others(ch, o)),
         NextHandle(g, T, G, Others(ch, o), v)
  PROVE  Held(g, ch1, T, G)
<1> DEFINE B == Others(ch, o)
<1>1. /\ ch1[o] = v /\ \A q \in Owners \ {o} : ch1[q] = ch[q]
  OBVIOUS
<1>2. ASSUME NEW q \in Owners \ {o}, Holds(ch1, q)
      PROVE  /\ ch1[q] = ch[q] /\ Holds(ch, q) /\ ch[q].p \in B /\ ch[q].p \in Used(T, G)
             /\ g.next[ch[q].p] = ch[q].p + ch[q].n /\ ch[q].w \in 0 .. ch[q].n
  <2>1. ch1[q] = ch[q] /\ Holds(ch, q)
    BY <1>1, <1>2 DEF Holds
  <2>2. ch[q].p \in B
    BY <2>1 DEF Others
  <2>3. ch[q].p \in Used(T, G)
    BY <2>2 DEF NextHandle
  <2> QED
    BY <2>1, <2>2, <2>3 DEF Held, SameSizes
<1>3. Holds(ch1, o) =>
        /\ v.p \in Used(T, G) /\ v.p \notin B
        /\ g.next[v.p] = v.p + v.n /\ v.w \in 0 .. v.n
  BY <1>1 DEF NextHandle, Holds
<1> HIDE DEF B
<1>4. ASSUME NEW q \in Owners, Holds(ch1, q)
      PROVE  /\ ch1[q].p \in Used(T, G) /\ g.next[ch1[q].p] = ch1[q].p + ch1[q].n
             /\ ch1[q].w \in 0 .. ch1[q].n
  BY <1>1, <1>2, <1>3, <1>4
<1>5. ASSUME NEW q \in Owners, Holds(ch1, q), NEW x \in Owners, Holds(ch1, x), ch1[x].p = ch1[q].p
      PROVE  x = q
  <2>1. CASE q # o /\ x # o
    <3>1. Holds(ch, q) /\ Holds(ch, x) /\ ch[q].p = ch[x].p
      BY <1>2, <1>5, <2>1
    <3> QED
      BY <3>1 DEF Held
  <2>2. CASE q = o /\ x # o
    BY <1>1, <1>2, <1>3, <1>5, <2>2
  <2>3. CASE q # o /\ x = o
    BY <1>1, <1>2, <1>3, <1>5, <2>3
  <2> QED
    BY <2>1, <2>2, <2>3
<1>6. ASSUME NEW b \in Used(T, G) PROVE \E q \in Owners : Holds(ch1, q) /\ ch1[q].p = b
  <2>1. CASE b \in B
    <3>1. PICK q \in Owners \ {o} : Holds(ch, q) /\ ch[q].p = b
      BY <2>1 DEF B, Others
    <3> QED
      BY <1>1, <3>1 DEF Holds
  <2>2. CASE b \notin B
    <3>1. v.p = b
      BY <1>6, <2>2 DEF NextHandle, B
    <3>2. v # None
      BY <1>6, <3>1 DEF Used, None
    <3> QED
      BY <1>1, <3>1, <3>2 DEF Holds
  <2> QED
    BY <2>1, <2>2
<1> QED
  BY <1>4, <1>5, <1>6 DEF Held

(***************************************************************************)
(* Two blocks of a chain have no memory in common.                         *)
(***************************************************************************)
LEMMA Apart ==
  ASSUME NEW h, NEW S, NEW F, Good(h, S, F), NEW b \in Used(S, F), NEW d \in Used(S, F), b # d,
         NEW x \in Blocks, b <= x, x < h.next[b]
  PROVE  ~(d <= x /\ x < h.next[d])
<1>1. /\ b \in S /\ d \in S /\ b \in Nat /\ d \in Nat /\ x \in Nat
      /\ h.next[b] \in Nat /\ h.next[d] \in Nat
      /\ b \in S \ {BLOCK_LAST} /\ d \in S \ {BLOCK_LAST}
  BY UsedFacts, BlocksAreNumbers
<1>2. (d <= b \/ h.next[b] <= d) /\ (b <= d \/ h.next[d] <= b)
  BY <1>1 DEF Good, Chained
<1> QED
  BY <1>1, <1>2

(***************************************************************************)
(* The bytes of a chunk survive what leaves its memory alone.              *)
(***************************************************************************)
LEMMA Survives ==
  ASSUME NEW h, NEW g, NEW d, NEW starts, NEW p \in starts, NEW e, Cells(h, g, p, e),
         NEW x \in Blocks, p <= x, x < e
  PROVE  Surviving(h, g, d, starts)[x] = d[x]
BY DEF Cells, Surviving

(***************************************************************************)
(* The memory of a chunk lies within the heap.                             *)
(***************************************************************************)
LEMMA Inside ==
  ASSUME NEW h, NEW S, NEW F, Good(h, S, F), NEW b \in Used(S, F),
         NEW x \in Int, b <= x, x < h.next[b]
  PROVE  x \in Blocks
<1>1. b \in Nat /\ h.next[b] \in Blocks /\ h.next[b] \in Nat
  BY UsedFacts, GoodFacts
<1>2. h.next[b] <= BLOCK_LAST /\ BLOCK_LAST \in Nat
  BY <1>1, BlocksAreNumbers
<1>3. x \in Nat /\ x <= BLOCK_LAST
  BY <1>1, <1>2
<1> QED
  BY <1>3, BlocksAreNumbers

(* An owner between its scan and its change holds nothing, has what the    *)
(* scan found, and is alone.                                               *)
Scanning(h, ch, calls, F) ==
  \A o \in Owners : calls[o] # Idle =>
    /\ ch[o] = None /\ calls[o].n # 0
    /\ Fitting(h, F, calls[o].n, calls[o].cf) /\ calls[o].size = SizeOf(h, calls[o].cf)
    /\ \A q \in Owners : calls[q] # Idle => q = o

Memory == [Blocks -> Owners \union {NoOne}]

(***************************************************************************)
(* The inductive invariant: S are the blocks of the heap, F the free ones. *)
(***************************************************************************)
Sound(S, F) ==
  /\ Good(heap, S, F)
  /\ Held(heap, chunk, S, F)
  /\ Contents(data, chunk)
  /\ Scanning(heap, chunk, scan, F)
  /\ data \in Memory /\ chunk \in [Owners -> Handles] /\ scan \in [Owners -> Calls] /\ last \in Nat
HeapInv == \E S, F : Sound(S, F)

(***************************************************************************)
(* What is left of the memory is memory.                                   *)
(***************************************************************************)
LEMMA SurvivingIsMemory ==
  ASSUME NEW h, NEW g, NEW d \in Memory, NEW starts
  PROVE  Surviving(h, g, d, starts) \in Memory
BY DEF Surviving, Memory

(***************************************************************************)
(* So is what an owner has written to.                                     *)
(***************************************************************************)
LEMMA FillIsMemory ==
  ASSUME NEW d \in Memory, NEW o \in Owners \union {NoOne}, NEW p, NEW n
  PROVE  Fill(d, o, p, n) \in Memory
BY DEF Fill, Memory

(***************************************************************************)
(* The heap umm_init leaves.                                               *)
(***************************************************************************)
LEMMA InitSound == Init => HeapInv
<1> SUFFICES ASSUME Init PROVE HeapInv
  OBVIOUS
<1> DEFINE S == {0, 1, BLOCK_LAST}
           F == {1}
<1>1. /\ Blocks \subseteq Nat /\ 0 \in Blocks /\ 1 \in Blocks /\ BLOCK_LAST \in Blocks
      /\ BLOCK_LAST > 2 /\ BLOCK_LAST \in Nat
  BY BlocksAreNumbers
<1>2. PICK next, prev, free, nf, pf :
        /\ next = heap.next /\ prev = heap.prev /\ free = heap.free /\ nf = heap.nf /\ pf = heap.pf
        /\ next = [b \in Blocks |-> CASE b = 0 -> 1 [] b = 1 -> BLOCK_LAST [] OTHER -> 0]
        /\ prev = [b \in Blocks |-> IF b = BLOCK_LAST THEN 1 ELSE 0]
        /\ free = [b \in Blocks |-> b = 1]
        /\ nf = [b \in Blocks |-> IF b = 0 THEN 1 ELSE 0]
        /\ pf = [b \in Blocks |-> IF b = 0 THEN 1 ELSE 0]
        /\ heap \in [next : {next}, prev : {prev}, free : {free}, nf : {nf}, pf : {pf}]
  BY DEF Init, umm_init
<1>3. /\ next \in [Blocks -> Blocks] /\ prev \in [Blocks -> Blocks] /\ free \in [Blocks -> BOOLEAN]
      /\ nf \in [Blocks -> Blocks] /\ pf \in [Blocks -> Blocks]
      /\ next[0] = 1 /\ next[1] = BLOCK_LAST /\ next[BLOCK_LAST] = 0
      /\ prev[1] = 0 /\ prev[BLOCK_LAST] = 1
      /\ nf[0] = 1 /\ nf[1] = 0 /\ pf[0] = 1 /\ pf[1] = 0
  BY <1>1, <1>2
<1>4. heap \in Heaps
  <2>1. heap \in [next : {next}, prev : {prev}, free : {free}, nf : {nf}, pf : {pf}]
    BY <1>2
  <2> QED
    BY <1>3, <2>1 DEF Heaps
<1>5. Chained(next, prev, S)
  BY <1>1, <1>3 DEF Chained
<1>6. F \subseteq S \ {0, BLOCK_LAST}
  BY <1>1
<1>7. \A b \in S : free[b] <=> b \in F
  <2> SUFFICES ASSUME NEW b \in S PROVE free[b] <=> b \in F
    OBVIOUS
  <2>1. b \in Blocks
    BY <1>1
  <2>2. free[b] = (b = 1)
    BY <1>2, <2>1
  <2> QED
    BY <2>2
<1>8. \A b \in F : next[b] \notin F
  BY <1>1, <1>3
<1>9. Listed(nf, pf, F)
  <2> DEFINE pos == [b \in Blocks |-> b]
  <2>1. pos \in [Blocks -> Nat] /\ pos[0] = 0 /\ pos[1] = 1
    BY <1>1
  <2> HIDE DEF pos
  <2>2. Ring(nf, pf, F, pos)
    BY <1>3, <2>1 DEF Ring
  <2> QED
    BY <2>1, <2>2 DEF Listed
<1>10. Good(heap, S, F)
  BY <1>2, <1>4, <1>5, <1>6, <1>7, <1>8, <1>9 DEF Good
<1>11. Used(S, F) = {}
  BY DEF Used
<1>12. chunk = [o \in Owners |-> None] /\ scan = [o \in Owners |-> Idle] /\ last = 0
  BY DEF Init
<1>13. Held(heap, chunk, S, F)
  BY <1>11, <1>12 DEF Held, Holds
<1>14. Contents(data, chunk)
  BY <1>1, <1>12 DEF Contents, Written, None
<1>15. Scanning(heap, chunk, scan, F)
  BY <1>12 DEF Scanning
<1>16. data \in Memory
  BY DEF Init, umm_init, Memory
<1>17. chunk \in [Owners -> Handles] /\ scan \in [Owners -> Calls]
  BY <1>12 DEF Handles, Calls, None, Idle
<1> HIDE DEF S, F
<1>18. Sound(S, F)
  BY <1>10, <1>12, <1>13, <1>14, <1>15, <1>16, <1>17 DEF Sound
<1> QED
  BY <1>18 DEF HeapInv

(***************************************************************************)
(* The scan of an allocation notes what it found.                          *)
(***************************************************************************)
LEMMA MallocScanSound ==
  ASSUME ~Preempt, NEW S, NEW F, Sound(S, F), NEW o \in Owners, NEW size \in Sizes,
         MallocScan(o, size)
  PROVE  Sound(S, F)'
<1> DEFINE n == umm_blocks(size)
           cf == BestFit(heap, n)
           v == [n |-> n, cf |-> cf, size |-> SizeOf(heap, cf)]
<1>1. /\ chunk[o] = None /\ scan' = [scan EXCEPT ![o] = v] /\ \A q \in Owners : scan[q] = Idle
      /\ UNCHANGED <<heap, data, chunk, last>>
  BY DEF MallocScan, Alone
<1>2. n \in Nat \ {0}
  BY SizesAreBlocks
<1>3. Good(heap, S, F) /\ scan \in [Owners -> Calls]
  BY DEF Sound
<1>4. Fitting(heap, F, n, cf)
  BY <1>2, <1>3, BestFitFits
<1> HIDE DEF n, cf
<1>5. cf \in Nat /\ SizeOf(heap, cf) \in Int
  <2>1. cf \in Blocks /\ heap.next \in [Blocks -> Blocks] /\ Blocks \subseteq Nat
    BY <1>3, <1>4, GoodFacts, BlocksAreNumbers DEF Fitting
  <2>2. heap.next[cf] \in Nat /\ cf \in Nat
    BY <2>1
  <2> QED
    BY <2>2 DEF SizeOf
<1>6. v \in Calls
  BY <1>2, <1>5 DEF Calls
<1>7. scan' \in [Owners -> Calls] /\ scan'[o] = v /\ \A q \in Owners \ {o} : scan'[q] = Idle
  BY <1>1, <1>3, <1>6
<1>8. Scanning(heap, chunk, scan', F)
  BY <1>1, <1>2, <1>4, <1>7 DEF Scanning
<1>9. /\ Good(heap', S, F) /\ Held(heap', chunk', S, F) /\ Contents(data', chunk')
      /\ data' \in Memory /\ chunk' \in [Owners -> Handles] /\ last' \in Nat
  BY <1>1 DEF Sound
<1>10. Scanning(heap', chunk', scan', F)
  BY <1>1, <1>8
<1> QED
  BY <1>7, <1>9, <1>10 DEF Sound

(***************************************************************************)
(* At the end of a call the clients' bytes are where they may be.          *)
(***************************************************************************)
LEMMA EndOfCall ==
  ASSUME NEW g, NEW T, NEW G, Good(g, T, G), NEW ch, Held(g, ch, T, G)
  PROVE  Good(Scribble(g), T, G) /\ Held(Scribble(g), ch, T, G)
<1>1. PICK s : s = Scribble(g)
  OBVIOUS
<1>2. Good(s, T, G) /\ \A b \in T : s.next[b] = g.next[b]
  BY <1>1, ScribbleGood
<1>3. \A b \in Used(T, G) : s.next[b] = g.next[b]
  BY <1>2 DEF Used
<1>4. Held(s, ch, T, G)
  BY <1>3 DEF Held
<1> QED
  BY <1>1, <1>2, <1>4

(***************************************************************************)
(* Where the bytes of another owner's chunk are.                           *)
(***************************************************************************)
LEMMA OtherBytes ==
  ASSUME NEW h, NEW ch \in [Owners -> Handles], NEW S, NEW F, Good(h, S, F), Held(h, ch, S, F),
         NEW q \in Owners, NEW x \in Blocks, ch[q].p <= x, x < ch[q].p + ch[q].w
  PROVE  Holds(ch, q) /\ ch[q].p \in Used(S, F) /\ x < h.next[ch[q].p]
<1>1. Holds(ch, q)
  BY BlocksAreNumbers DEF Holds, None
<1>2. ch[q].p \in Used(S, F) /\ h.next[ch[q].p] = ch[q].p + ch[q].n /\ ch[q].w \in 0 .. ch[q].n
  BY <1>1 DEF Held
<1>3. ch[q].p \in Nat /\ ch[q].n \in Nat /\ x \in Nat
  BY BlocksAreNumbers DEF Handles
<1> QED
  BY <1>1, <1>2, <1>3

(***************************************************************************)
(* Where chunks start.                                                     *)
(***************************************************************************)
LEMMA StartsAre ==
  ASSUME NEW q \in Owners, NEW o \in Owners
  PROVE  chunk[q].p \in Starts /\ (chunk[q].p # chunk[o].p => chunk[q].p \in Starts \ {chunk[o].p})
BY DEF Starts

(***************************************************************************)
(* The rest of an allocation: the new chunk holds what its owner wrote,    *)
(* the others what they held.                                              *)
(***************************************************************************)
LEMMA MallocTakeSound ==
  ASSUME NEW S, NEW F, Sound(S, F), NEW o \in Owners, MallocTake(o)
  PROVE  HeapInv'
<1> DEFINE n == scan[o].n
           cf == scan[o].cf
           size == scan[o].size
<1>1. /\ Good(heap, S, F) /\ Held(heap, chunk, S, F) /\ Contents(data, chunk)
      /\ data \in Memory /\ chunk \in [Owners -> Handles] /\ scan \in [Owners -> Calls] /\ last \in Nat
  BY DEF Sound
<1>2. /\ chunk[o] = None /\ n \in Nat \ {0} /\ Fitting(heap, F, n, cf) /\ size = SizeOf(heap, cf)
      /\ \A q \in Owners : scan[q] # Idle => q = o
  BY <1>1 DEF MallocTake, Sound, Scanning, Calls
<1>3. /\ Allocate(o, n, cf, size) /\ scan' = [scan EXCEPT ![o] = Idle]
  BY DEF MallocTake
<1>4. scan' \in [Owners -> Calls] /\ \A q \in Owners : scan'[q] = Idle
  <2>1. Idle \in Calls
    BY DEF Idle, Calls
  <2> QED
    BY <1>1, <1>2, <1>3, <2>1
<1> HIDE DEF n, cf, size
<1>5. \A h, ch, E : Scanning(h, ch, scan', E)
  BY <1>4 DEF Scanning
<1>6. CASE cf = 0
  <2>1. heap' = heap /\ data' = data /\ chunk' = chunk /\ last' = n
    BY <1>3, <1>6 DEF Allocate, Answer
  <2>2. Sound(S, F)'
    BY <1>1, <1>2, <1>4, <1>5, <2>1 DEF Sound
  <2> QED
    BY <2>2 DEF HeapInv
<1>7. CASE cf # 0
  <2> DEFINE g == Take(heap, cf, SizeOf(heap, cf), n)
             v == [p |-> cf, n |-> n, w |-> n]
             d == Surviving(heap, g, data, Starts)
  <2>1. /\ heap' = Scribble(g) /\ data' = Fill(d, o, cf, n)
        /\ chunk' = [chunk EXCEPT ![o] = v] /\ last' = 0
    BY <1>2, <1>3, <1>7 DEF Allocate, Answer
  <2>2. cf \in F /\ cf \in Nat /\ cf \in Blocks /\ n <= heap.next[cf] - cf
    <3>1. cf \in F /\ SizeOf(heap, cf) >= n
      BY <1>2, <1>7 DEF Fitting
    <3>2. cf \in S \ {0, BLOCK_LAST}
      BY <1>1, <3>1, GoodFacts
    <3>3. cf \in Nat /\ cf \in Blocks /\ heap.next[cf] \in Nat
      BY <1>1, <3>2, Neighbours
    <3> QED
      BY <1>2, <3>1, <3>3 DEF SizeOf
  <2>3. PICK T, G : /\ Good(g, T, G) /\ Used(T, G) = Used(S, F) \union {cf}
                    /\ g.next[cf] = cf + n
                    /\ AllUntouched(heap, g, Used(S, F))
    BY <1>1, <1>2, <2>2, TakeGood
  <2> HIDE DEF g, d
  <2>4. Others(chunk, o) = Used(S, F)
    BY <1>1, <1>2, OthersAre DEF Holds
  <2>5. v \in Handles
    BY <1>2, <2>2 DEF Handles
  <2>6. cf \notin Used(S, F)
    BY <2>2 DEF Used
  <2>7. Held(g, chunk', T, G)
    <3>1. NextHandle(g, T, G, Others(chunk, o), v)
      BY <1>2, <2>3, <2>4, <2>6 DEF NextHandle
    <3>2. SameSizes(heap, g, Others(chunk, o))
      BY <2>3, <2>4 DEF SameSizes, AllUntouched, Untouched
    <3> HIDE DEF v
    <3> QED
      BY <1>1, <2>1, <2>5, <3>1, <3>2, HeldAfter
  <2>8. Good(heap', T, G) /\ Held(heap', chunk', T, G)
    BY <2>1, <2>3, <2>7, EndOfCall
  <2>9. chunk'[o] = v /\ \A q \in Owners \ {o} : chunk'[q] = chunk[q]
    BY <1>1, <2>1
  <2>10. ASSUME NEW q \in Owners PROVE Written(data', q, chunk'[q])
    <3>1. CASE q = o
      <4> SUFFICES ASSUME NEW x \in Blocks, cf <= x, x < cf + n PROVE data'[x] = o
        BY <2>9, <3>1 DEF Written
      <4>1. x \in cf .. cf + n - 1
        BY <1>2, <2>2, BlocksAreNumbers
      <4> QED
        BY <2>1, <4>1 DEF Fill
    <3>2. CASE q # o
      <4> SUFFICES ASSUME NEW x \in Blocks, chunk[q].p <= x, x < chunk[q].p + chunk[q].w
                   PROVE  data'[x] = q
        BY <2>9, <3>2 DEF Written
      <4>1. chunk[q].p \in Used(S, F) /\ x < heap.next[chunk[q].p]
        BY <1>1, OtherBytes
      <4>2. PICK p : p = chunk[q].p
        OBVIOUS
      <4>3. p \in Used(T, G) /\ cf \in Used(T, G) /\ g.next[p] = heap.next[p] /\ p # cf
            /\ Cells(heap, g, p, heap.next[p])
        BY <2>3, <2>6, <4>1, <4>2 DEF AllUntouched, Untouched
      <4>4. ~(cf <= x /\ x < cf + n)
        BY <2>3, <4>1, <4>2, <4>3, Apart
      <4>5. x \notin cf .. cf + n - 1
        BY <1>2, <2>2, <4>4
      <4>6. p \in Starts
        BY <4>2, StartsAre
      <4>7. d[x] = data[x]
        BY <4>1, <4>2, <4>3, <4>6, Survives DEF d
      <4>8. data[x] = q
        BY <1>1 DEF Contents, Written
      <4> QED
        BY <2>1, <4>5, <4>7, <4>8 DEF Fill
    <3> QED
      BY <3>1, <3>2
  <2>11. data' \in Memory
    BY <1>1, <2>1, SurvivingIsMemory, FillIsMemory DEF d
  <2>12. chunk' \in [Owners -> Handles]
    BY <1>1, <2>1, <2>5
  <2>13. Contents(data', chunk')
    BY <2>10 DEF Contents
  <2>14. Sound(T, G)'
    BY <1>4, <1>5, <2>1, <2>8, <2>11, <2>12, <2>13 DEF Sound
  <2> QED
    BY <2>14 DEF HeapInv
<1> QED
  BY <1>6, <1>7

(***************************************************************************)
(* A free takes the chunk from its owner and nothing from the others.      *)
(***************************************************************************)
LEMMA FreeSound ==
  ASSUME ~Preempt, NEW S, NEW F, Sound(S, F), NEW o \in Owners, Free(o)
  PROVE  HeapInv'
<1> DEFINE c == chunk[o].p
           n == chunk[o].n
           g == umm_free_core(heap, c)
           kept == Fill(data, NoOne, c, n)
<1>1. /\ Good(heap, S, F) /\ Held(heap, chunk, S, F) /\ Contents(data, chunk)
      /\ data \in Memory /\ chunk \in [Owners -> Handles] /\ scan \in [Owners -> Calls] /\ last \in Nat
  BY DEF Sound
<1>2. /\ Holds(chunk, o) /\ heap' = Scribble(g)
      /\ data' = Surviving(heap, g, kept, Starts \ {c})
      /\ chunk' = [chunk EXCEPT ![o] = None] /\ last' = 0 /\ scan' = scan
      /\ \A q \in Owners : scan[q] = Idle
  BY DEF Free, Alone, Holds, Answer
<1>3. /\ c \in Used(S, F) /\ heap.next[c] = c + n /\ c \in Nat /\ n \in Nat
      /\ \A q \in Owners : Holds(chunk, q) /\ chunk[q].p = c => q = o
  BY <1>1, <1>2 DEF Held, Handles
<1>4. PICK T, G : /\ Good(g, T, G) /\ Used(T, G) = Used(S, F) \ {c}
                  /\ AllUntouched(heap, g, Used(S, F) \ {c})
  BY <1>1, <1>3, FreeCoreGood
<1>5. Others(chunk, o) = Used(S, F) \ {c}
  BY <1>1, <1>2, OthersAre
<1>6. None \in Handles
  BY DEF Handles, None
<1> HIDE DEF g, kept, c, n
<1>7. Held(g, chunk', T, G)
  <2>1. NextHandle(g, T, G, Others(chunk, o), None)
    BY <1>4, <1>5 DEF NextHandle
  <2>2. SameSizes(heap, g, Others(chunk, o))
    BY <1>4, <1>5 DEF SameSizes, AllUntouched, Untouched
  <2> QED
    BY <1>1, <1>2, <1>6, <2>1, <2>2, HeldAfter
<1>8. Good(heap', T, G) /\ Held(heap', chunk', T, G)
  BY <1>2, <1>4, <1>7, EndOfCall
<1>9. chunk'[o] = None /\ \A q \in Owners \ {o} : chunk'[q] = chunk[q]
  BY <1>1, <1>2
<1>10. ASSUME NEW q \in Owners PROVE Written(data', q, chunk'[q])
  <2>1. CASE q = o
    BY <1>9, <2>1, BlocksAreNumbers DEF Written, None
  <2>2. CASE q # o
    <3> SUFFICES ASSUME NEW x \in Blocks, chunk[q].p <= x, x < chunk[q].p + chunk[q].w
                 PROVE  data'[x] = q
      BY <1>9, <2>2 DEF Written
    <3>1. Holds(chunk, q) /\ chunk[q].p \in Used(S, F) /\ x < heap.next[chunk[q].p]
      BY <1>1, OtherBytes
    <3>2. PICK p : p = chunk[q].p
      OBVIOUS
    <3>3. p # c /\ p \in Used(S, F) \ {c} /\ Cells(heap, g, p, heap.next[p])
      BY <1>3, <1>4, <2>2, <3>1, <3>2 DEF AllUntouched, Untouched
    <3>4. ~(c <= x /\ x < c + n)
      BY <1>1, <1>3, <3>1, <3>2, <3>3, Apart
    <3>5. kept[x] = data[x]
      BY <1>3, <3>4 DEF Fill, kept
    <3>6. p \in Starts \ {c}
      BY <3>2, <3>3, StartsAre DEF c
    <3>7. data'[x] = kept[x]
      BY <1>2, <3>1, <3>2, <3>3, <3>6, Survives
    <3>8. data[x] = q
      BY <1>1 DEF Contents, Written
    <3> QED
      BY <3>5, <3>7, <3>8
  <2> QED
    BY <2>1, <2>2
<1>11. data' \in Memory
  BY <1>1, <1>2, SurvivingIsMemory, FillIsMemory DEF kept
<1>12. chunk' \in [Owners -> Handles] /\ Contents(data', chunk')
  BY <1>1, <1>2, <1>6, <1>10 DEF Contents
<1>13. Scanning(heap', chunk', scan', G)
  BY <1>2 DEF Scanning
<1>14. Sound(T, G)'
  BY <1>1, <1>2, <1>8, <1>11, <1>12, <1>13 DEF Sound
<1> QED
  BY <1>14 DEF HeapInv

(***************************************************************************)
(* A realloc takes the bytes along and leaves the others theirs; when it   *)
(* fails everything stays as it was.                                       *)
(***************************************************************************)
LEMMA ReallocSound ==
  ASSUME ~Preempt, NEW S, NEW F, Sound(S, F), NEW o \in Owners, NEW size \in Sizes,
         Realloc(o, size)
  PROVE  HeapInv'
<1> DEFINE n == umm_blocks(size)
           c == chunk[o].p
           old == SizeOf(heap, c)
           r == ReallocFit(heap, c, n)
           g == Trim(r, n)
           left == Surviving(heap, r.h, data, Starts)
           kept == Fill(left, NoOne, c, old)
           bytes == Moved(data, c, r.p, old)
           moved == [b \in Blocks |-> IF b \in r.p .. r.p + n - 1 THEN bytes[b] ELSE kept[b]]
           starts == (Starts \ {c}) \union {r.p}
           w == IF n < chunk[o].w THEN n ELSE chunk[o].w
           v == [p |-> r.p, n |-> n, w |-> w]
<1>1. /\ Good(heap, S, F) /\ Held(heap, chunk, S, F) /\ Contents(data, chunk)
      /\ data \in Memory /\ chunk \in [Owners -> Handles] /\ scan \in [Owners -> Calls] /\ last \in Nat
  BY DEF Sound
<1>2. /\ Holds(chunk, o) /\ scan' = scan /\ Answer(n, r.p)
      /\ \A q \in Owners : scan[q] = Idle
      /\ IF r.p = 0 THEN UNCHANGED <<heap, data, chunk>>
         ELSE /\ heap' = Scribble(g)
              /\ data' = Surviving(r.h, g, moved, starts)
              /\ chunk' = [chunk EXCEPT ![o] = [p |-> r.p, n |-> n, w |-> IF n < @.w THEN n ELSE @.w]]
  BY DEF Realloc, Alone, Holds
<1>3. n \in Nat \ {0}
  BY SizesAreBlocks
<1>4. /\ c \in Used(S, F) /\ heap.next[c] = c + old /\ c \in Nat /\ old \in Nat
      /\ chunk[o].w \in 0 .. old /\ c \in Blocks
      /\ \A q \in Owners : Holds(chunk, q) /\ chunk[q].p = c => q = o
  <2>1. /\ c \in Used(S, F) /\ heap.next[c] = c + chunk[o].n /\ c \in Nat /\ chunk[o].n \in Nat
        /\ chunk[o].w \in 0 .. chunk[o].n
        /\ \A q \in Owners : Holds(chunk, q) /\ chunk[q].p = c => q = o
    BY <1>1, <1>2 DEF Held, Handles
  <2>2. old = chunk[o].n
    BY <2>1 DEF SizeOf
  <2>3. c \in Blocks
    BY <1>1, <2>1, UsedFacts
  <2> QED
    BY <2>1, <2>2, <2>3
<1>5. \A h, ch, E : Scanning(h, ch, scan', E)
  BY <1>2 DEF Scanning
<1>6. \/ r.p # 0 /\ r.size >= n /\ Replaces(heap, S, F, c, r)
      \/ r.p = 0 /\ \A b \in F : SizeOf(heap, b) < n
  BY <1>1, <1>3, <1>4, ReallocFitGood
<1> HIDE DEF n, c, old, r
<1>7. CASE r.p = 0
  <2>1. heap' = heap /\ data' = data /\ chunk' = chunk /\ last' \in Nat
    BY <1>2, <1>3, <1>7 DEF Answer
  <2>2. Sound(S, F)'
    BY <1>1, <1>2, <1>5, <2>1 DEF Sound
  <2> QED
    BY <2>2 DEF HeapInv
<1>8. CASE r.p # 0
  <2>1. /\ heap' = Scribble(g) /\ data' = Surviving(r.h, g, moved, starts)
        /\ chunk' = [chunk EXCEPT ![o] = v] /\ last' = 0
    BY <1>1, <1>2, <1>8 DEF Answer
  <2>2. PICK T, G : Placed(heap, S, F, c, r, T, G)
    BY <1>6, <1>8 DEF Replaces
  <2>3. /\ Good(r.h, T, G) /\ r.p \in Used(T, G)
        /\ Used(T, G) = (Used(S, F) \ {c}) \union {r.p} /\ r.p \notin Used(S, F) \ {c}
        /\ r.h.next[r.p] = r.p + r.size /\ r.size \in Nat /\ r.size >= n
        /\ AllUntouched(heap, r.h, Used(S, F) \ {c})
    BY <1>6, <1>8, <2>2 DEF Placed
  <2>4. r.p \in Nat /\ r.p \in Blocks
    BY <2>3, UsedFacts
  <2>5. PICK V, D : /\ Good(g, V, D) /\ Used(V, D) = Used(T, G)
                    /\ g.next[r.p] = r.p + n
                    /\ Cells(r.h, g, r.p, r.p + n)
                    /\ AllUntouched(r.h, g, Used(T, G) \ {r.p})
    BY <1>3, <2>3, TrimGood
  <2> HIDE DEF g, kept, bytes, moved, starts, left
  <2>6. Others(chunk, o) = Used(S, F) \ {c}
    BY <1>1, <1>2, OthersAre DEF c
  <2>7. Used(T, G) \ {r.p} = Used(S, F) \ {c}
    BY <2>3
  <2>8. w \in Nat /\ w <= n /\ w <= old /\ w <= chunk[o].w
    BY <1>3, <1>4
  <2> HIDE DEF w
  <2>9. v \in Handles
    BY <1>3, <2>4, <2>8 DEF Handles
  <2>10. Held(g, chunk', V, D)
    <3>1. NextHandle(g, V, D, Others(chunk, o), v)
      BY <1>3, <2>3, <2>5, <2>6, <2>8 DEF NextHandle
    <3>2. SameSizes(heap, g, Others(chunk, o))
      BY <2>3, <2>5, <2>6, <2>7 DEF SameSizes, AllUntouched, Untouched
    <3> HIDE DEF v
    <3> QED
      BY <1>1, <2>1, <2>9, <3>1, <3>2, HeldAfter
  <2>11. Good(heap', V, D) /\ Held(heap', chunk', V, D)
    BY <2>1, <2>5, <2>10, EndOfCall
  <2>12. chunk'[o] = v /\ \A q \in Owners \ {o} : chunk'[q] = chunk[q]
    BY <1>1, <2>1
  <2>13. ASSUME NEW x \in Blocks
         PROVE  moved[x] = IF x \in r.p .. r.p + n - 1 THEN bytes[x] ELSE kept[x]
    BY DEF moved
  <2>14. ASSUME NEW q \in Owners PROVE Written(data', q, chunk'[q])
    <3>1. CASE q = o
      <4> SUFFICES ASSUME NEW x \in Blocks, r.p <= x, x < r.p + w PROVE data'[x] = o
        BY <2>12, <3>1 DEF Written
      <4>1. x \in Nat /\ x \in r.p .. r.p + n - 1 /\ x \in r.p .. r.p + old - 1 /\ x < r.p + n
        BY <1>3, <1>4, <2>4, <2>8, BlocksAreNumbers
      <4>2. PICK y \in Nat : y = x - r.p + c /\ c <= y /\ y < c + w
        <5>1. x - r.p + c \in Nat /\ c <= x - r.p + c /\ x - r.p + c < c + w
          BY <1>4, <2>4, <2>8, <4>1
        <5> QED
          BY <5>1
      <4>3. y < heap.next[c] /\ y < c + chunk[o].w
        BY <1>4, <2>8, <4>2
      <4>4. y \in Blocks
        BY <1>1, <1>4, <4>2, <4>3, Inside
      <4>5. data[y] = o
        BY <1>1, <4>2, <4>3, <4>4 DEF Contents, Written, c
      <4>6. bytes[x] = data[y]
        BY <4>1, <4>2 DEF bytes, Moved
      <4>7. r.p \in starts
        BY DEF starts
      <4>8. data'[x] = moved[x]
        BY <2>1, <2>5, <4>1, <4>7, Survives
      <4> QED
        BY <2>13, <4>1, <4>5, <4>6, <4>8
    <3>2. CASE q # o
      <4> SUFFICES ASSUME NEW x \in Blocks, chunk[q].p <= x, x < chunk[q].p + chunk[q].w
                   PROVE  data'[x] = q
        BY <2>12, <3>2 DEF Written
      <4>1. Holds(chunk, q) /\ chunk[q].p \in Used(S, F) /\ x < heap.next[chunk[q].p]
        BY <1>1, OtherBytes
      <4>2. PICK p : p = chunk[q].p
        OBVIOUS
      <4>3. p # c /\ p \in Used(S, F) \ {c} /\ p \in Used(S, F)
        BY <1>4, <3>2, <4>1, <4>2
      <4>4. p \in Used(T, G) \ {r.p} /\ p \in Used(V, D) /\ r.p \in Used(V, D) /\ p # r.p
        BY <2>3, <2>5, <4>3
      <4>5. /\ r.h.next[p] = heap.next[p] /\ Cells(heap, r.h, p, heap.next[p])
            /\ g.next[p] = heap.next[p] /\ Cells(r.h, g, p, heap.next[p])
        <5>1. Untouched(heap, r.h, p) /\ Untouched(r.h, g, p)
          BY <2>3, <2>5, <4>3, <4>4 DEF AllUntouched
        <5> QED
          BY <5>1 DEF Untouched
      <4>6. ~(r.p <= x /\ x < r.p + n)
        BY <2>5, <4>1, <4>2, <4>4, <4>5, Apart
      <4>7. ~(c <= x /\ x < c + old)
        BY <1>1, <1>4, <4>1, <4>2, <4>3, Apart
      <4>8. x \in Nat /\ x \notin r.p .. r.p + n - 1 /\ x \notin c .. c + old - 1
        BY <1>3, <1>4, <2>4, <4>6, <4>7, BlocksAreNumbers
      <4>9. p \in Starts \ {c} /\ p \in Starts /\ p \in starts
        BY <4>2, <4>3, StartsAre DEF c, starts
      <4>10. data'[x] = moved[x]
        BY <2>1, <4>1, <4>2, <4>5, <4>9, Survives
      <4>11. left[x] = data[x]
        BY <4>1, <4>2, <4>5, <4>9, Survives DEF left
      <4>12. kept[x] = left[x]
        BY <4>8 DEF kept, Fill
      <4>13. data[x] = q
        BY <1>1 DEF Contents, Written
      <4> QED
        BY <2>13, <4>8, <4>10, <4>11, <4>12, <4>13
    <3> QED
      BY <3>1, <3>2
  <2>15. data' \in Memory
    <3>1. left \in Memory
      BY <1>1, SurvivingIsMemory DEF left
    <3>2. kept \in Memory
      BY <3>1, FillIsMemory DEF kept
    <3>3. ASSUME NEW x \in Blocks, x \in r.p .. r.p + n - 1 PROVE bytes[x] \in Owners \union {NoOne}
      <4>1. CASE x \in r.p .. r.p + old - 1
        <5>1. PICK y \in Int : y = x - r.p + c
          BY <1>4, <2>4, <4>1
        <5>2. c <= y /\ y < heap.next[c]
          BY <1>4, <2>4, <4>1, <5>1
        <5>3. y \in Blocks
          BY <1>1, <1>4, <5>2, Inside
        <5> QED
          BY <1>1, <4>1, <5>1, <5>3 DEF bytes, Moved, Memory
      <4>2. CASE x \notin r.p .. r.p + old - 1
        BY <1>1, <4>2 DEF bytes, Moved, Memory
      <4> QED
        BY <4>1, <4>2
    <3>4. moved \in Memory
      BY <3>2, <3>3 DEF moved, Memory
    <3> QED
      BY <2>1, <3>4, SurvivingIsMemory
  <2>16. chunk' \in [Owners -> Handles] /\ Contents(data', chunk')
    BY <1>1, <2>1, <2>9, <2>14 DEF Contents
  <2>17. Sound(V, D)'
    BY <1>1, <1>2, <1>5, <2>1, <2>11, <2>15, <2>16 DEF Sound
  <2> QED
    BY <2>17 DEF HeapInv
<1> QED
  BY <1>7, <1>8

----------------------------------------------------------------------------
(* The theorems: of the calls one at a time, no thread preempting another. *)

(***************************************************************************)
(* The invariant is inductive.                                             *)
(***************************************************************************)
LEMMA NextSound ==
  ASSUME ~Preempt
  PROVE  HeapInv /\ [Next]_vars => HeapInv'
<1> SUFFICES ASSUME HeapInv, [Next]_vars PROVE HeapInv'
  OBVIOUS
<1>1. PICK S, F : Sound(S, F)
  BY DEF HeapInv
<1>2. CASE Next
  <2>1. PICK o \in Owners :
          \/ \E size \in Sizes : MallocScan(o, size) \/ Realloc(o, size)
          \/ MallocTake(o)
          \/ Free(o)
    BY <1>2 DEF Next
  <2>2. CASE MallocTake(o)
    BY <1>1, <2>2, MallocTakeSound
  <2>3. CASE Free(o)
    BY <1>1, <2>3, FreeSound
  <2>4. ASSUME NEW size \in Sizes, MallocScan(o, size) PROVE HeapInv'
    <3>1. Sound(S, F)'
      BY <1>1, <2>4, MallocScanSound
    <3> QED
      BY <3>1 DEF HeapInv
  <2>5. ASSUME NEW size \in Sizes, Realloc(o, size) PROVE HeapInv'
    BY <1>1, <2>5, ReallocSound
  <2> QED
    BY <2>1, <2>2, <2>3, <2>4, <2>5
<1>3. CASE UNCHANGED vars
  <2>1. Sound(S, F)'
    BY <1>1, <1>3 DEF vars, Sound
  <2> QED
    BY <2>1 DEF HeapInv
<1> QED
  BY <1>2, <1>3

(***************************************************************************)
(* The invariant holds in every state: the heap is good, its owners hold   *)
(* its used blocks, and who is in the middle of an allocation is alone     *)
(* (umm_malloc.c).                                                         *)
(***************************************************************************)
THEOREM HeapInvariant ==
  ASSUME ~Preempt
  PROVE  Spec => []HeapInv
<1>1. Init => HeapInv
  BY InitSound
<1>2. HeapInv /\ [Next]_vars => HeapInv'
  BY NextSound
<1> QED
  BY <1>1, <1>2, PTL DEF Spec

(***************************************************************************)
(* The variables are what they are meant to be: links to blocks, chunks    *)
(* inside the heap.                                                        *)
(***************************************************************************)
THEOREM HeapTypeOK ==
  ASSUME ~Preempt
  PROVE  Spec => []TypeOK
<1>1. HeapInv => TypeOK
  <2> SUFFICES ASSUME NEW S, NEW F, Sound(S, F) PROVE TypeOK
    BY DEF HeapInv
  <2>1. heap \in Heaps /\ data \in Memory /\ last \in Nat
    BY DEF Sound, Good
  <2>2. NumBlocks \in Nat /\ NumBlocks > 3
    BY HeapAssumption DEF HeapAssumption
  <2>3. \A b \in S \ {0, BLOCK_LAST} : b \in 1 .. NumBlocks - 2
    <3> SUFFICES ASSUME NEW b \in S \ {0, BLOCK_LAST} PROVE b \in 1 .. NumBlocks - 2
      OBVIOUS
    <3>1. b \in Blocks
      BY GoodFacts DEF Sound
    <3> QED
      BY <2>2, <3>1 DEF Blocks, BLOCK_LAST
  <2>4. ASSUME NEW o \in Owners PROVE chunk[o] = None \/ chunk[o].p \in 1 .. NumBlocks - 2
    BY <2>3 DEF Sound, Held, Holds, Used
  <2>5. ASSUME NEW o \in Owners PROVE scan[o] = Idle \/ scan[o].cf \in 0 .. NumBlocks - 2
    <3>1. scan[o] = Idle \/ scan[o].cf \in F \/ scan[o].cf = 0
      BY DEF Sound, Scanning, Fitting
    <3>2. F \subseteq S \ {0, BLOCK_LAST}
      BY GoodFacts DEF Sound
    <3> QED
      BY <2>2, <2>3, <3>1, <3>2
  <2> QED
    BY <2>1, <2>4, <2>5 DEF TypeOK, Heaps, Memory
<1> QED
  BY <1>1, HeapInvariant, PTL

(***************************************************************************)
(* umm_integrity_check succeeds between any two calls, whatever the calls  *)
(* before (umm_integrity.c, umm_malloc.c).                                 *)
(***************************************************************************)
THEOREM HeapIntegrity ==
  ASSUME ~Preempt
  PROVE  Spec => []Integrity
<1>1. HeapInv => Integrity
  BY GoodIsSound DEF HeapInv, Sound, Integrity
<1> QED
  BY <1>1, HeapInvariant, PTL

(***************************************************************************)
(* Two neighbouring blocks are never both free (umm_assimilate_up and      *)
(* umm_assimilate_down, in umm_free and in the trim of umm_realloc).       *)
(***************************************************************************)
THEOREM FreeIsMerged ==
  ASSUME ~Preempt
  PROVE  Spec => []NoFreeNeighbours
<1>1. HeapInv => NoFreeNeighbours
  <2> SUFFICES ASSUME NEW S, NEW F, Good(heap, S, F),
                      NEW b \in Chunks(heap), heap.free[b], heap.free[heap.next[b]]
               PROVE  FALSE
    BY DEF HeapInv, Sound, NoFreeNeighbours
  <2>1. b \in S \ {0, BLOCK_LAST}
    BY GoodChunks DEF Chunks, BLOCK_LAST
  <2>2. b \in F /\ heap.next[b] \in S /\ heap.next[b] \notin F
    BY <2>1, GoodFacts, Neighbours
  <2> QED
    BY <2>2, GoodFacts
<1> QED
  BY <1>1, HeapInvariant, PTL

(***************************************************************************)
(* An owner's bytes are its own for as long as it holds the chunk, through *)
(* every call of the others and through its own reallocs, which may move   *)
(* or shrink it (umm_realloc).                                             *)
(***************************************************************************)
THEOREM BytesAreKept ==
  ASSUME ~Preempt
  PROVE  Spec => []ContentKept
<1>1. HeapInv => ContentKept
  <2> SUFFICES ASSUME NEW S, NEW F, Sound(S, F), NEW o \in Owners, NEW i \in 0 .. chunk[o].w - 1
               PROVE  data[chunk[o].p + i] = o
    BY DEF HeapInv, ContentKept
  <2>1. /\ Good(heap, S, F) /\ Held(heap, chunk, S, F) /\ Contents(data, chunk)
        /\ chunk \in [Owners -> Handles]
    BY DEF Sound
  <2>2. chunk[o].p \in Nat /\ chunk[o].w \in Nat /\ chunk[o].n \in Nat
    BY <2>1 DEF Handles
  <2>3. Holds(chunk, o)
    BY DEF Holds, None
  <2>4. PICK x \in Nat : x = chunk[o].p + i /\ chunk[o].p <= x /\ x < chunk[o].p + chunk[o].w
    BY <2>2
  <2>5. chunk[o].p \in Used(S, F) /\ x < heap.next[chunk[o].p]
    BY <2>1, <2>2, <2>3, <2>4 DEF Held
  <2>6. x \in Blocks
    BY <2>1, <2>4, <2>5, Inside
  <2> QED
    BY <2>1, <2>4, <2>6 DEF Contents, Written
<1> QED
  BY <1>1, HeapInvariant, PTL

(***************************************************************************)
(* Every used block is held by one owner and has the size that was last    *)
(* asked for: nothing leaks and nothing is short (umm_free, umm_realloc).  *)
(***************************************************************************)
THEOREM NoLeaks ==
  ASSUME ~Preempt
  PROVE  Spec => []NothingLost
<1>1. HeapInv => NothingLost
  <2> SUFFICES ASSUME NEW S, NEW F, Sound(S, F) PROVE NothingLost
    BY DEF HeapInv
  <2>1. /\ Good(heap, S, F) /\ Held(heap, chunk, S, F) /\ chunk \in [Owners -> Handles]
    BY DEF Sound
  <2>2. UsedChunks(heap) = Used(S, F)
    BY <2>1, GoodChunks
  <2>3. Used(S, F) = {chunk[o].p : o \in {x \in Owners : chunk[x] # None}}
    BY <2>1 DEF Held, Holds
  <2>4. ASSUME NEW o \in Owners, chunk[o] # None PROVE SizeOf(heap, chunk[o].p) = chunk[o].n
    <3>1. heap.next[chunk[o].p] = chunk[o].p + chunk[o].n
      BY <2>1, <2>4 DEF Held, Holds
    <3>2. chunk[o].p \in Nat /\ chunk[o].n \in Nat
      BY <2>1 DEF Handles
    <3> QED
      BY <3>1, <3>2 DEF SizeOf
  <2> QED
    BY <2>2, <2>3, <2>4 DEF NothingLost
<1> QED
  BY <1>1, HeapInvariant, PTL

(***************************************************************************)
(* No two owners hold the same memory, when calls do not preempt each      *)
(* other; the run MCHeapRace shows that they do when they may              *)
(* (umm_malloc_cfg.h).                                                     *)
(***************************************************************************)
THEOREM MemoryIsNotShared ==
  ASSUME ~Preempt
  PROVE  Spec => []NoSharedMemory
<1>1. HeapInv => NoSharedMemory
  <2> SUFFICES ASSUME NEW S, NEW F, Sound(S, F), NEW o \in Owners, NEW q \in Owners,
                      o # q, chunk[o] # None, chunk[q] # None,
                      NEW x \in chunk[o].p .. chunk[o].p + chunk[o].n - 1,
                      x \in chunk[q].p .. chunk[q].p + chunk[q].n - 1
               PROVE  FALSE
    BY DEF HeapInv, NoSharedMemory
  <2>1. /\ Good(heap, S, F) /\ Held(heap, chunk, S, F) /\ chunk \in [Owners -> Handles]
    BY DEF Sound
  <2>2. PICK b, d : b = chunk[o].p /\ d = chunk[q].p
    OBVIOUS
  <2>3. /\ b \in Used(S, F) /\ d \in Used(S, F) /\ b # d
        /\ heap.next[b] = b + chunk[o].n /\ heap.next[d] = d + chunk[q].n
    BY <2>1, <2>2 DEF Held, Holds
  <2>4. b \in Nat /\ d \in Nat /\ chunk[o].n \in Nat /\ chunk[q].n \in Nat
    BY <2>1, <2>2 DEF Handles
  <2>5. x \in Int /\ b <= x /\ x < heap.next[b] /\ d <= x /\ x < heap.next[d]
    BY <2>2, <2>3, <2>4
  <2>6. x \in Blocks
    BY <2>1, <2>3, <2>5, Inside
  <2> QED
    BY <2>1, <2>3, <2>5, <2>6, Apart
<1> QED
  BY <1>1, HeapInvariant, PTL

(***************************************************************************)
(* An allocation fails only when every free block is too small (the scan   *)
(* of umm_malloc, and the last resort of umm_realloc).                     *)
(***************************************************************************)
THEOREM OnlyFullHeapsFail ==
  ASSUME ~Preempt
  PROVE  Spec => FailsOnlyWhenFull
<1> DEFINE A == last' # 0 /\ last' # last => \A b \in FreeChunks(heap) : SizeOf(heap, b) < last'
<1>1. HeapInv /\ [Next]_vars => [A]_vars
  <2> SUFFICES ASSUME HeapInv, Next, last' # 0, last' # last,
                      NEW b \in FreeChunks(heap)
               PROVE  SizeOf(heap, b) < last'
    BY DEF vars
  <2>1. PICK S, F : Sound(S, F)
    BY DEF HeapInv
  <2>2. Good(heap, S, F) /\ b \in F
    BY <2>1, GoodChunks DEF Sound
  <2>3. PICK o \in Owners :
          \/ \E size \in Sizes : MallocScan(o, size) \/ Realloc(o, size)
          \/ MallocTake(o)
          \/ Free(o)
    BY DEF Next
  <2>4. CASE MallocTake(o)
    <3>1. scan[o] # Idle /\ last' = scan[o].n /\ scan[o].cf = 0
      BY <2>4 DEF MallocTake, Allocate, Answer
    <3>2. Fitting(heap, F, scan[o].n, 0)
      BY <2>1, <3>1 DEF Sound, Scanning
    <3>3. 0 \notin F
      BY <2>2, GoodFacts
    <3> QED
      BY <2>2, <3>1, <3>2, <3>3 DEF Fitting
  <2>5. ~Free(o)
    BY DEF Free, Answer
  <2>6. ASSUME NEW size \in Sizes PROVE ~MallocScan(o, size)
    BY DEF MallocScan
  <2>7. ASSUME NEW size \in Sizes, Realloc(o, size) PROVE SizeOf(heap, b) < last'
    <3> DEFINE n == umm_blocks(size)
               c == chunk[o].p
               r == ReallocFit(heap, c, n)
    <3>1. chunk[o] # None /\ Answer(n, r.p)
      BY <2>7 DEF Realloc
    <3>2. n \in Nat \ {0}
      BY SizesAreBlocks
    <3>3. c \in Used(S, F)
      BY <2>1, <3>1 DEF Sound, Held, Holds
    <3> HIDE DEF n
    <3>4. \/ r.p # 0 /\ r.size >= n /\ Replaces(heap, S, F, c, r)
          \/ r.p = 0 /\ \A d \in F : SizeOf(heap, d) < n
      BY <2>2, <3>2, <3>3, ReallocFitGood
    <3> HIDE DEF r
    <3>5. last' = n /\ r.p = 0
      BY <3>1 DEF Answer
    <3> QED
      BY <2>2, <3>4, <3>5
  <2> QED
    BY <2>3, <2>4, <2>5, <2>6, <2>7
<1>2. Spec => [][A]_vars
  BY <1>1, HeapInvariant, PTL DEF Spec
<1> QED
  BY <1>2 DEF FailsOnlyWhenFull

----------------------------------------------------------------------------
(* The fragmentation metric.                                               *)

Powers == <<32768, 16384, 8192, 4096, 2048, 1024, 512, 256, 128, 64, 32, 16, 8, 4, 2, 1>>

(***************************************************************************)
(* The weights of the digits, from the first the code tries down.          *)
(***************************************************************************)
LEMMA PowersAre ==
  /\ \A i \in 1 .. 16 : Powers[i] \in Nat \ {0}
  /\ \A i \in 1 .. 15 : Powers[i] = 2 * Powers[i + 1]
  /\ Powers[1] = 32768 /\ Powers[16] = 1
BY DEF Powers

(* s is the root of x, rounded down.                                       *)
IsRoot(x, s) == s \in Nat /\ s * s <= x /\ x < (s + 1) * (s + 1)

(* The digit of weight u has been reached: R is the root of x so far.      *)
Reached(x, r, u, R) ==
  /\ u \in Nat \ {0} /\ R \in Nat
  /\ r.one = u * u /\ r.res = 2 * (R * u) /\ r.op = x - R * R
  /\ R * R <= x /\ x < (R + 2 * u) * (R + 2 * u)
Below(x, r, u) == \E R \in Nat : Reached(x, r, u, R)

(***************************************************************************)
(* One digit: the next has half the weight, after the last the root is     *)
(* there.                                                                  *)
(***************************************************************************)
LEMMA DigitReached ==
  ASSUME NEW x \in Nat, NEW r, NEW u \in Nat \ {0}, Below(x, r, u)
  PROVE  LET d == Digit(r.one, r.op, r.res) IN
         /\ \A t \in Nat \ {0} : u = 2 * t => Below(x, d, t)
         /\ u = 1 => d.one = 0 /\ IsRoot(x, d.res)
<1> DEFINE d == Digit(r.one, r.op, r.res)
<1>1. PICK R \in Nat : Reached(x, r, u, R)
  BY DEF Below
<1>2. PICK a \in Nat, b \in Nat : a = R * u /\ b = u * u
  OBVIOUS
<1>3. /\ r.one = b /\ r.res = 2 * a /\ r.op = x - R * R
      /\ R * R <= x /\ x < (R + 2 * u) * (R + 2 * u)
  BY <1>1, <1>2 DEF Reached
<1>4. (R + u) * (R + u) = R * R + 2 * a + b
  BY <1>2
<1>5. d = IF r.op >= r.res + r.one
          THEN [op |-> r.op - (r.res + r.one), res |-> (r.res + 2 * r.one) \div 2, one |-> r.one \div 4]
          ELSE [op |-> r.op, res |-> r.res \div 2, one |-> r.one \div 4]
  BY DEF Digit
<1> HIDE DEF d
<1>6. PICK Q \in Nat : /\ Q * Q <= x /\ d.op = x - Q * Q /\ d.res = Q * u /\ d.one = b \div 4
                       /\ x < (Q + u) * (Q + u)
  <2>1. CASE r.op >= r.res + r.one
    <3>1. d.op = r.op - (r.res + r.one) /\ d.res = (r.res + 2 * r.one) \div 2 /\ d.one = r.one \div 4
      BY <1>5, <2>1
    <3>2. (R + u) * (R + u) <= x /\ d.op = x - (R + u) * (R + u)
      BY <1>3, <1>4, <2>1, <3>1
    <3>3. (2 * a + 2 * b) \div 2 = a + b
      OBVIOUS
    <3>4. (R + u) * u = a + b
      BY <1>2
    <3>5. d.res = (R + u) * u
      BY <1>3, <3>1, <3>3, <3>4
    <3>6. (R + u) + u = R + 2 * u /\ R + u \in Nat
      OBVIOUS
    <3>7. x < ((R + u) + u) * ((R + u) + u)
      BY <1>3, <3>6
    <3> QED
      BY <1>3, <3>1, <3>2, <3>5, <3>6, <3>7
  <2>2. CASE ~(r.op >= r.res + r.one)
    <3>1. d.op = r.op /\ d.res = r.res \div 2 /\ d.one = r.one \div 4
      BY <1>5, <2>2
    <3>2. x < (R + u) * (R + u)
      BY <1>3, <1>4, <2>2
    <3>3. (2 * a) \div 2 = a
      OBVIOUS
    <3>4. d.res = R * u
      BY <1>2, <1>3, <3>1, <3>3
    <3> QED
      BY <1>3, <3>1, <3>2, <3>4
  <2> QED
    BY <2>1, <2>2
<1>7. ASSUME NEW t \in Nat \ {0}, u = 2 * t PROVE Below(x, d, t)
  <2>1. PICK e \in Nat : e = t * t
    OBVIOUS
  <2>2. b = 4 * e
    BY <1>2, <1>7, <2>1
  <2>3. (4 * e) \div 4 = e
    OBVIOUS
  <2>4. d.one = t * t
    BY <1>6, <2>1, <2>2, <2>3
  <2>5. d.res = 2 * (Q * t)
    <3>1. Q * (2 * t) = 2 * (Q * t)
      OBVIOUS
    <3> QED
      BY <1>6, <1>7, <3>1
  <2>6. Reached(x, d, t, Q)
    BY <1>6, <1>7, <2>4, <2>5 DEF Reached
  <2> QED
    BY <2>6 DEF Below
<1>8. ASSUME u = 1 PROVE d.one = 0 /\ IsRoot(x, d.res)
  <2>1. b = 1 /\ 1 \div 4 = 0 /\ Q * 1 = Q
    BY <1>2, <1>8
  <2>2. d.res = Q /\ d.one = 0
    BY <1>6, <1>8, <2>1
  <2> QED
    BY <1>6, <1>8, <2>2 DEF IsRoot
<1> QED
  BY <1>7, <1>8 DEF d

(***************************************************************************)
(* The first digit is the highest power of four that is not above x.       *)
(***************************************************************************)
FirstRule(x, first) ==
  /\ first[0] = 32768 * 32768
  /\ \A k \in 1 .. 16 : first[k] = IF first[k - 1] > x THEN first[k - 1] \div 4 ELSE first[k - 1]

(***************************************************************************)
(* The first digit found by that rule.                                     *)
(***************************************************************************)
LEMMA FirstDigit ==
  ASSUME NEW x \in Nat \ {0}, x < 65536 * 65536, NEW first, FirstRule(x, first)
  PROVE  \E i \in 1 .. 16 : /\ first[16] = Powers[i] * Powers[i]
                            /\ Powers[i] * Powers[i] <= x
                            /\ x < 4 * (Powers[i] * Powers[i])
<1> DEFINE At(k, i) == /\ first[k] = Powers[i] * Powers[i] /\ x < 4 * first[k]
                       /\ first[k] <= x \/ i = k + 1
           P == {k \in 0 .. 16 : \E i \in 1 .. 16 : At(k, i)}
<1>1. 0 \in P
  <2>1. At(0, 1)
    BY PowersAre DEF FirstRule
  <2> QED
    BY <2>1
<1>2. ASSUME NEW k \in 0 .. 15, k \in P PROVE k + 1 \in P
  <2>1. PICK i \in 1 .. 16 : At(k, i)
    BY <1>2
  <2>2. first[k + 1] = IF first[k] > x THEN first[k] \div 4 ELSE first[k]
    BY DEF FirstRule
  <2>3. PICK u \in Nat \ {0}, q \in Nat : u = Powers[i] /\ q = u * u /\ first[k] = q
    BY <2>1, PowersAre
  <2>4. CASE q <= x
    <3>1. first[k + 1] = first[k]
      BY <2>2, <2>3, <2>4
    <3>2. At(k + 1, i)
      BY <2>1, <2>3, <2>4, <3>1
    <3> QED
      BY <3>2
  <2>5. CASE ~(q <= x)
    <3>1. i = k + 1
      BY <2>1, <2>3, <2>5
    <3>2. i # 16
      <4>1. SUFFICES ASSUME i = 16 PROVE FALSE
        OBVIOUS
      <4>2. u = 1 /\ q = 1
        BY <2>3, <4>1, PowersAre
      <4> QED
        BY <2>5, <4>2
    <3>3. PICK t \in Nat \ {0} : t = Powers[i + 1] /\ u = 2 * t
      BY <2>3, <3>2, PowersAre
    <3>4. PICK e \in Nat : e = t * t
      OBVIOUS
    <3>5. q = 4 * e
      BY <2>3, <3>3, <3>4
    <3>6. (4 * e) \div 4 = e
      OBVIOUS
    <3>7. first[k + 1] = e
      BY <2>2, <2>3, <2>5, <3>5, <3>6
    <3>8. At(k + 1, i + 1)
      BY <2>3, <2>5, <3>1, <3>3, <3>4, <3>5, <3>7
    <3>9. i + 1 \in 1 .. 16
      BY <3>2
    <3> QED
      BY <3>8, <3>9
  <2> QED
    BY <2>4, <2>5
<1>3. 16 \in P
  <2> HIDE DEF P
  <2>1. 0 .. 16 \subseteq P
    BY <1>1, <1>2, Upward
  <2> QED
    BY <2>1
<1>4. PICK i \in 1 .. 16 : At(16, i)
  BY <1>3
<1> QED
  BY <1>4

(***************************************************************************)
(* The digits from there on give the root.                                 *)
(***************************************************************************)
RootRule(x, one, root) ==
  /\ root[0] = [op |-> x, res |-> 0, one |-> one]
  /\ \A k \in 1 .. 16 : root[k] = IF root[k - 1].one = 0 THEN root[k - 1]
                                  ELSE Digit(root[k - 1].one, root[k - 1].op, root[k - 1].res)

(***************************************************************************)
(* The root found by that rule.                                            *)
(***************************************************************************)
LEMMA LastDigit ==
  ASSUME NEW x \in Nat \ {0}, NEW root, NEW j \in 1 .. 16, NEW u \in Nat \ {0}, u = Powers[j],
         x < 4 * (u * u), RootRule(x, u * u, root)
  PROVE  IsRoot(x, root[16].res)
<1> DEFINE At(k) == \/ root[k].one = 0 /\ IsRoot(x, root[k].res)
                    \/ \E i \in 1 .. 16 : i >= k + 1 /\ Below(x, root[k], Powers[i])
           P == {k \in 0 .. 16 : At(k)}
<1>1. 0 \in P
  <2>1. root[0].op = x /\ root[0].res = 0 /\ root[0].one = u * u
    BY DEF RootRule
  <2>2. (0 + 2 * u) * (0 + 2 * u) = 4 * (u * u) /\ 2 * (0 * u) = 0 /\ x - 0 * 0 = x
    OBVIOUS
  <2>3. Reached(x, root[0], u, 0)
    BY <2>1, <2>2 DEF Reached
  <2>4. Below(x, root[0], Powers[j])
    BY <2>3 DEF Below
  <2> QED
    BY <2>4
<1>2. ASSUME NEW k \in 0 .. 15, k \in P PROVE k + 1 \in P
  <2> DEFINE r == root[k]
             d == Digit(r.one, r.op, r.res)
  <2>1. root[k + 1] = IF r.one = 0 THEN r ELSE d
    BY DEF RootRule
  <2>2. CASE r.one = 0
    <3>1. IsRoot(x, r.res)
      <4>1. ASSUME NEW v \in Nat \ {0} PROVE ~Below(x, r, v)
        <5>1. v * v # 0
          OBVIOUS
        <5> QED
          BY <2>2, <5>1 DEF Below, Reached
      <4> QED
        BY <1>2, <4>1, PowersAre
    <3> QED
      BY <2>1, <2>2, <3>1
  <2>3. CASE r.one # 0
    <3>1. PICK i \in 1 .. 16 : i >= k + 1 /\ Below(x, r, Powers[i])
      BY <1>2, <2>3
    <3>2. root[k + 1] = d
      BY <2>1, <2>3
    <3>3. PICK v \in Nat \ {0} : v = Powers[i]
      BY PowersAre
    <3>4. /\ \A t \in Nat \ {0} : v = 2 * t => Below(x, d, t)
          /\ v = 1 => d.one = 0 /\ IsRoot(x, d.res)
      BY <3>1, <3>3, DigitReached
    <3> HIDE DEF d
    <3>5. CASE i = 16
      <4>1. v = 1
        BY <3>3, <3>5, PowersAre
      <4> QED
        BY <3>2, <3>4, <4>1
    <3>6. CASE i # 16
      <4>1. i + 1 \in 1 .. 16 /\ i + 1 >= (k + 1) + 1
        BY <3>1, <3>6
      <4>2. v = 2 * Powers[i + 1] /\ Powers[i + 1] \in Nat \ {0}
        BY <3>3, <3>6, <4>1, PowersAre
      <4>3. Below(x, root[k + 1], Powers[i + 1])
        BY <3>2, <3>4, <4>2
      <4> QED
        BY <4>1, <4>3
    <3> QED
      BY <3>5, <3>6
  <2> QED
    BY <2>2, <2>3
<1>3. 16 \in P
  <2> HIDE DEF P
  <2>1. 0 .. 16 \subseteq P
    BY <1>1, <1>2, Upward
  <2> QED
    BY <2>1
<1>4. At(16)
  BY <1>3
<1> QED
  BY <1>4

FirstBody(x, h) ==
  [k \in 0 .. 16 |-> IF k = 0 THEN 32768 * 32768
                     ELSE LET one == h[k - 1] IN IF one > x THEN one \div 4 ELSE one]
RootBody(x, one, h) ==
  [k \in 0 .. 16 |-> IF k = 0 THEN [op |-> x, res |-> 0, one |-> one]
                     ELSE LET r == h[k - 1]
                          IN  IF r.one = 0 THEN r ELSE Digit(r.one, r.op, r.res)]
FirstOf(x) == CHOOSE h : h = FirstBody(x, h)
RootOf(x, one) == CHOOSE h : h = RootBody(x, one, h)

(***************************************************************************)
(* The two loops of the root do what their bodies say.                     *)
(***************************************************************************)
LEMMA FirstLoop ==
  ASSUME NEW x \in Nat
  PROVE  FirstRule(x, FirstOf(x))
<1> DEFINE rule == [k \in 1 .. 16 |-> [one \in Int |-> IF one > x THEN one \div 4 ELSE one]]
           start == 32768 * 32768
<1>1. start \in Int /\ rule \in [1 .. 16 -> [Int -> Int]]
  OBVIOUS
<1>2. PICK g \in [0 .. 16 -> Int] : g[0] = start /\ \A k \in 1 .. 16 : g[k] = rule[k][g[k - 1]]
  <2> HIDE DEF rule, start
  <2>1. HasFunction(16, Int, start, rule)
    BY <1>1, Recursion
  <2> QED
    BY <2>1 DEF HasFunction, ByRule
<1>3. g = FirstBody(x, g)
  <2>1. ASSUME NEW k \in 0 .. 16 PROVE g[k] = FirstBody(x, g)[k]
    <3>1. CASE k = 0
      BY <1>2, <3>1 DEF FirstBody
    <3>2. CASE k # 0
      <4>1. k \in 1 .. 16 /\ k - 1 \in 0 .. 16
        BY <3>2
      <4>2. g[k] = rule[k][g[k - 1]] /\ g[k - 1] \in Int
        BY <1>2, <4>1
      <4>3. rule[k][g[k - 1]] = IF g[k - 1] > x THEN g[k - 1] \div 4 ELSE g[k - 1]
        BY <4>1, <4>2
      <4> HIDE DEF rule
      <4> QED
        BY <3>2, <4>2, <4>3 DEF FirstBody
    <3> QED
      BY <3>1, <3>2
  <2>2. DOMAIN FirstBody(x, g) = 0 .. 16 /\ FirstBody(x, g) = [k \in 0 .. 16 |-> FirstBody(x, g)[k]]
    BY DEF FirstBody
  <2> QED
    BY <1>2, <2>1, <2>2
<1>4. PICK c : c = FirstOf(x) /\ c = FirstBody(x, c)
  BY <1>3 DEF FirstOf
<1>5. ASSUME NEW k \in 0 .. 16
      PROVE  c[k] = IF k = 0 THEN start
                    ELSE IF c[k - 1] > x THEN c[k - 1] \div 4 ELSE c[k - 1]
  <2>1. c[k] = FirstBody(x, c)[k]
    BY <1>4
  <2> QED
    BY <2>1 DEF FirstBody
<1>6. FirstRule(x, c)
  <2>1. c[0] = start
    BY <1>5
  <2>2. ASSUME NEW k \in 1 .. 16
        PROVE  c[k] = IF c[k - 1] > x THEN c[k - 1] \div 4 ELSE c[k - 1]
    BY <1>5
  <2> QED
    BY <2>1, <2>2 DEF FirstRule
<1> QED
  BY <1>4, <1>6

(***************************************************************************)
(* The loops of the root do what their bodies say.                         *)
(***************************************************************************)
LEMMA RootLoop ==
  ASSUME NEW x \in Nat, NEW one \in Nat
  PROVE  RootRule(x, one, RootOf(x, one))
<1> DEFINE R == [op : Int, res : Int, one : Int]
           start == [op |-> x, res |-> 0, one |-> one]
           rule == [k \in 1 .. 16 |-> [r \in R |-> IF r.one = 0 THEN r ELSE Digit(r.one, r.op, r.res)]]
<1>1. start \in R /\ \A r \in R : Digit(r.one, r.op, r.res) \in R
  BY DEF Digit
<1>2. rule \in [1 .. 16 -> [R -> R]]
  <2> HIDE DEF R
  <2> QED
    BY <1>1
<1>3. PICK g \in [0 .. 16 -> R] : g[0] = start /\ \A k \in 1 .. 16 : g[k] = rule[k][g[k - 1]]
  <2> HIDE DEF rule, start, R
  <2>1. HasFunction(16, R, start, rule)
    BY <1>1, <1>2, Recursion
  <2> QED
    BY <2>1 DEF HasFunction, ByRule
<1>4. g = RootBody(x, one, g)
  <2>1. ASSUME NEW k \in 0 .. 16 PROVE g[k] = RootBody(x, one, g)[k]
    <3>1. CASE k = 0
      BY <1>3, <3>1 DEF RootBody
    <3>2. CASE k # 0
      <4> HIDE DEF R
      <4>1. k \in 1 .. 16 /\ k - 1 \in 0 .. 16
        BY <3>2
      <4>2. g[k] = rule[k][g[k - 1]] /\ g[k - 1] \in R
        BY <1>3, <4>1
      <4>3. rule[k][g[k - 1]] = IF g[k - 1].one = 0 THEN g[k - 1]
                                ELSE Digit(g[k - 1].one, g[k - 1].op, g[k - 1].res)
        BY <4>1, <4>2
      <4> HIDE DEF rule
      <4> QED
        BY <3>2, <4>2, <4>3 DEF RootBody
    <3> QED
      BY <3>1, <3>2
  <2>2. DOMAIN RootBody(x, one, g) = 0 .. 16
        /\ RootBody(x, one, g) = [k \in 0 .. 16 |-> RootBody(x, one, g)[k]]
    BY DEF RootBody
  <2> QED
    BY <1>3, <2>1, <2>2
<1>5. PICK c : c = RootOf(x, one) /\ c = RootBody(x, one, c)
  BY <1>4 DEF RootOf
<1>6. ASSUME NEW k \in 0 .. 16
      PROVE  c[k] = IF k = 0 THEN start
                    ELSE IF c[k - 1].one = 0 THEN c[k - 1]
                    ELSE Digit(c[k - 1].one, c[k - 1].op, c[k - 1].res)
  <2>1. c[k] = RootBody(x, one, c)[k]
    BY <1>5
  <2> QED
    BY <2>1 DEF RootBody
<1>7. RootRule(x, one, c)
  <2>1. c[0] = start
    BY <1>6
  <2>2. ASSUME NEW k \in 1 .. 16
        PROVE  c[k] = IF c[k - 1].one = 0 THEN c[k - 1]
                      ELSE Digit(c[k - 1].one, c[k - 1].op, c[k - 1].res)
    BY <1>6
  <2> QED
    BY <2>1, <2>2 DEF RootRule
<1> QED
  BY <1>5, <1>7

(***************************************************************************)
(* iSqrt is the root, rounded down.                                        *)
(***************************************************************************)
LEMMA RootIsRoot ==
  ASSUME NEW x \in Nat \ {0}, x < 65536 * 65536
  PROVE  IsRoot(x, iSqrt(x))
<1>1. PICK first : first = FirstOf(x) /\ FirstRule(x, first)
  BY FirstLoop
<1>2. PICK i \in 1 .. 16 : /\ first[16] = Powers[i] * Powers[i]
                           /\ x < 4 * (Powers[i] * Powers[i])
  BY <1>1, FirstDigit
<1>3. PICK u \in Nat \ {0} : u = Powers[i]
  BY PowersAre
<1>4. PICK q \in Nat : q = u * u /\ first[16] = q /\ x < 4 * q
  BY <1>2, <1>3
<1>5. PICK root : root = RootOf(x, q) /\ RootRule(x, q, root)
  BY RootLoop
<1>6. IsRoot(x, root[16].res)
  BY <1>3, <1>4, <1>5, LastDigit
<1>7. iSqrt(x) = RootOf(x, FirstOf(x)[16])[16].res
  BY DEF iSqrt, FirstBody, RootBody, FirstOf, RootOf
<1> QED
  BY <1>1, <1>4, <1>5, <1>6, <1>7

(* One block of the chain in the statistics.                               *)
Counted(h, i, b) ==
  LET curBlocks == SizeOf(h, b)
  IN  IF ~h.free[b] THEN i
      ELSE [freeBlocks |-> i.freeBlocks + curBlocks,
            freeBlocksSquared |-> i.freeBlocksSquared + curBlocks * curBlocks]
Zero == [freeBlocks |-> 0, freeBlocksSquared |-> 0]
InfoBody(h, chain, f) ==
  [k \in 0 .. Len(chain) |-> IF k = 0 THEN Zero ELSE Counted(h, f[k - 1], chain[k])]
InfoOf(h, chain) == CHOOSE f : f = InfoBody(h, chain, f)
InfoRule(h, chain, info) ==
  info[0] = Zero /\ \A k \in 1 .. Len(chain) : info[k] = Counted(h, info[k - 1], chain[k])

(***************************************************************************)
(* The loop of umm_info does what its body says.                           *)
(***************************************************************************)
LEMMA InfoLoop ==
  ASSUME NEW h, NEW chain, Len(chain) \in Nat,
         \A k \in 1 .. Len(chain) : SizeOf(h, chain[k]) \in Int
  PROVE  InfoRule(h, chain, InfoOf(h, chain))
<1> DEFINE R == [freeBlocks : Int, freeBlocksSquared : Int]
           n == Len(chain)
           rule == [k \in 1 .. n |-> [i \in R |-> Counted(h, i, chain[k])]]
<1>1. Zero \in R /\ n \in Nat
  BY DEF Zero
<1>2. ASSUME NEW k \in 1 .. n, NEW i \in R PROVE Counted(h, i, chain[k]) \in R
  <2>1. PICK s \in Int : s = SizeOf(h, chain[k])
    OBVIOUS
  <2>2. s * s \in Int
    OBVIOUS
  <2> QED
    BY <2>1, <2>2 DEF Counted
<1>3. rule \in [1 .. n -> [R -> R]]
  <2> HIDE DEF R, n
  <2> QED
    BY <1>2
<1>4. PICK g \in [0 .. n -> R] : g[0] = Zero /\ \A k \in 1 .. n : g[k] = rule[k][g[k - 1]]
  <2> HIDE DEF rule, R, n
  <2>1. HasFunction(n, R, Zero, rule)
    BY <1>1, <1>3, Recursion
  <2> QED
    BY <2>1 DEF HasFunction, ByRule
<1>5. g = InfoBody(h, chain, g)
  <2>1. ASSUME NEW k \in 0 .. n PROVE g[k] = InfoBody(h, chain, g)[k]
    <3>1. CASE k = 0
      BY <1>4, <3>1 DEF InfoBody
    <3>2. CASE k # 0
      <4> HIDE DEF R
      <4>1. k \in 1 .. n /\ k - 1 \in 0 .. n
        BY <3>2
      <4>2. g[k] = rule[k][g[k - 1]] /\ g[k - 1] \in R
        BY <1>4, <4>1
      <4>3. rule[k][g[k - 1]] = Counted(h, g[k - 1], chain[k])
        BY <4>1, <4>2
      <4> HIDE DEF rule
      <4> QED
        BY <3>2, <4>2, <4>3 DEF InfoBody
    <3> QED
      BY <3>1, <3>2
  <2>2. DOMAIN InfoBody(h, chain, g) = 0 .. n
        /\ InfoBody(h, chain, g) = [k \in 0 .. n |-> InfoBody(h, chain, g)[k]]
    BY DEF InfoBody
  <2> QED
    BY <1>4, <2>1, <2>2
<1>6. PICK c : c = InfoOf(h, chain) /\ c = InfoBody(h, chain, c)
  BY <1>5 DEF InfoOf
<1>7. ASSUME NEW k \in 0 .. n
      PROVE  c[k] = IF k = 0 THEN Zero ELSE Counted(h, c[k - 1], chain[k])
  <2>1. c[k] = InfoBody(h, chain, c)[k]
    BY <1>6
  <2> QED
    BY <2>1 DEF InfoBody
<1>8. c[0] = Zero
  BY <1>7
<1>9. ASSUME NEW k \in 1 .. n PROVE c[k] = Counted(h, c[k - 1], chain[k])
  BY <1>7
<1> QED
  BY <1>6, <1>8, <1>9 DEF InfoRule

(* A free blocks, the squares of their sizes B, of the first k chunks.     *)
Summed(c, F, k, A, B) ==
  /\ A \in Nat /\ B \in Nat /\ B <= A * A /\ (B = 0 => A = 0)
  /\ A = 0 <=> \A j \in 1 .. k : c[j] \notin F
  /\ B = A * A <=> \A j, l \in 1 .. k : c[j] \in F /\ c[l] \in F => j = l

(***************************************************************************)
(* The sum of the squares is below the square of the sum as soon as there  *)
(* are two free chunks.                                                    *)
(***************************************************************************)
LEMMA SummedFree ==
  ASSUME NEW c, NEW F, NEW k \in Nat, NEW A \in Nat, NEW B \in Nat, Summed(c, F, k, A, B),
         c[k + 1] \in F, NEW s \in Nat \ {0}
  PROVE  Summed(c, F, k + 1, A + s, B + s * s)
<1>1. PICK a \in Nat, b \in Nat, m \in Nat : a = A * A /\ b = s * s /\ m = A * s
  OBVIOUS
<1>2. (A + s) * (A + s) = a + 2 * m + b
  BY <1>1
<1>3. B <= a /\ (A = 0 <=> \A j \in 1 .. k : c[j] \notin F)
      /\ (B = a <=> \A j, l \in 1 .. k : c[j] \in F /\ c[l] \in F => j = l)
  BY <1>1 DEF Summed
<1>4. m = 0 <=> A = 0
  BY <1>1
<1>5. A = 0 => B = 0 /\ a = 0
  BY <1>1, <1>3
<1>6. B + b = a + 2 * m + b <=> A = 0
  BY <1>3, <1>4, <1>5
<1>7. A + s # 0 /\ k + 1 \in 1 .. k + 1
  OBVIOUS
<1>8. A = 0 <=> \A j, l \in 1 .. k + 1 : c[j] \in F /\ c[l] \in F => j = l
  <2>1. ASSUME A = 0, NEW j \in 1 .. k + 1, c[j] \in F PROVE j = k + 1
    <3>1. j \notin 1 .. k
      BY <1>3, <2>1
    <3> QED
      BY <3>1
  <2>2. ASSUME \A j, l \in 1 .. k + 1 : c[j] \in F /\ c[l] \in F => j = l PROVE A = 0
    <3>1. ASSUME NEW j \in 1 .. k PROVE c[j] \notin F
      <4>1. j \in 1 .. k + 1 /\ j # k + 1
        OBVIOUS
      <4> QED
        BY <1>7, <2>2, <4>1
    <3> QED
      BY <1>3, <3>1
  <2>3. ASSUME A = 0, NEW j \in 1 .. k + 1, NEW l \in 1 .. k + 1, c[j] \in F, c[l] \in F PROVE j = l
    BY <2>1, <2>3
  <2> QED
    BY <2>2, <2>3
<1>9. A + s \in Nat /\ B + b \in Nat /\ B + b <= a + 2 * m + b /\ B + b # 0
  <2>1. b # 0
    BY <1>1
  <2> QED
    BY <1>3, <2>1
<1>10. B + b = a + 2 * m + b <=> \A j, l \in 1 .. k + 1 : c[j] \in F /\ c[l] \in F => j = l
  BY <1>6, <1>8
<1>11. A + s = 0 <=> \A j \in 1 .. k + 1 : c[j] \notin F
  BY <1>7
<1> QED
  BY <1>1, <1>2, <1>9, <1>10, <1>11 DEF Summed

(***************************************************************************)
(* A used block leaves the sums alone.                                     *)
(***************************************************************************)
LEMMA SummedUsed ==
  ASSUME NEW c, NEW F, NEW k \in Nat, NEW A, NEW B, Summed(c, F, k, A, B), c[k + 1] \notin F
  PROVE  Summed(c, F, k + 1, A, B)
<1>1. \A j \in 1 .. k + 1 : c[j] \in F => j \in 1 .. k
  OBVIOUS
<1>2. \A j \in 1 .. k : j \in 1 .. k + 1
  OBVIOUS
<1> QED
  BY <1>1, <1>2 DEF Summed

(***************************************************************************)
(* What umm_info counts of a good heap.                                    *)
(***************************************************************************)
OnePiece(F) == \A b, d \in F : b = d

(***************************************************************************)
(* The sums of umm_info, by whether the free memory is in one piece.       *)
(***************************************************************************)
LEMMA InfoIs ==
  ASSUME NEW h, NEW S, NEW F, Good(h, S, F)
  PROVE  \E A \in Nat, B \in Nat :
           /\ umm_info(h).freeBlocks = A /\ umm_info(h).freeBlocksSquared = B
           /\ B <= A * A /\ A <= BLOCK_LAST /\ (B = 0 => A = 0)
           /\ A = 0 <=> F = {}
           /\ B = A * A <=> OnePiece(F)
<1> DEFINE c == Chain(h)
           n == Len(c)
<1>1. PICK next : next = h.next
  OBVIOUS
<1>2. /\ Walked(next, S, c) /\ Chained(next, h.prev, S) /\ S \subseteq Nat /\ F \subseteq S \ {0, BLOCK_LAST}
      /\ \A b \in S : h.free[b] <=> b \in F
  <2>1. Walked(h.next, S, c)
    BY ChainWalked
  <2>2. /\ Chained(h.next, h.prev, S) /\ S \subseteq Nat
    BY GoodFacts
  <2>3. F \subseteq S \ {0, BLOCK_LAST} /\ \A b \in S : h.free[b] <=> b \in F
    BY DEF Good
  <2> QED
    BY <1>1, <2>1, <2>2, <2>3
<1>3. /\ n \in Nat /\ n >= 1 /\ c[1] = 0 /\ ToSet(c) = S /\ next[c[n]] = 0 /\ DOMAIN c = 1 .. n
      /\ \A k \in 1 .. n : c[k] \in S
      /\ \A k \in 1 .. n - 1 : c[k + 1] = next[c[k]] /\ c[k + 1] # 0
  BY <1>2, LenProperties DEF Walked
<1>4. Follows(next, [b \in Blocks |-> b], c)
  BY <1>1, ChainWalked
<1> HIDE DEF c, n
<1>5. ASSUME NEW j \in 1 .. n, NEW l \in 1 .. n, c[j] = c[l] PROVE j = l
  <2> DEFINE pos == [b \in Blocks |-> b]
  <2>1. S \subseteq Blocks /\ pos[c[j]] = c[j] /\ pos[c[l]] = c[l] /\ c[j] \in Nat /\ c[l] \in Nat
    BY <1>2, <1>3 DEF Chained
  <2>2. Follows(next, pos, c)
    BY <1>4
  <2> HIDE DEF pos
  <2>3. ~(j < l) /\ ~(l < j)
    BY <1>3, <1>5, <2>1, <2>2 DEF Follows, n
  <2> QED
    BY <1>3, <2>3
<1>6. c[n] = BLOCK_LAST
  <2>1. PICK b : b = c[n] /\ b \in S /\ next[b] = 0
    BY <1>3
  <2>2. b \in Nat /\ ~(b < 0) /\ (b \in S \ {BLOCK_LAST} => b < next[b])
    BY <1>2, <2>1 DEF Chained
  <2> QED
    BY <2>1, <2>2
<1>7. ASSUME NEW k \in 1 .. n - 1
      PROVE  /\ c[k] \in Nat /\ c[k + 1] \in Nat /\ c[k] < c[k + 1]
             /\ SizeOf(h, c[k]) = c[k + 1] - c[k]
  <2>1. k \in 1 .. n /\ k + 1 \in 1 .. n /\ c[k + 1] = next[c[k]] /\ c[k + 1] # 0
    BY <1>3
  <2>2. c[k] \in S /\ c[k] # BLOCK_LAST /\ c[k] \in Nat /\ c[k + 1] \in Nat
    BY <1>2, <1>3, <2>1 DEF Chained
  <2> QED
    BY <1>1, <1>2, <2>1, <2>2 DEF Chained, SizeOf
<1>8. \A k \in 1 .. n : SizeOf(h, c[k]) \in Int
  <2> SUFFICES ASSUME NEW k \in 1 .. n PROVE SizeOf(h, c[k]) \in Int
    OBVIOUS
  <2>1. CASE k = n
    BY <1>1, <1>3, <1>6, <2>1, BlocksAreNumbers DEF SizeOf
  <2>2. CASE k # n
    <3>1. k \in 1 .. n - 1
      BY <1>3, <2>2
    <3> QED
      BY <1>7, <3>1
  <2> QED
    BY <2>1, <2>2
<1>9. PICK info : info = InfoOf(h, c) /\ InfoRule(h, c, info)
  BY <1>3, <1>8, InfoLoop DEF n
<1>10. /\ info[0].freeBlocks = 0 /\ info[0].freeBlocksSquared = 0
       /\ \A k \in 1 .. n : info[k] = Counted(h, info[k - 1], c[k])
  BY <1>9 DEF InfoRule, Zero, n
<1> DEFINE Next1(k) == IF k = n THEN BLOCK_LAST ELSE c[k + 1]
           Right(k) == /\ Summed(c, F, k, info[k].freeBlocks, info[k].freeBlocksSquared)
                       /\ info[k].freeBlocks <= Next1(k)
           P == {k \in 0 .. n : Right(k)}
<1>11. 0 \in P
  <2>1. 0 # n /\ Next1(0) = 0 /\ 0 \in 0 .. n
    BY <1>3
  <2>2. Summed(c, F, 0, 0, 0)
    BY DEF Summed
  <2> QED
    BY <1>10, <2>1, <2>2
<1>12. ASSUME NEW k \in 0 .. n - 1, k \in P PROVE k + 1 \in P
  <2>1. k \in Nat /\ k # n /\ k + 1 \in 1 .. n /\ k + 1 - 1 = k /\ k + 1 \in 0 .. n
    BY <1>3
  <2>2. PICK A, B : /\ A = info[k].freeBlocks /\ B = info[k].freeBlocksSquared
                    /\ Summed(c, F, k, A, B) /\ A <= c[k + 1]
    BY <1>12, <2>1
  <2>3. A \in Nat /\ B \in Nat
    BY <2>2 DEF Summed
  <2>4. info[k + 1] = Counted(h, info[k], c[k + 1]) /\ c[k + 1] \in S
        /\ (h.free[c[k + 1]] <=> c[k + 1] \in F)
    <3>1. info[k + 1] = Counted(h, info[k], c[k + 1])
      BY <1>10, <2>1
    <3>2. c[k + 1] \in S
      BY <1>3, <2>1
    <3> QED
      BY <1>2, <3>1, <3>2
  <2>5. CASE c[k + 1] \notin F
    <3>1. info[k + 1].freeBlocks = A /\ info[k + 1].freeBlocksSquared = B
      BY <2>2, <2>4, <2>5 DEF Counted
    <3>2. Summed(c, F, k + 1, A, B)
      BY <2>1, <2>2, <2>5, SummedUsed
    <3>3. A <= Next1(k + 1)
      <4>1. CASE k + 1 = n
        BY <1>6, <2>2, <4>1
      <4>2. CASE k + 1 # n
        <5>1. k + 1 \in 1 .. n - 1
          BY <1>3, <2>1, <4>2
        <5>2. c[k + 1] < c[(k + 1) + 1] /\ c[k + 1] \in Nat /\ c[(k + 1) + 1] \in Nat
          BY <1>7, <5>1
        <5> QED
          BY <2>2, <2>3, <4>2, <5>2
      <4> QED
        BY <4>1, <4>2
    <3> QED
      BY <2>1, <3>1, <3>2, <3>3
  <2>6. CASE c[k + 1] \in F
    <3>1. k + 1 # n
      BY <1>2, <1>6, <2>6
    <3>2. k + 1 \in 1 .. n - 1
      BY <1>3, <2>1, <3>1
    <3>3. /\ c[k + 1] \in Nat /\ c[(k + 1) + 1] \in Nat /\ c[k + 1] < c[(k + 1) + 1]
          /\ SizeOf(h, c[k + 1]) = c[(k + 1) + 1] - c[k + 1]
      BY <1>7, <3>2
    <3>4. PICK s \in Nat \ {0} : s = SizeOf(h, c[k + 1]) /\ c[k + 1] + s = c[(k + 1) + 1]
      BY <3>3
    <3>5. info[k + 1].freeBlocks = A + s /\ info[k + 1].freeBlocksSquared = B + s * s
      BY <2>2, <2>4, <2>6, <3>4 DEF Counted
    <3>6. Summed(c, F, k + 1, A + s, B + s * s)
      BY <2>1, <2>2, <2>3, <2>6, SummedFree
    <3>7. A + s <= Next1(k + 1)
      BY <2>2, <2>3, <3>1, <3>3, <3>4
    <3> QED
      BY <2>1, <3>5, <3>6, <3>7
  <2> QED
    BY <2>5, <2>6
<1>13. n \in P
  <2> HIDE DEF P
  <2>1. 0 .. n \subseteq P
    BY <1>3, <1>11, <1>12, Upward
  <2> QED
    BY <1>3, <2>1
<1>14. PICK A, B : /\ A = info[n].freeBlocks /\ B = info[n].freeBlocksSquared
                   /\ Summed(c, F, n, A, B) /\ A <= BLOCK_LAST
  BY <1>13
<1>15. umm_info(h) = info[n]
  BY <1>9 DEF umm_info, InfoOf, InfoBody, Counted, Zero, c, n
<1>16. \A b \in F : \E j \in 1 .. n : c[j] = b
  BY <1>2, <1>3 DEF ToSet
<1>17. A = 0 <=> F = {}
  BY <1>14, <1>16 DEF Summed
<1>18. B = A * A <=> OnePiece(F)
  <2>1. ASSUME \A j, l \in 1 .. n : c[j] \in F /\ c[l] \in F => j = l PROVE OnePiece(F)
    BY <1>16, <2>1 DEF OnePiece
  <2>2. ASSUME OnePiece(F), NEW j \in 1 .. n, NEW l \in 1 .. n, c[j] \in F, c[l] \in F PROVE j = l
    BY <1>5, <2>2 DEF OnePiece
  <2> QED
    BY <1>14, <2>1, <2>2 DEF Summed
<1> QED
  BY <1>14, <1>15, <1>17, <1>18 DEF Summed

(***************************************************************************)
(* A metric of 0 means that the root of the squares' sum is the sum.       *)
(***************************************************************************)
LEMMA RatioIsFull ==
  ASSUME NEW A \in Nat \ {0}, NEW s \in Nat, s <= A
  PROVE  100 - (s * 100) \div A = 0 <=> s = A
<1>1. PICK a \in Nat : a = s * 100
  OBVIOUS
<1>2. PICK q, r : q = a \div A /\ r = a % A
  OBVIOUS
<1>3. q \in Nat /\ r \in 0 .. A - 1 /\ s * 100 = q * A + r
  <2>1. a \div A \in Nat /\ a % A \in 0 .. A - 1 /\ a = (a \div A) * A + (a % A)
    BY Division
  <2> QED
    BY <1>1, <1>2, <2>1
<1>4. q = 100 => s = A
  BY <1>3
<1>5. s = A => q = 100
  <2> SUFFICES ASSUME s = A PROVE q = 100
    OBVIOUS
  <2>1. ~(q < 100)
    <3> SUFFICES ASSUME q < 100 PROVE FALSE
      OBVIOUS
    <3>1. q * A + A <= 100 * A
      BY <1>3, Times
    <3> QED
      BY <1>3, <3>1
  <2>2. ~(100 < q)
    <3> SUFFICES ASSUME 100 < q PROVE FALSE
      OBVIOUS
    <3>1. 100 * A + A <= q * A
      BY <1>3, Times
    <3> QED
      BY <1>3, <3>1
  <2> QED
    BY <1>3, <2>1, <2>2
<1> QED
  BY <1>1, <1>2, <1>3, <1>4, <1>5

(***************************************************************************)
(* The root of a number that is at most a square.                          *)
(***************************************************************************)
LEMMA RootOfSquare ==
  ASSUME NEW A \in Nat, NEW B \in Nat, B <= A * A, NEW s, IsRoot(B, s)
  PROVE  s \in Nat /\ s <= A /\ (s = A <=> B = A * A)
<1>1. s \in Nat /\ s * s <= B /\ B < (s + 1) * (s + 1)
  BY DEF IsRoot
<1>2. s <= A
  <2> SUFFICES ASSUME A < s PROVE FALSE
    BY <1>1
  <2>1. PICK d \in Nat : s = A + 1 + d
    <3>1. s - A - 1 \in Nat /\ s = A + 1 + (s - A - 1)
      BY <1>1
    <3> QED
      BY <3>1
  <2>2. s * s = A * A + 2 * A + 1 + 2 * (A + 1) * d + d * d
    BY <2>1
  <2>3. 2 * (A + 1) * d >= 0 /\ d * d >= 0
    BY <2>1
  <2> QED
    BY <1>1, <2>2, <2>3
<1>3. B = A * A => s = A
  <2> SUFFICES ASSUME B = A * A, s < A PROVE FALSE
    BY <1>1, <1>2
  <2>1. PICK d \in Nat : A = (s + 1) + d
    <3>1. A - (s + 1) \in Nat /\ A = (s + 1) + (A - (s + 1))
      BY <1>1
    <3> QED
      BY <3>1
  <2>2. A * A = (s + 1) * (s + 1) + 2 * (s + 1) * d + d * d
    BY <1>1, <2>1
  <2>3. 2 * (s + 1) * d >= 0 /\ d * d >= 0
    BY <1>1, <2>1
  <2> QED
    BY <1>1, <2>2, <2>3
<1>4. s = A => B = A * A
  BY <1>1
<1> QED
  BY <1>1, <1>2, <1>3, <1>4

(***************************************************************************)
(* At most one free block.                                                 *)
(***************************************************************************)
LEMMA AtMostOne ==
  ASSUME NEW F, F \subseteq Blocks
  PROVE  Cardinality(F) <= 1 <=> OnePiece(F)
<1>1. IsFiniteSet(F) /\ Cardinality(F) \in Nat
  <2>1. NumBlocks \in Nat
    BY HeapAssumption DEF HeapAssumption
  <2>2. IsFiniteSet(Blocks)
    BY <2>1, FS_Interval DEF Blocks
  <2> QED
    BY <2>2, FS_Subset, FS_CardinalityType
<1>2. ASSUME OnePiece(F) PROVE Cardinality(F) <= 1
  <2>1. CASE F = {}
    BY <2>1, FS_EmptySet
  <2>2. CASE F # {}
    <3>1. PICK b : F = {b}
      BY <1>2, <2>2 DEF OnePiece
    <3> QED
      BY <3>1, FS_Singleton
  <2> QED
    BY <2>1, <2>2
<1>3. ASSUME ~OnePiece(F) PROVE ~(Cardinality(F) <= 1)
  <2>1. PICK b \in F, d \in F : b # d
    BY <1>3 DEF OnePiece
  <2>2. IsFiniteSet(F \ {b}) /\ Cardinality(F \ {b}) = Cardinality(F) - 1
    BY <1>1, <2>1, FS_RemoveElement
  <2>3. Cardinality(F \ {b}) # 0 /\ Cardinality(F \ {b}) \in Nat
    BY <2>1, <2>2, FS_EmptySet, FS_CardinalityType
  <2> QED
    BY <1>1, <2>2, <2>3
<1> QED
  BY <1>2, <1>3

(***************************************************************************)
(* The fragmentation metric is 0 just when the free memory is one block or *)
(* none (umm_fragmentation_metric and its integer root in umm_info.c).     *)
(***************************************************************************)
THEOREM FragmentationIsTrue ==
  ASSUME ~Preempt
  PROVE  Spec => []ZeroMeansOnePiece
<1>1. HeapInv => ZeroMeansOnePiece
  <2> SUFFICES ASSUME NEW S, NEW F, Good(heap, S, F)
               PROVE  (umm_fragmentation_metric(heap) = 0) <=> Cardinality(FreeChunks(heap)) <= 1
    BY DEF HeapInv, Sound, ZeroMeansOnePiece
  <2>1. FreeChunks(heap) = F /\ F \subseteq Blocks
    BY GoodChunks, GoodFacts
  <2>2. PICK A \in Nat, B \in Nat :
          /\ umm_info(heap).freeBlocks = A /\ umm_info(heap).freeBlocksSquared = B
          /\ B <= A * A /\ A <= BLOCK_LAST /\ (B = 0 => A = 0)
          /\ A = 0 <=> F = {}
          /\ B = A * A <=> OnePiece(F)
    BY InfoIs
  <2>3. umm_fragmentation_metric(heap) = IF A = 0 THEN 0 ELSE 100 - (iSqrt(B) * 100) \div A
    BY <2>2 DEF umm_fragmentation_metric
  <2>4. umm_fragmentation_metric(heap) = 0 <=> OnePiece(F)
    <3>1. CASE A = 0
      BY <2>2, <2>3, <3>1 DEF OnePiece
    <3>2. CASE A # 0
      <4>1. B \in Nat \ {0} /\ B < 65536 * 65536
        <5>1. A < 32768
          BY <2>2, HeapAssumption DEF HeapAssumption, BLOCK_LAST
        <5>2. PICK d \in Nat : 32768 = A + d
          <6>1. 32768 - A \in Nat /\ 32768 = A + (32768 - A)
            BY <5>1
          <6> QED
            BY <6>1
        <5>3. 32768 * 32768 = A * A + 2 * A * d + d * d /\ 2 * A * d >= 0 /\ d * d >= 0
          BY <5>2
        <5> QED
          BY <2>2, <3>2, <5>3
      <4>2. IsRoot(B, iSqrt(B))
        BY <4>1, RootIsRoot
      <4>3. iSqrt(B) \in Nat /\ iSqrt(B) <= A /\ (iSqrt(B) = A <=> B = A * A)
        BY <2>2, <4>2, RootOfSquare
      <4>4. 100 - (iSqrt(B) * 100) \div A = 0 <=> iSqrt(B) = A
        BY <3>2, <4>3, RatioIsFull
      <4> QED
        BY <2>2, <2>3, <3>2, <4>3, <4>4
    <3> QED
      BY <3>1, <3>2
  <2> QED
    BY <2>1, <2>4, AtMostOne
<1> QED
  BY <1>1, HeapInvariant, PTL
=============================================================================
