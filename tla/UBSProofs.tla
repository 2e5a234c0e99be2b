------------------------------ MODULE UBSProofs ------------------------------
(***************************************************************************)
(* Proofs about the block store, for any number and size of blocks, any    *)
(* names and texts: that chains stay apart and the free counter honest,    *)
(* that only a reset loses blocks, that a text saved is read back, and     *)
(* that the store implements ScriptStore.                                  *)
(*                                                                         *)
(* No two pointers are the same and none is to a master block: so a chain  *)
(* from a master meets no block twice, which makes it end, and meets no    *)
(* other chain from a master.  A reserved block is pointed at before it is *)
(* written, and only the call that has reserved it knows: a reset in       *)
(* between would break the store.  Careful excludes that, and that a new   *)
(* script is begun while the counter is 0, for which the code has no       *)
(* check.                                                                  *)
(***************************************************************************)
EXTENDS UBS, SequencesExt, SequenceTheorems, FiniteSetTheorems, WellFoundedInduction, TLAPS

------------------------------------------------------------------------------
(* Least numbers, recursion up to a number, and division.                  *)

(***************************************************************************)
(* What a search for the smallest finds.                                   *)
(***************************************************************************)
LEMMA LeastExists ==
  ASSUME NEW S, S \subseteq Nat, S # {}
  PROVE  \E x \in S : \A y \in S : x <= y
<1> DEFINE R == OpToRel(<, Nat)
<1>1. IsWellFoundedOn(R, Nat)
  BY NatLessThanWellFounded
<1>2. PICK x \in S : \A y \in S : ~(<<y, x>> \in R)
  <2> HIDE DEF R
  <2> QED
    BY <1>1, WFMin
<1>3. \A y \in S : x <= y
  <2> SUFFICES ASSUME NEW y \in S, y < x PROVE FALSE
    OBVIOUS
  <2>1. <<y, x>> \in R
    BY DEF OpToRel
  <2> QED
    BY <1>2, <2>1
<1> QED
  BY <1>3

(***************************************************************************)
(* What holds at 0 and is passed on, up to n, holds up to n.               *)
(***************************************************************************)
LEMMA Upward ==
  ASSUME NEW n \in Nat, NEW P, 0 \in P, \A k \in 0..(n - 1) : k \in P => k + 1 \in P
  PROVE  0..n \subseteq P
<1> SUFFICES ASSUME (0..n) \ P # {} PROVE FALSE
  OBVIOUS
<1> DEFINE S == (0..n) \ P
<1>1. PICK x \in S : \A y \in S : x <= y
  <2>1. S \subseteq Nat /\ S # {}
    OBVIOUS
  <2> HIDE DEF S
  <2> QED
    BY <2>1, LeastExists
<1>2. x \in 1..n /\ x - 1 \in 0..(n - 1) /\ x - 1 \in 0..n /\ ~(x <= x - 1) /\ x - 1 + 1 = x
  BY <1>1
<1>3. x - 1 \in P
  BY <1>1, <1>2
<1> QED
  BY <1>1, <1>2, <1>3

(***************************************************************************)
(* A function may be given by its value at 0 and a rule for the next.      *)
(***************************************************************************)
ByRule(f, n, S, x, rule) ==
  f \in [0..n -> S] /\ f[0] = x /\ \A k \in 1..n : f[k] = rule[k][f[k - 1]]
HasFunction(n, S, x, rule) == \E f : ByRule(f, n, S, x, rule)

LEMMA Recursion ==
  ASSUME NEW n \in Nat, NEW S, NEW x \in S, NEW rule \in [1..n -> [S -> S]]
  PROVE  HasFunction(n, S, x, rule)
<1> DEFINE Upto(f, m) == f \in [0..m -> S] /\ f[0] = x /\ \A k \in 1..m : f[k] = rule[k][f[k - 1]]
           P == {m \in 0..n : \E f : Upto(f, m)}
<1>1. 0 \in P
  <2> DEFINE g == [k \in 0..0 |-> x]
  <2>1. g \in [0..0 -> S] /\ g[0] = x /\ 1..0 = {}
    OBVIOUS
  <2>2. Upto(g, 0)
    BY <2>1
  <2>3. \E f : Upto(f, 0)
    BY <2>2
  <2> QED
    BY <2>3
<1>2. ASSUME NEW m \in 0..(n - 1), m \in P PROVE m + 1 \in P
  <2>1. PICK f : Upto(f, m)
    BY <1>2
  <2> DEFINE g == [k \in 0..(m + 1) |-> IF k <= m THEN f[k] ELSE rule[m + 1][f[m]]]
  <2>2. f[m] \in S /\ rule[m + 1][f[m]] \in S
    BY <2>1
  <2>3. g \in [0..(m + 1) -> S] /\ g[0] = x
    BY <2>1, <2>2
  <2>4. ASSUME NEW k \in 1..(m + 1) PROVE g[k] = rule[k][g[k - 1]]
    <3>1. k - 1 \in 0..m /\ g[k - 1] = f[k - 1]
      OBVIOUS
    <3>2. CASE k <= m
      BY <2>1, <3>1, <3>2
    <3>3. CASE k = m + 1
      <4>1. k - 1 = m /\ ~(k <= m) /\ g[k] = rule[m + 1][f[m]]
        BY <3>3
      <4> QED
        BY <3>1, <3>3, <4>1
    <3> QED
      BY <3>2, <3>3
  <2>5. Upto(g, m + 1)
    BY <2>3, <2>4
  <2>6. \E h : Upto(h, m + 1)
    BY <2>5
  <2> QED
    BY <2>6
<1>3. 0..n \subseteq P
  <2> HIDE DEF P
  <2> QED
    BY <1>1, <1>2, Upward
<1>4. \E f : Upto(f, n)
  BY <1>3
<1> QED
  BY <1>4 DEF HasFunction, ByRule

(***************************************************************************)
(* Quotient and remainder of naturals, in the form products are used in.   *)
(***************************************************************************)
LEMMA Division ==
  ASSUME NEW a \in Nat, NEW b \in Nat \ {0}
  PROVE  a \div b \in Nat /\ a % b \in 0..(b - 1) /\ a = (a \div b) * b + (a % b)
<1>1. a % b \in 0..(b - 1)
  OBVIOUS
<1>2. a \div b \in Int
  OBVIOUS
<1>3. a = b * (a \div b) + (a % b)
  OBVIOUS
<1>4. a \div b >= 0
  <2> DEFINE p == a \div b
  <2> SUFFICES ASSUME p < 0 PROVE FALSE
    BY <1>2
  <2> HIDE DEF p
  <2>1. p * b + b <= 0
    <3>1. PICK d \in Nat : p = -1 - d
      <4>1. -1 - p \in Nat /\ p = -1 - (-1 - p)
        BY <1>2 DEF p
      <4> QED
        BY <4>1
    <3>2. p * b = -b - d * b /\ d * b >= 0
      BY <3>1
    <3> QED
      BY <3>2
  <2> QED
    BY <1>1, <1>3, <2>1 DEF p
<1> QED
  BY <1>1, <1>2, <1>3, <1>4

(***************************************************************************)
(* A larger factor makes the product larger by the other factor or more.   *)
(***************************************************************************)
LEMMA Times ==
  ASSUME NEW p \in Int, NEW q \in Int, NEW b \in Nat \ {0}, p < q
  PROVE  p * b + b <= q * b
<1>1. PICK d \in Nat : q = p + 1 + d
  <2>1. q - p - 1 \in Nat /\ q = p + 1 + (q - p - 1)
    OBVIOUS
  <2> QED
    BY <2>1
<1>2. q * b = p * b + b + d * b
  BY <1>1
<1>3. d * b >= 0
  OBVIOUS
<1> QED
  BY <1>2, <1>3

------------------------------------------------------------------------------

(* A pointer, and the type of the memory.                                  *)
Pointers == 0 .. BlockCount \union {NoBlock}
MemOK == mem \in [0 .. BlockCount -> BlockState]

(***************************************************************************)
(* Induction along a path.                                                 *)
(***************************************************************************)
LEMMA UpTheChain ==
  ASSUME NEW P, 0 \in P, \A k \in 0 .. BlockCount : k \in P => k + 1 \in P
  PROVE  0 .. (BlockCount + 1) \subseteq P
<1>1. PICK n \in Nat : n = BlockCount + 1
  BY UBSAssumption DEF UBSAssumption
<1>2. n - 1 = BlockCount
  BY <1>1, UBSAssumption DEF UBSAssumption
<1>3. \A k \in 0 .. (n - 1) : k \in P => k + 1 \in P
  BY <1>2
<1> QED
  BY <1>1, <1>3, Upward

(***************************************************************************)
(* A path is what its definition says: it starts at a and follows the      *)
(* pointers.                                                               *)
(***************************************************************************)
LEMMA PathIs ==
  ASSUME MemOK, NEW a \in 0 .. BlockCount
  PROVE  /\ Path(a) \in [0 .. BlockCount + 1 -> Pointers]
         /\ Path(a)[0] = a
         /\ \A k \in 0 .. BlockCount :
              Path(a)[k + 1] = IF Path(a)[k] = NoBlock THEN NoBlock ELSE mem[Path(a)[k]].next
<1> DEFINE n == BlockCount + 1
           rule == [k \in 1 .. n |-> [b \in Pointers |-> IF b = NoBlock THEN NoBlock ELSE mem[b].next]]
<1>1. BlockCount \in Nat /\ n \in Nat /\ a \in Pointers
  BY UBSAssumption DEF UBSAssumption, Pointers
<1>2. rule \in [1 .. n -> [Pointers -> Pointers]]
  BY DEF MemOK, BlockState, Pointers
<1>3. PICK g \in [0 .. n -> Pointers] :
        g[0] = a /\ \A k \in 1 .. n : g[k] = rule[k][g[k - 1]]
  <2> HIDE DEF n, rule
  <2>1. HasFunction(n, Pointers, a, rule)
    BY <1>1, <1>2, Recursion
  <2> QED
    BY <2>1 DEF HasFunction, ByRule
<1>4. \A k \in 1 .. n : g[k] = IF g[k - 1] = NoBlock THEN NoBlock ELSE mem[g[k - 1]].next
  <2> SUFFICES ASSUME NEW k \in 1 .. n
               PROVE g[k] = IF g[k - 1] = NoBlock THEN NoBlock ELSE mem[g[k - 1]].next
    OBVIOUS
  <2>1. k - 1 \in 0 .. n /\ g[k - 1] \in Pointers
    BY <1>1, <1>3
  <2>2. rule[k][g[k - 1]] = IF g[k - 1] = NoBlock THEN NoBlock ELSE mem[g[k - 1]].next
    BY <2>1
  <2> QED
    BY <1>3, <2>2
<1> DEFINE F(h) == [k \in 0 .. BlockCount + 1 |->
                     IF k = 0 THEN a
                     ELSE LET b == h[k - 1] IN IF b = NoBlock THEN NoBlock ELSE mem[b].next]
<1>5. g = F(g)
  <2>1. \A k \in 0 .. BlockCount + 1 : g[k] = F(g)[k]
    <3> SUFFICES ASSUME NEW k \in 0 .. BlockCount + 1 PROVE g[k] = F(g)[k]
      OBVIOUS
    <3>1. CASE k = 0
      BY <1>3, <3>1
    <3>2. CASE k # 0
      <4>1. k \in 1 .. n
        BY <3>2
      <4> QED
        BY <1>4, <3>2, <4>1
    <3> QED
      BY <3>1, <3>2
  <2>2. g \in [0 .. BlockCount + 1 -> Pointers]
    BY <1>3
  <2> HIDE DEF n, rule
  <2> QED
    BY <2>1, <2>2
<1>6. Path(a) = CHOOSE h : h = F(h)
  BY DEF Path
<1>7. PICK p : p = Path(a) /\ p = F(p)
  <2> HIDE DEF F
  <2> QED
    BY <1>5, <1>6
<1>8. /\ p = [k \in 0 .. BlockCount + 1 |-> p[k]]
      /\ p[0] = a
      /\ \A k \in 0 .. BlockCount :
              p[k + 1] = IF p[k] = NoBlock THEN NoBlock ELSE mem[p[k]].next
  <2>1. \A k \in 0 .. BlockCount + 1 :
          p[k] = IF k = 0 THEN a
                     ELSE LET b == p[k - 1] IN IF b = NoBlock THEN NoBlock ELSE mem[b].next
    BY <1>7
  <2>2. 0 \in 0 .. BlockCount + 1 /\ p[0] = a
    BY <1>1, <2>1
  <2>3. ASSUME NEW k \in 0 .. BlockCount
        PROVE  p[k + 1] = IF p[k] = NoBlock THEN NoBlock ELSE mem[p[k]].next
    <3>1. k + 1 \in 0 .. BlockCount + 1 /\ k + 1 # 0 /\ (k + 1) - 1 = k
      BY <1>1
    <3> QED
      BY <2>1, <3>1
  <2>4. p = [k \in 0 .. BlockCount + 1 |-> p[k]]
    BY <1>7
  <2> QED
    BY <2>2, <2>3, <2>4
<1> DEFINE P == {k \in 0 .. BlockCount + 1 : p[k] \in Pointers}
<1>9. 0 .. n \subseteq P
  <2>1. 0 \in P
    BY <1>1, <1>8
  <2>2. ASSUME NEW k \in 0 .. (n - 1), k \in P PROVE k + 1 \in P
    <3>1. k \in 0 .. BlockCount /\ k + 1 \in 0 .. BlockCount + 1 /\ p[k] \in Pointers
      BY <1>1, <2>2
    <3>2. p[k + 1] = IF p[k] = NoBlock THEN NoBlock ELSE mem[p[k]].next
      BY <1>8, <3>1
    <3> QED
      BY <3>1, <3>2 DEF MemOK, BlockState, Pointers
  <2> HIDE DEF P, n
  <2> QED
    BY <1>1, <2>1, <2>2, Upward
<1>10. p \in [0 .. BlockCount + 1 -> Pointers]
  BY <1>8, <1>9
<1> QED
  BY <1>7, <1>8, <1>10

----------------------------------------------------------------------------
(* Chains that are apart.                                                  *)

(* Of the pointers of the blocks, no two are the same, none leaves the     *)
(* store, and none is to a master block; a free block has none.            *)
PointersApart ==
  \A a, b \in Blocks : mem[a].next = mem[b].next /\ mem[a].next # NoBlock => a = b
PointersInside ==
  \A a \in Blocks : mem[a].next # NoBlock => mem[a].next \in Blocks /\ ~mem[mem[a].next].master
FreeIsErased == \A a \in Blocks : IsFree(mem[a]) => mem[a] = Erased
Graph == PointersApart /\ PointersInside /\ FreeIsErased

(* No block points at x.                                                   *)
NotPointedAt(x) == \A a \in Blocks : mem[a].next # x

(***************************************************************************)
(* A chain that starts where no pointer is to meets no block twice and     *)
(* ends.                                                                   *)
(***************************************************************************)
LEMMA RootPath ==
  ASSUME MemOK, Graph, NEW a \in Blocks, NotPointedAt(a)
  PROVE  /\ Length(a) \in 1 .. BlockCount /\ Ends(a)
         /\ Links(a) = 0 .. Length(a) - 1
         /\ \A k \in 0 .. Length(a) - 1 : Path(a)[k] \in Blocks
         /\ \A k \in Length(a) .. BlockCount + 1 : Path(a)[k] = NoBlock
         /\ \A i, j \in 0 .. Length(a) - 1 : Path(a)[i] = Path(a)[j] => i = j
         /\ Chain(a) = {Path(a)[k] : k \in 0 .. Length(a) - 1}
<1>1. PICK p : p = Path(a)
  OBVIOUS
<1>2. BlockCount \in Nat \ {0} /\ NoBlock \notin 0 .. BlockCount /\ a \in 0 .. BlockCount /\ a # NoBlock
  BY UBSAssumption DEF UBSAssumption, Blocks
<1>3. /\ p \in [0 .. BlockCount + 1 -> Pointers] /\ p[0] = a
      /\ \A k \in 0 .. BlockCount : p[k + 1] = IF p[k] = NoBlock THEN NoBlock ELSE mem[p[k]].next
  BY <1>1, <1>2, PathIs
<1>4. \A k \in 0 .. BlockCount + 1 : p[k] = NoBlock \/ p[k] \in Blocks
  <2> DEFINE P == {k \in 0 .. BlockCount + 1 : p[k] = NoBlock \/ p[k] \in Blocks}
  <2>1. 0 \in P
    BY <1>2, <1>3
  <2>2. ASSUME NEW k \in 0 .. BlockCount, k \in P PROVE k + 1 \in P
    <3>1. k \in 0 .. BlockCount /\ k + 1 \in 0 .. BlockCount + 1
      BY <1>2
    <3> QED
      BY <1>3, <2>2, <3>1 DEF Graph, PointersInside
  <2> HIDE DEF P
  <2>4. 0 .. (BlockCount + 1) \subseteq P
    BY <2>1, <2>2, UpTheChain
  <2> QED
    BY <2>4 DEF P
<1>5. \A i, j \in 0 .. BlockCount + 1 : p[i] = p[j] /\ p[i] # NoBlock => i = j
  <2> DEFINE P == {i \in 0 .. BlockCount + 1 : \A j \in 0 .. BlockCount + 1 :
                    p[i] = p[j] /\ p[i] # NoBlock => i = j}
  <2>1. \A j \in 1 .. BlockCount + 1 : j - 1 \in 0 .. BlockCount /\ (j - 1) + 1 = j
    BY <1>2
  <2>2. \A j \in 1 .. BlockCount + 1 : p[j] # NoBlock => p[j - 1] \in Blocks /\ p[j] = mem[p[j - 1]].next
    <3> SUFFICES ASSUME NEW j \in 1 .. BlockCount + 1, p[j] # NoBlock
                 PROVE p[j - 1] \in Blocks /\ p[j] = mem[p[j - 1]].next
      OBVIOUS
    <3>1. PICK k \in 0 .. BlockCount : k = j - 1 /\ k + 1 = j
      BY <2>1
    <3>2. k \in 0 .. BlockCount + 1
      BY <1>2
    <3> QED
      BY <1>3, <1>4, <3>1, <3>2
  <2>3. 0 \in P
    <3> SUFFICES ASSUME NEW j \in 0 .. BlockCount + 1, p[0] = p[j], j # 0 PROVE FALSE
      BY <1>2
    <3>1. j \in 1 .. BlockCount + 1
      OBVIOUS
    <3> QED
      BY <1>2, <1>3, <2>2, <3>1 DEF NotPointedAt
  <2>4. ASSUME NEW k \in 0 .. BlockCount, k \in P PROVE k + 1 \in P
    <3>1. k \in 0 .. BlockCount /\ k \in 0 .. BlockCount + 1 /\ k + 1 \in 1 .. BlockCount + 1
          /\ k + 1 \in 0 .. BlockCount + 1 /\ (k + 1) - 1 = k
      BY <1>2
    <3> SUFFICES ASSUME NEW j \in 0 .. BlockCount + 1, p[k + 1] = p[j], p[k + 1] # NoBlock
                 PROVE k + 1 = j
      BY <3>1
    <3>2. p[k] \in Blocks /\ p[k + 1] = mem[p[k]].next
      BY <2>2, <3>1
    <3>3. j # 0
      BY <1>3, <3>2 DEF NotPointedAt
    <3>4. j \in 1 .. BlockCount + 1 /\ j - 1 \in 0 .. BlockCount + 1
      BY <1>2, <3>3
    <3>5. p[j - 1] \in Blocks /\ p[j] = mem[p[j - 1]].next
      BY <2>2, <3>4
    <3>6. p[k] = p[j - 1]
      BY <3>2, <3>5 DEF Graph, PointersApart
    <3>7. k = j - 1
      BY <1>2, <2>4, <3>2, <3>4, <3>6, UBSAssumption DEF Blocks
    <3> QED
      BY <3>4, <3>7
  <2> HIDE DEF P
  <2>6. 0 .. (BlockCount + 1) \subseteq P
    BY <2>3, <2>4, UpTheChain
  <2> QED
    BY <2>6 DEF P
\* Were all in Blocks, there would be more of them than blocks.
<1>6. \E k \in 0 .. BlockCount : p[k] = NoBlock
  <2> SUFFICES ASSUME \A k \in 0 .. BlockCount : p[k] # NoBlock PROVE FALSE
    OBVIOUS
  <2>1. PICK S, T : S = 0 .. BlockCount /\ T = Blocks
    OBVIOUS
  <2>2. IsFiniteSet(S) /\ Cardinality(S) = BlockCount + 1
    BY <1>2, <2>1, FS_Interval
  <2>3. IsFiniteSet(T) /\ Cardinality(T) = BlockCount
    BY <1>2, <2>1, FS_Interval DEF Blocks
  <2>4. \A k \in S : p[k] \in T
    BY <1>2, <1>4, <2>1
  <2>5. \A k, l \in S : k # l => p[k] # p[l]
    BY <1>2, <1>5, <2>1
  <2>6. PICK f : f = [k \in S |-> p[k]]
    OBVIOUS
  <2>7. f \in [S -> T] /\ \A k, l \in S : k # l => f[k] # f[l]
    BY <2>4, <2>5, <2>6
  <2>8. Cardinality(T) < Cardinality(S)
    BY <1>2, <2>2, <2>3
  <2> QED
    BY <2>2, <2>3, <2>7, <2>8, FS_PigeonHole
<1>7. PICK n \in 0 .. BlockCount : p[n] = NoBlock /\ \A k \in 0 .. BlockCount : p[k] = NoBlock => n <= k
  <2> DEFINE S == {k \in 0 .. BlockCount : p[k] = NoBlock}
  <2>1. S \subseteq Nat /\ S # {}
    BY <1>6
  <2>2. PICK n \in S : \A k \in S : n <= k
    <3> HIDE DEF S
    <3> QED
      BY <2>1, LeastExists
  <2> QED
    BY <2>2
<1>8. n \in 1 .. BlockCount /\ n \in Nat /\ BlockCount \in Nat
  BY <1>2, <1>3, <1>7
<1>9. \A k \in 0 .. n - 1 : p[k] \in Blocks
  <2> SUFFICES ASSUME NEW k \in 0 .. n - 1 PROVE p[k] \in Blocks
    OBVIOUS
  <2>1. k \in 0 .. BlockCount /\ k \in 0 .. BlockCount + 1 /\ ~(n <= k)
    BY <1>8
  <2> QED
    BY <1>4, <1>7, <2>1
<1>10. \A k \in n .. BlockCount + 1 : p[k] = NoBlock
  <2> DEFINE P == {k \in 0 .. BlockCount + 1 : k >= n => p[k] = NoBlock}
  <2>1. 0 \in P
    BY <1>2, <1>8
  <2>2. ASSUME NEW k \in 0 .. BlockCount, k \in P PROVE k + 1 \in P
    <3>1. k \in 0 .. BlockCount /\ k + 1 \in 0 .. BlockCount + 1 /\ n \in Int /\ k \in Int
      BY <1>2
    <3>2. CASE k >= n
      BY <1>3, <2>2, <3>1, <3>2
    <3>3. CASE k < n
      <4>1. k + 1 >= n => k + 1 = n
        BY <1>8, <3>3
      <4> QED
        BY <1>7, <3>1, <4>1
    <3> QED
      BY <1>8, <3>2, <3>3
  <2> HIDE DEF P
  <2>4. 0 .. (BlockCount + 1) \subseteq P
    BY <2>1, <2>2, UpTheChain
  <2> QED
    BY <1>2, <1>8, <2>4 DEF P
<1>11. Links(a) = 0 .. n - 1
  <2>1. \A k \in 0 .. BlockCount + 1 : p[k] # NoBlock <=> k \in 0 .. n - 1
    <3> SUFFICES ASSUME NEW k \in 0 .. BlockCount + 1 PROVE p[k] # NoBlock <=> k \in 0 .. n - 1
      OBVIOUS
    <3>1. NoBlock \notin Blocks
      BY <1>2 DEF Blocks
    <3>2. k \in n .. BlockCount + 1 <=> k \notin 0 .. n - 1
      BY <1>2, <1>8
    <3> QED
      BY <1>9, <1>10, <3>1, <3>2
  <2>2. 0 .. n - 1 \subseteq 0 .. BlockCount + 1
    BY <1>2, <1>8
  <2> QED
    BY <1>1, <2>1, <2>2 DEF Links
<1>12. Length(a) = n
  BY <1>8, <1>11, FS_Interval DEF Length
<1>13. Ends(a)
  BY <1>1, <1>2, <1>8, <1>10 DEF Ends
<1>14. Chain(a) = {p[k] : k \in 0 .. n - 1}
  BY <1>1, <1>11 DEF Chain
<1>15. \A i, j \in 0 .. n - 1 : p[i] = p[j] => i = j
  <2> SUFFICES ASSUME NEW i \in 0 .. n - 1, NEW j \in 0 .. n - 1, p[i] = p[j] PROVE i = j
    OBVIOUS
  <2>1. i \in 0 .. BlockCount + 1 /\ j \in 0 .. BlockCount + 1 /\ p[i] # NoBlock
    BY <1>2, <1>8, <1>9 DEF Blocks
  <2> QED
    BY <1>5, <2>1
<1> QED
  BY <1>1, <1>8, <1>9, <1>10, <1>11, <1>12, <1>13, <1>14, <1>15

(***************************************************************************)
(* Chains that start at different such places have no block in common.     *)
(***************************************************************************)
LEMMA RootsApart ==
  ASSUME MemOK, Graph, NEW a \in Blocks, NotPointedAt(a), NEW b \in Blocks, NotPointedAt(b), a # b
  PROVE  Chain(a) \cap Chain(b) = {}
<1>1. PICK p, q, m, n : p = Path(a) /\ q = Path(b) /\ m = Length(a) /\ n = Length(b)
  OBVIOUS
<1>2. BlockCount \in Nat /\ a \in 0 .. BlockCount /\ b \in 0 .. BlockCount /\ NoBlock \notin Blocks
  BY UBSAssumption DEF UBSAssumption, Blocks
<1>3. /\ p \in [0 .. BlockCount + 1 -> Pointers] /\ p[0] = a
      /\ \A k \in 0 .. BlockCount : p[k + 1] = IF p[k] = NoBlock THEN NoBlock ELSE mem[p[k]].next
      /\ m \in 1 .. BlockCount /\ \A k \in 0 .. m - 1 : p[k] \in Blocks
      /\ Chain(a) = {p[k] : k \in 0 .. m - 1}
  <2>1. /\ Path(a) \in [0 .. BlockCount + 1 -> Pointers] /\ Path(a)[0] = a
        /\ \A k \in 0 .. BlockCount :
             Path(a)[k + 1] = IF Path(a)[k] = NoBlock THEN NoBlock ELSE mem[Path(a)[k]].next
    BY <1>2, PathIs
  <2>2. /\ Length(a) \in 1 .. BlockCount
        /\ \A k \in 0 .. Length(a) - 1 : Path(a)[k] \in Blocks
        /\ Chain(a) = {Path(a)[k] : k \in 0 .. Length(a) - 1}
    BY RootPath
  <2> QED
    BY <1>1, <2>1, <2>2
<1>4. /\ q \in [0 .. BlockCount + 1 -> Pointers] /\ q[0] = b
      /\ \A k \in 0 .. BlockCount : q[k + 1] = IF q[k] = NoBlock THEN NoBlock ELSE mem[q[k]].next
      /\ n \in 1 .. BlockCount /\ \A k \in 0 .. n - 1 : q[k] \in Blocks
      /\ Chain(b) = {q[k] : k \in 0 .. n - 1}
  <2>1. /\ Path(b) \in [0 .. BlockCount + 1 -> Pointers] /\ Path(b)[0] = b
        /\ \A k \in 0 .. BlockCount :
             Path(b)[k + 1] = IF Path(b)[k] = NoBlock THEN NoBlock ELSE mem[Path(b)[k]].next
    BY <1>2, PathIs
  <2>2. /\ Length(b) \in 1 .. BlockCount
        /\ \A k \in 0 .. Length(b) - 1 : Path(b)[k] \in Blocks
        /\ Chain(b) = {Path(b)[k] : k \in 0 .. Length(b) - 1}
    BY RootPath
  <2> QED
    BY <1>1, <2>1, <2>2
<1> DEFINE P == {k \in 0 .. BlockCount + 1 : k < m => \A j \in 0 .. n - 1 : p[k] # q[j]}
<1>5. \A j \in 1 .. n - 1 : j - 1 \in 0 .. n - 1 /\ q[j] = mem[q[j - 1]].next
  <2> SUFFICES ASSUME NEW j \in 1 .. n - 1 PROVE j - 1 \in 0 .. n - 1 /\ q[j] = mem[q[j - 1]].next
    OBVIOUS
  <2>1. PICK k \in 0 .. BlockCount : k = j - 1 /\ k + 1 = j /\ k \in 0 .. n - 1
    BY <1>2, <1>4
  <2> QED
    BY <1>2, <1>4, <2>1
<1>6. 0 \in P
  <2> SUFFICES ASSUME NEW j \in 0 .. n - 1, a = q[j] PROVE FALSE
    BY <1>2, <1>3
  <2>1. j \in 1 .. n - 1
    BY <1>4
  <2> QED
    BY <1>4, <1>5, <2>1 DEF NotPointedAt
<1>7. ASSUME NEW k \in 0 .. BlockCount, k \in P PROVE k + 1 \in P
  <2>1. k + 1 \in 0 .. BlockCount + 1
    BY <1>2
  <2> SUFFICES ASSUME k + 1 < m, NEW j \in 0 .. n - 1, p[k + 1] = q[j] PROVE FALSE
    BY <2>1
  <2>2. k \in 0 .. m - 1 /\ k + 1 \in 0 .. m - 1 /\ k < m /\ p[k] \in Blocks /\ p[k + 1] \in Blocks
    BY <1>2, <1>3
  <2>3. p[k + 1] = mem[p[k]].next
    BY <1>2, <1>3, <2>2
  <2>4. CASE j = 0
    BY <1>4, <2>2, <2>3, <2>4 DEF NotPointedAt
  <2>5. CASE j # 0
    <3>1. j \in 1 .. n - 1
      BY <1>4, <2>5
    <3>2. q[j - 1] \in Blocks /\ q[j] = mem[q[j - 1]].next /\ j - 1 \in 0 .. n - 1
      BY <1>4, <1>5, <3>1
    <3>3. p[k] = q[j - 1]
      BY <1>2, <2>2, <2>3, <3>2 DEF Graph, PointersApart
    <3> QED
      BY <1>7, <2>2, <3>2, <3>3
  <2> QED
    BY <2>4, <2>5
<1>8. 0 .. (BlockCount + 1) \subseteq P
  <2> HIDE DEF P
  <2> QED
    BY <1>6, <1>7, UpTheChain
<1>9. ASSUME NEW k \in 0 .. m - 1, NEW j \in 0 .. n - 1 PROVE p[k] # q[j]
  <2>1. k \in 0 .. BlockCount + 1 /\ k < m
    BY <1>2, <1>3
  <2> QED
    BY <1>8, <2>1
<1> QED
  BY <1>3, <1>4, <1>9

(***************************************************************************)
(* Writing a block keeps chains apart, when the new pointer is none, the   *)
(* old one, or to a block that no other points at.                         *)
(***************************************************************************)
LEMMA WriteKeepsGraph ==
  ASSUME MemOK, Graph, NEW a \in Blocks, NEW b \in BlockState, mem' = [mem EXCEPT ![a] = b],
         \/ b.next \in {NoBlock, mem[a].next}
         \/ b.next \in Blocks \ {a} /\ NotPointedAt(b.next) /\ ~mem[b.next].master,
         b.master => NotPointedAt(a),
         IsFree(b) => b = Erased
  PROVE  MemOK' /\ Graph'
<1>1. mem'[a] = b /\ (\A x \in Blocks \ {a} : mem'[x] = mem[x]) /\ a \in 0 .. BlockCount
  BY UBSAssumption DEF UBSAssumption, MemOK, Blocks
<1>2. MemOK'
  BY DEF MemOK
<1>3. PointersApart'
  <2> SUFFICES ASSUME NEW x \in Blocks, NEW y \in Blocks, mem'[x].next = mem'[y].next,
                      mem'[x].next # NoBlock, x # y
               PROVE FALSE
    BY DEF PointersApart, Blocks
  <2>1. CASE x = a
    BY <1>1, <2>1 DEF Graph, PointersApart, NotPointedAt
  <2>2. CASE y = a
    BY <1>1, <2>2 DEF Graph, PointersApart, NotPointedAt
  <2>3. CASE x # a /\ y # a
    <3>1. mem'[x] = mem[x] /\ mem'[y] = mem[y]
      BY <1>1, <2>3
    <3> QED
      BY <3>1 DEF Graph, PointersApart
  <2> QED
    BY <2>1, <2>2, <2>3
<1>4. PointersInside'
  BY <1>1 DEF Graph, PointersInside, NotPointedAt
<1>5. FreeIsErased'
  BY <1>1 DEF Graph, FreeIsErased
<1> QED
  BY <1>2, <1>3, <1>4, <1>5 DEF Graph

(***************************************************************************)
(* What a write does to the number of free blocks.                         *)
(***************************************************************************)
LEMMA FreeSetAfter ==
  ASSUME MemOK, NEW a \in Blocks, NEW b \in BlockState, mem' = [mem EXCEPT ![a] = b]
  PROVE  /\ FreeSet' = IF IsFree(b) THEN FreeSet \union {a} ELSE FreeSet \ {a}
         /\ IsFiniteSet(FreeSet) /\ Cardinality(FreeSet) \in 0 .. BlockCount
         /\ Masters' = IF b.master THEN Masters \union {a} ELSE Masters \ {a}
<1>1. mem'[a] = b /\ (\A x \in Blocks \ {a} : mem'[x] = mem[x]) /\ a \in 0 .. BlockCount
  BY UBSAssumption DEF UBSAssumption, MemOK, Blocks
<1>2. FreeSet' = IF IsFree(b) THEN FreeSet \union {a} ELSE FreeSet \ {a}
  BY <1>1 DEF FreeSet
<1>3. IsFiniteSet(Blocks) /\ Cardinality(Blocks) = BlockCount /\ FreeSet \in SUBSET Blocks
  <2>1. 0 \in Int /\ BlockCount - 1 \in Int /\ ~(0 > BlockCount - 1) /\ (BlockCount - 1) - 0 + 1 = BlockCount
    BY UBSAssumption DEF UBSAssumption
  <2> QED
    BY <2>1, FS_Interval DEF Blocks, FreeSet
<1>4. IsFiniteSet(FreeSet) /\ Cardinality(FreeSet) <= BlockCount /\ Cardinality(FreeSet) \in Nat
  BY <1>3, FS_Subset, FS_CardinalityType
<1>5. Masters' = IF b.master THEN Masters \union {a} ELSE Masters \ {a}
  BY <1>1 DEF Masters
<1> QED
  BY <1>2, <1>4, <1>5, UBSAssumption DEF UBSAssumption

(* There is a lowest block in every set of blocks.                         *)
LEMMA LowestIs ==
  ASSUME NEW S, S \subseteq Blocks, S # {}
  PROVE  Lowest(S) \in S /\ \A b \in S : Lowest(S) <= b
<1>1. S \subseteq Nat
  BY UBSAssumption DEF UBSAssumption, Blocks
<1>2. \E x \in S : \A y \in S : x <= y
  BY <1>1, LeastExists
<1> QED
  BY <1>2 DEF Lowest

----------------------------------------------------------------------------
(* The inductive invariant.                                                *)

Calls == {Idle}
  \union [pc : {"put", "trim"}, name : Names, file : Blocks, address : Blocks, block : Nat,
          new : Nat \ {0}, old : Nat, data : Seq(Units), erase : Blocks \union {NoBlock},
          want : Seq(Units), was : {call.was}]
  \union [pc : {"delete"}, name : Names, file : Blocks, address : Blocks, left : Nat \ {0},
          was : {call.was}]
  \union [pc : {"format"}, address : Blocks]

(* What a call returns.                                                    *)
Results == [name : Names \union {NoName}, is : {"none", "OK", "NOK", "NOT_FOUND", "TOO_LARGE"}]

(* The types.                                                              *)
Typed == MemOK /\ freeBlocks \in 0 .. BlockCount /\ result \in Results /\ call \in Calls

(* A pointer to a free block is that to the block reserved.                *)
OnlyReservedFree ==
  call.pc # "format" =>
    \A a \in Blocks : mem[a].next \in FreeSet => Growing /\ mem[a].next = call.address

(* A chain of n used blocks starts at a.                                   *)
Run(a, n) ==
  \E w \in [0 .. n - 1 -> Blocks] :
    /\ w[0] = a
    /\ \A i, j \in 0 .. n - 1 : w[i] = w[j] => i = j
    /\ \A i \in 0 .. n - 1 : w[i] \notin FreeSet
    /\ \A i \in 0 .. n - 1 : mem[w[i]].next = IF i = n - 1 THEN NoBlock ELSE w[i + 1]

(* n blocks are as many as a text of the size needs.                       *)
Needs(size, n) == (n - 1) * DataSize < size + NameSize /\ size + NameSize <= n * DataSize

(* At the k-th block len units of a text of the size are left.             *)
Left(k, len, size) == len + k * DataSize = size + IF k = 0 THEN 0 ELSE NameSize
Room(k) == IF k = 0 THEN DataSize - NameSize ELSE DataSize

(* Between two rounds of uBSWrite: as much of the text is left as the      *)
(* blocks left hold, the old chain goes on for as long as it is reused,    *)
(* and then a free block waits; and the blocks still to be reserved are    *)
(* there.                                                                  *)
PutInv ==
  call.pc = "put" =>
    /\ call.block < call.new
    /\ Needs(Len(call.want), call.new)
    /\ Left(call.block, Len(call.data), Len(call.want))
    /\ call.block = 0 => call.address = call.file /\ (call.old # 0 => mem[call.file].master)
    /\ IF call.block < call.old THEN Run(call.address, call.old - call.block)
                                ELSE call.address \in FreeSet
    /\ IF call.block + 1 < call.old THEN call.new - call.old <= freeBlocks
                                    ELSE call.new - 1 - call.block <= freeBlocks

(* While uBSWrite erases: what is left of the old chain starts at the      *)
(* block to erase, and nothing else leads there.                           *)
TrimInv ==
  call.pc = "trim" =>
    /\ call.block < call.old /\ Run(call.erase, call.old - call.block)
    /\ call.erase \in Blocks /\ NotPointedAt(call.erase) /\ ~mem[call.erase].master

(* While uBSDelete erases: the same.                                       *)
DeleteInv ==
  call.pc = "delete" => Run(call.address, call.left) /\ NotPointedAt(call.address)

(* While uBSFormat erases: the blocks before the next one are erased.      *)
FormatInv ==
  call.pc = "format" => \A a \in Blocks : a < call.address => mem[a] = Erased

(* The counter is at most the number of free blocks, without the one that  *)
(* the call has been given.                                                *)
Promised == IF call.pc = "put" THEN {call.address} ELSE {}
Counted  == freeBlocks <= Cardinality(FreeSet \ Promised)

(* The inductive invariant for the chains and the counter.                 *)
IInv ==
  /\ Typed /\ Graph /\ OnlyReservedFree
  /\ PutInv /\ TrimInv /\ DeleteInv /\ FormatInv /\ Counted

(***************************************************************************)
(* Between two calls a script's chain is of used blocks.                   *)
(***************************************************************************)
LEMMA RunFromMaster ==
  ASSUME Typed, Graph, OnlyReservedFree, call = Idle, NEW a \in Masters
  PROVE  a \in Blocks /\ NotPointedAt(a) /\ Length(a) \in 1 .. BlockCount /\ Run(a, Length(a))
<1>1. a \in Blocks /\ mem[a].master /\ NotPointedAt(a)
  BY UBSAssumption DEF Masters, Graph, PointersInside, NotPointedAt, UBSAssumption, Blocks
<1>2. PICK n, p : n = Length(a) /\ p = Path(a)
  OBVIOUS
<1>3. BlockCount \in Nat /\ NoBlock \notin Blocks /\ a \in 0 .. BlockCount
  BY <1>1, UBSAssumption DEF UBSAssumption, Blocks
<1>4. /\ p[0] = a
      /\ \A k \in 0 .. BlockCount : p[k + 1] = IF p[k] = NoBlock THEN NoBlock ELSE mem[p[k]].next
  BY <1>2, <1>3, PathIs DEF Typed
<1>5. /\ n \in 1 .. BlockCount
      /\ \A k \in 0 .. n - 1 : p[k] \in Blocks
      /\ \A k \in n .. BlockCount + 1 : p[k] = NoBlock
      /\ \A i, j \in 0 .. n - 1 : p[i] = p[j] => i = j
  <2>1. /\ Length(a) \in 1 .. BlockCount
        /\ \A k \in 0 .. Length(a) - 1 : Path(a)[k] \in Blocks
        /\ \A k \in Length(a) .. BlockCount + 1 : Path(a)[k] = NoBlock
        /\ \A i, j \in 0 .. Length(a) - 1 : Path(a)[i] = Path(a)[j] => i = j
    BY <1>1, RootPath DEF Typed
  <2> QED
    BY <1>2, <2>1
<1> DEFINE w == [k \in 0 .. n - 1 |-> p[k]]
<1>6. /\ w \in [0 .. n - 1 -> Blocks] /\ w[0] = a
      /\ \A i, j \in 0 .. n - 1 : w[i] = w[j] => i = j
  BY <1>4, <1>5
<1>7. ASSUME NEW k \in 0 .. n - 1
      PROVE  w[k] \notin FreeSet /\ mem[w[k]].next = IF k = n - 1 THEN NoBlock ELSE w[k + 1]
  <2>1. k \in 0 .. BlockCount /\ w[k] = p[k] /\ p[k] \in Blocks /\ k \in Nat /\ n \in Nat
    BY <1>3, <1>5
  <2>2. mem[p[k]].next = p[k + 1]
    BY <1>3, <1>4, <2>1
  <2>3. k = n - 1 => p[k + 1] = NoBlock
    <3>1. n \in n .. BlockCount + 1
      BY <1>3, <1>5
    <3> QED
      BY <1>5, <2>1, <3>1
  <2>4. k # n - 1 => w[k + 1] = p[k + 1]
    BY <2>1
  <2>5. k = 0 => w[k] \notin FreeSet
    BY <1>1, <1>4, <2>1 DEF FreeSet, IsFree
  <2>6. k # 0 => w[k] \notin FreeSet
    <3> SUFFICES ASSUME k # 0 PROVE p[k] \notin FreeSet
      BY <2>1
    <3>1. PICK j \in 0 .. n - 1 : j + 1 = k /\ j \in 0 .. BlockCount
      <4>1. k - 1 \in 0 .. n - 1 /\ (k - 1) + 1 = k /\ k - 1 \in 0 .. BlockCount
        BY <1>3, <1>5, <2>1
      <4> QED
        BY <4>1
    <3>2. p[j] \in Blocks /\ mem[p[j]].next = p[k]
      BY <1>3, <1>4, <1>5, <3>1
    <3> QED
      BY <3>2 DEF OnlyReservedFree, Idle, Growing
  <2> QED
    BY <2>1, <2>2, <2>3, <2>4, <2>5, <2>6
<1>8. Run(a, n)
  <2> HIDE DEF w
  <2> QED
    BY <1>6, <1>7 DEF Run
<1> QED
  BY <1>1, <1>2, <1>5, <1>8

(***************************************************************************)
(* When the first block of a chain is written, the rest goes on from where *)
(* it pointed.                                                             *)
(***************************************************************************)
LEMMA RunGoesOn ==
  ASSUME MemOK, NEW a, NEW n \in Nat \ {0}, Run(a, n), NEW b \in BlockState,
         mem' = [mem EXCEPT ![a] = b], NEW y, y = mem[a].next
  PROVE  /\ a \in Blocks \ FreeSet
         /\ n = 1 => y = NoBlock
         /\ n > 1 => y \in Blocks \ {a} /\ Run(y, n - 1)'
<1>1. PICK w \in [0 .. n - 1 -> Blocks] :
    /\ w[0] = a
    /\ \A i, j \in 0 .. n - 1 : w[i] = w[j] => i = j
    /\ \A i \in 0 .. n - 1 : w[i] \notin FreeSet
    /\ \A i \in 0 .. n - 1 : mem[w[i]].next = IF i = n - 1 THEN NoBlock ELSE w[i + 1]
  BY DEF Run
<1>2. 0 \in 0 .. n - 1 /\ a \in Blocks /\ a \in 0 .. BlockCount
  BY <1>1, UBSAssumption DEF UBSAssumption, Blocks
<1>3. a \in Blocks \ FreeSet /\ (n = 1 => y = NoBlock)
  BY <1>1, <1>2
<1>4. ASSUME n > 1 PROVE y \in Blocks \ {a} /\ Run(y, n - 1)'
  <2> DEFINE v == [k \in 0 .. (n - 1) - 1 |-> w[k + 1]]
  <2>1. 1 \in 0 .. n - 1 /\ y = w[1] /\ y \in Blocks \ {a}
    BY <1>1, <1>2, <1>4
  <2>2. /\ \A k \in 0 .. (n - 1) - 1 : k + 1 \in 0 .. n - 1 /\ w[k + 1] # a
        /\ v \in [0 .. (n - 1) - 1 -> Blocks] /\ v[0] = y
    <3>1. \A k \in 0 .. (n - 1) - 1 : k + 1 \in 0 .. n - 1 /\ k + 1 # 0
      OBVIOUS
    <3>2. \A k \in 0 .. (n - 1) - 1 : w[k + 1] # a /\ w[k + 1] \in Blocks
      BY <1>1, <1>2, <3>1
    <3>3. 0 \in 0 .. (n - 1) - 1
      BY <1>4
    <3> QED
      BY <2>1, <3>1, <3>2, <3>3
  <2>3. \A i, j \in 0 .. (n - 1) - 1 : v[i] = v[j] => i = j
    BY <1>1, <2>2
  <2>4. ASSUME NEW k \in 0 .. (n - 1) - 1
        PROVE  v[k] \notin FreeSet' /\ mem'[v[k]].next = IF k = (n - 1) - 1 THEN NoBlock ELSE v[k + 1]
    <3>1. v[k] = w[k + 1] /\ w[k + 1] \in Blocks \ {a} /\ k + 1 \in 0 .. n - 1
      BY <2>2
    <3>2. mem'[w[k + 1]] = mem[w[k + 1]]
      BY <3>1, UBSAssumption DEF MemOK, UBSAssumption, Blocks
    <3>3. v[k] \notin FreeSet'
      BY <1>1, <3>1, <3>2 DEF FreeSet
    <3>4. mem'[v[k]].next = IF k + 1 = n - 1 THEN NoBlock ELSE w[(k + 1) + 1]
      BY <1>1, <3>1, <3>2
    <3>5. k # (n - 1) - 1 => v[k + 1] = w[(k + 1) + 1]
      OBVIOUS
    <3> QED
      BY <3>3, <3>4, <3>5
  <2>5. Run(y, n - 1)'
    <3> HIDE DEF v
    <3> QED
      BY <2>2, <2>3, <2>4 DEF Run
  <2> QED
    BY <2>1, <2>5
<1> QED
  BY <1>3, <1>4

(***************************************************************************)
(* The blocks that a text needs.                                           *)
(***************************************************************************)
LEMMA BlocksForIs ==
  ASSUME NEW size \in Nat
  PROVE  BlocksFor(size) \in Nat \ {0} /\ Needs(size, BlocksFor(size))
<1>1. PICK total \in Nat \ {0} : total = size + NameSize
  BY UBSAssumption DEF UBSAssumption
<1>2. DataSize \in Nat \ {0}
  BY UBSAssumption DEF UBSAssumption
<1>3. PICK q, r : q = total \div DataSize /\ r = total % DataSize
  OBVIOUS
<1>4. q \in Nat /\ r \in 0 .. (DataSize - 1) /\ total = q * DataSize + r
  BY <1>1, <1>2, <1>3, Division
<1>5. PICK m : m = q * DataSize /\ m \in Nat
  BY <1>2, <1>4
<1>6. (q - 1) * DataSize = m - DataSize /\ (q + 1) * DataSize = m + DataSize /\ ((q + 1) - 1) * DataSize = m
  BY <1>2, <1>4, <1>5
<1>7. BlocksFor(size) = q + (IF r = 0 THEN 0 ELSE 1)
  BY <1>1, <1>3 DEF BlocksFor
<1>8. CASE r = 0
  <2>1. total = m /\ q # 0
    BY <1>1, <1>2, <1>4, <1>5, <1>8
  <2>2. BlocksFor(size) = q
    BY <1>4, <1>7, <1>8
  <2>3. (q - 1) * DataSize < size + NameSize /\ size + NameSize <= q * DataSize
    BY <1>1, <1>2, <1>5, <1>6, <2>1
  <2> QED
    BY <1>4, <2>1, <2>2, <2>3 DEF Needs
<1>9. CASE r # 0
  <2>1. BlocksFor(size) = q + 1
    BY <1>4, <1>7, <1>9
  <2>2. ((q + 1) - 1) * DataSize < size + NameSize /\ size + NameSize <= (q + 1) * DataSize
    BY <1>1, <1>2, <1>4, <1>5, <1>6, <1>9
  <2> QED
    BY <1>4, <2>1, <2>2 DEF Needs
<1> QED
  BY <1>8, <1>9

----------------------------------------------------------------------------
(* What the theorems need of the constants: no name is new while there is  *)
(* no block for it, and no reset comes while a block is reserved.          *)
Careful == OnlyWhileFree /\ ~CutGrowth

(* A text has the length asked for.                                        *)
LEMMA TextIs ==
  ASSUME NEW t \in Texts, NEW s \in Sizes
  PROVE  Text(t, s) \in Seq(Units) /\ Len(Text(t, s)) = s /\ s \in Nat
<1>1. s \in Nat
  BY UBSAssumption DEF UBSAssumption
<1>2. Text(t, s) \in [1 .. s -> Units]
  BY <1>1 DEF Text, Units
<1>3. Text(t, s) \in Seq(Units)
  BY <1>1, <1>2
<1> QED
  BY <1>1, <1>2, <1>3, LenProperties

(* What uBSWrite has chosen when it starts.                                *)
Starts(n, text, file, old, new, free) ==
  /\ freeBlocks' = free /\ mem' = mem /\ call = Idle
  /\ new = BlocksFor(Len(text))
  /\ \/ /\ Named(n) # {} /\ file = Lowest(Named(n)) /\ file \in Masters
        /\ old = Length(file) /\ old \in Nat \ {0} /\ Run(file, old)
        /\ free = freeBlocks
     \/ /\ Named(n) = {} /\ file \in FreeSet /\ old = 0 /\ free = freeBlocks - 1
  /\ free \in 0 .. BlockCount
  /\ free <= Cardinality(FreeSet \ {file})
  /\ \/ Return(n, "TOO_LARGE")
     \/ /\ new - old <= free
        /\ call' = [pc |-> "put", name |-> n, file |-> file, address |-> file,
                    block |-> 0, new |-> new, old |-> old, data |-> text,
                    erase |-> NoBlock, want |-> text, was |-> Entry(file)]
        /\ UNCHANGED result

(* uBSWrite starts at the script of the name or at a free block.           *)
LEMMA WriteChooses ==
  ASSUME Careful, IInv, NEW n \in Names, NEW text \in Seq(Units), Write(n, text)
  PROVE  \E file, old, new, free : Starts(n, text, file, old, new, free)
<1> DEFINE found == Seek(n)
           file == IF found # NoBlock THEN found ELSE FirstFree(End)
           old  == IF found # NoBlock THEN Length(found) ELSE 0
           new  == BlocksFor(Len(text))
           free == IF found # NoBlock THEN freeBlocks ELSE Taken(file)
<1>1. /\ freeBlocks' = free /\ mem' = mem /\ call = Idle
      /\ found # NoBlock \/ freeBlocks > 0
      /\ \/ Return(n, "TOO_LARGE")
         \/ /\ new - old <= free
            /\ call' = [pc |-> "put", name |-> n, file |-> file, address |-> file,
                        block |-> 0, new |-> new, old |-> old, data |-> text,
                        erase |-> NoBlock, want |-> text, was |-> Entry(file)]
            /\ UNCHANGED result
  BY DEF Write, Careful, Fits
<1>2. BlockCount \in Nat /\ CounterSize \in Nat /\ BlockCount < CounterSize /\ NoBlock \notin Blocks
      /\ End \notin Blocks
  BY UBSAssumption DEF UBSAssumption, Blocks, End
<1>3. freeBlocks \in 0 .. BlockCount /\ freeBlocks <= Cardinality(FreeSet)
  <2>1. FreeSet \ {} = FreeSet
    OBVIOUS
  <2>2. Promised = {}
    BY <1>1 DEF Promised, Idle
  <2> QED
    BY <2>1, <2>2 DEF IInv, Typed, Counted
<1>4. FreeSet \subseteq Blocks /\ Named(n) \subseteq Masters /\ Masters \subseteq Blocks
  BY DEF FreeSet, Named, Masters
<1>5. IsFiniteSet(FreeSet)
  <2>1. IsFiniteSet(Blocks)
    BY <1>2, FS_Interval DEF Blocks
  <2> QED
    BY <1>4, <2>1, FS_Subset
<1>6. CASE Named(n) # {}
  <2>1. found = Lowest(Named(n)) /\ found \in Masters /\ found # NoBlock
    BY <1>2, <1>4, <1>6, LowestIs DEF Seek
  <2>2. Length(found) \in Nat \ {0} /\ Run(found, Length(found))
    <3>1. Length(found) \in 1 .. BlockCount /\ Run(found, Length(found))
      BY <1>1, <2>1, RunFromMaster DEF IInv
    <3> QED
      BY <1>2, <3>1
  <2>3. FreeSet \ {found} = FreeSet
    BY <2>1 DEF FreeSet, Masters, IsFree
  <2>4. file = found /\ old = Length(found) /\ free = freeBlocks
    BY <2>1
  <2>5. PICK f, o, m, r : f = file /\ o = old /\ m = new /\ r = free
    OBVIOUS
  <2> HIDE DEF found, file, old, new, free
  <2> WITNESS f, o, m, r
  <2>6. m = BlocksFor(Len(text))
    BY <2>5 DEF new
  <2>7. r \in 0 .. BlockCount /\ r <= Cardinality(FreeSet \ {f})
    BY <1>3, <2>3, <2>4, <2>5
  <2> QED
    BY <1>1, <1>6, <2>1, <2>2, <2>4, <2>5, <2>6, <2>7 DEF Starts
<1>7. CASE Named(n) = {}
  <2>1. found = NoBlock /\ freeBlocks > 0
    BY <1>1, <1>7 DEF Seek
  <2>2. FreeSet # {} /\ FreeSet \ {End} = FreeSet
    <3>1. FreeSet # {}
      <4> SUFFICES ASSUME FreeSet = {} PROVE FALSE
        OBVIOUS
      <4>1. Cardinality(FreeSet) = 0
        BY FS_EmptySet
      <4> QED
        BY <1>2, <1>3, <2>1, <4>1
    <3> QED
      BY <1>2, <1>4, <3>1
  <2>3. file = Lowest(FreeSet) /\ old = 0
    BY <2>1, <2>2 DEF FirstFree
  <2>4. file \in FreeSet
    BY <1>4, <2>2, <2>3, LowestIs
  <2>5. free = freeBlocks - 1
    BY <1>2, <1>3, <1>4, <2>1, <2>4 DEF Taken
  <2>6. Cardinality(FreeSet \ {file}) = Cardinality(FreeSet) - 1
    BY <1>5, <2>4, FS_RemoveElement
  <2>7. PICK f, o, m, r : f = file /\ o = old /\ m = new /\ r = free
    OBVIOUS
  <2> HIDE DEF found, file, old, new, free
  <2> WITNESS f, o, m, r
  <2>8. m = BlocksFor(Len(text))
    BY <2>7 DEF new
  <2>9. Cardinality(FreeSet) \in Nat
    BY <1>5, FS_CardinalityType
  <2>10. r \in 0 .. BlockCount /\ r <= Cardinality(FreeSet \ {f})
    BY <1>2, <1>3, <2>1, <2>5, <2>6, <2>7, <2>9
  <2> QED
    BY <1>1, <1>7, <2>3, <2>4, <2>5, <2>7, <2>8, <2>10 DEF Starts
<1> QED
  BY <1>6, <1>7

(* The start of uBSWrite.                                                  *)
LEMMA WriteKeepsInv ==
  ASSUME Careful, IInv, NEW n \in Names, NEW text \in Seq(Units), Write(n, text)
  PROVE  IInv'
<1>1. PICK file, old, new, free :
           /\ freeBlocks' = free /\ mem' = mem /\ call = Idle
           /\ new = BlocksFor(Len(text))
           /\ \/ /\ Named(n) # {} /\ file = Lowest(Named(n)) /\ file \in Masters
                 /\ old = Length(file) /\ old \in Nat \ {0} /\ Run(file, old)
                 /\ free = freeBlocks
              \/ /\ Named(n) = {} /\ file \in FreeSet /\ old = 0 /\ free = freeBlocks - 1
           /\ free \in 0 .. BlockCount
           /\ free <= Cardinality(FreeSet \ {file})
           /\ \/ Return(n, "TOO_LARGE")
              \/ /\ new - old <= free
                 /\ call' = [pc |-> "put", name |-> n, file |-> file, address |-> file,
                             block |-> 0, new |-> new, old |-> old, data |-> text,
                             erase |-> NoBlock, want |-> text, was |-> Entry(file)]
                 /\ UNCHANGED result
  <2>1. PICK file, old, new, free : Starts(n, text, file, old, new, free)
    BY WriteChooses
  <2> QED
    BY <2>1 DEF Starts
<1>2. /\ FreeSet' = FreeSet /\ Masters' = Masters /\ MemOK' /\ Graph'
      /\ \A a \in Blocks : mem[a].next \notin FreeSet
  <2>1. \A a \in Blocks : mem[a].next \notin FreeSet
    BY <1>1 DEF IInv, OnlyReservedFree, Idle, Growing
  <2> QED
    BY <1>1, <2>1 DEF IInv, Typed, MemOK, Graph, PointersApart, PointersInside, FreeIsErased, FreeSet, Masters
<1>3. OnlyReservedFree'
  BY <1>1, <1>2 DEF OnlyReservedFree
<1>4. file \in Blocks /\ FreeSet \subseteq Blocks
  BY <1>1 DEF Masters, FreeSet
<1>5. CASE Return(n, "TOO_LARGE")
  <2>1. call' = Idle /\ result' \in Results
    BY <1>5 DEF Return, Results
  <2>2. Typed'
    BY <1>1, <1>2, <2>1 DEF Typed, Calls
  <2>3. free <= Cardinality(FreeSet)
    <3>1. IsFiniteSet(FreeSet)
      <4>1. IsFiniteSet(Blocks)
        BY UBSAssumption, FS_Interval DEF UBSAssumption, Blocks
      <4> QED
        BY <1>4, <4>1, FS_Subset
    <3>2. PICK S, T : S = FreeSet /\ T = FreeSet \ {file}
      OBVIOUS
    <3>3. IsFiniteSet(T) /\ Cardinality(T) <= Cardinality(S)
      BY <3>1, <3>2, FS_Subset
    <3>4. Cardinality(T) \in Nat /\ Cardinality(S) \in Nat
      BY <3>1, <3>2, <3>3, FS_CardinalityType
    <3>5. free <= Cardinality(T) /\ free \in Int
      BY <1>1, <3>2
    <3>6. free <= Cardinality(S)
      BY <3>3, <3>4, <3>5
    <3> QED
      BY <3>2, <3>6
  <2>4. Counted'
    <3>1. Promised' = {} /\ FreeSet \ {} = FreeSet
      BY <2>1 DEF Promised, Idle
    <3> QED
      BY <1>1, <1>2, <2>3, <3>1 DEF Counted
  <2>5. PutInv' /\ TrimInv' /\ DeleteInv' /\ FormatInv'
    BY <2>1 DEF PutInv, TrimInv, DeleteInv, FormatInv, Idle
  <2> QED
    BY <1>2, <1>3, <2>2, <2>4, <2>5 DEF IInv
<1>6. CASE /\ new - old <= free
           /\ call' = [pc |-> "put", name |-> n, file |-> file, address |-> file,
                       block |-> 0, new |-> new, old |-> old, data |-> text,
                       erase |-> NoBlock, want |-> text, was |-> Entry(file)]
           /\ UNCHANGED result
  <2>1. new \in Nat \ {0} /\ Needs(Len(text), new) /\ Len(text) \in Nat /\ old \in Nat
    <3>1. Len(text) \in Nat /\ new = BlocksFor(Len(text))
      BY <1>1
    <3>2. new \in Nat \ {0} /\ Needs(Len(text), new)
      BY <3>1, BlocksForIs
    <3>3. old \in Nat
      BY <1>1
    <3> QED
      BY <3>1, <3>2, <3>3
  <2>2. /\ call'.pc = "put" /\ call'.block = 0 /\ call'.new = new /\ call'.old = old
        /\ call'.data = text /\ call'.want = text /\ call'.file = file /\ call'.address = file
    BY <1>6
  <2>3. Typed'
    <3>1. call' \in Calls'
      BY <1>4, <1>6, <2>1 DEF Calls
    <3> QED
      BY <1>1, <1>2, <1>6, <3>1 DEF IInv, Typed
  <2>4. Counted'
    BY <1>1, <1>2, <2>2 DEF Counted, Promised
  <2>5. PutInv'
    <3>1. Left(0, Len(text), Len(text))
      BY <2>1, UBSAssumption DEF UBSAssumption, Left
    <3>2. old # 0 => mem[file].master
      BY <1>1 DEF Masters
    <3>3. IF 0 < old THEN Run(file, old - 0)' ELSE file \in FreeSet'
      <4>1. old # 0 => Run(file, old)
        BY <1>1
      <4>2. old # 0 => Run(file, old)'
        BY <1>1, <1>2, <4>1 DEF Run
      <4>3. old - 0 = old
        BY <2>1
      <4> QED
        BY <1>1, <1>2, <2>1, <4>2, <4>3
    <3>4. IF 0 + 1 < old THEN new - old <= free ELSE new - 1 - 0 <= free
      BY <1>1, <1>6, <2>1
    <3>5. 0 < new
      BY <2>1
    <3> QED
      BY <1>1, <2>1, <2>2, <3>1, <3>2, <3>3, <3>4, <3>5 DEF PutInv
  <2>6. TrimInv' /\ DeleteInv' /\ FormatInv'
    BY <2>2 DEF TrimInv, DeleteInv, FormatInv
  <2> QED
    BY <1>2, <1>3, <2>3, <2>4, <2>5, <2>6 DEF IInv
<1> QED
  BY <1>1, <1>5, <1>6

(***************************************************************************)
(* The texts of the blocks: one is full until the last, none is empty but  *)
(* perhaps the first.                                                      *)
(***************************************************************************)
LEMMA DataRuns ==
  ASSUME NEW k \in Nat, NEW new \in Nat \ {0}, NEW len \in Nat, NEW total \in Nat,
         k < new, Needs(total, new),
         Left(k, len, total)
  PROVE  /\ Room(k) \in Nat \ {0}
         /\ k # 0 => len > 0
         /\ k # new - 1 => len > Room(k) /\ Left(k + 1, len - Room(k), total)
         /\ k = new - 1 => len <= Room(k)
<1>1. DataSize \in Nat \ {0} /\ NameSize \in Nat \ {0} /\ NameSize < DataSize
  BY UBSAssumption DEF UBSAssumption
<1>2. PICK m, c, d : m = k * DataSize /\ c = (new - 1) * DataSize /\ d = (k + 1) * DataSize
  OBVIOUS
<1>3. m \in Nat /\ c \in Nat /\ d = m + DataSize /\ (k = 0 => m = 0)
  BY <1>1, <1>2
<1>4. new * DataSize = c + DataSize
  BY <1>1, <1>2
<1>5. c < total + NameSize /\ total + NameSize <= c + DataSize
  BY <1>2, <1>4 DEF Needs
<1>6. k = new - 1 => m = c
  BY <1>2
<1>7. k # new - 1 => d <= c
  <2> SUFFICES ASSUME k # new - 1 PROVE d <= c
    OBVIOUS
  <2>1. k < new - 1 /\ k \in Int /\ new - 1 \in Int
    OBVIOUS
  <2>2. k * DataSize + DataSize <= (new - 1) * DataSize
    BY <1>1, <2>1, Times
  <2> QED
    BY <1>2, <1>3, <2>2
<1>8. len + m = total + IF k = 0 THEN 0 ELSE NameSize
  BY <1>2 DEF Left
<1>11. PICK room : room = Room(k) /\ room = IF k = 0 THEN DataSize - NameSize ELSE DataSize
  BY DEF Room
<1>12. (len - room) + d = total + NameSize => Left(k + 1, len - room, total)
  <2>1. k + 1 # 0
    OBVIOUS
  <2> QED
    BY <1>2, <2>1 DEF Left
<1>9. CASE k = 0
  BY <1>1, <1>2, <1>3, <1>5, <1>6, <1>7, <1>8, <1>9, <1>11, <1>12
<1>10. CASE k # 0
  BY <1>1, <1>2, <1>3, <1>5, <1>6, <1>7, <1>8, <1>10, <1>11, <1>12
<1> QED
  BY <1>9, <1>10

(* The calls that PutBlock can be a round of.                              *)
PutCalls ==
  [pc : {"put", "trim"}, name : Names, file : Blocks, address : Blocks, block : Nat,
   new : Nat \ {0}, old : Nat, data : Seq(Units), erase : Blocks \union {NoBlock},
   want : Seq(Units), was : {call.was}]

(* The round of the k-th block, at a: size units of the text go into it,   *)
(* and next is its pointer.                                                *)
RoundStarts(k, a, old, new, text, size) ==
  /\ call.pc = "put" /\ call \in PutCalls /\ result \in Results
  /\ k = call.block /\ a = call.address /\ old = call.old /\ new = call.new /\ text = call.data
  /\ k \in Nat /\ a \in Blocks /\ new \in Nat \ {0} /\ old \in Nat /\ text \in Seq(Units)
  /\ k < new /\ (k = 0 => a = call.file /\ NotPointedAt(a))
  /\ size \in 0 .. Len(text) /\ size = IF k # new - 1 THEN Room(k) ELSE Len(text)
  /\ k # new - 1 => Left(k + 1, Len(text) - size, Len(call.want))
  /\ IF k + 1 < old THEN new - old <= freeBlocks ELSE new - 1 - k <= freeBlocks

(* What the round writes.                                                  *)
RoundWrites(k, a, text, size, next, b) ==
  /\ b = [master |-> k = 0, next |-> next, name |-> IF k = 0 THEN call.name ELSE NoName,
          data |-> SubSeq(text, 1, size)]
  /\ b \in BlockState /\ (b.master <=> k = 0) /\ ~IsFree(b)
  /\ mem' = [mem EXCEPT ![a] = b] /\ MemOK /\ Graph /\ MemOK' /\ Graph'
  /\ mem'[a] = b /\ \A x \in Blocks \ {a} : mem'[x] = mem[x]
  /\ FreeSet' = FreeSet \ {a}

(* Where the block written points, and what of the old chain is left.      *)
RoundPoints(k, a, old, new, next, rest) ==
  /\ \/ k = new - 1 /\ next = NoBlock /\ freeBlocks' = freeBlocks
     \/ /\ k # new - 1 /\ k + 1 >= old
        /\ next \in FreeSet \ {a} /\ next \in Blocks /\ NotPointedAt(next)
        /\ freeBlocks' = freeBlocks - 1 /\ freeBlocks > 0
     \/ /\ k # new - 1 /\ k + 1 < old
        /\ next = mem[a].next /\ next \in Blocks \ {a} /\ freeBlocks' = freeBlocks
  /\ rest = IF k = new - 1 /\ k < old THEN mem[a].next ELSE call.erase
  /\ k + 1 >= old => mem[a].next = NoBlock
  /\ k + 1 < old => /\ mem[a].next \in Blocks \ {a} /\ mem[a].next \notin FreeSet'
                    /\ \A y : y = mem[a].next => Run(y, old - (k + 1))'
  /\ freeBlocks \in 0 .. BlockCount /\ freeBlocks' \in 0 .. BlockCount
  /\ freeBlocks <= Cardinality(FreeSet \ {a})
  /\ IsFiniteSet(FreeSet \ {a}) /\ Cardinality(FreeSet \ {a}) \in Nat
  /\ \A x \in Blocks : mem'[x].next \in FreeSet' => k # new - 1 /\ k + 1 >= old /\ mem'[x].next = next

(* How the call goes on.                                                   *)
RoundGoesOn(k, old, new, text, size, next, rest) ==
  \/ /\ k # new - 1
     /\ call' = [call EXCEPT !.address = next, !.block = k + 1,
                             !.data = SubSeq(text, size + 1, Len(text))]
     /\ UNCHANGED result
  \/ /\ k = new - 1 /\ new < old
     /\ call' = [call EXCEPT !.pc = "trim", !.block = k + 1, !.erase = rest]
     /\ UNCHANGED result
  \/ /\ k = new - 1 /\ new >= old
     /\ Return(call.name, "OK")

(* A round of uBSWrite.                                                    *)
Round(k, a, old, new, text, size, next, rest, b) ==
  /\ RoundStarts(k, a, old, new, text, size)
  /\ RoundWrites(k, a, text, size, next, b)
  /\ RoundPoints(k, a, old, new, next, rest)
  /\ RoundGoesOn(k, old, new, text, size, next, rest)

(* Every round is one.                                                     *)
LEMMA RoundIs ==
  ASSUME IInv, PutBlock
  PROVE  \E k, a, old, new, text, size, next, rest, b : Round(k, a, old, new, text, size, next, rest, b)
<1>1. PICK k, a, old, new, text, total :
        /\ k = call.block /\ a = call.address /\ old = call.old /\ new = call.new
        /\ text = call.data /\ total = Len(call.want)
  OBVIOUS
<1>2. /\ call.pc = "put"
      /\ call \in [pc : {"put", "trim"}, name : Names, file : Blocks, address : Blocks, block : Nat,
          new : Nat \ {0}, old : Nat, data : Seq(Units), erase : Blocks \union {NoBlock},
          want : Seq(Units), was : {call.was}]
  BY DEF PutBlock, IInv, Typed, Calls, Idle
<1>3. /\ k \in Nat /\ a \in Blocks /\ new \in Nat \ {0} /\ old \in Nat /\ text \in Seq(Units)
      /\ total \in Nat /\ Len(text) \in Nat
  BY <1>1, <1>2
<1>4. BlockCount \in Nat \ {0} /\ CounterSize \in Nat /\ BlockCount < CounterSize /\ NoBlock \notin Blocks
      /\ a \in 0 .. BlockCount /\ Blocks \subseteq 0 .. BlockCount /\ End \notin Blocks
  BY <1>3, UBSAssumption DEF UBSAssumption, Blocks, End
<1>5. /\ k < new /\ Needs(total, new)
      /\ Left(k, Len(text), total)
      /\ k = 0 => a = call.file /\ (old # 0 => mem[a].master)
      /\ IF k < old THEN Run(a, old - k) ELSE a \in FreeSet
      /\ IF k + 1 < old THEN new - old <= freeBlocks ELSE new - 1 - k <= freeBlocks
  BY <1>1, <1>2 DEF IInv, PutInv
<1> DEFINE last == k = new - 1
           reserve == ~last /\ k >= old - 1
<1>6. PICK room, size, next, rest, b :
        /\ room = Room(k)
        /\ size = IF Len(text) > room THEN room ELSE Len(text)
        /\ next = IF last THEN NoBlock ELSE IF reserve THEN FirstFree(a) ELSE mem[a].next
        /\ rest = IF last /\ k < old THEN mem[a].next ELSE call.erase
        /\ b = [master |-> k = 0, next |-> next, name |-> IF k = 0 THEN call.name ELSE NoName,
                data |-> SubSeq(text, 1, size)]
  OBVIOUS
<1>7. /\ mem' = [mem EXCEPT ![a] = b]
      /\ freeBlocks' = IF reserve THEN Taken(next) ELSE freeBlocks
      /\ \/ /\ ~last
            /\ call' = [call EXCEPT !.address = next, !.block = k + 1,
                                    !.data = SubSeq(text, size + 1, Len(text))]
            /\ UNCHANGED result
         \/ /\ last /\ new < old
            /\ call' = [call EXCEPT !.pc = "trim", !.block = k + 1, !.erase = rest]
            /\ UNCHANGED result
         \/ /\ last /\ new >= old
            /\ Return(call.name, "OK")
  BY <1>1, <1>2, <1>6 DEF PutBlock, Room
<1>8. /\ room \in Nat \ {0}
      /\ k # 0 => Len(text) > 0
      /\ ~last => Len(text) > room /\ Left(k + 1, Len(text) - room, total)
      /\ last => Len(text) <= room
  <2>1. room = Room(k)
    BY <1>6
  <2>2. /\ Room(k) \in Nat \ {0}
        /\ k # 0 => Len(text) > 0
        /\ k # new - 1 => Len(text) > Room(k) /\ Left(k + 1, Len(text) - Room(k), total)
        /\ k = new - 1 => Len(text) <= Room(k)
    BY <1>3, <1>5, DataRuns
  <2> QED
    BY <2>1, <2>2
<1>9. size \in 0 .. Len(text) /\ (k # 0 => size >= 1) /\ (~last => size = room)
  BY <1>3, <1>6, <1>8
<1>10. /\ SubSeq(text, 1, size) \in Seq(Units) /\ Len(SubSeq(text, 1, size)) = size
       /\ SubSeq(text, size + 1, Len(text)) \in Seq(Units)
       /\ Len(SubSeq(text, size + 1, Len(text))) = Len(text) - size
  BY <1>3, <1>9, SubSeqProperties
<1>11. MemOK /\ Graph /\ OnlyReservedFree /\ freeBlocks \in 0 .. BlockCount
       /\ freeBlocks <= Cardinality(FreeSet \ {a})
  BY <1>1, <1>2 DEF IInv, Typed, Counted, Promised
<1>12. IsFiniteSet(FreeSet \ {a}) /\ Cardinality(FreeSet \ {a}) \in Nat
  <2>1. IsFiniteSet(Blocks) /\ FreeSet \ {a} \in SUBSET Blocks
    BY <1>4, FS_Interval DEF Blocks, FreeSet
  <2> QED
    BY <2>1, FS_Subset, FS_CardinalityType
<1>13. k = 0 => NotPointedAt(a)
  <2> SUFFICES ASSUME k = 0 PROVE NotPointedAt(a)
    OBVIOUS
  <2>1. ~Growing
    BY <1>1 DEF Growing
  <2>2. CASE old # 0
    BY <1>3, <1>4, <1>5, <1>11, <2>2 DEF Graph, PointersInside, NotPointedAt
  <2>3. CASE old = 0
    BY <1>2, <1>5, <1>11, <2>1, <2>3 DEF OnlyReservedFree, NotPointedAt
  <2> QED
    BY <2>2, <2>3
\* What a block reserved is.
<1>14. ASSUME reserve
       PROVE  /\ ~last /\ next \in FreeSet \ {a} /\ next \in Blocks /\ NotPointedAt(next) /\ ~mem[next].master
              /\ freeBlocks' = freeBlocks - 1 /\ freeBlocks > 0 /\ k + 1 >= old
  <2>1. ~last /\ k + 1 >= old /\ next = FirstFree(a) /\ k + 1 <= new - 1
    BY <1>3, <1>5, <1>6, <1>14
  <2>2. freeBlocks >= 1
    BY <1>3, <1>5, <1>11, <2>1
  <2>3. FreeSet \ {a} # {}
    <3> SUFFICES ASSUME FreeSet \ {a} = {} PROVE FALSE
      OBVIOUS
    <3>1. Cardinality(FreeSet \ {a}) = 0
      BY FS_EmptySet
    <3> QED
      BY <1>11, <2>2, <3>1
  <2>4. next = Lowest(FreeSet \ {a})
    BY <2>1, <2>3 DEF FirstFree
  <2>5. FreeSet \ {a} \subseteq Blocks
    BY DEF FreeSet
  <2>6. next \in FreeSet \ {a} /\ next \in Blocks
    BY <2>3, <2>4, <2>5, LowestIs
  <2>7. NotPointedAt(next)
    BY <1>1, <1>2, <1>11, <2>6 DEF OnlyReservedFree, NotPointedAt
  <2>8. ~mem[next].master
    BY <2>6 DEF FreeSet, IsFree
  <2>9. Taken(next) = freeBlocks - 1
    BY <1>4, <1>11, <2>2, <2>6 DEF Taken
  <2>10. freeBlocks' = freeBlocks - 1 /\ freeBlocks > 0
    <3>1. freeBlocks' = Taken(next)
      BY <1>7, <1>14
    <3> QED
      BY <1>11, <2>2, <2>9, <3>1
  <2> QED
    BY <2>1, <2>6, <2>7, <2>8, <2>10
<1>15. next \in Blocks \union {NoBlock} /\ (next # NoBlock => next # a)
  <2>1. CASE last
    BY <1>6, <2>1
  <2>2. CASE reserve
    BY <1>4, <1>14, <2>2
  <2>3. CASE ~last /\ ~reserve
    <3>1. next = mem[a].next /\ k + 1 < old
      BY <1>3, <1>6, <2>3
    <3>2. old - k \in Nat \ {0} /\ old - k > 1 /\ Run(a, old - k)
      BY <1>3, <1>5, <3>1
    <3>3. PICK y, n : y = mem[a].next /\ n = old - k
      OBVIOUS
    <3>4. mem[a] \in BlockState /\ mem[a] = mem[a]
      BY <1>4, <1>11 DEF MemOK
    <3>5. PICK w \in [0 .. n - 1 -> Blocks] :
            /\ w[0] = a
            /\ \A i, j \in 0 .. n - 1 : w[i] = w[j] => i = j
            /\ \A i \in 0 .. n - 1 : mem[w[i]].next = IF i = n - 1 THEN NoBlock ELSE w[i + 1]
      BY <3>2, <3>3 DEF Run
    <3>6. 0 \in 0 .. n - 1 /\ 1 \in 0 .. n - 1 /\ 0 # n - 1 /\ n \in Nat
      BY <3>2, <3>3
    <3>7. y = w[1] /\ w[1] # a /\ w[1] \in Blocks
      BY <3>3, <3>5, <3>6
    <3> QED
      BY <3>1, <3>3, <3>7
  <2> QED
    BY <2>1, <2>2, <2>3
<1>16. b \in BlockState /\ b.next = next /\ (b.master <=> k = 0) /\ ~IsFree(b)
  <2>1. b \in BlockState
    BY <1>2, <1>4, <1>6, <1>10, <1>15 DEF BlockState
  <2>2. b.data = SubSeq(text, 1, size) /\ (b.master <=> k = 0) /\ b.next = next
    BY <1>6
  <2>3. k # 0 => b.data # <<>>
    BY <1>9, <1>10, <2>2
  <2> QED
    BY <2>1, <2>2, <2>3 DEF IsFree
<1>17. MemOK' /\ Graph'
  <2>1. \/ b.next \in {NoBlock, mem[a].next}
        \/ b.next \in Blocks \ {a} /\ NotPointedAt(b.next) /\ ~mem[b.next].master
    BY <1>6, <1>14, <1>16
  <2> QED
    BY <1>3, <1>7, <1>11, <1>13, <1>16, <2>1, WriteKeepsGraph
<1>18. FreeSet' = FreeSet \ {a} /\ mem'[a] = b /\ \A x \in Blocks \ {a} : mem'[x] = mem[x]
  <2>1. FreeSet' = FreeSet \ {a}
    BY <1>3, <1>7, <1>11, <1>16, FreeSetAfter
  <2> QED
    BY <1>4, <1>7, <1>11, <2>1 DEF MemOK
<1>19. ASSUME k < old
       PROVE  /\ old - k = 1 => mem[a].next = NoBlock
              /\ old - k > 1 => mem[a].next \in Blocks \ {a} /\ mem[a].next \notin FreeSet'
              /\ \A y : y = mem[a].next /\ old - k > 1 => Run(y, old - (k + 1))'
  <2>1. PICK n, y : n = old - k /\ y = mem[a].next
    OBVIOUS
  <2>2. n \in Nat \ {0} /\ Run(a, n) /\ old - (k + 1) = n - 1
    BY <1>3, <1>5, <1>19, <2>1
  <2>3. (n = 1 => y = NoBlock) /\ (n > 1 => y \in Blocks \ {a} /\ Run(y, n - 1)')
    <3>1. MemOK /\ mem' = [mem EXCEPT ![a] = b] /\ b \in BlockState
      BY <1>7, <1>11, <1>16
    <3>2. n = 1 => y = NoBlock
      BY <2>1, <2>2 DEF Run
    <3>3. n > 1 => y \in Blocks \ {a}
      BY <2>1, <2>2, <3>1, RunGoesOn
    <3>4. n > 1 => Run(y, n - 1)'
      BY <2>1, <2>2, <3>1, RunGoesOn
    <3> QED
      BY <3>2, <3>3, <3>4
  <2>4. n > 1 => y \notin FreeSet'
    BY <2>2, <2>3 DEF Run
  <2> QED
    BY <2>1, <2>2, <2>3, <2>4
<1>20. freeBlocks' \in 0 .. BlockCount
  <2>1. CASE reserve
    BY <1>4, <1>11, <1>14, <2>1
  <2>2. CASE ~reserve
    BY <1>7, <1>11, <2>2
  <2> QED
    BY <2>1, <2>2
<1>21. \A x \in Blocks : mem'[x].next \in FreeSet' => reserve /\ mem'[x].next = next
  <2> SUFFICES ASSUME NEW x \in Blocks, mem'[x].next \in FreeSet'
               PROVE reserve /\ mem'[x].next = next
    OBVIOUS
  <2>1. CASE x # a
    BY <1>1, <1>2, <1>11, <1>18, <2>1 DEF OnlyReservedFree
  <2>2. CASE x = a
    <3>1. mem'[x].next = next /\ next # NoBlock
      BY <1>4, <1>16, <1>18, <2>2 DEF FreeSet
    <3>2. reserve \/ next = mem[a].next
      BY <1>6, <3>1
    <3>3. next = mem[a].next => FALSE
      BY <1>1, <1>2, <1>3, <1>11, <1>18, <3>1 DEF OnlyReservedFree
    <3> QED
      BY <3>1, <3>2, <3>3
  <2> QED
    BY <2>1, <2>2
<1>22. RoundStarts(k, a, old, new, text, size)
  <2>1. size = IF k # new - 1 THEN Room(k) ELSE Len(text)
    BY <1>3, <1>6, <1>8, <1>9
  <2>2. k # new - 1 => Left(k + 1, Len(text) - size, Len(call.want))
    BY <1>1, <1>8, <1>9
  <2>3. call \in PutCalls /\ result \in Results
    BY <1>2 DEF PutCalls, IInv, Typed
  <2> QED
    BY <1>1, <1>2, <1>3, <1>5, <1>9, <1>13, <2>1, <2>2, <2>3 DEF RoundStarts
<1>23. RoundWrites(k, a, text, size, next, b)
  <2>1. mem' = [mem EXCEPT ![a] = b]
    BY <1>7
  <2>2. b = [master |-> k = 0, next |-> next, name |-> IF k = 0 THEN call.name ELSE NoName,
             data |-> SubSeq(text, 1, size)]
    BY <1>6
  <2> QED
    BY <1>11, <1>16, <1>17, <1>18, <2>1, <2>2 DEF RoundWrites
<1>24. RoundPoints(k, a, old, new, next, rest)
  <2>2. \/ last /\ next = NoBlock /\ freeBlocks' = freeBlocks
        \/ /\ ~last /\ k + 1 >= old
           /\ next \in FreeSet \ {a} /\ next \in Blocks /\ NotPointedAt(next)
           /\ freeBlocks' = freeBlocks - 1 /\ freeBlocks > 0
        \/ /\ ~last /\ k + 1 < old
           /\ next = mem[a].next /\ next \in Blocks \ {a} /\ freeBlocks' = freeBlocks
    <3>1. CASE last
      BY <1>6, <1>7, <3>1
    <3>2. CASE reserve
      BY <1>14, <3>2
    <3>3. CASE ~last /\ ~reserve
      <4>1. next = mem[a].next /\ k < old /\ old - k > 1 /\ freeBlocks' = freeBlocks /\ k + 1 < old
        BY <1>3, <1>6, <1>7, <3>3
      <4> QED
        BY <1>19, <3>3, <4>1
    <3> QED
      BY <3>1, <3>2, <3>3
  <2>3. k + 1 >= old => mem[a].next = NoBlock
    <3> SUFFICES ASSUME k + 1 >= old PROVE mem[a].next = NoBlock
      OBVIOUS
    <3>1. CASE k < old
      <4>1. old - k = 1
        BY <1>3, <3>1
      <4> QED
        BY <1>19, <3>1, <4>1
    <3>2. CASE ~(k < old)
      <4>1. mem[a] = Erased
        BY <1>3, <1>5, <1>11, <3>2 DEF Graph, FreeIsErased, FreeSet
      <4> QED
        BY <4>1 DEF Erased
    <3> QED
      BY <3>1, <3>2
  <2>4. k + 1 < old => k < old /\ old - k > 1
    BY <1>3
  <2>5. k + 1 < old => /\ mem[a].next \in Blocks \ {a} /\ mem[a].next \notin FreeSet'
                       /\ \A y : y = mem[a].next => Run(y, old - (k + 1))'
    BY <1>19, <2>4
  <2>6. reserve => ~last /\ k + 1 >= old
    BY <1>3
  <2>7. \A x \in Blocks : mem'[x].next \in FreeSet' => ~last /\ k + 1 >= old /\ mem'[x].next = next
    BY <1>21, <2>6
  <2>8. rest = IF k = new - 1 /\ k < old THEN mem[a].next ELSE call.erase
    BY <1>6
  <2> QED
    BY <1>11, <1>12, <1>20, <2>2, <2>3, <2>5, <2>7, <2>8 DEF RoundPoints
<1>25. RoundGoesOn(k, old, new, text, size, next, rest)
  BY <1>7 DEF RoundGoesOn
<1>26. Round(k, a, old, new, text, size, next, rest, b)
  BY <1>22, <1>23, <1>24, <1>25 DEF Round
<1> QED
  BY <1>26

(* A round of uBSWrite.                                                    *)
LEMMA PutKeepsInv ==
  ASSUME IInv, PutBlock
  PROVE  IInv'
<1>1. PICK k, a, old, new, text, size, next, rest, b : Round(k, a, old, new, text, size, next, rest, b)
  BY RoundIs
<1> DEFINE last == k = new - 1
           reserve == ~last /\ k + 1 >= old
<1>2. /\ call.pc = "put" /\ call \in PutCalls /\ result \in Results
      /\ k = call.block /\ a = call.address /\ old = call.old /\ new = call.new /\ text = call.data
  BY <1>1 DEF Round, RoundStarts
<1>3. /\ k \in Nat /\ a \in Blocks /\ new \in Nat \ {0} /\ old \in Nat /\ text \in Seq(Units)
      /\ size \in 0 .. Len(text) /\ k < new
  BY <1>1 DEF Round, RoundStarts
<1>4. NoBlock \notin Blocks
  BY UBSAssumption DEF UBSAssumption, Blocks
<1>5. IF k + 1 < old THEN new - old <= freeBlocks ELSE new - 1 - k <= freeBlocks
  BY <1>1 DEF Round, RoundStarts
<1>6. Needs(Len(call.want), new) /\ (~last => Left(k + 1, Len(text) - size, Len(call.want)))
  BY <1>1, <1>2 DEF Round, RoundStarts, IInv, PutInv
<1>10. /\ SubSeq(text, size + 1, Len(text)) \in Seq(Units)
       /\ Len(SubSeq(text, size + 1, Len(text))) = Len(text) - size
  BY <1>3, SubSeqProperties
<1>11. /\ Graph /\ freeBlocks \in 0 .. BlockCount
       /\ freeBlocks <= Cardinality(FreeSet \ {a})
       /\ IsFiniteSet(FreeSet \ {a}) /\ Cardinality(FreeSet \ {a}) \in Nat
  BY <1>1 DEF Round, RoundWrites, RoundPoints
<1>14. ASSUME reserve
       PROVE  next \in FreeSet \ {a} /\ next \in Blocks /\ freeBlocks' = freeBlocks - 1 /\ freeBlocks > 0
  BY <1>1, <1>3, <1>14 DEF Round, RoundPoints
<1>15. last => next = NoBlock /\ freeBlocks' = freeBlocks
  BY <1>1, <1>3 DEF Round, RoundPoints
<1>16. b.next = next
  BY <1>1 DEF Round, RoundWrites
<1>17. MemOK' /\ Graph'
  BY <1>1 DEF Round, RoundWrites
<1>18. FreeSet' = FreeSet \ {a} /\ mem'[a] = b /\ \A x \in Blocks \ {a} : mem'[x] = mem[x]
  BY <1>1 DEF Round, RoundWrites
<1>19. ASSUME k + 1 < old
       PROVE  /\ mem[a].next \in Blocks \ {a} /\ mem[a].next \notin FreeSet'
              /\ \A y : y = mem[a].next => Run(y, old - (k + 1))'
              /\ ~last => next = mem[a].next /\ freeBlocks' = freeBlocks
  BY <1>1, <1>3, <1>19 DEF Round, RoundPoints
<1>20. freeBlocks' \in 0 .. BlockCount
  BY <1>1 DEF Round, RoundPoints
<1>21. \A x \in Blocks : mem'[x].next \in FreeSet' => reserve /\ mem'[x].next = next
  BY <1>1 DEF Round, RoundPoints
<1>7. /\ rest = IF last /\ k < old THEN mem[a].next ELSE call.erase
      /\ \/ /\ ~last
            /\ call' = [call EXCEPT !.address = next, !.block = k + 1,
                                    !.data = SubSeq(text, size + 1, Len(text))]
            /\ UNCHANGED result
         \/ /\ last /\ new < old
            /\ call' = [call EXCEPT !.pc = "trim", !.block = k + 1, !.erase = rest]
            /\ UNCHANGED result
         \/ /\ last /\ new >= old
            /\ Return(call.name, "OK")
  BY <1>1 DEF Round, RoundPoints, RoundGoesOn
\* The next round.
<1>22. CASE /\ ~last
            /\ call' = [call EXCEPT !.address = next, !.block = k + 1,
                                    !.data = SubSeq(text, size + 1, Len(text))]
            /\ UNCHANGED result
  <2>1. /\ call'.pc = "put" /\ call'.block = k + 1 /\ call'.new = new /\ call'.old = old
        /\ call'.data = SubSeq(text, size + 1, Len(text)) /\ call'.want = call.want
        /\ call'.file = call.file /\ call'.address = next /\ call'.was = call.was
    BY <1>2, <1>22 DEF PutCalls
  <2>2. next \in Blocks
    BY <1>3, <1>14, <1>19, <1>22
  <2>3. Typed'
    <3>1. call' \in PutCalls'
      <4>1. PICK r \in Seq(Units) : r = SubSeq(text, size + 1, Len(text))
        BY <1>10
      <4>2. PICK l \in Nat : l = k + 1
        BY <1>3
      <4>3. call' = [call EXCEPT !.address = next, !.block = l, !.data = r]
        BY <1>22, <4>1, <4>2
      <4> QED
        BY <1>2, <2>1, <2>2, <4>3 DEF PutCalls
    <3>2. call' \in Calls'
      BY <3>1 DEF PutCalls, Calls
    <3> QED
      BY <1>2, <1>17, <1>20, <1>22, <3>2 DEF Typed, Results
  <2>4. OnlyReservedFree'
    <3>1. reserve => Growing'
      BY <1>3, <2>1 DEF Growing
    <3> QED
      BY <1>21, <2>1, <3>1 DEF OnlyReservedFree
  <2>5. Counted'
    <3>1. Promised' = {next}
      BY <2>1 DEF Promised
    <3>2. CASE reserve
      <4>1. next \in FreeSet \ {a} /\ freeBlocks' = freeBlocks - 1
        BY <1>14, <3>2
      <4>2. Cardinality((FreeSet \ {a}) \ {next}) = Cardinality(FreeSet \ {a}) - 1
        BY <1>11, <4>1, FS_RemoveElement
      <4>3. freeBlocks' <= Cardinality((FreeSet \ {a}) \ {next})
        BY <1>11, <4>1, <4>2
      <4> QED
        BY <1>18, <3>1, <4>3 DEF Counted
    <3>3. CASE ~reserve
      <4>1. k + 1 < old
        BY <1>3, <1>22, <3>3
      <4>2. next = mem[a].next /\ freeBlocks' = freeBlocks /\ next \notin FreeSet'
        BY <1>19, <1>22, <4>1
      <4>3. FreeSet' \ {next} = FreeSet'
        BY <4>2
      <4> QED
        BY <1>11, <1>18, <3>1, <4>2, <4>3 DEF Counted
    <3> QED
      BY <3>2, <3>3
  <2>6. PutInv'
    <3>1. k + 1 < new
      BY <1>3, <1>22
    <3>2. Left(k + 1, Len(call'.data), Len(call.want))
      BY <1>6, <1>10, <1>22, <2>1
    <3>3. IF k + 1 < old THEN Run(next, old - (k + 1))' ELSE next \in FreeSet'
      <4>1. CASE k + 1 < old
        BY <1>19, <1>22, <4>1
      <4>2. CASE ~(k + 1 < old)
        <5>1. reserve
          BY <1>3, <1>22, <4>2
        <5> QED
          BY <1>14, <1>18, <4>2, <5>1
      <4> QED
        BY <4>1, <4>2
    <3>4. IF (k + 1) + 1 < old THEN new - old <= freeBlocks' ELSE new - 1 - (k + 1) <= freeBlocks'
      <4>1. CASE reserve
        BY <1>3, <1>5, <1>11, <1>14, <4>1
      <4>2. CASE ~reserve
        <5>1. k + 1 < old
          BY <1>3, <1>22, <4>2
        <5>2. freeBlocks' = freeBlocks
          BY <1>19, <1>22, <5>1
        <5> QED
          BY <1>3, <1>5, <1>11, <5>1, <5>2
      <4> QED
        BY <4>1, <4>2
    <3>5. k + 1 # 0
      BY <1>3
    <3>6. Run(call.address, call.old - call.block)' <=> Run(next, old - (k + 1))'
      BY <2>1
    <3> QED
      BY <1>6, <2>1, <3>1, <3>2, <3>3, <3>4, <3>5, <3>6 DEF PutInv
  <2>7. TrimInv' /\ DeleteInv' /\ FormatInv'
    BY <2>1 DEF TrimInv, DeleteInv, FormatInv
  <2> QED
    BY <1>17, <2>3, <2>4, <2>5, <2>6, <2>7 DEF IInv
\* The blocks of the old text are more.
<1>23. CASE /\ last /\ new < old
            /\ call' = [call EXCEPT !.pc = "trim", !.block = k + 1, !.erase = rest]
            /\ UNCHANGED result
  <2>1. /\ call'.pc = "trim" /\ call'.block = k + 1 /\ call'.new = new /\ call'.old = old
        /\ call'.erase = rest /\ call'.was = call.was
    BY <1>2, <1>23 DEF PutCalls
  <2>2. k < old /\ k + 1 < old /\ rest = mem[a].next /\ next = NoBlock /\ freeBlocks' = freeBlocks
    BY <1>3, <1>7, <1>15, <1>23
  <2>3. rest \in Blocks \ {a} /\ Run(rest, old - (k + 1))'
    BY <1>19, <2>2
  <2>4. Typed'
    <3>1. call' \in PutCalls'
      <4>1. PICK l \in Nat : l = k + 1
        BY <1>3
      <4>2. call' = [call EXCEPT !.pc = "trim", !.block = l, !.erase = rest]
        BY <1>23, <4>1
      <4> QED
        BY <1>2, <2>1, <2>3, <4>2 DEF PutCalls
    <3>2. call' \in Calls'
      BY <3>1 DEF PutCalls, Calls
    <3> QED
      BY <1>2, <1>17, <1>20, <1>23, <3>2 DEF Typed, Results
  <2>5. OnlyReservedFree'
    BY <1>21, <1>23 DEF OnlyReservedFree
  <2>6. Counted'
    <3>1. Promised' = {} /\ FreeSet' \ {} = FreeSet \ {a}
      BY <1>18, <2>1 DEF Promised
    <3> QED
      BY <1>11, <2>2, <3>1 DEF Counted
  <2>7. TrimInv'
    <3>1. NotPointedAt(rest)'
      <4>1. \A x \in Blocks : mem'[x].next # rest
        <5> SUFFICES ASSUME NEW x \in Blocks, mem'[x].next = rest PROVE FALSE
          OBVIOUS
        <5>1. x # a
          BY <1>4, <1>16, <1>18, <2>2, <2>3
        <5> QED
          BY <1>3, <1>4, <1>11, <1>18, <2>2, <2>3, <5>1 DEF Graph, PointersApart
      <4> QED
        BY <4>1 DEF NotPointedAt
    <3>2. ~mem'[rest].master
      BY <1>3, <1>4, <1>11, <1>18, <2>2, <2>3 DEF Graph, PointersInside
    <3>3. Run(call.erase, call.old - call.block)' <=> Run(rest, old - (k + 1))'
      BY <2>1
    <3>4. NotPointedAt(call.erase)'
      BY <2>1, <3>1 DEF NotPointedAt
    <3> QED
      BY <2>1, <2>2, <2>3, <3>2, <3>3, <3>4 DEF TrimInv
  <2>8. PutInv' /\ DeleteInv' /\ FormatInv'
    BY <2>1 DEF PutInv, DeleteInv, FormatInv
  <2> QED
    BY <1>17, <2>4, <2>5, <2>6, <2>7, <2>8 DEF IInv
\* The call is over.
<1>24. CASE last /\ new >= old /\ Return(call.name, "OK")
  <2>1. call' = Idle /\ result' \in Results /\ freeBlocks' = freeBlocks
    BY <1>2, <1>15, <1>24 DEF Return, Results, PutCalls
  <2>2. Typed'
    BY <1>17, <1>20, <2>1 DEF Typed, Calls
  <2>3. OnlyReservedFree'
    BY <1>21, <1>24 DEF OnlyReservedFree
  <2>4. Counted'
    <3>1. Promised' = {} /\ FreeSet' \ {} = FreeSet \ {a}
      BY <1>18, <2>1 DEF Promised, Idle
    <3> QED
      BY <1>11, <2>1, <3>1 DEF Counted
  <2>5. PutInv' /\ TrimInv' /\ DeleteInv' /\ FormatInv'
    BY <2>1 DEF PutInv, TrimInv, DeleteInv, FormatInv, Idle
  <2> QED
    BY <1>17, <2>2, <2>3, <2>4, <2>5 DEF IInv
<1> QED
  BY <1>7, <1>22, <1>23, <1>24

(***************************************************************************)
(* Erasing the first block of a chain that nothing points at.              *)
(***************************************************************************)
LEMMA EraseStep ==
  ASSUME IInv, call.pc \in {"trim", "delete"}, NEW a, NEW n \in Nat \ {0}, Run(a, n), NotPointedAt(a),
         mem' = [mem EXCEPT ![a] = Erased], freeBlocks' = (freeBlocks + 1) % CounterSize,
         NEW y, y = mem[a].next
  PROVE  /\ MemOK' /\ Graph' /\ a \in Blocks
         /\ \A x \in Blocks : mem'[x].next \notin FreeSet'
         /\ freeBlocks' \in 0 .. BlockCount /\ freeBlocks' <= Cardinality(FreeSet')
         /\ n = 1 => y = NoBlock
         /\ n > 1 => /\ y \in Blocks \ {a} /\ Run(y, n - 1)' /\ NotPointedAt(y)' /\ ~mem'[y].master
<1>1. MemOK /\ Graph /\ OnlyReservedFree /\ freeBlocks \in 0 .. BlockCount /\ Erased \in BlockState
  BY DEF IInv, Typed, Erased, BlockState
<1>2. a \in Blocks \ FreeSet /\ (n = 1 => y = NoBlock)
  <2>1. PICK w \in [0 .. n - 1 -> Blocks] :
    /\ w[0] = a
    /\ \A i \in 0 .. n - 1 : w[i] \notin FreeSet
    /\ \A i \in 0 .. n - 1 : mem[w[i]].next = IF i = n - 1 THEN NoBlock ELSE w[i + 1]
    BY DEF Run
  <2>2. 0 \in 0 .. n - 1
    OBVIOUS
  <2> QED
    BY <2>1, <2>2
<1>3. BlockCount \in Nat \ {0} /\ CounterSize \in Nat /\ BlockCount < CounterSize /\ NoBlock \notin Blocks
      /\ a \in 0 .. BlockCount
  BY <1>2, UBSAssumption DEF UBSAssumption, Blocks
<1>4. IsFree(Erased) /\ ~Erased.master /\ Erased.next = NoBlock
  BY DEF IsFree, Erased
<1>5. MemOK' /\ Graph'
  BY <1>1, <1>2, <1>4, WriteKeepsGraph
<1>6. /\ FreeSet' = FreeSet \union {a} /\ IsFiniteSet(FreeSet) /\ Cardinality(FreeSet) \in Nat
      /\ mem'[a] = Erased /\ \A x \in Blocks \ {a} : mem'[x] = mem[x]
  <2>1. FreeSet' = FreeSet \union {a} /\ IsFiniteSet(FreeSet) /\ Cardinality(FreeSet) \in 0 .. BlockCount
    BY <1>1, <1>2, <1>4, FreeSetAfter
  <2> QED
    BY <1>1, <1>3, <2>1 DEF MemOK
<1>7. Cardinality(FreeSet') = Cardinality(FreeSet) + 1
  BY <1>2, <1>6, FS_AddElement
<1>8. freeBlocks <= Cardinality(FreeSet)
  <2>1. Promised = {} /\ FreeSet \ {} = FreeSet
    BY DEF Promised
  <2> QED
    BY <2>1 DEF IInv, Counted
<1>9. Cardinality(FreeSet') <= BlockCount
  <2>1. PICK T : T = FreeSet'
    OBVIOUS
  <2>2. IsFiniteSet(Blocks) /\ Cardinality(Blocks) = BlockCount /\ T \in SUBSET Blocks
    <3>1. 0 \in Int /\ BlockCount - 1 \in Int /\ ~(0 > BlockCount - 1) /\ (BlockCount - 1) - 0 + 1 = BlockCount
      BY <1>3
    <3> QED
      BY <1>2, <1>6, <2>1, <3>1, FS_Interval DEF Blocks, FreeSet
  <2>3. Cardinality(T) <= Cardinality(Blocks)
    BY <2>2, FS_Subset
  <2> QED
    BY <2>1, <2>2, <2>3
<1>10. freeBlocks' = freeBlocks + 1
  <2>1. freeBlocks + 1 \in 0 .. CounterSize - 1
    BY <1>1, <1>3, <1>6, <1>7, <1>8, <1>9
  <2> QED
    BY <1>3, <2>1
<1>11. freeBlocks' \in 0 .. BlockCount /\ freeBlocks' <= Cardinality(FreeSet')
  BY <1>1, <1>3, <1>6, <1>7, <1>8, <1>9, <1>10
<1>12. ASSUME NEW x \in Blocks PROVE mem'[x].next \notin FreeSet'
  <2>1. CASE x = a
    BY <1>2, <1>3, <1>4, <1>6, <2>1 DEF FreeSet
  <2>2. CASE x # a
    <3>1. mem'[x].next = mem[x].next /\ mem[x].next # a
      BY <1>6, <2>2 DEF NotPointedAt
    <3>2. mem[x].next \notin FreeSet
      BY <1>1 DEF OnlyReservedFree, Growing
    <3> QED
      BY <1>6, <3>1, <3>2
  <2> QED
    BY <2>1, <2>2
<1>13. ASSUME n > 1 PROVE y \in Blocks \ {a} /\ Run(y, n - 1)' /\ NotPointedAt(y)' /\ ~mem'[y].master
  <2>1. y \in Blocks \ {a}
    BY <1>1, <1>13, RunGoesOn
  <2>2. Run(y, n - 1)'
    BY <1>1, <1>13, RunGoesOn
  <2>3. ~mem'[y].master
    BY <1>1, <1>2, <1>3, <1>6, <2>1 DEF Graph, PointersInside
  <2>4. \A x \in Blocks : mem'[x].next # y
    <3> SUFFICES ASSUME NEW x \in Blocks, mem'[x].next = y PROVE FALSE
      OBVIOUS
    <3>1. x # a
      BY <1>3, <1>4, <1>6, <2>1
    <3> QED
      BY <1>1, <1>2, <1>3, <1>6, <2>1, <3>1 DEF Graph, PointersApart
  <2>5. NotPointedAt(y)'
    BY <2>4 DEF NotPointedAt
  <2> QED
    BY <2>1, <2>2, <2>3, <2>5
<1> QED
  BY <1>2, <1>5, <1>11, <1>12, <1>13

(* A round of the loop of uBSWrite that erases.                            *)
LEMMA TrimKeepsInv ==
  ASSUME IInv, Trim
  PROVE  IInv'
<1>1. PICK k, a, old, y, n : k = call.block /\ a = call.erase /\ old = call.old /\ y = mem[a].next /\ n = old - k
  OBVIOUS
<1>2. /\ call.pc = "trim"
      /\ call \in [pc : {"put", "trim"}, name : Names, file : Blocks, address : Blocks, block : Nat,
          new : Nat \ {0}, old : Nat, data : Seq(Units), erase : Blocks \union {NoBlock},
          want : Seq(Units), was : {call.was}]
  BY DEF Trim, IInv, Typed, Calls, Idle
<1>3. k \in Nat /\ old \in Nat /\ k < old /\ n \in Nat \ {0} /\ Run(a, n) /\ NotPointedAt(a) /\ result \in Results
  BY <1>1, <1>2 DEF IInv, TrimInv, Typed
<1>4. /\ mem' = [mem EXCEPT ![a] = Erased] /\ freeBlocks' = (freeBlocks + 1) % CounterSize
      /\ IF k + 1 < old
         THEN call' = [call EXCEPT !.block = k + 1, !.erase = y] /\ UNCHANGED result
         ELSE Return(call.name, "OK")
  BY <1>1, <1>2 DEF Trim
<1>5. /\ MemOK' /\ Graph' /\ a \in Blocks
      /\ \A x \in Blocks : mem'[x].next \notin FreeSet'
      /\ freeBlocks' \in 0 .. BlockCount /\ freeBlocks' <= Cardinality(FreeSet')
      /\ n > 1 => y \in Blocks \ {a} /\ Run(y, n - 1)' /\ NotPointedAt(y)' /\ ~mem'[y].master
  <2>1. call.pc \in {"trim", "delete"}
    BY <1>2
  <2>2. mem' = [mem EXCEPT ![a] = Erased] /\ freeBlocks' = (freeBlocks + 1) % CounterSize
    BY <1>4
  <2>3. y = mem[a].next
    BY <1>1
  <2> QED
    BY <1>3, <2>1, <2>2, <2>3, EraseStep
<1>6. OnlyReservedFree'
  BY <1>5 DEF OnlyReservedFree
<1>7. CASE k + 1 < old
  <2>1. PICK l \in Nat : l = k + 1
    BY <1>3
  <2>2. call' = [call EXCEPT !.block = l, !.erase = y] /\ result' = result /\ n > 1 /\ old - l = n - 1
    BY <1>1, <1>3, <1>4, <1>7, <2>1
  <2>3. call'.pc = "trim" /\ call'.block = l /\ call'.old = old /\ call'.erase = y /\ call'.was = call.was
    BY <1>1, <1>2, <2>2
  <2>4. call' \in Calls'
    <3>1. call' \in [pc : {"put", "trim"}, name : Names, file : Blocks, address : Blocks, block : Nat,
              new : Nat \ {0}, old : Nat, data : Seq(Units), erase : Blocks \union {NoBlock},
              want : Seq(Units), was : {call.was}]
      BY <1>2, <1>5, <2>2
    <3> QED
      BY <2>3, <3>1 DEF Calls
  <2>5. Typed'
    BY <1>3, <1>5, <2>2, <2>4 DEF Typed, Results
  <2>6. Counted'
    <3>1. Promised' = {} /\ FreeSet' \ {} = FreeSet'
      BY <2>3 DEF Promised
    <3> QED
      BY <1>5, <3>1 DEF Counted
  <2>7. TrimInv'
    <3>1. Run(call.erase, call.old - call.block)'
      BY <1>5, <2>2, <2>3
    <3>2. NotPointedAt(call.erase)'
      BY <1>5, <2>2, <2>3 DEF NotPointedAt
    <3> QED
      BY <1>5, <1>7, <2>1, <2>2, <2>3, <3>1, <3>2 DEF TrimInv
  <2>8. PutInv' /\ DeleteInv' /\ FormatInv'
    BY <2>3 DEF PutInv, DeleteInv, FormatInv
  <2> QED
    BY <1>5, <1>6, <2>5, <2>6, <2>7, <2>8 DEF IInv
<1>8. CASE ~(k + 1 < old)
  <2>1. call' = Idle /\ result' \in Results
    BY <1>2, <1>4, <1>8 DEF Return, Results
  <2>2. Typed'
    BY <1>5, <2>1 DEF Typed, Calls
  <2>3. Counted'
    <3>1. Promised' = {} /\ FreeSet' \ {} = FreeSet'
      BY <2>1 DEF Promised, Idle
    <3> QED
      BY <1>5, <3>1 DEF Counted
  <2>4. PutInv' /\ TrimInv' /\ DeleteInv' /\ FormatInv'
    BY <2>1 DEF PutInv, TrimInv, DeleteInv, FormatInv, Idle
  <2> QED
    BY <1>5, <1>6, <2>2, <2>3, <2>4 DEF IInv
<1> QED
  BY <1>7, <1>8

(* A round of uBSEraseBlocks.                                              *)
LEMMA EraseBlockKeepsInv ==
  ASSUME IInv, EraseBlock
  PROVE  IInv'
<1>1. PICK a, y, n : a = call.address /\ y = mem[a].next /\ n = call.left
  OBVIOUS
<1>2. /\ call.pc = "delete"
      /\ call \in [pc : {"delete"}, name : Names, file : Blocks, address : Blocks, left : Nat \ {0},
                   was : {call.was}]
  BY DEF EraseBlock, IInv, Typed, Calls, Idle
<1>3. n \in Nat \ {0} /\ Run(a, n) /\ NotPointedAt(a) /\ result \in Results
  BY <1>1, <1>2 DEF IInv, DeleteInv, Typed
<1>4. /\ mem' = [mem EXCEPT ![a] = Erased] /\ freeBlocks' = (freeBlocks + 1) % CounterSize
      /\ IF n > 1
         THEN call' = [call EXCEPT !.address = y, !.left = n - 1] /\ UNCHANGED result
         ELSE Return(call.name, "OK")
  BY <1>1, <1>2 DEF EraseBlock
<1>5. /\ MemOK' /\ Graph' /\ a \in Blocks
      /\ \A x \in Blocks : mem'[x].next \notin FreeSet'
      /\ freeBlocks' \in 0 .. BlockCount /\ freeBlocks' <= Cardinality(FreeSet')
      /\ n > 1 => y \in Blocks \ {a} /\ Run(y, n - 1)' /\ NotPointedAt(y)' /\ ~mem'[y].master
  <2>1. call.pc \in {"trim", "delete"}
    BY <1>2
  <2>2. mem' = [mem EXCEPT ![a] = Erased] /\ freeBlocks' = (freeBlocks + 1) % CounterSize
    BY <1>4
  <2>3. y = mem[a].next
    BY <1>1
  <2> QED
    BY <1>3, <2>1, <2>2, <2>3, EraseStep
<1>6. OnlyReservedFree'
  BY <1>5 DEF OnlyReservedFree
<1>7. CASE n > 1
  <2>1. PICK l \in Nat \ {0} : l = n - 1
    BY <1>3, <1>7
  <2>2. call' = [call EXCEPT !.address = y, !.left = l] /\ result' = result
    BY <1>4, <1>7, <2>1
  <2>3. call'.pc = "delete" /\ call'.address = y /\ call'.left = l /\ call'.was = call.was
    BY <1>2, <2>2
  <2>4. call' \in Calls'
    <3>1. call' \in [pc : {"delete"}, name : Names, file : Blocks, address : Blocks, left : Nat \ {0},
                     was : {call.was}]
      BY <1>2, <1>5, <1>7, <2>2
    <3> QED
      BY <2>3, <3>1 DEF Calls
  <2>5. Typed'
    BY <1>3, <1>5, <2>2, <2>4 DEF Typed, Results
  <2>6. Counted'
    <3>1. Promised' = {} /\ FreeSet' \ {} = FreeSet'
      BY <2>3 DEF Promised
    <3> QED
      BY <1>5, <3>1 DEF Counted
  <2>7. DeleteInv'
    <3>1. Run(call.address, call.left)'
      BY <1>5, <1>7, <2>1, <2>3
    <3>2. NotPointedAt(call.address)'
      BY <1>5, <1>7, <2>3 DEF NotPointedAt
    <3> QED
      BY <3>1, <3>2 DEF DeleteInv
  <2>8. PutInv' /\ TrimInv' /\ FormatInv'
    BY <2>3 DEF PutInv, TrimInv, FormatInv
  <2> QED
    BY <1>5, <1>6, <2>5, <2>6, <2>7, <2>8 DEF IInv
<1>8. CASE ~(n > 1)
  <2>1. call' = Idle /\ result' \in Results
    BY <1>2, <1>4, <1>8 DEF Return, Results
  <2>2. Typed'
    BY <1>5, <2>1 DEF Typed, Calls
  <2>3. Counted'
    <3>1. Promised' = {} /\ FreeSet' \ {} = FreeSet'
      BY <2>1 DEF Promised, Idle
    <3> QED
      BY <1>5, <3>1 DEF Counted
  <2>4. PutInv' /\ TrimInv' /\ DeleteInv' /\ FormatInv'
    BY <2>1 DEF PutInv, TrimInv, DeleteInv, FormatInv, Idle
  <2> QED
    BY <1>5, <1>6, <2>2, <2>3, <2>4 DEF IInv
<1> QED
  BY <1>7, <1>8

(***************************************************************************)
(* What must hold between two calls.                                       *)
(***************************************************************************)
LEMMA IdleAfter ==
  ASSUME MemOK', Graph', \A x \in Blocks : mem'[x].next \notin FreeSet',
         freeBlocks' \in 0 .. BlockCount, freeBlocks' <= Cardinality(FreeSet'),
         call' = Idle, result' \in Results
  PROVE  IInv'
<1>1. Typed'
  BY DEF Typed, Calls
<1>2. Counted'
  <2>1. Promised' = {} /\ FreeSet' \ {} = FreeSet'
    BY DEF Promised, Idle
  <2> QED
    BY <2>1 DEF Counted
<1>3. PutInv' /\ TrimInv' /\ DeleteInv' /\ FormatInv'
  BY DEF PutInv, TrimInv, DeleteInv, FormatInv, Idle
<1>4. OnlyReservedFree'
  BY DEF OnlyReservedFree
<1> QED
  BY <1>1, <1>2, <1>3, <1>4 DEF IInv

(* What holds between two calls.                                           *)
LEMMA IdleNow ==
  ASSUME IInv, call = Idle
  PROVE  /\ \A x \in Blocks : mem[x].next \notin FreeSet
         /\ freeBlocks \in 0 .. BlockCount /\ freeBlocks <= Cardinality(FreeSet)
<1>1. Promised = {} /\ FreeSet \ {} = FreeSet
  BY DEF Promised, Idle
<1> QED
  BY <1>1 DEF IInv, Typed, Counted, OnlyReservedFree, Growing, Idle

(* The start of uBSDelete.                                                 *)
LEMMA DeleteKeepsInv ==
  ASSUME IInv, NEW n \in Names, Delete(n)
  PROVE  IInv'
<1>1. call = Idle /\ mem' = mem /\ freeBlocks' = freeBlocks
  BY DEF Delete
<1>2. /\ MemOK' /\ Graph' /\ FreeSet' = FreeSet /\ result \in Results
      /\ \A x \in Blocks : mem'[x].next \notin FreeSet'
      /\ freeBlocks' \in 0 .. BlockCount /\ freeBlocks' <= Cardinality(FreeSet')
  BY <1>1, IdleNow
     DEF IInv, Typed, MemOK, Graph, PointersApart, PointersInside, FreeIsErased, FreeSet
<1>3. CASE Seek(n) = NoBlock
  <2>1. call' = Idle /\ result' \in Results
    BY <1>1, <1>3 DEF Delete, Return, Results
  <2> QED
    BY <1>2, <2>1, IdleAfter
<1>4. CASE Seek(n) # NoBlock
  <2>1. PICK f, l : f = Seek(n) /\ l = Length(f)
    OBVIOUS
  <2>2. call' = [pc |-> "delete", name |-> n, file |-> f, address |-> f, left |-> l, was |-> Entry(f)]
        /\ result' = result
    BY <1>4, <2>1 DEF Delete
  <2>3. f \in Masters
    <3>1. Named(n) # {} /\ f = Lowest(Named(n)) /\ Named(n) \subseteq Masters /\ Masters \subseteq Blocks
      BY <1>4, <2>1 DEF Seek, Named, Masters
    <3> QED
      BY <3>1, LowestIs
  <2>4. f \in Blocks /\ NotPointedAt(f) /\ l \in Nat \ {0} /\ Run(f, l)
    <3>1. f \in Blocks /\ NotPointedAt(f) /\ Length(f) \in 1 .. BlockCount /\ Run(f, Length(f))
      BY <1>1, <2>3, RunFromMaster DEF IInv
    <3> QED
      BY <2>1, <3>1
  <2>5. Typed'
    <3>1. call' \in Calls'
      BY <2>2, <2>4 DEF Calls
    <3> QED
      BY <1>2, <2>2, <3>1 DEF Typed, Results
  <2>6. Counted'
    <3>1. Promised' = {} /\ FreeSet' \ {} = FreeSet'
      BY <2>2 DEF Promised
    <3> QED
      BY <1>2, <3>1 DEF Counted
  <2>7. DeleteInv'
    <3>1. Run(f, l)'
      BY <1>1, <1>2, <2>4 DEF Run
    <3>2. Run(call.address, call.left)'
      BY <2>2, <3>1
    <3>3. NotPointedAt(call.address)'
      BY <1>1, <2>2, <2>4 DEF NotPointedAt
    <3> QED
      BY <3>2, <3>3 DEF DeleteInv
  <2>8. PutInv' /\ TrimInv' /\ FormatInv'
    BY <2>2 DEF PutInv, TrimInv, FormatInv
  <2>9. OnlyReservedFree'
    BY <1>2 DEF OnlyReservedFree
  <2> QED
    BY <1>2, <2>5, <2>6, <2>7, <2>8, <2>9 DEF IInv
<1> QED
  BY <1>3, <1>4

(* uBSRename.                                                              *)
LEMMA RenameKeepsInv ==
  ASSUME IInv, NEW n \in Names, NEW to \in Names, Rename(n, to)
  PROVE  IInv'
<1>1. call = Idle /\ freeBlocks' = freeBlocks /\ call' = Idle /\ result' \in Results
  BY DEF Rename, Return, Results
<1>2. /\ \A x \in Blocks : mem[x].next \notin FreeSet
      /\ freeBlocks \in 0 .. BlockCount /\ freeBlocks <= Cardinality(FreeSet)
  BY <1>1, IdleNow
<1>3. CASE Seek(n) = NoBlock
  <2>1. mem' = mem
    BY <1>3 DEF Rename
  <2>2. /\ MemOK' /\ Graph' /\ FreeSet' = FreeSet
    BY <2>1 DEF IInv, Typed, MemOK, Graph, PointersApart, PointersInside, FreeIsErased, FreeSet
  <2> QED
    BY <1>1, <1>2, <2>1, <2>2, IdleAfter
<1>4. CASE Seek(n) # NoBlock
  <2>1. PICK f, b : f = Seek(n) /\ b = [mem[f] EXCEPT !.name = to]
    OBVIOUS
  <2>2. f \in Masters
    <3>1. Named(n) # {} /\ f = Lowest(Named(n)) /\ Named(n) \subseteq Masters /\ Masters \subseteq Blocks
      BY <1>4, <2>1 DEF Seek, Named, Masters
    <3> QED
      BY <3>1, LowestIs
  <2>3. f \in Blocks /\ NotPointedAt(f) /\ f \in 0 .. BlockCount /\ mem[f] \in BlockState /\ mem[f].master
    BY <1>1, <2>2, RunFromMaster, UBSAssumption DEF IInv, Typed, MemOK, UBSAssumption, Blocks, Masters
  <2>4. b \in BlockState /\ b.next = mem[f].next /\ b.master
    BY <2>1, <2>3 DEF BlockState
  <2>5. mem' = [mem EXCEPT ![f] = b]
    BY <1>4, <2>1 DEF Rename
  <2>6. MemOK /\ Graph
    BY DEF IInv, Typed
  <2>7. MemOK' /\ Graph'
    BY <2>3, <2>4, <2>5, <2>6, WriteKeepsGraph DEF IsFree
  <2>8. FreeSet' = FreeSet \ {f}
    BY <2>3, <2>4, <2>5, <2>6, FreeSetAfter DEF IsFree
  <2>9. FreeSet' = FreeSet
    BY <2>3, <2>8 DEF FreeSet, IsFree
  <2>10. \A x \in Blocks : mem'[x].next = mem[x].next
    BY <2>3, <2>4, <2>5, <2>6, UBSAssumption DEF MemOK, Blocks, UBSAssumption
  <2> QED
    BY <1>1, <1>2, <2>7, <2>9, <2>10, IdleAfter
<1> QED
  BY <1>3, <1>4

(* The start of uBSFormat.                                                 *)
LEMMA FormatKeepsInv ==
  ASSUME IInv, Format
  PROVE  IInv'
<1>1. /\ call = Idle /\ mem' = mem /\ freeBlocks' = freeBlocks /\ result' = result
      /\ call' = [pc |-> "format", address |-> 0]
  BY DEF Format
<1>2. /\ MemOK' /\ Graph' /\ FreeSet' = FreeSet /\ result \in Results
      /\ freeBlocks' \in 0 .. BlockCount /\ freeBlocks' <= Cardinality(FreeSet')
  BY <1>1, IdleNow
     DEF IInv, Typed, MemOK, Graph, PointersApart, PointersInside, FreeIsErased, FreeSet
<1>3. Typed'
  <2>1. 0 \in Blocks
    BY UBSAssumption DEF UBSAssumption, Blocks
  <2> QED
    BY <1>1, <1>2, <2>1 DEF Typed, Calls, Results
<1>4. Counted'
  <2>1. Promised' = {} /\ FreeSet' \ {} = FreeSet'
    BY <1>1 DEF Promised
  <2> QED
    BY <1>2, <2>1 DEF Counted
<1>5. FormatInv'
  BY <1>1 DEF FormatInv, Blocks
<1>6. PutInv' /\ TrimInv' /\ DeleteInv' /\ OnlyReservedFree'
  BY <1>1 DEF PutInv, TrimInv, DeleteInv, OnlyReservedFree
<1> QED
  BY <1>2, <1>3, <1>4, <1>5, <1>6 DEF IInv

(* A round of uBSFormat.                                                   *)
LEMMA FormatBlockKeepsInv ==
  ASSUME IInv, FormatBlock
  PROVE  IInv'
<1>1. PICK k : k = call.address
  OBVIOUS
<1>2. /\ call.pc = "format" /\ call \in [pc : {"format"}, address : Blocks] /\ k \in Blocks
      /\ mem' = [mem EXCEPT ![k] = Erased] /\ result' = result /\ result \in Results
  BY <1>1 DEF FormatBlock, IInv, Typed, Calls, Idle
<1>3. MemOK /\ Graph /\ freeBlocks \in 0 .. BlockCount /\ Erased \in BlockState
      /\ BlockCount \in Nat \ {0} /\ k \in 0 .. BlockCount /\ NoBlock \notin Blocks
  BY <1>2, UBSAssumption DEF IInv, Typed, Erased, BlockState, UBSAssumption, Blocks
<1>4. IsFree(Erased) /\ ~Erased.master /\ Erased.next = NoBlock
  BY DEF IsFree, Erased
<1>5. MemOK' /\ Graph'
  BY <1>2, <1>3, <1>4, WriteKeepsGraph
<1>6. /\ FreeSet' = FreeSet \union {k} /\ IsFiniteSet(FreeSet) /\ Cardinality(FreeSet) \in Nat
      /\ mem'[k] = Erased /\ \A x \in Blocks \ {k} : mem'[x] = mem[x]
  <2>1. FreeSet' = FreeSet \union {k} /\ IsFiniteSet(FreeSet) /\ Cardinality(FreeSet) \in 0 .. BlockCount
    BY <1>2, <1>3, <1>4, FreeSetAfter
  <2> QED
    BY <1>2, <1>3, <2>1 DEF MemOK
<1>7. \A x \in Blocks : x < k + 1 => mem'[x] = Erased
  <2> SUFFICES ASSUME NEW x \in Blocks, x < k + 1 PROVE mem'[x] = Erased
    OBVIOUS
  <2>1. x = k \/ x < k
    BY <1>3 DEF Blocks
  <2> QED
    BY <1>1, <1>2, <1>6, <2>1 DEF IInv, FormatInv
<1>8. CASE k + 1 < BlockCount
  <2>1. k + 1 \in Blocks
    BY <1>3, <1>8 DEF Blocks
  <2>2. call' = [call EXCEPT !.address = k + 1] /\ freeBlocks' = freeBlocks
    BY <1>1, <1>2, <1>3, <1>8 DEF FormatBlock
  <2>3. call'.pc = "format" /\ call'.address = k + 1 /\ call' \in [pc : {"format"}, address : Blocks]
    BY <1>2, <2>1, <2>2
  <2>4. Typed'
    <3>1. call' \in Calls'
      BY <2>3 DEF Calls
    <3> QED
      BY <1>2, <1>3, <1>5, <2>2, <3>1 DEF Typed, Results
  <2>5. Counted'
    <3>1. freeBlocks <= Cardinality(FreeSet)
      <4>1. Promised = {} /\ FreeSet \ {} = FreeSet
        BY <1>2 DEF Promised
      <4> QED
        BY <4>1 DEF IInv, Counted
    <3>2. Cardinality(FreeSet') = IF k \in FreeSet THEN Cardinality(FreeSet) ELSE Cardinality(FreeSet) + 1
      BY <1>6, FS_AddElement
    <3>3. freeBlocks' <= Cardinality(FreeSet')
      BY <1>3, <1>6, <2>2, <3>1, <3>2
    <3>4. Promised' = {} /\ FreeSet' \ {} = FreeSet'
      BY <2>3 DEF Promised
    <3> QED
      BY <3>3, <3>4 DEF Counted
  <2>6. FormatInv'
    BY <1>7, <2>3 DEF FormatInv
  <2>7. PutInv' /\ TrimInv' /\ DeleteInv' /\ OnlyReservedFree'
    BY <2>3 DEF PutInv, TrimInv, DeleteInv, OnlyReservedFree
  <2> QED
    BY <1>5, <2>4, <2>5, <2>6, <2>7 DEF IInv
<1>9. CASE k + 1 = BlockCount
  <2>1. call' = Idle /\ freeBlocks' = BlockCount
    BY <1>1, <1>2, <1>3, <1>9 DEF FormatBlock
  <2>2. \A x \in Blocks : mem'[x] = Erased
    BY <1>3, <1>7, <1>9 DEF Blocks
  <2>3. FreeSet' = Blocks
    BY <1>4, <2>2 DEF FreeSet
  <2>4. Cardinality(Blocks) = BlockCount
    <3>1. 0 \in Int /\ BlockCount - 1 \in Int /\ ~(0 > BlockCount - 1) /\ (BlockCount - 1) - 0 + 1 = BlockCount
      BY <1>3
    <3> QED
      BY <3>1, FS_Interval DEF Blocks
  <2>5. freeBlocks' \in 0 .. BlockCount /\ freeBlocks' <= Cardinality(FreeSet')
    BY <1>3, <2>1, <2>3, <2>4
  <2>6. \A x \in Blocks : mem'[x].next \notin FreeSet'
    BY <1>3, <1>4, <2>2, <2>3
  <2>7. result' \in Results
    BY <1>2
  <2> QED
    BY <1>5, <2>1, <2>5, <2>6, <2>7, IdleAfter
<1> QED
  BY <1>1, <1>2, <1>8, <1>9 DEF FormatBlock

(* A reset.                                                                *)
LEMMA ResetKeepsInv ==
  ASSUME Careful, IInv, Reset
  PROVE  IInv'
<1>1. /\ ~Growing /\ call.pc # "format" /\ mem' = mem /\ call' = Idle /\ result' = NoResult
      /\ freeBlocks' = Cardinality(FreeSet)
  BY DEF Reset, Careful, Unmended
<1>2. MemOK' /\ Graph' /\ FreeSet' = FreeSet
  BY <1>1 DEF IInv, Typed, MemOK, Graph, PointersApart, PointersInside, FreeIsErased, FreeSet
<1>3. \A x \in Blocks : mem'[x].next \notin FreeSet'
  BY <1>1, <1>2 DEF IInv, OnlyReservedFree
<1>4. Cardinality(FreeSet) \in 0 .. BlockCount
  <2>1. PICK a \in Blocks : TRUE
    BY UBSAssumption DEF UBSAssumption, Blocks
  <2>2. IsFiniteSet(Blocks) /\ Cardinality(Blocks) = BlockCount /\ FreeSet \in SUBSET Blocks
    <3>1. 0 \in Int /\ BlockCount - 1 \in Int /\ ~(0 > BlockCount - 1) /\ (BlockCount - 1) - 0 + 1 = BlockCount
      BY UBSAssumption DEF UBSAssumption
    <3> QED
      BY <3>1, FS_Interval DEF Blocks, FreeSet
  <2>3. Cardinality(FreeSet) <= BlockCount /\ Cardinality(FreeSet) \in Nat
    BY <2>2, FS_Subset, FS_CardinalityType
  <2> QED
    BY <2>3, UBSAssumption DEF UBSAssumption
<1>5. freeBlocks' \in 0 .. BlockCount /\ freeBlocks' <= Cardinality(FreeSet')
  BY <1>1, <1>2, <1>4, UBSAssumption DEF UBSAssumption
<1>6. result' \in Results
  BY <1>1 DEF NoResult, Results
<1> QED
  BY <1>1, <1>2, <1>3, <1>5, <1>6, IdleAfter

(* A store of erased blocks.                                               *)
LEMMA InitIsInv == Init => IInv
<1> SUFFICES ASSUME Init PROVE IInv
  OBVIOUS
<1>1. mem = [a \in 0 .. BlockCount |-> Erased] /\ freeBlocks = BlockCount /\ call = Idle /\ result = NoResult
  BY DEF Init
<1>2. Erased \in BlockState /\ IsFree(Erased) /\ Erased.next = NoBlock
  BY DEF Erased, BlockState, IsFree
<1>3. BlockCount \in Nat \ {0} /\ Blocks \subseteq 0 .. BlockCount /\ NoBlock \notin Blocks
  BY UBSAssumption DEF UBSAssumption, Blocks
<1>4. \A x \in Blocks : mem[x] = Erased
  BY <1>1, <1>3
<1>5. FreeSet = Blocks
  BY <1>2, <1>4 DEF FreeSet
<1>6. Cardinality(Blocks) = BlockCount
  <2>1. 0 \in Int /\ BlockCount - 1 \in Int /\ ~(0 > BlockCount - 1) /\ (BlockCount - 1) - 0 + 1 = BlockCount
    BY <1>3
  <2> QED
    BY <2>1, FS_Interval DEF Blocks
<1>7. Typed
  BY <1>1, <1>2, <1>3 DEF Typed, MemOK, Calls, Results, NoResult
<1>8. Graph
  BY <1>2, <1>4 DEF Graph, PointersApart, PointersInside, FreeIsErased
<1>9. OnlyReservedFree
  BY <1>2, <1>3, <1>4, <1>5 DEF OnlyReservedFree
<1>10. Counted
  <2>1. Promised = {} /\ FreeSet \ {} = FreeSet
    BY <1>1 DEF Promised, Idle
  <2> QED
    BY <1>1, <1>3, <1>5, <1>6, <2>1 DEF Counted
<1>11. PutInv /\ TrimInv /\ DeleteInv /\ FormatInv
  BY <1>1 DEF PutInv, TrimInv, DeleteInv, FormatInv, Idle
<1> QED
  BY <1>7, <1>8, <1>9, <1>10, <1>11 DEF IInv

(* Every step.                                                             *)
LEMMA NextKeepsInv ==
  ASSUME Careful, IInv, [Next]_vars
  PROVE  IInv'
<1>1. ASSUME NEW n \in Names, NEW t \in Texts, NEW s \in Sizes, Write(n, Text(t, s)) PROVE IInv'
  BY <1>1, TextIs, WriteKeepsInv
<1>2. CASE UNCHANGED vars
  BY <1>2 DEF vars, IInv, Typed, MemOK, Graph, PointersApart, PointersInside, FreeIsErased, FreeSet,
              OnlyReservedFree, Growing, PutInv, TrimInv, DeleteInv, FormatInv, Counted, Promised,
              NotPointedAt, Run, Calls
<1> QED
  BY <1>1, <1>2, PutKeepsInv, TrimKeepsInv, DeleteKeepsInv, EraseBlockKeepsInv, RenameKeepsInv,
     FormatKeepsInv, FormatBlockKeepsInv, ResetKeepsInv DEF Next

(* The invariant holds.                                                    *)
LEMMA Invariant == Careful => (Spec => []IInv)
<1> SUFFICES ASSUME Careful PROVE Spec => []IInv
  OBVIOUS
<1>1. IInv /\ [Next]_vars => IInv'
  BY NextKeepsInv
<1> QED
  BY <1>1, InitIsInv, PTL DEF Spec

(***************************************************************************)
(* No block belongs to two scripts or comes twice in one, at every block   *)
(* write (uBSWrite, uBSDelete).                                            *)
(***************************************************************************)
THEOREM ChainsAreApart == Careful => (Spec => []OneChainPerBlock)
<1>1. IInv => OneChainPerBlock
  <2> SUFFICES ASSUME IInv, NEW a \in Masters
               PROVE  /\ Ends(a) /\ Chain(a) \subseteq Blocks
                      /\ Cardinality(Chain(a)) = Length(a)
                      /\ \A b \in Masters \ {a} : Chain(a) \cap Chain(b) = {}
    BY DEF OneChainPerBlock
  <2>1. MemOK /\ Graph
    BY DEF IInv, Typed
  <2>2. \A b \in Masters : b \in Blocks /\ NotPointedAt(b)
    BY <2>1, UBSAssumption DEF Masters, Graph, PointersInside, NotPointedAt, UBSAssumption, Blocks
  <2>3. /\ Length(a) \in 1 .. BlockCount /\ Ends(a)
        /\ \A k \in 0 .. Length(a) - 1 : Path(a)[k] \in Blocks
        /\ \A i, j \in 0 .. Length(a) - 1 : Path(a)[i] = Path(a)[j] => i = j
        /\ Chain(a) = {Path(a)[k] : k \in 0 .. Length(a) - 1}
    BY <2>1, <2>2, RootPath
  <2>4. Chain(a) \subseteq Blocks
    BY <2>3
  <2>5. Cardinality(Chain(a)) = Length(a)
    <3>1. PICK n, p, S, T : n = Length(a) /\ p = Path(a) /\ S = 0 .. n - 1 /\ T = Chain(a)
      OBVIOUS
    <3>2. n \in Nat /\ IsFiniteSet(S) /\ Cardinality(S) = n
      <4>1. n \in Nat /\ n >= 1
        BY <2>3, <3>1
      <4> QED
        BY <3>1, <4>1, FS_Interval
    <3>3. PICK f : f = [k \in S |-> p[k]]
      OBVIOUS
    <3>4. T = {p[k] : k \in S} /\ \A i, j \in S : p[i] = p[j] => i = j
      BY <2>3, <3>1
    <3>5. f \in Bijection(S, T)
      BY <3>3, <3>4 DEF Bijection, Injection, Surjection, IsInjective
    <3>6. Cardinality(T) = Cardinality(S)
      BY <3>2, <3>5, FS_Bijection DEF ExistsBijection
    <3> QED
      BY <3>1, <3>2, <3>6
  <2>6. \A b \in Masters \ {a} : Chain(a) \cap Chain(b) = {}
    BY <2>1, <2>2, RootsApart
  <2> QED
    BY <2>3, <2>4, <2>5, <2>6
<1> QED
  BY <1>1, Invariant, PTL

(***************************************************************************)
(* uBSFreeBlocks never promises a block that is not there.                 *)
(***************************************************************************)
THEOREM CounterIsHonest == Careful => (Spec => []NeverOverstated)
<1>1. IInv => NeverOverstated
  <2> SUFFICES ASSUME IInv PROVE freeBlocks <= Cardinality(FreeSet)
    BY DEF NeverOverstated
  <2>1. PICK S, T : S = FreeSet /\ T = FreeSet \ Promised
    OBVIOUS
  <2>2. IsFiniteSet(S)
    <3>1. IsFiniteSet(Blocks) /\ S \in SUBSET Blocks
      BY <2>1, UBSAssumption, FS_Interval DEF Blocks, FreeSet, UBSAssumption
    <3> QED
      BY <3>1, FS_Subset
  <2>3. Cardinality(T) <= Cardinality(S) /\ IsFiniteSet(T)
    BY <2>1, <2>2, FS_Subset
  <2>4. Cardinality(T) \in Nat /\ Cardinality(S) \in Nat
    BY <2>2, <2>3, FS_CardinalityType
  <2>5. freeBlocks <= Cardinality(T) /\ freeBlocks \in Int
    BY <2>1 DEF IInv, Typed, Counted
  <2> QED
    BY <2>1, <2>3, <2>4, <2>5
<1> QED
  BY <1>1, Invariant, PTL

----------------------------------------------------------------------------
(* What is stored of the text, and under which name.                       *)

(***************************************************************************)
(* The first n blocks of the file hold the text; the last of them points   *)
(* at last, which is none of them.                                         *)
(***************************************************************************)
Stored(file, name, n, last, text) ==
  \E w \in [0 .. n -> Blocks \union {NoBlock}], c \in [0 .. n -> Seq(Units)] :
    /\ w[0] = file /\ w[n] = last /\ c[0] = <<>> /\ c[n] = text
    /\ \A i \in 0 .. n - 1 : /\ w[i] \in Blocks /\ w[i] # last
                             /\ mem[w[i]].next = w[i + 1]
                             /\ c[i + 1] = c[i] \o mem[w[i]].data
    /\ n > 0 => mem[file].master /\ mem[file].name = name

(* What uBSWrite has written so far leads from the file to the next block. *)
WrittenInv ==
  /\ call.pc = "put" =>
       \E text \in Seq(Units) : /\ text \o call.data = call.want
                                /\ Stored(call.file, call.name, call.block, call.address, text)
  /\ call.pc = "trim" => Stored(call.file, call.name, call.new, NoBlock, call.want)

(* The file is the first of its name, or will be the only one.             *)
NamedInv ==
  /\ call.pc \in {"put", "trim"} =>
       /\ \A b \in Masters : mem[b].name = call.name => call.file <= b /\ (call.was = NoEntry => b = call.file)
       /\ call.was # NoEntry => call.was.name = call.name
  /\ call.pc = "delete" =>
       /\ call.was # NoEntry /\ call.was.name = call.name
       /\ call.address # call.file => ~mem[call.address].master /\ ~mem[call.file].master

(* The inductive invariant with what is stored.                            *)
SInv == IInv /\ WrittenInv /\ NamedInv

(***************************************************************************)
(* The next block is written behind those that are stored.                 *)
(***************************************************************************)
LEMMA StoredMore ==
  ASSUME MemOK, MemOK', Graph', NEW file \in Blocks, NEW name, NEW k \in Nat, NEW a \in Blocks,
         NEW text \in Seq(Units), Stored(file, name, k, a, text), NEW b \in BlockState,
         mem' = [mem EXCEPT ![a] = b], k = 0 => b.master /\ b.name = name,
         NEW next, next = b.next, NEW piece, piece = b.data
  PROVE  Stored(file, name, k + 1, next, text \o piece)'
<1>1. PICK w \in [0 .. k -> Blocks \union {NoBlock}], c \in [0 .. k -> Seq(Units)] :
        /\ w[0] = file /\ w[k] = a /\ c[0] = <<>> /\ c[k] = text
        /\ \A i \in 0 .. k - 1 : /\ w[i] \in Blocks /\ w[i] # a
                                 /\ mem[w[i]].next = w[i + 1]
                                 /\ c[i + 1] = c[i] \o mem[w[i]].data
        /\ k > 0 => mem[file].master /\ mem[file].name = name
  BY DEF Stored
<1>2. mem'[a] = b /\ (\A x \in Blocks \ {a} : mem'[x] = mem[x]) /\ NoBlock \notin Blocks
  BY UBSAssumption DEF UBSAssumption, MemOK, Blocks
<1>3. mem'[file].master /\ mem'[file].name = name
  <2>1. CASE k = 0
    BY <1>1, <1>2, <2>1
  <2>2. CASE k > 0
    <3>1. 0 \in 0 .. k - 1
      BY <2>2
    <3>2. file # a
      BY <1>1, <3>1
    <3>3. mem'[file] = mem[file]
      BY <1>2, <3>2
    <3> QED
      BY <1>1, <2>2, <3>3
  <2> QED
    BY <2>1, <2>2
<1>4. next \in Blocks \union {NoBlock} /\ piece \in Seq(Units)
  <2>1. next \in Blocks \union {NoBlock}
    BY <1>2 DEF Graph, PointersInside
  <2> QED
    BY <2>1 DEF BlockState
<1>5. PICK v : v = [i \in 0 .. k + 1 |-> IF i <= k THEN w[i] ELSE next]
  OBVIOUS
<1>7. PICK all \in Seq(Units) : all = text \o piece
  BY <1>4, ConcatProperties
<1>6. PICK d : d = [i \in 0 .. k + 1 |-> IF i <= k THEN c[i] ELSE all]
  OBVIOUS
<1>8. v \in [0 .. k + 1 -> Blocks \union {NoBlock}] /\ d \in [0 .. k + 1 -> Seq(Units)]
  <2>1. \A i \in 0 .. k + 1 : i <= k => i \in 0 .. k
    OBVIOUS
  <2>2. v \in [0 .. k + 1 -> Blocks \union {NoBlock}]
    BY <1>1, <1>4, <1>5, <2>1
  <2>3. d \in [0 .. k + 1 -> Seq(Units)]
    BY <1>1, <1>6, <1>7, <2>1
  <2> QED
    BY <2>2, <2>3
<1>9. v[0] = file /\ v[k + 1] = next /\ d[0] = <<>> /\ d[k + 1] = all
  <2>1. 0 \in 0 .. k /\ 0 <= k /\ 0 \in 0 .. k + 1 /\ k + 1 \in 0 .. k + 1 /\ ~(k + 1 <= k)
    OBVIOUS
  <2> QED
    BY <1>1, <1>5, <1>6, <2>1
<1>10. ASSUME NEW i \in 0 .. k
       PROVE  /\ v[i] = w[i] /\ d[i] = c[i] /\ w[i] \in Blocks
              /\ mem'[v[i]].next = v[i + 1] /\ d[i + 1] = d[i] \o mem'[v[i]].data
  <2>1. v[i] = w[i] /\ d[i] = c[i]
    BY <1>5, <1>6
  <2>2. CASE i = k
    <3>1. v[i + 1] = next /\ d[i + 1] = all
      BY <1>5, <1>6, <2>2
    <3> QED
      BY <1>1, <1>2, <1>7, <2>1, <2>2, <3>1
  <2>3. CASE i # k
    <3>1. i \in 0 .. k - 1 /\ i + 1 \in 0 .. k
      BY <2>3
    <3>2. v[i + 1] = w[i + 1] /\ d[i + 1] = c[i + 1]
      BY <1>5, <1>6, <3>1
    <3>3. mem'[w[i]] = mem[w[i]] /\ w[i] \in Blocks
      BY <1>1, <1>2, <3>1
    <3>4. mem[w[i]].next = w[i + 1] /\ c[i + 1] = c[i] \o mem[w[i]].data
      BY <1>1, <3>1
    <3> QED
      BY <2>1, <3>2, <3>3, <3>4
  <2> QED
    BY <2>2, <2>3
<1>11. ASSUME NEW i \in 0 .. k PROVE v[i] # next
  <2> SUFFICES ASSUME w[i] = next PROVE FALSE
    BY <1>10
  <2>1. next \in Blocks /\ mem'[a].next = next
    BY <1>2, <1>10
  <2>4. \A x, y \in Blocks : mem'[x].next = mem'[y].next /\ mem'[x].next \in Blocks => x = y
    BY <1>2 DEF Graph, PointersApart
  <2>2. CASE i = 0
    BY <1>1, <1>2, <1>3, <2>1, <2>2 DEF Graph, PointersInside
  <2>3. CASE i # 0
    <3>1. PICK j \in 0 .. k - 1 : j + 1 = i /\ j \in 0 .. k
      <4>1. i - 1 \in 0 .. k - 1 /\ (i - 1) + 1 = i /\ i - 1 \in 0 .. k
        BY <2>3
      <4> QED
        BY <4>1
    <3>2. w[j] \in Blocks /\ w[j] # a /\ mem'[w[j]].next = next
      BY <1>1, <1>2, <3>1
    <3> QED
      BY <2>1, <2>4, <3>2
  <2> QED
    BY <2>2, <2>3
<1>12. (k + 1) - 1 = k
  OBVIOUS
<1> QED
  <2>1. \A i \in 0 .. (k + 1) - 1 : /\ v[i] \in Blocks /\ v[i] # next
                                    /\ mem'[v[i]].next = v[i + 1]
                                    /\ d[i + 1] = d[i] \o mem'[v[i]].data
    BY <1>10, <1>11, <1>12
  <2>2. \E x \in [0 .. k + 1 -> Blocks \union {NoBlock}], y \in [0 .. k + 1 -> Seq(Units)] :
          /\ x[0] = file /\ x[k + 1] = next /\ y[0] = <<>> /\ y[k + 1] = all
          /\ \A i \in 0 .. (k + 1) - 1 : /\ x[i] \in Blocks /\ x[i] # next
                                       /\ mem'[x[i]].next = x[i + 1]
                                       /\ y[i + 1] = y[i] \o mem'[x[i]].data
          /\ k + 1 > 0 => mem'[file].master /\ mem'[file].name = name
    <3> USE <1>8
    <3> WITNESS v \in [0 .. k + 1 -> Blocks \union {NoBlock}], d \in [0 .. k + 1 -> Seq(Units)]
    <3> QED
      BY <1>3, <1>9, <2>1
  <2>3. Stored(file, name, k + 1, next, all)'
    BY <2>2, ZenonT(40) DEF Stored
  <2> QED
    BY <1>7, <2>3

(***************************************************************************)
(* What is stored stays when a block is written that no pointer is to and  *)
(* that is no master.                                                      *)
(***************************************************************************)
LEMMA StoredKept ==
  ASSUME MemOK, NEW file \in Blocks, NEW name, NEW n \in Nat \ {0}, NEW last,
         NEW text, Stored(file, name, n, last, text), NEW a \in Blocks, NEW b,
         mem' = [mem EXCEPT ![a] = b], NotPointedAt(a), ~mem[a].master
  PROVE  Stored(file, name, n, last, text)'
<1>1. PICK w \in [0 .. n -> Blocks \union {NoBlock}], c \in [0 .. n -> Seq(Units)] :
        /\ w[0] = file /\ w[n] = last /\ c[0] = <<>> /\ c[n] = text
        /\ \A i \in 0 .. n - 1 : /\ w[i] \in Blocks /\ w[i] # last
                                 /\ mem[w[i]].next = w[i + 1]
                                 /\ c[i + 1] = c[i] \o mem[w[i]].data
        /\ n > 0 => mem[file].master /\ mem[file].name = name
  BY DEF Stored
<1>2. \A x \in Blocks \ {a} : mem'[x] = mem[x]
  BY UBSAssumption DEF UBSAssumption, MemOK, Blocks
<1>3. file # a
  BY <1>1
<1>4. ASSUME NEW i \in 0 .. n - 1 PROVE w[i] # a
  <2>1. CASE i = 0
    BY <1>1, <1>3, <2>1
  <2>2. CASE i # 0
    <3>1. PICK j \in 0 .. n - 1 : j + 1 = i
      <4>1. i - 1 \in 0 .. n - 1 /\ (i - 1) + 1 = i
        BY <2>2
      <4> QED
        BY <4>1
    <3>2. w[j] \in Blocks /\ mem[w[j]].next = w[i]
      BY <1>1, <3>1
    <3> QED
      BY <3>2 DEF NotPointedAt
  <2> QED
    BY <2>1, <2>2
<1>5. \A i \in 0 .. n - 1 : mem'[w[i]] = mem[w[i]]
  BY <1>1, <1>2, <1>4
<1>6. mem'[file] = mem[file]
  BY <1>2, <1>3
<1> QED
  <2>1. /\ w \in [0 .. n -> Blocks \union {NoBlock}] /\ c \in [0 .. n -> Seq(Units)]
        /\ w[0] = file /\ w[n] = last /\ c[0] = <<>> /\ c[n] = text
        /\ mem'[file].master /\ mem'[file].name = name
    BY <1>1, <1>6
  <2>2. \A i \in 0 .. n - 1 : /\ w[i] \in Blocks /\ w[i] # last
                              /\ mem'[w[i]].next = w[i + 1]
                              /\ c[i + 1] = c[i] \o mem'[w[i]].data
    BY <1>1, <1>5
  <2> QED
    BY <2>1, <2>2 DEF Stored

(***************************************************************************)
(* Pieces put together: the text so far, and the next piece behind it.     *)
(***************************************************************************)
JoinsTo(c, pieces) ==
  /\ c \in [0 .. BlockCount + 2 -> Seq(Units)] /\ c[0] = <<>>
  /\ \A k \in 0 .. BlockCount + 1 : c[k + 1] = c[k] \o pieces[k]
  /\ Joined(pieces) = c[BlockCount + 2]

(* Such a function gives what Joined does.                                 *)
LEMMA JoinedIs ==
  ASSUME NEW pieces \in [0 .. BlockCount + 1 -> Seq(Units)]
  PROVE  (\E c : JoinsTo(c, pieces)) /\ Joined(pieces) \in Seq(Units)
<1>1. PICK n \in Nat : n = BlockCount + 2
  BY UBSAssumption DEF UBSAssumption
<1>2. n - 1 = BlockCount + 1 /\ 0 \in 0 .. n /\ n \in 0 .. n
  BY <1>1, UBSAssumption DEF UBSAssumption
<1> DEFINE rule == [k \in 1 .. n |-> [s \in Seq(Units) |-> s \o pieces[k - 1]]]
           G(h) == [k \in 0 .. BlockCount + 2 |-> IF k = 0 THEN <<>> ELSE h[k - 1] \o pieces[k - 1]]
<1>3. rule \in [1 .. n -> [Seq(Units) -> Seq(Units)]]
  <2> SUFFICES ASSUME NEW k \in 1 .. n, NEW s \in Seq(Units) PROVE s \o pieces[k - 1] \in Seq(Units)
    OBVIOUS
  <2>1. k - 1 \in 0 .. n - 1
    OBVIOUS
  <2>2. pieces[k - 1] \in Seq(Units)
    BY <1>2, <2>1
  <2> QED
    BY <2>2, ConcatProperties
<1>4. PICK g \in [0 .. n -> Seq(Units)] :
        g[0] = <<>> /\ \A k \in 1 .. n : g[k] = rule[k][g[k - 1]]
  <2> HIDE DEF rule
  <2>1. <<>> \in Seq(Units)
    BY EmptySeq
  <2>2. HasFunction(n, Seq(Units), <<>>, rule)
    BY <1>3, <2>1, Recursion
  <2> QED
    BY <2>2 DEF HasFunction, ByRule
<1>5. \A k \in 0 .. n : g[k] = G(g)[k]
  <2> SUFFICES ASSUME NEW k \in 0 .. n PROVE g[k] = G(g)[k]
    OBVIOUS
  <2>1. CASE k = 0
    BY <1>1, <1>4, <2>1
  <2>2. CASE k # 0
    <3>1. k \in 1 .. n /\ k - 1 \in 0 .. n
      BY <2>2
    <3>2. g[k] = rule[k][g[k - 1]] /\ g[k - 1] \in Seq(Units)
      BY <1>4, <3>1
    <3>3. rule[k][g[k - 1]] = g[k - 1] \o pieces[k - 1]
      BY <3>1, <3>2
    <3> HIDE DEF rule
    <3> QED
      BY <1>1, <2>2, <3>2, <3>3
  <2> QED
    BY <2>1, <2>2
<1>6. g = G(g)
  <2> HIDE DEF rule
  <2> QED
    BY <1>1, <1>4, <1>5
<1>7. Joined(pieces) = (CHOOSE h : h = G(h))[BlockCount + 2]
  BY DEF Joined
<1>8. PICK c : c = G(c) /\ Joined(pieces) = c[n]
  <2> HIDE DEF G, rule
  <2> QED
    BY <1>1, <1>6, <1>7
<1>9. /\ c = [k \in 0 .. n |-> c[k]] /\ c[0] = <<>>
      /\ \A k \in 0 .. n - 1 : c[k + 1] = c[k] \o pieces[k]
  <2> HIDE DEF rule
  <2>1. \A k \in 0 .. n : c[k] = IF k = 0 THEN <<>> ELSE c[k - 1] \o pieces[k - 1]
    BY <1>1, <1>8
  <2>2. c = [k \in 0 .. n |-> c[k]] /\ c[0] = <<>>
    BY <1>1, <1>2, <1>8, <2>1
  <2>3. ASSUME NEW k \in 0 .. n - 1 PROVE c[k + 1] = c[k] \o pieces[k]
    <3>1. k + 1 \in 0 .. n /\ k + 1 # 0 /\ (k + 1) - 1 = k
      OBVIOUS
    <3> QED
      BY <2>1, <3>1
  <2> QED
    BY <2>2, <2>3
<1> DEFINE P == {k \in 0 .. n : c[k] \in Seq(Units)}
<1>10. 0 .. n \subseteq P
  <2>1. 0 \in P
    BY <1>2, <1>9, EmptySeq
  <2>2. ASSUME NEW k \in 0 .. n - 1, k \in P PROVE k + 1 \in P
    <3>3. k + 1 \in 0 .. n /\ c[k] \in Seq(Units)
      BY <2>2
    <3>4. c[k + 1] = c[k] \o pieces[k]
      BY <1>9
    <3>5. pieces[k] \in Seq(Units)
      BY <1>2
    <3>1. k + 1 \in 0 .. n /\ c[k] \in Seq(Units) /\ c[k + 1] = c[k] \o pieces[k] /\ pieces[k] \in Seq(Units)
      BY <3>3, <3>4, <3>5
    <3>2. c[k] \o pieces[k] \in Seq(Units)
      BY <3>1, ConcatProperties
    <3> QED
      BY <3>1, <3>2
  <2> HIDE DEF P
  <2> QED
    BY <2>1, <2>2, Upward
<1>11. c \in [0 .. n -> Seq(Units)]
  BY <1>9, <1>10
<1>12. JoinsTo(c, pieces)
  BY <1>1, <1>2, <1>8, <1>9, <1>11 DEF JoinsTo
<1> QED
  BY <1>1, <1>2, <1>8, <1>11, <1>12

(* The text of a script is a text.                                         *)
LEMMA ContentTyped ==
  ASSUME MemOK, NEW a \in Blocks
  PROVE  Content(a) \in Seq(Units)
<1>1. PICK p : p = Path(a)
  OBVIOUS
<1>2. BlockCount \in Nat /\ a \in 0 .. BlockCount
  BY UBSAssumption DEF UBSAssumption, Blocks
<1>3. p \in [0 .. BlockCount + 1 -> Pointers]
  BY <1>1, <1>2, PathIs
<1>4. PICK pieces : pieces = [k \in 0 .. BlockCount + 1 |-> IF p[k] = NoBlock THEN <<>> ELSE mem[p[k]].data]
  OBVIOUS
<1>5. pieces \in [0 .. BlockCount + 1 -> Seq(Units)]
  <2>1. \A k \in 0 .. BlockCount + 1 : p[k] = NoBlock \/ mem[p[k]].data \in Seq(Units)
    BY <1>3 DEF MemOK, BlockState, Pointers
  <2>2. <<>> \in Seq(Units)
    BY EmptySeq
  <2> QED
    BY <1>4, <2>1, <2>2
<1>6. Content(a) = Joined(pieces)
  BY <1>1, <1>4 DEF Content
<1> QED
  BY <1>5, <1>6, JoinedIs

(***************************************************************************)
(* A script is not NoEntry.                                                *)
(***************************************************************************)
LEMMA EntryOfMaster ==
  ASSUME MemOK, NEW a \in Masters
  PROVE  /\ a \in Blocks /\ Entry(a) = [name |-> mem[a].name, text |-> Content(a)]
         /\ Entry(a) # NoEntry /\ Entry(a).name = mem[a].name
<1>1. a \in Blocks /\ mem[a].master /\ a \in 0 .. BlockCount
  BY UBSAssumption DEF UBSAssumption, Masters, Blocks
<1>2. PICK text \in Seq(Units) : text = Content(a)
  BY <1>1, ContentTyped
<1>3. mem[a].name \in Names \union {NoName}
  BY <1>1 DEF MemOK, BlockState
<1>4. Entry(a) = [name |-> mem[a].name, text |-> text]
  BY <1>1, <1>2 DEF Entry
<1>5. Entry(a) \in [name : Names \union {NoName}, text : Seq(Texts \X Nat)]
  BY <1>2, <1>3, <1>4 DEF Units
<1> QED
  BY <1>1, <1>2, <1>4, <1>5, UBSAssumption DEF UBSAssumption

(* The start of uBSWrite has nothing stored.                               *)
LEMMA WriteKeepsStored ==
  ASSUME Careful, SInv, NEW n \in Names, NEW text \in Seq(Units), Write(n, text)
  PROVE  WrittenInv' /\ NamedInv'
<1>1. PICK file, old, new, free :
           /\ mem' = mem /\ call = Idle
           /\ \/ /\ Named(n) # {} /\ file = Lowest(Named(n)) /\ file \in Masters
              \/ /\ Named(n) = {} /\ file \in FreeSet
           /\ \/ Return(n, "TOO_LARGE")
              \/ call' = [pc |-> "put", name |-> n, file |-> file, address |-> file,
                          block |-> 0, new |-> new, old |-> old, data |-> text,
                          erase |-> NoBlock, want |-> text, was |-> Entry(file)]
  <2>1. PICK file, old, new, free : Starts(n, text, file, old, new, free)
    BY WriteChooses DEF SInv
  <2> QED
    BY <2>1 DEF Starts
<1>2. CASE Return(n, "TOO_LARGE")
  BY <1>2 DEF Return, Idle, WrittenInv, NamedInv
<1>3. CASE call' = [pc |-> "put", name |-> n, file |-> file, address |-> file,
                    block |-> 0, new |-> new, old |-> old, data |-> text,
                    erase |-> NoBlock, want |-> text, was |-> Entry(file)]
  <2>1. /\ call'.pc = "put" /\ call'.name = n /\ call'.file = file /\ call'.address = file /\ call'.block = 0
        /\ call'.data = text /\ call'.want = text /\ call'.was = Entry(file)
    BY <1>3
  <2>2. file \in Blocks /\ MemOK /\ Named(n) \subseteq Blocks
    BY <1>1 DEF Masters, FreeSet, Named, SInv, IInv, Typed
  <2>3. Stored(file, n, 0, file, <<>>)'
    <3> DEFINE w == [i \in 0 .. 0 |-> file]
               c == [i \in 0 .. 0 |-> <<>>]
    <3>1. w \in [0 .. 0 -> Blocks \union {NoBlock}] /\ w[0] = file
      BY <2>2
    <3>2. c \in [0 .. 0 -> Seq(Units)] /\ c[0] = <<>>
      BY EmptySeq
    <3>3. 0 .. 0 - 1 = {} /\ ~(0 > 0)
      OBVIOUS
    <3> HIDE DEF w, c
    <3> QED
      BY <3>1, <3>2, <3>3 DEF Stored
  <2>4. <<>> \in Seq(Units) /\ <<>> \o text = text
    BY EmptySeq, ConcatEmptySeq
  <2>5. WrittenInv'
    <3>1. \E t \in Seq(Units) : (/\ t \o call.data = call.want
                                 /\ Stored(call.file, call.name, call.block, call.address, t))'
      <4>1. /\ <<>> \o call'.data = call'.want
            /\ (Stored(call.file, call.name, call.block, call.address, <<>>))'
        BY <2>1, <2>3, <2>4
      <4> QED
        BY <2>4, <4>1
    <3> QED
      BY <2>1, <3>1 DEF WrittenInv
  <2>6. Masters' = Masters
    BY <1>1 DEF Masters
  <2>7. CASE Named(n) # {} /\ file = Lowest(Named(n)) /\ file \in Masters
    <3>1. file \in Named(n) /\ \A b \in Named(n) : file <= b
      BY <2>2, <2>7, LowestIs
    <3>2. \A b \in Masters : mem[b].name = n => file <= b
      BY <3>1 DEF Named
    <3>3. mem[file].name = n
      BY <3>1 DEF Named
    <3>4. Entry(file) # NoEntry /\ Entry(file).name = n
      BY <2>2, <2>7, <3>3, EntryOfMaster
    <3> QED
      BY <1>1, <2>1, <2>5, <2>6, <3>2, <3>4 DEF NamedInv
  <2>8. CASE Named(n) = {} /\ file \in FreeSet
    <3>1. \A b \in Masters : mem[b].name # n
      BY <2>8 DEF Named
    <3>2. Entry(file) = NoEntry
      BY <2>8 DEF Entry, FreeSet, IsFree
    <3> QED
      BY <1>1, <2>1, <2>5, <2>6, <3>1, <3>2 DEF NamedInv
  <2> QED
    BY <1>1, <2>7, <2>8
<1> QED
  BY <1>1, <1>2, <1>3

(***************************************************************************)
(* A round of uBSWrite: all of the text is stored but for the tail.        *)
(***************************************************************************)
SameFile ==
  /\ call'.file = call.file /\ call'.name = call.name /\ call'.was = call.was
  /\ call'.new = call.new /\ call'.want = call.want /\ result' = result

(* What is stored after the round.                                         *)
PutStored(k, new, next, tail, file, name, want, all) ==
  /\ file = call.file /\ name = call.name /\ want = call.want /\ new = call.new
  /\ file \in Blocks /\ new \in Nat \ {0} /\ all \in Seq(Units) /\ want \in Seq(Units)
  /\ all \o tail = want /\ Stored(file, name, k + 1, next, all)'
  /\ k = new - 1 => k + 1 = new /\ next = NoBlock /\ all = want
  /\ \A x \in Masters' : mem'[x].name = name => file <= x /\ (call.was = NoEntry => x = file)
  /\ call.was # NoEntry => call.was.name = name
  /\ \/ /\ k # new - 1 /\ call'.pc = "put" /\ SameFile
        /\ call'.block = k + 1 /\ call'.data = tail /\ call'.address = next
     \/ k = new - 1 /\ call'.pc = "trim" /\ SameFile
     \/ k = new - 1 /\ Return(call.name, "OK")

(* Every round stores its piece.                                           *)
LEMMA PutStores ==
  ASSUME SInv, PutBlock
  PROVE  \E k, new, next, tail, file, name, want, all :
           PutStored(k, new, next, tail, file, name, want, all)
<1>1. PICK k, a, old, new, text, size, next, rest, b : Round(k, a, old, new, text, size, next, rest, b)
  BY RoundIs DEF SInv
<1>2. /\ call.pc = "put" /\ call \in PutCalls
      /\ k = call.block /\ a = call.address /\ old = call.old /\ new = call.new /\ text = call.data
      /\ k \in Nat /\ a \in Blocks /\ new \in Nat \ {0} /\ text \in Seq(Units)
      /\ size \in 0 .. Len(text) /\ (k = new - 1 => size = Len(text))
  BY <1>1 DEF Round, RoundStarts
<1>3. /\ b = [master |-> k = 0, next |-> next, name |-> IF k = 0 THEN call.name ELSE NoName,
              data |-> SubSeq(text, 1, size)]
      /\ b \in BlockState /\ (b.master <=> k = 0)
      /\ mem' = [mem EXCEPT ![a] = b] /\ MemOK /\ MemOK' /\ Graph'
      /\ mem'[a] = b /\ \A x \in Blocks \ {a} : mem'[x] = mem[x]
  BY <1>1 DEF Round, RoundWrites
<1>4. k = new - 1 => next = NoBlock
  BY <1>1, <1>2 DEF Round, RoundPoints
<1>5. PICK file, name, want : file = call.file /\ name = call.name /\ want = call.want
  OBVIOUS
<1>6. file \in Blocks /\ want \in Seq(Units)
  BY <1>2, <1>5 DEF PutCalls
<1>7. PICK head \in Seq(Units) : head \o text = want /\ Stored(file, name, k, a, head)
  BY <1>2, <1>5 DEF SInv, WrittenInv
<1>8. PICK piece, tail : piece = SubSeq(text, 1, size) /\ tail = SubSeq(text, size + 1, Len(text))
  OBVIOUS
<1>9. piece \in Seq(Units) /\ tail \in Seq(Units) /\ piece \o tail = text
  <2>1. Len(text) \in Nat /\ 1 \in 1 .. Len(text) + 1 /\ size \in 1 - 1 .. Len(text)
        /\ Len(text) \in size .. Len(text)
    BY <1>2, LenProperties
  <2>2. SubSeq(text, 1, size) \o SubSeq(text, size + 1, Len(text)) = SubSeq(text, 1, Len(text))
    BY <1>2, <2>1, ConcatAdjacentSubSeq
  <2>3. SubSeq(text, 1, Len(text)) = text
    BY <1>2, SubSeqFull
  <2>4. piece \in Seq(Units) /\ tail \in Seq(Units)
    BY <1>2, <1>8, <2>1, SubSeqProperties
  <2> QED
    BY <1>8, <2>2, <2>3, <2>4
<1>10. PICK all \in Seq(Units) : all = head \o piece
  BY <1>7, <1>9, ConcatProperties
<1>11. all \o tail = want
  <2>1. (head \o piece) \o tail = head \o (piece \o tail)
    <3>1. head \in Seq(Units) /\ piece \in Seq(Units) /\ tail \in Seq(Units)
      BY <1>7, <1>9
    <3> QED
      BY <3>1, ConcatAssociative
  <2> QED
    BY <1>7, <1>9, <1>10, <2>1
<1>12. b \in BlockState /\ next = b.next /\ piece = b.data /\ (k = 0 => b.master /\ b.name = name)
  BY <1>3, <1>5, <1>8
<1>13. Stored(file, name, k + 1, next, all)'
  <2>1. Stored(file, name, k + 1, next, head \o piece)'
    BY <1>2, <1>3, <1>6, <1>7, <1>12, StoredMore
  <2> QED
    BY <1>10, <2>1
<1>14. \A x \in Masters' : mem'[x].name = name => file <= x /\ (call.was = NoEntry => x = file)
  <2> SUFFICES ASSUME NEW x \in Masters', mem'[x].name = name
               PROVE file <= x /\ (call.was = NoEntry => x = file)
    OBVIOUS
  <2>1. x \in Blocks /\ mem'[x].master
    BY DEF Masters, Blocks
  <2>2. CASE x # a
    BY <1>2, <1>3, <1>5, <2>1, <2>2 DEF SInv, NamedInv, Masters
  <2>3. CASE x = a
    <3>1. k = 0
      BY <1>3, <2>1, <2>3
    <3>2. a = file
      BY <1>1, <1>5, <3>1 DEF Round, RoundStarts
    <3>3. file <= file
      BY <1>6, UBSAssumption DEF UBSAssumption, Blocks
    <3> QED
      BY <2>3, <3>2, <3>3
  <2> QED
    BY <2>2, <2>3
<1>15. call.was # NoEntry => call.was.name = name
  BY <1>2, <1>5 DEF SInv, NamedInv
<1>16. k = new - 1 => k + 1 = new /\ next = NoBlock /\ all = want
  <2> SUFFICES ASSUME k = new - 1 PROVE k + 1 = new /\ next = NoBlock /\ all = want
    OBVIOUS
  <2>1. piece = text
    BY <1>2, <1>8, SubSeqFull
  <2> QED
    BY <1>2, <1>4, <1>7, <1>10, <2>1
<1>17. ASSUME k # new - 1,
              call' = [call EXCEPT !.address = next, !.block = k + 1, !.data = tail], UNCHANGED result
       PROVE  /\ call'.pc = "put" /\ SameFile
              /\ call'.block = k + 1 /\ call'.data = tail /\ call'.address = next
  BY <1>2, <1>17 DEF PutCalls, SameFile
<1>18. ASSUME k = new - 1,
              call' = [call EXCEPT !.pc = "trim", !.block = k + 1, !.erase = rest], UNCHANGED result
       PROVE  call'.pc = "trim" /\ SameFile
  BY <1>2, <1>18 DEF PutCalls, SameFile
<1>19. \/ /\ k # new - 1 /\ call'.pc = "put" /\ SameFile
          /\ call'.block = k + 1 /\ call'.data = tail /\ call'.address = next
       \/ k = new - 1 /\ call'.pc = "trim" /\ SameFile
       \/ k = new - 1 /\ Return(call.name, "OK")
  BY <1>1, <1>8, <1>17, <1>18 DEF Round, RoundGoesOn
<1>20. PutStored(k, new, next, tail, file, name, want, all)
  BY <1>2, <1>5, <1>6, <1>10, <1>11, <1>13, <1>14, <1>15, <1>16, <1>19 DEF PutStored
<1> QED
  BY <1>20

(* A round of uBSWrite.                                                    *)
LEMMA PutKeepsStored ==
  ASSUME SInv, PutBlock
  PROVE  WrittenInv' /\ NamedInv'
<1>1. PICK k, new, next, tail, file, name, want, all : PutStored(k, new, next, tail, file, name, want, all)
  BY PutStores
<1>2. /\ file = call.file /\ name = call.name /\ want = call.want /\ new = call.new
      /\ all \in Seq(Units) /\ all \o tail = want /\ Stored(file, name, k + 1, next, all)'
      /\ k = new - 1 => k + 1 = new /\ next = NoBlock /\ all = want
  BY <1>1 DEF PutStored
<1>3. ASSUME call'.pc \in {"put", "trim"}, SameFile PROVE NamedInv'
  BY <1>1, <1>3 DEF PutStored, SameFile, NamedInv
<1>4. CASE /\ k # new - 1 /\ call'.pc = "put" /\ SameFile
           /\ call'.block = k + 1 /\ call'.data = tail /\ call'.address = next
  <2>1. \E t \in Seq(Units) : (/\ t \o call.data = call.want
                               /\ Stored(call.file, call.name, call.block, call.address, t))'
    <3>1. /\ all \o call'.data = call'.want
          /\ (Stored(call.file, call.name, call.block, call.address, all))'
      BY <1>2, <1>4 DEF SameFile
    <3> QED
      BY <1>2, <3>1
  <2>2. WrittenInv'
    BY <1>4, <2>1 DEF WrittenInv
  <2> QED
    BY <1>3, <1>4, <2>2
<1>5. CASE k = new - 1 /\ call'.pc = "trim" /\ SameFile
  <2>1. (Stored(call.file, call.name, call.new, NoBlock, call.want))'
    BY <1>2, <1>5 DEF SameFile
  <2>2. WrittenInv'
    BY <1>5, <2>1 DEF WrittenInv
  <2> QED
    BY <1>3, <1>5, <2>2
<1>6. CASE Return(call.name, "OK")
  BY <1>6 DEF Return, Idle, WrittenInv, NamedInv
<1> QED
  BY <1>1, <1>4, <1>5, <1>6 DEF PutStored

(***************************************************************************)
(* The round that erases the block a, which points to y.                   *)
(***************************************************************************)
Erases(a, y) ==
  /\ a \in Blocks /\ NotPointedAt(a) /\ y = mem[a].next
  /\ mem' = [mem EXCEPT ![a] = Erased] /\ mem'[a] = Erased /\ \A x \in Blocks \ {a} : mem'[x] = mem[x]
  /\ MemOK /\ Graph /\ MemOK' /\ Graph'
  /\ FreeSet' = FreeSet \union {a} /\ Masters' = Masters \ {a}

(* The loop goes on at y.                                                  *)
GoesOn(a, y) == y \in Blocks \ {a} /\ NotPointedAt(y)' /\ ~mem'[y].master /\ result' = result

(* A round of the loop of uBSWrite that erases.                            *)
TrimRound(a, y) ==
  /\ call.pc = "trim" /\ a = call.erase /\ Erases(a, y) /\ ~mem[a].master
  /\ call.file \in Blocks /\ call.new \in Nat \ {0} /\ call.want \in Seq(Units)
  /\ \/ /\ call'.pc = "trim" /\ call'.erase = y /\ GoesOn(a, y)
        /\ call'.name = call.name /\ call'.file = call.file /\ call'.new = call.new
        /\ call'.want = call.want /\ call'.was = call.was
     \/ y = NoBlock /\ Return(call.name, "OK")

(* A round of uBSEraseBlocks.                                              *)
EraseRound(a, y) ==
  /\ call.pc = "delete" /\ a = call.address /\ Erases(a, y)
  /\ call.file \in Blocks
  /\ \/ /\ call'.pc = "delete" /\ call'.address = y /\ GoesOn(a, y)
        /\ call'.name = call.name /\ call'.file = call.file /\ call'.was = call.was
     \/ y = NoBlock /\ Return(call.name, "OK")

(* Erasing the first block of a chain that nothing leads to.               *)
LEMMA ErasesIs ==
  ASSUME IInv, call.pc \in {"trim", "delete"}, NEW a, NEW n \in Nat \ {0}, Run(a, n), NotPointedAt(a),
         mem' = [mem EXCEPT ![a] = Erased], freeBlocks' = (freeBlocks + 1) % CounterSize,
         NEW y, y = mem[a].next
  PROVE  Erases(a, y)
<1>1. MemOK /\ Graph /\ Erased \in BlockState
  BY DEF IInv, Typed, Erased, BlockState
<1>2. MemOK' /\ Graph' /\ a \in Blocks
  BY EraseStep
<1>3. FreeSet' = FreeSet \union {a} /\ Masters' = Masters \ {a}
  <2>1. IsFree(Erased) /\ ~Erased.master
    BY DEF IsFree, Erased
  <2> QED
    BY <1>1, <1>2, <2>1, FreeSetAfter
<1>4. mem'[a] = Erased /\ \A x \in Blocks \ {a} : mem'[x] = mem[x]
  BY <1>1, <1>2, UBSAssumption DEF MemOK, UBSAssumption, Blocks
<1> QED
  BY <1>1, <1>2, <1>3, <1>4 DEF Erases

(* Every round is one.                                                     *)
LEMMA TrimIs ==
  ASSUME IInv, Trim
  PROVE  \E a, y : TrimRound(a, y)
<1>1. PICK k, a, old, y, n : k = call.block /\ a = call.erase /\ old = call.old /\ y = mem[a].next /\ n = old - k
  OBVIOUS
<1>2. call.pc = "trim" /\ call \in [pc : {"put", "trim"}, name : Names, file : Blocks, address : Blocks, block : Nat,
          new : Nat \ {0}, old : Nat, data : Seq(Units), erase : Blocks \union {NoBlock},
          want : Seq(Units), was : {call.was}]
  BY DEF Trim, IInv, Typed, Calls, Idle
<1>3. k \in Nat /\ old \in Nat /\ k < old /\ n \in Nat \ {0} /\ Run(a, n) /\ NotPointedAt(a) /\ ~mem[a].master
  BY <1>1, <1>2 DEF IInv, TrimInv
<1>4. /\ mem' = [mem EXCEPT ![a] = Erased] /\ freeBlocks' = (freeBlocks + 1) % CounterSize
      /\ IF k + 1 < old
         THEN call' = [call EXCEPT !.block = k + 1, !.erase = y] /\ result' = result
         ELSE Return(call.name, "OK")
  BY <1>1, <1>2 DEF Trim
<1>5. Erases(a, y) /\ (n = 1 => y = NoBlock)
      /\ (n > 1 => y \in Blocks \ {a} /\ NotPointedAt(y)' /\ ~mem'[y].master)
  <2>1. call.pc \in {"trim", "delete"} /\ y = mem[a].next
    BY <1>1, <1>2
  <2>2. mem' = [mem EXCEPT ![a] = Erased] /\ freeBlocks' = (freeBlocks + 1) % CounterSize
    BY <1>4
  <2>3. Erases(a, y)
    BY <1>3, <2>1, <2>2, ErasesIs
  <2>4. n = 1 => y = NoBlock
    BY <1>3, <2>1, <2>2, EraseStep
  <2>5. n > 1 => y \in Blocks \ {a}
    BY <1>3, <2>1, <2>2, EraseStep
  <2>6. n > 1 => NotPointedAt(y)'
    BY <1>3, <2>1, <2>2, EraseStep
  <2>7. n > 1 => ~mem'[y].master
    BY <1>3, <2>1, <2>2, EraseStep
  <2> QED
    BY <2>3, <2>4, <2>5, <2>6, <2>7
<1>6. CASE k + 1 < old
  <2>1. n > 1 /\ call' = [call EXCEPT !.block = k + 1, !.erase = y] /\ result' = result
    BY <1>1, <1>3, <1>4, <1>6
  <2>2. /\ call'.pc = "trim" /\ call'.erase = y
        /\ call'.name = call.name /\ call'.file = call.file /\ call'.new = call.new
        /\ call'.want = call.want /\ call'.was = call.was
    BY <1>2, <2>1
  <2>3. GoesOn(a, y)
    BY <1>5, <2>1 DEF GoesOn
  <2> QED
    BY <1>1, <1>2, <1>3, <1>5, <2>2, <2>3 DEF TrimRound
<1>7. CASE ~(k + 1 < old)
  <2>1. n = 1 /\ Return(call.name, "OK")
    BY <1>1, <1>3, <1>4, <1>7
  <2> QED
    BY <1>1, <1>2, <1>3, <1>5, <2>1 DEF TrimRound
<1> QED
  BY <1>6, <1>7

(* Every round is one.                                                     *)
LEMMA EraseIs ==
  ASSUME IInv, EraseBlock
  PROVE  \E a, y : EraseRound(a, y)
<1>1. PICK a, y, n : a = call.address /\ y = mem[a].next /\ n = call.left
  OBVIOUS
<1>2. call.pc = "delete" /\ call \in [pc : {"delete"}, name : Names, file : Blocks, address : Blocks, left : Nat \ {0},
                   was : {call.was}]
  BY DEF EraseBlock, IInv, Typed, Calls, Idle
<1>3. n \in Nat \ {0} /\ Run(a, n) /\ NotPointedAt(a)
  BY <1>1, <1>2 DEF IInv, DeleteInv
<1>4. /\ mem' = [mem EXCEPT ![a] = Erased] /\ freeBlocks' = (freeBlocks + 1) % CounterSize
      /\ IF n > 1
         THEN call' = [call EXCEPT !.address = y, !.left = n - 1] /\ result' = result
         ELSE Return(call.name, "OK")
  BY <1>1, <1>2 DEF EraseBlock
<1>5. Erases(a, y) /\ (n = 1 => y = NoBlock)
      /\ (n > 1 => y \in Blocks \ {a} /\ NotPointedAt(y)' /\ ~mem'[y].master)
  <2>1. call.pc \in {"trim", "delete"} /\ y = mem[a].next
    BY <1>1, <1>2
  <2>2. mem' = [mem EXCEPT ![a] = Erased] /\ freeBlocks' = (freeBlocks + 1) % CounterSize
    BY <1>4
  <2>3. Erases(a, y)
    BY <1>3, <2>1, <2>2, ErasesIs
  <2>4. n = 1 => y = NoBlock
    BY <1>3, <2>1, <2>2, EraseStep
  <2>5. n > 1 => y \in Blocks \ {a}
    BY <1>3, <2>1, <2>2, EraseStep
  <2>6. n > 1 => NotPointedAt(y)'
    BY <1>3, <2>1, <2>2, EraseStep
  <2>7. n > 1 => ~mem'[y].master
    BY <1>3, <2>1, <2>2, EraseStep
  <2> QED
    BY <2>3, <2>4, <2>5, <2>6, <2>7
<1>6. CASE n > 1
  <2>1. call' = [call EXCEPT !.address = y, !.left = n - 1] /\ result' = result
    BY <1>4, <1>6
  <2>2. /\ call'.pc = "delete" /\ call'.address = y
        /\ call'.name = call.name /\ call'.file = call.file /\ call'.was = call.was
    BY <1>2, <2>1
  <2>3. GoesOn(a, y)
    BY <1>5, <1>6, <2>1 DEF GoesOn
  <2> QED
    BY <1>1, <1>2, <1>5, <2>2, <2>3 DEF EraseRound
<1>7. CASE ~(n > 1)
  <2>1. n = 1 /\ Return(call.name, "OK")
    BY <1>3, <1>4, <1>7
  <2> QED
    BY <1>1, <1>2, <1>5, <2>1 DEF EraseRound
<1> QED
  BY <1>6, <1>7

(* Erasing the rest of the old chain spoils nothing.                       *)
LEMMA TrimKeepsStored ==
  ASSUME SInv, Trim
  PROVE  WrittenInv' /\ NamedInv'
<1>1. PICK a, y : TrimRound(a, y)
  BY TrimIs DEF SInv
<1>2. CASE Return(call.name, "OK")
  BY <1>2 DEF Return, Idle, WrittenInv, NamedInv
<1>3. CASE /\ call'.pc = "trim" /\ call'.erase = y /\ GoesOn(a, y)
           /\ call'.name = call.name /\ call'.file = call.file /\ call'.new = call.new
           /\ call'.want = call.want /\ call'.was = call.was
  <2>1. PICK file, name, n, want : file = call.file /\ name = call.name /\ n = call.new /\ want = call.want
    OBVIOUS
  <2>2. /\ file \in Blocks /\ n \in Nat \ {0} /\ a \in Blocks /\ MemOK
        /\ mem' = [mem EXCEPT ![a] = Erased] /\ NotPointedAt(a) /\ ~mem[a].master
        /\ Masters' = Masters \ {a} /\ \A x \in Blocks \ {a} : mem'[x] = mem[x]
    BY <1>1, <2>1 DEF TrimRound, Erases
  <2>3. Stored(file, name, n, NoBlock, want)
    BY <1>1, <2>1 DEF TrimRound, SInv, WrittenInv
  <2>4. Stored(file, name, n, NoBlock, want)'
    BY <2>2, <2>3, StoredKept
  <2>5. WrittenInv'
    BY <1>3, <2>1, <2>4 DEF WrittenInv
  <2>6. \A b \in Masters' : b \in Masters /\ mem'[b] = mem[b]
    BY <2>2 DEF Masters
  <2>7. NamedInv'
    BY <1>1, <1>3, <2>6 DEF NamedInv, SInv, TrimRound
  <2> QED
    BY <2>5, <2>7
<1> QED
  BY <1>1, <1>2, <1>3 DEF TrimRound

(* A round of uBSEraseBlocks.                                              *)
LEMMA EraseKeepsStored ==
  ASSUME SInv, EraseBlock
  PROVE  WrittenInv' /\ NamedInv'
<1>1. PICK a, y : EraseRound(a, y)
  BY EraseIs DEF SInv
<1>2. CASE Return(call.name, "OK")
  BY <1>2 DEF Return, Idle, WrittenInv, NamedInv
<1>3. CASE /\ call'.pc = "delete" /\ call'.address = y /\ GoesOn(a, y)
           /\ call'.name = call.name /\ call'.file = call.file /\ call'.was = call.was
  <2>1. /\ a = call.address /\ call.file \in Blocks /\ mem'[a] = Erased
        /\ \A x \in Blocks \ {a} : mem'[x] = mem[x]
    BY <1>1 DEF EraseRound, Erases
  <2>2. ~mem'[call.file].master
    <3>1. CASE call.file = a
      BY <2>1, <3>1 DEF Erased
    <3>2. CASE call.file # a
      BY <1>1, <2>1, <3>2 DEF EraseRound, SInv, NamedInv
    <3> QED
      BY <3>1, <3>2
  <2>3. call.was # NoEntry /\ call.was.name = call.name
    BY <1>1 DEF EraseRound, SInv, NamedInv
  <2>4. NamedInv'
    BY <1>3, <2>2, <2>3 DEF NamedInv, GoesOn
  <2> QED
    BY <1>3, <2>4 DEF WrittenInv
<1> QED
  BY <1>1, <1>2, <1>3 DEF EraseRound

(***************************************************************************)
(* The file that uBSSeekName finds.                                        *)
(***************************************************************************)
LEMMA SeekIs ==
  ASSUME NEW n, Seek(n) # NoBlock
  PROVE  /\ Seek(n) \in Masters /\ Seek(n) \in Blocks /\ mem[Seek(n)].name = n
         /\ \A b \in Masters : mem[b].name = n => Seek(n) <= b
<1>1. Named(n) # {} /\ Seek(n) = Lowest(Named(n)) /\ Named(n) \subseteq Blocks
  BY DEF Seek, Named, Masters
<1>2. Seek(n) \in Named(n) /\ \A b \in Named(n) : Seek(n) <= b
  BY <1>1, LowestIs
<1> QED
  BY <1>2 DEF Named, Masters

(* The start of uBSDelete.                                                 *)
LEMMA DeleteKeepsStored ==
  ASSUME SInv, NEW n \in Names, Delete(n)
  PROVE  WrittenInv' /\ NamedInv'
<1>1. CASE Seek(n) = NoBlock
  BY <1>1 DEF Delete, Return, Idle, WrittenInv, NamedInv
<1>2. CASE Seek(n) # NoBlock
  <2>1. PICK f : f = Seek(n) /\ f \in Masters /\ mem[f].name = n
    BY <1>2, SeekIs
  <2>2. call'.pc = "delete" /\ call'.name = n /\ call'.file = f /\ call'.address = f /\ call'.was = Entry(f)
    BY <1>2, <2>1 DEF Delete
  <2>3. Entry(f) # NoEntry /\ Entry(f).name = n
    BY <2>1, EntryOfMaster DEF SInv, IInv, Typed
  <2> QED
    BY <2>2, <2>3 DEF WrittenInv, NamedInv
<1> QED
  BY <1>1, <1>2

(* The other calls have nothing to store.                                  *)
LEMMA OthersKeepStored ==
  ASSUME SInv,
         \/ \E n, to \in Names : Rename(n, to)
         \/ Format \/ FormatBlock \/ Reset
  PROVE  WrittenInv' /\ NamedInv'
<1>1. call'.pc \in {"idle", "format"}
  <2>1. CASE \E n, to \in Names : Rename(n, to)
    BY <2>1 DEF Rename, Return, Idle
  <2>2. CASE Format \/ Reset
    BY <2>2 DEF Format, Reset, Idle
  <2>3. CASE FormatBlock
    <3>1. call \in [pc : {"format"}, address : Blocks]
      BY <2>3 DEF FormatBlock, SInv, IInv, Typed, Calls, Idle
    <3> QED
      BY <2>3, <3>1 DEF FormatBlock, Idle
  <2> QED
    BY <2>1, <2>2, <2>3
<1> QED
  BY <1>1 DEF WrittenInv, NamedInv

(* Every step.                                                             *)
LEMMA NextKeepsStored ==
  ASSUME Careful, SInv, [Next]_vars
  PROVE  SInv'
<1>1. IInv'
  BY NextKeepsInv DEF SInv
<1>2. ASSUME NEW n \in Names, NEW t \in Texts, NEW s \in Sizes, Write(n, Text(t, s))
      PROVE  WrittenInv' /\ NamedInv'
  BY <1>2, TextIs, WriteKeepsStored
<1>3. CASE UNCHANGED vars
  <2>1. mem' = mem /\ call' = call
    BY <1>3 DEF vars
  <2>4. ASSUME NEW file, NEW name, NEW n, NEW last, NEW text, Stored(file, name, n, last, text)
        PROVE  Stored(file, name, n, last, text)'
    BY <2>1, <2>4, Zenon DEF Stored
  <2>2. WrittenInv'
    BY <2>1, <2>4 DEF SInv, WrittenInv
  <2>3. NamedInv'
    BY <2>1 DEF SInv, NamedInv, Masters
  <2> QED
    BY <1>1, <2>2, <2>3 DEF SInv
<1>4. CASE Next
  BY <1>1, <1>2, <1>4, PutKeepsStored, TrimKeepsStored, DeleteKeepsStored, EraseKeepsStored, OthersKeepStored DEF Next, SInv
<1> QED
  BY <1>1, <1>3, <1>4 DEF SInv

(* The invariant holds.                                                    *)
LEMMA StoredInvariant == Careful => (Spec => []SInv)
<1> SUFFICES ASSUME Careful PROVE Spec => []SInv
  OBVIOUS
<1>1. Init => SInv
  BY InitIsInv DEF Init, Idle, SInv, WrittenInv, NamedInv
<1>2. SInv /\ [Next]_vars => SInv'
  BY NextKeepsStored
<1> QED
  BY <1>1, <1>2, PTL DEF Spec

----------------------------------------------------------------------------
(* The blocks that are free, in a script, or still to be erased.           *)

Reached == FreeSet \union Owned

(***************************************************************************)
(* A chain holds its first block, and where its blocks point.              *)
(***************************************************************************)
LEMMA RootClosed ==
  ASSUME MemOK, Graph, NEW a \in Blocks, NotPointedAt(a)
  PROVE  /\ a \in Chain(a) /\ Chain(a) \subseteq Blocks
         /\ \A x \in Chain(a) : mem[x].next \in Chain(a) \union {NoBlock}
<1>1. PICK n, p : n = Length(a) /\ p = Path(a)
  OBVIOUS
<1>2. BlockCount \in Nat /\ NoBlock \notin Blocks /\ a \in 0 .. BlockCount
  BY UBSAssumption DEF UBSAssumption, Blocks
<1>3. /\ p[0] = a
      /\ \A k \in 0 .. BlockCount : p[k + 1] = IF p[k] = NoBlock THEN NoBlock ELSE mem[p[k]].next
  BY <1>1, <1>2, PathIs
<1>4. /\ n \in 1 .. BlockCount
      /\ \A k \in 0 .. n - 1 : p[k] \in Blocks
      /\ \A k \in n .. BlockCount + 1 : p[k] = NoBlock
      /\ Chain(a) = {p[k] : k \in 0 .. n - 1}
  <2>1. /\ Length(a) \in 1 .. BlockCount
        /\ \A k \in 0 .. Length(a) - 1 : Path(a)[k] \in Blocks
        /\ \A k \in Length(a) .. BlockCount + 1 : Path(a)[k] = NoBlock
        /\ Chain(a) = {Path(a)[k] : k \in 0 .. Length(a) - 1}
    BY RootPath
  <2> QED
    BY <1>1, <2>1
<1>5. a \in Chain(a) /\ Chain(a) \subseteq Blocks
  <2>1. 0 \in 0 .. n - 1
    BY <1>4
  <2> QED
    BY <1>3, <1>4, <2>1
<1>6. ASSUME NEW x \in Chain(a) PROVE mem[x].next \in Chain(a) \union {NoBlock}
  <2>1. PICK k \in 0 .. n - 1 : x = p[k]
    BY <1>4
  <2>2. k \in 0 .. BlockCount /\ p[k] \in Blocks
    BY <1>2, <1>4
  <2>3. mem[x].next = p[k + 1]
    BY <1>2, <1>3, <2>1, <2>2
  <2>4. k + 1 \in 0 .. n - 1 \/ k + 1 \in n .. BlockCount + 1
    BY <1>2, <1>4
  <2> QED
    BY <1>4, <2>3, <2>4
<1> QED
  BY <1>5, <1>6

(***************************************************************************)
(* A chain stays inside what holds its first block and where its blocks    *)
(* point.                                                                  *)
(***************************************************************************)
LEMMA ChainIn ==
  ASSUME MemOK, NEW S \in SUBSET Blocks, NEW a \in S,
         \A x \in S : mem[x].next \in S \union {NoBlock}
  PROVE  Chain(a) \subseteq S
<1>1. PICK p : p = Path(a)
  OBVIOUS
<1>2. BlockCount \in Nat /\ NoBlock \notin Blocks /\ a \in 0 .. BlockCount /\ a \in Blocks
  BY UBSAssumption DEF UBSAssumption, Blocks
<1>3. /\ p[0] = a
      /\ \A k \in 0 .. BlockCount : p[k + 1] = IF p[k] = NoBlock THEN NoBlock ELSE mem[p[k]].next
  BY <1>1, <1>2, PathIs
<1> DEFINE P == {k \in 0 .. BlockCount + 1 : p[k] \in S \union {NoBlock}}
<1>4. 0 \in P
  BY <1>2, <1>3
<1>5. ASSUME NEW k \in 0 .. BlockCount, k \in P PROVE k + 1 \in P
  <2>1. k + 1 \in 0 .. BlockCount + 1 /\ p[k] \in S \union {NoBlock}
    BY <1>2, <1>5
  <2>2. p[k + 1] \in S \union {NoBlock}
    BY <1>3, <2>1
  <2> QED
    BY <2>1, <2>2
<1>6. 0 .. (BlockCount + 1) \subseteq P
  <2> HIDE DEF P
  <2> QED
    BY <1>4, <1>5, UpTheChain
<1>7. \A k \in Links(a) : p[k] \in S
  BY <1>1, <1>6 DEF Links
<1> QED
  BY <1>1, <1>7 DEF Chain

(* No block points at a master.                                            *)
MasterIsRoot == \A a \in Masters : a \in Blocks /\ NotPointedAt(a)

LEMMA MastersAreRoots ==
  ASSUME Graph
  PROVE  MasterIsRoot
BY UBSAssumption DEF MasterIsRoot, Masters, Graph, PointersInside, NotPointedAt, UBSAssumption, Blocks

(* What is left to erase, by the kind of call.                             *)
LEMMA ToEraseIs ==
  /\ call.pc = "trim" => ToErase = Chain(call.erase)
  /\ call.pc = "delete" => ToErase = Chain(call.address)
  /\ call.pc = "format" => ToErase = call.address .. BlockCount - 1
  /\ call.pc \notin {"trim", "delete", "format"} => ToErase = {}
<1>1. call.pc = "trim" => ToErase = Chain(call.erase)
  BY DEF ToErase
<1>2. call.pc = "delete" => ToErase = Chain(call.address)
  BY DEF ToErase
<1>3. call.pc = "format" => ToErase = call.address .. BlockCount - 1
  BY DEF ToErase
<1>4. call.pc \notin {"trim", "delete", "format"} => ToErase = {}
  BY DEF ToErase
<1> QED
  BY <1>1, <1>2, <1>3, <1>4

(***************************************************************************)
(* What is reached goes on to be reached.                                  *)
(***************************************************************************)
ClosedUp ==
  call.pc # "format" =>
    /\ Reached \subseteq Blocks /\ FreeSet \subseteq Reached /\ Masters \subseteq Reached
    /\ call.pc = "trim" => call.erase \in Reached
    /\ call.pc = "delete" => call.address \in Reached
    /\ \A x \in Reached : mem[x].next \in Reached \union {NoBlock}

(* What is reached is closed under the pointers.                           *)
LEMMA ReachedIsClosed == IInv => ClosedUp
<1> SUFFICES ASSUME IInv, call.pc # "format"
             PROVE  /\ Reached \subseteq Blocks /\ FreeSet \subseteq Reached /\ Masters \subseteq Reached
                    /\ call.pc = "trim" => call.erase \in Reached
                    /\ call.pc = "delete" => call.address \in Reached
                    /\ \A x \in Reached : mem[x].next \in Reached \union {NoBlock}
  BY DEF ClosedUp
<1> DEFINE Roots == Masters \union (IF call.pc = "trim" THEN {call.erase} ELSE {})
                            \union (IF call.pc = "delete" THEN {call.address} ELSE {})
<1>1. MemOK /\ Graph /\ MasterIsRoot
  BY MastersAreRoots DEF IInv, Typed
<1>2. call.pc = "delete" => call.address \in Blocks
  BY DEF IInv, Typed, Calls, Idle
<1>3. \A r \in Roots : r \in Blocks /\ NotPointedAt(r)
  BY <1>1, <1>2 DEF MasterIsRoot, IInv, TrimInv, DeleteInv
<1>4. Reached = FreeSet \union UNION {Chain(r) : r \in Roots}
  <2>1. CASE call.pc = "trim"
    BY <2>1, ToEraseIs DEF Reached, Owned
  <2>2. CASE call.pc = "delete"
    BY <2>2, ToEraseIs DEF Reached, Owned
  <2>3. CASE call.pc # "trim" /\ call.pc # "delete"
    BY <2>3, ToEraseIs DEF Reached, Owned
  <2> QED
    BY <2>1, <2>2, <2>3
<1>5. \A r \in Roots : /\ r \in Chain(r) /\ Chain(r) \subseteq Blocks
                       /\ \A x \in Chain(r) : mem[x].next \in Chain(r) \union {NoBlock}
  BY <1>1, <1>3, RootClosed
<1>6. \A x \in FreeSet : x \in Blocks /\ mem[x].next = NoBlock
  BY <1>1 DEF FreeSet, Graph, FreeIsErased, Erased
<1>7. Roots \subseteq Reached
  BY <1>4, <1>5
<1>8. Reached \subseteq Blocks /\ FreeSet \subseteq Reached
      /\ \A x \in Reached : mem[x].next \in Reached \union {NoBlock}
  <2> HIDE DEF Roots
  <2> QED
    BY <1>4, <1>5, <1>6
<1> QED
  BY <1>7, <1>8

LEMMA ReachedAfterIsClosed == IInv' => ClosedUp'
BY ReachedIsClosed, PTL

(***************************************************************************)
(* What holds the free blocks and the first blocks of the chains, and      *)
(* where its blocks point, holds all that is reached.                      *)
(***************************************************************************)
LEMMA ReachedIn ==
  ASSUME IInv, call.pc # "format", NEW S \in SUBSET Blocks, FreeSet \subseteq S, Masters \subseteq S,
         call.pc = "trim" => call.erase \in S,
         call.pc = "delete" => call.address \in S,
         \A x \in S : mem[x].next \in S \union {NoBlock}
  PROVE  Reached \subseteq S
<1>1. \A r \in S : Chain(r) \subseteq S
  BY ChainIn DEF IInv, Typed
<1>2. UNION {Chain(a) : a \in Masters} \subseteq S
  BY <1>1
<1>3. CASE call.pc = "trim"
  BY <1>1, <1>2, <1>3, ToEraseIs DEF Reached, Owned
<1>4. CASE call.pc = "delete"
  BY <1>1, <1>2, <1>4, ToEraseIs DEF Reached, Owned
<1>5. CASE call.pc # "trim" /\ call.pc # "delete"
  BY <1>1, <1>2, <1>5, ToEraseIs DEF Reached, Owned
<1> QED
  BY <1>3, <1>4, <1>5

(***************************************************************************)
(* While all is erased every block is free or still to be erased.          *)
(***************************************************************************)
NothingLost == call.pc = "format" => Lost = {}

(* While the whole store is erased, all of it is reached.                  *)
LEMMA FormatLosesNothing == IInv => NothingLost
<1> SUFFICES ASSUME IInv, call.pc = "format", NEW x \in Blocks PROVE x \in FreeSet \union Owned
  BY DEF NothingLost, Lost
<1>1. call.address \in Blocks
  BY DEF IInv, Typed, Calls, Idle
<1>2. CASE x < call.address
  BY <1>2 DEF IInv, FormatInv, FreeSet, IsFree, Erased
<1>3. CASE ~(x < call.address)
  <2>1. x \in call.address .. BlockCount - 1
    BY <1>1, <1>3, UBSAssumption DEF UBSAssumption, Blocks
  <2>2. call.address .. BlockCount - 1 \subseteq Owned
    BY ToEraseIs DEF Owned
  <2> QED
    BY <2>1, <2>2
<1> QED
  BY <1>2, <1>3

LEMMA FormatGoesOnLosingNothing == IInv' => NothingLost'
BY FormatLosesNothing, PTL

(***************************************************************************)
(* The blocks stored lead from the file to the block behind them.          *)
(***************************************************************************)
LEMMA StoredLeadsTo ==
  ASSUME NEW file, NEW name, NEW k \in Nat, NEW a \in Blocks, NEW text,
         Stored(file, name, k, a, text), NEW S, file \in S,
         \A x \in S : x # a => mem[x].next \in S \union {NoBlock}
  PROVE  a \in S
<1>1. PICK w \in [0 .. k -> Blocks \union {NoBlock}] :
        /\ w[0] = file /\ w[k] = a
        /\ \A i \in 0 .. k - 1 : /\ w[i] \in Blocks /\ w[i] # a
                                 /\ mem[w[i]].next = w[i + 1]
  BY DEF Stored
<1>2. NoBlock \notin Blocks
  BY UBSAssumption DEF UBSAssumption, Blocks
<1> DEFINE P == {i \in 0 .. k : w[i] \in S}
<1>3. 0 \in P
  BY <1>1
<1>4. ASSUME NEW i \in 0 .. k - 1, i \in P PROVE i + 1 \in P
  <2>1. i + 1 \in 0 .. k /\ w[i] \in S /\ w[i] # a
    BY <1>1, <1>4
  <2>2. w[i + 1] \in S \union {NoBlock}
    BY <1>1, <2>1
  <2>3. w[i + 1] \in Blocks
    <3>1. i + 1 = k \/ i + 1 \in 0 .. k - 1
      OBVIOUS
    <3> QED
      BY <1>1, <3>1
  <2> QED
    BY <1>2, <2>1, <2>2, <2>3
<1>5. 0 .. k \subseteq P
  <2> HIDE DEF P
  <2> QED
    BY <1>3, <1>4, Upward
<1>6. k \in 0 .. k
  OBVIOUS
<1> QED
  BY <1>1, <1>5, <1>6

(***************************************************************************)
(* A step loses no block when what was the start of a chain is still       *)
(* reached, and the pointers lead to nothing else.                         *)
(***************************************************************************)
KeepsReached ==
  /\ FreeSet \subseteq Reached' /\ Masters \subseteq Reached'
  /\ call.pc = "trim" => call.erase \in Reached'
  /\ call.pc = "delete" => call.address \in Reached'
  /\ \A x \in Reached' : mem[x].next \in Reached' \union {NoBlock}

(* Such a step loses no block.                                             *)
LEMMA NoneLost ==
  ASSUME IInv, IInv', call.pc # "format", call'.pc # "format", KeepsReached
  PROVE  Lost' \subseteq Lost
<1>1. PICK S : S = Reached'
  OBVIOUS
<1>2. S \in SUBSET Blocks
  BY <1>1, ReachedAfterIsClosed DEF ClosedUp
<1>3. /\ FreeSet \subseteq S /\ Masters \subseteq S
      /\ call.pc = "trim" => call.erase \in S
      /\ call.pc = "delete" => call.address \in S
      /\ \A x \in S : mem[x].next \in S \union {NoBlock}
  BY <1>1 DEF KeepsReached
<1>4. Reached \subseteq S
  BY <1>2, <1>3, ReachedIn
<1>5. Lost = Blocks \ Reached /\ Lost' = Blocks \ Reached'
  BY DEF Lost, Reached
<1> QED
  BY <1>1, <1>4, <1>5

(* A round of uBSWrite.                                                    *)
LEMMA PutLosesNone ==
  ASSUME SInv, IInv', PutBlock
  PROVE  Lost' \subseteq Lost
<1>1. PICK k, a, old, new, text, size, next, rest, b : Round(k, a, old, new, text, size, next, rest, b)
  BY RoundIs DEF SInv
<1>2. /\ call.pc = "put" /\ call \in PutCalls
      /\ k = call.block /\ a = call.address /\ old = call.old /\ new = call.new
      /\ k \in Nat /\ a \in Blocks /\ new \in Nat \ {0} /\ old \in Nat
      /\ (k = 0 => a = call.file)
  BY <1>1 DEF Round, RoundStarts
<1>3. /\ (b.master <=> k = 0) /\ b.next = next
      /\ mem'[a] = b /\ \A x \in Blocks \ {a} : mem'[x] = mem[x]
      /\ FreeSet' = FreeSet \ {a} /\ MemOK /\ Graph
  BY <1>1 DEF Round, RoundWrites
<1>4. /\ k + 1 >= old => mem[a].next = NoBlock
      /\ k # new - 1 /\ k + 1 < old => next = mem[a].next
      /\ k = new - 1 /\ k < old => rest = mem[a].next
  BY <1>1, <1>2 DEF Round, RoundPoints
<1>5. \/ k # new - 1 /\ call'.pc = "put"
      \/ k = new - 1 /\ new < old /\ call'.pc = "trim" /\ call'.erase = rest
      \/ k = new - 1 /\ new >= old /\ call'.pc = "idle"
  <2>1. /\ k # new - 1
        /\ call' = [call EXCEPT !.address = next, !.block = k + 1,
                                !.data = SubSeq(text, size + 1, Len(text))]
        => call'.pc = "put"
    BY <1>2 DEF PutCalls
  <2>2. /\ k = new - 1 /\ new < old
        /\ call' = [call EXCEPT !.pc = "trim", !.block = k + 1, !.erase = rest]
        => call'.pc = "trim" /\ call'.erase = rest
    BY <1>2 DEF PutCalls
  <2>3. Return(call.name, "OK") => call'.pc = "idle"
    BY DEF Return, Idle
  <2> QED
    BY <1>1, <2>1, <2>2, <2>3 DEF Round, RoundGoesOn
<1>6. call.pc # "format" /\ call'.pc # "format"
  BY <1>2, <1>5
<1>7. PICK S : S = Reached'
  OBVIOUS
<1>8. /\ S \subseteq Blocks /\ FreeSet' \subseteq S /\ Masters' \subseteq S
      /\ call'.pc = "trim" => call'.erase \in S
      /\ \A x \in S : mem'[x].next \in S \union {NoBlock}
  BY <1>6, <1>7, ReachedAfterIsClosed DEF ClosedUp
<1>9. Masters \ {a} \subseteq S
  BY <1>3, <1>8 DEF Masters
<1>10. a \in S
  <2>1. CASE k = 0
    <3>1. a \in Masters'
      BY <1>2, <1>3, <2>1 DEF Masters
    <3> QED
      BY <1>8, <3>1
  <2>2. CASE k # 0
    <3>1. PICK file, name, head : file = call.file /\ name = call.name /\ Stored(file, name, k, a, head)
      BY <1>2 DEF SInv, WrittenInv
    <3>2. mem[file].master /\ file # a
      <4>1. k > 0 /\ 0 \in 0 .. k - 1
        BY <1>2, <2>2
      <4> QED
        BY <3>1, <4>1 DEF Stored
    <3>3. file \in S
      BY <1>2, <1>9, <3>1, <3>2 DEF Masters, PutCalls
    <3>4. \A x \in S : x # a => mem[x].next \in S \union {NoBlock}
      BY <1>3, <1>8
    <3> QED
      BY <1>2, <3>1, <3>3, <3>4, StoredLeadsTo
  <2> QED
    BY <2>1, <2>2
<1>11. mem[a].next \in S \union {NoBlock}
  <2>1. CASE k + 1 >= old
    BY <1>4, <2>1
  <2>2. CASE ~(k + 1 >= old) /\ k # new - 1
    <3>1. next = mem[a].next
      BY <1>2, <1>4, <2>2
    <3> QED
      BY <1>3, <1>8, <1>10, <3>1
  <2>3. CASE ~(k + 1 >= old) /\ k = new - 1
    <3>1. rest = mem[a].next /\ new < old
      BY <1>2, <1>4, <2>3
    <3>2. call'.pc = "trim" /\ call'.erase = rest
      BY <1>2, <1>5, <2>3, <3>1
    <3> QED
      BY <1>8, <3>1, <3>2
  <2> QED
    BY <2>1, <2>2, <2>3
<1>12. KeepsReached
  <2>1. FreeSet \subseteq S /\ Masters \subseteq S
    BY <1>3, <1>8, <1>9, <1>10
  <2>2. \A x \in S : mem[x].next \in S \union {NoBlock}
    BY <1>3, <1>8, <1>11
  <2> QED
    BY <1>2, <1>7, <2>1, <2>2 DEF KeepsReached
<1> QED
  BY <1>6, <1>12, NoneLost DEF SInv

(* A round of either loop that erases.                                     *)
LEMMA ErasingLosesNone ==
  ASSUME IInv, IInv', NEW a, NEW y, Erases(a, y), call.pc \in {"trim", "delete"},
         call.pc = "trim" => a = call.erase,
         call.pc = "delete" => a = call.address,
         call'.pc # "format",
         \/ y = NoBlock
         \/ call'.pc = "trim" /\ call'.erase = y
         \/ call'.pc = "delete" /\ call'.address = y
  PROVE  Lost' \subseteq Lost
<1>1. /\ a \in Blocks /\ y = mem[a].next /\ \A x \in Blocks \ {a} : mem'[x] = mem[x]
      /\ FreeSet' = FreeSet \union {a} /\ Masters' = Masters \ {a}
  BY DEF Erases
<1>2. PICK S : S = Reached'
  OBVIOUS
<1>3. /\ S \subseteq Blocks /\ FreeSet' \subseteq S /\ Masters' \subseteq S
      /\ call'.pc = "trim" => call'.erase \in S
      /\ call'.pc = "delete" => call'.address \in S
      /\ \A x \in S : mem'[x].next \in S \union {NoBlock}
  BY <1>2, ReachedAfterIsClosed DEF ClosedUp
<1>4. a \in S /\ FreeSet \subseteq S /\ Masters \subseteq S
  BY <1>1, <1>3
<1>5. y \in S \union {NoBlock}
  BY <1>3
<1>6. \A x \in S : mem[x].next \in S \union {NoBlock}
  BY <1>1, <1>3, <1>5
<1>7. KeepsReached
  BY <1>2, <1>4, <1>6 DEF KeepsReached
<1> QED
  BY <1>7, NoneLost

(* That of uBSWrite.                                                       *)
LEMMA TrimLosesNone ==
  ASSUME IInv, IInv', Trim
  PROVE  Lost' \subseteq Lost
<1>1. PICK a, y : TrimRound(a, y)
  BY TrimIs
<1>2. call.pc = "trim" /\ a = call.erase /\ Erases(a, y)
  BY <1>1 DEF TrimRound
<1>3. \/ call'.pc = "trim" /\ call'.erase = y
      \/ y = NoBlock /\ call'.pc = "idle"
  BY <1>1 DEF TrimRound, Return, Idle
<1> QED
  BY <1>2, <1>3, ErasingLosesNone

(* That of uBSDelete.                                                      *)
LEMMA EraseLosesNone ==
  ASSUME IInv, IInv', EraseBlock
  PROVE  Lost' \subseteq Lost
<1>1. PICK a, y : EraseRound(a, y)
  BY EraseIs
<1>2. call.pc = "delete" /\ a = call.address /\ Erases(a, y)
  BY <1>1 DEF EraseRound
<1>3. \/ call'.pc = "delete" /\ call'.address = y
      \/ y = NoBlock /\ call'.pc = "idle"
  BY <1>1 DEF EraseRound, Return, Idle
<1> QED
  BY <1>2, <1>3, ErasingLosesNone

(***************************************************************************)
(* The steps that change no pointer.                                       *)
(***************************************************************************)
LEMMA StillReached ==
  ASSUME IInv, IInv', call = Idle, call'.pc # "format", FreeSet' = FreeSet, Masters' = Masters,
         \A x \in Blocks : mem'[x].next = mem[x].next
  PROVE  Lost' \subseteq Lost
<1>1. call.pc # "format" /\ call.pc # "trim" /\ call.pc # "delete"
  BY DEF Idle
<1>2. /\ Reached' \subseteq Blocks /\ FreeSet' \subseteq Reached' /\ Masters' \subseteq Reached'
      /\ \A x \in Reached' : mem'[x].next \in Reached' \union {NoBlock}
  BY ReachedAfterIsClosed DEF ClosedUp
<1>3. KeepsReached
  BY <1>1, <1>2 DEF KeepsReached
<1> QED
  BY <1>1, <1>3, NoneLost

(***************************************************************************)
(* A new name changes nothing else.                                        *)
(***************************************************************************)
Renames(n, to, f) ==
  /\ f = Seek(n) /\ f \in Masters /\ f \in Blocks /\ mem[f].name = n
  /\ call = Idle /\ call' = Idle /\ result' = [name |-> n, is |-> "OK"]
  /\ \A x \in Blocks \ {f} : mem'[x] = mem[x]
  /\ mem'[f].name = to /\ mem'[f].master
  /\ mem'[f].next = mem[f].next /\ mem'[f].data = mem[f].data

(* uBSRename finds no script, or renames one.                              *)
LEMMA RenameIs ==
  ASSUME IInv, NEW n \in Names, NEW to \in Names, Rename(n, to)
  PROVE  \/ /\ call = Idle /\ call' = Idle /\ result' = [name |-> n, is |-> "NOK"] /\ mem' = mem
         \/ \E f : Renames(n, to, f)
<1>1. CASE Seek(n) = NoBlock
  BY <1>1 DEF Rename, Return
<1>2. CASE Seek(n) # NoBlock
  <2>1. PICK f, b : f = Seek(n) /\ b = [mem[f] EXCEPT !.name = to]
    OBVIOUS
  <2>2. f \in Masters /\ f \in Blocks /\ mem[f].name = n /\ mem[f].master
    BY <1>2, <2>1, SeekIs DEF Masters
  <2>3. mem[f] \in BlockState /\ f \in 0 .. BlockCount
    BY <2>2, UBSAssumption DEF IInv, Typed, MemOK, UBSAssumption, Blocks
  <2>4. b.name = to /\ b.next = mem[f].next /\ b.master = mem[f].master /\ b.data = mem[f].data
    BY <2>1, <2>3 DEF BlockState
  <2>5. mem' = [mem EXCEPT ![f] = b]
    BY <1>2, <2>1 DEF Rename
  <2>6. mem'[f] = b /\ \A x \in Blocks \ {f} : mem'[x] = mem[x]
    BY <2>3, <2>5, UBSAssumption DEF IInv, Typed, MemOK, UBSAssumption, Blocks
  <2>7. call = Idle /\ call' = Idle /\ result' = [name |-> n, is |-> "OK"]
    BY <1>2 DEF Rename, Return
  <2> QED
    BY <2>1, <2>2, <2>4, <2>6, <2>7 DEF Renames
<1> QED
  BY <1>1, <1>2

(* uBSFormat ends with every block erased.                                 *)
LEMMA FormatEnds ==
  ASSUME IInv, FormatBlock
  PROVE  call'.pc = "format" \/ (call' = Idle /\ \A x \in Blocks : mem'[x] = Erased)
<1>1. PICK a : a = call.address
  OBVIOUS
<1>2. call.pc = "format" /\ call \in [pc : {"format"}, address : Blocks]
  BY DEF FormatBlock, IInv, Typed, Calls, Idle
<1>3. CASE a + 1 < BlockCount
  BY <1>1, <1>2, <1>3, UBSAssumption DEF FormatBlock, UBSAssumption, Blocks
<1>4. CASE ~(a + 1 < BlockCount)
  <2>1. a \in Blocks /\ a + 1 = BlockCount /\ mem' = [mem EXCEPT ![a] = Erased] /\ call' = Idle
    BY <1>1, <1>2, <1>4, UBSAssumption DEF FormatBlock, UBSAssumption, Blocks
  <2>2. ASSUME NEW x \in Blocks PROVE mem'[x] = Erased
    <3>1. x = a \/ x < a
      BY <2>1, UBSAssumption DEF UBSAssumption, Blocks
    <3>2. x < a => mem[x] = Erased
      BY <1>1, <1>2 DEF IInv, FormatInv
    <3>3. x \in 0 .. BlockCount
      BY UBSAssumption DEF UBSAssumption, Blocks
    <3> QED
      BY <2>1, <3>1, <3>2, <3>3 DEF IInv, Typed, MemOK
  <2> QED
    BY <2>1, <2>2
<1> QED
  BY <1>3, <1>4

(* A round of uBSFormat.                                                   *)
LEMMA FormatBlockLosesNone ==
  ASSUME IInv, IInv', FormatBlock
  PROVE  Lost' = {}
<1>1. CASE call'.pc = "format"
  BY <1>1, FormatGoesOnLosingNothing DEF NothingLost
<1>2. CASE \A x \in Blocks : mem'[x] = Erased
  <2>1. FreeSet' = Blocks
    BY <1>2 DEF FreeSet, IsFree, Erased
  <2> QED
    BY <2>1 DEF Lost
<1> QED
  BY <1>1, <1>2, FormatEnds

(***************************************************************************)
(* Only a reset loses blocks: each block that a step takes from a script   *)
(* is free or still to be erased by the call (uBSWrite, uBSEraseBlocks).   *)
(***************************************************************************)
THEOREM BlocksAreKept == Careful => (Spec => OnlyResetsLose)
<1> SUFFICES ASSUME Careful PROVE Spec => OnlyResetsLose
  OBVIOUS
<1>1. SInv /\ SInv' /\ [Next]_vars => [Lost' \subseteq Lost \/ Reset]_vars
  <2> SUFFICES ASSUME SInv, SInv', Next PROVE Lost' \subseteq Lost \/ Reset
    BY DEF vars
  <2>1. IInv /\ IInv'
    BY DEF SInv
  <2>2. ASSUME NEW n \in Names, NEW t \in Texts, NEW s \in Sizes, Write(n, Text(t, s)) PROVE Lost' \subseteq Lost
    <3>1. call = Idle /\ mem' = mem /\ call'.pc # "format"
      BY <2>2 DEF Write, Return, Idle
    <3>2. FreeSet' = FreeSet /\ Masters' = Masters
      BY <3>1 DEF FreeSet, Masters
    <3> QED
      BY <2>1, <3>1, <3>2, StillReached
  <2>3. ASSUME NEW n \in Names, Delete(n) PROVE Lost' \subseteq Lost
    <3>1. call = Idle /\ mem' = mem /\ call'.pc # "format"
      BY <2>3 DEF Delete, Return, Idle
    <3>2. FreeSet' = FreeSet /\ Masters' = Masters
      BY <3>1 DEF FreeSet, Masters
    <3> QED
      BY <2>1, <3>1, <3>2, StillReached
  <2>4. ASSUME NEW n \in Names, NEW to \in Names, Rename(n, to) PROVE Lost' \subseteq Lost
    <3>1. call = Idle /\ call'.pc # "format"
      BY <2>4 DEF Rename, Return, Idle
    <3>2. \A x \in Blocks : /\ mem'[x].next = mem[x].next /\ mem'[x].data = mem[x].data
                            /\ mem'[x].master <=> mem[x].master
      <4>1. CASE mem' = mem
        BY <4>1
      <4>2. CASE \E f : Renames(n, to, f)
        BY <4>2 DEF Renames, Masters
      <4> QED
        BY <2>1, <2>4, <4>1, <4>2, RenameIs
    <3>3. FreeSet' = FreeSet /\ Masters' = Masters
      BY <3>2 DEF FreeSet, Masters, IsFree
    <3> QED
      BY <2>1, <3>1, <3>2, <3>3, StillReached
  <2>5. ASSUME Format PROVE Lost' \subseteq Lost
    <3>1. call'.pc = "format"
      BY <2>5 DEF Format
    <3> QED
      BY <2>1, <3>1, FormatGoesOnLosingNothing DEF NothingLost
  <2>6. ASSUME FormatBlock PROVE Lost' \subseteq Lost
    BY <2>1, <2>6, FormatBlockLosesNone
  <2> QED
    BY <2>1, <2>2, <2>3, <2>4, <2>5, <2>6, PutLosesNone, TrimLosesNone, EraseLosesNone DEF Next
<1> QED
  BY <1>1, StoredInvariant, PTL DEF Spec, OnlyResetsLose

----------------------------------------------------------------------------
(* Reading back what is stored.                                            *)

(***************************************************************************)
(* The path from the file is that of the blocks stored.                    *)
(***************************************************************************)
AlongPath(p, w, n) ==
  /\ n \in 1 .. BlockCount
  /\ \A k \in 0 .. n : p[k] = w[k]
  /\ \A k \in n .. BlockCount + 1 : p[k] = NoBlock

(* It is, where the blocks stored end the chain.                           *)
LEMMA StoredPath ==
  ASSUME MemOK, Graph, NEW file \in Blocks, NotPointedAt(file), NEW n \in Nat \ {0},
         NEW w \in [0 .. n -> Blocks \union {NoBlock}], w[0] = file, w[n] = NoBlock,
         \A i \in 0 .. n - 1 : w[i] \in Blocks /\ mem[w[i]].next = w[i + 1],
         NEW p, p = Path(file)
  PROVE  AlongPath(p, w, n)
<1>1. BlockCount \in Nat /\ NoBlock \notin Blocks /\ file \in 0 .. BlockCount
  BY UBSAssumption DEF UBSAssumption, Blocks
<1>2. /\ p[0] = file
      /\ \A k \in 0 .. BlockCount : p[k + 1] = IF p[k] = NoBlock THEN NoBlock ELSE mem[p[k]].next
  BY <1>1, PathIs
<1>3. PICK l \in 1 .. BlockCount : \A k \in l .. BlockCount + 1 : p[k] = NoBlock
  <2>1. Length(file) \in 1 .. BlockCount /\ \A k \in Length(file) .. BlockCount + 1 : Path(file)[k] = NoBlock
    BY RootPath
  <2> QED
    BY <2>1
<1> DEFINE P == {k \in 0 .. BlockCount + 1 : k <= n => p[k] = w[k]}
<1>4. 0 \in P
  BY <1>1, <1>2
<1>5. ASSUME NEW k \in 0 .. BlockCount, k \in P PROVE k + 1 \in P
  <2> SUFFICES ASSUME k + 1 <= n PROVE p[k + 1] = w[k + 1]
    BY <1>1
  <2>1. k \in 0 .. n - 1 /\ k <= n
    BY <1>1
  <2>2. p[k] = w[k] /\ w[k] \in Blocks /\ mem[w[k]].next = w[k + 1]
    BY <1>5, <2>1
  <2> QED
    BY <1>1, <1>2, <2>2
<1>6. 0 .. (BlockCount + 1) \subseteq P
  <2> HIDE DEF P
  <2> QED
    BY <1>4, <1>5, UpTheChain
<1>7. n <= l
  <2> SUFFICES ASSUME n > l PROVE FALSE
    BY <1>1
  <2>1. l \in 0 .. n - 1 /\ l <= n /\ l \in 0 .. BlockCount + 1 /\ l \in l .. BlockCount + 1
    BY <1>1
  <2>2. p[l] = w[l] /\ w[l] \in Blocks /\ p[l] = NoBlock
    BY <1>3, <1>6, <2>1
  <2> QED
    BY <1>1, <2>2
<1>8. n \in 1 .. BlockCount
  BY <1>1, <1>7
<1>9. \A k \in 0 .. n : p[k] = w[k]
  <2> SUFFICES ASSUME NEW k \in 0 .. n PROVE p[k] = w[k]
    OBVIOUS
  <2>1. k \in 0 .. BlockCount + 1 /\ k <= n
    BY <1>1, <1>8
  <2> QED
    BY <1>6, <2>1
<1> DEFINE Q == {k \in 0 .. BlockCount + 1 : k >= n => p[k] = NoBlock}
<1>10. 0 .. (BlockCount + 1) \subseteq Q
  <2>1. 0 \in Q
    BY <1>1
  <2>2. ASSUME NEW k \in 0 .. BlockCount, k \in Q PROVE k + 1 \in Q
    <3> SUFFICES ASSUME k + 1 >= n PROVE p[k + 1] = NoBlock
      BY <1>1
    <3>1. k >= n \/ k + 1 = n
      OBVIOUS
    <3>2. n \in 0 .. n
      OBVIOUS
    <3>3. k >= n => p[k] = NoBlock
      BY <2>2
    <3> QED
      BY <1>2, <1>9, <3>1, <3>2, <3>3
  <2> HIDE DEF Q
  <2> QED
    BY <2>1, <2>2, UpTheChain
<1>11. \A k \in n .. BlockCount + 1 : p[k] = NoBlock
  <2> SUFFICES ASSUME NEW k \in n .. BlockCount + 1 PROVE p[k] = NoBlock
    OBVIOUS
  <2>1. k \in 0 .. BlockCount + 1 /\ k >= n
    BY <1>1
  <2> QED
    BY <1>10, <2>1
<1> QED
  BY <1>8, <1>9, <1>11 DEF AlongPath

(***************************************************************************)
(* uBSRead puts the text together again.                                   *)
(***************************************************************************)
LEMMA StoredContent ==
  ASSUME MemOK, Graph, NEW file \in Blocks, NotPointedAt(file), NEW n \in Nat \ {0}, NEW name, NEW text,
         Stored(file, name, n, NoBlock, text)
  PROVE  Content(file) = text
<1>1. PICK w \in [0 .. n -> Blocks \union {NoBlock}], c \in [0 .. n -> Seq(Units)] :
        /\ w[0] = file /\ w[n] = NoBlock /\ c[0] = <<>> /\ c[n] = text
        /\ \A i \in 0 .. n - 1 : /\ w[i] \in Blocks /\ w[i] # NoBlock
                                 /\ mem[w[i]].next = w[i + 1]
                                 /\ c[i + 1] = c[i] \o mem[w[i]].data
        /\ n > 0 => mem[file].master /\ mem[file].name = name
  BY Zenon DEF Stored
<1>2. PICK p : p = Path(file)
  OBVIOUS
<1>3. BlockCount \in Nat /\ NoBlock \notin Blocks /\ file \in 0 .. BlockCount
  BY UBSAssumption DEF UBSAssumption, Blocks
<1>4. /\ n \in 1 .. BlockCount
      /\ \A k \in 0 .. n : p[k] = w[k]
      /\ \A k \in n .. BlockCount + 1 : p[k] = NoBlock
  <2>1. \A i \in 0 .. n - 1 : w[i] \in Blocks /\ mem[w[i]].next = w[i + 1]
    BY <1>1
  <2>2. AlongPath(p, w, n)
    BY <1>1, <1>2, <2>1, StoredPath
  <2> QED
    BY <2>2 DEF AlongPath
<1>5. p \in [0 .. BlockCount + 1 -> Pointers]
  BY <1>2, <1>3, PathIs
<1>6. PICK pieces : pieces = [k \in 0 .. BlockCount + 1 |-> IF p[k] = NoBlock THEN <<>> ELSE mem[p[k]].data]
  OBVIOUS
<1>7. pieces \in [0 .. BlockCount + 1 -> Seq(Units)]
  <2>1. \A k \in 0 .. BlockCount + 1 : p[k] = NoBlock \/ mem[p[k]].data \in Seq(Units)
    BY <1>5 DEF MemOK, BlockState, Pointers
  <2>2. <<>> \in Seq(Units)
    BY EmptySeq
  <2> QED
    BY <1>6, <2>1, <2>2
<1>8. Content(file) = Joined(pieces)
  BY <1>2, <1>6 DEF Content
<1>9. PICK d : JoinsTo(d, pieces)
  BY <1>7, JoinedIs
<1>10. /\ d[0] = <<>> /\ \A k \in 0 .. BlockCount + 1 : d[k + 1] = d[k] \o pieces[k]
       /\ Joined(pieces) = d[BlockCount + 2]
  BY <1>9 DEF JoinsTo
<1>11. text \in Seq(Units)
  BY <1>1
<1> DEFINE P == {k \in 0 .. BlockCount + 2 : d[k] = IF k <= n THEN c[k] ELSE text}
<1>12. 0 \in P
  BY <1>1, <1>3, <1>10
<1>13. ASSUME NEW k \in 0 .. BlockCount + 1, k \in P PROVE k + 1 \in P
  <2>5. k + 1 \in 0 .. BlockCount + 2
    BY <1>3
  <2>1. k + 1 \in 0 .. BlockCount + 2 /\ d[k + 1] = d[k] \o pieces[k]
    BY <1>10, <2>5
  <2>2. d[k] = IF k <= n THEN c[k] ELSE text
    BY <1>13
  <2>3. CASE k < n
    <3>1. k \in 0 .. n - 1 /\ k \in 0 .. n /\ k <= n /\ k + 1 <= n
      BY <2>3
    <3>2. p[k] = w[k] /\ w[k] \in Blocks /\ c[k + 1] = c[k] \o mem[w[k]].data
      BY <1>1, <1>4, <3>1
    <3>3. pieces[k] = mem[w[k]].data /\ d[k] = c[k]
      BY <1>3, <1>6, <2>2, <3>1, <3>2
    <3>4. d[k + 1] = c[k + 1]
      BY <2>1, <3>2, <3>3
    <3> QED
      BY <2>1, <3>1, <3>4
  <2>4. CASE ~(k < n)
    <3>1. k \in n .. BlockCount + 1 /\ ~(k + 1 <= n) /\ (k <= n => k = n)
      BY <1>3, <2>4
    <3>2. pieces[k] = <<>> /\ d[k] = text
      BY <1>1, <1>4, <1>6, <2>2, <3>1
    <3>3. d[k + 1] = text
      BY <1>11, <2>1, <3>2, ConcatEmptySeq
    <3> QED
      BY <2>1, <3>1, <3>3
  <2> QED
    BY <2>3, <2>4
<1>14. 0 .. (BlockCount + 2) \subseteq P
  <2>1. PICK m \in Nat : m = BlockCount + 2
    BY <1>3
  <2>2. m - 1 = BlockCount + 1
    BY <1>3, <2>1
  <2> HIDE DEF P
  <2>3. \A k \in 0 .. m - 1 : k \in P => k + 1 \in P
    BY <1>13, <2>2
  <2>4. 0 .. m \subseteq P
    BY <1>12, <2>1, <2>3, Upward
  <2> QED
    BY <2>1, <2>4
<1>15. BlockCount + 2 \in 0 .. BlockCount + 2 /\ ~(BlockCount + 2 <= n)
  BY <1>3, <1>4
<1>16. d[BlockCount + 2] = text
  BY <1>14, <1>15
<1> QED
  BY <1>8, <1>10, <1>16

(***************************************************************************)
(* What is stored completely, in the first file of its name, is read.      *)
(***************************************************************************)
StoredIsRead ==
  \A file, name, n, text :
    /\ file \in Blocks /\ n \in Nat \ {0} /\ Stored(file, name, n, NoBlock, text)
    /\ \A b \in Masters : mem[b].name = name => file <= b
    => Reads(name, text)

(* uBSRead finds the text that is stored.                                  *)
LEMMA ReadBack == IInv => StoredIsRead
<1> SUFFICES ASSUME IInv, NEW file \in Blocks, NEW name, NEW n \in Nat \ {0}, NEW text,
                    Stored(file, name, n, NoBlock, text),
                    \A b \in Masters : mem[b].name = name => file <= b
             PROVE  Reads(name, text)
  BY DEF StoredIsRead
<1>1. MemOK /\ Graph /\ MasterIsRoot /\ NoBlock \notin Blocks
  BY MastersAreRoots, UBSAssumption DEF IInv, Typed, UBSAssumption, Blocks
<1>2. mem[file].master /\ mem[file].name = name
  BY DEF Stored
<1>3. file \in Masters /\ NotPointedAt(file)
  BY <1>1, <1>2 DEF Masters, MasterIsRoot
<1>4. Seek(name) = file
  <2>1. Named(name) # {} /\ Named(name) \subseteq Blocks /\ file \in Named(name)
    BY <1>2, <1>3 DEF Named, Masters
  <2>2. PICK f : f = Lowest(Named(name)) /\ f \in Named(name) /\ f <= file
    BY <2>1, LowestIs
  <2>3. file <= f /\ f \in Blocks
    BY <2>1, <2>2 DEF Named
  <2>4. f = file
    BY <2>2, <2>3, UBSAssumption DEF UBSAssumption, Blocks
  <2> QED
    BY <2>1, <2>2, <2>4 DEF Seek
<1>5. Ends(file) /\ Content(file) = text
  BY <1>1, <1>3, RootPath, StoredContent
<1> QED
  BY <1>1, <1>4, <1>5 DEF Reads

LEMMA ReadBackAfter == IInv' => StoredIsRead'
BY ReadBack, PTL

(***************************************************************************)
(* When uBSWrite returns UBS_RSLT_OK, uBSRead finds the text just saved.   *)
(***************************************************************************)
THEOREM SavedIsRead == Careful => (Spec => OkMeansStored)
<1> SUFFICES ASSUME Careful PROVE Spec => OkMeansStored
  OBVIOUS
<1>1. SInv /\ SInv' /\ [Next]_vars =>
        [ call.pc \in {"put", "trim"} /\ call'.pc = "idle" /\ ~Reset =>
            \E n \in {call.name}, text \in {call.want} : Reads(n, text)' ]_vars
  <2> SUFFICES ASSUME SInv, SInv', Next, call.pc \in {"put", "trim"}, call'.pc = "idle", ~Reset
               PROVE  \E n \in {call.name}, text \in {call.want} : Reads(n, text)'
    BY DEF vars
  <2>1. IInv' /\ StoredIsRead'
    BY ReadBackAfter DEF SInv
  <2>2. call # Idle
    BY DEF Idle
  <2>3. PutBlock \/ Trim
    BY <2>2 DEF Next, Write, Delete, EraseBlock, Rename, Format, FormatBlock
  <2>4. CASE PutBlock
    <3>1. PICK k, new, next, tail, file, name, want, all : PutStored(k, new, next, tail, file, name, want, all)
      BY <2>4, PutStores
    <3>2. k = new - 1
      BY <3>1 DEF PutStored
    <3>3. /\ file = call.file /\ name = call.name /\ want = call.want
          /\ file \in Blocks /\ new \in Nat \ {0} /\ Stored(file, name, new, NoBlock, want)'
          /\ \A x \in Masters' : mem'[x].name = name => file <= x
      BY <3>1, <3>2 DEF PutStored
    <3>4. Reads(name, want)'
      BY <2>1, <3>3 DEF StoredIsRead, Blocks
    <3> QED
      BY <3>3, <3>4
  <2>5. CASE Trim
    <3>1. PICK a, y : TrimRound(a, y)
      BY <2>5, TrimIs DEF SInv
    <3>2. PICK file, name, new, want : file = call.file /\ name = call.name /\ new = call.new /\ want = call.want
      OBVIOUS
    <3>3. /\ file \in Blocks /\ new \in Nat \ {0} /\ a \in Blocks /\ MemOK
          /\ mem' = [mem EXCEPT ![a] = Erased] /\ NotPointedAt(a) /\ ~mem[a].master
          /\ Masters' = Masters \ {a} /\ \A x \in Blocks \ {a} : mem'[x] = mem[x]
      BY <3>1, <3>2 DEF TrimRound, Erases
    <3>4. Stored(file, name, new, NoBlock, want)
      BY <3>1, <3>2 DEF TrimRound, SInv, WrittenInv
    <3>5. Stored(file, name, new, NoBlock, want)'
      BY <3>3, <3>4, StoredKept
    <3>6. \A x \in Masters' : mem'[x].name = name => file <= x
      BY <3>1, <3>2, <3>3 DEF SInv, NamedInv, TrimRound, Masters
    <3>7. Reads(name, want)'
      BY <2>1, <3>3, <3>5, <3>6 DEF StoredIsRead, Blocks
    <3> QED
      BY <3>2, <3>7
  <2> QED
    BY <2>3, <2>4, <2>5
<1> QED
  BY <1>1, StoredInvariant, PTL DEF Spec, OkMeansStored

----------------------------------------------------------------------------
(* The scripts that a write leaves alone.                                  *)

(* Paths are what their definition says.                                   *)
PathGiven ==
  \A a \in 0 .. BlockCount :
    /\ Path(a) \in [0 .. BlockCount + 1 -> Pointers]
    /\ Path(a)[0] = a
    /\ \A k \in 0 .. BlockCount :
         Path(a)[k + 1] = IF Path(a)[k] = NoBlock THEN NoBlock ELSE mem[Path(a)[k]].next

LEMMA PathsAre == MemOK => PathGiven
BY PathIs DEF PathGiven

LEMMA PathsAfterAre == MemOK' => PathGiven'
BY PathsAre, PTL

(* Every master block is a script.                                         *)
EntryGiven == \A a \in Masters : Entry(a) # NoEntry /\ Entry(a).name = mem[a].name

LEMMA EntriesAre == MemOK => EntryGiven
BY EntryOfMaster DEF EntryGiven

LEMMA EntriesAfterAre == MemOK' => EntryGiven'
BY EntriesAre, PTL

(***************************************************************************)
(* A script whose blocks keep their pointers and their texts stays.        *)
(***************************************************************************)
LEMMA SameContent ==
  ASSUME MemOK, MemOK', NEW a \in Blocks,
         \A x \in Chain(a) : mem'[x].next = mem[x].next /\ mem'[x].data = mem[x].data
  PROVE  Content(a)' = Content(a)
<1>1. PICK p, q : p = Path(a) /\ q = Path(a)'
  OBVIOUS
<1>2. BlockCount \in Nat /\ a \in 0 .. BlockCount
  BY UBSAssumption DEF UBSAssumption, Blocks
<1>3. /\ p \in [0 .. BlockCount + 1 -> Pointers] /\ p[0] = a
      /\ \A k \in 0 .. BlockCount : p[k + 1] = IF p[k] = NoBlock THEN NoBlock ELSE mem[p[k]].next
  BY <1>1, <1>2, PathsAre DEF PathGiven
<1>4. /\ q \in [0 .. BlockCount + 1 -> Pointers] /\ q[0] = a
      /\ \A k \in 0 .. BlockCount : q[k + 1] = IF q[k] = NoBlock THEN NoBlock ELSE mem'[q[k]].next
  BY <1>1, <1>2, PathsAfterAre DEF PathGiven
<1>5. \A k \in 0 .. BlockCount + 1 : p[k] # NoBlock => p[k] \in Chain(a)
  BY <1>1 DEF Chain, Links
<1> DEFINE P == {k \in 0 .. BlockCount + 1 : q[k] = p[k]}
<1>6. 0 \in P
  BY <1>2, <1>3, <1>4
<1>7. ASSUME NEW k \in 0 .. BlockCount, k \in P PROVE k + 1 \in P
  <2>1. k \in 0 .. BlockCount + 1 /\ k + 1 \in 0 .. BlockCount + 1 /\ q[k] = p[k]
    BY <1>2, <1>7
  <2>2. p[k] # NoBlock => mem'[p[k]].next = mem[p[k]].next
    BY <1>5, <2>1
  <2>3. q[k + 1] = p[k + 1]
    BY <1>3, <1>4, <2>1, <2>2
  <2> QED
    BY <2>1, <2>3
<1>8. 0 .. (BlockCount + 1) \subseteq P
  <2> HIDE DEF P
  <2> QED
    BY <1>6, <1>7, UpTheChain
<1>9. q = p
  <2>1. \A k \in 0 .. BlockCount + 1 : q[k] = p[k]
    BY <1>8
  <2>2. PICK S, T : S = 0 .. BlockCount + 1 /\ T = Pointers
    OBVIOUS
  <2>3. p \in [S -> T] /\ q \in [S -> T] /\ \A k \in S : q[k] = p[k]
    BY <1>3, <1>4, <2>1, <2>2
  <2> QED
    BY <2>3
<1>10. PICK c, d : /\ c = [k \in 0 .. BlockCount + 1 |-> IF p[k] = NoBlock THEN <<>> ELSE mem[p[k]].data]
                   /\ d = [k \in 0 .. BlockCount + 1 |-> IF q[k] = NoBlock THEN <<>> ELSE mem'[q[k]].data]
  OBVIOUS
<1>11. c = d
  <2>1. \A k \in 0 .. BlockCount + 1 : c[k] = d[k]
    BY <1>5, <1>9, <1>10
  <2> QED
    BY <1>10, <2>1
<1>12. Content(a) = Joined(c) /\ Content(a)' = Joined(d)
  BY <1>1, <1>10 DEF Content, Joined
<1> QED
  BY <1>11, <1>12

(* The script is the same.                                                 *)
LEMMA SameEntry ==
  ASSUME MemOK, MemOK', NEW g \in Blocks,
         \A x \in Chain(g) : mem'[x].next = mem[x].next /\ mem'[x].data = mem[x].data,
         mem'[g].master <=> mem[g].master, mem'[g].name = mem[g].name
  PROVE  Entry(g)' = Entry(g)
BY SameContent DEF Entry

(* With the same memory all scripts are the same.                          *)
LEMMA EntriesStay ==
  ASSUME MemOK, mem' = mem
  PROVE  \A g \in Blocks : Entry(g)' = Entry(g)
<1> SUFFICES ASSUME NEW g \in Blocks PROVE Entry(g)' = Entry(g)
  OBVIOUS
<1>1. MemOK'
  BY DEF MemOK
<1> QED
  BY <1>1, SameEntry

(***************************************************************************)
(* Writing a block of the chain from r changes no other script.            *)
(***************************************************************************)
LEMMA OthersStay ==
  ASSUME MemOK, Graph, MemOK', NEW r \in Blocks, NotPointedAt(r), NEW x \in Chain(r),
         \A y \in Blocks \ {x} : mem'[y] = mem[y],
         NEW g \in Blocks \ {r}, g = x => ~mem'[g].master
  PROVE  Entry(g)' = Entry(g)
<1>1. MasterIsRoot
  BY MastersAreRoots
<1>2. CASE g \in Masters
  <2>1. NotPointedAt(g) /\ g # r
    BY <1>1, <1>2 DEF MasterIsRoot
  <2>2. Chain(g) \cap Chain(r) = {}
    BY <2>1, RootsApart
  <2>3. g \in Chain(g) /\ Chain(g) \subseteq Blocks
    BY <2>1, RootClosed
  <2>4. \A y \in Chain(g) : mem'[y] = mem[y]
    BY <2>2, <2>3
  <2> QED
    BY <2>3, <2>4, SameEntry
<1>3. CASE g \notin Masters
  <2>1. ~mem[g].master /\ ~mem'[g].master
    BY <1>3 DEF Masters
  <2> QED
    BY <2>1 DEF Entry
<1> QED
  BY <1>2, <1>3

----------------------------------------------------------------------------
(* Refinement.                                                             *)

VisibleGiven ==
  \A a \in Blocks :
    /\ call.pc \in {"put", "trim", "delete"} =>
         Visible(a) = IF call.file = a THEN call.was ELSE Entry(a)
    /\ call.pc = "format" => Visible(a) = NoEntry
    /\ call.pc = "idle" => Visible(a) = Entry(a)

(* What callers see, by the kind of call.                                  *)
LEMMA VisibleIs == VisibleGiven
<1> SUFFICES ASSUME NEW a \in Blocks
             PROVE  /\ call.pc \in {"put", "trim", "delete"} =>
                         Visible(a) = IF call.file = a THEN call.was ELSE Entry(a)
                    /\ call.pc = "format" => Visible(a) = NoEntry
                    /\ call.pc = "idle" => Visible(a) = Entry(a)
  BY DEF VisibleGiven
<1>1. ASSUME call.pc \in {"put", "trim", "delete"}
      PROVE  Visible(a) = IF call.file = a THEN call.was ELSE Entry(a)
  BY <1>1 DEF Visible
<1>2. call.pc = "format" => Visible(a) = NoEntry
  BY DEF Visible
<1>3. call.pc = "idle" => Visible(a) = Entry(a)
  BY DEF Visible
<1> QED
  BY <1>1, <1>2, <1>3

LEMMA VisibleAfterIs == VisibleGiven'
BY VisibleIs, PTL

(* Callers see at most the script at f change.                             *)
OnlyVisible(f) == \A g \in Blocks \ {f} : Visible(g)' = Visible(g)

(* Callers see nothing change.                                             *)
LEMMA SameStep ==
  ASSUME \A g \in Blocks : Visible(g)' = Visible(g), result' = result
  PROVE  UNCHANGED Store!vars
BY DEF Store!vars, Blocks

(* Callers see a script saved.                                             *)
LEMMA SaveStep ==
  ASSUME NEW f \in Blocks, OnlyVisible(f), result'.is = "OK",
         Visible(f)' # NoEntry, Visible(f)'.name = result'.name,
         Visible(f) # NoEntry => Visible(f).name = result'.name,
         Visible(f) = NoEntry => \A g \in Blocks : Visible(g) # NoEntry => Visible(g).name # result'.name
  PROVE  Store!Next
<1>1. Store!Only(f)
  BY DEF Store!Only, OnlyVisible
<1>2. Store!Save(f)
  BY <1>1 DEF Store!Save, Store!Used
<1> QED
  BY <1>2 DEF Store!Next

(* Callers see a script removed.                                           *)
LEMMA RemoveStep ==
  ASSUME NEW f \in Blocks, OnlyVisible(f), result'.is = "OK",
         Visible(f) # NoEntry, Visible(f).name = result'.name, Visible(f)' = NoEntry
  PROVE  Store!Next
<1>1. Store!Only(f)
  BY DEF Store!Only, OnlyVisible
<1>2. Store!Remove(f)
  BY <1>1 DEF Store!Remove, Store!Used
<1> QED
  BY <1>2 DEF Store!Next

(* Callers see a script renamed.                                           *)
LEMMA RenameStep ==
  ASSUME NEW f \in Blocks, OnlyVisible(f), result'.is = "OK",
         Visible(f) # NoEntry, Visible(f).name = result'.name,
         Visible(f)' # NoEntry, Visible(f)'.name \in Names, Visible(f)'.text = Visible(f).text
  PROVE  Store!Next
<1>1. Store!Only(f)
  BY DEF Store!Only, OnlyVisible
<1>2. Store!Rename(f)
  BY <1>1 DEF Store!Rename, Store!Used
<1> QED
  BY <1>2 DEF Store!Next

(* Callers see nothing change, and a refusal.                              *)
LEMMA RefuseStep ==
  ASSUME \A g \in Blocks : Visible(g)' = Visible(g), result'.is \in {"TOO_LARGE", "NOT_FOUND", "NOK"}
  PROVE  Store!Next
BY DEF Store!Next, Store!Refuse

(* Callers see an empty store.                                             *)
LEMMA ClearStep ==
  ASSUME \A g \in Blocks : Visible(g)' = NoEntry, result' = result
  PROVE  Store!Next
BY DEF Store!Next, Store!Clear

(* Callers see a reset spoil one script.                                   *)
LEMMA CrashStep ==
  ASSUME NEW f \in Blocks, OnlyVisible(f), result'.is = "none"
  PROVE  Store!Next
<1>1. Store!Only(f)
  BY DEF Store!Only, OnlyVisible
<1>2. Store!Crash(f)
  BY <1>1 DEF Store!Crash
<1> QED
  BY <1>2 DEF Store!Next

(***************************************************************************)
(* The shapes of the steps of calls.                                       *)
(***************************************************************************)
Stepping == Store!Next \/ UNCHANGED Store!vars

(* A call that changes nothing.                                            *)
LEMMA Refused ==
  ASSUME MemOK, call = Idle, call' = Idle, mem' = mem,
         result'.is \in {"TOO_LARGE", "NOT_FOUND", "NOK"}
  PROVE  Stepping
<1>1. \A g \in Blocks : Visible(g) = Entry(g)
  BY VisibleIs DEF VisibleGiven, Idle
<1>2. \A g \in Blocks : Visible(g)' = Entry(g)'
  BY VisibleAfterIs DEF VisibleGiven, Idle
<1>3. \A g \in Blocks : Visible(g)' = Visible(g)
  BY <1>1, <1>2, EntriesStay
<1> QED
  BY <1>3, RefuseStep DEF Stepping

(* A call that has started shows what was.                                 *)
LEMMA Started ==
  ASSUME MemOK, call = Idle, mem' = mem, result' = result, NEW f \in Blocks,
         call'.pc \in {"put", "delete"}, call'.file = f, call'.was = Entry(f)
  PROVE  Stepping
<1>1. \A g \in Blocks : Visible(g) = Entry(g)
  BY VisibleIs DEF VisibleGiven, Idle
<1>2. \A g \in Blocks : Visible(g)' = IF f = g THEN Entry(f) ELSE Entry(g)'
  BY VisibleAfterIs DEF VisibleGiven
<1>3. \A g \in Blocks : Visible(g)' = Visible(g)
  BY <1>1, <1>2, EntriesStay
<1> QED
  BY <1>3, SameStep DEF Stepping

(* The scripts at other places are the same.                               *)
OthersSame(f) == \A g \in Blocks \ {f} : Entry(g)' = Entry(g)

(* A call that goes on shows what was.                                     *)
LEMMA WentOn ==
  ASSUME call.pc \in {"put", "trim", "delete"}, call'.pc \in {"put", "trim", "delete"},
         NEW f \in Blocks, call.file = f, call'.file = f, call'.was = call.was, result' = result,
         OthersSame(f)
  PROVE  Stepping
<1>1. \A g \in Blocks : Visible(g) = IF f = g THEN call.was ELSE Entry(g)
  BY VisibleIs DEF VisibleGiven
<1>2. \A g \in Blocks : Visible(g)' = IF f = g THEN call.was ELSE Entry(g)'
  BY VisibleAfterIs DEF VisibleGiven
<1>3. \A g \in Blocks : Visible(g)' = Visible(g)
  BY <1>1, <1>2 DEF OthersSame
<1> QED
  BY <1>3, SameStep DEF Stepping

(* At its end a call shows what is.                                        *)
LEMMA Ended ==
  ASSUME call.pc \in {"put", "trim", "delete"}, call' = Idle, NEW f \in Blocks, call.file = f, OthersSame(f)
  PROVE  OnlyVisible(f) /\ Visible(f) = call.was /\ Visible(f)' = Entry(f)'
<1>1. \A g \in Blocks : Visible(g) = IF f = g THEN call.was ELSE Entry(g)
  BY VisibleIs DEF VisibleGiven
<1>2. \A g \in Blocks : Visible(g)' = Entry(g)'
  BY VisibleAfterIs DEF VisibleGiven, Idle
<1> QED
  BY <1>1, <1>2 DEF OthersSame, OnlyVisible

(* At its end uBSWrite has saved the script.                               *)
LEMMA Saved ==
  ASSUME MemOK, MemOK', NamedInv, call.pc \in {"put", "trim"}, Return(call.name, "OK"),
         NEW f \in Blocks, call.file = f, OthersSame(f),
         mem'[f].master, mem'[f].name = call.name
  PROVE  Stepping
<1>1. call' = Idle /\ result'.is = "OK" /\ result'.name = call.name
  BY DEF Return
<1>2. OnlyVisible(f) /\ Visible(f) = call.was /\ Visible(f)' = Entry(f)'
  BY <1>1, Ended
<1>3. Entry(f)' # NoEntry /\ Entry(f)'.name = call.name
  <2>1. f \in Masters'
    BY DEF Masters
  <2> QED
    BY <2>1, EntriesAfterAre DEF EntryGiven
<1>4. Visible(f) # NoEntry => Visible(f).name = call.name
  BY <1>2 DEF NamedInv
<1>5. ASSUME Visible(f) = NoEntry, NEW g \in Blocks, Visible(g) # NoEntry PROVE Visible(g).name # call.name
  <2>1. g # f /\ call.was = NoEntry
    BY <1>2, <1>5
  <2>2. Visible(g) = Entry(g)
    BY <2>1, VisibleIs DEF VisibleGiven
  <2>3. g \in Masters
    BY <1>5, <2>2 DEF Entry, Masters
  <2>4. Entry(g).name = mem[g].name
    BY <2>3, EntriesAre DEF EntryGiven
  <2>5. mem[g].name # call.name
    BY <2>1, <2>3 DEF NamedInv
  <2> QED
    BY <2>2, <2>4, <2>5
<1> QED
  BY <1>1, <1>2, <1>3, <1>4, <1>5, SaveStep DEF Stepping

----------------------------------------------------------------------------
(* The start of uBSWrite.                                                  *)
LEMMA WriteRefines ==
  ASSUME Careful, SInv, NEW n \in Names, NEW text \in Seq(Units), Write(n, text)
  PROVE  Stepping
<1>1. PICK file, old, new, free : Starts(n, text, file, old, new, free)
  BY WriteChooses DEF SInv
<1>2. mem' = mem /\ call = Idle /\ MemOK
  BY <1>1 DEF Starts, SInv, IInv, Typed
<1>3. CASE Return(n, "TOO_LARGE")
  <2>1. call' = Idle /\ result'.is = "TOO_LARGE"
    BY <1>3 DEF Return
  <2> QED
    BY <1>2, <2>1, Refused
<1>4. CASE ~Return(n, "TOO_LARGE")
  <2>1. /\ call' = [pc |-> "put", name |-> n, file |-> file, address |-> file,
                    block |-> 0, new |-> new, old |-> old, data |-> text,
                    erase |-> NoBlock, want |-> text, was |-> Entry(file)]
        /\ result' = result
    BY <1>1, <1>4 DEF Starts
  <2>2. call'.pc = "put" /\ call'.file = file /\ call'.was = Entry(file)
    BY <2>1
  <2>3. file \in Blocks
    BY <1>1 DEF Starts, Masters, FreeSet
  <2> QED
    BY <1>2, <2>1, <2>2, <2>3, Started
<1> QED
  BY <1>3, <1>4

(***************************************************************************)
(* The chain that a script or a call has from the file, up to the block    *)
(* that is written.                                                        *)
(***************************************************************************)
LEMMA PutRefines ==
  ASSUME SInv, PutBlock
  PROVE  Stepping
<1>1. PICK k, a, old, new, text, size, next, rest, b : Round(k, a, old, new, text, size, next, rest, b)
  BY RoundIs DEF SInv
<1>2. PICK j, new2, next2, tail, file, name, want, all :
           PutStored(j, new2, next2, tail, file, name, want, all)
  BY PutStores
<1>3. /\ call.pc = "put" /\ call \in PutCalls /\ k = call.block /\ a = call.address
      /\ k \in Nat /\ a \in Blocks /\ (k = 0 => a = call.file /\ NotPointedAt(a))
  BY <1>1 DEF Round, RoundStarts
<1>4. /\ (b.master <=> k = 0) /\ b.name = IF k = 0 THEN call.name ELSE NoName
      /\ mem'[a] = b /\ \A x \in Blocks \ {a} : mem'[x] = mem[x]
      /\ MemOK /\ Graph /\ MemOK'
  BY <1>1 DEF Round, RoundWrites
<1>5. file = call.file /\ file \in Blocks /\ name = call.name
  BY <1>2 DEF PutStored
<1>6. k # 0 => \E head : Stored(file, name, k, a, head)
  BY <1>3, <1>5 DEF SInv, WrittenInv
<1>7. k # 0 => mem[file].master /\ mem[file].name = name /\ file # a
  <2>1. k # 0 => k > 0 /\ 0 \in 0 .. k - 1
    BY <1>3
  <2> QED
    BY <1>6, <2>1 DEF Stored
<1>8. NotPointedAt(file)
  <2>1. CASE k = 0
    BY <1>3, <1>5, <2>1
  <2>2. CASE k # 0
    <3>1. file \in Masters
      BY <1>5, <1>7, <2>2 DEF Masters
    <3> QED
      BY <1>4, <3>1, MastersAreRoots DEF MasterIsRoot
  <2> QED
    BY <2>1, <2>2
<1>9. a \in Chain(file)
  <2>1. file \in Chain(file)
    BY <1>4, <1>5, <1>8, RootClosed
  <2>2. \A x \in Chain(file) : mem[x].next \in Chain(file) \union {NoBlock}
    BY <1>4, <1>5, <1>8, RootClosed
  <2>3. CASE k = 0
    BY <1>3, <1>5, <2>1, <2>3
  <2>4. CASE k # 0
    <3>1. PICK head, S : Stored(file, name, k, a, head) /\ S = Chain(file)
      BY <1>6, <2>4
    <3>2. file \in S /\ \A x \in S : x # a => mem[x].next \in S \union {NoBlock}
      BY <2>1, <2>2, <3>1
    <3>3. a \in S
      BY <1>3, <3>1, <3>2, StoredLeadsTo
    <3> QED
      BY <3>1, <3>3
  <2> QED
    BY <2>3, <2>4
<1>10. OthersSame(file)
  <2> SUFFICES ASSUME NEW g \in Blocks \ {file} PROVE Entry(g)' = Entry(g)
    BY DEF OthersSame
  <2>1. g = a => ~mem'[g].master
    BY <1>3, <1>4, <1>5
  <2> QED
    BY <1>4, <1>5, <1>8, <1>9, <2>1, OthersStay
<1>11. mem'[file].master /\ mem'[file].name = name
  BY <1>3, <1>4, <1>5, <1>7
<1>12. CASE call'.pc \in {"put", "trim"} /\ SameFile
  BY <1>3, <1>5, <1>10, <1>12, WentOn DEF SameFile
<1>13. CASE Return(call.name, "OK")
  <2>1. NamedInv
    BY DEF SInv
  <2> QED
    BY <1>3, <1>4, <1>5, <1>10, <1>11, <1>13, <2>1, Saved
<1> QED
  BY <1>2, <1>12, <1>13 DEF PutStored

(* A round of the loop of uBSWrite that erases.                            *)
LEMMA TrimRefines ==
  ASSUME SInv, Trim
  PROVE  Stepping
<1>1. PICK a, y : TrimRound(a, y)
  BY TrimIs DEF SInv
<1>2. PICK file : file = call.file /\ file \in Blocks /\ call.pc = "trim"
  BY <1>1 DEF TrimRound
<1>3. /\ a \in Blocks /\ NotPointedAt(a) /\ MemOK /\ Graph /\ MemOK' /\ ~mem[a].master
      /\ mem'[a] = Erased /\ \A x \in Blocks \ {a} : mem'[x] = mem[x]
  BY <1>1 DEF TrimRound, Erases
<1>4. mem[file].master /\ mem[file].name = call.name
  <2>1. Stored(file, call.name, call.new, NoBlock, call.want) /\ call.new \in Nat \ {0}
    BY <1>1, <1>2 DEF TrimRound, SInv, WrittenInv
  <2> QED
    BY <2>1 DEF Stored
<1>5. mem'[file].master /\ mem'[file].name = call.name /\ ~mem'[a].master
  BY <1>2, <1>3, <1>4 DEF Erased
<1>6. \A g \in Blocks \ {a} : Entry(g)' = Entry(g)
  <2> SUFFICES ASSUME NEW g \in Blocks \ {a} PROVE Entry(g)' = Entry(g)
    OBVIOUS
  <2>1. a \in Chain(a)
    BY <1>3, RootClosed
  <2> QED
    BY <1>3, <2>1, OthersStay
<1>7. OthersSame(file)
  <2>1. Entry(a)' = Entry(a)
    BY <1>3, <1>5 DEF Entry
  <2> QED
    BY <1>6, <2>1 DEF OthersSame
<1>8. CASE call'.pc = "trim" /\ call'.file = call.file /\ call'.was = call.was /\ result' = result
  BY <1>2, <1>7, <1>8, WentOn
<1>9. CASE Return(call.name, "OK")
  <2>1. NamedInv
    BY DEF SInv
  <2> QED
    BY <1>2, <1>3, <1>5, <1>7, <1>9, <2>1, Saved
<1> QED
  BY <1>1, <1>8, <1>9 DEF TrimRound, GoesOn

(* The start of uBSDelete.                                                 *)
LEMMA DeleteRefines ==
  ASSUME SInv, NEW n \in Names, Delete(n)
  PROVE  Stepping
<1>1. mem' = mem /\ call = Idle /\ MemOK
  BY DEF Delete, SInv, IInv, Typed
<1>2. CASE Seek(n) = NoBlock
  <2>1. call' = Idle /\ result'.is = "NOT_FOUND"
    BY <1>2 DEF Delete, Return
  <2> QED
    BY <1>1, <2>1, Refused
<1>3. CASE Seek(n) # NoBlock
  <2>1. PICK f : f = Seek(n) /\ f \in Blocks
    BY <1>3, SeekIs
  <2>2. call'.pc = "delete" /\ call'.file = f /\ call'.was = Entry(f) /\ result' = result
    BY <1>3, <2>1 DEF Delete
  <2> QED
    BY <1>1, <2>1, <2>2, Started
<1> QED
  BY <1>2, <1>3

(* A round of uBSEraseBlocks.                                              *)
LEMMA EraseRefines ==
  ASSUME SInv, EraseBlock
  PROVE  Stepping
<1>1. PICK a, y : EraseRound(a, y)
  BY EraseIs DEF SInv
<1>2. PICK file : file = call.file /\ file \in Blocks /\ call.pc = "delete" /\ a = call.address
  BY <1>1 DEF EraseRound
<1>3. /\ a \in Blocks /\ NotPointedAt(a) /\ MemOK /\ Graph /\ MemOK'
      /\ mem'[a] = Erased /\ \A x \in Blocks \ {a} : mem'[x] = mem[x]
  BY <1>1 DEF EraseRound, Erases
<1>4. /\ call.was # NoEntry /\ call.was.name = call.name
      /\ a # file => ~mem[a].master /\ ~mem[file].master
  BY <1>2 DEF SInv, NamedInv
<1>5. ~mem'[a].master /\ ~mem'[file].master
  BY <1>2, <1>3, <1>4 DEF Erased
<1>6. \A g \in Blocks \ {a} : Entry(g)' = Entry(g)
  <2> SUFFICES ASSUME NEW g \in Blocks \ {a} PROVE Entry(g)' = Entry(g)
    OBVIOUS
  <2>1. a \in Chain(a)
    BY <1>3, RootClosed
  <2> QED
    BY <1>3, <2>1, OthersStay
<1>7. OthersSame(file)
  <2>1. a # file => Entry(a)' = Entry(a)
    BY <1>4, <1>5 DEF Entry
  <2> QED
    BY <1>6, <2>1 DEF OthersSame
<1>8. CASE call'.pc = "delete" /\ call'.file = call.file /\ call'.was = call.was /\ result' = result
  BY <1>2, <1>7, <1>8, WentOn
<1>9. CASE Return(call.name, "OK")
  <2>1. call' = Idle /\ result'.is = "OK" /\ result'.name = call.name
    BY <1>9 DEF Return
  <2>2. OnlyVisible(file) /\ Visible(file) = call.was /\ Visible(file)' = Entry(file)'
    BY <1>2, <1>7, <2>1, Ended
  <2>3. Entry(file)' = NoEntry
    BY <1>5 DEF Entry
  <2> QED
    BY <1>2, <1>4, <2>1, <2>2, <2>3, RemoveStep DEF Stepping
<1> QED
  BY <1>1, <1>8, <1>9 DEF EraseRound, GoesOn

(* uBSRename.                                                              *)
LEMMA RenameRefines ==
  ASSUME SInv, NEW n \in Names, NEW to \in Names, Rename(n, to)
  PROVE  Stepping
<1>1. IInv /\ MemOK /\ MemOK'
  <2>1. IInv /\ IInv'
    BY RenameKeepsInv DEF SInv
  <2> QED
    BY <2>1 DEF IInv, Typed
<1>2. CASE call = Idle /\ call' = Idle /\ result' = [name |-> n, is |-> "NOK"] /\ mem' = mem
  BY <1>1, <1>2, Refused
<1>3. CASE \E f : Renames(n, to, f)
  <2>1. PICK f : Renames(n, to, f)
    BY <1>3
  <2>2. /\ f \in Masters /\ f \in Blocks /\ mem[f].name = n /\ mem[f].master
        /\ call = Idle /\ call' = Idle /\ result'.name = n /\ result'.is = "OK"
        /\ \A x \in Blocks \ {f} : mem'[x] = mem[x]
        /\ mem'[f].name = to /\ mem'[f].master
        /\ mem'[f].next = mem[f].next /\ mem'[f].data = mem[f].data
    BY <2>1 DEF Renames, Masters
  <2>3. \A g \in Blocks : Visible(g) = Entry(g)
    BY <2>2, VisibleIs DEF VisibleGiven, Idle
  <2>4. \A g \in Blocks : Visible(g)' = Entry(g)'
    BY <2>2, VisibleAfterIs DEF VisibleGiven, Idle
  <2>5. \A x \in Blocks : mem'[x].next = mem[x].next /\ mem'[x].data = mem[x].data
    BY <2>2
  <2>6. ASSUME NEW g \in Blocks \ {f} PROVE Entry(g)' = Entry(g)
    <3>1. CASE g \in Masters
      <4>1. NotPointedAt(g) /\ Graph
        BY <1>1, <3>1, MastersAreRoots DEF MasterIsRoot, IInv
      <4>2. Chain(g) \subseteq Blocks
        BY <1>1, <2>6, <4>1, RootClosed
      <4> QED
        BY <1>1, <2>2, <2>5, <2>6, <4>2, SameEntry
    <3>2. CASE g \notin Masters
      <4>1. ~mem[g].master /\ ~mem'[g].master
        BY <2>2, <2>6, <3>2 DEF Masters
      <4> QED
        BY <4>1 DEF Entry
    <3> QED
      BY <3>1, <3>2
  <2>7. OnlyVisible(f)
    BY <2>3, <2>4, <2>6 DEF OnlyVisible
  <2>8. Content(f)' = Content(f)
    <3>1. NotPointedAt(f) /\ Graph
      BY <1>1, <2>2, MastersAreRoots DEF MasterIsRoot, IInv
    <3>2. Chain(f) \subseteq Blocks
      BY <1>1, <2>2, <3>1, RootClosed
    <3> QED
      BY <1>1, <2>2, <2>5, <3>2, SameContent
  <2>9. Entry(f) # NoEntry /\ Entry(f).name = n
    BY <1>1, <2>2, EntryOfMaster
  <2>10. Entry(f)' # NoEntry
    <3>1. f \in Masters'
      BY <2>2 DEF Masters
    <3> QED
      BY <1>1, <3>1, EntriesAfterAre DEF EntryGiven
  <2>11. Entry(f)'.name = to /\ Entry(f)'.text = Entry(f).text
    BY <2>2, <2>8 DEF Entry
  <2> QED
    BY <2>2, <2>3, <2>4, <2>7, <2>9, <2>10, <2>11, RenameStep DEF Stepping
<1> QED
  BY <1>1, <1>2, <1>3, RenameIs

(* uBSFormat.                                                              *)
LEMMA FormatRefines ==
  ASSUME SInv, Format \/ FormatBlock
  PROVE  Stepping
<1>1. CASE Format
  <2>1. call'.pc = "format" /\ result' = result
    BY <1>1 DEF Format
  <2>2. \A g \in Blocks : Visible(g)' = NoEntry
    BY <2>1, VisibleAfterIs DEF VisibleGiven
  <2> QED
    BY <2>1, <2>2, ClearStep DEF Stepping
<1>2. CASE FormatBlock
  <2>1. call.pc = "format" /\ result' = result
    BY <1>2 DEF FormatBlock
  <2>2. \A g \in Blocks : Visible(g) = NoEntry
    BY <2>1, VisibleIs DEF VisibleGiven
  <2>3. \A g \in Blocks : Visible(g)' = NoEntry
    <3>1. CASE call'.pc = "format"
      BY <3>1, VisibleAfterIs DEF VisibleGiven
    <3>2. CASE call' = Idle /\ \A x \in Blocks : mem'[x] = Erased
      <4>1. \A g \in Blocks : Visible(g)' = Entry(g)'
        BY <3>2, VisibleAfterIs DEF VisibleGiven, Idle
      <4>2. \A g \in Blocks : Entry(g)' = NoEntry
        BY <3>2 DEF Entry, Erased
      <4> QED
        BY <4>1, <4>2
    <3> QED
      BY <1>2, <3>1, <3>2, FormatEnds DEF SInv
  <2> QED
    BY <2>1, <2>2, <2>3, SameStep DEF Stepping
<1> QED
  BY <1>1, <1>2

(* A reset, which shows what the call left of the script.                  *)
LEMMA ResetRefines ==
  ASSUME Careful, SInv, Reset
  PROVE  Stepping
<1>1. call' = Idle /\ result'.is = "none" /\ mem' = mem /\ call.pc # "format" /\ MemOK
  BY DEF Reset, Careful, Unmended, NoResult, SInv, IInv, Typed
<1>2. \A g \in Blocks : Visible(g)' = Entry(g)
  <2>1. \A g \in Blocks : Visible(g)' = Entry(g)'
    BY <1>1, VisibleAfterIs DEF VisibleGiven, Idle
  <2> QED
    BY <1>1, <2>1, EntriesStay
<1>3. \E f \in Blocks : OnlyVisible(f)
  <2>1. CASE call = Idle
    <3>1. 0 \in Blocks
      BY UBSAssumption DEF UBSAssumption, Blocks
    <3>2. \A g \in Blocks : Visible(g) = Entry(g)
      BY <2>1, VisibleIs DEF VisibleGiven, Idle
    <3> QED
      BY <1>2, <3>1, <3>2 DEF OnlyVisible
  <2>2. CASE call # Idle
    <3>1. call.pc \in {"put", "trim", "delete"} /\ call.file \in Blocks
      BY <1>1, <2>2 DEF SInv, IInv, Typed, Calls
    <3>2. \A g \in Blocks : Visible(g) = IF call.file = g THEN call.was ELSE Entry(g)
      BY <3>1, VisibleIs DEF VisibleGiven
    <3>3. OnlyVisible(call.file)
      BY <1>2, <3>2 DEF OnlyVisible
    <3> QED
      BY <3>1, <3>3
  <2> QED
    BY <2>1, <2>2
<1> QED
  BY <1>1, <1>3, CrashStep DEF Stepping

(* No step.                                                                *)
LEMMA StayRefines ==
  ASSUME SInv, UNCHANGED vars
  PROVE  Stepping
<1>1. MemOK /\ mem' = mem /\ call' = call /\ result' = result
  BY DEF vars, SInv, IInv, Typed
<1>2. \A g \in Blocks : Entry(g)' = Entry(g)
  BY <1>1, EntriesStay
<1>3. ASSUME NEW g \in Blocks PROVE Visible(g)' = Visible(g)
  <2>1. CASE call.pc \in {"put", "trim", "delete"} /\ call.file = g
    BY <1>1, <2>1 DEF Visible
  <2>2. CASE call.pc = "format"
    BY <1>1, <2>2, VisibleIs, VisibleAfterIs DEF VisibleGiven
  <2>3. CASE call.pc # "format" /\ ~(call.pc \in {"put", "trim", "delete"} /\ call.file = g)
    BY <1>1, <1>2, <2>3 DEF Visible
  <2> QED
    BY <2>1, <2>2, <2>3
<1> QED
  BY <1>1, <1>3, SameStep DEF Stepping

(***************************************************************************)
(* A call of the block store changes the script it names and no other, all *)
(* at once, or refuses and changes nothing (uBSWrite, uBSDelete,           *)
(* uBSRename), however many block writes it takes.                         *)
(***************************************************************************)
THEOREM StoreIsImplemented == Careful => (Spec => ImplementsStore)
<1> SUFFICES ASSUME Careful PROVE Spec => Store!Spec
  BY DEF ImplementsStore
<1>1. Init => Store!Init
  <2> SUFFICES ASSUME Init PROVE Store!Init
    OBVIOUS
  <2>1. call = Idle /\ result = NoResult /\ \A g \in Blocks : mem[g] = Erased
    BY UBSAssumption DEF Init, UBSAssumption, Blocks
  <2>2. \A g \in Blocks : Visible(g) = NoEntry
    BY <2>1, VisibleIs DEF VisibleGiven, Idle, Entry, Erased
  <2> QED
    BY <2>1, <2>2 DEF Store!Init, NoResult
<1>2. SInv /\ [Next]_vars => [Store!Next]_(Store!vars)
  <2> SUFFICES ASSUME SInv, [Next]_vars PROVE Stepping
    BY DEF Stepping
  <2>1. ASSUME NEW n \in Names, NEW t \in Texts, NEW s \in Sizes, Write(n, Text(t, s)) PROVE Stepping
    BY <2>1, TextIs, WriteRefines
  <2>2. CASE Next
    BY <2>1, <2>2, PutRefines, TrimRefines, DeleteRefines, EraseRefines, RenameRefines, FormatRefines,
       ResetRefines DEF Next
  <2> QED
    BY <2>2, StayRefines
<1> QED
  BY <1>1, <1>2, StoredInvariant, PTL DEF Spec, Store!Spec

==============================================================================
