-------------------------------- MODULE Heap --------------------------------
(***************************************************************************)
(* The heap of scripts and node queues: source/umm_malloc.c with the build *)
(* options of umm_malloc_cfg.h (best fit, empty critical sections), the    *)
(* statistics of umm_info.c and the check of umm_integrity.c.              *)
(*                                                                         *)
(* A block is 8 bytes: a header (next, prev, and the free mark that the C  *)
(* code keeps in the top bit of next) and a body that holds the free list  *)
(* links (nf, pf) of a free block and the first bytes of a used one.  A    *)
(* used chunk's memory is one cell per block; data[b] is what its owner    *)
(* wrote there, lost when the allocator writes a header or a link over it. *)
(***************************************************************************)
EXTENDS Integers, FiniteSets, SequencesExt

CONSTANTS NumBlocks,   \* umm_numblocks
          Sizes,       \* sizes callers ask for, in bytes
          Owners,      \* who holds a chunk: at most one each
          NoOne,       \* nothing of value in the cell
          Preempt      \* another thread may run inside a call (UMM_CRITICAL_ENTRY is empty)

ASSUME HeapAssumption ==
  /\ NumBlocks \in Nat /\ NumBlocks > 3 /\ NumBlocks < 32768
  /\ \A size \in Sizes :   \* umm_blocks wraps from 512 KB on: more than the controller's memory
       size \in Nat \ {0} /\ size < 8 * 65534
  /\ NoOne \notin Owners
  /\ Preempt \in BOOLEAN

VARIABLES heap,        \* the blocks
          data,        \* what is in each block's memory
          chunk,       \* the chunk each owner holds
          scan,        \* each owner's call between its scan and its change
          last         \* the blocks the last call asked for in vain, or 0

vars == <<heap, data, chunk, scan, last>>

Blocks == 0 .. NumBlocks - 1
BLOCK_LAST == NumBlocks - 1
None == [p |-> 0, n |-> 0, w |-> 0]   \* NULL
Idle == [n |-> 0, cf |-> 0, size |-> 0]

(* The links a client's own bytes make when they are read as links.        *)
Junk == NumBlocks - 1

(* The number of blocks for a size, as a uint16_t.                         *)
umm_blocks(size) == IF size <= 4 THEN 1 ELSE (2 + (size - 5) \div 8) % 65536

------------------------------------------------------------------------------
(* The steps the calls are made of, on a heap h.                           *)

Split(h, c, n, free) ==
  [h EXCEPT !.next = [@ EXCEPT ![c + n] = h.next[c], ![c] = c + n],
            !.free = [@ EXCEPT ![c + n] = free, ![c] = FALSE],
            !.prev = [@ EXCEPT ![c + n] = c, ![h.next[c]] = c + n]]

\* Mutant: the free block after keeps its link back.
DisconnectHalf(h, c) == [h EXCEPT !.nf[h.pf[c]] = h.nf[c], !.free[c] = FALSE]
Disconnect(h, c) ==
  LET g == [h EXCEPT !.nf[h.pf[c]] = h.nf[c]]
  IN  [g EXCEPT !.pf[g.nf[c]] = g.pf[c], !.free[c] = FALSE]

(* Takes in the next block when it is free.                                *)
AssimilateUp(h, c) ==
  IF ~h.free[h.next[c]] THEN h
  ELSE LET g == Disconnect(h, h.next[c])
           after == g.next[g.next[c]]
       IN  [g EXCEPT !.prev[after] = c, !.next[c] = after]

(* Gives the block to the free block before it.                            *)
AssimilateDown(h, c, free) ==
  [h EXCEPT !.next[h.prev[c]] = h.next[c],
            !.free[h.prev[c]] = free,
            !.prev[h.next[c]] = h.prev[c]]

PushFree(h, c) ==
  [h EXCEPT !.pf = [@ EXCEPT ![h.nf[0]] = c, ![c] = 0],
            !.nf = [@ EXCEPT ![c] = h.nf[0], ![0] = c],
            !.free[c] = TRUE]

\* Mutant: the free block before is not looked at.
FreeUpOnly(h, c) == PushFree(AssimilateUp(h, c), c)
umm_free_core(h, c) ==
  LET g == AssimilateUp(h, c)
  IN  IF g.free[g.prev[c]] THEN AssimilateDown(g, c, TRUE) ELSE PushFree(g, c)

(* The blocks met from block 0 on along a link f, up to the link to 0.      *)
Walk(f) ==
  LET walk[k \in 0 .. NumBlocks] ==
        IF k = 0 THEN <<0>>
        ELSE LET p == walk[k - 1] IN
             IF f[p[Len(p)]] = 0 THEN p ELSE Append(p, f[p[Len(p)]])
  IN  walk[NumBlocks]

(* The free list, in its order, as the scan walks it, and all blocks.      *)
FreeList(h) == Tail(Walk(h.nf))
Chain(h) == Walk(h.next)

SizeOf(h, b) == h.next[b] - b

(* Best fit: the smallest block that is large enough, the first of those   *)
(* in the list; 0 when there is none.                                      *)
\* Mutant: a block of exactly the size is passed over.
LooseFit(h, n) ==
  LET fits == {b \in ToSet(FreeList(h)) : SizeOf(h, b) > n}
  IN  IF fits = {} THEN 0 ELSE CHOOSE b \in fits : \A d \in fits : SizeOf(h, b) <= SizeOf(h, d)
BestFit(h, n) ==
  LET l == FreeList(h)
      fits == {i \in 1 .. Len(l) : SizeOf(h, l[i]) >= n}
      before(i, j) == \/ SizeOf(h, l[i]) < SizeOf(h, l[j])
                      \/ SizeOf(h, l[i]) = SizeOf(h, l[j]) /\ i <= j
  IN  IF fits = {} THEN 0 ELSE l[CHOOSE i \in fits : \A j \in fits : before(i, j)]

(* Takes n blocks from the front of the free block cf of the given size.   *)
Take(h, cf, size, n) ==
  IF size = n THEN Disconnect(h, cf)
  ELSE LET g == Split(h, cf, n, TRUE)
           k == [g EXCEPT !.nf[g.pf[cf]] = cf + n, !.pf[cf + n] = g.pf[cf]]
       IN  [k EXCEPT !.pf[k.nf[cf]] = cf + n, !.nf[cf + n] = k.nf[cf]]

------------------------------------------------------------------------------
(* What the allocator's writes leave of the owners' bytes: the body of a   *)
(* block whose links were written, any cell whose header was.              *)
Surviving(h, g, d, starts) ==
  [b \in Blocks |->
     IF h.nf[b] # g.nf[b] \/ h.pf[b] # g.pf[b] \/ (b \notin starts /\
        (h.next[b] # g.next[b] \/ h.prev[b] # g.prev[b]))
     THEN NoOne ELSE d[b]]

Starts == {chunk[o].p : o \in Owners}

(* An owner fills its chunk.                                               *)
Fill(d, o, p, n) == [b \in Blocks |-> IF b \in p .. p + n - 1 THEN o ELSE d[b]]

(* Nobody may rely on what is inside a chunk or in the links of a used one *)
(* when they are read as headers or links: they are the clients' bytes.    *)
Scribble(h) ==
  LET starts == ToSet(Chain(h))
      unlinked == {b \in Blocks : b \notin starts \/ (b # 0 /\ ~h.free[b])}
      Junked(f, S) == [b \in Blocks |-> IF b \in S THEN Junk ELSE f[b]]
  IN  [next |-> Junked(h.next, Blocks \ starts), prev |-> Junked(h.prev, Blocks \ starts),
       free |-> [b \in Blocks |-> b \in starts /\ h.free[b]],
       nf |-> Junked(h.nf, unlinked), pf |-> Junked(h.pf, unlinked)]

Answer(n, p) == last' = IF p = 0 THEN n ELSE 0

(* The allocation of n blocks at cf, already chosen by the scan.           *)
Allocate(o, n, cf, size) ==
  IF cf = 0
  THEN /\ Answer(n, 0)
       /\ UNCHANGED <<heap, data, chunk>>
  ELSE LET g == Take(heap, cf, size, n) IN
       /\ heap' = Scribble(g)
       /\ data' = Fill(Surviving(heap, g, data, Starts), o, cf, n)
       /\ chunk' = [chunk EXCEPT ![o] = [p |-> cf, n |-> n, w |-> n]]
       /\ Answer(n, cf)

Alone == Preempt \/ \A o \in Owners : scan[o] = Idle

------------------------------------------------------------------------------
(* umm_init: block 0 heads the free list, the last block ends the chain.   *)
umm_init ==
  /\ heap = [next |-> [b \in Blocks |-> CASE b = 0 -> 1 [] b = 1 -> BLOCK_LAST [] OTHER -> 0],
             prev |-> [b \in Blocks |-> IF b = BLOCK_LAST THEN 1 ELSE 0],
             free |-> [b \in Blocks |-> b = 1],
             nf |-> [b \in Blocks |-> IF b = 0 THEN 1 ELSE 0],
             pf |-> [b \in Blocks |-> IF b = 0 THEN 1 ELSE 0]]
  /\ data = [b \in Blocks |-> NoOne]

Init ==
  /\ umm_init
  /\ chunk = [o \in Owners |-> None]
  /\ scan = [o \in Owners |-> Idle]
  /\ last = 0

(* umm_malloc (and umm_calloc) up to the end of its scan of the free list: *)
(* the block to take from and its size are in local variables ...          *)
MallocScan(o, size) ==
  /\ Alone /\ scan[o] = Idle /\ chunk[o] = None
  /\ LET n == umm_blocks(size)
         cf == BestFit(heap, n)
     IN  scan' = [scan EXCEPT ![o] = [n |-> n, cf |-> cf, size |-> SizeOf(heap, cf)]]
  /\ UNCHANGED <<heap, data, chunk, last>>

(* ... and the rest of it; the owner fills what it gets.                   *)
MallocTake(o) ==
  /\ scan[o] # Idle
  /\ Allocate(o, scan[o].n, scan[o].cf, scan[o].size)
  /\ scan' = [scan EXCEPT ![o] = Idle]

Free(o) ==
  /\ Alone /\ chunk[o] # None
  /\ LET g == umm_free_core(heap, chunk[o].p)
         kept == Fill(data, NoOne, chunk[o].p, chunk[o].n)
     IN  /\ heap' = Scribble(g)
         /\ data' = Surviving(heap, g, kept, Starts \ {chunk[o].p})
  /\ chunk' = [chunk EXCEPT ![o] = None]
  /\ Answer(0, 1)
  /\ UNCHANGED scan

(* What a realloc to n blocks does to the heap and where it puts the       *)
(* chunk: the result is a record of the heap, the place, the size to be    *)
(* split and whether the bytes move.                                       *)
ReallocFit(h, c, n) ==
  LET size == SizeOf(h, c)
      nextSize == IF h.free[h.next[c]] THEN SizeOf(h, h.next[c]) ELSE 0
      prevSize == IF h.free[h.prev[c]] THEN c - h.prev[c] ELSE 0
      up == AssimilateUp(h, c)
      down(g) == AssimilateDown(Disconnect(g, g.prev[c]), c, FALSE)
      cf == BestFit(h, n)
  IN  IF size >= n
      THEN [h |-> h, p |-> c, size |-> size]
      ELSE IF size + nextSize = n \/ (prevSize = 0 /\ size + nextSize >= n)
      THEN [h |-> up, p |-> c, size |-> size + nextSize]
      ELSE IF prevSize + size >= n
      THEN [h |-> down(h), p |-> h.prev[c], size |-> prevSize + size]
      ELSE IF prevSize + size + nextSize >= n
      THEN [h |-> down(up), p |-> h.prev[c], size |-> prevSize + size + nextSize]
      ELSE IF cf = 0
      THEN [h |-> h, p |-> 0, size |-> n]
      ELSE [h |-> umm_free_core(Take(h, cf, SizeOf(h, cf), n), c), p |-> cf, size |-> n]

(* The unused rest of a chunk goes back to the free list.                  *)
\* Mutant: the rest is forgotten.
TrimNothing(r, n) == r.h
Trim(r, n) ==
  IF r.p # 0 /\ r.size > n THEN umm_free_core(Split(r.h, r.p, n, FALSE), r.p + n) ELSE r.h

(* The bytes of the old chunk at the place of the new one (memmove).       *)
\* Mutant: the bytes stay where they were.
NotMoved(d, from, to, n) == d
Moved(d, from, to, n) ==
  [b \in Blocks |-> IF b \in to .. to + n - 1 THEN d[b - to + from] ELSE d[b]]

(* umm_realloc of a chunk an owner holds: its old bytes come along, and on *)
(* failure nothing changes and the owner keeps the old chunk.              *)
Realloc(o, size) ==
  /\ Alone /\ chunk[o] # None
  /\ LET n == umm_blocks(size)
         c == chunk[o].p
         r == ReallocFit(heap, c, n)
         g == Trim(r, n)
         kept == Fill(Surviving(heap, r.h, data, Starts), NoOne, c, SizeOf(heap, c))
         bytes == Moved(data, c, r.p, SizeOf(heap, c))
         moved == [b \in Blocks |-> IF b \in r.p .. r.p + n - 1 THEN bytes[b] ELSE kept[b]]
     IN  /\ Answer(n, r.p)
         /\ IF r.p = 0 THEN UNCHANGED <<heap, data, chunk>>
            ELSE /\ heap' = Scribble(g)
                 /\ data' = Surviving(r.h, g, moved, (Starts \ {c}) \union {r.p})
                 /\ chunk' = [chunk EXCEPT ![o] =
                                [p |-> r.p, n |-> n, w |-> IF n < @.w THEN n ELSE @.w]]
  /\ UNCHANGED scan

Next ==
  \E o \in Owners :
    \/ \E size \in Sizes : MallocScan(o, size) \/ Realloc(o, size)
    \/ MallocTake(o)
    \/ Free(o)

Spec == Init /\ [][Next]_vars

------------------------------------------------------------------------------
(* The statistics of umm_info.                                             *)

Chunks(h) == ToSet(Chain(h)) \ {0, NumBlocks - 1}
FreeChunks(h) == {b \in Chunks(h) : h.free[b]}
UsedChunks(h) == Chunks(h) \ FreeChunks(h)

(* The free blocks and the sum of the squares of the free chunks' sizes.   *)
umm_info(h) ==
  LET chain == Chain(h)
      info[k \in 0 .. Len(chain)] ==
        IF k = 0 THEN [freeBlocks |-> 0, freeBlocksSquared |-> 0]
        ELSE LET i == info[k - 1]
                 curBlocks == SizeOf(h, chain[k])
             IN  IF ~h.free[chain[k]] THEN i
                 ELSE [freeBlocks |-> i.freeBlocks + curBlocks,
                       freeBlocksSquared |-> i.freeBlocksSquared + curBlocks * curBlocks]
  IN  info[Len(chain)]

(* The digit by digit root: one is the power of four of the digit at hand, *)
(* the first that is not above x.                                          *)
\* Mutant: the running root is not halved.
DigitUnhalved(one, op, res) ==
  IF op >= res + one THEN [op |-> op - (res + one), res |-> res + 2 * one, one |-> one \div 4]
  ELSE [op |-> op, res |-> res, one |-> one \div 4]
Digit(one, op, res) ==
  IF op >= res + one THEN [op |-> op - (res + one), res |-> (res + 2 * one) \div 2, one |-> one \div 4]
  ELSE [op |-> op, res |-> res \div 2, one |-> one \div 4]
iSqrt(x) ==
  LET first[k \in 0 .. 16] ==
        IF k = 0 THEN 32768 * 32768
        ELSE LET one == first[k - 1] IN IF one > x THEN one \div 4 ELSE one
      root[k \in 0 .. 16] ==
        IF k = 0 THEN [op |-> x, res |-> 0, one |-> first[16]]
        ELSE LET r == root[k - 1]
             IN  IF r.one = 0 THEN r ELSE Digit(r.one, r.op, r.res)
  IN  root[16].res

umm_fragmentation_metric(h) ==
  LET info == umm_info(h)
  IN  IF info.freeBlocks = 0 THEN 0
      ELSE 100 - (iSqrt(info.freeBlocksSquared) * 100) \div info.freeBlocks

(* umm_integrity_check: the free list is linked both ways and holds the    *)
(* marked blocks, the chain is linked both ways and ascends to the end.    *)
umm_integrity_check(h) ==
  LET l == <<0>> \o FreeList(h)
      c == Chain(h)
      marked == ToSet(Tail(l))
  IN  /\ \A i \in 2 .. Len(l) : h.pf[l[i]] = l[i - 1]
      /\ h.nf[l[Len(l)]] = 0
      /\ \A i \in 2 .. Len(c) :
           /\ c[i] > c[i - 1] /\ h.prev[c[i]] = c[i - 1]
           /\ h.free[c[i]] <=> c[i] \in marked
      /\ h.next[c[Len(c)]] = 0

------------------------------------------------------------------------------
(* Properties.                                                             *)

TypeOK ==
  /\ heap \in [next : [Blocks -> Blocks], prev : [Blocks -> Blocks],
               free : [Blocks -> BOOLEAN], nf : [Blocks -> Blocks], pf : [Blocks -> Blocks]]
  /\ data \in [Blocks -> Owners \union {NoOne}]
  /\ \A o \in Owners : chunk[o] = None \/ chunk[o].p \in 1 .. NumBlocks - 2
  /\ \A o \in Owners : scan[o] = Idle \/ scan[o].cf \in 0 .. NumBlocks - 2
  /\ last \in Nat

\* The source's own check of the heap succeeds between any two calls,
\* whatever sequence of malloc, realloc and free came before.
Integrity == umm_integrity_check(heap)

\* Two neighbouring blocks are never both free: every free and every trim
\* merges with both neighbours (umm_assimilate_up, umm_assimilate_down).
NoFreeNeighbours ==
  \A b \in Chunks(heap) : ~(heap.free[b] /\ heap.free[heap.next[b]])

\* An owner's bytes are still its own: no other chunk, header or free link
\* was put over them, and a realloc took them to the new place.
ContentKept ==
  \A o \in Owners : \A i \in 0 .. chunk[o].w - 1 : data[chunk[o].p + i] = o

\* Every block that is not free is held by an owner, which holds exactly
\* the blocks its last size needs: nothing leaks and nothing is short.
NothingLost ==
  /\ UsedChunks(heap) = {chunk[o].p : o \in {x \in Owners : chunk[x] # None}}
  /\ \A o \in Owners : chunk[o] # None => SizeOf(heap, chunk[o].p) = chunk[o].n

\* A call fails only when no run of free blocks is long enough.
FailsOnlyWhenFull ==
  [][last' # 0 /\ last' # last => \A b \in FreeChunks(heap) : SizeOf(heap, b) < last']_vars

\* The fragmentation shown on the page is zero exactly when the free space
\* is in one piece or there is none (iSqrt is exact on squares and below
\* the sum of the sizes otherwise).
ZeroMeansOnePiece ==
  (umm_fragmentation_metric(heap) = 0) <=> Cardinality(FreeChunks(heap)) <= 1

\* No two callers hold the same memory.
NoSharedMemory ==
  \A o, q \in Owners :
    o # q /\ chunk[o] # None /\ chunk[q] # None =>
      (chunk[o].p .. chunk[o].p + chunk[o].n - 1) \cap
      (chunk[q].p .. chunk[q].p + chunk[q].n - 1) = {}
=============================================================================
