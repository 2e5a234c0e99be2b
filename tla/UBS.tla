-------------------------------- MODULE UBS --------------------------------
(***************************************************************************)
(* The block store that keeps the scripts in FRAM (source/uBS.c).  A       *)
(* script is a chain of blocks: a master block with the name, and as many  *)
(* further blocks as its text needs.  A block whose header byte is zero is *)
(* free; only the number of free blocks is kept in RAM.                    *)
(*                                                                         *)
(* A call's steps are its block writes, each one SPI transaction, with the *)
(* reads that lead to it.  The unit may be reset between any two.          *)
(***************************************************************************)
EXTENDS Integers, Sequences, FiniteSets

CONSTANTS
  BlockCount,        \* UBS_BLOCK_COUNT
  DataSize,          \* UBS_DATA_SIZE, in units of text
  NameSize,          \* UBS_NAME_SIZE, in the same units
  CounterSize,       \* 2^16, the values of uBSFreeBlocks
  Names, Texts,      \* names and texts of scripts
  Sizes,             \* the lengths of the texts saved
  NoBlock, NoName,   \* the pointer 0; the name in a block that holds none
  NoEntry,           \* no script
  CutGrowth,         \* is a reset with a reserved block unwritten considered?
  OnlyWhileFree      \* are names new only while uBSFreeBlocks is not 0?

Blocks == 0 .. BlockCount - 1
End    == BlockCount             \* UBS_ADDRESS_END, the first block outside

ASSUME UBSAssumption ==
  /\ BlockCount \in Nat \ {0} /\ CounterSize \in Nat /\ BlockCount < CounterSize
  /\ DataSize \in Nat /\ NameSize \in Nat \ {0} /\ NameSize < DataSize
  /\ Sizes \subseteq Nat
  /\ NoBlock \notin 0 .. BlockCount /\ NoName \notin Names
  /\ NoEntry \notin [name : Names \union {NoName}, text : Seq(Texts \X Nat)]
  /\ CutGrowth \in BOOLEAN /\ OnlyWhileFree \in BOOLEAN

VARIABLES
  mem,          \* the blocks, and the first one behind them
  freeBlocks,   \* uBSFreeBlocks
  call,         \* the call under execution
  result        \* what the last call returned

vars == <<mem, freeBlocks, call, result>>

\* The text of a script: its units tell their place, so that a text put
\* together from the wrong blocks differs from every text saved.
Text(t, size) == [i \in 1 .. size |-> <<t, i>>]
Units == Texts \X Nat

BlockState == [master : BOOLEAN, next : 0 .. BlockCount \union {NoBlock},
               name : Names \union {NoName}, data : Seq(Units)]

Erased == [master |-> FALSE, next |-> NoBlock, name |-> NoName, data |-> <<>>]

\* readBuf[0] == 0: neither the master flag nor a size.
IsFree(b) == ~b.master /\ b.data = <<>>

FreeSet == {a \in Blocks : IsFree(mem[a])}
Masters == {a \in Blocks : mem[a].master}

Lowest(S) == CHOOSE a \in S : \A b \in S : a <= b

----------------------------------------------------------------------------
(* Chains.                                                                 *)

\* The k-th block of the chain that starts at a.
Path(a) ==
  LET p[k \in 0 .. BlockCount + 1] ==
        IF k = 0 THEN a
        ELSE LET b == p[k - 1] IN IF b = NoBlock THEN NoBlock ELSE mem[b].next
  IN  p

Ends(a)  == Path(a)[BlockCount + 1] = NoBlock
Links(a) == LET p == Path(a) IN {k \in 0 .. BlockCount + 1 : p[k] # NoBlock}
Chain(a) == LET p == Path(a) IN {p[k] : k \in Links(a)}

\* uBSSeekNameGetBlockSize counts the blocks of the chain.
Length(a) == Cardinality(Links(a))

\* Pieces of text put together.
Joined(pieces) ==
  LET c[k \in 0 .. BlockCount + 2] == IF k = 0 THEN <<>> ELSE c[k - 1] \o pieces[k - 1]
  IN  c[BlockCount + 2]

\* What uBSRead puts together.
Content(a) ==
  LET p == Path(a)
  IN  Joined([k \in 0 .. BlockCount + 1 |-> IF p[k] = NoBlock THEN <<>> ELSE mem[p[k]].data])

\* uBSSeekName: the first master block of the name.
Named(n) == {a \in Masters : mem[a].name = n}
Seek(n)  == IF Named(n) = {} THEN NoBlock ELSE Lowest(Named(n))

\* uBSRead of the name gives the text.
Reads(n, text) ==
  Seek(n) # NoBlock /\ Ends(Seek(n)) /\ Content(Seek(n)) = text

----------------------------------------------------------------------------
(* The free counter.                                                       *)

\* Mutant: the block to skip is not skipped.
FirstFreeAny(skip) == IF FreeSet = {} THEN End ELSE Lowest(FreeSet)

\* uBSGetFreeBlock: the address found, End when there is none.
FirstFree(skip) ==
  IF FreeSet \ {skip} = {} THEN End ELSE Lowest(FreeSet \ {skip})

\* Mutant: the block found is not counted.
TakenUncounted(a) == freeBlocks

Taken(a) == IF a = End THEN freeBlocks ELSE (freeBlocks - 1) % CounterSize

\* Mutant: the room that the name takes is forgotten.
BlocksForText(size) ==
  size \div DataSize + (IF size % DataSize = 0 THEN 0 ELSE 1)

\* Mutant: a text that fills the last block takes another one.
BlocksForUp(size) == (size + NameSize) \div DataSize + 1

BlocksFor(size) ==
  (size + NameSize) \div DataSize
  + (IF (size + NameSize) % DataSize = 0 THEN 0 ELSE 1)

----------------------------------------------------------------------------
(* uBSWrite.                                                               *)

Idle == [pc |-> "idle"]

Return(n, r) == call' = Idle /\ result' = [name |-> n, is |-> r]

NoResult == [name |-> NoName, is |-> "none"]

\* What is stored under a master block, as the callers see it.
Entry(a) == IF mem[a].master THEN [name |-> mem[a].name, text |-> Content(a)]
                             ELSE NoEntry

\* Mutant: the blocks needed are not compared with the free blocks.
FitsAlways(new, old, free) == TRUE

Fits(new, old, free) == new - old <= free

\* Up to the first block write.  want and was are not in the code: the text
\* to be saved and what the file held, for the properties.
Write(n, text) ==
  LET found == Seek(n)
      file  == IF found # NoBlock THEN found ELSE FirstFree(End)
      old   == IF found # NoBlock THEN Length(found) ELSE 0
      new   == BlocksFor(Len(text))
      free  == IF found # NoBlock THEN freeBlocks ELSE Taken(file)
  IN
  /\ call = Idle
  /\ found # NoBlock => Ends(found)
  /\ OnlyWhileFree => found # NoBlock \/ freeBlocks > 0
  /\ freeBlocks' = free
  /\ \/ /\ ~Fits(new, old, free)
        /\ Return(n, "TOO_LARGE")
     \/ /\ Fits(new, old, free)
        /\ call' = [pc |-> "put", name |-> n, file |-> file, address |-> file,
                    block |-> 0, new |-> new, old |-> old, data |-> text,
                    erase |-> NoBlock, want |-> text, was |-> Entry(file)]
        /\ UNCHANGED result
  /\ UNCHANGED mem

\* One round of the loop over the new blocks.  The last one points nowhere;
\* where the old chain goes on, its next block is reused; else a free block
\* is reserved, which stays free until the next round writes it.
PutBlock ==
  LET last    == call.block = call.new - 1
      reserve == ~last /\ call.block >= call.old - 1
      a       == call.address
      room    == IF call.block = 0 THEN DataSize - NameSize ELSE DataSize
      size    == IF Len(call.data) > room THEN room ELSE Len(call.data)
      next    == IF last THEN NoBlock
                 ELSE IF reserve THEN FirstFree(a) ELSE mem[a].next
      rest    == IF last /\ call.block < call.old THEN mem[a].next ELSE call.erase
  IN
  /\ call.pc = "put"
  /\ mem' = [mem EXCEPT ![a] =
               [master |-> call.block = 0, next |-> next,
                name |-> IF call.block = 0 THEN call.name ELSE NoName,
                data |-> SubSeq(call.data, 1, size)]]
  /\ freeBlocks' = IF reserve THEN Taken(next) ELSE freeBlocks
  /\ \/ /\ ~last
        /\ call' = [call EXCEPT !.address = next, !.block = @ + 1,
                                !.data = SubSeq(@, size + 1, Len(@))]
        /\ UNCHANGED result
     \/ /\ last /\ call.new < call.old
        /\ call' = [call EXCEPT !.pc = "trim", !.block = @ + 1, !.erase = rest]
        /\ UNCHANGED result
     \/ /\ last /\ call.new >= call.old
        /\ Return(call.name, "OK")

\* Mutant: only the first of the blocks no longer needed is erased.
TrimOnce ==
  /\ call.pc = "trim"
  /\ mem' = [mem EXCEPT ![call.erase] = Erased]
  /\ freeBlocks' = (freeBlocks + 1) % CounterSize
  /\ Return(call.name, "OK")

\* One round of the loop that erases the old blocks no longer needed.
Trim ==
  LET rest == mem[call.erase].next IN
  /\ call.pc = "trim"
  /\ mem' = [mem EXCEPT ![call.erase] = Erased]
  /\ freeBlocks' = (freeBlocks + 1) % CounterSize
  /\ IF call.block + 1 < call.old
     THEN call' = [call EXCEPT !.block = @ + 1, !.erase = rest] /\ UNCHANGED result
     ELSE Return(call.name, "OK")

----------------------------------------------------------------------------
(* uBSDelete, uBSRename, uBSFormat and uBSInit.                            *)

Delete(n) ==
  LET found == Seek(n) IN
  /\ call = Idle
  /\ \/ /\ found = NoBlock
        /\ Return(n, "NOT_FOUND")
     \/ /\ found # NoBlock /\ Ends(found)
        /\ call' = [pc |-> "delete", name |-> n, file |-> found, address |-> found,
                    left |-> Length(found), was |-> Entry(found)]
        /\ UNCHANGED result
  /\ UNCHANGED <<mem, freeBlocks>>

\* One round of uBSEraseBlocks.
EraseBlock ==
  LET next == mem[call.address].next IN
  /\ call.pc = "delete"
  /\ mem' = [mem EXCEPT ![call.address] = Erased]
  /\ freeBlocks' = (freeBlocks + 1) % CounterSize
  /\ IF call.left > 1
     THEN call' = [call EXCEPT !.address = next, !.left = @ - 1] /\ UNCHANGED result
     ELSE Return(call.name, "OK")

\* Nothing keeps the new name from being that of another script.
Rename(n, to) ==
  LET found == Seek(n) IN
  /\ call = Idle
  /\ \/ /\ found = NoBlock
        /\ Return(n, "NOK")
        /\ UNCHANGED mem
     \/ /\ found # NoBlock
        /\ mem' = [mem EXCEPT ![found].name = to]
        /\ Return(n, "OK")
  /\ UNCHANGED freeBlocks

Format ==
  /\ call = Idle
  /\ call' = [pc |-> "format", address |-> 0]
  /\ UNCHANGED <<mem, freeBlocks, result>>

\* The command ubs f calls uBSInit after the last block.
FormatBlock ==
  /\ call.pc = "format"
  /\ mem' = [mem EXCEPT ![call.address] = Erased]
  /\ \/ /\ call.address + 1 < BlockCount
        /\ call' = [call EXCEPT !.address = @ + 1]
        /\ UNCHANGED freeBlocks
     \/ /\ call.address + 1 = BlockCount
        /\ call' = Idle
        /\ freeBlocks' = BlockCount
  /\ UNCHANGED result

\* A reserved block is pointed at and still free, or a chain has lost blocks.
Growing   == call.pc = "put" /\ call.block > 0 /\ call.block >= call.old
Unmended  == Growing \/ call.pc = "format"

\* A reset, and uBSInit.
Reset ==
  /\ CutGrowth \/ ~Unmended
  /\ freeBlocks' = Cardinality(FreeSet)
  /\ call' = Idle
  /\ result' = NoResult
  /\ UNCHANGED mem

----------------------------------------------------------------------------
Init ==
  /\ mem = [a \in 0 .. BlockCount |-> Erased]
  /\ freeBlocks = BlockCount
  /\ call = Idle
  /\ result = NoResult

Next ==
  \/ \E n \in Names, t \in Texts, s \in Sizes : Write(n, Text(t, s))
  \/ PutBlock \/ Trim
  \/ \E n \in Names : Delete(n)
  \/ EraseBlock
  \/ \E n, to \in Names : Rename(n, to)
  \/ Format \/ FormatBlock
  \/ Reset

Spec == Init /\ [][Next]_vars

----------------------------------------------------------------------------
(* Properties.                                                             *)

TypeOK ==
  /\ mem \in [0 .. BlockCount -> BlockState]
  /\ freeBlocks \in 0 .. CounterSize - 1
  /\ result \in [name : Names \union {NoName},
                is : {"none", "OK", "NOK", "NOT_FOUND", "TOO_LARGE"}]
  /\ \/ call = Idle
     \/ /\ call.pc \in {"put", "trim"}
        /\ call.file \in Blocks /\ call.address \in 0 .. BlockCount
        /\ call.block < call.new \/ call.block < call.old
     \/ call.pc = "delete" /\ call.address \in Blocks
     \/ call.pc = "format" /\ call.address \in Blocks

\* No block belongs to two scripts or comes twice in the chain of one, and
\* chains stay inside the store, at every block write (not while the whole
\* store is being erased).
OneChainPerBlock ==
  call.pc # "format" =>
    \A a \in Masters :
      /\ Ends(a) /\ Chain(a) \subseteq Blocks
      /\ Cardinality(Chain(a)) = Length(a)
      /\ \A b \in Masters \ {a} : Chain(a) \cap Chain(b) = {}

\* uBSFreeBlocks never promises a block that is not there: uBSWrite relies
\* on it alone, it does not look whether uBSGetFreeBlock found one.
NeverOverstated == freeBlocks <= Cardinality(FreeSet)

\* The blocks that the call has yet to erase.
ToErase == CASE call.pc = "trim"   -> Chain(call.erase)
             [] call.pc = "delete" -> Chain(call.address)
             [] call.pc = "format" -> call.address .. BlockCount - 1
             [] OTHER              -> {}

Owned == ToErase \union UNION {Chain(a) : a \in Masters}

\* The blocks that are used, but by no script and no call.
Lost == Blocks \ (FreeSet \union Owned)

\* Only a reset loses blocks: whatever the order of the calls, every block
\* that a step takes from a script is free or still to be erased by the call.
OnlyResetsLose == [][Lost' \subseteq Lost \/ Reset]_vars

\* When uBSWrite returns UBS_RSLT_OK, uBSRead finds the text just saved.
\* (uBS.c:364: "UBS_RSLT_OK if success, else error code".)
OkMeansStored ==
  [][ call.pc \in {"put", "trim"} /\ call'.pc = "idle" /\ ~Reset =>
        \E n \in {call.name}, text \in {call.want} : Reads(n, text)' ]_vars

\* The block that uBSGetFreeBlock finds is in no chain.
\* (uBS.c:144: "Find free block address".)
FreeMeansUnused ==
  call = Idle => \A a \in Masters : Chain(a) \cap FreeSet = {}

\* A call changes the script it names and no other, at once.
Visible(a) ==
  CASE call.pc \in {"put", "trim", "delete"} /\ call.file = a -> call.was
    [] call.pc = "format" -> NoEntry
    [] OTHER              -> Entry(a)

Store == INSTANCE ScriptStore
           WITH Files <- Blocks, store <- [a \in Blocks |-> Visible(a)]

ImplementsStore == Store!Spec
=============================================================================
