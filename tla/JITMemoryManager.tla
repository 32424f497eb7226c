--------------------------- MODULE JITMemoryManager ---------------------------
(* The JIT's memory manager: slabs of code memory divided into blocks, each  *)
(* behind a one-word header; the free ones are on a circular list and are    *)
(* merged with their free neighbours through boundary tags                   *)
(* (lib/ExecutionEngine/JIT/JITMemoryManager.cpp). The unit is a word.       *)
EXTENDS Naturals, Sequences, FiniteSets

CONSTANTS SlabWords,   \* DefaultCodeSlabSize
          Requests,    \* sizes asked of startFunctionBody; 0: no estimate
          Sizes,       \* sizes of functions, spaces and sections
          Alignments,  \* alignments asked of allocateSpace
          MaxSlabs     \* bound: slabs that the system has to give

Header == 1      \* sizeof(MemoryRangeHeader)
MinBlock == 4    \* getMinBlockSize: a FreeRangeHeader and the end marker

ASSUME MemoryAssumption ==
  /\ SlabWords \in Nat /\ SlabWords > 2 * MinBlock + 2 * Header
  /\ Requests \subseteq Nat /\ Sizes \subseteq Nat \ {0}
  /\ Alignments \subseteq Nat \ {0}
  /\ MaxSlabs \in Nat \ {0}

VARIABLES
  heap,      \* the headers, by address, and the free list
  slabEnds,  \* CodeSlabs, one after the other in memory: where each ends
  emitting,  \* CurBlock between startFunctionBody and endFunctionBody, as a
             \* set; CurBlock is not looked at when nothing is being emitted
  held       \* history: the memory that clients have been given

vars == <<heap, slabEnds, emitting, held>>

(* heap.block[b] is the header at address b: "before" is the word in front   *)
(* of it, the end-of-block size of the previous block when that is free, and *)
(* 0 when the word is a client's. heap.free is the circular list as seen     *)
(* from FreeMemoryList.                                                      *)
Block(allocated, prevAllocated, size, before) ==
  [allocated |-> allocated, prevAllocated |-> prevAllocated, size |-> size,
   before |-> before]

getBlockAfter(h, b) == b + h.block[b].size
Last(s) == s[Len(s)]
SlabStart(i) == IF i = 1 THEN 0 ELSE slabEnds[i - 1]
-----------------------------------------------------------------------------
(* The circular list.                                                        *)
IndexOf(s, b) == CHOOSE i \in 1..Len(s) : s[i] = b
StartingAt(s, b) ==
  SubSeq(s, IndexOf(s, b), Len(s)) \o SubSeq(s, 1, IndexOf(s, b) - 1)

(* RemoveFromFreeList: the list as seen from the block after b. The only     *)
(* block of a list stays its own successor.                                  *)
RemoveFromFreeList(s, b) == IF Len(s) = 1 THEN s ELSE Tail(StartingAt(s, b))

(* The same when it goes on being seen from its head, which is not b.        *)
Without(s, b) ==
  SubSeq(s, 1, IndexOf(s, b) - 1) \o SubSeq(s, IndexOf(s, b) + 1, Len(s))

(* Mutant: the block after it is not told. *)
AllocateBlockOnly(h, b) ==
  [block |-> [h.block EXCEPT ![b].allocated = TRUE],
   free |-> RemoveFromFreeList(h.free, b)]

AllocateBlock(h, b) ==
  [block |-> [h.block EXCEPT ![b].allocated = TRUE,
                             ![getBlockAfter(h, b)].prevAllocated = TRUE,
                             ![getBlockAfter(h, b)].before = 0],
   free |-> RemoveFromFreeList(h.free, b)]

(* TrimAllocationToSize. The rest is not split off when it is too small,     *)
(* which includes the case that the block itself was.                        *)
TrimAllocationToSize(h, b, newSize) ==
  LET n == IF newSize < MinBlock THEN MinBlock ELSE newSize
      new == b + n
      rest == h.block[b].size - n
  IN IF h.block[b].size <= n + MinBlock THEN h
     ELSE [block |-> [a \in DOMAIN h.block \cup {new} |->
                        IF a = b THEN [h.block[b] EXCEPT !.size = n]
                        ELSE IF a = new THEN Block(FALSE, TRUE, rest, 0)
                        ELSE IF a = b + h.block[b].size
                          THEN [h.block[a] EXCEPT !.prevAllocated = FALSE,
                                                  !.before = rest]
                        ELSE h.block[a]],
           free |-> <<new>> \o h.free]

(* FreeBlock, its first part: a free block that follows b is taken off the   *)
(* list and becomes part of b.                                               *)
JoinFollowing(h, b) ==
  LET f == getBlockAfter(h, b) IN
  IF h.block[f].allocated THEN h
  ELSE [block |-> [a \in DOMAIN h.block \ {f} |->
                     IF a = b
                       THEN [h.block[b] EXCEPT !.size = @ + h.block[f].size]
                     ELSE IF a = getBlockAfter(h, f)
                       THEN [h.block[a] EXCEPT !.prevAllocated = TRUE]
                     ELSE h.block[a]],
        free |-> IF f = Head(h.free) THEN RemoveFromFreeList(h.free, f)
                 ELSE Without(h.free, f)]

(* GrowBlock: b becomes part of the free block p in front of it.             *)
GrowBlock(h, p, b) ==
  LET size == h.block[p].size + h.block[b].size IN
  [h EXCEPT !.block = [a \in DOMAIN h.block \ {b} |->
                         IF a = p THEN [h.block[p] EXCEPT !.size = size]
                         ELSE IF a = p + size
                           THEN [h.block[a] EXCEPT !.prevAllocated = FALSE,
                                                   !.before = size]
                         ELSE h.block[a]]]

MarkFree(h, b) ==
  LET size == h.block[b].size IN
  [block |-> [h.block EXCEPT ![b].allocated = FALSE,
                             ![b + size].prevAllocated = FALSE,
                             ![b + size].before = size],
   free |-> Append(h.free, b)]

(* Mutant: the freed block is not merged with a free one before it. *)
FreeWithoutGrowing(h, b) ==
  LET joined == JoinFollowing(h, b)
      freed == MarkFree(joined, b)
  IN IF getBlockAfter(h, b) = Head(h.free)
       THEN [freed EXCEPT !.free = StartingAt(@, b)] ELSE freed

(* Mutant: the old first block is kept although it has been merged. *)
FreeKeepingHead(h, b) ==
  LET joined == JoinFollowing(h, b)
      before == b - joined.block[b].before
      freed == IF joined.block[b].prevAllocated THEN MarkFree(joined, b)
               ELSE GrowBlock(joined, before, b)
  IN IF getBlockAfter(h, b) = Head(h.free)
       THEN [freed EXCEPT !.free = <<getBlockAfter(h, b)>> \o @] ELSE freed

(* FreeBlock. The list is from now on seen from the freed block if it was    *)
(* seen from the block that this one has swallowed.                          *)
FreeBlock(h, b) ==
  LET joined == JoinFollowing(h, b)
      before == b - joined.block[b].before
      whole == IF joined.block[b].prevAllocated THEN b ELSE before
      freed == IF whole = b THEN MarkFree(joined, b)
               ELSE GrowBlock(joined, before, b)
  IN IF getBlockAfter(h, b) = Head(h.free)
       THEN [freed EXCEPT !.free = StartingAt(@, whole)] ELSE freed
-----------------------------------------------------------------------------
(* allocateNewCodeSlab: the new block, the end block, and the list, on which *)
(* the new block is the last.                                                *)
SlabSize(minSize) ==
  IF SlabWords < minSize + 2 * Header THEN minSize + 2 * Header ELSE SlabWords

WithNewSlab(h, start, size) ==
  LET end == start + size - Header IN
  [block |-> [a \in DOMAIN h.block \cup {start, end} |->
                CASE a = start -> Block(FALSE, TRUE, size - Header, 0)
                  [] a = end -> Block(TRUE, FALSE, Header, size - Header)
                  [] OTHER -> h.block[a]],
   free |-> Append(h.free, start)]

(* The constructor: a block for functions, an allocated one, a tiny free one *)
(* so that the list is never empty, and the end block.                       *)
Mem3 == SlabWords - Header
Mem2 == Mem3 - MinBlock
Mem1 == Mem2 - Header
Mem0 == 0
Init ==
  /\ heap = [block |-> [a \in {Mem0, Mem1, Mem2, Mem3} |->
                          CASE a = Mem0 -> Block(FALSE, TRUE, Mem1, 0)
                            [] a = Mem1 -> Block(TRUE, FALSE, Header, Mem1)
                            [] a = Mem2 -> Block(FALSE, TRUE, MinBlock, 0)
                            [] a = Mem3 -> Block(TRUE, FALSE, Header, MinBlock)],
             free |-> <<Mem0, Mem2>>]
  /\ slabEnds = <<SlabWords>>
  /\ emitting = {} /\ held = {}

(* The first of the largest free blocks, as a set.                           *)
Largest(h) ==
  LET size(i) == h.block[h.free[i]].size
  IN {h.free[i] : i \in {k \in 1..Len(h.free) : \A j \in 1..Len(h.free) :
                          size(j) < size(k) \/ (size(j) = size(k) /\ k <= j)}}

TooSmall(b, size) ==
  LET largest == heap.block[b].size - Header
  IN largest < size \/ largest <= MinBlock

(* Choose the block for a function or a section: block b of heap h.          *)
Candidate(size, h, b) ==
  \E c \in Largest(heap) :
    IF TooSmall(c, size)
      THEN /\ Len(slabEnds) < MaxSlabs
           /\ b = Last(slabEnds)
           /\ h = WithNewSlab(heap, b, SlabSize(size))
           /\ slabEnds' = Append(slabEnds, b + SlabSize(size))
      ELSE b = c /\ h = heap /\ UNCHANGED slabEnds

Sources == Largest(heap) \cup {Last(slabEnds)}
WithSlab(size) == {heap, WithNewSlab(heap, Last(slabEnds), SlabSize(size))}

Kinds == {"function", "section", "space"}
Give(b, at, size, kind) == [block |-> b, at |-> at, size |-> size, kind |-> kind]

(* startFunctionBody, and startExceptionTable, which calls it: the client    *)
(* gets all of the block.                                                    *)
startFunctionBody(size) ==
  /\ emitting = {}
  /\ \E b \in Sources, h \in WithSlab(size) :
       /\ Candidate(size, h, b)
       /\ emitting' = {b} /\ heap' = AllocateBlock(h, b)
       /\ held' = held \cup {Give(b, b + Header, h.block[b].size - Header, "function")}

(* Mutant: the header is not counted. *)
EndWithoutHeader(size) ==
  /\ \E g \in held :
       /\ g.block \in emitting /\ size <= g.size
       /\ held' = (held \ {g}) \cup {[g EXCEPT !.size = size]}
       /\ heap' = TrimAllocationToSize(heap, g.block, size)
  /\ emitting' = {}
  /\ UNCHANGED slabEnds

(* endFunctionBody and endExceptionTable; a function that was too large ends *)
(* with all of the block in use, and is freed to be emitted again.           *)
endFunctionBody(size) ==
  /\ \E g \in held :
       /\ g.block \in emitting /\ size <= g.size
       /\ held' = (held \ {g}) \cup {[g EXCEPT !.size = size]}
       /\ heap' = TrimAllocationToSize(heap, g.block, size + Header)
  /\ emitting' = {}
  /\ UNCHANGED slabEnds

RoundUp(a, alignment) == ((a + alignment - 1) \div alignment) * alignment

(* allocateSpace takes the first block of the list, whatever its size and    *)
(* even if it is Mem2.                                                       *)
allocateSpace(size, alignment) ==
  LET b == Head(heap.free)
      result == RoundUp(b + Header, alignment)
  IN /\ emitting = {}
     /\ heap' = TrimAllocationToSize(AllocateBlock(heap, b), b,
                                     result + size - b)
     /\ held' = held \cup {Give(b, result, size, "space")}
     /\ UNCHANGED <<slabEnds, emitting>>

allocateCodeSection(size) ==
  /\ emitting = {}
  /\ \E b \in Sources, h \in WithSlab(size + Header) :
       /\ Candidate(size + Header, h, b)
       /\ heap' = TrimAllocationToSize(AllocateBlock(h, b), b, size + Header)
       /\ held' = held \cup {Give(b, b + Header, size, "section")}
  /\ UNCHANGED emitting

(* deallocateFunctionBody and deallocateExceptionTable.                      *)
deallocateBlock(g) ==
  /\ emitting = {} /\ g.kind = "function"
  /\ heap' = FreeBlock(heap, g.at - Header)
  /\ held' = held \ {g}
  /\ UNCHANGED <<slabEnds, emitting>>

Whole == {g.size : g \in {k \in held : k.block \in emitting}}

(* A client who has been given less than it asked for writes over the next   *)
(* headers, and a list that loses Mem2 comes to hold a client's block, whose *)
(* words are then read as links: what the code does from there is undefined, *)
(* so a behaviour is followed up to the call of allocateSpace that does it.  *)
Defined ==
  /\ ~heap.block[Mem2].allocated
  /\ \A g \in held : g.at + g.size <= getBlockAfter(heap, g.block)

Next ==
  /\ Defined
  /\ \/ \E size \in Requests : startFunctionBody(size)
     \/ \E size \in Sizes \cup Whole : endFunctionBody(size)
     \/ \E size \in Sizes, alignment \in Alignments :
          allocateSpace(size, alignment)
     \/ \E size \in Sizes : allocateCodeSection(size)
     \/ \E g \in held : deallocateBlock(g)

Spec == Init /\ [][Next]_vars
-----------------------------------------------------------------------------
Blocks == DOMAIN heap.block
Ends == {slabEnds[i] : i \in 1..Len(slabEnds)}
Starts == {SlabStart(i) : i \in 1..Len(slabEnds)}
Free(b) == ~heap.block[b].allocated

(* The variables have their types.                                           *)
TypeOK ==
  /\ heap.block \in [Blocks -> [allocated : BOOLEAN, prevAllocated : BOOLEAN,
                                size : Nat \ {0}, before : Nat]]
  /\ Blocks \subseteq Nat /\ heap.free \in Seq(Blocks) /\ heap.free # <<>>
  /\ slabEnds \in Seq(Nat) /\ emitting \subseteq Blocks
  /\ held \subseteq [block : Blocks, at : Nat, size : Nat, kind : Kinds]

(* The blocks divide the slabs without gap or overlap, and each header tells *)
(* the truth about the block before it, whose size is in front of the header *)
(* if that block is free (SetEndOfBlockSizeMarker, getFreeBlockBefore).      *)
HeadersAgree ==
  /\ TypeOK /\ Starts \subseteq Blocks
  /\ \A b \in Blocks :
       LET a == getBlockAfter(heap, b) IN
       /\ \A c \in Blocks : ~(b < c /\ c < a)
       /\ a \in Blocks \cup Ends
       /\ a \notin Ends =>
            /\ heap.block[a].prevAllocated = heap.block[b].allocated
            /\ Free(b) => heap.block[a].before = heap.block[b].size
       /\ b \in Starts => heap.block[b].prevAllocated

(* "Missed coalescing?": no two free blocks are neighbours, so that memory   *)
(* freed in any order serves the largest requests again (FreeBlock).         *)
FreeNeighboursAreMerged ==
  \A b \in Blocks : Free(b) =>
    /\ getBlockAfter(heap, b) \in Blocks
    /\ ~Free(getBlockAfter(heap, b))

(* The list has every free block once and nothing else, as long as the tiny  *)
(* block that keeps it from becoming empty is free ("No tombstone block?";   *)
(* CheckInvariants: "Found free header that is not in free list").           *)
FreeListIsExact ==
  Free(Mem2) =>
    /\ \A i, j \in 1..Len(heap.free) : heap.free[i] = heap.free[j] => i = j
    /\ {heap.free[i] : i \in 1..Len(heap.free)} = {b \in Blocks : Free(b)}

(* A block that has been given is allocated, the client's memory starts      *)
(* behind its header, and it has been given to nobody else; what nobody has  *)
(* is free. A function and a section lie within their block                  *)
(* (startFunctionBody, endFunctionBody, allocateCodeSection), which of a     *)
(* space is not so (allocateSpace); deallocateBlock gives a block back.      *)
ClientsHaveTheirMemory ==
  /\ \A g \in held :
       /\ g.block \in Blocks /\ ~Free(g.block) /\ g.at > g.block
       /\ g.kind # "space" => g.at + g.size <= getBlockAfter(heap, g.block)
       /\ \A k \in held : k.block = g.block => k = g
  /\ \A b \in Blocks :
       Free(b) \/ b = Mem1 \/ getBlockAfter(heap, b) \in Ends
       \/ \E g \in held : g.block = b
=============================================================================
