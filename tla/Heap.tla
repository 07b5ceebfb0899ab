-------------------------------- MODULE Heap --------------------------------
(***************************************************************************)
(* The heap: heap_4.c, and the malloc, memalign and free of sys.cpp that    *)
(* newlib and the C++ library are redirected to.                            *)
(*                                                                          *)
(* A block is named by the address of its header; `size` is xBlockSize      *)
(* without its top bit, which the members of `used` have set.  The list of  *)
(* free blocks is kept in the order of their addresses, so it is a set.     *)
(* Memory nobody reads again, a header merged away or the word of a pointer *)
(* given back, is shown as 0 or None.  prvHeapInit runs in the first call,  *)
(* before the heap is looked at: it is the initial state.                   *)
(***************************************************************************)
EXTENDS Integers, FiniteSets, FiniteSetsExt

CONSTANTS
    Tasks,          \* who allocates and frees
    HeapStart,      \* the address of ucHeap
    TotalHeapSize,  \* configTOTAL_HEAP_SIZE
    Alignment,      \* portBYTE_ALIGNMENT
    StructSize,     \* xHeapStructSize
    Word,           \* sizeof(void *)
    SizeCount,      \* the number of values of size_t
    Requests,       \* the sizes pvPortMalloc is asked for by the kernel
    GlueRequests,   \* those malloc and memalign are asked for
    Alignments,     \* the alignments memalign is asked for
    MaxHeld,        \* bound: how many pointers may be held at a time
    None

\* The aligned part of ucHeap up to pxEnd (prvHeapInit).
RoundDown(n) == n - (n % Alignment)
RoundUp(n)   == RoundDown(n + Alignment - 1)
First == RoundUp(HeapStart)
End   == RoundDown(HeapStart + TotalHeapSize - StructSize)

Addresses == First .. End
AllocatedBit == SizeCount \div 2
MinimumBlockSize == 2 * StructSize

ASSUME HeapAssumption ==
    /\ HeapStart \in Nat /\ TotalHeapSize \in Nat
    /\ Alignment \in Nat \ {0} /\ Word \in Nat \ {0} /\ StructSize \in Nat \ {0}
    /\ StructSize % Alignment = 0 /\ Word <= Alignment /\ Alignment % Word = 0
    /\ First < End
    /\ SizeCount \in Nat /\ End < AllocatedBit /\ StructSize < AllocatedBit
    /\ Requests \subseteq 0 .. SizeCount - 1
    /\ GlueRequests \subseteq Nat /\ Alignments \subseteq Nat \ {0}
    /\ \A n \in GlueRequests, al \in Alignments \cup {Word} : n + al < SizeCount
    /\ \A al \in Alignments : al % Word = 0 \/ Word % al = 0
    /\ MaxHeld \in Nat
    /\ None \notin Nat

VARIABLES
    size,       \* [Addresses -> Nat]: xBlockSize of the header at an address
    free,       \* the blocks in the free list
    used,       \* the blocks with the allocated bit
    freeBytes,  \* xFreeBytesRemaining
    leastFree,  \* xMinimumEverFreeBytesRemaining
    held,       \* the pointers handed out: [pointer, size, glue]
    word,       \* [Addresses -> what malloc stored in the word there]
    freeing     \* [Tasks -> the block a task is in vPortFree with]

vars == <<size, free, used, freeBytes, leastFree, held, word, freeing>>

Init ==
    /\ size = [a \in Addresses |-> IF a = First THEN End - First ELSE 0]
    /\ free = {First}
    /\ used = {}
    /\ freeBytes = End - First
    /\ leastFree = End - First
    /\ held = {}
    /\ word = [a \in Addresses |-> None]
    /\ freeing = [t \in Tasks |-> None]

--------------------------------------------------------------------------
(* prvInsertBlockIntoFreeList: the block is merged with the free block      *)
(* before it, if that ends where it begins, and with the one after it.      *)

\* pxIterator: the last free block before `a`, when it ends at `a`.
Adjoining(list, sizes, a) ==
    {b \in list : b < a /\ b + sizes[b] = a /\ \A c \in list : c < a => c <= b}
Following(list, sizes, a) == {b \in list : b = a + sizes[a]}

StartOf(list, sizes, a) ==
    IF Adjoining(list, sizes, a) = {} THEN a
    ELSE CHOOSE b \in Adjoining(list, sizes, a) : TRUE
EndOf(list, sizes, a) ==
    IF Following(list, sizes, a) = {} THEN a + sizes[a]
    ELSE a + sizes[a] + sizes[a + sizes[a]]

\* Mutant: the block after is merged and stays in the list.
InsertKeepsNext(list, sizes, a) == list \cup {StartOf(list, sizes, a)}
InsertIntoList(list, sizes, a) ==
    (list \ Following(list, sizes, a)) \cup {StartOf(list, sizes, a)}
InsertedSizes(list, sizes, a) ==
    [b \in Addresses |->
        IF b = StartOf(list, sizes, a) THEN EndOf(list, sizes, a) - b
        ELSE IF b \in {a} \cup Following(list, sizes, a) THEN 0 ELSE sizes[b]]

--------------------------------------------------------------------------
(* pvPortMalloc.                                                          *)

\* Mutant: no room for the header.
WantedWithoutHeader(n) ==
    LET up == RoundUp(n) % SizeCount
    IN  IF n >= AllocatedBit \/ n = 0 \/ up < n THEN 0 ELSE up

\* The size of the block for a request, 0 when there can be none.
WantedSize(n) ==
    LET whole == (n + StructSize) % SizeCount
        up    == RoundUp(whole) % SizeCount
    IN  IF n >= AllocatedBit \/ n = 0 \/ whole <= n \/ up < whole THEN 0 ELSE up

\* The first block that is large enough; pxEnd is never.
FirstFit(n) ==
    {b \in free : /\ size[b] >= WantedSize(n)
                  /\ \A c \in free : size[c] >= WantedSize(n) => b <= c}

MallocFails(n) ==
    \/ WantedSize(n) = 0
    \/ WantedSize(n) > freeBytes
    \/ FirstFit(n) = {}

\* Mutant: the size asked for is counted, not that of the block.
TakeBlockCountsWanted(n, b) ==
    LET wanted == WantedSize(n)
        rest   == b + wanted
        splits == size[b] - wanted > MinimumBlockSize
        sizes  == [size EXCEPT ![b] = wanted, ![rest] = size[b] - wanted]
    IN  /\ free' = IF splits THEN InsertIntoList(free \ {b}, sizes, rest) ELSE free \ {b}
        /\ size' = IF splits THEN InsertedSizes(free \ {b}, sizes, rest) ELSE size
        /\ used' = used \cup {b}
        /\ freeBytes' = freeBytes - wanted
        /\ leastFree' = IF freeBytes' < leastFree THEN freeBytes' ELSE leastFree
        /\ UNCHANGED freeing

\* Block b is handed out; the rest of it goes back to the list if it is more
\* than a minimum block.
TakeBlock(n, b) ==
    LET wanted == WantedSize(n)
        rest   == b + wanted
        splits == size[b] - wanted > MinimumBlockSize
        sizes  == [size EXCEPT ![b] = wanted, ![rest] = size[b] - wanted]
    IN  /\ free' = IF splits THEN InsertIntoList(free \ {b}, sizes, rest) ELSE free \ {b}
        /\ size' = IF splits THEN InsertedSizes(free \ {b}, sizes, rest) ELSE size
        /\ used' = used \cup {b}
        /\ freeBytes' = freeBytes - size'[b]
        /\ leastFree' = IF freeBytes' < leastFree THEN freeBytes' ELSE leastFree
        /\ UNCHANGED freeing

HandOut(p, n, glue) == held' = held \cup {[pointer |-> p, size |-> n, glue |-> glue]}
CanHold == Cardinality(held) < MaxHeld

\* The kernel's own objects.
PortMalloc(n) ==
    /\ CanHold
    /\ ~ MallocFails(n)
    /\ \E b \in FirstFit(n) :
          /\ TakeBlock(n, b)
          /\ HandOut(b + StructSize, n, FALSE)
    /\ UNCHANGED word

\* __wrap_malloc: one word more, which keeps the address of the allocation.
WrapMalloc(n) ==
    LET asked == (n + Word) % SizeCount
    IN  /\ CanHold
        /\ ~ MallocFails(asked)
        /\ \E b \in FirstFit(asked) :
              /\ TakeBlock(asked, b)
              /\ word' = [word EXCEPT ![b + StructSize] = b + StructSize]
              /\ HandOut(b + StructSize + Word, n, TRUE)

\* Mutant: an aligned pointer is handed out as it is.
WrapMemalignDown(alignment, n) ==
    LET al    == IF alignment < Word THEN Word ELSE alignment
        asked == (n + al) % SizeCount
    IN  /\ CanHold
        /\ ~ MallocFails(asked)
        /\ \E b \in FirstFit(asked) :
              LET p       == b + StructSize
                  aligned == p - (p % al)
              IN  /\ TakeBlock(asked, b)
                  /\ word' = [word EXCEPT ![aligned - Word] = p]
                  /\ HandOut(aligned, n, TRUE)

\* __wrap__memalign_r: the pointer is moved up to the next multiple of `al`.
WrapMemalign(alignment, n) ==
    LET al    == IF alignment < Word THEN Word ELSE alignment
        asked == (n + al) % SizeCount
    IN  /\ CanHold
        /\ ~ MallocFails(asked)
        /\ \E b \in FirstFit(asked) :
              LET p       == b + StructSize
                  aligned == p - (p % al) + al
              IN  /\ TakeBlock(asked, b)
                  /\ word' = [word EXCEPT ![aligned - Word] = p]
                  /\ HandOut(aligned, n, TRUE)

--------------------------------------------------------------------------
(* free and vPortFree.                                                    *)

\* The block vPortFree finds for a pointer that was handed out.
BlockOf(r) == (IF r.glue THEN word[r.pointer - Word] ELSE r.pointer) - StructSize

\* The allocated bit is cleared before the scheduler is suspended.
FreeBegin(t, r) ==
    /\ freeing[t] = None
    /\ r \in held
    /\ held' = held \ {r}
    /\ used' = used \ {BlockOf(r)}
    /\ freeing' = [freeing EXCEPT ![t] = BlockOf(r)]
    /\ word' = [word EXCEPT ![r.pointer - Word] = None]
    /\ UNCHANGED <<size, free, freeBytes, leastFree>>

FreeInsert(t) ==
    LET b == freeing[t]
    IN  /\ b # None
        /\ freeBytes' = freeBytes + size[b]
        /\ free' = InsertIntoList(free, size, b)
        /\ size' = InsertedSizes(free, size, b)
        /\ freeing' = [freeing EXCEPT ![t] = None]
        /\ UNCHANGED <<used, leastFree, held, word>>

Malloc(t) ==
    /\ freeing[t] = None
    /\ \/ \E n \in Requests : PortMalloc(n)
       \/ \E n \in GlueRequests : WrapMalloc(n)
       \/ \E n \in GlueRequests, al \in Alignments : WrapMemalign(al, n)

Next ==
    \E t \in Tasks : Malloc(t) \/ FreeInsert(t) \/ \E r \in held : FreeBegin(t, r)

Spec == Init /\ [][Next]_vars

--------------------------------------------------------------------------
(* Properties.                                                            *)

TypeOK ==
    /\ size \in [Addresses -> Nat]
    /\ free \subseteq Addresses /\ used \subseteq Addresses
    /\ freeBytes \in Int /\ leastFree \in Int
    /\ held \subseteq [pointer : Addresses, size : Nat, glue : BOOLEAN]
    /\ word \in [Addresses -> Addresses \cup {None}]
    /\ freeing \in [Tasks -> Addresses \cup {None}]

Leaving == {freeing[t] : t \in Tasks} \ {None}
Blocks  == free \cup used \cup Leaving

\* Every block begins where another ends, from the first address of the heap
\* to pxEnd, and is free, used or on its way back, never two of these; no two
\* free blocks adjoin, so that memory does not stay in fragments
\* (prvInsertBlockIntoFreeList and the split of pvPortMalloc).
Tiled ==
    /\ First \in Blocks
    /\ \A a \in Blocks :
          /\ size[a] > 0
          /\ a + size[a] \in Blocks \cup {End}
          /\ \A b \in Blocks : a < b => a + size[a] <= b
Separate ==
    /\ free \cap used = {}
    /\ Leaving \cap (free \cup used) = {}
    /\ \A t, u \in Tasks : t # u /\ freeing[t] # None => freeing[t] # freeing[u]
Coalesced == \A a \in free : a + size[a] \notin free
HeapShape == Tiled /\ Separate /\ Coalesced

\* xFreeBytesRemaining, which decides whether a request is tried at all, is
\* what the free list holds, and no less was ever
\* left than xMinimumEverFreeBytesRemaining says.
BytesCounted ==
    /\ freeBytes = MapThenSumSet(LAMBDA a : size[a], free)
    /\ leastFree <= freeBytes

\* Every pointer handed out has its size in the block that vPortFree will find
\* for it, behind the header, and the word with the address of the allocation
\* belongs to no other block (sys.cpp).  For requests that do not wrap in the glue.
RequestsFit ==
    \A r \in held :
        LET b == BlockOf(r)
        IN  /\ b \in used
            /\ b + StructSize + (IF r.glue THEN Word ELSE 0) <= r.pointer
            /\ r.pointer + r.size <= b + size[b]
            /\ \A other \in held \ {r} : BlockOf(other) # b

\* The ranges handed out are those of the contract.
Contract == INSTANCE AllocatorContract WITH
    Memory <- First .. End - 1,
    held   <- {[pointer |-> r.pointer, size |-> r.size] : r \in held}
ImplementsContract == Contract!Spec
=============================================================================
