------------------------------ MODULE LibcHeap ------------------------------
(***************************************************************************)
(* The C library's heap (lib/libc/src/stdlib.c): a list of blocks in a     *)
(* static array, first fit, split on allocation, merged on free.  Sizes    *)
(* are in units of 8 bytes, of which a header takes 3 and the alignment    *)
(* is 2; arithmetic on size_t wraps at SizeBits bits.  A byte of the array *)
(* is named by who wrote it last, so that a header or a neighbour that     *)
(* lands on a caller's data shows.                                         *)
(***************************************************************************)
EXTENDS Integers, Sequences, FiniteSets

CONSTANTS
    HEAP_SIZE,       \* LIBC_HEAP_SIZE
    HEAP_ALIGN,      \* LIBC_HEAP_ALIGN
    HEADER,          \* sizeof(struct heap_block)
    SizeBits,        \* the width of size_t
    Requests,        \* the sizes callers ask for
    Names            \* the allocations callers hold at a time

VARIABLES
    blocks,      \* heap_head's list, in its order: at, size and free
    bytes,       \* unit of heap_area -> who wrote it last
    holds        \* name -> NULL or the pointer, the size asked for, the data kept

heapVars == <<blocks, bytes, holds>>

NULL_PTR == [ptr |-> -1, size |-> 0, kept |-> 0]

HeapInit ==
    /\ blocks = <<>>
    /\ bytes = [x \in 0 .. HEAP_SIZE - 1 |-> "other"]
    /\ holds = [n \in Names |-> NULL_PTR]

align_up_size(value) ==
    (((value + HEAP_ALIGN - 1) % 2 ^ SizeBits) \div HEAP_ALIGN) * HEAP_ALIGN

heap_init(b) ==
    IF b = <<>> THEN <<[at |-> 0, size |-> HEAP_SIZE - HEADER, free |-> TRUE]>>
    ELSE b

(* The list with block i cut to size and the rest a free block after it. *)
split_block(b, i, size) ==
    SubSeq(b, 1, i - 1)
    \o <<[b[i] EXCEPT !.size = size],
         [at |-> b[i].at + HEADER + size, size |-> b[i].size - size - HEADER,
          free |-> TRUE]>>
    \o SubSeq(b, i + 1, Len(b))

split_if_worth_it(b, i, size) ==
    IF b[i].size >= size + HEADER + HEAP_ALIGN THEN split_block(b, i, size) ELSE b

(* Variant of absorb: the header that goes away is not gained. *)
absorb_data(b, i) ==
    SubSeq(b, 1, i - 1)
    \o <<[b[i] EXCEPT !.size = @ + b[i + 1].size]>>
    \o SubSeq(b, i + 2, Len(b))

(* Block i swallows its successor. *)
absorb(b, i) ==
    SubSeq(b, 1, i - 1)
    \o <<[b[i] EXCEPT !.size = @ + HEADER + b[i + 1].size]>>
    \o SubSeq(b, i + 2, Len(b))

RECURSIVE coalesce_blocks(_, _)
coalesce_blocks(b, i) ==
    IF i >= Len(b) THEN b
    ELSE IF b[i].free /\ b[i + 1].free THEN coalesce_blocks(absorb(b, i), i)
    ELSE coalesce_blocks(b, i + 1)

first_fit(b, size) == {i \in DOMAIN b :
    /\ b[i].free /\ b[i].size >= size
    /\ \A j \in 1 .. i - 1 : ~ (b[j].free /\ b[j].size >= size)}

take(b, i, size) == [split_if_worth_it(b, i, size) EXCEPT ![i].free = FALSE]

release(b, ptr) ==
    coalesce_blocks([i \in DOMAIN b |->
        IF b[i].at + HEADER = ptr THEN [b[i] EXCEPT !.free = TRUE] ELSE b[i]], 1)

(* The headers of a list, written into the array. *)
with_headers(m, b) ==
    [x \in DOMAIN m |->
        IF \E i \in DOMAIN b : x - b[i].at \in 0 .. HEADER - 1
        THEN "header" ELSE m[x]]

(* A caller writes all it asked for, as far as the array goes. *)
fill(m, n, ptr, size) ==
    [x \in DOMAIN m |-> IF x - ptr \in 0 .. size - 1 THEN n ELSE m[x]]

(* Only the bytes a caller relies on are told apart. *)
RelevantBytes(m, h) ==
    [x \in DOMAIN m |->
        IF \E n \in Names : x - h[n].ptr \in 0 .. h[n].kept - 1
        THEN m[x] ELSE "other"]

Wraps(size) == size + HEAP_ALIGN - 1 >= 2 ^ SizeBits

---------------------------------------------------------------------------
(* malloc(size), for a caller that then fills the block.  The bytes of a   *)
(* request that wraps are left alone: it is given fewer than it asked for. *)
Allocate(n, size) ==
    LET b == heap_init(blocks) IN
    IF size = 0 THEN UNCHANGED <<blocks, bytes, holds>>
    ELSE \/ /\ first_fit(b, align_up_size(size)) = {}
            /\ blocks' = b
            /\ UNCHANGED <<bytes, holds>>
         \/ \E i \in first_fit(b, align_up_size(size)) :
            LET used == IF Wraps(size) THEN 0 ELSE size IN
            /\ blocks' = take(b, i, align_up_size(size))
            /\ holds' = [holds EXCEPT ![n] = [ptr |-> b[i].at + HEADER,
                                              size |-> size, kept |-> used]]
            /\ bytes' = RelevantBytes(fill(with_headers(bytes, blocks'), n,
                                           b[i].at + HEADER, used), holds')

malloc(n, size) ==
    /\ holds[n] = NULL_PTR
    /\ Allocate(n, size)

(* calloc checks the product before it multiplies. *)
calloc(n, nmemb, size) ==
    /\ holds[n] = NULL_PTR
    /\ nmemb > 0 /\ size > 0
    /\ nmemb <= (2 ^ SizeBits - 1) \div size
    /\ Allocate(n, nmemb * size)

free(n) ==
    /\ holds[n] # NULL_PTR
    /\ blocks' = release(blocks, holds[n].ptr)
    /\ holds' = [holds EXCEPT ![n] = NULL_PTR]
    /\ bytes' = RelevantBytes(bytes, holds')

(* realloc in place: the block is large enough, or with the one after it. *)
Smaller(x, y) == IF x < y THEN x ELSE y

Kept(kept, size) == IF Wraps(size) THEN 0 ELSE Smaller(kept, size)

Resize(n, size, b) ==
    /\ blocks' = b
    /\ holds' = [holds EXCEPT ![n].size = size, ![n].kept = Kept(@, size)]
    /\ bytes' = RelevantBytes(with_headers(bytes, b), holds')

(* memcpy to a new block, free of the old one. *)
Move(n, size, b, i, old, length) ==
    LET new == b[i].at + HEADER
        copied == [x \in DOMAIN bytes |->
                     IF x - new \in 0 .. length - 1 THEN bytes[old + x - new]
                     ELSE with_headers(bytes, b)[x]] IN
    /\ blocks' = release(b, old)
    /\ holds' = [holds EXCEPT ![n] = [ptr |-> new, size |-> size,
                                      kept |-> Kept(@.kept, size)]]
    /\ bytes' = RelevantBytes(copied, holds')

realloc(n, size) ==
    LET i == CHOOSE k \in DOMAIN blocks : blocks[k].at + HEADER = holds[n].ptr
        aligned_size == align_up_size(size)
        fit == first_fit(blocks, aligned_size) IN
    /\ holds[n] # NULL_PTR
    /\ size > 0
    /\ IF blocks[i].size >= aligned_size
       THEN Resize(n, size, split_if_worth_it(blocks, i, aligned_size))
       ELSE IF /\ i < Len(blocks)
               /\ blocks[i + 1].free
               /\ blocks[i].size + HEADER + blocks[i + 1].size >= aligned_size
       THEN Resize(n, size, split_if_worth_it(absorb(blocks, i), i, aligned_size))
       ELSE IF fit = {}
       THEN UNCHANGED heapVars
       ELSE \E k \in fit :
              Move(n, size, take(blocks, k, aligned_size), k, holds[n].ptr,
                   Smaller(blocks[i].size, size))

HeapNext ==
    \E n \in Names :
       \/ free(n)
       \/ \E size \in Requests : malloc(n, size) \/ realloc(n, size)
       \/ \E count \in {2}, size \in Requests : calloc(n, count, size)

---------------------------------------------------------------------------
(***************************************************************************)
(* Whatever is allocated, resized and freed in whatever order: the blocks  *)
(* tile the array, a caller's pointer is a block in use that no other      *)
(* caller has, it holds what was asked for (unless rounding the request up *)
(* wrapped), and every byte the caller stored and did not give up is still *)
(* there, also after a realloc that moved or merged the block              *)
(* (split_block, coalesce_blocks, malloc, realloc).                        *)
(***************************************************************************)
HeapKeepsData ==
    /\ blocks # <<>> =>
          /\ blocks[1].at = 0
          /\ \A i \in DOMAIN blocks :
                blocks[i].at + HEADER + blocks[i].size =
                    IF i = Len(blocks) THEN HEAP_SIZE ELSE blocks[i + 1].at
    /\ \A n \in {k \in Names : holds[k] # NULL_PTR} :
          /\ \E i \in DOMAIN blocks :
                /\ blocks[i].at + HEADER = holds[n].ptr
                /\ ~ blocks[i].free
                /\ Wraps(holds[n].size) \/ blocks[i].size >= holds[n].size
          /\ \A x \in 0 .. holds[n].kept - 1 : bytes[holds[n].ptr + x] = n
          /\ \A m \in Names \ {n} : holds[m].ptr # holds[n].ptr
=============================================================================
