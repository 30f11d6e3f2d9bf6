-------------------------------- MODULE Slab --------------------------------
(***************************************************************************)
(* The kernel heap: kernel/mm/slab.c.                                      *)
(*                                                                         *)
(* A slab is one page: a header, then obj_per_slab objects of the aligned  *)
(* size.  A pointer is a page and an offset in it.  The page allocator is  *)
(* what Buddy shows it to be: it hands out aligned blocks of free pages,   *)
(* marks the first page of a block of more than one page with its order,   *)
(* or fails.                                                               *)
(*                                                                         *)
(* The cache's lock covers an operation, except that slab_alloc drops it   *)
(* to get a page for a new slab; callers that meet in that gap interleave. *)
(* The totals of allocations and frees are left out.                       *)
(***************************************************************************)
EXTENDS Integers, Sequences, FiniteSets, FiniteSetsExt, SequencesExt

CONSTANTS
    Frames,       \* the page frames of the heap: 0 .. n - 1
    PageBytes,    \* PAGE_SIZE
    HeaderBytes,  \* sizeof(struct slab)
    Classes,      \* the kmalloc size classes in use, by their obj_size
    Sizes,        \* the sizes callers ask for
    Callers,      \* the contexts that allocate concurrently
    MaxLive       \* bound: allocations alive at a time

VARIABLES
    free_frames,  \* the page allocator's free pages
    meta,         \* flags and order of each page: [slab, order], order > 0
                  \*   for the first page of a compound block
    caches,       \* caches that exist: class -> the page of struct slab_cache
    slabs,        \* page -> [cache, freelist, inuse, free]
    slab_list,    \* class -> [full, partial, free]: lists of pages, newest first
    total_slabs,  \* class -> cache->total_slabs
    active_objs,  \* class -> cache->active_objs
    new_slab,     \* caller -> slab_alloc between unlock and lock:
                  \*   [cache, page, size]
    live          \* the allocations alive: [page, off, size, order]

slabVars == <<free_frames, meta, caches, slabs, slab_list, total_slabs,
              active_objs, new_slab, live>>

NoSlab == [cache |-> 0, page |-> -1, size |-> 0]
NoMeta == [slab |-> FALSE, order |-> 0]
NoLists == [full |-> <<>>, partial |-> <<>>, free |-> <<>>]

get_aligned_size(obj_size, align) ==
    LET aligned == ((obj_size + align - 1) \div align) * align
    IN  IF aligned < 8 THEN 8 ELSE aligned

\* Variant of calc_obj_per_slab: forgets the header.
calc_obj_per_page(obj_size, align) == PageBytes \div get_aligned_size(obj_size, align)

calc_obj_per_slab(obj_size, align) ==
    (PageBytes - HeaderBytes) \div get_aligned_size(obj_size, align)

\* kmalloc_init creates the class of size s with alignment s.
obj_per_slab(c) == calc_obj_per_slab(c, c)
ObjectAt(c, i) == HeaderBytes + i * get_aligned_size(c, c)

\* The smallest class that holds size; none: the page allocator serves it.
kmalloc_cache_for_size(size) == {c \in Classes : c >= size /\
                                  \A d \in Classes : d >= size => c <= d}

\* kmalloc's loop: the least order with 2^order pages of at least size bytes.
large_order(size) ==
    Min({o \in 0 .. 20 : 2^o >= (size + PageBytes - 1) \div PageBytes})

Block(p, o) == p .. p + 2^o - 1
FreeBlocksOf(o) == {p \in free_frames : p % 2^o = 0 /\ Block(p, o) \subseteq free_frames}

del(list, p) == SelectSeq(list, LAMBDA q : q # p)
add(list, p) == <<p>> \o list

SlabInit ==
    /\ free_frames = Frames
    /\ meta = [p \in Frames |-> NoMeta]
    /\ caches = <<>>
    /\ slabs = <<>>
    /\ slab_list = [c \in Classes |-> NoLists]
    /\ total_slabs = [c \in Classes |-> 0]
    /\ active_objs = [c \in Classes |-> 0]
    /\ new_slab = [a \in Callers |-> NoSlab]
    /\ live = {}

slab_cache_create(c) ==
    /\ c \notin DOMAIN caches
    /\ \E p \in FreeBlocksOf(0) :
         /\ free_frames' = free_frames \ {p}
         /\ caches' = [d \in DOMAIN caches \cup {c} |->
                         IF d = c THEN p ELSE caches[d]]
    /\ slab_list' = [slab_list EXCEPT ![c] = NoLists]
    /\ total_slabs' = [total_slabs EXCEPT ![c] = 0]
    /\ active_objs' = [active_objs EXCEPT ![c] = 0]
    /\ UNCHANGED <<meta, slabs, new_slab, live>>

\* The freelist starts out in address order.
fresh_slab(c) ==
    [cache |-> c, inuse |-> 0, free |-> obj_per_slab(c),
     freelist |-> [i \in 1 .. obj_per_slab(c) |-> ObjectAt(c, i - 1)]]

\* The tail of slab_alloc: the first object of slab s, which is on lists l.
take_object(c, p, s, l, size) ==
    LET s1 == [s EXCEPT !.freelist = Tail(@), !.inuse = @ + 1, !.free = @ - 1]
        full == s1.free = 0
    IN  /\ slabs' = [q \in DOMAIN slabs \cup {p} |->
                       IF q = p THEN s1 ELSE slabs[q]]
        /\ slab_list' = [slab_list EXCEPT ![c] =
              IF full THEN [l EXCEPT !.partial = del(@, p), !.full = add(@, p)]
              ELSE l]
        /\ active_objs' = [active_objs EXCEPT ![c] = @ + 1]
        /\ live' = live \cup {[page |-> p, off |-> Head(s.freelist),
                               size |-> size, order |-> 0]}

\* A partial slab first, then a free one, which becomes partial.
slab_alloc(c, size) ==
    LET l == slab_list[c]
        p == Head(IF l.partial # <<>> THEN l.partial ELSE l.free)
    IN  /\ l.partial # <<>> \/ l.free # <<>>
        /\ take_object(c, p, slabs[p],
              IF l.partial # <<>> THEN l
              ELSE [l EXCEPT !.free = del(@, p), !.partial = add(@, p)], size)
        /\ UNCHANGED <<free_frames, meta, caches, total_slabs, new_slab>>

\* Neither: the lock is dropped and slab_alloc_new gets a page.
slab_alloc_new(a, c, size) ==
    /\ slab_list[c].partial = <<>> /\ slab_list[c].free = <<>>
    /\ \E p \in FreeBlocksOf(0) :
         /\ free_frames' = free_frames \ {p}
         /\ meta' = [meta EXCEPT ![p].slab = TRUE]
         /\ slabs' = [q \in DOMAIN slabs \cup {p} |->
                        IF q = p THEN fresh_slab(c) ELSE slabs[q]]
         /\ new_slab' = [new_slab EXCEPT ![a] =
                          [cache |-> c, page |-> p, size |-> size]]
    /\ total_slabs' = [total_slabs EXCEPT ![c] = @ + 1]
    /\ UNCHANGED <<caches, slab_list, active_objs, live>>

\* The lock is taken again: the new slab goes on the partial list.
slab_alloc_resume(a) ==
    LET c == new_slab[a].cache  p == new_slab[a].page
    IN  /\ new_slab[a] # NoSlab
        /\ take_object(c, p, slabs[p],
              [slab_list[c] EXCEPT !.partial = add(@, p)], new_slab[a].size)
        /\ new_slab' = [new_slab EXCEPT ![a] = NoSlab]
        /\ UNCHANGED <<free_frames, meta, caches, total_slabs>>

\* size 0 is refused before anything happens.
kmalloc(a, size) ==
    /\ size > 0 /\ Cardinality(live) < MaxLive
    /\ new_slab[a] = NoSlab
    /\ IF kmalloc_cache_for_size(size) # {}
       THEN \E c \in kmalloc_cache_for_size(size) \cap DOMAIN caches :
              slab_alloc(c, size) \/ slab_alloc_new(a, c, size)
       ELSE \E p \in FreeBlocksOf(large_order(size)) :
              LET o == large_order(size)
              IN  /\ free_frames' = free_frames \ Block(p, o)
                  /\ meta' = [meta EXCEPT ![p].order = o]
                  /\ live' = live \cup {[page |-> p, off |-> 0,
                                         size |-> size, order |-> o]}
                  /\ UNCHANGED <<caches, slabs, slab_list, total_slabs,
                                 active_objs, new_slab>>

\* Pages of empty slabs go back to the page allocator.
slab_free_slabs(c, pages) ==
    /\ free_frames' = free_frames \cup pages
    /\ meta' = [p \in Frames |-> IF p \in pages THEN NoMeta ELSE meta[p]]
    /\ slabs' = [p \in DOMAIN slabs \ pages |-> slabs[p]]

slab_free(c, p, off) ==
    LET s == slabs[p]
        s1 == [s EXCEPT !.freelist = <<off>> \o @, !.inuse = @ - 1, !.free = @ + 1]
        off_lists == [full |-> del(slab_list[c].full, p),
                      partial |-> del(slab_list[c].partial, p),
                      free |-> del(slab_list[c].free, p)]
    IN  /\ slabs' = [slabs EXCEPT ![p] = s1]
        /\ slab_list' = [slab_list EXCEPT ![c] =
              IF s1.inuse = 0 THEN [off_lists EXCEPT !.free = add(@, p)]
              ELSE IF s1.free = 1 THEN [off_lists EXCEPT !.partial = add(@, p)]
              ELSE slab_list[c]]
        /\ active_objs' = [active_objs EXCEPT ![c] = @ - 1]
        /\ UNCHANGED <<free_frames, meta, caches, total_slabs, new_slab>>

\* Callers free what they allocated.  A pointer into a page that is not a
\* slab is a whole block; only its first page says how large the block is.
kfree(x) ==
    /\ live' = live \ {x}
    /\ IF meta[x.page].slab THEN slab_free(slabs[x.page].cache, x.page, x.off)
       ELSE /\ x.off = 0
            /\ free_frames' = free_frames \cup Block(x.page, meta[x.page].order)
            /\ meta' = [meta EXCEPT ![x.page] = NoMeta]
            /\ UNCHANGED <<caches, slabs, slab_list, total_slabs,
                           active_objs, new_slab>>

ksize(x) ==
    IF meta[x.page].slab THEN slabs[x.page].cache
    ELSE 2^meta[x.page].order * PageBytes

slab_cache_shrink(c) ==
    LET empty == Range(slab_list[c].free)
    IN  /\ empty # {}
        /\ slab_free_slabs(c, empty)
        /\ slab_list' = [slab_list EXCEPT ![c].free = <<>>]
        /\ total_slabs' = [total_slabs EXCEPT ![c] = @ - Cardinality(empty)]
        /\ UNCHANGED <<caches, active_objs, new_slab, live>>

\* Its owner destroys a cache with no object in use and no allocation under way.
slab_cache_destroy(c) ==
    LET l == slab_list[c]
        all == Range(l.full) \cup Range(l.partial) \cup Range(l.free)
    IN  /\ c \in DOMAIN caches
        /\ active_objs[c] = 0 /\ \A a \in Callers : new_slab[a].cache # c
        /\ free_frames' = free_frames \cup all \cup {caches[c]}
        /\ meta' = [p \in Frames |-> IF p \in all THEN NoMeta ELSE meta[p]]
        /\ slabs' = [p \in DOMAIN slabs \ all |-> slabs[p]]
        /\ caches' = [d \in DOMAIN caches \ {c} |-> caches[d]]
        /\ slab_list' = [slab_list EXCEPT ![c] = NoLists]
        /\ total_slabs' = [total_slabs EXCEPT ![c] = @ - Cardinality(all)]
        /\ UNCHANGED <<active_objs, new_slab, live>>

SlabNext ==
    \/ \E c \in Classes : slab_cache_create(c)
    \/ \E a \in Callers, size \in Sizes : kmalloc(a, size)
    \/ \E a \in Callers : slab_alloc_resume(a)
    \/ \E x \in live : kfree(x)
    \/ \E c \in Classes : slab_cache_shrink(c)
    \/ \E c \in Classes : slab_cache_destroy(c)

----------------------------------------------------------------------------
(* What must hold. *)

Overlap(x, y) ==
    LET sx == x.page * PageBytes + x.off  sy == y.page * PageBytes + y.off
    IN  sx < sy + y.size /\ sy < sx + x.size

Live(p) == {x \in live : x.page = p}

\* Two allocations never share a byte, none reaches into a slab header or past
\* its block, and ksize is at least what was asked for (kmalloc, slab_alloc,
\* slab_alloc_new's layout of a slab).
AllocationsDisjoint ==
    /\ \A x, y \in live : x # y => ~Overlap(x, y)
    /\ \A x \in live :
         /\ ksize(x) >= x.size
         /\ IF x.page \in DOMAIN slabs
            THEN x.off >= HeaderBytes /\ x.off + slabs[x.page].cache <= PageBytes
            ELSE x.off = 0 /\ meta[x.page].order = x.order

\* A slab is on the one list its counts call for, its freelist and the objects
\* in use are all its objects, also when two callers found no slab and each
\* brought one while the lock was free (slab_alloc), and after any sequence of
\* frees (slab_free).  Every page is free, a slab, a cache, or part of one large
\* allocation: the heap loses none and frees none twice (kfree, slab_free_slab);
\* and so no two allocations overlap (AllocationsDisjoint).
SlabListsExact ==
    LET large == {x \in live : x.page \notin DOMAIN slabs}
        used == DOMAIN slabs \cup Range(caches)
                \cup UNION {Block(x.page, x.order) : x \in large}
    IN  /\ \A c \in DOMAIN caches :
             LET l == slab_list[c]  all == l.full \o l.partial \o l.free
                 waiting == {new_slab[a].page : a \in {b \in Callers : new_slab[b].cache = c}}
             IN  /\ Cardinality(Range(all)) = Len(all)
                 /\ Range(all) \cup waiting = {p \in DOMAIN slabs : slabs[p].cache = c}
                 /\ Range(all) \cap waiting = {}
                 /\ Range(l.full) = {p \in Range(all) : slabs[p].free = 0}
                 /\ Range(l.free) = {p \in Range(all) : slabs[p].inuse = 0}
                 /\ total_slabs[c] = Cardinality(Range(all) \cup waiting)
                 /\ active_objs[c] = Cardinality({x \in live : x.page \in Range(all)})
        /\ \A p \in DOMAIN slabs :
             LET s == slabs[p]  inUse == {x.off : x \in Live(p)}
             IN  /\ s.free = Len(s.freelist) /\ s.inuse = Cardinality(inUse)
                 /\ Range(s.freelist) \cap inUse = {}
                 /\ Range(s.freelist) \cup inUse =
                      {ObjectAt(s.cache, i) : i \in 0 .. obj_per_slab(s.cache) - 1}
        /\ free_frames = Frames \ used
        /\ \A p \in Frames : meta[p].slab <=> p \in DOMAIN slabs
        /\ AllocationsDisjoint
=============================================================================
