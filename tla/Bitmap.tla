------------------------------- MODULE Bitmap -------------------------------
(***************************************************************************)
(* The memory bitmap: kernel/mm/bitmap.c.                                  *)
(*                                                                         *)
(* One bit per page frame, in words of WordBits bits; a set bit is a page  *)
(* that is used or reserved.  pmm_init marks the bitmap and reads it once  *)
(* (see Buddy); after that it is a fallback allocator of its own, whose    *)
(* operations are the actions below.  Every operation runs under           *)
(* mem_bitmap.lock, so it is one step.                                     *)
(*                                                                         *)
(* Physical addresses are counted in units of which PAGE_SIZE make a page, *)
(* so that rounding to pages is visible.                                   *)
(***************************************************************************)
EXTENDS Integers, FiniteSets, FiniteSetsExt

CONSTANTS
    WordBits,     \* bits in a word of the bitmap, 64 in the code
    PAGE_SIZE,    \* address units in a page
    NrBits,       \* mem_bitmap.nr_bits, when the bitmap is run by itself
    MaxRange      \* longest range a caller asks the bitmap for

ASSUME BitmapConstants ==
    /\ WordBits \in Nat \ {0}
    /\ NrBits \in Nat
    /\ MaxRange \in Nat

VARIABLES
    bits,         \* mem_bitmap.bits: the numbers of the set bits
    taken         \* the callers' ranges: [pfn, nr]

bitmapVars == <<bits, taken>>

NoPfn == -1       \* (pfn_t)-1

PAGE_ALIGN_DOWN(addr) == addr \div PAGE_SIZE
PAGE_ALIGN(addr) == (addr + PAGE_SIZE - 1) \div PAGE_SIZE

nr_words(max_pfn) == (max_pfn + WordBits - 1) \div WordBits

\* All bits of all words are set, the padding of the last word included.
mem_bitmap_init(max_pfn) == 0 .. nr_words(max_pfn) * WordBits - 1

PfnRange(start_pfn, nr_pages, nr_bits) ==
    {p \in start_pfn .. start_pfn + nr_pages - 1 : p >= 0 /\ p < nr_bits}

\* Variant of bitmap_set_range: the last page of the range is left out.
bitmap_set_range_short(b, start_pfn, nr_pages, nr_bits) ==
    b \cup PfnRange(start_pfn, nr_pages - 1, nr_bits)

bitmap_set_range(b, start_pfn, nr_pages, nr_bits) ==
    b \cup PfnRange(start_pfn, nr_pages, nr_bits)

bitmap_clear_range(b, start_pfn, nr_pages, nr_bits) ==
    b \ PfnRange(start_pfn, nr_pages, nr_bits)

\* A page is usable only when it lies in the range entirely.
mem_bitmap_mark_usable(b, start, end, nr_bits) ==
    bitmap_clear_range(b, PAGE_ALIGN(start),
                       PAGE_ALIGN_DOWN(end) - PAGE_ALIGN(start), nr_bits)

\* A page is reserved when any part of it lies in the range.
mem_bitmap_mark_reserved(b, start, end, nr_bits) ==
    bitmap_set_range(b, PAGE_ALIGN_DOWN(start),
                     PAGE_ALIGN(end) - PAGE_ALIGN_DOWN(start), nr_bits)

mem_bitmap_is_usable(b, pfn, nr_bits) == pfn \in (0 .. nr_bits - 1) \ b

\* The clear bits of all words, less the padding bits.
bitmap_count_free(b, nr_bits) ==
    LET words == nr_words(nr_bits) * WordBits
    IN  Cardinality((0 .. words - 1) \ b) - (words - nr_bits)

\* Words are searched in turn, and in the first word that is not full its
\* bits are; a clear bit past nr_bits does not count.
bitmap_find_free(b, nr_bits) ==
    LET inWord(i) == {p \in i * WordBits .. (i + 1) * WordBits - 1 :
                        p \notin b /\ p < nr_bits}
        found == {i \in 0 .. nr_words(nr_bits) - 1 : inWord(i) # {}}
    IN  IF found = {} THEN NoPfn ELSE Min(inWord(Min(found)))

\* The scan's count of clear bits in a row up to pfn.
clear_run(b, nr_bits) ==
    LET count[pfn \in -1 .. nr_bits - 1] ==
            IF pfn = -1 \/ pfn \in b THEN 0 ELSE count[pfn - 1] + 1
    IN  count

\* The scan stops where the count first reaches nr_pages and answers where that
\* row began.
bitmap_find_free_range(b, nr_pages, nr_bits) ==
    LET count == clear_run(b, nr_bits)
        stops == {pfn \in 0 .. nr_bits - 1 :
                    count[pfn] > 0 /\ count[pfn] >= nr_pages}
    IN  IF stops = {} THEN NoPfn ELSE Min(stops) - count[Min(stops)] + 1

BitmapInit ==
    /\ \E usable \in SUBSET (0 .. NrBits - 1) :
         bits = mem_bitmap_init(NrBits) \ usable
    /\ taken = {}

mem_bitmap_alloc_page ==
    LET pfn == bitmap_find_free(bits, NrBits)
    IN  /\ pfn # NoPfn
        /\ bits' = bits \cup {pfn}
        /\ taken' = taken \cup {[pfn |-> pfn, nr |-> 1]}

mem_bitmap_alloc_pages(nr_pages) ==
    LET pfn == bitmap_find_free_range(bits, nr_pages, NrBits)
    IN  /\ pfn # NoPfn
        /\ bits' = bitmap_set_range(bits, pfn, nr_pages, NrBits)
        /\ taken' = taken \cup {[pfn |-> pfn, nr |-> nr_pages]}

\* Callers give back what they took.
mem_bitmap_free_page(r) ==
    /\ r.nr = 1
    /\ bits' = bits \ PfnRange(r.pfn, 1, NrBits)
    /\ taken' = taken \ {r}

mem_bitmap_free_pages(r) ==
    /\ r.nr > 1
    /\ bits' = bitmap_clear_range(bits, r.pfn, r.nr, NrBits)
    /\ taken' = taken \ {r}

BitmapNext ==
    \/ mem_bitmap_alloc_page
    \/ \E n \in 1 .. MaxRange : mem_bitmap_alloc_pages(n)
    \/ \E r \in taken : mem_bitmap_free_page(r)
    \/ \E r \in taken : mem_bitmap_free_pages(r)

BitmapSpec == BitmapInit /\ [][BitmapNext]_bitmapVars

----------------------------------------------------------------------------
(* What must hold. *)

\* The ranges handed out do not overlap, are set in the bitmap and lie inside
\* it, and the two word-by-word searches answer what a search of the set of
\* clear bits would: the lowest page, and the lowest run of n pages, when there
\* is one at all (bitmap_find_free, bitmap_find_free_range).
BitmapExact ==
    LET clear == (0 .. NrBits - 1) \ bits
        starts(n) == {p \in clear : p .. p + n - 1 \subseteq clear}
        lowest(S) == IF S = {} THEN NoPfn ELSE Min(S)
    IN  /\ \A r \in taken : r.pfn .. r.pfn + r.nr - 1 \subseteq bits \cap (0 .. NrBits - 1)
        /\ \A r, t \in taken : r = t \/ r.pfn + r.nr <= t.pfn \/ t.pfn + t.nr <= r.pfn
        /\ bitmap_find_free(bits, NrBits) = lowest(clear)
        /\ \A n \in 1 .. MaxRange :
              bitmap_find_free_range(bits, n, NrBits) = lowest(starts(n))
=============================================================================
