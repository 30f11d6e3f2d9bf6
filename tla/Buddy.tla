-------------------------------- MODULE Buddy --------------------------------
(***************************************************************************)
(* Physical memory: the boot-time set-up and the page interface of         *)
(* kernel/mm/pmm.c over the buddy allocator of kernel/mm/buddy.c.          *)
(*                                                                         *)
(* zone->lock is held with interrupts off for the whole of an allocation   *)
(* or a free, so each is one step.  A free_area is its list, newest first. *)
(* The statistics alloc_count and free_count are left out; free_pages is   *)
(* kept, because alloc_pages decides by it.                                *)
(***************************************************************************)
EXTENDS Bitmap, Sequences, SequencesExt

CONSTANTS
    MAX_ORDER,     \* blocks have 2^0 to 2^(MAX_ORDER - 1) pages
    ZoneEnd,       \* the end of each zone but the last, ascending: a sequence
    MemMaps,       \* the memory maps the boot loader may hand over
    PageStruct,    \* sizeof(struct page), in the units of PAGE_SIZE
    DriftCap       \* bound: no step takes the free_pages of a zone, which drift up, past it

VARIABLES
    memmap,        \* boot_info.memmap, a sequence of [type, base, length]
    initialized,   \* pmm.initialized
    page_flags,    \* page_array[pfn].flags
    page_order,    \* page_array[pfn].order
    free_area,     \* zones[z].free_area[o]: [free_list, nr_free]
    free_pages,    \* zones[z].free_pages
    held,          \* the blocks callers hold: [pfn, order, compound]
    stray          \* history: a block was merged with what lies behind page_array

zoneVars == <<free_area, free_pages, stray>>
pmmVars == <<bitmapVars, memmap, initialized, page_flags, page_order,
             zoneVars, held>>

Orders == 0 .. MAX_ORDER - 1
Zones == 0 .. Len(ZoneEnd)
Flags == {"RESERVED", "BUDDY", "COMPOUND", "HEAD", "TAIL"}
Pages(pfn, o) == pfn .. pfn + 2^o - 1

----------------------------------------------------------------------------
(* The memory map and the boot allocator. *)

ofType(types) == {e \in Range(memmap) : e.type \in types}

\* Reserved regions do not count for the highest address.
max_pfn ==
    PAGE_ALIGN_DOWN(Max({0} \cup {e.base + e.length : e \in
        ofType({"USABLE", "BOOTLOADER_RECLAIMABLE", "ACPI_RECLAIMABLE",
                "KERNEL_AND_MODULES"})}))

\* The first of the largest usable regions.
boot_region ==
    LET best == Min({i \in DOMAIN memmap :
                  /\ memmap[i].type = "USABLE"
                  /\ \A e \in ofType({"USABLE"}) : e.length <= memmap[i].length})
    IN  memmap[best]

\* boot_alloc_pages bumps a pointer: the bitmap first, then the page array.
bitmap_base == PAGE_ALIGN(boot_region.base)
bitmap_pages == PAGE_ALIGN(nr_words(max_pfn))
page_array_base == bitmap_base + bitmap_pages
page_array_pages == PAGE_ALIGN(max_pfn * PageStruct)

boot_alloc_fits ==
    (page_array_base + page_array_pages) * PAGE_SIZE
        <= boot_region.base + boot_region.length

pfn_to_zone_type(pfn) ==
    Min({z \in Zones : z = Len(ZoneEnd) \/ pfn < ZoneEnd[z + 1]})

zone_start(z) == IF z = 0 THEN 0 ELSE ZoneEnd[z]
zone_end(z) == IF z = Len(ZoneEnd) THEN max_pfn ELSE ZoneEnd[z + 1]

\* What pmm_init leaves in the bitmap.
boot_bitmap ==
    LET usable == ofType({"USABLE", "BOOTLOADER_RECLAIMABLE"})
        marked == FoldSet(LAMBDA e, b : mem_bitmap_mark_usable(b, e.base,
                              e.base + e.length, max_pfn),
                          mem_bitmap_init(max_pfn), usable)
        bitmap == mem_bitmap_mark_reserved(marked, boot_region.base,
                      page_array_base * PAGE_SIZE, max_pfn)
    IN  mem_bitmap_mark_reserved(bitmap, page_array_base * PAGE_SIZE,
            page_array_base * PAGE_SIZE + max_pfn * PageStruct, max_pfn)

----------------------------------------------------------------------------
(* The buddy allocator. *)

buddy_pfn(pfn, o) == IF (pfn \div 2^o) % 2 = 0 THEN pfn + 2^o ELSE pfn - 2^o

\* combined_pfn applied once for every order below o.
combined_pfn(pfn, o) == (pfn \div 2^o) * 2^o

\* Variant of page_is_buddy: the order of the free block is not compared.
page_is_buddy_any(z, pfn, o) ==
    IF ~(pfn >= zone_start(z) /\ pfn < zone_end(z)) THEN {FALSE}
    ELSE IF pfn >= max_pfn THEN BOOLEAN
    ELSE {"BUDDY" \in page_flags[pfn]}

\* The zone may end past the page array; what a struct page there holds is
\* whatever the memory behind the array holds, so either answer is possible.
page_is_buddy(z, pfn, o) ==
    IF ~(pfn >= zone_start(z) /\ pfn < zone_end(z)) THEN {FALSE}
    ELSE IF pfn >= max_pfn THEN BOOLEAN
    ELSE {"BUDDY" \in page_flags[pfn] /\ page_order[pfn] = o}

add_to_free_area(area, pfn) ==
    [free_list |-> <<pfn>> \o area.free_list, nr_free |-> area.nr_free + 1]

remove_from_free_area(area, pfn) ==
    [free_list |-> SelectSeq(area.free_list, LAMBDA p : p # pfn),
     nr_free |-> area.nr_free - 1]

\* The largest aligned block that fits, from pfn on: the orders and their
\* places, in the order they are added.
RECURSIVE blocks_from(_, _)
blocks_from(pfn, end_pfn) ==
    IF pfn >= end_pfn THEN <<>>
    ELSE LET o == Max({k \in Orders : k = 0 \/ (pfn % 2^k = 0
                                               /\ pfn + 2^k <= end_pfn)})
         IN  <<[pfn |-> pfn, order |-> o]>> \o blocks_from(pfn + 2^o, end_pfn)

\* A run ends at a reserved page and at the end of a zone.
runs(usable) ==
    LET first(p) == p \in usable /\ (p - 1 \notin usable \/
                        pfn_to_zone_type(p - 1) # pfn_to_zone_type(p))
        end(p) == Min({q \in p + 1 .. max_pfn :
                        q \notin usable \/ first(q)})
    IN  {[start |-> p, end |-> end(p)] :
            p \in {q \in usable : first(q)}}

\* add_usable_memory walks the page array upwards.
boot_blocks(usable) ==
    LET ordered == SetToSortSeq(runs(usable), LAMBDA a, b : a.start < b.start)
    IN  FoldLeft(LAMBDA acc, r : acc \o blocks_from(r.start, r.end), <<>>, ordered)

----------------------------------------------------------------------------
PmmInit ==
    /\ memmap \in MemMaps
    /\ initialized = FALSE
    /\ page_flags = <<>> /\ page_order = <<>>
    /\ free_area = [z \in Zones |-> [o \in Orders |->
                        [free_list |-> <<>>, nr_free |-> 0]]]
    /\ free_pages = [z \in Zones |-> 0]
    /\ held = {}
    /\ stray = FALSE

BuddyInit == PmmInit /\ bits = {} /\ taken = {}

\* A boot allocator that runs out of memory is a panic.
pmm_init ==
    /\ ~initialized
    /\ boot_alloc_fits
    /\ bits' = boot_bitmap
    /\ LET usable == {p \in 0 .. max_pfn - 1 :
                        mem_bitmap_is_usable(boot_bitmap, p, max_pfn)}
           added == boot_blocks(usable)
           inArea(z, o) == SelectSeq(added, LAMBDA b :
                             b.order = o /\ pfn_to_zone_type(b.pfn) = z)
           orderOf(p) == {b.order : b \in {c \in Range(added) : c.pfn = p}}
       IN  /\ page_flags' = [p \in 0 .. max_pfn - 1 |->
                                IF p \notin usable THEN {"RESERVED"}
                                ELSE IF orderOf(p) # {} THEN {"BUDDY"} ELSE {}]
           /\ page_order' = [p \in 0 .. max_pfn - 1 |->
                                IF orderOf(p) # {} THEN Max(orderOf(p)) ELSE 0]
           /\ free_area' = [z \in Zones |-> [o \in Orders |->
                 FoldLeft(LAMBDA a, b : add_to_free_area(a, b.pfn),
                          free_area[z][o], inArea(z, o))]]
           /\ free_pages' = [z \in Zones |-> FoldLeft(
                 LAMBDA n, b : IF pfn_to_zone_type(b.pfn) = z
                               THEN n + 2^b.order ELSE n, 0, added)]
    /\ initialized' = TRUE
    /\ UNCHANGED <<memmap, taken, held, stray>>

\* The block buddy_alloc_pages takes from: first entry, smallest order.
has_block(z, o) == \E c \in Orders : c >= o /\ free_area[z][c].free_list # <<>>
from_order(z, o) ==
    Min({c \in Orders : c >= o /\ free_area[z][c].free_list # <<>>})
alloc_page_of(z, o) == Head(free_area[z][from_order(z, o)].free_list)

\* expand adds the upper half of every order from the block's down to o.
expand(z, o) ==
    LET c == from_order(z, o)  page == alloc_page_of(z, o)
    IN  [k \in Orders |->
            IF k = c THEN remove_from_free_area(free_area[z][k], page)
            ELSE IF k \in o .. c - 1
                 THEN add_to_free_area(free_area[z][k], page + 2^k)
                 ELSE free_area[z][k]]

\* free_pages after the split: every half added back is counted.
free_pages_after_alloc(z, o) ==
    LET c == from_order(z, o)
    IN  free_pages[z] + (2^c - 2^o) - 2^o

buddy_alloc_pages(z, o, compound) ==
    LET c == from_order(z, o)
        page == alloc_page_of(z, o)
        halves == {page + 2^k : k \in o .. c - 1}
        isTail(p) == compound /\ o > 0 /\ p \in Pages(page, o) \ {page}
    IN  /\ free_area' = [free_area EXCEPT ![z] = expand(z, o)]
        /\ free_pages' = [free_pages EXCEPT ![z] = free_pages_after_alloc(z, o)]
        /\ page_flags' = [p \in DOMAIN page_flags |->
              IF p = page
              THEN (page_flags[p] \ {"BUDDY"})
                     \cup (IF compound /\ o > 0 THEN {"HEAD", "COMPOUND"} ELSE {})
              ELSE IF p \in halves THEN page_flags[p] \cup {"BUDDY"}
              ELSE IF isTail(p) THEN page_flags[p] \cup {"TAIL", "COMPOUND"}
              ELSE page_flags[p]]
        /\ page_order' = [p \in DOMAIN page_order |->
              IF p = page /\ compound /\ o > 0 THEN o
              ELSE IF p \in halves
                   THEN CHOOSE k \in o .. c - 1 : p = page + 2^k
                   ELSE page_order[p]]
        /\ held' = held \cup {[pfn |-> page, order |-> o, compound |-> compound]}
        /\ UNCHANGED <<bitmapVars, memmap, initialized, stray>>

\* Zones are tried from start_zone down; free_pages is a first filter.
zones_tried(o, start_zone) ==
    {z \in 0 .. start_zone : free_pages[z] >= 2^o /\ has_block(z, o)}

alloc_pages(o, start_zone) ==
    /\ initialized
    /\ zones_tried(o, start_zone) # {}
    /\ LET z == Max(zones_tried(o, start_zone))
       IN  /\ free_pages_after_alloc(z, o) <= DriftCap
           /\ buddy_alloc_pages(z, o, TRUE)

alloc_pages_zone(z, o) ==
    /\ initialized
    /\ has_block(z, o)
    /\ free_pages_after_alloc(z, o) <= DriftCap
    /\ buddy_alloc_pages(z, o, FALSE)

\* Variant of merged_orders: blocks are never merged.
merged_orders_none(z, pfn, o) == {o}

\* The orders at which coalescing may stop.
merged_orders(z, pfn, o) ==
    LET answers(k) == page_is_buddy(z, buddy_pfn(combined_pfn(pfn, k), k), k)
    IN  {k \in o .. MAX_ORDER - 1 :
           /\ \A j \in o .. k - 1 : TRUE \in answers(j)
           /\ k = MAX_ORDER - 1 \/ FALSE \in answers(k)}

\* The blocks coalescing takes off their lists on the way from order o to m.
merged_with(pfn, o, m) == {buddy_pfn(combined_pfn(pfn, k), k) : k \in o .. m - 1}

buddy_free_pages(z, pfn, o, m, cleared) ==
    LET head == combined_pfn(pfn, m)
        merged == merged_with(pfn, o, m)
        mergedAt(k) == buddy_pfn(combined_pfn(pfn, k), k)
    IN  /\ free_area' = [free_area EXCEPT ![z] = [k \in Orders |->
              IF k = m THEN add_to_free_area(free_area[z][k], head)
              ELSE IF k \in o .. m - 1
                   THEN remove_from_free_area(free_area[z][k], mergedAt(k))
                   ELSE free_area[z][k]]]
        /\ free_pages' = [free_pages EXCEPT ![z] = @ + 2^m]
        /\ page_flags' = [p \in DOMAIN page_flags |->
              IF p = head THEN cleared[p] \cup {"BUDDY"}
              ELSE IF p \in merged THEN cleared[p] \ {"BUDDY"}
              ELSE cleared[p]]
        /\ page_order' = [page_order EXCEPT ![head] = m]

\* Callers give back a block they hold, with the order they asked for.  Taking a
\* struct page that is not one off its list writes through whatever pointers it
\* holds: nothing can be said of the state from then on.
free_pages_of(b) ==
    LET z == pfn_to_zone_type(b.pfn)
        cleared == [p \in DOMAIN page_flags |->
            IF b.order = 0 THEN page_flags[p]
            ELSE IF p = b.pfn THEN page_flags[p] \ {"HEAD", "COMPOUND"}
            ELSE IF p \in Pages(b.pfn, b.order)
                 THEN page_flags[p] \ {"TAIL", "COMPOUND"}
                 ELSE page_flags[p]]
    IN  \E m \in merged_orders(z, b.pfn, b.order) :
           /\ \/ /\ \E p \in merged_with(b.pfn, b.order, m) : p >= max_pfn
                 /\ stray' = TRUE
                 /\ UNCHANGED <<free_area, free_pages, page_flags, page_order, held>>
              \/ /\ \A p \in merged_with(b.pfn, b.order, m) : p < max_pfn
                 /\ free_pages[z] + 2^m <= DriftCap
                 /\ buddy_free_pages(z, b.pfn, b.order, m, cleared)
                 /\ held' = held \ {b}
                 /\ UNCHANGED stray
           /\ UNCHANGED <<bitmapVars, memmap, initialized>>

BuddyNext ==
    /\ ~stray
    /\ \/ pmm_init
       \/ \E o \in Orders, z \in Zones : alloc_pages(o, z)
       \/ \E o \in Orders, z \in Zones : alloc_pages_zone(z, o)
       \/ \E b \in held : free_pages_of(b)

----------------------------------------------------------------------------
(* What must hold. *)

\* The pages the memory map offers entirely, less those of the boot allocator.
UsablePages ==
    {p \in 0 .. max_pfn - 1 :
        /\ \E e \in ofType({"USABLE", "BOOTLOADER_RECLAIMABLE"}) :
              e.base <= p * PAGE_SIZE /\ (p + 1) * PAGE_SIZE <= e.base + e.length
        /\ p \notin bitmap_base .. page_array_base + page_array_pages - 1}

FreeBlocks ==
    UNION {{[pfn |-> p, order |-> o] : p \in Range(free_area[z][o].free_list)} :
             z \in Zones, o \in Orders}

FreePages == UNION {Pages(b.pfn, b.order) : b \in FreeBlocks}

\* Every usable page is in exactly one place: one block of one free list, or
\* one block a caller holds.  No page is lost when blocks are split and merged
\* (expand, buddy_free_pages), none is handed out twice, and neither a page
\* the firmware reserved nor one under the bitmap or the page array is ever
\* handed out (pmm_init).
PagesConserved ==
    initialized =>
        LET blocks == FreeBlocks \cup {[pfn |-> b.pfn, order |-> b.order] : b \in held}
        IN  /\ UNION {Pages(b.pfn, b.order) : b \in blocks} = UsablePages
            /\ \A a, b \in blocks :
                  a = b \/ Pages(a.pfn, a.order) \cap Pages(b.pfn, b.order) = {}
            /\ \A b \in held : [pfn |-> b.pfn, order |-> b.order] \notin FreeBlocks

\* buddy_verify_integrity: a block is flagged free with its order exactly when
\* it is on that order's list, once, and nr_free counts the list.  A block is
\* aligned to its size and lies in the zone of its list.  The first page of a
\* held block names its order exactly when it was taken as a compound block
\* (alloc_pages), so that kfree gives back what kmalloc took.
FreeAreasExact ==
    /\ initialized => \A z \in Zones, o \in Orders :
        LET list == free_area[z][o].free_list
        IN  /\ free_area[z][o].nr_free = Len(list)
            /\ Cardinality(Range(list)) = Len(list)
            /\ Range(list) = {p \in DOMAIN page_flags :
                  /\ "BUDDY" \in page_flags[p] /\ page_order[p] = o
                  /\ pfn_to_zone_type(p) = z}
            /\ \A p \in Range(list) : p % 2^o = 0
    /\ \A b \in held :
        LET head == page_flags[b.pfn]
        IN  IF b.compound /\ b.order > 0
            THEN {"HEAD", "COMPOUND"} \subseteq head /\ page_order[b.pfn] = b.order
            ELSE head \cap {"HEAD", "COMPOUND"} = {}

\* The zones are exact: no page is lost or given twice (PagesConserved) and the
\* free lists say what the page array says (FreeAreasExact), through any
\* sequence of splits and merges (buddy_alloc_pages, buddy_free_pages), until a
\* block is merged with what lies behind the page array.  page_is_buddy allows
\* that, because it goes by the end of the zone; but it happens only where
\* memory ends inside a zone and not at a multiple of the largest block.
ZonesExact ==
    /\ ~stray => PagesConserved /\ FreeAreasExact
    /\ stray => /\ max_pfn % 2^(MAX_ORDER - 1) # 0
                /\ \E z \in Zones : zone_start(z) < max_pfn /\ max_pfn < zone_end(z)

\* alloc_pages gives up on a zone only when the zone has no aligned run of free
\* pages of the size: neither its counter free_pages nor blocks that were left
\* apart hide memory that is there.
NoFalseExhaustion ==
    initialized /\ ~stray => \A z \in Zones, o \in Orders :
        (\E p \in FreePages : /\ p % 2^o = 0 /\ Pages(p, o) \subseteq FreePages
                              /\ \A q \in Pages(p, o) : pfn_to_zone_type(q) = z)
            => free_pages[z] >= 2^o /\ has_block(z, o)
=============================================================================
