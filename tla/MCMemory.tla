------------------------------ MODULE MCMemory ------------------------------
(***************************************************************************)
(* The memory components, each by itself: part, chosen at the start, says  *)
(* which of them runs.                                                     *)
(***************************************************************************)
EXTENDS Buddy, Slab, Vmm

VARIABLE part

Entry(type, base, length) == [type |-> type, base |-> base, length |-> length]
Segment(start, end, flags) == [start |-> start, end |-> end, flags |-> flags]

\* Regions that end inside a page, one that holds a reserved hole, a region
\* the kernel reclaims, a kernel image that ends where usable memory begins, and
\* memory that ends inside a zone and inside a largest block.
MCMaps ==
    {<<Entry("RESERVED", 0, 3), Entry("BOOTLOADER_RECLAIMABLE", 14, 12),
       Entry("USABLE", 40, 56)>>,
     <<Entry("USABLE", 4, 20), Entry("KERNEL_AND_MODULES", 24, 16),
       Entry("USABLE", 35, 29), Entry("RESERVED", 400, 8)>>,
     <<Entry("USABLE", 16, 43)>>}

MCZoneEnd == <<4, 16>>

\* One segment; two that adjoin; two that overlap; one past the end of user
\* space; one where the stack goes; one right below it.
MCPrograms ==
    {<<Segment(1, 2, {"READ", "EXEC"})>>,
     <<Segment(1, 3, {"READ", "EXEC"}), Segment(3, 4, {"READ", "WRITE"})>>,
     <<Segment(1, 3, {"READ", "EXEC"}), Segment(2, 4, {"READ", "WRITE"})>>,
     <<Segment(1, 2, {"READ", "EXEC"}), Segment(62, 64, {"READ"})>>,
     <<Segment(61, 62, {"READ"})>>,
     <<Segment(60, 61, {"READ", "WRITE"})>>}

\* Anywhere; at a place that may be taken; the last two pages of user space.
MCMmaps == {[hint |-> 0, size |-> 3], [hint |-> 5, size |-> 3],
            [hint |-> 62, size |-> 2]}

MCSpans == <<64, 32, 4>>

\* What is not run starts in one state.
MCInit ==
    /\ part \in {"bitmap", "buddy", "slab", "vmm"}
    /\ IF part = "bitmap" THEN PmmInit /\ BitmapInit ELSE BuddyInit
    /\ part # "buddy" => memmap = CHOOSE m \in MemMaps : TRUE
    /\ SlabInit
    /\ VmmInit
    /\ part # "vmm" => vm_free = 1 .. Max(FrameCounts)

MCNext ==
    /\ UNCHANGED part
    /\ \/ part = "bitmap" /\ BitmapNext
          /\ UNCHANGED <<memmap, initialized, page_flags, page_order, zoneVars, held,
                         slabVars, vmmVars>>
       \/ part = "buddy" /\ BuddyNext /\ UNCHANGED <<slabVars, vmmVars>>
       \/ part = "slab" /\ SlabNext /\ UNCHANGED <<pmmVars, vmmVars>>
       \/ part = "vmm" /\ VmmNext /\ UNCHANGED <<pmmVars, slabVars>>

MCSpec == MCInit /\ [][MCNext]_<<part, pmmVars, slabVars, vmmVars>>
=============================================================================
