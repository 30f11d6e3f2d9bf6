-------------------------------- MODULE Vmm --------------------------------
(***************************************************************************)
(* Address spaces: kernel/mm/vmm.c, kernel/arch/x86_64/mm/paging.c,        *)
(* kernel/mm/fault.c, kernel/mm/uaccess.c, kernel/proc/ipc_window.c, and   *)
(* the parts of kernel/proc/exec.c and kernel/proc/process.c that build,   *)
(* copy and drop an address space.                                         *)
(*                                                                         *)
(* Addresses are page numbers.  A page frame comes from the page allocator *)
(* (see Buddy); frames are interchangeable, so the lowest free one is      *)
(* taken.  vma_cache and address_space_cache are never set, so struct      *)
(* vm_area and struct address_space take a page each.  The kernel does not *)
(* sleep in any operation here: each is one step, and everything it does   *)
(* until it fails stays done unless the code undoes it.                    *)
(*                                                                         *)
(* An operation is a function from a memory m to a memory: the free        *)
(* frames, one address space and the outcome.  vmm_map_to_user, which      *)
(* nothing calls, is left out.                                             *)
(***************************************************************************)
EXTENDS Integers, Sequences, FiniteSets, FiniteSetsExt, SequencesExt, TLC

CONSTANTS
    Procs,           \* the processes
    FrameCounts,     \* numbers of page frames to start with
    Programs,        \* ELF images: sequences of [start, end, flags]
    WINDOW,          \* OCEAN_IPC_WINDOW_VA
    STACK_TOP,       \* USER_STACK_TOP
    STACK_PAGES,     \* USER_STACK_SIZE, 16 pages
    GROWTH,          \* pages a stack grows by at a time, 256
    MMAP_BASE,       \* where vmm_mmap starts to search
    MMAP_STEP,       \* by how much it moves on, 256 pages
    USER_END,        \* the page of USER_SPACE_END, the last of user space
    Mmaps,           \* mappings asked for: [hint, size], in pages
    FaultPages,      \* pages processes touch
    MaxSteps,        \* bound: operations in a behaviour
    Spans            \* pages an entry of the PML4, a PDPT and a PD covers

VARIABLES
    vm_free,         \* free page frames
    vm_oom,          \* history: an exec or a fork ran out of frames
    vm_over,         \* history: the pages that were mapped while they were mapped
    vm_twice,        \* history: a frame was freed that was free
    spaces,          \* process -> its address space, proc->mm
    windows,         \* process -> proc->ipc_window_phys, 0 when it has none
    panicked,        \* a page fault could not be handled
    vm_steps         \* operations so far

vmmVars == <<vm_free, vm_oom, vm_over, vm_twice, spaces, windows, panicked, vm_steps>>

Empty == [x \in {} |-> x]

\* A memory without an address space.
NoSpace == [frame |-> 0, pml4 |-> 0, tables |-> Empty, pte |-> Empty,
            vmas |-> <<>>, vma_count |-> 0, total_vm |-> 0]
Fields == DOMAIN NoSpace

Memory(s) ==
    [free |-> vm_free, oom |-> FALSE, over |-> {}, twice |-> FALSE, ok |-> TRUE,
     page |-> 0] @@ s

SpaceOf(m) == [f \in Fields |-> m[f]]
Drop(m) == NoSpace @@ m
Fail(m) == [m EXCEPT !.ok = FALSE]

\* What an operation does next when it succeeds, and when it fails.
Then(m, F(_)) == IF m.ok THEN F(m) ELSE m
Else(m, F(_)) == IF m.ok THEN m ELSE F(m)

PageSeq(start, end) == [i \in 1 .. end - start |-> start + i - 1]

-----------------------------------------------------------------------------
(* The page allocator, as it is used here.                                 *)

get_free_page(m) ==
    IF m.free = {} THEN [m EXCEPT !.ok = FALSE, !.oom = TRUE]
    ELSE [m EXCEPT !.free = @ \ {Min(@)}, !.page = Min(m.free)]

free_page(m, f) == [m EXCEPT !.free = @ \cup {f}, !.twice = @ \/ f \in m.free]

-----------------------------------------------------------------------------
(* paging.c: the page tables.                                              *)

\* The tables on the way to page v, from the PML4 down.
TablesTo(v) == [l \in DOMAIN Spans |-> <<l, v \div Spans[l]>>]

\* Tables made before the allocation that fails stay.
get_or_create_pte(m, v) ==
    LET descend(x, t) ==
            IF ~x.ok \/ t \in DOMAIN x.tables THEN x
            ELSE Then(get_free_page(x),
                      LAMBDA y : [y EXCEPT !.tables = (t :> y.page) @@ @])
    IN  FoldLeft(descend, m, TablesTo(v))

\* A page that is mapped already is mapped anew; its old frame is forgotten.
paging_map(m, v, f, prot) ==
    Then(get_or_create_pte(m, v),
         LAMBDA x : [x EXCEPT !.pte = (v :> [frame |-> f, prot |-> prot]) @@ @,
                              !.over = @ \cup ({v} \cap DOMAIN x.pte)])

paging_unmap(m, v) == [m EXCEPT !.pte = [u \in DOMAIN @ \ {v} |-> @[u]]]

\* 0 stands for the answer of paging_get_phys for a page that is not mapped.
paging_get_phys(m, v) == IF v \in DOMAIN m.pte THEN m.pte[v].frame ELSE 0

paging_create_pml4(m) ==
    Then(get_free_page(m), LAMBDA x : [x EXCEPT !.pml4 = x.page])

\* Variant of paging_destroy_pml4: the lower tables are not freed.
paging_destroy_pml4_only(m) == free_page(m, m.pml4)

paging_destroy_pml4(m) ==
    LET fs == {m.tables[t] : t \in DOMAIN m.tables}
    IN  free_page([m EXCEPT !.free = @ \cup fs,
                            !.twice = @ \/ fs \cap m.free # {}], m.pml4)

-----------------------------------------------------------------------------
(* vmm.c: the areas of an address space.                                   *)

vma_to_pte_flags(flags) ==
    (IF "WRITE" \in flags THEN {"WRITABLE"} ELSE {}) \cup
    (IF "EXEC" \notin flags THEN {"NX"} ELSE {})

\* The list is in ascending order: the first area past addr ends the search.
vmm_find_vma(s, addr) ==
    LET passed == {i \in DOMAIN s.vmas : addr < s.vmas[i].start}
        stop == IF passed = {} THEN Len(s.vmas) ELSE Min(passed)
        hit == {i \in 1 .. stop : addr >= s.vmas[i].start /\ addr < s.vmas[i].end}
    IN  IF hit = {} THEN 0 ELSE Min(hit)

\* The areas a walk meets before the first that starts at or after end.
areas_before(s, end) ==
    LET passed == {i \in DOMAIN s.vmas : s.vmas[i].start >= end}
    IN  IF passed = {} THEN s.vmas ELSE SubSeq(s.vmas, 1, Min(passed) - 1)

vma_find_intersect(s, start, end) ==
    \E vma \in ToSet(areas_before(s, end)) : vma.end > start

\* Variant of vma_insert: at the end of the list.
vma_insert_last(m, vma) == [m EXCEPT !.vmas = Append(@, vma), !.vma_count = @ + 1]

vma_insert(m, vma) ==
    LET after == {i \in DOMAIN m.vmas : vma.start < m.vmas[i].start}
        pos == IF after = {} THEN Len(m.vmas) + 1 ELSE Min(after)
    IN  [m EXCEPT !.vmas = InsertAt(@, pos, vma), !.vma_count = @ + 1]

\* frame is the page struct vm_area is in; partly is history: vmm_mprotect was
\* called for a part of the area.
Area(start, end, flags, f) ==
    [start |-> start, end |-> end, flags |-> flags,
     page_prot |-> vma_to_pte_flags(flags), frame |-> f, partly |-> FALSE]

vmm_create_address_space(m) ==
    Then(get_free_page(Drop(m)), LAMBDA x :
        Else(paging_create_pml4([x EXCEPT !.frame = x.page]),
             LAMBDA y : Drop(free_page(y, x.page))))

\* Frees the pages inside the areas, the areas, the page tables and the
\* structure; the entries are not cleared, so a page two areas cover would be
\* freed twice.
vmm_destroy_address_space(m) ==
    LET page(x, v) == IF v \in DOMAIN x.pte THEN free_page(x, x.pte[v].frame) ELSE x
        area(x, vma) == free_page(FoldLeft(page, x, PageSeq(vma.start, vma.end)),
                                  vma.frame)
    IN  Drop(free_page(paging_destroy_pml4(FoldLeft(area, m, m.vmas)), m.frame))

\* The end of one step of vmm_unmap_region's walk: area i of m lost the pages
\* lo .. hi - 1.  When the second half of a split gets no vm_area, the area
\* keeps its old bounds around the hole.
trim_area(m, i, lo, hi) ==
    LET vma == m.vmas[i]
    IN  CASE lo = vma.start /\ hi = vma.end ->
               free_page([m EXCEPT !.vmas = RemoveAt(@, i), !.vma_count = @ - 1],
                         vma.frame)
          [] lo = vma.start /\ hi # vma.end -> [m EXCEPT !.vmas[i].start = hi]
          [] lo # vma.start /\ hi = vma.end -> [m EXCEPT !.vmas[i].end = lo]
          [] OTHER ->
               [Then(get_free_page(m), LAMBDA x :
                  [x EXCEPT !.vmas = InsertAt([@ EXCEPT ![i].end = lo], i + 1,
                                [vma EXCEPT !.start = hi, !.frame = x.page]),
                            !.vma_count = @ + 1]) EXCEPT !.ok = TRUE]

unmap_area(m, vma, start, end) ==
    LET lo == Max({vma.start, start})
        hi == Min({vma.end, end})
        i  == CHOOSE j \in DOMAIN m.vmas : m.vmas[j] = vma
        page(x, v) == IF v \in DOMAIN x.pte
                      THEN paging_unmap(free_page(x, x.pte[v].frame), v) ELSE x
    IN  IF vma.end <= start THEN m
        ELSE trim_area(FoldLeft(page, m, PageSeq(lo, hi)), i, lo, hi)

vmm_unmap_region(m, start, end) ==
    LET count(x) ==
            LET unmapped == Cardinality(DOMAIN m.pte) - Cardinality(DOMAIN x.pte)
            IN  [x EXCEPT !.total_vm = IF @ >= unmapped THEN @ - unmapped ELSE 0]
    IN  count(FoldLeft(LAMBDA y, vma : unmap_area(y, vma, start, end), m,
                       areas_before(m, end)))

\* Get a frame for page v and map it; the frame goes back when that fails.
MapNewPage(m, v, prot) ==
    Then(get_free_page(m), LAMBDA x :
        Else(paging_map(x, v, x.page, prot), LAMBDA y : free_page(y, x.page)))

\* The rollback unmaps the pages mapped so far, which also trims the area to
\* the pages never mapped; the area itself is not removed.
vmm_map_region(m, start, end, flags) ==
    LET page(x, v) ==
            Then(x, LAMBDA w :
                Else(MapNewPage(w, v, vma_to_pte_flags(flags)),
                     LAMBDA y : Fail(vmm_unmap_region(y, start, v))))
    IN  IF vma_find_intersect(m, start, end) THEN Fail(m)
        ELSE Then(get_free_page(m), LAMBDA x :
               Then(FoldLeft(page, vma_insert(x, Area(start, end, flags, x.page)),
                             PageSeq(start, end)),
                    LAMBDA y : [y EXCEPT !.total_vm = @ + end - start]))

\* The flags of the whole area change, the entries of the pages named.
vmm_mprotect(m, start, end, prot) ==
    LET i == vmm_find_vma(m, start)
        flags == (m.vmas[i].flags \ {"READ", "WRITE", "EXEC"}) \cup prot
        new == vma_to_pte_flags(flags)
    IN  IF i = 0 THEN Fail(m)
        ELSE IF m.vmas[i].end < end THEN Fail(m)
        ELSE [m EXCEPT !.vmas[i].flags = flags, !.vmas[i].page_prot = new,
                       !.vmas[i].partly = @ \/ start > m.vmas[i].start
                                             \/ end < m.vmas[i].end,
                       !.pte = [v \in DOMAIN @ |-> IF v \in start .. end - 1
                                  THEN [@[v] EXCEPT !.prot = new] ELSE @[v]]]

\* A copy of src: every mapped page of every area gets a frame of its own.  An
\* area enters the list once its pages are copied, so what was copied of the
\* area that fails is not found again.
vmm_clone_address_space(m, src) ==
    LET page(x, v) ==
            IF ~x.ok \/ v \notin DOMAIN src.pte THEN x
            ELSE MapNewPage(x, v, src.pte[v].prot)
        area(x, vma) ==
            IF ~x.ok THEN x
            ELSE Then(get_free_page(x), LAMBDA y :
                   Else(Then(FoldLeft(page, y, PageSeq(vma.start, vma.end)),
                             LAMBDA z : vma_insert(z, [vma EXCEPT !.frame = y.page])),
                        LAMBDA z : free_page(z, y.page)))
    IN  Then(vmm_create_address_space(m), LAMBDA dst :
            Else(Then(FoldLeft(area, dst, src.vmas),
                      LAMBDA x : [x EXCEPT !.total_vm = src.total_vm]),
                 vmm_destroy_address_space))

-----------------------------------------------------------------------------
(* exec.c and ipc_window.c: what an address space is made of.              *)

segment_overlaps(m, start, end) == vma_find_intersect(m, start, end)

\* The result of paging_map is not looked at: where a page table is missing
\* the page stays unmapped and its frame is lost.  The area comes last.
LoadArea(m, start, end, flags) ==
    LET page(x, v) ==
            Then(x, LAMBDA w : Then(get_free_page(w), LAMBDA y :
                [paging_map(y, v, y.page, vma_to_pte_flags(flags)) EXCEPT !.ok = TRUE]))
    IN  Then(FoldLeft(page, m, PageSeq(start, end)), LAMBDA x :
            Then(get_free_page(x), LAMBDA y :
                vma_insert(y, Area(start, end, flags, y.page))))

load_segment(m, phdr) ==
    Then(m, LAMBDA x :
        IF phdr.end > USER_END THEN Fail(x)
        ELSE IF segment_overlaps(x, phdr.start, phdr.end) THEN Fail(x)
        ELSE LoadArea(x, phdr.start, phdr.end, phdr.flags))

\* Whether a segment lies there already is not looked at.  The arguments are
\* written last; that fails when their page is not mapped.
setup_user_stack(m) ==
    Then(LoadArea(m, STACK_TOP - STACK_PAGES, STACK_TOP,
                  {"READ", "WRITE", "STACK", "ANONYMOUS"}),
         LAMBDA x : IF STACK_TOP - 1 \in DOMAIN x.pte THEN x ELSE Fail(x))

process_setup_ipc_window(m) ==
    Then(vmm_map_region(m, WINDOW, WINDOW + 1, {"READ", "WRITE", "ANONYMOUS"}),
         LAMBDA x : IF paging_get_phys(x, WINDOW) # 0 THEN x
                    ELSE Fail(vmm_unmap_region(x, WINDOW, WINDOW + 1)))

\* Segments, stack and window, in this order; what fails is torn down.
Build(m, image) ==
    Then(vmm_create_address_space(m), LAMBDA new :
        Else(Then(Then(FoldLeft(load_segment, new, image), setup_user_stack),
                  process_setup_ipc_window),
             vmm_destroy_address_space))

-----------------------------------------------------------------------------
(* fault.c: page faults.                                                   *)

handle_demand_fault(m, v, i) == MapNewPage(m, v, m.vmas[i].page_prot)

\* What lies between the fault and the area is not looked at.  Pages mapped
\* before the allocation that fails stay, below the area.
handle_stack_growth(m, v, i) ==
    LET page(x, u) == Then(x, LAMBDA w : MapNewPage(w, u, m.vmas[i].page_prot))
    IN  Then(FoldLeft(page, m, PageSeq(v, m.vmas[i].start)), LAMBDA x :
            [x EXCEPT !.vmas[i].start = v, !.total_vm = @ + m.vmas[i].start - v])

\* No entry is ever marked PTE_COW (vmm_clone_address_space copies), so
\* handle_cow_fault is not reached.
vmm_page_fault(m, v, write) ==
    LET i == vmm_find_vma(m, v)
        stacks == {j \in DOMAIN m.vmas : /\ "STACK" \in m.vmas[j].flags
                                         /\ v < m.vmas[j].start
                                         /\ v >= m.vmas[j].start - GROWTH}
    IN  IF i = 0
        THEN IF stacks = {} THEN Fail(m) ELSE handle_stack_growth(m, v, Min(stacks))
        ELSE IF write /\ "WRITE" \notin m.vmas[i].flags THEN Fail(m)
        ELSE IF v \notin DOMAIN m.pte THEN handle_demand_fault(m, v, i)
        ELSE Fail(m)

-----------------------------------------------------------------------------
(* uaccess.c: the walk over the areas of a user range.                     *)

\* From cursor on: the end of the area found there, when that area allows the
\* access and does not reach end; 0 refuses, end accepts.
validate_user_range(s, start, len, required) ==
    LET end == start + len
        accept[cursor \in start .. end] ==
            LET i == vmm_find_vma(s, cursor)
            IN  \/ cursor >= end
                \/ /\ i # 0
                   /\ required \subseteq s.vmas[i].flags
                   /\ s.vmas[i].end >= end \/ accept[s.vmas[i].end]
    IN  len = 0 \/ (/\ start <= USER_END
                    /\ len - 1 <= USER_END - start
                    /\ accept[start])

-----------------------------------------------------------------------------
(* The steps of the system.                                                *)

VmmInit ==
    /\ \E n \in FrameCounts : vm_free = 1 .. n
    /\ vm_oom = FALSE
    /\ vm_over = {}
    /\ vm_twice = FALSE
    /\ spaces = [p \in Procs |-> NoSpace]
    /\ windows = [p \in Procs |-> 0]
    /\ panicked = FALSE
    /\ vm_steps = 0

Alive(p) == spaces[p] # NoSpace

\* m becomes the address space of p; win its ipc_window_phys.
Commit(p, m, win) ==
    /\ vm_free' = m.free
    /\ vm_over' = vm_over \cup m.over
    /\ vm_twice' = (vm_twice \/ m.twice)
    /\ spaces' = [spaces EXCEPT ![p] = SpaceOf(m)]
    /\ windows' = [windows EXCEPT ![p] = win]

\* exec_elf; process_destroy drops the address space of a failed one.
vm_exec_elf(p, image) ==
    LET m == Build(Memory(NoSpace), image)
    IN  /\ ~Alive(p)
        /\ Commit(p, m, paging_get_phys(m, WINDOW))
        /\ vm_oom' = (vm_oom \/ m.oom)
        /\ UNCHANGED panicked

\* exec_replace builds the new address space beside the old one, and destroys
\* the old one once nothing can fail; a failure leaves mm and window as before.
vm_exec_replace(p, image) ==
    LET replaced(m) ==
            IF m.ok THEN SpaceOf(m) @@ vmm_destroy_address_space(spaces[p] @@ m)
            ELSE spaces[p] @@ m
        commit(m) == /\ Commit(p, m, IF m.ok THEN paging_get_phys(m, WINDOW)
                                     ELSE windows[p])
                     /\ vm_oom' = (vm_oom \/ m.oom)
    IN  /\ Alive(p)
        /\ commit(replaced(Build(Memory(NoSpace), image)))
        /\ UNCHANGED panicked

\* process_fork; process_adopt_ipc_window reads the window back.
vm_fork(p, c) ==
    LET m == vmm_clone_address_space(Memory(NoSpace), spaces[p])
    IN  /\ Alive(p) /\ ~Alive(c)
        /\ Commit(c, m, paging_get_phys(m, WINDOW))
        /\ vm_oom' = (vm_oom \/ m.oom)
        /\ UNCHANGED panicked

vm_exit(p) ==
    /\ Alive(p)
    /\ Commit(p, vmm_destroy_address_space(Memory(spaces[p])), 0)
    /\ UNCHANGED <<vm_oom, panicked>>

\* The hint when it is free; otherwise the first address from MMAP_BASE on, in
\* steps, that is.
vmm_mmap(p, hint, size, prot) ==
    LET free(a) == ~vma_find_intersect(spaces[p], a, a + size)
        found == {a \in {MMAP_BASE + k * MMAP_STEP : k \in 0 .. USER_END} :
                    a + size <= USER_END /\ free(a)}
        tried == IF hint # 0 /\ free(hint) THEN {hint} ELSE found
    IN  /\ Alive(p) /\ tried # {}
        /\ Commit(p, vmm_map_region(Memory(spaces[p]), Min(tried), Min(tried) + size,
                                    prot), windows[p])
        /\ UNCHANGED <<vm_oom, panicked>>

vmm_munmap(p, start, size) ==
    /\ Alive(p)
    /\ Commit(p, vmm_unmap_region(Memory(spaces[p]), start, start + size), windows[p])
    /\ UNCHANGED <<vm_oom, panicked>>

vm_mprotect(p, start, size, prot) ==
    /\ Alive(p)
    /\ Commit(p, vmm_mprotect(Memory(spaces[p]), start, start + size, prot), windows[p])
    /\ UNCHANGED <<vm_oom, panicked>>

\* An access that the page table does not allow; one that cannot be handled
\* stops the kernel.
page_fault_handler(p, v, write) ==
    LET m == vmm_page_fault(Memory(spaces[p]), v, write)
    IN  /\ Alive(p)
        /\ v \in DOMAIN spaces[p].pte => write /\ "WRITABLE" \notin spaces[p].pte[v].prot
        /\ Commit(p, m, windows[p])
        /\ panicked' = ~m.ok
        /\ UNCHANGED vm_oom

\* Nothing in the kernel calls vmm_mmap, vmm_munmap or vmm_mprotect yet.  The
\* callers here leave the window and the stack alone.  A frame freed twice puts
\* the page allocator's lists out of order: nothing can be said from then on.
VmmNext ==
    /\ ~panicked /\ ~vm_twice
    /\ vm_steps < MaxSteps
    /\ vm_steps' = vm_steps + 1
    /\ \E p \in Procs :
        \/ \E image \in Programs : vm_exec_elf(p, image)
        \/ \E image \in Programs : vm_exec_replace(p, image)
        \/ \E c \in Procs : vm_fork(p, c)
        \/ vm_exit(p)
        \/ \E r \in Mmaps : vmm_mmap(p, r.hint, r.size, {"READ", "WRITE"})
        \/ \E start \in MMAP_BASE .. WINDOW - 1, n \in {1, 2} :
             /\ start + n <= WINDOW
             /\ vma_find_intersect(spaces[p], start, start + n)
             /\ vmm_munmap(p, start, n)
        \/ \E start \in MMAP_BASE .. WINDOW - 1, n \in {1, 3},
             prot \in {{"READ"}, {"READ", "WRITE"}} :
             /\ start + n <= WINDOW
             /\ vma_find_intersect(spaces[p], start, start + n)
             /\ vm_mprotect(p, start, n, prot)
        \/ \E v \in FaultPages, write \in BOOLEAN : page_fault_handler(p, v, write)

-----------------------------------------------------------------------------
(* Properties.                                                             *)

\* The frames a space holds, by what they hold: the structure, the top table,
\* a lower table, an area or a mapped page.
Uses(p) ==
    LET s == spaces[p]
    IN  IF s = NoSpace THEN {}
        ELSE {<<s.frame, p, "space", 0>>, <<s.pml4, p, "pml4", 0>>}
             \cup {<<s.tables[t], p, "table", t>> : t \in DOMAIN s.tables}
             \cup {<<s.vmas[i].frame, p, "vma", i>> : i \in DOMAIN s.vmas}
             \cup {<<s.pte[v].frame, p, "page", v>> : v \in DOMAIN s.pte}

\* The frame the kernel copies IPC slices through, proc->ipc_window_phys, is
\* the one mapped at the window's address in that process's own address space,
\* after every exec, failed exec and fork.
WindowOwned ==
    \A p \in Procs : Alive(p) =>
        /\ windows[p] # 0
        /\ windows[p] = paging_get_phys(spaces[p], WINDOW)

\* The pages a stack may come to cover.
StackReach == STACK_TOP - STACK_PAGES - MaxSteps * GROWTH .. STACK_TOP - 1

\* No page frame has two uses: none is mapped in two places or is a page table
\* and a page as well, none is free while an address space still uses it, and
\* none is freed twice.  The window through which the kernel copies IPC slices
\* is such a frame, the one its process has mapped (WindowOwned).  Frames are
\* lost only in two ways: by an exec or a fork that runs out of them, never by a
\* mapping, an unmapping or a page fault that does; and when a page is mapped
\* while it is mapped.  That happens only to pages a stack is laid or grown over
\* (setup_user_stack, handle_stack_growth), and only after it is a frame ever
\* freed twice.
FramesOwnedOnce ==
    LET uses == UNION {Uses(p) : p \in Procs}
        used == {u[1] : u \in uses}
    IN  /\ ~vm_twice => /\ Cardinality(used) = Cardinality(uses)
                        /\ used \cap vm_free = {}
                        /\ WindowOwned
        /\ ~vm_oom /\ vm_over = {} =>
              (used \cup vm_free) \in {1 .. n : n \in FrameCounts}
        /\ vm_twice => vm_over # {}
        /\ vm_over \subseteq StackReach

\* A stack was laid or grown over another area.
StackOverlaps(s) ==
    \E i, j \in DOMAIN s.vmas :
        /\ i # j /\ "STACK" \in s.vmas[i].flags
        /\ s.vmas[i].start < s.vmas[j].end /\ s.vmas[j].start < s.vmas[i].end

\* The areas of an address space are in ascending order and do not overlap,
\* which is what lets vmm_find_vma and vma_find_intersect stop early, unless a
\* stack was laid or grown over one.  validate_user_range then accepts a range
\* exactly when it ends in user space, its last page included, and an area that
\* allows the access covers each page of it.  A mapped page has the rights of its
\* area, so a copy to or from an accepted range meets no page that is present
\* and protected, which vmm_page_fault would not handle; the areas of which
\* vmm_mprotect was given a part are the only exception.
UserRangesExact ==
    \A p \in Procs :
        LET s == spaces[p]
            covers(vma, v) == v >= vma.start /\ v < vma.end
            allows(v, fl) == \E vma \in ToSet(s.vmas) :
                                 covers(vma, v) /\ fl \subseteq vma.flags
        IN  /\ s.vma_count = Len(s.vmas)
            /\ StackOverlaps(s) \/
                 /\ \A i \in 1 .. Len(s.vmas) - 1 : s.vmas[i].end <= s.vmas[i + 1].start
                 /\ \A start \in 0 .. WINDOW + 1 \cup STACK_TOP - 3 .. USER_END + 1,
                       len \in 1 .. 3, fl \in {{"READ"}, {"WRITE"}} :
                      validate_user_range(s, start, len, fl) <=>
                          /\ start + len - 1 <= USER_END
                          /\ \A v \in start .. start + len - 1 : allows(v, fl)
                 /\ \A vma \in ToSet(s.vmas), v \in DOMAIN s.pte :
                      covers(vma, v) /\ ~vma.partly => s.pte[v].prot = vma.page_prot

=============================================================================
