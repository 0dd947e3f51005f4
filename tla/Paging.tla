------------------------------- MODULE Paging -------------------------------
(***************************************************************************)
(* Memory management: kernel/mm/mm.c, the page-fault handlers of           *)
(* kernel/irq/irq.c and the loader, as far as they allocate and map pages. *)
(*                                                                         *)
(* The memory state is one record, the variable mm.  A helper of the code  *)
(* is an operator from such a record to the one it leaves behind, a        *)
(* handler the composition of the helpers it calls, and one action, since  *)
(* it runs under the big kernel lock.  The value a helper returns is an    *)
(* operator of its own, of the record before the call.                     *)
(*                                                                         *)
(* A virtual address is its page number: the three-level walk reaches page *)
(* v through the tables Table2(v) and Table1(v).  A frame is a number (the *)
(* code's kva and pa), 0 is the null pointer; frames hold one value of     *)
(* Memory!Contents each, whatever their size, and so do swap sectors.      *)
(***************************************************************************)
EXTENDS Integers, Sequences, FiniteSetsExt, Functions

CONSTANTS
    Procs,              \* processes; none shares its page directory with another
    Data,               \* what programs write to a page
    Keys,               \* keys programs pass to shm_page_get, of type int
    Fan,                \* entries of a page table (NUM_PTE_ENTRY)
    ImagePages,         \* a program's image is the pages 1 .. ImagePages
    HeapVpns,           \* the other pages programs touch
    StackVpn,           \* the page below USER_STACK_ADDR
    MAX_PAGETABLE_NUM,  \* pagetable.upbound
    NUM_MAX_SHM,        \* size of shm_page_table
    PAGE_NUM,           \* size of page_manager; bound: nothing is allocated beyond its end
    MaxSector,          \* bound on the swap slots get_sector hands out
    MaxShm,             \* bound on the segments a program attaches
    NumMod,             \* 2^32: shm_page_table[i].num is a uint32_t
    KeyMod,             \* 2^16: shm_page_table[i].key is a uint16_t
    Uses                \* "tlb": the hardware keeps translations until they are flushed;
                        \* "detach": programs detach pages while other segments are in use

VARIABLES
    mm,                 \* the memory state, see TypeOK
    tlb,                \* tlb[p][v]: the translation the hardware holds for page v
    shmPages            \* the page_manager entries allocated for segments (history)

vars == <<mm, tlb, shmPages>>

-----------------------------------------------------------------------------
Vpns == 1 .. StackVpn

\* The page shm_page_get returns for a program's n-th segment.
ShmVpn(n) == StackVpn - n

\* Programs keep off the pages shm_page_get will hand out.
ASSUME PagingAssumption ==
    /\ StackVpn \in Nat /\ ImagePages \in Nat /\ MaxShm \in Nat
    /\ ImagePages + MaxShm < StackVpn
    /\ HeapVpns \subseteq ImagePages + 1 .. StackVpn - MaxShm - 1
    /\ Fan \in Nat \ {0} /\ NumMod \in Nat \ {0} /\ KeyMod \in Nat \ {0}
    /\ Keys \subseteq Int
    /\ MAX_PAGETABLE_NUM \in Nat /\ NUM_MAX_SHM \in Nat \ {0}
    /\ PAGE_NUM \in Nat /\ MaxSector \in Nat

PageIds == 0 .. PAGE_NUM - 1
ShmIds == 0 .. NUM_MAX_SHM - 1
Frames == 1 .. PAGE_NUM
NoVa == -1

Table2(v) == <<2, v \div (Fan * Fan)>>
Table1(v) == <<1, v \div Fan>>

Zero == "zero"
Junk == "junk"
Image == "image"
Contents == Data \cup {Zero, Junk, Image}

Statuses == {"UNUSED", "SWAPABLE", "UNSWAPABLE", "COPY_ON_WRITE", "NOT_IN_MEM"}

\* A leaf entry: the bits the kernel looks at, and pfn, which is a frame, or
\* the swap slot when insd is set.
NoPte == [present |-> FALSE, insd |-> FALSE, write |-> FALSE, pfn |-> 0]

\* A PCB that no program runs in.
NoPcb == [alive |-> FALSE, pagenum |-> 0, pagehead |-> <<>>, tables |-> {},
          pgdir |-> [v \in Vpns |-> NoPte], shm_page_num |-> 0]

UnusedPage == [status |-> "UNUSED", read_member |-> 0, kva |-> 0, uva |-> NoVa, pte |-> NoVa]
UnusedShm == [valid |-> FALSE, key |-> 0, num |-> 0, pa |-> 0]

\* init_pagetable, and the counters of allocPagetable, allocPage and
\* get_sector.  What the frames hold at boot is not known.
init_pagetable ==
    [page_manager |-> [i \in PageIds |-> UnusedPage],
     page_id |-> 0,
     kernMemCurr |-> 1,
     sector |-> 0,
     mem |-> [f \in Frames |-> Junk],
     sd |-> [x \in 0 .. MaxSector - 1 |-> Junk],
     pcb |-> [p \in Procs |-> NoPcb],
     shm_page_table |-> [i \in ShmIds |-> UnusedShm],
     panic |-> FALSE]

\* assert(0): the kernel spins with its lock held.
Panic(s) == [s EXCEPT !.panic = TRUE]

clear_pgdir(s, f) == [s EXCEPT !.mem[f] = Zero]

\* The first node of p's page list for which ok holds; where a search that
\* has no such test stops, the last node.
IsFirst(list, i, ok) == i \in ok /\ \E n \in DOMAIN list :
                            list[n] = i /\ \A k \in 1 .. n - 1 : list[k] \notin ok
FirstOf(list, ok) ==
    IF Range(list) \cap ok = {} THEN list[Len(list)]
    ELSE CHOOSE i \in Range(list) : IsFirst(list, i, ok)

-----------------------------------------------------------------------------
(* Swapping out *)

With(s, st) == {i \in PageIds : s.page_manager[i].status = st}

\* get_swap_page: the first SWAPABLE page of the list; assert(0) if none is.
CanSwap(s, p) == Range(s.pcb[p].pagehead) \cap With(s, "SWAPABLE") # {}
get_swap_page(s, p) == FirstOf(s.pcb[p].pagehead, With(s, "SWAPABLE"))

\* The tables on the way to page v exist and its entry is valid.
Walks(s, p, v) == v \in Vpns /\ {Table2(v), Table1(v)} \subseteq s.pcb[p].tables
PageValid(s, p, v) == Walks(s, p, v) /\ s.pcb[p].pgdir[v].present

\* The frame mapped at v is written to a new slot and cleared; the entry of
\* v names the slot from now on.
move_to_sd(s, p, i, v) ==
    LET f == s.pcb[p].pgdir[v].pfn
        x == s.sector
    IN  clear_pgdir(
          [s EXCEPT !.sector = x + 1,
                    !.sd[x] = s.mem[f],
                    !.pcb[p].pgdir[v] = [@ EXCEPT !.insd = TRUE, !.present = FALSE, !.pfn = x],
                    !.page_manager[i] = [@ EXCEPT !.pte = v, !.status = "NOT_IN_MEM", !.kva = 0]],
          f)

\* Mutants: the frame is cleared before it is written to the card; the page
\* keeps its kva; the page on the card no longer counts.
swap_to_sd_cleared(s, p, i) ==
    LET v == s.page_manager[i].uva
    IN  move_to_sd(clear_pgdir(s, s.pcb[p].pgdir[v].pfn), p, i, v)
swap_to_sd_kept(s, p, i) ==
    [move_to_sd(s, p, i, s.page_manager[i].uva)
        EXCEPT !.page_manager[i].kva = s.page_manager[i].kva]
swap_to_sd_uncounted(s, p, i) ==
    [move_to_sd(s, p, i, s.page_manager[i].uva) EXCEPT !.pcb[p].pagenum = @ - 1]

\* swap_to_sd of page i: get_pte asserts that the entry of its address is
\* valid.
swap_to_sd(s, p, i) ==
    LET v == s.page_manager[i].uva
    IN  IF PageValid(s, p, v) THEN move_to_sd(s, p, i, v) ELSE Panic(s)

do_swap(s, p) == IF CanSwap(s, p) THEN swap_to_sd(s, p, get_swap_page(s, p)) ELSE Panic(s)
swapped_kva(s, p) == s.page_manager[get_swap_page(s, p)].kva

-----------------------------------------------------------------------------
(* Allocation *)

Full(s, p) == s.pcb[p].pagenum = MAX_PAGETABLE_NUM

\* The page_manager entry and the frame the next allocPagetable returns.
\* (Past the end of page_manager, where the bounds stop the model, the scan
\* would go on beyond the array.)
new_page(s) == Min({i \in PageIds : i >= s.page_id /\ s.page_manager[i].status = "UNUSED"}
                     \cup {PAGE_NUM})
new_kva(s, p) == IF Full(s, p) THEN swapped_kva(s, p) ELSE s.kernMemCurr

\* Mutant: pagenum is incremented at the limit too.
allocPagetable_counts(s, p, st) ==
    LET a == IF Full(s, p) THEN do_swap(s, p) ELSE [s EXCEPT !.kernMemCurr = @ + 1]
        i == new_page(s)
    IN  IF a.panic THEN a
        ELSE [a EXCEPT !.page_id = i + 1,
                       !.page_manager[i] = [@ EXCEPT !.status = st, !.kva = new_kva(s, p)],
                       !.pcb[p].pagenum = @ + 1,
                       !.pcb[p].pagehead = Append(@, i)]

\* A process below its limit gets a new frame; one at its limit swaps one of
\* its own pages out and gets that page's frame.
allocPagetable(s, p, st) ==
    LET a == IF Full(s, p) THEN do_swap(s, p)
             ELSE [s EXCEPT !.kernMemCurr = @ + 1, !.pcb[p].pagenum = @ + 1]
        i == new_page(s)
    IN  IF a.panic THEN a
        ELSE [a EXCEPT !.page_id = i + 1,
                       !.page_manager[i] = [@ EXCEPT !.status = st, !.kva = new_kva(s, p)],
                       !.pcb[p].pagehead = Append(@, i)]

\* One step of the walk in alloc_page_helper and build_page_helper: a table
\* that is missing is allocated and cleared.
alloc_table(s, p, t) ==
    LET a == allocPagetable(s, p, "UNSWAPABLE")
    IN  IF s.panic \/ t \in s.pcb[p].tables THEN s
        ELSE IF a.panic THEN a
        ELSE clear_pgdir([a EXCEPT !.pcb[p].tables = @ \cup {t}], new_kva(s, p))

alloc_tables(s, p, v) == alloc_table(alloc_table(s, p, Table2(v)), p, Table1(v))

\* set_pfn and set_attribute on the entry of page v.
map_page(s, p, v, f) ==
    [s EXCEPT !.pcb[p].pgdir[v] = [@ EXCEPT !.pfn = f, !.present = TRUE, !.write = TRUE]]

\* Mutant: the page's address is not recorded.
alloc_page_helper_no_uva(s, p, v, st) ==
    LET t == alloc_tables(s, p, v)
        a == allocPagetable(t, p, st)
    IN  IF t.panic \/ t.pcb[p].pgdir[v].present THEN t
        ELSE IF a.panic THEN a
        ELSE map_page([a EXCEPT !.page_manager[new_page(t)].pte = v], p, v, new_kva(t, p))

\* alloc_page_helper: a page that is already valid is left alone.
alloc_page_helper(s, p, v, st) ==
    LET t == alloc_tables(s, p, v)
        a == allocPagetable(t, p, st)
    IN  IF t.panic \/ t.pcb[p].pgdir[v].present THEN t
        ELSE IF a.panic THEN a
        ELSE map_page([a EXCEPT !.page_manager[new_page(t)] = [@ EXCEPT !.uva = v, !.pte = v]],
                      p, v, new_kva(t, p))

\* build_page_helper maps a frame that somebody else allocated.
build_page_helper(s, p, v, f) ==
    LET t == alloc_tables(s, p, v)
    IN  IF t.panic \/ t.pcb[p].pgdir[v].present THEN t ELSE map_page(t, p, v, f)

-----------------------------------------------------------------------------
(* Processes *)

\* load_task_img: the image's pages are UNSWAPABLE.
load_task_img(s, p) ==
    LET loaded[n \in 0 .. ImagePages] ==
          IF n = 0 THEN s
          ELSE LET t == alloc_page_helper(loaded[n - 1], p, n, "UNSWAPABLE")
               IN  IF loaded[n - 1].panic THEN loaded[n - 1]
                   ELSE IF t.panic THEN t
                   ELSE [t EXCEPT !.mem[t.pcb[p].pgdir[n].pfn] = Image]
    IN  loaded[ImagePages]

\* The memory side of do_exec and init_pcb: an empty page list and page
\* directory, one page for the directory, one for the kernel stack, the user
\* stack and the image.  shm_page_num keeps its old value.
exec_memory(s, p) ==
    LET s0 == [s EXCEPT !.pcb[p] = [NoPcb EXCEPT !.alive = TRUE, !.shm_page_num = s.pcb[p].shm_page_num]]
        s1 == clear_pgdir(allocPagetable(s0, p, "UNSWAPABLE"), new_kva(s0, p))
        s2 == allocPagetable(s1, p, "UNSWAPABLE")
        s3 == alloc_page_helper(s2, p, StackVpn, "UNSWAPABLE")
    IN  IF s3.panic THEN s3 ELSE load_task_img(s3, p)


\* local_flush_tlb_all, on the core that runs p.
flush(p) == [tlb EXCEPT ![p] = [v \in Vpns |-> NoPte]]

\* Bounds of the model.
Bounded(s) == s.sector <= MaxSector /\ s.page_id <= PAGE_NUM /\ s.kernMemCurr <= PAGE_NUM + 1

Runs(p) == ~mm.panic /\ mm.pcb[p].alive

do_exec(p) ==
    /\ ~mm.panic
    /\ ~mm.pcb[p].alive
    /\ mm' = exec_memory(mm, p)
    /\ tlb' = flush(p)
    /\ UNCHANGED shmPages

\* do_exit and do_kill free no page: the code that did is commented out.  The
\* PCB keeps its list until do_exec empties it; nobody looks at it before.
do_exit(p) ==
    /\ Runs(p)
    /\ mm' = [mm EXCEPT !.pcb[p] = [NoPcb EXCEPT !.shm_page_num = mm.pcb[p].shm_page_num]]
    /\ UNCHANGED <<tlb, shmPages>>

-----------------------------------------------------------------------------
(* User accesses and page faults *)

\* The translation an access to page v uses: a cached one, or the entry.
Translation(p, v) == IF tlb[p][v].present THEN tlb[p][v] ELSE mm.pcb[p].pgdir[v]

\* The frames of page directories, page tables and kernel stacks.
KernelFrames == {mm.page_manager[i].kva :
                    i \in {j \in PageIds \ shmPages : mm.page_manager[j].uva = NoVa}}

\* A store to a page that is mapped writable.  (Through a translation that
\* is out of date it may hit a page table; the model does not follow what
\* comes after that.)
Store(p, v, x) ==
    /\ Runs(p)
    /\ Translation(p, v).present /\ Translation(p, v).write
    /\ Translation(p, v).pfn \notin KernelFrames
    /\ mm' = [mm EXCEPT !.mem[Translation(p, v).pfn] = x]
    /\ UNCHANGED <<tlb, shmPages>>

\* The hardware caches a valid entry; it stays until the next sfence.vma.
tlb_fill(p, v) ==
    /\ "tlb" \in Uses
    /\ Runs(p)
    /\ mm.pcb[p].pgdir[v].present
    /\ tlb' = [tlb EXCEPT ![p][v] = mm.pcb[p].pgdir[v]]
    /\ UNCHANGED <<mm, shmPages>>

\* do_scheduler flushes whenever it switches to a process.
tlb_switch(p) ==
    /\ "tlb" \in Uses
    /\ Runs(p)
    /\ tlb' = flush(p)
    /\ UNCHANGED <<mm, shmPages>>

\* pte_checker(va, pgdir) # 0
Mapped(s, p, v) == Walks(s, p, v) /\ (s.pcb[p].pgdir[v].present \/ s.pcb[p].pgdir[v].insd)

\* The entry of page_manager whose pte is the one of page v.
SwappedPage(s, p, v) ==
    FirstOf(s.pcb[p].pagehead, {i \in PageIds : s.page_manager[i].pte = v})

\* swap_to_mem(pte, va, kva)
swap_to_mem(s, p, v, kva) ==
    LET i == SwappedPage(s, p, v)
        page == s.page_manager[i]
        pte == s.pcb[p].pgdir[v]
    IN  IF s.panic THEN s
        ELSE IF page.status # "NOT_IN_MEM" \/ page.kva # 0 THEN Panic(s)
        ELSE [s EXCEPT !.page_manager[i] = [@ EXCEPT !.status = "SWAPABLE", !.uva = v, !.kva = kva],
                       !.mem[kva] = s.sd[pte.pfn],
                       !.pcb[p].pgdir[v] = [@ EXCEPT !.insd = ~pte.insd, !.present = TRUE, !.pfn = kva]]

\* handle_load_page_fault and handle_store_page_fault on a page that was
\* never mapped.  Nothing is flushed, although allocating may swap.
fault_alloc(p, v) ==
    /\ Runs(p)
    /\ ~Translation(p, v).present
    /\ ~Mapped(mm, p, v)
    /\ mm' = alloc_page_helper(mm, p, v, "SWAPABLE")
    /\ UNCHANGED <<tlb, shmPages>>

\* The same handlers on a page that is on the card.  Below the limit they
\* swap nothing out and pass swap_to_mem a kva that was never assigned.
fault_swap(p, v) ==
    /\ Runs(p)
    /\ ~Translation(p, v).present
    /\ Mapped(mm, p, v)
    /\ mm.pcb[p].pgdir[v].insd
    /\ LET s == IF Full(mm, p) THEN do_swap(mm, p) ELSE mm
       IN  \E kva \in IF ~Full(mm, p) THEN Frames
                      ELSE IF CanSwap(mm, p) THEN {swapped_kva(mm, p)} ELSE {0} :
              mm' = swap_to_mem(s, p, v, kva)
    /\ tlb' = flush(p)
    /\ UNCHANGED shmPages

-----------------------------------------------------------------------------
(* Shared pages *)

\* The entry of shm_page_table for a key: the valid one whose 16 bits equal
\* the int, or else the first that is not valid.
ShmOf(k) == {i \in ShmIds : mm.shm_page_table[i].valid /\ mm.shm_page_table[i].key = k}
ShmFree == {i \in ShmIds : ~mm.shm_page_table[i].valid}

shm_first(s, p, k, i) ==
    LET a == allocPagetable(s, p, "UNSWAPABLE")
        f == new_kva(s, p)
        n == s.pcb[p].shm_page_num + 1
        b == build_page_helper([a EXCEPT !.pcb[p].shm_page_num = n], p, ShmVpn(n), f)
    IN  IF a.panic THEN a
        ELSE IF b.panic THEN b
        ELSE clear_pgdir(
               [b EXCEPT !.shm_page_table[i] =
                           [valid |-> TRUE, key |-> k % KeyMod, num |-> (@.num + 1) % NumMod, pa |-> f]], f)

shm_again(s, p, i) ==
    LET n == s.pcb[p].shm_page_num + 1
        b == build_page_helper([s EXCEPT !.pcb[p].shm_page_num = n], p, ShmVpn(n),
                               s.shm_page_table[i].pa)
    IN  IF b.panic THEN b
        ELSE [b EXCEPT !.shm_page_table[i].num = (@ + 1) % NumMod]

shm_page_get(p, k) ==
    /\ Runs(p)
    /\ mm.pcb[p].shm_page_num < MaxShm
    /\ mm' = IF ShmOf(k) # {} THEN shm_again(mm, p, Min(ShmOf(k)))
             ELSE IF ShmFree # {} THEN shm_first(mm, p, k, Min(ShmFree))
             ELSE Panic(mm)
    /\ tlb' = flush(p)
    /\ shmPages' = IF ShmOf(k) = {} /\ ~mm'.panic THEN shmPages \cup {new_page(mm)} ELSE shmPages

Segments == {i \in ShmIds : mm.shm_page_table[i].valid}

\* shm_page_dt of a page the program attached.  The search stops at the
\* first entry whose pa is NOT the page's frame.
shm_page_dt(p, v) ==
    LET f == mm.pcb[p].pgdir[v].pfn
        others == {i \in ShmIds : mm.shm_page_table[i].pa # f}
        i == Min(others)
        shm == mm.shm_page_table[i]
        n == (shm.num - 1) % NumMod
    IN
    /\ Runs(p)
    /\ mm.pcb[p].pgdir[v].present
    /\ "detach" \in Uses \/ \A j, k \in Segments : j = k
    /\ others # {}
    /\ mm' = [mm EXCEPT !.shm_page_table[i] = [@ EXCEPT !.num = n, !.valid = shm.valid /\ n # 0],
                        !.pcb[p].pgdir[v] = NoPte]
    /\ tlb' = flush(p)
    /\ UNCHANGED shmPages

-----------------------------------------------------------------------------
Init ==
    /\ mm = init_pagetable
    /\ tlb = [p \in Procs |-> [v \in Vpns |-> NoPte]]
    /\ shmPages = {}

\* What programs do: run, touch their pages, share pages, end.
ShmVpns == {ShmVpn(n) : n \in 1 .. MaxShm}

\* The kernel spins with its lock held.
Halted == mm.panic /\ UNCHANGED vars

Program(p) ==
    \/ do_exec(p)
    \/ do_exit(p)
    \/ \E v \in HeapVpns : fault_alloc(p, v)
    \/ \E v \in HeapVpns : fault_swap(p, v)
    \/ \E v \in HeapVpns \cup ShmVpns, x \in Data : Store(p, v, x)
    \/ \E k \in Keys : shm_page_get(p, k)
    \/ \E v \in ShmVpns : shm_page_dt(p, v)
    \/ \E v \in HeapVpns \cup ShmVpns : tlb_fill(p, v)
    \/ tlb_switch(p)

Next == Halted \/ \E p \in Procs : Program(p) /\ Bounded(mm')

Spec == Init /\ [][Next]_vars

-----------------------------------------------------------------------------
(* Copy-on-write, which is not part of Spec: see README.                    *)

\* do_snapshot of a page that is in memory: the page is mapped read-only a
\* second time, at the next address that is free.  clean_attribute is an
\* exclusive or.
do_snapshot(p, v) ==
    LET pte == mm.pcb[p].pgdir[v]
        i == FirstOf(mm.pcb[p].pagehead, {j \in PageIds : mm.page_manager[j].kva = pte.pfn})
        page == mm.page_manager[i]
        free == {u \in v + 1 .. StackVpn : ~Mapped(mm, p, u)}
        w == Min(free)
        s == IF page.status = "COPY_ON_WRITE"
             THEN [mm EXCEPT !.page_manager[i].read_member = @ + 1]
             ELSE [mm EXCEPT !.page_manager[i] = [@ EXCEPT !.status = "COPY_ON_WRITE", !.read_member = 2],
                             !.pcb[p].pgdir[v].write = ~@]
        b == build_page_helper(s, p, w, page.kva)
    IN
    /\ Runs(p)
    /\ PageValid(mm, p, v)
    /\ free # {}
    /\ mm' = IF b.panic THEN b ELSE [b EXCEPT !.pcb[p].pgdir[w].write = ~@]
    /\ tlb' = flush(p)
    /\ UNCHANGED shmPages

\* The frame that handle_store_page_fault's memcpy fills from the frame f of
\* the page being written: its destination is f itself.
cow_copy(s, f) == [s EXCEPT !.mem[f] = s.mem[f]]

\* handle_store_page_fault on a valid page that is not writable.  The last
\* sharer gets the page back; any other gets a new frame.
fault_cow(p, v) ==
    LET f == mm.pcb[p].pgdir[v].pfn
        i == FirstOf(mm.pcb[p].pagehead, {j \in PageIds : mm.page_manager[j].kva = f})
        page == mm.page_manager[i]
        s == [mm EXCEPT !.page_manager[i].read_member = @ - 1, !.pcb[p].pgdir[v].present = FALSE]
        a == allocPagetable(s, p, "SWAPABLE")
        b == build_page_helper(a, p, v, new_kva(s, p))
    IN
    /\ Runs(p)
    /\ PageValid(mm, p, v)
    /\ ~mm.pcb[p].pgdir[v].write
    /\ mm' = IF page.status # "COPY_ON_WRITE" THEN Panic(mm)
             ELSE IF page.read_member = 1
             THEN [mm EXCEPT !.page_manager[i] = [@ EXCEPT !.read_member = 0, !.status = "SWAPABLE"],
                             !.pcb[p].pgdir[v].write = TRUE]
             ELSE IF a.panic THEN a
             ELSE IF b.panic THEN b
             ELSE cow_copy(b, f)
    /\ tlb' = flush(p)
    /\ UNCHANGED shmPages

FullNext ==
    \/ Next
    \/ \E p \in Procs, v \in HeapVpns :
         (do_snapshot(p, v) \/ fault_cow(p, v)) /\ Bounded(mm')

FullSpec == Init /\ [][FullNext]_vars

-----------------------------------------------------------------------------
(* Properties *)

Pte == [present : BOOLEAN, insd : BOOLEAN, write : BOOLEAN, pfn : Nat]
Page == [status : Statuses, read_member : Nat, kva : Nat, uva : Vpns \cup {NoVa},
         pte : Vpns \cup {NoVa}]
Pcb == [alive : BOOLEAN, pagenum : 0 .. MAX_PAGETABLE_NUM, pagehead : Seq(PageIds),
        tables : SUBSET ({1, 2} \X Nat), pgdir : [Vpns -> Pte], shm_page_num : Nat]
Shm == [valid : BOOLEAN, key : 0 .. KeyMod - 1, num : 0 .. NumMod - 1, pa : Nat]

\* The type of every variable.  No process has more pages than its limit: all
\* that allocPagetable (mm.c:12) hands out beyond it was swapped out before.
TypeOK ==
    /\ mm \in [page_manager : [PageIds -> Page], page_id : 0 .. PAGE_NUM, kernMemCurr : Nat,
               sector : 0 .. MaxSector, mem : [Frames -> Contents],
               sd : [0 .. MaxSector - 1 -> Contents], pcb : [Procs -> Pcb],
               shm_page_table : [ShmIds -> Shm], panic : BOOLEAN]
    /\ tlb \in [Procs -> [Vpns -> Pte]]
    /\ shmPages \subseteq PageIds

\* No two page_manager entries hold the same frame, the page of a segment is
\* never swapped out, and a valid entry of a page directory maps the page of
\* a segment, where segments are attached, and elsewhere the process's own
\* page with that address: no program reaches a page table, a kernel stack or
\* a page of another program through its page directory, whatever was swapped
\* out and in, attached and detached before.
FramesExclusive ==
    /\ \A i, j \in PageIds :
         i # j /\ mm.page_manager[i].kva # 0 => mm.page_manager[i].kva # mm.page_manager[j].kva
    /\ \A i \in shmPages : mm.page_manager[i].kva # 0 /\ mm.page_manager[i].uva = NoVa
    /\ \A p \in Procs, v \in Vpns :
         LET f == mm.pcb[p].pgdir[v].pfn
         IN  mm.pcb[p].alive /\ mm.pcb[p].pgdir[v].present =>
               IF v \in ShmVpns THEN \E i \in shmPages : mm.page_manager[i].kva = f
               ELSE \E i \in Range(mm.pcb[p].pagehead) :
                       mm.page_manager[i].kva = f /\ mm.page_manager[i].uva = v


\* A process with a page on the card is at its limit: the fault handlers
\* assign kva before they pass it to swap_to_mem.
SwappedOnlyWhenFull ==
    \A p \in Procs : mm.pcb[p].alive =>
        \A v \in Vpns : mm.pcb[p].pgdir[v].insd => Full(mm, p)

\* Of the assertions of mm.c only the last line of get_swap_page, and the
\* one for a full shm_page_table, can fail: get_pte finds the entry of the
\* page it swaps out, swap_to_mem finds the page it swaps in, not in memory.
OnlyVictimAssert ==
    mm.panic =>
        \/ \E p \in Procs : mm.pcb[p].alive /\ Full(mm, p) /\ ~CanSwap(mm, p)
        \/ ShmFree = {}

\* Refinement: programs see the memory of module Memory.
View(p, v) ==
    CASE ~mm.pcb[p].alive -> "unmapped"
      [] mm.pcb[p].alive /\ Translation(p, v).present -> mm.mem[Translation(p, v).pfn]
      [] mm.pcb[p].alive /\ ~Translation(p, v).present /\ Translation(p, v).insd ->
           mm.sd[Translation(p, v).pfn]
      [] OTHER -> "unmapped"
Attached(p, v) ==
    {i \in ShmIds : mm.pcb[p].alive /\ mm.pcb[p].pgdir[v].present
                      /\ mm.shm_page_table[i].pa = mm.pcb[p].pgdir[v].pfn}
Seg(p, v) == IF Attached(p, v) = {} THEN -1 ELSE mm.shm_page_table[Min(Attached(p, v))].key

M == INSTANCE Memory WITH
        view <- [p \in Procs |-> [v \in Vpns |-> View(p, v)]],
        seg <- [p \in Procs |-> [v \in Vpns |-> Seg(p, v)]]

\* Frames, tables, swapping and the shared-page table are invisible: every
\* step of the memory management is a step of Memory or changes nothing that
\* a program can read.  This needs Uses = {} (no translation outlives its
\* entry, no page is detached while two segments are in use) and keys of 16
\* bits: with "tlb" two pages may lead to one frame (irq.c:110 flushes
\* nothing), with "detach" an attached segment may be given away (mm.c:293).
MemorySpec == M!Spec
=============================================================================
