---------------------------- MODULE PagingProofs ----------------------------
(***************************************************************************)
(* Memory management for any number of processes, pages, swap slots and    *)
(* segments, any page-table size and any layout that PagingAssumption      *)
(* allows.                                                                 *)
(*                                                                         *)
(* A handler is a composition of helpers on the memory record, so the      *)
(* inductive invariant Sound is one of a record, and each helper has a     *)
(* lemma that it keeps a record sound.  Sound says that page_manager is    *)
(* handed out in order and no frame twice (PoolInv), that no page is on    *)
(* two lists (Disjoint), that each page with an address is mapped there or *)
(* on the card, not both (OwnInv), and that each entry in use has its      *)
(* tables and its page, and is on the card only if the process is at its   *)
(* limit (EntryInv).                                                       *)
(*                                                                         *)
(* Next bounds the record a handler leaves behind, not those between its   *)
(* helpers; but the counters only grow (Grows), so those are bounded too.  *)
(* The loop of load_task_img is a recursive function; that each of its     *)
(* rounds is sound follows by induction over the set of rounds (Steps).    *)
(***************************************************************************)
EXTENDS Paging, PcbListProofs

Own(s, p) == Range(s.pcb[p].pagehead)
Entry(s, p, v) == s.pcb[p].pgdir[v]

\* The types of a memory state within the bounds.
MemType(s) ==
    s \in [page_manager : [PageIds -> Page], page_id : 0 .. PAGE_NUM,
           kernMemCurr : 1 .. PAGE_NUM + 1, sector : 0 .. MaxSector,
           mem : [Frames -> Contents], sd : [0 .. MaxSector - 1 -> Contents],
           pcb : [Procs -> Pcb], shm_page_table : [ShmIds -> Shm], panic : BOOLEAN]

\* page_manager is handed out in order, and no frame twice.
PoolInv(s) ==
    /\ \A i \in PageIds :
         /\ i >= s.page_id => s.page_manager[i] = UnusedPage
         /\ i < s.page_id => s.page_manager[i].status # "UNUSED"
         /\ s.page_manager[i].kva < s.kernMemCurr
    /\ \A i, j \in PageIds :
         i # j /\ s.page_manager[i].kva # 0 => s.page_manager[i].kva # s.page_manager[j].kva

\* No page is on the lists of two processes.
Disjoint(s) == \A p, q \in Procs : p # q => Own(s, p) \cap Own(s, q) = {}

\* A page with an address is mapped there, or on the card.
InMemory(s, p, i) ==
    LET page == s.page_manager[i]
        e == Entry(s, p, page.pte)
    IN  /\ e.present /\ ~e.insd /\ e.pfn = page.kva
        /\ page.kva # 0 /\ page.uva = page.pte /\ page.status # "NOT_IN_MEM"
OnCard(s, p, i) ==
    LET page == s.page_manager[i]
        e == Entry(s, p, page.pte)
    IN  /\ e.insd /\ ~e.present
        /\ page.kva = 0 /\ page.status = "NOT_IN_MEM" /\ page.pte \in HeapVpns

OwnInv(s, p) ==
    /\ \A i \in Own(s, p) :
         /\ i < s.page_id
         /\ s.page_manager[i].status = "SWAPABLE" =>
              s.page_manager[i].uva \in HeapVpns /\ s.page_manager[i].pte = s.page_manager[i].uva
         /\ s.page_manager[i].pte # NoVa =>
              /\ s.page_manager[i].pte \in Vpns \ ShmVpns
              /\ InMemory(s, p, i) \/ OnCard(s, p, i)
    /\ \A i, j \in Own(s, p) :
         s.page_manager[i].pte # NoVa /\ s.page_manager[i].pte = s.page_manager[j].pte => i = j

\* An entry that is used has its tables; one that names a page of the
\* process (every one but those of attached segments) has that page on the
\* list; and nothing is on the card unless the process is at its limit.
EntryInv(s, p) ==
    \A v \in Vpns :
        /\ Entry(s, p, v).present \/ Entry(s, p, v).insd => Walks(s, p, v)
        /\ Entry(s, p, v).insd => /\ ~Entry(s, p, v).present /\ Full(s, p)
                                  /\ Entry(s, p, v).pfn < s.sector
        /\ Entry(s, p, v).insd \/ (Entry(s, p, v).present /\ v \notin ShmVpns) =>
             \E i \in Own(s, p) : s.page_manager[i].pte = v

\* The inductive invariant, of a memory state.
Sound(s) ==
    /\ MemType(s)
    /\ PoolInv(s)
    /\ Disjoint(s)
    /\ \A p \in Procs : OwnInv(s, p) /\ EntryInv(s, p)

\* A frame that was handed out before and that no page holds now.
Free(s, f) ==
    /\ f \in Nat \ {0} /\ f < s.kernMemCurr
    /\ \A i \in PageIds : s.page_manager[i].kva # f

\* The pages of the heap are pages of the address space, and no segment is
\* attached there; nor over the image or the stack.
LEMMA Layout ==
    /\ HeapVpns \subseteq Vpns \ ShmVpns
    /\ StackVpn \in Vpns \ ShmVpns
    /\ 1 .. ImagePages \subseteq Vpns \ ShmVpns
    /\ ShmVpns \subseteq Vpns
    /\ \A v \in Vpns : v \in Nat /\ v # NoVa
  BY PagingAssumption DEF Vpns, ShmVpns, ShmVpn, NoVa

\* What the type of a memory state says of its parts.
LEMMA Parts ==
    ASSUME NEW s, MemType(s)
    PROVE  /\ \A p \in Procs : s.pcb[p] \in Pcb
           /\ \A p \in Procs : Own(s, p) \subseteq PageIds
           /\ \A p \in Procs, v \in Vpns : Entry(s, p, v) \in Pte
           /\ \A i \in PageIds : s.page_manager[i] \in Page /\ s.page_manager[i].kva \in Nat
<1>1. \A p \in Procs : s.pcb[p] \in Pcb
  BY DEF MemType
<1>2. \A i \in PageIds : s.page_manager[i] \in Page
  BY DEF MemType
<1>3. \A p \in Procs : s.pcb[p].pagehead \in Seq(PageIds) /\ s.pcb[p].pgdir \in [Vpns -> Pte]
  BY <1>1 DEF Pcb
<1>4. ASSUME NEW q \in Seq(PageIds) PROVE Range(q) \subseteq PageIds
  BY DEF Range
<1> QED
  BY <1>1, <1>2, <1>3, <1>4 DEF Own, Entry, Page

\* A step that leaves a process's PCB and pages alone keeps what holds of it.
LEMMA Others ==
    ASSUME NEW s, NEW r, NEW q \in Procs, MemType(s), OwnInv(s, q), EntryInv(s, q),
           r.pcb[q] = s.pcb[q], r.page_id \in Int, r.page_id >= s.page_id,
           r.sector \in Int, r.sector >= s.sector,
           \A i \in Own(s, q) : r.page_manager[i] = s.page_manager[i]
    PROVE  OwnInv(r, q) /\ EntryInv(r, q)
<1>1. /\ Own(r, q) = Own(s, q) /\ \A v : Entry(r, q, v) = Entry(s, q, v)
      /\ \A v : Walks(r, q, v) <=> Walks(s, q, v)
      /\ Full(r, q) <=> Full(s, q)
  BY DEF Own, Entry, Walks, Full
<1>2. s.page_id \in Int /\ s.sector \in Int
  BY DEF MemType
<1>3. \A i \in Own(s, q) : i \in Int
  BY Parts DEF PageIds
<1>4. \A v \in Vpns : Entry(s, q, v).pfn \in Int
  BY Parts DEF Pte
<1>5. \A i \in Own(s, q) : (InMemory(s, q, i) => InMemory(r, q, i))
                             /\ (OnCard(s, q, i) => OnCard(r, q, i))
  BY <1>1 DEF InMemory, OnCard
<1>6. OwnInv(r, q)
  BY <1>1, <1>2, <1>3, <1>5 DEF OwnInv
<1>7. EntryInv(r, q)
  BY <1>1, <1>2, <1>4 DEF EntryInv
<1> QED
  BY <1>6, <1>7

\* A search of the page list finds a page that passes its test, if any does.
LEMMA FirstOfMember ==
    ASSUME NEW S, NEW list \in Seq(S), NEW ok, Range(list) \cap ok # {}
    PROVE  FirstOf(list, ok) \in Range(list) \cap ok
<1> DEFINE N == {n \in DOMAIN list : list[n] \in ok}
<1>1. DOMAIN list = 1 .. Len(list) /\ Len(list) \in Nat
  BY LenProperties
<1>2. N \in SUBSET Nat /\ N # {}
  BY <1>1 DEF Range
<1> DEFINE m == Min(N)
<1>3. m \in N /\ \A n \in N : m <= n
  <2> HIDE DEF N
  <2> QED BY <1>2, MinIsLeast
<1> HIDE DEF m
<1>4. \A k \in 1 .. m - 1 : list[k] \notin ok
  BY <1>1, <1>3
<1>5. list[m] \in Range(list) /\ IsFirst(list, list[m], ok)
  BY <1>1, <1>3, <1>4 DEF IsFirst, Range
<1>6. FirstOf(list, ok) = CHOOSE i \in Range(list) : IsFirst(list, i, ok)
  BY DEF FirstOf
<1>7. FirstOf(list, ok) \in Range(list) /\ IsFirst(list, FirstOf(list, ok), ok)
  BY <1>5, <1>6
<1> QED
  BY <1>7 DEF IsFirst

-----------------------------------------------------------------------------
(* The elementary updates of a memory state keep it sound. *)

\* A memory state is a record with these fields.
Fields == {"page_manager", "page_id", "kernMemCurr", "sector", "mem", "sd", "pcb",
           "shm_page_table", "panic"}
Shape(s) == s = [x \in Fields |-> s[x]]

\* A typed memory state has the nine fields,
LEMMA TypeHasShape ==
    ASSUME NEW s, MemType(s)
    PROVE  Shape(s)
  BY DEF Shape, MemType, Fields

\* and one with the nine fields, each of its type, is typed.
LEMMA ShapeHasType ==
    ASSUME NEW s, Shape(s),
           s.page_manager \in [PageIds -> Page], s.page_id \in 0 .. PAGE_NUM,
           s.kernMemCurr \in 1 .. PAGE_NUM + 1, s.sector \in 0 .. MaxSector,
           s.mem \in [Frames -> Contents], s.sd \in [0 .. MaxSector - 1 -> Contents],
           s.pcb \in [Procs -> Pcb], s.shm_page_table \in [ShmIds -> Shm], s.panic \in BOOLEAN
    PROVE  MemType(s)
  BY DEF Shape, MemType, Fields

\* The updates the helpers are made of: the entry of a page, a page, and a
\* PCB get new values.
EntrySet(s, r, p, v, e) == r.pcb = [s.pcb EXCEPT ![p].pgdir[v] = e]
PageSet(s, r, i, page) == r.page_manager = [s.page_manager EXCEPT ![i] = page]
PcbSet(s, r, p, pcb) == r.pcb = [s.pcb EXCEPT ![p] = pcb]
MemSet(s, r, f, x) == r.mem = [s.mem EXCEPT ![f] = x]
SdSet(s, r, x, y) == r.sd = [s.sd EXCEPT ![x] = y]

\* The entry and the page that move_to_sd leaves behind.
PteOut(e, x) == [e EXCEPT !.insd = TRUE, !.present = FALSE, !.pfn = x]
PageOut(page, v) == [page EXCEPT !.pte = v, !.status = "NOT_IN_MEM", !.kva = 0]

\* What move_to_sd does to the fields.
LEMMA MoveFields ==
    ASSUME NEW s, Shape(s), NEW p, NEW i, NEW v, NEW r, r = move_to_sd(s, p, i, v)
    PROVE  /\ Shape(r)
           /\ PageSet(s, r, i, PageOut(s.page_manager[i], v))
           /\ EntrySet(s, r, p, v, PteOut(Entry(s, p, v), s.sector))
           /\ SdSet(s, r, s.sector, s.mem[Entry(s, p, v).pfn])
           /\ MemSet(s, r, Entry(s, p, v).pfn, Zero)
           /\ r.sector = s.sector + 1 /\ r.page_id = s.page_id
           /\ r.kernMemCurr = s.kernMemCurr
           /\ r.shm_page_table = s.shm_page_table /\ r.panic = s.panic
<1>1. PageSet(s, r, i, PageOut(s.page_manager[i], v))
  BY DEF move_to_sd, clear_pgdir, Shape, Fields, PageSet, PageOut
<1>2. EntrySet(s, r, p, v, PteOut(Entry(s, p, v), s.sector))
  BY DEF move_to_sd, clear_pgdir, Shape, Fields, EntrySet, PteOut, Entry
<1>3. /\ r.sector = s.sector + 1 /\ r.page_id = s.page_id
      /\ r.kernMemCurr = s.kernMemCurr
      /\ r.shm_page_table = s.shm_page_table /\ r.panic = s.panic
  BY DEF move_to_sd, clear_pgdir, Shape, Fields
<1>4. SdSet(s, r, s.sector, s.mem[Entry(s, p, v).pfn])
  BY DEF move_to_sd, clear_pgdir, Shape, Fields, Entry, SdSet
<1>5. MemSet(s, r, Entry(s, p, v).pfn, Zero)
  BY SMTT(40) DEF move_to_sd, clear_pgdir, Shape, Fields, Entry, MemSet
<1>6. Shape(r)
  BY ZenonT(60) DEF move_to_sd, clear_pgdir, Shape, Fields
<1> QED
  BY <1>1, <1>2, <1>3, <1>4, <1>5, <1>6, Zenon

\* Frames and sectors keep their types.
LEMMA MemChange ==
    ASSUME NEW s, MemType(s), NEW r, NEW f, NEW x \in Contents, MemSet(s, r, f, x)
    PROVE  r.mem \in [Frames -> Contents]
<1>1. s.mem \in [Frames -> Contents]
  BY DEF MemType
<1> QED
  BY <1>1 DEF MemSet

\* Writing a swap slot keeps the card typed, within its bounds or not.
LEMMA SdChange ==
    ASSUME NEW s, MemType(s), NEW r, NEW x, NEW y \in Contents, SdSet(s, r, x, y)
    PROVE  r.sd \in [0 .. MaxSector - 1 -> Contents]
<1>1. s.sd \in [0 .. MaxSector - 1 -> Contents]
  BY DEF MemType
<1> QED
  BY <1>1 DEF SdSet

\* What a change of one page leaves alone.
LEMMA PageChange ==
    ASSUME NEW s, MemType(s), NEW i \in PageIds, NEW page \in Page, NEW r, PageSet(s, r, i, page)
    PROVE  /\ r.page_manager \in [PageIds -> Page]
           /\ r.page_manager[i] = page
           /\ \A j \in PageIds : j # i => r.page_manager[j] = s.page_manager[j]
<1>1. s.page_manager \in [PageIds -> Page]
  BY DEF MemType
<1> QED
  BY <1>1 DEF PageSet

\* The victim of a swap is mapped, and it is in memory.
LEMMA VictimMapped ==
    ASSUME NEW s, Sound(s), NEW p \in Procs, NEW i \in Own(s, p),
           s.page_manager[i].status = "SWAPABLE"
    PROVE  LET v == s.page_manager[i].uva IN
           /\ i \in PageIds /\ v \in HeapVpns /\ v \in Vpns \ ShmVpns
           /\ s.page_manager[i].pte = v
           /\ Entry(s, p, v).present /\ ~Entry(s, p, v).insd
           /\ Entry(s, p, v).pfn = s.page_manager[i].kva
           /\ s.page_manager[i].kva \in Frames /\ s.page_manager[i].kva < s.kernMemCurr
           /\ PageValid(s, p, v)
<1> DEFINE v == s.page_manager[i].uva
<1>1. i \in PageIds /\ MemType(s) /\ OwnInv(s, p) /\ EntryInv(s, p) /\ PoolInv(s)
  BY Parts DEF Sound
<1>2. v \in HeapVpns /\ s.page_manager[i].pte = v /\ v \in Vpns \ ShmVpns /\ v # NoVa
  BY <1>1, Layout DEF OwnInv
<1>3. InMemory(s, p, i)
  BY <1>1, <1>2 DEF OwnInv, OnCard
<1>4. /\ Entry(s, p, v).present /\ ~Entry(s, p, v).insd
      /\ Entry(s, p, v).pfn = s.page_manager[i].kva /\ s.page_manager[i].kva # 0
  BY <1>2, <1>3 DEF InMemory
<1>5. s.page_manager[i].kva \in Nat /\ s.page_manager[i].kva < s.kernMemCurr
      /\ s.kernMemCurr \in 1 .. PAGE_NUM + 1
  BY <1>1, Parts DEF PoolInv, MemType
<1>6. s.page_manager[i].kva \in Frames
  BY <1>4, <1>5, PagingAssumption, SMTT(40) DEF Frames
<1>7. PageValid(s, p, v)
  BY <1>1, <1>2, <1>4 DEF EntryInv, PageValid, Entry
<1> QED
  BY <1>1, <1>2, <1>4, <1>5, <1>6, <1>7

\* What a change of the entry of page v of process p leaves alone.
LEMMA EntryChange ==
    ASSUME NEW s, MemType(s), NEW p \in Procs, NEW v \in Vpns, NEW e \in Pte, NEW r,
           EntrySet(s, r, p, v, e)
    PROVE  /\ r.pcb \in [Procs -> Pcb]
           /\ Entry(r, p, v) = e
           /\ \A u \in Vpns : u # v => Entry(r, p, u) = Entry(s, p, u)
           /\ \A q \in Procs : q # p => r.pcb[q] = s.pcb[q]
           /\ \A q \in Procs : Own(r, q) = Own(s, q)
           /\ \A q \in Procs : \A u : Walks(r, q, u) <=> Walks(s, q, u)
           /\ \A q \in Procs : Full(r, q) <=> Full(s, q)
           /\ \A q \in Procs : /\ r.pcb[q].alive = s.pcb[q].alive
                               /\ r.pcb[q].pagehead = s.pcb[q].pagehead
                               /\ r.pcb[q].tables = s.pcb[q].tables
                               /\ r.pcb[q].pagenum = s.pcb[q].pagenum
                               /\ r.pcb[q].shm_page_num = s.pcb[q].shm_page_num
<1> DEFINE c == s.pcb[p]
           d == [c EXCEPT !.pgdir[v] = e]
<1>1. c \in Pcb /\ s.pcb \in [Procs -> Pcb]
  BY DEF MemType
<1>2. /\ d \in Pcb
      /\ d.pgdir[v] = e /\ (\A u \in Vpns : u # v => d.pgdir[u] = c.pgdir[u])
      /\ d.alive = c.alive /\ d.pagehead = c.pagehead /\ d.tables = c.tables
      /\ d.pagenum = c.pagenum /\ d.shm_page_num = c.shm_page_num
  <2> HIDE DEF c
  <2> QED BY <1>1 DEF Pcb
<1>3. r.pcb = [s.pcb EXCEPT ![p] = d]
  BY DEF EntrySet
<1> HIDE DEF d
<1>4. r.pcb \in [Procs -> Pcb] /\ r.pcb[p] = d /\ \A q \in Procs : q # p => r.pcb[q] = s.pcb[q]
  BY <1>1, <1>2, <1>3
<1>5. \A q \in Procs : /\ r.pcb[q].alive = s.pcb[q].alive
                       /\ r.pcb[q].pagehead = s.pcb[q].pagehead
                       /\ r.pcb[q].tables = s.pcb[q].tables
                       /\ r.pcb[q].pagenum = s.pcb[q].pagenum
                       /\ r.pcb[q].shm_page_num = s.pcb[q].shm_page_num
  BY <1>2, <1>4
<1>6. Entry(r, p, v) = e /\ \A u \in Vpns : u # v => Entry(r, p, u) = Entry(s, p, u)
  BY <1>2, <1>4 DEF Entry
<1>7. \A q \in Procs : Own(r, q) = Own(s, q)
  BY <1>5 DEF Own
<1>8. \A q \in Procs : (Full(r, q) <=> Full(s, q))
  BY <1>5 DEF Full
<1>9. \A q \in Procs : \A u : Walks(r, q, u) <=> Walks(s, q, u)
  BY <1>5 DEF Walks
<1> QED
  BY <1>4, <1>5, <1>6, <1>7, <1>8, <1>9

\* Swapping a page out keeps the state sound, and its frame is free then.
LEMMA SwapOut ==
    ASSUME NEW s, Sound(s), NEW p \in Procs, NEW i \in Own(s, p),
           s.page_manager[i].status = "SWAPABLE", Full(s, p),
           NEW r, r = move_to_sd(s, p, i, s.page_manager[i].uva), r.sector <= MaxSector
    PROVE  Sound(r) /\ Free(r, s.page_manager[i].kva)
<1> DEFINE v == s.page_manager[i].uva
           f == s.page_manager[i].kva
<1>1. /\ i \in PageIds /\ v \in HeapVpns /\ v \in Vpns \ ShmVpns /\ v \in Vpns
      /\ s.page_manager[i].pte = v
      /\ Entry(s, p, v).present /\ ~Entry(s, p, v).insd /\ Entry(s, p, v).pfn = f
      /\ f \in Frames /\ f < s.kernMemCurr /\ PageValid(s, p, v)
  BY VictimMapped
<1>2. MemType(s) /\ Shape(s) /\ PoolInv(s) /\ Disjoint(s)
      /\ \A q \in Procs : OwnInv(s, q) /\ EntryInv(s, q)
  BY TypeHasShape DEF Sound
<1> HIDE DEF v, f
<1>3. /\ Shape(r)
      /\ r.sector = s.sector + 1 /\ r.page_id = s.page_id
      /\ r.kernMemCurr = s.kernMemCurr
      /\ r.shm_page_table = s.shm_page_table /\ r.panic = s.panic
  BY <1>2, MoveFields
<1> DEFINE e == PteOut(Entry(s, p, v), s.sector)
           page == PageOut(s.page_manager[i], v)
<1>4. /\ s.page_id \in 0 .. PAGE_NUM /\ s.kernMemCurr \in 1 .. PAGE_NUM + 1
      /\ s.sector \in 0 .. MaxSector /\ s.sector \in Nat
      /\ s.mem \in [Frames -> Contents] /\ s.sd \in [0 .. MaxSector - 1 -> Contents]
      /\ s.page_manager \in [PageIds -> Page]
      /\ s.shm_page_table \in [ShmIds -> Shm] /\ s.panic \in BOOLEAN
  BY <1>2, PagingAssumption DEF MemType
<1>5. e \in Pte /\ e.insd /\ ~e.present /\ e.pfn = s.sector
  BY <1>1, <1>2, <1>4, Parts, ZenonT(60) DEF Pte, PteOut
<1>6. page \in Page /\ page.pte = v /\ page.status = "NOT_IN_MEM" /\ page.kva = 0
  BY <1>1, <1>4, ZenonT(60) DEF Page, PageOut, Statuses
<1>7. EntrySet(s, r, p, v, e) /\ PageSet(s, r, i, page)
  BY <1>2, MoveFields, Zenon DEF v
<1> HIDE DEF e, page
<1>8. /\ r.pcb \in [Procs -> Pcb] /\ Entry(r, p, v) = e
      /\ \A u \in Vpns : u # v => Entry(r, p, u) = Entry(s, p, u)
      /\ \A q \in Procs : q # p => r.pcb[q] = s.pcb[q]
      /\ \A q \in Procs : Own(r, q) = Own(s, q)
      /\ \A q \in Procs : \A u : Walks(r, q, u) <=> Walks(s, q, u)
      /\ \A q \in Procs : Full(r, q) <=> Full(s, q)
  BY <1>1, <1>2, <1>5, <1>7, EntryChange
<1>9. /\ r.page_manager \in [PageIds -> Page]
      /\ r.page_manager[i].pte = v /\ r.page_manager[i].status = "NOT_IN_MEM"
      /\ r.page_manager[i].kva = 0
      /\ \A j \in PageIds : j # i => r.page_manager[j] = s.page_manager[j]
  BY <1>1, <1>2, <1>6, <1>7, PageChange, SMTT(40)
<1>10. MemType(r)
  <2>1. r.mem \in [Frames -> Contents] /\ r.sd \in [0 .. MaxSector - 1 -> Contents]
    <3>1. SdSet(s, r, s.sector, s.mem[f]) /\ MemSet(s, r, f, Zero)
      BY <1>1, <1>2, MoveFields, Zenon DEF v
    <3>2. s.mem[f] \in Contents /\ Zero \in Contents
      BY <1>1, <1>4 DEF Contents
    <3> QED
      BY <1>2, <3>1, <3>2, MemChange, SdChange
  <2>2. r.sector \in 0 .. MaxSector
    BY <1>3, <1>4, PagingAssumption, SMTT(40)
  <2> QED
    BY <1>3, <1>4, <1>8, <1>9, <2>1, <2>2, ShapeHasType
<1>11. PoolInv(r)
  <2>1. i < s.page_id
    BY <1>2 DEF OwnInv
  <2> QED
    BY <1>1, <1>2, <1>3, <1>4, <1>9, <2>1, SMTT(40) DEF PoolInv, PageIds
<1>12. Disjoint(r)
  BY <1>2, <1>8 DEF Disjoint
<1>13. ASSUME NEW q \in Procs, q # p PROVE OwnInv(r, q) /\ EntryInv(r, q)
  <2>1. i \notin Own(s, q)
    BY <1>2, <1>13 DEF Disjoint
  <2>2. \A j \in Own(s, q) : r.page_manager[j] = s.page_manager[j]
    BY <2>1, <1>2, <1>9, Parts
  <2>3. r.page_id \in Int /\ r.page_id >= s.page_id /\ r.sector \in Int /\ r.sector >= s.sector
    <3>1. r.page_id = s.page_id /\ r.sector = s.sector + 1
      BY <1>3
    <3>2. s.page_id \in Int /\ s.sector \in Int
      BY <1>2, SMTT(40) DEF MemType
    <3> QED
      BY <3>1, <3>2
  <2> QED
    BY <1>2, <1>8, <1>13, <2>2, <2>3, Others
<1>14. OwnInv(r, p)
  <2>1. \A j \in Own(s, p) : j # i /\ s.page_manager[j].pte # NoVa => s.page_manager[j].pte # v
    BY <1>1, <1>2, Layout DEF OwnInv
  <2>2. \A j \in Own(s, p) : j \in PageIds
    BY <1>2, Parts
  <2>3. OnCard(r, p, i)
    BY <1>1, <1>5, <1>8, <1>9 DEF OnCard
  <2>4. ASSUME NEW j \in Own(s, p), j # i, s.page_manager[j].pte # NoVa
        PROVE  /\ s.page_manager[j].pte \in Vpns \ ShmVpns
               /\ InMemory(r, p, j) \/ OnCard(r, p, j)
    <3>1. s.page_manager[j].pte \in Vpns \ ShmVpns /\ (InMemory(s, p, j) \/ OnCard(s, p, j))
      BY <1>2, <2>4 DEF OwnInv
    <3>2. Entry(r, p, s.page_manager[j].pte) = Entry(s, p, s.page_manager[j].pte)
      BY <1>8, <2>1, <2>4, <3>1, SMTT(40)
    <3>3. r.page_manager[j] = s.page_manager[j]
      BY <1>9, <2>2, <2>4
    <3> QED
      BY <3>1, <3>2, <3>3 DEF InMemory, OnCard
  <2>5. \A j \in Own(s, p) : j # i => r.page_manager[j] = s.page_manager[j]
    BY <1>9, <2>2
  <2>6. Own(r, p) = Own(s, p) /\ r.page_id = s.page_id
    BY <1>3, <1>8
  <2>7. /\ r.page_manager[i].pte = v /\ r.page_manager[i].status = "NOT_IN_MEM"
        /\ i < s.page_id /\ v \in Vpns \ ShmVpns
    BY <1>1, <1>2, <1>9 DEF OwnInv
  <2>8. /\ \A j \in Own(s, p) : j < s.page_id
        /\ \A j \in Own(s, p) : s.page_manager[j].status = "SWAPABLE" =>
             s.page_manager[j].uva \in HeapVpns /\ s.page_manager[j].pte = s.page_manager[j].uva
        /\ \A j, k \in Own(s, p) :
             s.page_manager[j].pte # NoVa /\ s.page_manager[j].pte = s.page_manager[k].pte => j = k
    BY <1>2, SMTT(40) DEF OwnInv
  <2>9. ASSUME NEW j \in Own(s, p)
        PROVE  /\ r.page_manager[j].status = "SWAPABLE" =>
                    r.page_manager[j].uva \in HeapVpns /\ r.page_manager[j].pte = r.page_manager[j].uva
               /\ r.page_manager[j].pte # NoVa =>
                    /\ r.page_manager[j].pte \in Vpns \ ShmVpns
                    /\ InMemory(r, p, j) \/ OnCard(r, p, j)
    <3>1. CASE j = i
      BY <3>1, <2>3, <2>7, SMTT(40)
    <3>2. CASE j # i
      BY <3>2, <2>4, <2>5, <2>8
    <3> QED
      BY <3>1, <3>2
  <2>10. ASSUME NEW j \in Own(s, p), NEW k \in Own(s, p),
                r.page_manager[j].pte # NoVa, r.page_manager[j].pte = r.page_manager[k].pte
         PROVE  j = k
    <3>1. CASE j = i
      BY <3>1, <2>1, <2>5, <2>7, <2>10, SMTT(40)
    <3>2. CASE k = i
      BY <3>2, <2>1, <2>5, <2>7, <2>10, SMTT(40)
    <3>3. CASE j # i /\ k # i
      BY <3>3, <2>5, <2>8, <2>10, SMTT(40)
    <3> QED
      BY <3>1, <3>2, <3>3, SMTT(40)
  <2> QED
    BY <2>6, <2>8, <2>9, <2>10 DEF OwnInv
<1>15. EntryInv(r, p)
  <2>1. ASSUME NEW u \in Vpns, u # v
        PROVE  /\ Entry(r, p, u).present \/ Entry(r, p, u).insd => Walks(r, p, u)
               /\ Entry(r, p, u).insd => /\ ~Entry(r, p, u).present /\ Full(r, p)
                                         /\ Entry(r, p, u).pfn < r.sector
               /\ Entry(r, p, u).insd \/ (Entry(r, p, u).present /\ u \notin ShmVpns) =>
                    \E j \in Own(r, p) : r.page_manager[j].pte = u
    <3>1. Entry(s, p, u).pfn \in Int
      BY <1>2, Parts DEF Pte
    <3>2. Entry(s, p, u).insd \/ (Entry(s, p, u).present /\ u \notin ShmVpns) =>
            \E j \in Own(s, p) : j \in PageIds /\ j # i /\ s.page_manager[j].pte = u
      BY <1>1, <1>2, <2>1, Parts DEF EntryInv
    <3>3. Entry(r, p, u) = Entry(s, p, u)
      BY <1>8, <2>1
    <3>4. Entry(s, p, u).insd => Entry(s, p, u).pfn < s.sector /\ ~Entry(s, p, u).present
      BY <1>2 DEF EntryInv
    <3>5. Entry(s, p, u).present \/ Entry(s, p, u).insd => Walks(s, p, u)
      BY <1>2 DEF EntryInv
    <3> QED
      BY <1>3, <1>4, <1>8, <1>9, <3>1, <3>2, <3>3, <3>4, <3>5
  <2>2. Walks(s, p, v)
    BY <1>1, SMTT(40) DEF PageValid
  <2> QED
    BY <1>1, <1>3, <1>4, <1>5, <1>8, <1>9, <2>1, <2>2, SMTT(40) DEF EntryInv
<1>16. Free(r, f)
  <2>1. f \in Nat \ {0}
    BY <1>1 DEF Frames
  <2> QED
    BY <1>1, <1>2, <1>3, <1>9, <2>1 DEF Free, PoolInv, f
<1> QED
  BY <1>10, <1>11, <1>12, <1>13, <1>14, <1>15, <1>16 DEF Sound, f

\* What a change of a PCB leaves alone.
LEMMA PcbChange ==
    ASSUME NEW s, MemType(s), NEW p \in Procs, NEW pcb \in Pcb, NEW r, PcbSet(s, r, p, pcb)
    PROVE  /\ r.pcb \in [Procs -> Pcb]
           /\ r.pcb[p] = pcb
           /\ \A q \in Procs : q # p => r.pcb[q] = s.pcb[q]
<1>1. s.pcb \in [Procs -> Pcb]
  BY DEF MemType
<1> QED
  BY <1>1 DEF PcbSet

\* A new page, on the list of p: without an address, or mapped at an address
\* where nothing was.
LEMMA NewPage ==
    ASSUME NEW s, Sound(s), NEW p \in Procs, NEW i \in PageIds, i = s.page_id,
           NEW f, Free(s, f), NEW r, Shape(r),
           NEW page \in Page, PageSet(s, r, i, page), page.kva = f,
           page.status \notin {"UNUSED", "NOT_IN_MEM"}, page.uva = page.pte,
           r.page_id = i + 1, r.kernMemCurr = s.kernMemCurr, r.sector = s.sector,
           r.mem \in [Frames -> Contents], r.sd = s.sd, r.shm_page_table = s.shm_page_table,
           r.panic = s.panic,
           NEW pcb \in Pcb, PcbSet(s, r, p, pcb),
           Own(r, p) = Own(s, p) \cup {i},
           pcb.pagenum = s.pcb[p].pagenum, pcb.tables = s.pcb[p].tables,
           \/ /\ page.pte = NoVa /\ page.status # "SWAPABLE"
              /\ \A u \in Vpns : pcb.pgdir[u] = Entry(s, p, u)
           \/ /\ page.pte \in Vpns \ ShmVpns /\ Walks(s, p, page.pte)
              /\ page.status = "SWAPABLE" => page.pte \in HeapVpns
              /\ ~Entry(s, p, page.pte).present /\ ~Entry(s, p, page.pte).insd
              /\ pcb.pgdir[page.pte].present /\ ~pcb.pgdir[page.pte].insd
              /\ pcb.pgdir[page.pte].pfn = f
              /\ \A u \in Vpns : u # page.pte => pcb.pgdir[u] = Entry(s, p, u)
    PROVE  Sound(r)
<1>1. MemType(s) /\ PoolInv(s) /\ Disjoint(s)
      /\ \A q \in Procs : OwnInv(s, q) /\ EntryInv(s, q)
  BY DEF Sound
<1>2. /\ r.page_manager \in [PageIds -> Page]
      /\ r.page_manager[i] = page
      /\ \A j \in PageIds : j # i => r.page_manager[j] = s.page_manager[j]
  BY <1>1, PageChange
<1>3. /\ r.pcb \in [Procs -> Pcb] /\ r.pcb[p] = pcb
      /\ \A q \in Procs : q # p => r.pcb[q] = s.pcb[q]
  BY <1>1, PcbChange
<1>4. /\ s.page_id \in 0 .. PAGE_NUM /\ s.kernMemCurr \in 1 .. PAGE_NUM + 1
      /\ s.sector \in 0 .. MaxSector /\ s.sd \in [0 .. MaxSector - 1 -> Contents]
      /\ s.shm_page_table \in [ShmIds -> Shm] /\ s.panic \in BOOLEAN
  BY <1>1 DEF MemType
<1>5. i \in 0 .. PAGE_NUM - 1 /\ PAGE_NUM \in Nat
  BY PagingAssumption DEF PageIds
<1>6. MemType(r)
  <2>1. r.page_id \in 0 .. PAGE_NUM
    BY <1>4, <1>5
  <2> QED
    BY <1>2, <1>3, <1>4, <2>1, ShapeHasType
<1>7. /\ f \in Nat \ {0} /\ f < s.kernMemCurr
      /\ \A j \in PageIds : s.page_manager[j].kva # f /\ s.page_manager[j].kva \in Nat
  BY <1>1, Parts, SMTT(40) DEF Free
<1>8. PoolInv(r)
  <2>1. ASSUME NEW j \in PageIds
        PROVE  /\ j >= r.page_id => r.page_manager[j] = UnusedPage
               /\ j < r.page_id => r.page_manager[j].status # "UNUSED"
               /\ r.page_manager[j].kva < r.kernMemCurr
    <3>1. CASE j = i
      BY <1>2, <1>5, <1>7, <3>1
    <3>2. CASE j # i
      <4>1. j \in Int /\ r.page_manager[j] = s.page_manager[j]
        BY <1>2, <3>2 DEF PageIds
      <4>2. /\ j >= s.page_id => s.page_manager[j] = UnusedPage
            /\ j < s.page_id => s.page_manager[j].status # "UNUSED"
            /\ s.page_manager[j].kva < s.kernMemCurr
        BY <1>1 DEF PoolInv
      <4> QED
        BY <1>5, <3>2, <4>1, <4>2
    <3> QED
      BY <3>1, <3>2
  <2>2. ASSUME NEW j \in PageIds, NEW k \in PageIds, j # k, r.page_manager[j].kva # 0
        PROVE  r.page_manager[j].kva # r.page_manager[k].kva
    <3>1. s.page_manager[j].kva # 0 => s.page_manager[j].kva # s.page_manager[k].kva
      BY <1>1, <2>2 DEF PoolInv
    <3> QED
      BY <1>2, <1>7, <2>2, <3>1
  <2> QED
    BY <2>1, <2>2 DEF PoolInv
<1>9. \A q \in Procs : i \notin Own(s, q)
  <2>1. \A q \in Procs : \A j \in Own(s, q) : j < s.page_id /\ j \in Int
    BY <1>1, Parts DEF OwnInv, PageIds
  <2> QED
    BY <1>5, <2>1
<1>10. \A q \in Procs : q # p => Own(r, q) = Own(s, q)
  BY <1>3 DEF Own
<1>11. Disjoint(r)
  BY <1>1, <1>9, <1>10 DEF Disjoint
<1>12. ASSUME NEW q \in Procs, q # p PROVE OwnInv(r, q) /\ EntryInv(r, q)
  <2>1. \A j \in Own(s, q) : r.page_manager[j] = s.page_manager[j]
    BY <1>1, <1>2, <1>9, Parts
  <2>2. r.page_id \in Int /\ r.page_id >= s.page_id /\ r.sector \in Int /\ r.sector >= s.sector
    BY <1>4, <1>5
  <2> QED
    BY <1>1, <1>3, <1>12, <2>1, <2>2, Others
<1>13. \A u : Entry(r, p, u) = pcb.pgdir[u]
  BY <1>3 DEF Entry
<1>14. \A u : (Walks(r, p, u) <=> Walks(s, p, u)) /\ (Full(r, p) <=> Full(s, p))
  BY <1>3 DEF Walks, Full
<1>15. \A j \in Own(s, p) :
         /\ j # i /\ j \in PageIds /\ j < s.page_id /\ j < r.page_id
         /\ r.page_manager[j] = s.page_manager[j]
  <2>1. \A j \in Own(s, p) : j # i /\ j \in PageIds /\ j \in Int /\ j < s.page_id
    BY <1>1, <1>9, Parts, SMTT(40) DEF OwnInv, PageIds
  <2> QED
    BY <1>2, <1>5, <2>1
<1>16. \A j \in Own(s, p) : s.page_manager[j].pte # NoVa =>
         /\ s.page_manager[j].pte \in Vpns \ ShmVpns
         /\ Entry(s, p, s.page_manager[j].pte).present \/ Entry(s, p, s.page_manager[j].pte).insd
         /\ InMemory(s, p, j) \/ OnCard(s, p, j)
  BY <1>1 DEF OwnInv, InMemory, OnCard
<1>17. \A j \in Own(s, p) : s.page_manager[j].pte # NoVa =>
         /\ s.page_manager[j].pte # page.pte
         /\ Entry(r, p, s.page_manager[j].pte) = Entry(s, p, s.page_manager[j].pte)
  BY <1>13, <1>16
<1>18. OwnInv(r, p)
  <2>1. ASSUME NEW j \in Own(s, p), s.page_manager[j].pte # NoVa
        PROVE  InMemory(r, p, j) \/ OnCard(r, p, j)
    <3>1. r.page_manager[j] = s.page_manager[j]
      BY <1>15
    <3>2. Entry(r, p, s.page_manager[j].pte) = Entry(s, p, s.page_manager[j].pte)
      BY <1>17, <2>1
    <3>3. CASE InMemory(s, p, j)
      BY <3>1, <3>2, <3>3 DEF InMemory
    <3>4. CASE OnCard(s, p, j)
      BY <3>1, <3>2, <3>4 DEF OnCard
    <3> QED
      BY <1>16, <2>1, <3>3, <3>4
  <2>2. page.pte # NoVa => InMemory(r, p, i) /\ page.pte \in Vpns \ ShmVpns
    BY <1>2, <1>7, <1>13 DEF InMemory
  <2>3. page.status = "SWAPABLE" => page.uva \in HeapVpns
    OBVIOUS
  <2>4. i < r.page_id
    BY <1>5
  <2>5. \A j \in Own(s, p) : s.page_manager[j].status = "SWAPABLE" =>
              s.page_manager[j].uva \in HeapVpns /\ s.page_manager[j].pte = s.page_manager[j].uva
    BY <1>1 DEF OwnInv
  <2>6. \A j, k \in Own(s, p) :
         s.page_manager[j].pte # NoVa /\ s.page_manager[j].pte = s.page_manager[k].pte => j = k
    BY <1>1 DEF OwnInv
  <2>7. \A j \in Own(r, p) :
         /\ j < r.page_id
         /\ r.page_manager[j].status = "SWAPABLE" =>
              r.page_manager[j].uva \in HeapVpns /\ r.page_manager[j].pte = r.page_manager[j].uva
         /\ r.page_manager[j].pte # NoVa =>
              /\ r.page_manager[j].pte \in Vpns \ ShmVpns
              /\ InMemory(r, p, j) \/ OnCard(r, p, j)
    BY <1>2, <1>15, <1>16, <2>1, <2>2, <2>3, <2>4, <2>5
  <2>8. \A j, k \in Own(r, p) :
         r.page_manager[j].pte # NoVa /\ r.page_manager[j].pte = r.page_manager[k].pte => j = k
    BY <1>2, <1>15, <1>17, <2>6
  <2> QED
    BY <2>7, <2>8 DEF OwnInv
<1>19. EntryInv(r, p)
  <2>1. ASSUME NEW u \in Vpns, Entry(r, p, u) = Entry(s, p, u)
        PROVE  /\ Entry(r, p, u).present \/ Entry(r, p, u).insd => Walks(r, p, u)
               /\ Entry(r, p, u).insd => /\ ~Entry(r, p, u).present /\ Full(r, p)
                                         /\ Entry(r, p, u).pfn < r.sector
               /\ Entry(r, p, u).insd \/ (Entry(r, p, u).present /\ u \notin ShmVpns) =>
                    \E j \in Own(r, p) : r.page_manager[j].pte = u
    <3>1. /\ Entry(s, p, u).present \/ Entry(s, p, u).insd => Walks(s, p, u)
          /\ Entry(s, p, u).insd => /\ ~Entry(s, p, u).present /\ Full(s, p)
                                    /\ Entry(s, p, u).pfn < s.sector
          /\ Entry(s, p, u).insd \/ (Entry(s, p, u).present /\ u \notin ShmVpns) =>
               \E j \in Own(s, p) : s.page_manager[j].pte = u
      BY <1>1 DEF EntryInv
    <3> QED
      BY <1>14, <1>15, <2>1, <3>1
  <2>2. ASSUME NEW u \in Vpns, Entry(r, p, u) # Entry(s, p, u)
        PROVE  /\ u = page.pte /\ Walks(r, p, u)
               /\ ~Entry(r, p, u).insd
               /\ i \in Own(r, p) /\ r.page_manager[i].pte = u
    BY <1>2, <1>13, <1>14, <2>2
  <2> QED
    BY <2>1, <2>2 DEF EntryInv
<1> QED
  BY <1>6, <1>8, <1>11, <1>12, <1>18, <1>19 DEF Sound

-----------------------------------------------------------------------------
(* Allocation *)

\* The process can neither get a frame nor make one free.
Stuck(s, p) == Full(s, p) /\ ~CanSwap(s, p)

\* A page that was handed out and has no address (a page table, a kernel
\* stack, the page of a segment) is never touched again.
Steady(s, r) ==
    \A i \in PageIds : i < s.page_id /\ s.page_manager[i].pte = NoVa =>
        i < r.page_id /\ r.page_manager[i] = s.page_manager[i]

LEMMA SteadySame ==
    ASSUME NEW s, NEW r, r.page_manager = s.page_manager, r.page_id = s.page_id
    PROVE  Steady(s, r)
  BY DEF Steady

LEMMA SteadyTransitive ==
    ASSUME NEW s, NEW t, NEW r, Steady(s, t), Steady(t, r)
    PROVE  Steady(s, r)
  BY DEF Steady

\* What allocating for p leaves alone: the pages without an address, the other
\* processes, the shared-page table, the entries that are not valid and those
\* outside the heap.
Keeps(s, r, p) ==
    /\ Steady(s, r)
    /\ \A q \in Procs : q # p => r.pcb[q] = s.pcb[q]
    /\ r.pcb[p].alive = s.pcb[p].alive /\ r.pcb[p].shm_page_num = s.pcb[p].shm_page_num
    /\ s.pcb[p].tables \subseteq r.pcb[p].tables
    /\ r.shm_page_table = s.shm_page_table
    /\ \A u \in Vpns : ~Entry(s, p, u).present => Entry(r, p, u) = Entry(s, p, u)
    /\ \A u \in Vpns \ HeapVpns : Entry(r, p, u) = Entry(s, p, u)

\* What two steps leave alone, both together leave alone.
LEMMA KeepsTransitive ==
    ASSUME NEW s, NEW t, NEW r, NEW p, Keeps(s, t, p), Keeps(t, r, p)
    PROVE  Keeps(s, r, p)
  BY SteadyTransitive DEF Keeps

\* The empty step leaves everything alone.
LEMMA KeepsReflexive ==
    ASSUME NEW s, NEW p
    PROVE  Keeps(s, s, p)
  BY SteadySame DEF Keeps

\* Only the panic flag changes when an assertion fails.
LEMMA PanicFields ==
    ASSUME NEW s, Shape(s), NEW r, r = Panic(s)
    PROVE  /\ Shape(r) /\ r.panic
           /\ r.page_manager = s.page_manager /\ r.page_id = s.page_id
           /\ r.kernMemCurr = s.kernMemCurr /\ r.sector = s.sector /\ r.mem = s.mem
           /\ r.sd = s.sd /\ r.pcb = s.pcb /\ r.shm_page_table = s.shm_page_table
  BY DEF Panic, Shape, Fields

\* A state that differs from a sound one in its frames, its shared-page table
\* and its panic flag only is sound.
LEMMA SameSound ==
    ASSUME NEW s, Sound(s), NEW r, Shape(r),
           r.page_manager = s.page_manager, r.page_id = s.page_id,
           r.kernMemCurr = s.kernMemCurr, r.sector = s.sector,
           r.mem \in [Frames -> Contents], r.sd = s.sd, r.pcb = s.pcb,
           r.shm_page_table \in [ShmIds -> Shm], r.panic \in BOOLEAN
    PROVE  Sound(r)
<1>1. /\ s.page_manager \in [PageIds -> Page] /\ s.page_id \in 0 .. PAGE_NUM
      /\ s.kernMemCurr \in 1 .. PAGE_NUM + 1 /\ s.sector \in 0 .. MaxSector
      /\ s.sd \in [0 .. MaxSector - 1 -> Contents] /\ s.pcb \in [Procs -> Pcb]
      /\ MemType(s)
  BY DEF Sound, MemType
<1>2. MemType(r)
  BY <1>1, ShapeHasType
<1>3. \A p \in Procs : Own(r, p) = Own(s, p)
  BY DEF Own
<1>4. PoolInv(r) /\ Disjoint(r)
  BY <1>3 DEF Sound, PoolInv, Disjoint
<1>5. ASSUME NEW p \in Procs PROVE OwnInv(r, p) /\ EntryInv(r, p)
  <2>1. OwnInv(s, p) /\ EntryInv(s, p)
    BY DEF Sound
  <2>2. r.page_id \in Int /\ r.page_id >= s.page_id /\ r.sector \in Int /\ r.sector >= s.sector
    BY <1>1
  <2> QED
    BY <1>1, <2>1, <2>2, Others
<1> QED
  BY <1>2, <1>4, <1>5 DEF Sound

\* A failed assertion keeps a sound state sound.
LEMMA PanicSound ==
    ASSUME NEW s, Sound(s), NEW r, r = Panic(s)
    PROVE  Sound(r)
<1>1. /\ MemType(s) /\ Shape(s) /\ s.mem \in [Frames -> Contents]
      /\ s.shm_page_table \in [ShmIds -> Shm]
  BY TypeHasShape DEF Sound, MemType
<1>2. /\ Shape(r) /\ r.panic \in BOOLEAN
      /\ r.page_manager = s.page_manager /\ r.page_id = s.page_id
      /\ r.kernMemCurr = s.kernMemCurr /\ r.sector = s.sector /\ r.mem = s.mem
      /\ r.sd = s.sd /\ r.pcb = s.pcb /\ r.shm_page_table = s.shm_page_table
  <2>1. r.panic = TRUE
    BY <1>1 DEF Panic, Shape, Fields
  <2> QED
    BY <1>1, <2>1, PanicFields, ZenonT(60)
<1> QED
  BY <1>1, <1>2, SameSound

\* get_swap_page returns a SWAPABLE page of the process, if there is one.
LEMMA VictimFound ==
    ASSUME NEW s, MemType(s), NEW p \in Procs, CanSwap(s, p)
    PROVE  /\ get_swap_page(s, p) \in Own(s, p)
           /\ s.page_manager[get_swap_page(s, p)].status = "SWAPABLE"
<1>1. s.pcb[p].pagehead \in Seq(PageIds)
  BY Parts DEF Pcb
<1>2. get_swap_page(s, p) \in Range(s.pcb[p].pagehead) \cap With(s, "SWAPABLE")
  <2> DEFINE ok == With(s, "SWAPABLE")
  <2> HIDE DEF ok
  <2>1. Range(s.pcb[p].pagehead) \cap ok # {}
    BY DEF CanSwap, ok
  <2>2. FirstOf(s.pcb[p].pagehead, ok) \in Range(s.pcb[p].pagehead) \cap ok
    BY <1>1, <2>1, FirstOfMember
  <2> QED
    BY <2>2 DEF get_swap_page, ok
<1> QED
  BY <1>2 DEF Own, With

\* do_swap either frees the frame of the victim or, if there is no victim,
\* fails its assertion and changes nothing else.
LEMMA DoSwap ==
    ASSUME NEW s, Sound(s), NEW p \in Procs, Full(s, p),
           NEW r, r = do_swap(s, p), r.sector <= MaxSector
    PROVE  /\ Sound(r) /\ Keeps(s, r, p)
           /\ r.page_id = s.page_id /\ Full(r, p) /\ Own(r, p) = Own(s, p)
           /\ r.pcb[p].tables = s.pcb[p].tables
           /\ CanSwap(s, p) => r.panic = s.panic /\ Free(r, swapped_kva(s, p))
           /\ ~CanSwap(s, p) => r = Panic(s) /\ r.panic /\ Stuck(r, p)
<1>1. MemType(s) /\ Shape(s)
  BY TypeHasShape DEF Sound
<1>2. CASE ~CanSwap(s, p)
  <2>1. r = Panic(s)
    BY <1>2 DEF do_swap
  <2>2. /\ r.panic /\ r.pcb = s.pcb /\ r.page_manager = s.page_manager /\ r.page_id = s.page_id
        /\ r.shm_page_table = s.shm_page_table
    BY <1>1, <2>1, PanicFields
  <2>3. Keeps(s, r, p) /\ Own(r, p) = Own(s, p) /\ Full(r, p)
    BY <2>2, SteadySame DEF Keeps, Own, Full, Entry
  <2>4. Stuck(r, p)
    BY <1>2, <2>2, <2>3 DEF Stuck, CanSwap, With
  <2> QED
    BY <1>2, <2>1, <2>2, <2>3, <2>4, PanicSound
<1>3. CASE CanSwap(s, p)
  <2> DEFINE i == get_swap_page(s, p)
             v == s.page_manager[i].uva
  <2>1. i \in Own(s, p) /\ s.page_manager[i].status = "SWAPABLE"
    BY <1>1, <1>3, VictimFound
  <2>2. /\ i \in PageIds /\ v \in HeapVpns /\ v \in Vpns /\ PageValid(s, p, v)
        /\ Entry(s, p, v).present
    <3> HIDE DEF i
    <3> QED BY <2>1, VictimMapped
  <2>3. r = move_to_sd(s, p, i, v)
    BY <1>3, <2>2 DEF do_swap, swap_to_sd
  <2>4. swapped_kva(s, p) = s.page_manager[i].kva
    BY DEF swapped_kva
  <2> HIDE DEF i
  <2>5. Sound(r) /\ Free(r, s.page_manager[i].kva)
    BY <2>1, <2>3, SwapOut
  <2>6. /\ EntrySet(s, r, p, v, PteOut(Entry(s, p, v), s.sector))
        /\ r.page_id = s.page_id /\ r.panic = s.panic /\ r.shm_page_table = s.shm_page_table
    BY <1>1, <2>3, MoveFields
  <2>7. PteOut(Entry(s, p, v), s.sector) \in Pte
    <3>1. Entry(s, p, v) \in Pte /\ s.sector \in Nat
      BY <1>1, <2>2, Parts, PagingAssumption, SMTT(40) DEF MemType
    <3> QED
      BY <3>1 DEF PteOut, Pte
  <2>8. /\ \A u \in Vpns : u # v => Entry(r, p, u) = Entry(s, p, u)
        /\ \A q \in Procs : q # p => r.pcb[q] = s.pcb[q]
        /\ Own(r, p) = Own(s, p)
        /\ Full(r, p) <=> Full(s, p)
        /\ r.pcb[p].alive = s.pcb[p].alive /\ r.pcb[p].tables = s.pcb[p].tables
        /\ r.pcb[p].shm_page_num = s.pcb[p].shm_page_num
    BY <1>1, <2>2, <2>6, <2>7, EntryChange
  <2>9. Keeps(s, r, p)
    <3>1. s.page_manager[i].pte # NoVa
      <4>1. s.page_manager[i].pte = v
        BY <2>1 DEF Sound, OwnInv
      <4> QED
        BY <2>2, <4>1, Layout
    <3>2. \A j \in PageIds : j # i => r.page_manager[j] = s.page_manager[j]
      <4>1. PageSet(s, r, i, PageOut(s.page_manager[i], v))
        BY <1>1, <2>3, MoveFields
      <4>2. s.page_manager \in [PageIds -> Page]
        BY <1>1 DEF MemType
      <4> QED
        BY <4>1, <4>2 DEF PageSet
    <3>3. Steady(s, r)
      BY <2>6, <3>1, <3>2 DEF Steady
    <3> QED
      BY <2>2, <2>6, <2>8, <3>3 DEF Keeps
  <2> QED
    BY <1>3, <2>4, <2>5, <2>6, <2>8, <2>9
<1> QED
  BY <1>2, <1>3

\* The counters only grow, also beyond the bounds; so a state within the
\* bounds was reached through states within the bounds.
Raw(s) ==
    /\ Shape(s)
    /\ s.page_id \in 0 .. PAGE_NUM + 1 /\ s.kernMemCurr \in Nat /\ s.sector \in Nat
Grows(s, r) ==
    /\ Raw(r)
    /\ s.page_id <= r.page_id /\ s.kernMemCurr <= r.kernMemCurr /\ s.sector <= r.sector

\* A sound state has the fields, and its counters are within the bounds.
LEMMA SoundRaw ==
    ASSUME NEW s, Sound(s)
    PROVE  Raw(s) /\ Bounded(s)
  BY TypeHasShape, PagingAssumption, SMTT(40) DEF Sound, MemType, Raw, Bounded

\* The counters only grow: over no step,
LEMMA GrowsReflexive ==
    ASSUME NEW s, Raw(s)
    PROVE  Grows(s, s)
  BY PagingAssumption DEF Raw, Grows

\* and over two steps.
LEMMA GrowsTransitive ==
    ASSUME NEW s, NEW t, NEW r, Raw(s), Grows(s, t), Grows(t, r)
    PROVE  Grows(s, r)
  BY PagingAssumption DEF Raw, Grows

\* If the counters are within the bounds after a step, they were before it.
LEMMA BoundedBefore ==
    ASSUME NEW s, NEW r, Raw(s), Grows(s, r), Bounded(r)
    PROVE  Bounded(s)
  BY PagingAssumption DEF Raw, Grows, Bounded

\* allocPagetable in two parts: a frame is reserved, and a page that holds it
\* is put on the list.
Reserve(s, p) ==
    IF Full(s, p) THEN do_swap(s, p)
    ELSE [s EXCEPT !.kernMemCurr = @ + 1, !.pcb[p].pagenum = @ + 1]
Give(a, p, st, i, f) ==
    [a EXCEPT !.page_id = i + 1,
              !.page_manager[i] = [@ EXCEPT !.status = st, !.kva = f],
              !.pcb[p].pagehead = Append(@, i)]

\* allocPagetable reserves a frame, then hands out a page_manager entry.
LEMMA AllocParts ==
    ASSUME NEW s, NEW p, NEW st
    PROVE  allocPagetable(s, p, st) =
             IF Reserve(s, p).panic THEN Reserve(s, p)
             ELSE Give(Reserve(s, p), p, st, new_page(s), new_kva(s, p))
  BY Zenon, ZenonT(60) DEF allocPagetable, Reserve, Give

\* The page and the PCB that Give leaves behind, and the PCB of a process
\* that gets a new frame.
PageIn(page, st, f) == [page EXCEPT !.status = st, !.kva = f]
Listed(c, i) == [c EXCEPT !.pagehead = Append(@, i)]
Counted(c) == [c EXCEPT !.pagenum = @ + 1]

\* What handing out the entry i with the frame f does to the fields.
LEMMA GiveFields ==
    ASSUME NEW a, Shape(a), NEW p, NEW st, NEW i, NEW f, NEW r, r = Give(a, p, st, i, f)
    PROVE  /\ Shape(r)
           /\ PageSet(a, r, i, PageIn(a.page_manager[i], st, f))
           /\ PcbSet(a, r, p, Listed(a.pcb[p], i))
           /\ r.page_id = i + 1 /\ r.kernMemCurr = a.kernMemCurr /\ r.sector = a.sector
           /\ r.mem = a.mem /\ r.sd = a.sd
           /\ r.shm_page_table = a.shm_page_table /\ r.panic = a.panic
<1>1. PageSet(a, r, i, PageIn(a.page_manager[i], st, f))
  BY DEF Give, Shape, Fields, PageSet, PageIn
<1>2. PcbSet(a, r, p, Listed(a.pcb[p], i))
  BY DEF Give, Shape, Fields, PcbSet, Listed
<1>3. /\ r.page_id = i + 1 /\ r.kernMemCurr = a.kernMemCurr /\ r.sector = a.sector
      /\ r.mem = a.mem /\ r.sd = a.sd
      /\ r.shm_page_table = a.shm_page_table /\ r.panic = a.panic
  BY DEF Give, Shape, Fields
<1>4. Shape(r)
  BY DEF Give, Shape, Fields
<1> QED
  BY <1>1, <1>2, <1>3, <1>4

\* What taking a new frame does to the fields.
LEMMA CountFields ==
    ASSUME NEW s, Shape(s), NEW p, NEW r, ~Full(s, p), r = Reserve(s, p)
    PROVE  /\ Shape(r)
           /\ PcbSet(s, r, p, Counted(s.pcb[p]))
           /\ r.page_manager = s.page_manager /\ r.page_id = s.page_id
           /\ r.kernMemCurr = s.kernMemCurr + 1 /\ r.sector = s.sector
           /\ r.mem = s.mem /\ r.sd = s.sd
           /\ r.shm_page_table = s.shm_page_table /\ r.panic = s.panic
<1>1. r = [s EXCEPT !.kernMemCurr = @ + 1, !.pcb[p].pagenum = @ + 1]
  BY DEF Reserve
<1>2. PcbSet(s, r, p, Counted(s.pcb[p]))
  BY <1>1 DEF Shape, Fields, PcbSet, Counted
<1>3. /\ Shape(r) /\ r.page_manager = s.page_manager /\ r.page_id = s.page_id
      /\ r.kernMemCurr = s.kernMemCurr + 1 /\ r.sector = s.sector
      /\ r.mem = s.mem /\ r.sd = s.sd
      /\ r.shm_page_table = s.shm_page_table /\ r.panic = s.panic
  BY <1>1 DEF Shape, Fields
<1> QED
  BY <1>2, <1>3

\* A PCB below its limit that counts one page more.
LEMMA CountedPcb ==
    ASSUME NEW c \in Pcb, c.pagenum # MAX_PAGETABLE_NUM
    PROVE  /\ Counted(c) \in Pcb /\ Counted(c).alive = c.alive
           /\ Counted(c).shm_page_num = c.shm_page_num
           /\ Counted(c).tables = c.tables /\ Counted(c).pagehead = c.pagehead
           /\ Counted(c).pgdir = c.pgdir
<1>1. c.pagenum + 1 \in 0 .. MAX_PAGETABLE_NUM
  BY PagingAssumption DEF Pcb
<1> DEFINE n == c.pagenum + 1
<1>2. Counted(c) = [c EXCEPT !.pagenum = n]
  BY DEF Counted
<1> HIDE DEF n
<1>3. /\ [c EXCEPT !.pagenum = n] \in Pcb
      /\ [c EXCEPT !.pagenum = n].alive = c.alive
      /\ [c EXCEPT !.pagenum = n].shm_page_num = c.shm_page_num
      /\ [c EXCEPT !.pagenum = n].tables = c.tables
      /\ [c EXCEPT !.pagenum = n].pagehead = c.pagehead
      /\ [c EXCEPT !.pagenum = n].pgdir = c.pgdir
  BY <1>1 DEF Pcb, n
<1> QED
  BY <1>2, <1>3, Zenon

\* A PCB with one page more on its list.
LEMMA ListedPcb ==
    ASSUME NEW c \in Pcb, NEW i \in PageIds
    PROVE  /\ Listed(c, i) \in Pcb /\ Listed(c, i).alive = c.alive
           /\ Listed(c, i).shm_page_num = c.shm_page_num
           /\ Listed(c, i).tables = c.tables /\ Listed(c, i).pagenum = c.pagenum
           /\ Listed(c, i).pgdir = c.pgdir
           /\ Range(Listed(c, i).pagehead) = Range(c.pagehead) \cup {i}
<1>1. c.pagehead \in Seq(PageIds)
  BY DEF Pcb
<1> DEFINE l == Append(c.pagehead, i)
<1>2. l \in Seq(PageIds) /\ Range(l) = Range(c.pagehead) \cup {i}
  BY <1>1, AppendNodes
<1>3. Listed(c, i) = [c EXCEPT !.pagehead = l]
  BY DEF Listed
<1> HIDE DEF l
<1>4. /\ [c EXCEPT !.pagehead = l] \in Pcb
      /\ [c EXCEPT !.pagehead = l].alive = c.alive
      /\ [c EXCEPT !.pagehead = l].shm_page_num = c.shm_page_num
      /\ [c EXCEPT !.pagehead = l].tables = c.tables
      /\ [c EXCEPT !.pagehead = l].pagenum = c.pagenum
      /\ [c EXCEPT !.pagehead = l].pgdir = c.pgdir
      /\ [c EXCEPT !.pagehead = l].pagehead = l
  BY <1>2 DEF Pcb
<1> QED
  BY <1>2, <1>3, <1>4, Zenon

\* The next entry of page_manager.
LEMMA NewPageId ==
    ASSUME NEW s, Raw(s)
    PROVE  /\ new_page(s) \in 0 .. PAGE_NUM
           /\ s.page_id <= new_page(s) + 1
           /\ new_page(s) < PAGE_NUM => s.page_id <= new_page(s)
           /\ PoolInv(s) /\ s.page_id < PAGE_NUM => new_page(s) = s.page_id
<1> DEFINE I == {i \in PageIds : i >= s.page_id /\ s.page_manager[i].status = "UNUSED"}
                  \cup {PAGE_NUM}
<1>1. I \in SUBSET Nat /\ I # {} /\ \A i \in I : i = PAGE_NUM \/ (i \in PageIds /\ i >= s.page_id)
  BY PagingAssumption DEF PageIds
<1>2. PoolInv(s) /\ s.page_id < PAGE_NUM => s.page_id \in I
  BY PagingAssumption DEF PoolInv, PageIds, Raw, UnusedPage
<1>3. new_page(s) = Min(I)
  BY DEF new_page
<1> HIDE DEF I
<1>4. Min(I) \in I /\ \A j \in I : Min(I) <= j
  BY <1>1, MinIsLeast
<1>5. new_page(s) \in I /\ \A j \in I : new_page(s) <= j
  BY <1>3, <1>4
<1>6. s.page_id \in 0 .. PAGE_NUM + 1 /\ PAGE_NUM \in Nat
  BY PagingAssumption DEF Raw
<1>7. new_page(s) = PAGE_NUM \/ (new_page(s) \in 0 .. PAGE_NUM - 1 /\ new_page(s) >= s.page_id)
  BY <1>1, <1>5 DEF PageIds
<1>8. PoolInv(s) /\ s.page_id < PAGE_NUM => new_page(s) <= s.page_id
  BY <1>2, <1>5
<1> HIDE DEF new_page
<1> QED
  BY <1>6, <1>7, <1>8

\* Reserving a frame keeps the state sound; the frame it returns is free.
LEMMA ReserveGrows ==
    ASSUME NEW s, Raw(s), NEW p, NEW a, a = Reserve(s, p)
    PROVE  Grows(s, a) /\ a.page_id = s.page_id
<1>1. CASE ~Full(s, p)
  BY <1>1, CountFields DEF Raw, Grows
<1>2. CASE Full(s, p)
  <2>1. \/ a = Panic(s)
        \/ \E i, v : a = move_to_sd(s, p, i, v)
    BY <1>2 DEF Reserve, do_swap, swap_to_sd
  <2>2. CASE a = Panic(s)
    <3>1. Shape(a) /\ a.page_id = s.page_id /\ a.kernMemCurr = s.kernMemCurr /\ a.sector = s.sector
      BY <2>2, PanicFields DEF Raw
    <3> QED
      BY <3>1 DEF Raw, Grows
  <2>3. CASE \E i, v : a = move_to_sd(s, p, i, v)
    <3>1. PICK i, v : a = move_to_sd(s, p, i, v)
      BY <2>3
    <3>2. Shape(a) /\ a.page_id = s.page_id /\ a.kernMemCurr = s.kernMemCurr
          /\ a.sector = s.sector + 1
      BY <3>1, MoveFields DEF Raw
    <3> QED
      BY <3>2 DEF Raw, Grows
  <2> QED
    BY <2>1, <2>2, <2>3
<1> QED
  BY <1>1, <1>2

\* Reserving a frame keeps the state sound; the frame is free, and the process
\* has room or is at its limit.
LEMMA ReserveSound ==
    ASSUME NEW s, Sound(s), NEW p \in Procs, NEW a, a = Reserve(s, p), Bounded(a)
    PROVE  /\ Sound(a) /\ Keeps(s, a, p) /\ a.page_id = s.page_id
           /\ a.pcb[p].tables = s.pcb[p].tables
           /\ Own(a, p) = Own(s, p)
           /\ a.panic => s.panic \/ Stuck(a, p)
           /\ ~a.panic => ~s.panic /\ Free(a, new_kva(s, p))
           /\ Stuck(s, p) => a = Panic(s)
<1>1. MemType(s) /\ Shape(s)
  BY TypeHasShape DEF Sound
<1>2. CASE Full(s, p)
  <2>1. a = do_swap(s, p) /\ new_kva(s, p) = swapped_kva(s, p)
    BY <1>2 DEF Reserve, new_kva
  <2>2. /\ Sound(a) /\ Keeps(s, a, p)
        /\ a.page_id = s.page_id /\ Full(a, p) /\ Own(a, p) = Own(s, p)
        /\ a.pcb[p].tables = s.pcb[p].tables
        /\ CanSwap(s, p) => a.panic = s.panic /\ Free(a, swapped_kva(s, p))
        /\ ~CanSwap(s, p) => a = Panic(s) /\ a.panic /\ Stuck(a, p)
    BY <1>2, <2>1, DoSwap DEF Bounded
  <2> QED
    BY <2>1, <2>2 DEF Stuck
<1>3. CASE ~Full(s, p)
  <2>1. /\ Shape(a)
        /\ PcbSet(s, a, p, Counted(s.pcb[p]))
        /\ a.page_manager = s.page_manager /\ a.page_id = s.page_id
        /\ a.kernMemCurr = s.kernMemCurr + 1 /\ a.sector = s.sector
        /\ a.mem = s.mem /\ a.sd = s.sd
        /\ a.shm_page_table = s.shm_page_table /\ a.panic = s.panic
    BY <1>1, <1>3, CountFields
  <2>2. s.pcb[p] \in Pcb
    BY <1>1, Parts
  <2> DEFINE d == Counted(s.pcb[p])
  <2>3. /\ d \in Pcb /\ d.alive = s.pcb[p].alive /\ d.shm_page_num = s.pcb[p].shm_page_num
        /\ d.tables = s.pcb[p].tables /\ d.pagehead = s.pcb[p].pagehead
        /\ d.pgdir = s.pcb[p].pgdir
    <3>1. s.pcb[p].pagenum # MAX_PAGETABLE_NUM
      BY <1>3 DEF Full
    <3> QED
      BY <2>2, <3>1, CountedPcb
  <2> HIDE DEF d
  <2>4. /\ a.pcb \in [Procs -> Pcb] /\ a.pcb[p] = d
        /\ \A q \in Procs : q # p => a.pcb[q] = s.pcb[q]
    BY <1>1, <2>1, <2>3, PcbChange DEF d
  <2>5. \A q \in Procs : Own(a, q) = Own(s, q) /\ \A u : Entry(a, q, u) = Entry(s, q, u)
    BY <2>3, <2>4 DEF Own, Entry
  <2>6. Keeps(s, a, p)
    BY <2>1, <2>3, <2>4, <2>5, SteadySame DEF Keeps
  <2>7. /\ s.page_manager \in [PageIds -> Page] /\ s.page_id \in 0 .. PAGE_NUM
        /\ s.kernMemCurr \in 1 .. PAGE_NUM + 1 /\ s.sector \in 0 .. MaxSector
        /\ s.mem \in [Frames -> Contents] /\ s.sd \in [0 .. MaxSector - 1 -> Contents]
        /\ s.shm_page_table \in [ShmIds -> Shm] /\ s.panic \in BOOLEAN
    BY <1>1 DEF MemType
  <2>8. a.kernMemCurr \in 1 .. PAGE_NUM + 1
    <3>1. a.kernMemCurr = s.kernMemCurr + 1 /\ a.kernMemCurr <= PAGE_NUM + 1
      BY <2>1 DEF Bounded
    <3> QED
      BY <2>7, <3>1, PagingAssumption, SMTT(40)
  <2>9. MemType(a)
    BY <2>1, <2>4, <2>7, <2>8, ShapeHasType
  <2>10. \A i \in PageIds : s.page_manager[i].kva \in Nat
    BY <1>1, Parts
  <2>11. PoolInv(s)
    BY DEF Sound
  <2>12. PoolInv(a)
    BY <2>1, <2>7, <2>10, <2>11 DEF PoolInv
  <2>13. Disjoint(a)
    BY <2>5 DEF Sound, Disjoint
  <2>14. ASSUME NEW q \in Procs, q # p PROVE OwnInv(a, q) /\ EntryInv(a, q)
    <3>1. OwnInv(s, q) /\ EntryInv(s, q)
      BY DEF Sound
    <3>2. a.page_id \in Int /\ a.page_id >= s.page_id /\ a.sector \in Int /\ a.sector >= s.sector
      BY <2>1, <2>7
    <3> QED
      BY <1>1, <2>1, <2>4, <2>14, <3>1, <3>2, Others
  <2>15. OwnInv(s, p) /\ EntryInv(s, p)
    BY DEF Sound
  <2>16. OwnInv(a, p)
    BY <2>1, <2>5, <2>15 DEF OwnInv, InMemory, OnCard
  <2>17. EntryInv(a, p)
    <3>1. \A u \in Vpns : ~Entry(s, p, u).insd
      BY <1>3, <2>15 DEF EntryInv
    <3>2. \A u : Walks(a, p, u) <=> Walks(s, p, u)
      BY <2>3, <2>4 DEF Walks
    <3> QED
      BY <2>1, <2>5, <2>15, <3>1, <3>2 DEF EntryInv
  <2>18. Free(a, new_kva(s, p))
    <3>1. new_kva(s, p) = s.kernMemCurr
      BY <1>3 DEF new_kva
    <3>2. \A i \in PageIds : s.page_manager[i].kva < s.kernMemCurr
      BY <2>11 DEF PoolInv
    <3> QED
      BY <2>1, <2>7, <2>10, <3>1, <3>2 DEF Free
  <2>19. Sound(a)
    BY <2>9, <2>12, <2>13, <2>14, <2>16, <2>17 DEF Sound
  <2> QED
    BY <1>3, <2>1, <2>3, <2>4, <2>5, <2>6, <2>18, <2>19 DEF Stuck
<1> QED
  BY <1>2, <1>3

\* allocPagetable lets no counter shrink.
LEMMA AllocGrows ==
    ASSUME NEW s, Raw(s), NEW p, NEW st, NEW r, r = allocPagetable(s, p, st)
    PROVE  Grows(s, r)
<1> DEFINE a == Reserve(s, p)
           i == new_page(s)
<1>1. Grows(s, a) /\ a.page_id = s.page_id
  BY ReserveGrows
<1>2. i \in 0 .. PAGE_NUM /\ s.page_id <= i + 1
  BY NewPageId
<1>3. r = IF a.panic THEN a ELSE Give(a, p, st, i, new_kva(s, p))
  BY AllocParts
<1> HIDE DEF a, i
<1>4. CASE a.panic
  BY <1>1, <1>3, <1>4
<1>5. CASE ~a.panic
  <2>1. /\ Shape(r) /\ r.page_id = i + 1 /\ r.kernMemCurr = a.kernMemCurr
        /\ r.sector = a.sector
    BY <1>1, <1>3, <1>5, GiveFields DEF Grows, Raw
  <2>2. /\ a.kernMemCurr \in Nat /\ a.sector \in Nat
        /\ s.kernMemCurr <= a.kernMemCurr /\ s.sector <= a.sector
    BY <1>1 DEF Grows, Raw
  <2>3. i + 1 \in 0 .. PAGE_NUM + 1
    BY <1>2, PagingAssumption
  <2> QED
    BY <1>2, <2>1, <2>2, <2>3 DEF Grows, Raw
<1> QED
  BY <1>4, <1>5

\* Where Give puts the page, within the bounds: the entry at the cursor, which
\* was never used.
LEMMA GivePlace ==
    ASSUME NEW s, Sound(s), NEW a, Sound(a), a.page_id = s.page_id, NEW r,
           r.page_id = new_page(s) + 1, Bounded(r)
    PROVE  /\ new_page(s) \in PageIds /\ new_page(s) = a.page_id
           /\ a.page_manager[new_page(s)] = UnusedPage
<1>1. Raw(s) /\ PoolInv(s) /\ PoolInv(a)
  BY SoundRaw DEF Sound
<1>2. /\ new_page(s) \in 0 .. PAGE_NUM
      /\ new_page(s) < PAGE_NUM => s.page_id <= new_page(s)
      /\ s.page_id < PAGE_NUM => new_page(s) = s.page_id
  BY <1>1, NewPageId
<1>3. new_page(s) + 1 <= PAGE_NUM
  BY DEF Bounded
<1>4. s.page_id \in Int /\ PAGE_NUM \in Nat
  BY <1>1, PagingAssumption DEF Raw
<1> HIDE DEF new_page
<1>5. new_page(s) < PAGE_NUM /\ s.page_id < PAGE_NUM
  BY <1>2, <1>3, <1>4
<1>6. new_page(s) \in PageIds /\ new_page(s) = a.page_id
  BY <1>2, <1>4, <1>5 DEF PageIds
<1> QED
  BY <1>1, <1>2, <1>6 DEF PoolInv

\* allocPagetable keeps the state sound: the new page holds a frame nobody has.
LEMMA AllocSound ==
    ASSUME NEW s, Sound(s), NEW p \in Procs,
           NEW r, r = allocPagetable(s, p, "UNSWAPABLE"), Bounded(r)
    PROVE  /\ Sound(r) /\ Keeps(s, r, p)
           /\ r.pcb[p].tables = s.pcb[p].tables
           /\ r.panic => s.panic \/ Stuck(r, p)
           /\ ~r.panic =>
                /\ new_kva(s, p) \in Nat \ {0}
                /\ new_page(s) \in PageIds /\ new_page(s) < r.page_id
                /\ r.page_manager[new_page(s)].kva = new_kva(s, p)
                /\ r.page_manager[new_page(s)].uva = NoVa
                /\ r.page_manager[new_page(s)].pte = NoVa
           /\ Stuck(s, p) => r = Panic(s)
<1> DEFINE a == Reserve(s, p)
           i == new_page(s)
           f == new_kva(s, p)
<1>1. Raw(s)
  BY SoundRaw
<1>2. Grows(s, a) /\ Raw(a)
  BY <1>1, ReserveGrows DEF Grows
<1>3. r = IF a.panic THEN a ELSE Give(a, p, "UNSWAPABLE", i, f)
  BY AllocParts
<1>4. Bounded(a)
  <2>1. CASE a.panic
    BY <1>3, <2>1
  <2>2. CASE ~a.panic
    <3>1. r = Give(a, p, "UNSWAPABLE", i, f)
      BY <1>3, <2>2
    <3>2. i \in 0 .. PAGE_NUM /\ s.page_id <= i + 1 /\ a.page_id = s.page_id
      BY <1>1, NewPageId, ReserveGrows
    <3> HIDE DEF a, i, f
    <3>3. r.page_id = i + 1 /\ r.kernMemCurr = a.kernMemCurr /\ r.sector = a.sector
      BY <1>2, <3>1, GiveFields DEF Raw
    <3> QED
      BY <1>1, <1>2, <3>2, <3>3, PagingAssumption DEF Bounded, Raw
  <2> QED
    BY <2>1, <2>2
<1>5. /\ Sound(a) /\ Keeps(s, a, p) /\ a.page_id = s.page_id
      /\ a.pcb[p].tables = s.pcb[p].tables
      /\ a.panic => s.panic \/ Stuck(a, p)
      /\ ~a.panic => ~s.panic /\ Free(a, f)
      /\ Stuck(s, p) => a = Panic(s)
  BY <1>4, ReserveSound
<1>6. Stuck(s, p) => a.panic
  <2>1. Stuck(s, p) => a.panic = TRUE
    BY <1>1, <1>5, PanicFields DEF Raw
  <2> QED
    BY <2>1
<1>7. CASE a.panic
  BY <1>3, <1>5, <1>7
<1>8. CASE ~a.panic
  <2>1. r = Give(a, p, "UNSWAPABLE", i, f)
    BY <1>3, <1>8
  <2>2. r.page_id = i + 1
    BY <1>2, <2>1, GiveFields DEF Raw
  <2>3. i \in PageIds /\ i = a.page_id /\ a.page_manager[i] = UnusedPage
    BY <1>5, <2>2, GivePlace
  <2> HIDE DEF a, i, f
  <2> DEFINE page == PageIn(UnusedPage, "UNSWAPABLE", f)
             c == a.pcb[p]
             d == Listed(c, i)
  <2>4. /\ Shape(r)
        /\ PageSet(a, r, i, page) /\ PcbSet(a, r, p, d)
        /\ r.page_id = i + 1 /\ r.kernMemCurr = a.kernMemCurr /\ r.sector = a.sector
        /\ r.mem = a.mem /\ r.sd = a.sd
        /\ r.shm_page_table = a.shm_page_table /\ r.panic = a.panic
    BY <1>2, <2>1, <2>3, GiveFields DEF Raw
  <2>5. f \in Nat \ {0} /\ Free(a, f)
    BY <1>5, <1>8 DEF Free
  <2>6. /\ page \in Page /\ page.kva = f /\ page.status = "UNSWAPABLE"
        /\ page.uva = NoVa /\ page.pte = NoVa
    BY <2>5 DEF PageIn, Page, UnusedPage, Statuses
  <2>7. MemType(a)
    BY <1>5 DEF Sound
  <2>8. /\ d \in Pcb /\ d.alive = c.alive /\ d.shm_page_num = c.shm_page_num
        /\ d.tables = c.tables /\ d.pagenum = c.pagenum /\ d.pgdir = c.pgdir
        /\ Range(d.pagehead) = Range(c.pagehead) \cup {i}
    BY <2>3, <2>7, Parts, ListedPcb, ZenonT(60)
  <2> HIDE DEF page, d
  <2>9. r.pcb[p] = d /\ \A q \in Procs : q # p => r.pcb[q] = a.pcb[q]
    BY <2>4, <2>7, <2>8, PcbChange
  <2>10. Own(r, p) = Own(a, p) \cup {i}
    BY <2>8, <2>9 DEF Own
  <2>11. \A u \in Vpns : d.pgdir[u] = Entry(a, p, u)
    BY <2>8 DEF Entry
  <2>12. r.mem \in [Frames -> Contents]
    BY <2>4, <2>7 DEF MemType
  <2>13. Sound(r)
    BY <1>5, <2>3, <2>4, <2>5, <2>6, <2>8, <2>10, <2>11, <2>12, NewPage, SMTT(40)
  <2>14. Keeps(a, r, p)
    <3>1. \A j \in PageIds : j # i => r.page_manager[j] = a.page_manager[j]
      BY <2>3, <2>4, <2>6, <2>7, PageChange
    <3>2. Steady(a, r)
      BY <2>3, <2>4, <3>1 DEF Steady, PageIds
    <3> QED
      BY <2>4, <2>8, <2>9, <3>2 DEF Keeps, Entry
  <2>15. Keeps(s, r, p)
    BY <1>5, <2>14, KeepsTransitive
  <2>16. r.pcb[p].tables = s.pcb[p].tables
    BY <1>5, <2>8, <2>9
  <2>17. i \in PageIds /\ i < r.page_id /\ r.page_manager[i] = page
    BY <2>3, <2>4, <2>6, <2>7, PageChange DEF PageIds
  <2> QED
    BY <1>5, <1>6, <1>8, <2>4, <2>5, <2>6, <2>13, <2>15, <2>16, <2>17 DEF a, f, i
<1> QED
  BY <1>7, <1>8

-----------------------------------------------------------------------------
(* Page tables *)

\* The two tables of a page are names of tables.
LEMMA TablesTyped ==
    ASSUME NEW v \in Vpns
    PROVE  Table2(v) \in {1, 2} \X Nat /\ Table1(v) \in {1, 2} \X Nat
<1>1. v \in Nat /\ Fan \in Nat \ {0}
  BY Layout, PagingAssumption
<1>2. Fan * Fan \in Nat \ {0}
  BY <1>1
<1> DEFINE g == Fan * Fan
<1> HIDE DEF g
<1>3. v \div Fan \in Nat /\ v \div g \in Nat
  BY <1>1, <1>2 DEF g
<1> QED
  BY <1>3 DEF Table1, Table2, g

\* The PCB of a process that gets the table t.
Tabled(c, t) == [c EXCEPT !.tables = @ \cup {t}]

\* A PCB with one page table more.
LEMMA TabledPcb ==
    ASSUME NEW c \in Pcb, NEW t \in {1, 2} \X Nat
    PROVE  /\ Tabled(c, t) \in Pcb /\ Tabled(c, t).alive = c.alive
           /\ Tabled(c, t).shm_page_num = c.shm_page_num
           /\ Tabled(c, t).tables = c.tables \cup {t} /\ Tabled(c, t).pagenum = c.pagenum
           /\ Tabled(c, t).pgdir = c.pgdir /\ Tabled(c, t).pagehead = c.pagehead
<1> DEFINE l == c.tables \cup {t}
<1>1. l \in SUBSET ({1, 2} \X Nat)
  BY DEF Pcb
<1>2. Tabled(c, t) = [c EXCEPT !.tables = l]
  BY DEF Tabled
<1> HIDE DEF l
<1>3. /\ [c EXCEPT !.tables = l] \in Pcb
      /\ [c EXCEPT !.tables = l].alive = c.alive
      /\ [c EXCEPT !.tables = l].shm_page_num = c.shm_page_num
      /\ [c EXCEPT !.tables = l].tables = l
      /\ [c EXCEPT !.tables = l].pagenum = c.pagenum
      /\ [c EXCEPT !.tables = l].pgdir = c.pgdir
      /\ [c EXCEPT !.tables = l].pagehead = c.pagehead
  BY <1>1 DEF Pcb
<1> QED
  BY <1>2, <1>3, Zenon DEF l

AddTable(a, p, t, f) == clear_pgdir([a EXCEPT !.pcb[p].tables = @ \cup {t}], f)

\* What entering a new table in the directory does to the fields.
LEMMA AddTableFields ==
    ASSUME NEW a, Shape(a), NEW p, NEW t, NEW f, NEW r, r = AddTable(a, p, t, f)
    PROVE  /\ Shape(r)
           /\ PcbSet(a, r, p, Tabled(a.pcb[p], t))
           /\ MemSet(a, r, f, Zero)
           /\ r.page_manager = a.page_manager /\ r.page_id = a.page_id
           /\ r.kernMemCurr = a.kernMemCurr /\ r.sector = a.sector /\ r.sd = a.sd
           /\ r.shm_page_table = a.shm_page_table /\ r.panic = a.panic
<1>1. PcbSet(a, r, p, Tabled(a.pcb[p], t))
  BY DEF AddTable, clear_pgdir, Shape, Fields, PcbSet, Tabled
<1>2. MemSet(a, r, f, Zero)
  BY DEF AddTable, clear_pgdir, Shape, Fields, MemSet
<1>3. /\ Shape(r) /\ r.page_manager = a.page_manager /\ r.page_id = a.page_id
      /\ r.kernMemCurr = a.kernMemCurr /\ r.sector = a.sector /\ r.sd = a.sd
      /\ r.shm_page_table = a.shm_page_table /\ r.panic = a.panic
  BY DEF AddTable, clear_pgdir, Shape, Fields
<1> QED
  BY <1>1, <1>2, <1>3

\* Entering a new table keeps the state sound.
LEMMA AddTableSound ==
    ASSUME NEW a, Sound(a), NEW p \in Procs, NEW t \in {1, 2} \X Nat, NEW f,
           NEW r, r = AddTable(a, p, t, f)
    PROVE  Sound(r) /\ Keeps(a, r, p) /\ r.pcb[p].tables = a.pcb[p].tables \cup {t}
<1>1. MemType(a) /\ Shape(a) /\ a.pcb[p] \in Pcb
  BY TypeHasShape, Parts DEF Sound
<1> DEFINE c == a.pcb[p]
           d == Tabled(c, t)
<1>2. /\ Shape(r) /\ PcbSet(a, r, p, d) /\ MemSet(a, r, f, Zero)
      /\ r.page_manager = a.page_manager /\ r.page_id = a.page_id
      /\ r.kernMemCurr = a.kernMemCurr /\ r.sector = a.sector /\ r.sd = a.sd
      /\ r.shm_page_table = a.shm_page_table /\ r.panic = a.panic
  BY <1>1, AddTableFields
<1>3. /\ d \in Pcb /\ d.alive = c.alive /\ d.shm_page_num = c.shm_page_num
      /\ d.tables = c.tables \cup {t} /\ d.pagenum = c.pagenum
      /\ d.pgdir = c.pgdir /\ d.pagehead = c.pagehead
  BY <1>1, TabledPcb
<1> HIDE DEF d
<1>4. /\ r.pcb \in [Procs -> Pcb] /\ r.pcb[p] = d
      /\ \A q \in Procs : q # p => r.pcb[q] = a.pcb[q]
  BY <1>1, <1>2, <1>3, PcbChange
<1>5. \A q \in Procs : Own(r, q) = Own(a, q) /\ \A u : Entry(r, q, u) = Entry(a, q, u)
  BY <1>3, <1>4 DEF Own, Entry
<1>6. /\ a.page_manager \in [PageIds -> Page] /\ a.page_id \in 0 .. PAGE_NUM
      /\ a.kernMemCurr \in 1 .. PAGE_NUM + 1 /\ a.sector \in 0 .. MaxSector
      /\ a.sd \in [0 .. MaxSector - 1 -> Contents]
      /\ a.shm_page_table \in [ShmIds -> Shm] /\ a.panic \in BOOLEAN
  BY <1>1 DEF MemType
<1>7. r.mem \in [Frames -> Contents]
  BY <1>1, <1>2, MemChange DEF Contents
<1>8. MemType(r)
  BY <1>2, <1>4, <1>6, <1>7, ShapeHasType
<1>9. PoolInv(r) /\ Disjoint(r)
  BY <1>2, <1>5 DEF Sound, PoolInv, Disjoint
<1>10. ASSUME NEW q \in Procs, q # p PROVE OwnInv(r, q) /\ EntryInv(r, q)
  <2>1. OwnInv(a, q) /\ EntryInv(a, q)
    BY DEF Sound
  <2>2. r.page_id \in Int /\ r.page_id >= a.page_id /\ r.sector \in Int /\ r.sector >= a.sector
    BY <1>2, <1>6
  <2> QED
    BY <1>1, <1>2, <1>4, <1>10, <2>1, <2>2, Others
<1>11. OwnInv(a, p) /\ EntryInv(a, p)
  BY DEF Sound
<1>12. OwnInv(r, p)
  BY <1>2, <1>5, <1>11 DEF OwnInv, InMemory, OnCard
<1>13. EntryInv(r, p)
  <2>1. \A u : (Walks(a, p, u) => Walks(r, p, u)) /\ (Full(r, p) <=> Full(a, p))
    BY <1>3, <1>4 DEF Walks, Full
  <2> QED
    BY <1>2, <1>5, <1>11, <2>1 DEF EntryInv
<1>14. Keeps(a, r, p)
  BY <1>2, <1>3, <1>4, <1>5, SteadySame DEF Keeps
<1> QED
  BY <1>3, <1>4, <1>8, <1>9, <1>10, <1>12, <1>13, <1>14 DEF Sound

\* One step of a walk.
LEMMA AllocTableGrows ==
    ASSUME NEW s, Raw(s), NEW p, NEW t, NEW r, r = alloc_table(s, p, t)
    PROVE  Grows(s, r)
<1> DEFINE a == allocPagetable(s, p, "UNSWAPABLE")
<1>1. Grows(s, s) /\ Grows(s, a)
  BY AllocGrows, GrowsReflexive
<1>2. r = s \/ r = a \/ r = AddTable(a, p, t, new_kva(s, p))
  BY Zenon DEF alloc_table, AddTable
<1> HIDE DEF a
<1>3. CASE r = AddTable(a, p, t, new_kva(s, p))
  <2>1. Shape(r) /\ r.page_id = a.page_id /\ r.kernMemCurr = a.kernMemCurr /\ r.sector = a.sector
    BY <1>1, <1>3, AddTableFields DEF Grows, Raw
  <2> QED
    BY <1>1, <2>1 DEF Grows, Raw
<1> QED
  BY <1>1, <1>2, <1>3

\* One step of the walk keeps the state sound, and the table is there after it.
LEMMA AllocTableSound ==
    ASSUME NEW s, Sound(s), NEW p \in Procs, NEW t \in {1, 2} \X Nat,
           NEW r, r = alloc_table(s, p, t), Bounded(r)
    PROVE  /\ Sound(r) /\ Keeps(s, r, p)
           /\ r.panic => (s.panic /\ r = s) \/ Stuck(r, p)
           /\ ~r.panic => t \in r.pcb[p].tables /\ ~s.panic
<1> DEFINE a == allocPagetable(s, p, "UNSWAPABLE")
           f == new_kva(s, p)
<1>1. CASE s.panic \/ t \in s.pcb[p].tables
  <2>1. r = s
    BY <1>1 DEF alloc_table
  <2> QED
    BY <1>1, <2>1, KeepsReflexive
<1>2. CASE ~s.panic /\ t \notin s.pcb[p].tables
  <2>1. r = IF a.panic THEN a ELSE AddTable(a, p, t, f)
    BY <1>2, Zenon DEF alloc_table, AddTable
  <2>2. Raw(s) /\ Grows(s, a) /\ Raw(a)
    BY SoundRaw, AllocGrows DEF Grows
  <2>3. Bounded(a)
    <3>1. CASE a.panic
      BY <2>1, <3>1
    <3>2. CASE ~a.panic
      <4>1. r = AddTable(a, p, t, f)
        BY <2>1, <3>2
      <4> HIDE DEF a, f
      <4>2. r.page_id = a.page_id /\ r.kernMemCurr = a.kernMemCurr /\ r.sector = a.sector
        BY <2>2, <4>1, AddTableFields DEF Raw
      <4> QED
        BY <4>2 DEF Bounded
    <3> QED
      BY <3>1, <3>2
  <2>4. /\ Sound(a) /\ Keeps(s, a, p)
        /\ a.panic => s.panic \/ Stuck(a, p)
    BY <2>3, AllocSound
  <2> HIDE DEF a, f
  <2>5. CASE a.panic
    BY <1>2, <2>1, <2>4, <2>5
  <2>6. CASE ~a.panic
    <3>1. r = AddTable(a, p, t, f)
      BY <2>1, <2>6
    <3>2. Sound(r) /\ Keeps(a, r, p) /\ r.pcb[p].tables = a.pcb[p].tables \cup {t}
      BY <2>4, <3>1, AddTableSound
    <3>3. r.panic = a.panic
      BY <2>2, <3>1, AddTableFields DEF Raw
    <3>4. Keeps(s, r, p)
      BY <2>4, <3>2, KeepsTransitive
    <3> QED
      BY <1>2, <2>6, <3>2, <3>3, <3>4
  <2> QED
    BY <2>5, <2>6
<1> QED
  BY <1>1, <1>2

\* The walk keeps the state sound and leaves both tables behind.
LEMMA AllocTables ==
    ASSUME NEW s, Sound(s), NEW p \in Procs, NEW v \in Vpns,
           NEW r, r = alloc_tables(s, p, v), Bounded(r)
    PROVE  /\ Sound(r) /\ Keeps(s, r, p)
           /\ r.panic => (s.panic /\ r = s) \/ Stuck(r, p)
           /\ ~r.panic => Walks(r, p, v) /\ ~s.panic
<1> DEFINE t2 == Table2(v)
           t1 == Table1(v)
           b == alloc_table(s, p, t2)
<1>1. t1 \in {1, 2} \X Nat /\ t2 \in {1, 2} \X Nat
  BY TablesTyped
<1>2. r = alloc_table(b, p, t1)
  BY DEF alloc_tables
<1> HIDE DEF t1, t2
<1>3. Raw(s) /\ Grows(s, b) /\ Raw(b)
  BY SoundRaw, AllocTableGrows DEF Grows
<1>4. Grows(b, r)
  BY <1>2, <1>3, AllocTableGrows
<1>5. Bounded(b)
  BY <1>3, <1>4, BoundedBefore
<1>6. /\ Sound(b) /\ Keeps(s, b, p)
      /\ b.panic => (s.panic /\ b = s) \/ Stuck(b, p)
      /\ ~b.panic => t2 \in b.pcb[p].tables /\ ~s.panic
  BY <1>1, <1>5, AllocTableSound
<1> HIDE DEF b
<1>7. /\ Sound(r) /\ Keeps(b, r, p)
      /\ r.panic => (b.panic /\ r = b) \/ Stuck(r, p)
      /\ ~r.panic => t1 \in r.pcb[p].tables /\ ~b.panic
  BY <1>1, <1>2, <1>6, AllocTableSound
<1>8. Keeps(s, r, p)
  BY <1>6, <1>7, KeepsTransitive
<1>9. ~r.panic => Walks(r, p, v) /\ ~s.panic
  BY <1>6, <1>7 DEF Keeps, Walks, t1, t2
<1> QED
  BY <1>6, <1>7, <1>8, <1>9

\* The walk lets no counter shrink.
LEMMA AllocTablesGrows ==
    ASSUME NEW s, Raw(s), NEW p, NEW v, NEW r, r = alloc_tables(s, p, v)
    PROVE  Grows(s, r)
<1> DEFINE b == alloc_table(s, p, Table2(v))
<1>1. r = alloc_table(b, p, Table1(v))
  BY DEF alloc_tables
<1>2. Grows(s, b) /\ Raw(b)
  BY AllocTableGrows DEF Grows
<1> HIDE DEF b
<1>3. Grows(b, r)
  BY <1>1, <1>2, AllocTableGrows
<1> QED
  BY <1>2, <1>3, GrowsTransitive

-----------------------------------------------------------------------------
(* Mapping *)

\* The entry, the page and the PCB that mapping a page leaves behind.
PteIn(e, f) == [e EXCEPT !.pfn = f, !.present = TRUE, !.write = TRUE]
Addressed(page, v) == [page EXCEPT !.uva = v, !.pte = v]
WithEntry(c, v, e) == [c EXCEPT !.pgdir[v] = e]

\* A PCB with a new entry for page v.
LEMMA WithEntryPcb ==
    ASSUME NEW c \in Pcb, NEW v \in Vpns, NEW e \in Pte
    PROVE  LET d == WithEntry(c, v, e) IN
           /\ d \in Pcb /\ d.alive = c.alive
           /\ d.shm_page_num = c.shm_page_num
           /\ d.tables = c.tables /\ d.pagenum = c.pagenum /\ d.pagehead = c.pagehead
           /\ d.pgdir[v] = e /\ \A u \in Vpns : u # v => d.pgdir[u] = c.pgdir[u]
  BY DEF WithEntry, Pcb

\* The entry map_page writes is valid and names the frame.
LEMMA PteInTyped ==
    ASSUME NEW e \in Pte, NEW f \in Nat
    PROVE  /\ PteIn(e, f) \in Pte /\ PteIn(e, f).present
           /\ PteIn(e, f).pfn = f /\ PteIn(e, f).insd = e.insd
  BY DEF PteIn, Pte

\* Setting an entry is setting the PCB that has it.
LEMMA EntryIsPcb ==
    ASSUME NEW s, NEW r, NEW p, NEW v, NEW e, EntrySet(s, r, p, v, e)
    PROVE  PcbSet(s, r, p, WithEntry(s.pcb[p], v, e))
  BY DEF EntrySet, PcbSet, WithEntry

\* Of two changes of the same page or PCB the last one counts.
LEMMA SetTwice ==
    ASSUME NEW b, MemType(b), NEW a, NEW r
    PROVE  /\ \A i \in PageIds : \A g, h :
                PageSet(b, a, i, g) /\ PageSet(a, r, i, h) => PageSet(b, r, i, h)
           /\ \A p \in Procs : \A c, d :
                PcbSet(b, a, p, c) /\ PcbSet(a, r, p, d) => PcbSet(b, r, p, d)
<1>1. ASSUME NEW D, NEW m, m = [x \in D |-> m[x]], NEW i \in D, NEW g, NEW h, NEW n,
             n = [m EXCEPT ![i] = g]
      PROVE  [n EXCEPT ![i] = h] = [m EXCEPT ![i] = h]
  BY <1>1, Zenon
<1>2. /\ b.page_manager = [x \in PageIds |-> b.page_manager[x]]
      /\ b.pcb = [x \in Procs |-> b.pcb[x]]
  BY DEF MemType
<1> QED
  BY <1>1, <1>2, Zenon DEF PageSet, PcbSet

\* What map_page does to the fields.
LEMMA MapFields ==
    ASSUME NEW s, Shape(s), NEW p, NEW v, NEW f, NEW r, r = map_page(s, p, v, f)
    PROVE  /\ Shape(r)
           /\ EntrySet(s, r, p, v, PteIn(Entry(s, p, v), f))
           /\ r.page_manager = s.page_manager /\ r.page_id = s.page_id
           /\ r.kernMemCurr = s.kernMemCurr /\ r.sector = s.sector /\ r.mem = s.mem
           /\ r.sd = s.sd /\ r.shm_page_table = s.shm_page_table /\ r.panic = s.panic
<1>1. EntrySet(s, r, p, v, PteIn(Entry(s, p, v), f))
  BY DEF map_page, Shape, Fields, EntrySet, PteIn, Entry
<1>2. /\ Shape(r) /\ r.page_manager = s.page_manager /\ r.page_id = s.page_id
      /\ r.kernMemCurr = s.kernMemCurr /\ r.sector = s.sector /\ r.mem = s.mem
      /\ r.sd = s.sd /\ r.shm_page_table = s.shm_page_table /\ r.panic = s.panic
  BY DEF map_page, Shape, Fields
<1> QED
  BY <1>1, <1>2

\* The end of alloc_page_helper.
Address(a, i, v) == [a EXCEPT !.page_manager[i] = [@ EXCEPT !.uva = v, !.pte = v]]

\* What recording the address of a page does to the fields.
LEMMA AddressFields ==
    ASSUME NEW a, Shape(a), NEW i, NEW v, NEW r, r = Address(a, i, v)
    PROVE  /\ Shape(r)
           /\ PageSet(a, r, i, Addressed(a.page_manager[i], v))
           /\ r.page_id = a.page_id
           /\ r.kernMemCurr = a.kernMemCurr /\ r.sector = a.sector /\ r.mem = a.mem
           /\ r.sd = a.sd /\ r.pcb = a.pcb
           /\ r.shm_page_table = a.shm_page_table /\ r.panic = a.panic
<1>1. PageSet(a, r, i, Addressed(a.page_manager[i], v))
  BY DEF Address, Shape, Fields, PageSet, Addressed
<1>2. /\ Shape(r) /\ r.page_id = a.page_id
      /\ r.kernMemCurr = a.kernMemCurr /\ r.sector = a.sector /\ r.mem = a.mem
      /\ r.sd = a.sd /\ r.pcb = a.pcb
      /\ r.shm_page_table = a.shm_page_table /\ r.panic = a.panic
  BY DEF Address, Shape, Fields
<1> QED
  BY <1>1, <1>2

\* A new page that is mapped at v, where nothing was.
LEMMA GiveMapped ==
    ASSUME NEW b, Sound(b), NEW p \in Procs, NEW v \in Vpns \ ShmVpns,
           NEW st \in {"SWAPABLE", "UNSWAPABLE"}, st = "SWAPABLE" => v \in HeapVpns,
           Walks(b, p, v), ~Entry(b, p, v).present, ~Entry(b, p, v).insd,
           NEW i \in PageIds, i = b.page_id, NEW f, Free(b, f),
           NEW r, r = map_page(Address(Give(b, p, st, i, f), i, v), p, v, f)
    PROVE  /\ Sound(r) /\ r.panic = b.panic /\ r.shm_page_table = b.shm_page_table
           /\ \A q \in Procs : q # p => r.pcb[q] = b.pcb[q]
           /\ r.pcb[p].alive = b.pcb[p].alive
           /\ r.pcb[p].shm_page_num = b.pcb[p].shm_page_num
           /\ \A u \in Vpns : u # v => Entry(r, p, u) = Entry(b, p, u)
           /\ Steady(b, r)
<1> DEFINE a == Give(b, p, st, i, f)
           w == Address(a, i, v)
           c == b.pcb[p]
           d == Listed(c, i)
           e == PteIn(c.pgdir[v], f)
           x == WithEntry(d, v, e)
           page == Addressed(PageIn(UnusedPage, st, f), v)
<1>1. MemType(b) /\ Shape(b) /\ PoolInv(b) /\ c \in Pcb
  BY TypeHasShape, Parts DEF Sound
<1>2. b.page_manager[i] = UnusedPage
  BY <1>1, PagingAssumption DEF PoolInv, PageIds
<1>3. f \in Nat \ {0}
  BY DEF Free
<1>4. /\ Shape(a)
      /\ PageSet(b, a, i, PageIn(UnusedPage, st, f)) /\ PcbSet(b, a, p, d)
      /\ a.page_id = i + 1 /\ a.kernMemCurr = b.kernMemCurr /\ a.sector = b.sector
      /\ a.mem = b.mem /\ a.sd = b.sd
      /\ a.shm_page_table = b.shm_page_table /\ a.panic = b.panic
  BY <1>1, <1>2, GiveFields
<1>5. /\ d \in Pcb /\ d.alive = c.alive /\ d.shm_page_num = c.shm_page_num
      /\ d.tables = c.tables /\ d.pagenum = c.pagenum /\ d.pgdir = c.pgdir
      /\ Range(d.pagehead) = Range(c.pagehead) \cup {i}
  BY <1>1, ListedPcb, ZenonT(60)
<1>6. /\ PageIn(UnusedPage, st, f) \in Page /\ page \in Page
      /\ page.kva = f /\ page.status = st /\ page.uva = v /\ page.pte = v
  BY <1>3 DEF PageIn, Page, UnusedPage, Statuses, Addressed
<1>7. c.pgdir[v] \in Pte /\ e \in Pte /\ e.present /\ e.pfn = f /\ e.insd = c.pgdir[v].insd
  BY <1>1, <1>3, PteInTyped DEF Pcb
<1>8. a.page_manager[i] = PageIn(UnusedPage, st, f) /\ a.pcb[p] = d
  <2> HIDE DEF a, d
  <2> QED BY <1>1, <1>4, <1>5, <1>6, PageChange, PcbChange
<1> HIDE DEF a
<1>9. /\ Shape(w) /\ PageSet(a, w, i, page)
      /\ w.page_id = a.page_id
      /\ w.kernMemCurr = a.kernMemCurr /\ w.sector = a.sector /\ w.mem = a.mem
      /\ w.sd = a.sd /\ w.pcb = a.pcb
      /\ w.shm_page_table = a.shm_page_table /\ w.panic = a.panic
  BY <1>4, <1>8, AddressFields
<1>10. r = map_page(w, p, v, f)
  BY DEF a
<1> HIDE DEF w
<1>11. /\ Shape(r)
       /\ EntrySet(w, r, p, v, PteIn(Entry(w, p, v), f))
       /\ r.page_manager = w.page_manager /\ r.page_id = w.page_id
       /\ r.kernMemCurr = w.kernMemCurr /\ r.sector = w.sector /\ r.mem = w.mem
       /\ r.sd = w.sd /\ r.shm_page_table = w.shm_page_table /\ r.panic = w.panic
  BY <1>9, <1>10, MapFields
<1>12. EntrySet(w, r, p, v, e) /\ PcbSet(w, r, p, x)
  <2>1. Entry(w, p, v) = c.pgdir[v] /\ w.pcb[p] = d
    BY <1>5, <1>8, <1>9 DEF Entry
  <2>2. EntrySet(w, r, p, v, e)
    BY <1>11, <2>1
  <2> HIDE DEF e, d
  <2> QED
    BY <2>1, <2>2, EntryIsPcb
<1> HIDE DEF page, e, d
<1>13. PageSet(b, r, i, page)
  <2>1. PageSet(a, r, i, page)
    BY <1>9, <1>11 DEF PageSet
  <2> QED
    BY <1>1, <1>4, <2>1, SetTwice
<1>14. /\ x \in Pcb /\ x.alive = c.alive
       /\ x.shm_page_num = c.shm_page_num
       /\ x.tables = c.tables /\ x.pagenum = c.pagenum /\ x.pagehead = d.pagehead
       /\ x.pgdir[v] = e /\ \A u \in Vpns : u # v => x.pgdir[u] = c.pgdir[u]
  BY <1>5, <1>7, WithEntryPcb, SMTT(40)
<1> HIDE DEF x
<1>15. PcbSet(b, r, p, x)
  <2>1. PcbSet(a, r, p, x)
    BY <1>9, <1>12 DEF PcbSet
  <2> QED
    BY <1>1, <1>4, <2>1, SetTwice
<1>16. r.pcb[p] = x /\ \A q \in Procs : q # p => r.pcb[q] = b.pcb[q]
  BY <1>1, <1>14, <1>15, PcbChange
<1>17. Own(r, p) = Own(b, p) \cup {i}
  BY <1>5, <1>14, <1>16 DEF Own
<1>18. b.mem \in [Frames -> Contents]
  BY <1>1 DEF MemType
<1>19. /\ \A u \in Vpns : u # v => x.pgdir[u] = Entry(b, p, u)
       /\ ~x.pgdir[v].insd /\ x.pgdir[v].present /\ x.pgdir[v].pfn = f
  BY <1>7, <1>14 DEF Entry
<1>20. Sound(r)
  <2>1. /\ r.page_id = i + 1 /\ r.kernMemCurr = b.kernMemCurr /\ r.sector = b.sector
        /\ r.mem \in [Frames -> Contents] /\ r.sd = b.sd
        /\ r.shm_page_table = b.shm_page_table /\ r.panic = b.panic
    BY <1>4, <1>9, <1>11, <1>18
  <2>2. page.status \notin {"UNUSED", "NOT_IN_MEM"} /\ page.uva = page.pte
    BY <1>6
  <2>3. /\ page.pte \in Vpns \ ShmVpns /\ Walks(b, p, page.pte)
        /\ page.status = "SWAPABLE" => page.pte \in HeapVpns
        /\ ~Entry(b, p, page.pte).present /\ ~Entry(b, p, page.pte).insd
        /\ x.pgdir[page.pte].present /\ ~x.pgdir[page.pte].insd
        /\ x.pgdir[page.pte].pfn = f
        /\ \A u \in Vpns : u # page.pte => x.pgdir[u] = Entry(b, p, u)
    BY <1>6, <1>19
  <2> QED
    BY <1>6, <1>11, <1>13, <1>14, <1>15, <1>17, <2>1, <2>2, <2>3, NewPage, SMTT(40)
<1>21. Steady(b, r)
  <2>1. \A j \in PageIds : j # i => r.page_manager[j] = b.page_manager[j]
    BY <1>1, <1>6, <1>13, PageChange
  <2>2. r.page_id = i + 1
    BY <1>4, <1>9, <1>11
  <2> QED
    BY <2>1, <2>2 DEF Steady, PageIds
<1> QED
  BY <1>4, <1>9, <1>11, <1>14, <1>16, <1>19, <1>20, <1>21 DEF Entry

\* What the operations of p leave alone of the others and of its segments.
Private(s, r, p) ==
    /\ Steady(s, r)
    /\ \A q \in Procs : q # p => r.pcb[q] = s.pcb[q]
    /\ r.pcb[p].alive = s.pcb[p].alive /\ r.pcb[p].shm_page_num = s.pcb[p].shm_page_num
    /\ r.shm_page_table = s.shm_page_table
    /\ \A u \in ShmVpns : Entry(r, p, u) = Entry(s, p, u)

\* A step that leaves all but the heap alone is private to the process.
LEMMA KeepsPrivate ==
    ASSUME NEW s, NEW r, NEW p, Keeps(s, r, p)
    PROVE  Private(s, r, p)
  BY Layout DEF Keeps, Private

\* Two private steps are one.
LEMMA PrivateTransitive ==
    ASSUME NEW s, NEW t, NEW r, NEW p, Private(s, t, p), Private(t, r, p)
    PROVE  Private(s, r, p)
  BY SteadyTransitive DEF Private

\* Only pages of the heap are on the card.
LEMMA CardIsHeap ==
    ASSUME NEW s, Sound(s), NEW p \in Procs, NEW v \in Vpns, Entry(s, p, v).insd
    PROVE  /\ v \in HeapVpns /\ v \notin ShmVpns
           /\ \E i \in Own(s, p) : s.page_manager[i].pte = v /\ OnCard(s, p, i)
<1>1. OwnInv(s, p) /\ EntryInv(s, p)
  BY DEF Sound
<1>2. PICK i \in Own(s, p) : s.page_manager[i].pte = v
  BY <1>1 DEF EntryInv
<1>3. v # NoVa
  BY Layout
<1>4. InMemory(s, p, i) \/ OnCard(s, p, i)
  BY <1>1, <1>2, <1>3 DEF OwnInv
<1>5. OnCard(s, p, i)
  BY <1>2, <1>4 DEF InMemory
<1>6. v \in HeapVpns
  BY <1>2, <1>5 DEF OnCard
<1> QED
  BY <1>2, <1>5, <1>6, Layout

\* alloc_page_helper lets no counter shrink.
LEMMA AllocPageGrows ==
    ASSUME NEW s, Raw(s), NEW p, NEW v, NEW st, NEW r, r = alloc_page_helper(s, p, v, st)
    PROVE  Grows(s, r)
<1> DEFINE t == alloc_tables(s, p, v)
           a == allocPagetable(t, p, st)
           w == Address(a, new_page(t), v)
<1>1. Grows(s, t) /\ Raw(t)
  BY AllocTablesGrows DEF Grows
<1>2. r = t \/ r = a \/ r = map_page(w, p, v, new_kva(t, p))
  BY Zenon DEF alloc_page_helper, Address
<1> HIDE DEF t
<1>3. Grows(t, a) /\ Raw(a)
  BY <1>1, AllocGrows DEF Grows
<1>4. Grows(s, a)
  BY <1>1, <1>3, GrowsTransitive
<1> HIDE DEF a
<1>5. CASE r = map_page(w, p, v, new_kva(t, p))
  <2>1. /\ Shape(w) /\ w.page_id = a.page_id
        /\ w.kernMemCurr = a.kernMemCurr /\ w.sector = a.sector
    BY <1>3, AddressFields DEF Raw
  <2> HIDE DEF w
  <2>2. Shape(r) /\ r.page_id = w.page_id /\ r.kernMemCurr = w.kernMemCurr /\ r.sector = w.sector
    BY <1>5, <2>1, MapFields
  <2> QED
    BY <1>3, <1>4, <2>1, <2>2 DEF Grows, Raw
<1> QED
  BY <1>1, <1>2, <1>4, <1>5

\* alloc_page_helper keeps the state sound.
LEMMA AllocPageSound ==
    ASSUME NEW s, Sound(s), NEW p \in Procs, NEW v \in Vpns \ ShmVpns,
           NEW st \in {"SWAPABLE", "UNSWAPABLE"}, st = "SWAPABLE" => v \in HeapVpns,
           v \in HeapVpns => ~Entry(s, p, v).present /\ ~Entry(s, p, v).insd,
           NEW r, r = alloc_page_helper(s, p, v, st), Bounded(r)
    PROVE  /\ Sound(r) /\ Private(s, r, p)
           /\ r.panic => (s.panic /\ r = s) \/ Stuck(r, p)
           /\ ~r.panic => ~s.panic
<1> DEFINE t == alloc_tables(s, p, v)
           a == allocPagetable(t, p, st)
           b == Reserve(t, p)
           i == new_page(t)
           f == new_kva(t, p)
<1>1. r = IF t.panic \/ Entry(t, p, v).present THEN t
          ELSE IF a.panic THEN a
          ELSE map_page(Address(a, i, v), p, v, f)
  BY Zenon DEF alloc_page_helper, Address, Entry
<1>2. a = IF b.panic THEN b ELSE Give(b, p, st, i, f)
  BY AllocParts
<1>3. Raw(s) /\ Grows(s, t) /\ Raw(t)
  BY SoundRaw, AllocTablesGrows DEF Grows
<1>4. Grows(t, a) /\ Grows(t, b) /\ Raw(a) /\ Raw(b) /\ b.page_id = t.page_id
  <2> HIDE DEF t
  <2> QED BY <1>3, AllocGrows, ReserveGrows DEF Grows
<1> HIDE DEF i, f
<1>5. CASE t.panic \/ Entry(t, p, v).present
  <2>1. r = t
    BY <1>1, <1>5
  <2>2. /\ Sound(t) /\ Keeps(s, t, p)
        /\ t.panic => (s.panic /\ t = s) \/ Stuck(t, p)
        /\ ~t.panic => ~s.panic
    BY <2>1, AllocTables
  <2> QED
    BY <2>1, <2>2, KeepsPrivate
<1>6. CASE ~t.panic /\ ~Entry(t, p, v).present
  <2>1. r = IF a.panic THEN a ELSE map_page(Address(a, i, v), p, v, f)
    BY <1>1, <1>6
  <2>2. Bounded(a)
    <3>1. CASE a.panic
      BY <2>1, <3>1
    <3>2. CASE ~a.panic
      <4> HIDE DEF a
      <4> DEFINE w == Address(a, i, v)
      <4>1. /\ Shape(w) /\ w.page_id = a.page_id
            /\ w.kernMemCurr = a.kernMemCurr /\ w.sector = a.sector
        BY <1>4, AddressFields DEF Raw
      <4>2. r = map_page(w, p, v, f)
        BY <2>1, <3>2
      <4> HIDE DEF w
      <4>3. r.page_id = w.page_id /\ r.kernMemCurr = w.kernMemCurr /\ r.sector = w.sector
        BY <4>1, <4>2, MapFields
      <4> QED
        BY <4>1, <4>3 DEF Bounded
    <3> QED
      BY <3>1, <3>2
  <2>3. Bounded(t)
    BY <1>3, <1>4, <2>2, BoundedBefore
  <2>4. /\ Sound(t) /\ Keeps(s, t, p)
        /\ Walks(t, p, v) /\ ~s.panic
    BY <1>6, <2>3, AllocTables
  <2>5. Bounded(b)
    <3>1. CASE b.panic
      BY <1>2, <2>2, <3>1
    <3>2. CASE ~b.panic
      <4>1. a = Give(b, p, st, i, f)
        BY <1>2, <3>2
      <4> HIDE DEF a, b
      <4>2. a.page_id = i + 1 /\ a.kernMemCurr = b.kernMemCurr /\ a.sector = b.sector
        BY <1>4, <4>1, GiveFields DEF Raw
      <4>3. b.page_id = t.page_id /\ t.page_id <= a.page_id
        BY <1>4 DEF Grows
      <4> HIDE DEF t
      <4> QED
        BY <1>3, <1>4, <2>2, <4>2, <4>3, PagingAssumption DEF Bounded, Raw
    <3> QED
      BY <3>1, <3>2
  <2> HIDE DEF t
  <2>6. /\ Sound(b) /\ Keeps(t, b, p)
        /\ b.pcb[p].tables = t.pcb[p].tables
        /\ b.panic => t.panic \/ Stuck(b, p)
        /\ ~b.panic => ~t.panic /\ Free(b, f)
    BY <2>4, <2>5, ReserveSound DEF f
  <2>7. Keeps(s, b, p)
    BY <2>4, <2>6, KeepsTransitive
  <2>8. CASE b.panic
    <3>1. r = b
      BY <1>2, <2>1, <2>8
    <3> QED
      BY <1>6, <2>6, <2>7, <2>8, <3>1, KeepsPrivate
  <2>9. CASE ~b.panic
    <3>1. a = Give(b, p, st, i, f)
      BY <1>2, <2>9
    <3>2. a.page_id = i + 1 /\ a.panic = b.panic
      <4> HIDE DEF a, b
      <4> QED BY <1>4, <3>1, GiveFields DEF Raw
    <3>3. i \in PageIds /\ i = b.page_id
      BY <1>4, <2>2, <2>4, <2>6, <3>2, GivePlace DEF i
    <3>4. r = map_page(Address(Give(b, p, st, i, f), i, v), p, v, f)
      BY <2>1, <2>9, <3>1, <3>2
    <3>5. ~Entry(t, p, v).insd
      <4>1. CASE v \in HeapVpns
        BY <2>4, <4>1 DEF Keeps
      <4>2. CASE v \notin HeapVpns
        BY <2>4, <4>2, CardIsHeap
      <4> QED
        BY <4>1, <4>2
    <3>6. Entry(b, p, v) = Entry(t, p, v)
      BY <1>6, <2>6 DEF Keeps
    <3>7. Walks(b, p, v)
      BY <2>4, <2>6 DEF Walks
    <3> HIDE DEF a, b
    <3>8. /\ Sound(r) /\ r.panic = b.panic /\ r.shm_page_table = b.shm_page_table
          /\ \A q \in Procs : q # p => r.pcb[q] = b.pcb[q]
          /\ r.pcb[p].alive = b.pcb[p].alive
          /\ r.pcb[p].shm_page_num = b.pcb[p].shm_page_num
          /\ \A u \in Vpns : u # v => Entry(r, p, u) = Entry(b, p, u)
          /\ Steady(b, r)
      BY <1>6, <2>6, <2>9, <3>3, <3>4, <3>5, <3>6, <3>7, GiveMapped
    <3>9. Private(b, r, p)
      BY <3>8, Layout DEF Private
    <3>10. Private(s, r, p)
      BY <2>7, <3>9, KeepsPrivate, PrivateTransitive
    <3> QED
      BY <2>4, <2>9, <3>8, <3>10
  <2> QED
    BY <2>8, <2>9
<1> QED
  BY <1>5, <1>6

-----------------------------------------------------------------------------
(* Loading a program *)

\* One round of load_task_img's loop.
LoadStep(t, p, n) ==
    LET u == alloc_page_helper(t, p, n, "UNSWAPABLE")
    IN  IF t.panic THEN t
        ELSE IF u.panic THEN u
        ELSE [u EXCEPT !.mem[u.pcb[p].pgdir[n].pfn] = Image]

\* The states the loop goes through, up to its end.
LEMMA LoadRounds ==
    ASSUME NEW s, NEW p
    PROVE  \E g : /\ g[0] = s
                  /\ \A n \in 0 .. ImagePages - 1 : g[n + 1] = LoadStep(g[n], p, n + 1)
                  /\ load_task_img(s, p) = g[ImagePages]
<1> DEFINE Round(g, N) == g = [n \in 0 .. N |-> IF n = 0 THEN s ELSE LoadStep(g[n - 1], p, n)]
           A == {N \in Nat : \E g : Round(g, N)}
           h == CHOOSE g : Round(g, ImagePages)
<1>1. load_task_img(s, p) = h[ImagePages]
  BY DEF load_task_img, LoadStep
<1>2. ImagePages \in Nat
  BY PagingAssumption
<1>3. 0 \in A
  <2>1. Round([n \in 0 .. 0 |-> s], 0)
    OBVIOUS
  <2> QED
    BY <2>1
<1>4. ASSUME NEW N \in Nat, N \in A PROVE N + 1 \in A
  <2>1. PICK g : Round(g, N)
    BY <1>4
  <2> DEFINE k == [n \in 0 .. N + 1 |-> IF n = N + 1 THEN LoadStep(g[N], p, N + 1) ELSE g[n]]
  <2>2. \A n \in 0 .. N : k[n] = g[n] /\ g[n] = IF n = 0 THEN s ELSE LoadStep(g[n - 1], p, n)
    BY <2>1
  <2>3. k[N + 1] = LoadStep(g[N], p, N + 1)
    OBVIOUS
  <2>4. \A n \in 0 .. N + 1 : k[n] = IF n = 0 THEN s ELSE LoadStep(k[n - 1], p, n)
    <3> HIDE DEF k
    <3>1. ASSUME NEW n \in 0 .. N PROVE k[n] = IF n = 0 THEN s ELSE LoadStep(k[n - 1], p, n)
      <4>1. n # 0 => n - 1 \in 0 .. N
        OBVIOUS
      <4> QED
        BY <2>2, <4>1
    <3>2. k[N] = g[N] /\ (N + 1) - 1 = N /\ N + 1 # 0
      BY <2>2
    <3>3. k[N + 1] = LoadStep(k[(N + 1) - 1], p, N + 1)
      BY <2>3, <3>2
    <3> QED
      BY <3>1, <3>2, <3>3
  <2>5. k = [n \in 0 .. N + 1 |-> k[n]]
    OBVIOUS
  <2> HIDE DEF k
  <2>6. Round(k, N + 1)
    BY <2>4, <2>5
  <2> QED
    BY <2>6
<1>5. ImagePages \in A
  <2> HIDE DEF A
  <2> QED BY <1>2, <1>3, <1>4, Steps
<1>6. Round(h, ImagePages)
  BY <1>5
<1> HIDE DEF h
<1>7. h[0] = s
  BY <1>2, <1>6
<1>8. ASSUME NEW n \in 0 .. ImagePages - 1 PROVE h[n + 1] = LoadStep(h[n], p, n + 1)
  <2>1. n + 1 \in 0 .. ImagePages /\ n + 1 # 0 /\ (n + 1) - 1 = n
    BY <1>2
  <2> QED
    BY <1>6, <2>1
<1> QED
  BY <1>1, <1>7, <1>8

LoadImage(u, p, n) == [u EXCEPT !.mem[u.pcb[p].pgdir[n].pfn] = Image]

\* What copying a page of the image does to the fields.
LEMMA ImageFields ==
    ASSUME NEW u, Shape(u), NEW p, NEW n, NEW r, r = LoadImage(u, p, n)
    PROVE  /\ Shape(r) /\ MemSet(u, r, u.pcb[p].pgdir[n].pfn, Image)
           /\ r.page_manager = u.page_manager /\ r.page_id = u.page_id
           /\ r.kernMemCurr = u.kernMemCurr /\ r.sector = u.sector /\ r.pcb = u.pcb
           /\ r.sd = u.sd /\ r.shm_page_table = u.shm_page_table /\ r.panic = u.panic
  BY DEF LoadImage, Shape, Fields, MemSet

\* One round of the loading loop lets no counter shrink,
LEMMA LoadStepGrows ==
    ASSUME NEW s, Raw(s), NEW p, NEW n, NEW r, r = LoadStep(s, p, n)
    PROVE  Grows(s, r)
<1> DEFINE u == alloc_page_helper(s, p, n, "UNSWAPABLE")
<1>1. r = s \/ r = u \/ r = LoadImage(u, p, n)
  BY Zenon DEF LoadStep, LoadImage
<1>2. Grows(s, s) /\ Grows(s, u)
  BY GrowsReflexive, AllocPageGrows
<1> HIDE DEF u
<1>3. CASE r = LoadImage(u, p, n)
  <2>1. Shape(r) /\ r.page_id = u.page_id /\ r.kernMemCurr = u.kernMemCurr /\ r.sector = u.sector
    BY <1>2, <1>3, ImageFields DEF Grows, Raw
  <2> QED
    BY <1>2, <2>1 DEF Grows, Raw
<1> QED
  BY <1>1, <1>2, <1>3

\* and keeps the state sound.
LEMMA LoadStepSound ==
    ASSUME NEW s, Sound(s), NEW p \in Procs, NEW n \in 1 .. ImagePages,
           NEW r, r = LoadStep(s, p, n), Bounded(r)
    PROVE  /\ Sound(r) /\ Private(s, r, p)
           /\ r.panic => (s.panic /\ r = s) \/ Stuck(r, p)
<1> DEFINE u == alloc_page_helper(s, p, n, "UNSWAPABLE")
<1>1. n \in Vpns \ ShmVpns /\ n \notin HeapVpns
  BY Layout, PagingAssumption
<1>2. CASE s.panic
  <2>1. r = s
    BY <1>2 DEF LoadStep
  <2> QED
    BY <1>2, <2>1, SteadySame DEF Private
<1>3. CASE ~s.panic
  <2>1. r = IF u.panic THEN u ELSE LoadImage(u, p, n)
    BY <1>3, Zenon DEF LoadStep, LoadImage
  <2>2. Raw(s) /\ Grows(s, u) /\ Raw(u)
    BY SoundRaw, AllocPageGrows DEF Grows
  <2>3. ~u.panic => /\ Shape(r) /\ MemSet(u, r, u.pcb[p].pgdir[n].pfn, Image)
                    /\ r.page_manager = u.page_manager /\ r.page_id = u.page_id
                    /\ r.kernMemCurr = u.kernMemCurr /\ r.sector = u.sector /\ r.pcb = u.pcb
                    /\ r.sd = u.sd /\ r.shm_page_table = u.shm_page_table /\ r.panic = u.panic
    <3> HIDE DEF u
    <3> QED BY <2>1, <2>2, ImageFields DEF Raw
  <2>4. Bounded(u)
    BY <2>1, <2>3 DEF Bounded
  <2>5. /\ Sound(u) /\ Private(s, u, p)
        /\ u.panic => (s.panic /\ u = s) \/ Stuck(u, p)
    BY <1>1, <2>4, AllocPageSound
  <2> HIDE DEF u
  <2>6. CASE u.panic
    BY <2>1, <2>5, <2>6
  <2>7. CASE ~u.panic
    <3>1. MemType(u) /\ u.shm_page_table \in [ShmIds -> Shm] /\ u.panic \in BOOLEAN
      BY <2>5 DEF Sound, MemType
    <3>2. r.mem \in [Frames -> Contents]
      BY <2>3, <2>7, <3>1, MemChange DEF Contents
    <3>3. Sound(r)
      BY <2>3, <2>5, <2>7, <3>1, <3>2, SameSound
    <3>4. Private(u, r, p)
      BY <2>3, <2>7, SteadySame DEF Private, Entry
    <3>5. Private(s, r, p)
      BY <2>5, <3>4, PrivateTransitive
    <3> QED
      BY <2>3, <2>7, <3>3, <3>5
  <2> QED
    BY <2>6, <2>7
<1> QED
  BY <1>2, <1>3

\* load_task_img keeps the state sound, however long the image is.
LEMMA LoadSound ==
    ASSUME NEW s, Raw(s), NEW p \in Procs, NEW r, r = load_task_img(s, p)
    PROVE  /\ Grows(s, r)
           /\ Sound(s) /\ ~s.panic /\ Bounded(r) =>
                Sound(r) /\ Private(s, r, p) /\ (r.panic => Stuck(r, p))
<1>1. PICK g : /\ g[0] = s
               /\ \A n \in 0 .. ImagePages - 1 : g[n + 1] = LoadStep(g[n], p, n + 1)
               /\ load_task_img(s, p) = g[ImagePages]
  BY LoadRounds
<1> DEFINE Good(n) ==
             /\ Grows(s, g[n])
             /\ Sound(s) /\ ~s.panic /\ Bounded(g[n]) =>
                  Sound(g[n]) /\ Private(s, g[n], p) /\ (g[n].panic => Stuck(g[n], p))
           A == {n \in 0 .. ImagePages : Good(n)}
<1>2. ImagePages \in Nat
  BY PagingAssumption
<1>3. 0 \in A
  <2>1. Grows(s, g[0])
    BY <1>1, GrowsReflexive
  <2>2. Private(s, g[0], p)
    BY <1>1, SteadySame DEF Private
  <2> QED
    BY <1>1, <1>2, <2>1, <2>2
<1>4. ASSUME NEW n \in 0 .. ImagePages - 1, n \in A PROVE n + 1 \in A
  <2> DEFINE t == g[n]
             u == g[n + 1]
  <2>1. Grows(s, t) /\ Raw(t)
    BY <1>4 DEF Grows
  <2>2. u = LoadStep(t, p, n + 1)
    BY <1>1
  <2>3. n + 1 \in 0 .. ImagePages /\ n + 1 \in 1 .. ImagePages
    BY <1>2
  <2>4. Sound(s) /\ ~s.panic /\ Bounded(t) =>
          Sound(t) /\ Private(s, t, p) /\ (t.panic => Stuck(t, p))
    BY <1>4
  <2> HIDE DEF t, u
  <2>5. Grows(t, u)
    BY <2>1, <2>2, LoadStepGrows
  <2>6. Grows(s, u)
    BY <2>1, <2>5, GrowsTransitive
  <2>7. ASSUME Sound(s), ~s.panic, Bounded(u)
        PROVE  Sound(u) /\ Private(s, u, p) /\ (u.panic => Stuck(u, p))
    <3>1. Bounded(t)
      BY <2>1, <2>5, <2>7, BoundedBefore
    <3>2. Sound(t) /\ Private(s, t, p) /\ (t.panic => Stuck(t, p))
      BY <2>4, <2>7, <3>1
    <3>3. /\ Sound(u) /\ Private(t, u, p)
          /\ u.panic => (t.panic /\ u = t) \/ Stuck(u, p)
      BY <2>2, <2>3, <2>7, <3>2, LoadStepSound
    <3> QED
      BY <3>2, <3>3, PrivateTransitive
  <2> QED
    BY <2>3, <2>6, <2>7 DEF u
<1>5. ImagePages \in A
  <2>1. \A n \in 0 .. ImagePages : n \in A
    <3> HIDE DEF A
    <3> QED BY <1>2, <1>3, <1>4, Steps
  <2> QED
    BY <1>2, <2>1
<1> QED
  BY <1>1, <1>5

\* The PCB do_exec starts from, and the one do_exit leaves behind.
EmptyPcb(c, alive) == [NoPcb EXCEPT !.alive = alive, !.shm_page_num = c.shm_page_num]

\* The PCB that do_exec starts from is typed, and maps nothing.
LEMMA EmptyPcbTyped ==
    ASSUME NEW c \in Pcb, NEW alive \in BOOLEAN
    PROVE  LET d == EmptyPcb(c, alive) IN
           /\ d \in Pcb /\ d.alive = alive /\ d.shm_page_num = c.shm_page_num
           /\ d.pagehead = <<>> /\ Range(d.pagehead) = {}
           /\ \A u \in Vpns : d.pgdir[u] = NoPte
           /\ NoPte \in Pte /\ ~NoPte.present /\ ~NoPte.insd
<1>1. NoPte \in Pte /\ ~NoPte.present /\ ~NoPte.insd
  BY DEF NoPte, Pte
<1>2. [v \in Vpns |-> NoPte] \in [Vpns -> Pte]
  BY <1>1
<1>3. <<>> \in Seq(PageIds) /\ Range(<<>>) = {}
  BY DEF Range
<1> DEFINE z == [v \in Vpns |-> NoPte]
           e == [alive |-> FALSE, pagenum |-> 0, pagehead |-> <<>>, tables |-> {},
                 pgdir |-> z, shm_page_num |-> 0]
<1>4. 0 \in 0 .. MAX_PAGETABLE_NUM /\ c.shm_page_num \in Nat
  BY PagingAssumption DEF Pcb
<1>5. \A u \in Vpns : z[u] = NoPte
  OBVIOUS
<1>6. NoPcb = e
  BY DEF NoPcb
<1> HIDE DEF z
<1>7. e \in Pcb /\ e.pagehead = <<>> /\ e.pgdir = z
  BY <1>2, <1>3, <1>4 DEF Pcb, z
<1> HIDE DEF e
<1> DEFINE Renew(x, n) == [x EXCEPT !.alive = alive, !.shm_page_num = n]
<1>8. ASSUME NEW x \in Pcb, NEW n \in Nat
      PROVE  /\ Renew(x, n) \in Pcb /\ Renew(x, n).alive = alive /\ Renew(x, n).shm_page_num = n
             /\ Renew(x, n).pagehead = x.pagehead /\ Renew(x, n).pgdir = x.pgdir
  BY DEF Pcb
<1>9. EmptyPcb(c, alive) = Renew(e, c.shm_page_num)
  BY <1>6, Zenon DEF EmptyPcb
<1> HIDE DEF Renew
<1>10. LET d == EmptyPcb(c, alive) IN
       /\ d \in Pcb /\ d.alive = alive /\ d.shm_page_num = c.shm_page_num
       /\ d.pagehead = <<>> /\ d.pgdir = z
  BY <1>4, <1>7, <1>8, <1>9, SMTT(40)
<1>11. \A u \in Vpns : EmptyPcb(c, alive).pgdir[u] = NoPte
  BY <1>5, <1>10
<1>12. Range(EmptyPcb(c, alive).pagehead) = {}
  BY <1>3, <1>10, Zenon
<1> QED
  BY <1>1, <1>10, <1>11, <1>12, Zenon

\* A process that starts or ends keeps the state sound: its pages are on no
\* list any more.
LEMMA ResetSound ==
    ASSUME NEW s, Sound(s), NEW p \in Procs, NEW alive \in BOOLEAN, NEW r, Shape(r),
           PcbSet(s, r, p, EmptyPcb(s.pcb[p], alive)),
           r.page_manager = s.page_manager, r.page_id = s.page_id,
           r.kernMemCurr = s.kernMemCurr, r.sector = s.sector, r.mem = s.mem,
           r.sd = s.sd, r.shm_page_table = s.shm_page_table, r.panic = s.panic
    PROVE  /\ Sound(r)
           /\ r.pcb[p].alive = alive /\ r.pcb[p].shm_page_num = s.pcb[p].shm_page_num
           /\ \A u \in Vpns : Entry(r, p, u) = NoPte
           /\ \A q \in Procs : q # p => r.pcb[q] = s.pcb[q]
<1> DEFINE d == EmptyPcb(s.pcb[p], alive)
<1>1. MemType(s) /\ s.pcb[p] \in Pcb
  BY Parts DEF Sound
<1>2. /\ d \in Pcb /\ d.alive = alive /\ d.shm_page_num = s.pcb[p].shm_page_num
      /\ Range(d.pagehead) = {}
      /\ \A u \in Vpns : d.pgdir[u] = NoPte
      /\ ~NoPte.present /\ ~NoPte.insd
  BY <1>1, EmptyPcbTyped
<1> HIDE DEF d
<1>3. /\ r.pcb \in [Procs -> Pcb] /\ r.pcb[p] = d
      /\ \A q \in Procs : q # p => r.pcb[q] = s.pcb[q]
  BY <1>1, <1>2, PcbChange DEF d
<1>4. Own(r, p) = {} /\ \A q \in Procs : q # p => Own(r, q) = Own(s, q)
  BY <1>2, <1>3 DEF Own
<1>5. \A u \in Vpns : Entry(r, p, u) = NoPte
  BY <1>2, <1>3 DEF Entry
<1>6. /\ s.page_manager \in [PageIds -> Page] /\ s.page_id \in 0 .. PAGE_NUM
      /\ s.kernMemCurr \in 1 .. PAGE_NUM + 1 /\ s.sector \in 0 .. MaxSector
      /\ s.mem \in [Frames -> Contents] /\ s.sd \in [0 .. MaxSector - 1 -> Contents]
      /\ s.shm_page_table \in [ShmIds -> Shm] /\ s.panic \in BOOLEAN
  BY <1>1 DEF MemType
<1>7. MemType(r)
  BY <1>3, <1>6, ShapeHasType
<1>8. PoolInv(r)
  BY DEF Sound, PoolInv
<1>9. Disjoint(r)
  BY <1>4 DEF Sound, Disjoint
<1>10. ASSUME NEW q \in Procs, q # p PROVE OwnInv(r, q) /\ EntryInv(r, q)
  <2>1. OwnInv(s, q) /\ EntryInv(s, q)
    BY DEF Sound
  <2>2. r.page_id \in Int /\ r.page_id >= s.page_id /\ r.sector \in Int /\ r.sector >= s.sector
    BY <1>6
  <2> QED
    BY <1>1, <1>3, <1>10, <2>1, <2>2, Others
<1>11. OwnInv(r, p)
  BY <1>4 DEF OwnInv
<1>12. EntryInv(r, p)
  BY <1>2, <1>5 DEF EntryInv
<1> QED
  BY <1>2, <1>3, <1>5, <1>7, <1>8, <1>9, <1>10, <1>11, <1>12 DEF Sound

\* What clearing a frame does to the fields.
LEMMA ClearFields ==
    ASSUME NEW u, Shape(u), NEW f, NEW r, r = clear_pgdir(u, f)
    PROVE  /\ Shape(r) /\ MemSet(u, r, f, Zero)
           /\ r.page_manager = u.page_manager /\ r.page_id = u.page_id
           /\ r.kernMemCurr = u.kernMemCurr /\ r.sector = u.sector /\ r.pcb = u.pcb
           /\ r.sd = u.sd /\ r.shm_page_table = u.shm_page_table /\ r.panic = u.panic
  BY DEF clear_pgdir, Shape, Fields, MemSet

\* Clearing a frame keeps the state sound.
LEMMA ClearSound ==
    ASSUME NEW u, Sound(u), NEW f, NEW r, r = clear_pgdir(u, f)
    PROVE  Sound(r)
<1>1. MemType(u) /\ Shape(u) /\ u.shm_page_table \in [ShmIds -> Shm] /\ u.panic \in BOOLEAN
  BY TypeHasShape DEF Sound, MemType
<1>2. /\ Shape(r) /\ MemSet(u, r, f, Zero)
      /\ r.page_manager = u.page_manager /\ r.page_id = u.page_id
      /\ r.kernMemCurr = u.kernMemCurr /\ r.sector = u.sector /\ r.pcb = u.pcb
      /\ r.sd = u.sd /\ r.shm_page_table = u.shm_page_table /\ r.panic = u.panic
  BY <1>1, ClearFields
<1>3. r.mem \in [Frames -> Contents]
  BY <1>1, <1>2, MemChange DEF Contents
<1> QED
  BY <1>1, <1>2, <1>3, SameSound

\* do_exec: the new program has none of the segments its PCB's last program
\* attached, and its memory is sound.
LEMMA ExecSound ==
    ASSUME NEW s, Sound(s), ~s.panic, NEW p \in Procs, NEW r, r = exec_memory(s, p), Bounded(r)
    PROVE  /\ Sound(r) /\ Steady(s, r)
           /\ \A q \in Procs : q # p => r.pcb[q] = s.pcb[q]
           /\ r.pcb[p].alive /\ r.pcb[p].shm_page_num = s.pcb[p].shm_page_num
           /\ r.shm_page_table = s.shm_page_table
           /\ \A u \in ShmVpns : ~Entry(r, p, u).present
           /\ r.panic => Stuck(r, p)
<1> DEFINE s0 == [s EXCEPT !.pcb[p] = EmptyPcb(s.pcb[p], TRUE)]
           a1 == allocPagetable(s0, p, "UNSWAPABLE")
           s1 == clear_pgdir(a1, new_kva(s0, p))
           s2 == allocPagetable(s1, p, "UNSWAPABLE")
           s3 == alloc_page_helper(s2, p, StackVpn, "UNSWAPABLE")
<1>1. r = IF s3.panic THEN s3 ELSE load_task_img(s3, p)
  BY Zenon DEF exec_memory, EmptyPcb
<1>2. Raw(s) /\ Shape(s)
  BY SoundRaw DEF Raw
<1>3. /\ Shape(s0) /\ PcbSet(s, s0, p, EmptyPcb(s.pcb[p], TRUE))
      /\ s0.page_manager = s.page_manager /\ s0.page_id = s.page_id
      /\ s0.kernMemCurr = s.kernMemCurr /\ s0.sector = s.sector /\ s0.mem = s.mem
      /\ s0.sd = s.sd /\ s0.shm_page_table = s.shm_page_table /\ s0.panic = s.panic
  BY <1>2 DEF Shape, Fields, PcbSet
<1> HIDE DEF s0
<1>4. /\ Sound(s0)
      /\ s0.pcb[p].alive /\ s0.pcb[p].shm_page_num = s.pcb[p].shm_page_num
      /\ \A u \in Vpns : Entry(s0, p, u) = NoPte
      /\ \A q \in Procs : q # p => s0.pcb[q] = s.pcb[q]
  <2>1. /\ Sound(s0)
        /\ s0.pcb[p].alive = TRUE /\ s0.pcb[p].shm_page_num = s.pcb[p].shm_page_num
        /\ \A u \in Vpns : Entry(s0, p, u) = NoPte
        /\ \A q \in Procs : q # p => s0.pcb[q] = s.pcb[q]
    <3> DEFINE alive == TRUE
    <3>1. alive \in BOOLEAN /\ PcbSet(s, s0, p, EmptyPcb(s.pcb[p], alive))
      BY <1>3
    <3> HIDE DEF alive
    <3>2. /\ Sound(s0)
          /\ s0.pcb[p].alive = alive /\ s0.pcb[p].shm_page_num = s.pcb[p].shm_page_num
          /\ \A u \in Vpns : Entry(s0, p, u) = NoPte
          /\ \A q \in Procs : q # p => s0.pcb[q] = s.pcb[q]
      BY <1>3, <3>1, ResetSound
    <3> QED
      BY <3>2 DEF alive
  <2> QED
    BY <2>1
<1>5. Raw(s0) /\ Grows(s0, a1) /\ Raw(a1)
  BY <1>4, SoundRaw, AllocGrows DEF Grows
<1>6. /\ Shape(s1)
      /\ s1.page_manager = a1.page_manager /\ s1.page_id = a1.page_id
      /\ s1.kernMemCurr = a1.kernMemCurr /\ s1.sector = a1.sector /\ s1.pcb = a1.pcb
      /\ s1.shm_page_table = a1.shm_page_table /\ s1.panic = a1.panic
  <2> HIDE DEF a1
  <2> QED BY <1>5, ClearFields DEF Raw
<1>7. Raw(s1) /\ (Bounded(s1) => Bounded(a1))
  <2> HIDE DEF a1, s1
  <2> QED BY <1>5, <1>6 DEF Raw, Bounded
<1>8. Grows(s1, s2) /\ Raw(s2)
  <2> HIDE DEF s1
  <2> QED BY <1>7, AllocGrows DEF Grows
<1>9. Grows(s2, s3) /\ Raw(s3)
  <2> HIDE DEF s2
  <2> QED BY <1>8, AllocPageGrows DEF Grows
<1>10. Grows(s3, r)
  <2> HIDE DEF s3
  <2> QED BY <1>1, <1>9, LoadSound, GrowsReflexive
<1>11. Bounded(s3) /\ Bounded(s2) /\ Bounded(s1) /\ Bounded(a1)
  <2>1. Bounded(s3)
    BY <1>9, <1>10, BoundedBefore
  <2>2. Bounded(s2)
    BY <1>8, <1>9, <2>1, BoundedBefore
  <2>3. Bounded(s1)
    BY <1>7, <1>8, <2>2, BoundedBefore
  <2> QED
    BY <1>7, <2>1, <2>2, <2>3
<1>12. /\ Sound(a1) /\ Keeps(s0, a1, p)
       /\ a1.panic => s0.panic \/ Stuck(a1, p)
  BY <1>4, <1>11, AllocSound
<1>13. Sound(s1)
  <2> HIDE DEF a1
  <2> QED BY <1>12, ClearSound
<1> HIDE DEF a1
<1>14. Private(s0, s1, p) /\ (s1.panic => Stuck(s1, p))
  <2>1. Private(s0, a1, p)
    BY <1>12, KeepsPrivate
  <2>2. Stuck(s1, p) <=> Stuck(a1, p)
    BY <1>6 DEF Stuck, Full, CanSwap, With
  <2>3. Steady(s0, s1)
    BY <1>6, <2>1, SteadySame, SteadyTransitive DEF Private
  <2> QED
    BY <1>3, <1>6, <1>12, <2>1, <2>2, <2>3 DEF Private, Entry
<1> HIDE DEF s1
<1>15. /\ Sound(s2) /\ Keeps(s1, s2, p)
       /\ s2.panic => s1.panic \/ Stuck(s2, p)
       /\ Stuck(s1, p) => s2 = Panic(s1)
  BY <1>11, <1>13, AllocSound
<1> HIDE DEF s2
<1>16. s2.panic => Stuck(s2, p)
  <2>1. ASSUME Stuck(s1, p) PROVE Stuck(s2, p)
    <3>1. s2.pcb = s1.pcb /\ s2.page_manager = s1.page_manager
      BY <1>7, <1>15, <2>1, PanicFields DEF Raw
    <3> QED
      BY <2>1, <3>1 DEF Stuck, Full, CanSwap, With
  <2> QED
    BY <1>14, <1>15, <2>1
<1>17. StackVpn \in Vpns \ ShmVpns /\ StackVpn \notin HeapVpns
  BY Layout, PagingAssumption
<1>18. /\ Sound(s3) /\ Private(s2, s3, p)
       /\ s3.panic => (s2.panic /\ s3 = s2) \/ Stuck(s3, p)
  BY <1>11, <1>15, <1>17, AllocPageSound
<1> HIDE DEF s3
<1>19. Private(s0, s3, p) /\ (s3.panic => Stuck(s3, p))
  BY <1>14, <1>15, <1>16, <1>18, KeepsPrivate, PrivateTransitive
<1>20. Sound(r) /\ Private(s0, r, p) /\ (r.panic => Stuck(r, p))
  <2>1. CASE s3.panic
    BY <1>1, <1>18, <1>19, <2>1
  <2>2. CASE ~s3.panic
    <3>1. Sound(r) /\ Private(s3, r, p) /\ (r.panic => Stuck(r, p))
      BY <1>1, <1>9, <1>18, <2>2, LoadSound
    <3> QED
      BY <1>19, <3>1, PrivateTransitive
  <2> QED
    BY <2>1, <2>2
<1>21. \A u \in ShmVpns : ~Entry(r, p, u).present
  <2>1. \A u \in ShmVpns : Entry(r, p, u) = NoPte
    BY <1>4, <1>20, Layout DEF Private
  <2> QED
    BY <2>1 DEF NoPte
<1>22. Steady(s, r)
  BY <1>3, <1>20, SteadySame, SteadyTransitive DEF Private
<1> QED
  BY <1>3, <1>4, <1>20, <1>21, <1>22 DEF Private

-----------------------------------------------------------------------------
(* Swapping in *)

PteBack(e, f) == [e EXCEPT !.insd = ~e.insd, !.present = TRUE, !.pfn = f]
PageBack(page, v, f) == [page EXCEPT !.status = "SWAPABLE", !.uva = v, !.kva = f]

\* The entry and the page that swap_to_mem leaves behind.
LEMMA BackTyped ==
    ASSUME NEW f \in Nat
    PROVE  /\ \A e \in Pte : e.insd => LET d == PteBack(e, f) IN
                d \in Pte /\ ~d.insd /\ d.present /\ d.pfn = f
           /\ \A page \in Page, v \in Vpns : LET d == PageBack(page, v, f) IN
                /\ d \in Page /\ d.pte = page.pte /\ d.uva = v
                /\ d.status = "SWAPABLE" /\ d.kva = f
<1>1. ASSUME NEW e \in Pte, e.insd
      PROVE  LET d == PteBack(e, f) IN d \in Pte /\ ~d.insd /\ d.present /\ d.pfn = f
  BY <1>1 DEF Pte, PteBack
<1>2. ASSUME NEW page \in Page, NEW v \in Vpns
      PROVE  LET d == PageBack(page, v, f) IN
             /\ d \in Page /\ d.pte = page.pte /\ d.uva = v
             /\ d.status = "SWAPABLE" /\ d.kva = f
  BY DEF Page, PageBack, Statuses
<1> QED
  BY <1>1, <1>2

\* What swap_to_mem does when it finds the page i on the card.
SwapBack(s, p, v, f, i) ==
    [s EXCEPT !.page_manager[i] = [@ EXCEPT !.status = "SWAPABLE", !.uva = v, !.kva = f],
              !.mem[f] = s.sd[s.pcb[p].pgdir[v].pfn],
              !.pcb[p].pgdir[v] = [@ EXCEPT !.insd = ~s.pcb[p].pgdir[v].insd,
                                            !.present = TRUE, !.pfn = f]]

\* What reading a page back from the card does to the fields.
LEMMA SwapBackFields ==
    ASSUME NEW s, Shape(s), NEW p, NEW v, NEW f, NEW i, NEW r, r = SwapBack(s, p, v, f, i)
    PROVE  /\ Shape(r)
           /\ PageSet(s, r, i, PageBack(s.page_manager[i], v, f))
           /\ EntrySet(s, r, p, v, PteBack(Entry(s, p, v), f))
           /\ MemSet(s, r, f, s.sd[Entry(s, p, v).pfn])
           /\ r.page_id = s.page_id /\ r.kernMemCurr = s.kernMemCurr /\ r.sector = s.sector
           /\ r.sd = s.sd /\ r.shm_page_table = s.shm_page_table /\ r.panic = s.panic
<1>1. PageSet(s, r, i, PageBack(s.page_manager[i], v, f))
  BY DEF SwapBack, Shape, Fields, PageSet, PageBack
<1>2. EntrySet(s, r, p, v, PteBack(Entry(s, p, v), f))
  BY DEF SwapBack, Shape, Fields, EntrySet, PteBack, Entry
<1>3. MemSet(s, r, f, s.sd[Entry(s, p, v).pfn])
  BY SMTT(40) DEF SwapBack, Shape, Fields, MemSet, Entry
<1>4. /\ Shape(r)
      /\ r.page_id = s.page_id /\ r.kernMemCurr = s.kernMemCurr /\ r.sector = s.sector
      /\ r.sd = s.sd /\ r.shm_page_table = s.shm_page_table /\ r.panic = s.panic
  BY DEF SwapBack, Shape, Fields
<1> QED
  BY <1>1, <1>2, <1>3, <1>4

\* swap_to_mem finds the page it brings back, and it is on the card.
LEMMA SwappedFound ==
    ASSUME NEW s, Sound(s), NEW p \in Procs, NEW v \in Vpns, Entry(s, p, v).insd
    PROVE  LET i == SwappedPage(s, p, v) IN
           /\ i \in Own(s, p) /\ i \in PageIds
           /\ s.page_manager[i].pte = v /\ OnCard(s, p, i)
<1>1. PICK k \in Own(s, p) : s.page_manager[k].pte = v /\ OnCard(s, p, k)
  BY CardIsHeap
<1>2. MemType(s) /\ OwnInv(s, p) /\ Own(s, p) \subseteq PageIds /\ v # NoVa
  BY Parts, Layout DEF Sound
<1>3. s.pcb[p].pagehead \in Seq(PageIds)
  BY <1>2, Parts DEF Pcb
<1> DEFINE ok == {j \in PageIds : s.page_manager[j].pte = v}
<1>4. k \in ok /\ \A j \in ok : s.page_manager[j].pte = v
  BY <1>1, <1>2
<1>5. SwappedPage(s, p, v) = FirstOf(s.pcb[p].pagehead, ok)
  BY DEF SwappedPage
<1> HIDE DEF ok
<1>6. Range(s.pcb[p].pagehead) \cap ok # {}
  BY <1>1, <1>4 DEF Own
<1>7. SwappedPage(s, p, v) \in Range(s.pcb[p].pagehead) \cap ok
  BY <1>3, <1>5, <1>6, FirstOfMember
<1>8. SwappedPage(s, p, v) \in Own(s, p) /\ s.page_manager[SwappedPage(s, p, v)].pte = v
  BY <1>4, <1>7 DEF Own
<1>9. SwappedPage(s, p, v) = k
  BY <1>1, <1>2, <1>8 DEF OwnInv
<1> QED
  BY <1>1, <1>2, <1>8, <1>9

\* swap_to_mem finds its page on the card and gives it the frame it is passed.
LEMMA SwapIn ==
    ASSUME NEW s, Sound(s), ~s.panic, NEW p \in Procs, NEW v \in Vpns, Entry(s, p, v).insd,
           NEW f, Free(s, f), NEW r, r = swap_to_mem(s, p, v, f)
    PROVE  Sound(r) /\ Private(s, r, p) /\ ~r.panic
<1> DEFINE i == SwappedPage(s, p, v)
<1>1. i \in Own(s, p) /\ i \in PageIds /\ s.page_manager[i].pte = v /\ OnCard(s, p, i)
  BY SwappedFound
<1>2. s.page_manager[i].status = "NOT_IN_MEM" /\ s.page_manager[i].kva = 0
      /\ ~Entry(s, p, v).present /\ v \in HeapVpns
  BY <1>1 DEF OnCard
<1>3. r = SwapBack(s, p, v, f, i)
  BY <1>2, Zenon DEF swap_to_mem, SwapBack
<1>4. MemType(s) /\ Shape(s) /\ PoolInv(s) /\ Disjoint(s)
      /\ \A q \in Procs : OwnInv(s, q) /\ EntryInv(s, q)
  BY TypeHasShape DEF Sound
<1>5. f \in Nat \ {0} /\ f < s.kernMemCurr
      /\ \A j \in PageIds : s.page_manager[j].kva # f /\ s.page_manager[j].kva \in Nat
  BY <1>4, Parts DEF Free
<1>6. /\ s.page_id \in 0 .. PAGE_NUM /\ s.kernMemCurr \in 1 .. PAGE_NUM + 1
      /\ s.sector \in 0 .. MaxSector /\ s.sd \in [0 .. MaxSector - 1 -> Contents]
      /\ s.page_manager \in [PageIds -> Page]
      /\ s.shm_page_table \in [ShmIds -> Shm] /\ s.panic \in BOOLEAN
  BY <1>4 DEF MemType
<1>7. v \notin ShmVpns /\ v # NoVa /\ Walks(s, p, v)
  BY <1>2, <1>4, Layout DEF EntryInv
<1> HIDE DEF i
<1> DEFINE e == PteBack(Entry(s, p, v), f)
           page == PageBack(s.page_manager[i], v, f)
<1>8. /\ Shape(r) /\ PageSet(s, r, i, page) /\ EntrySet(s, r, p, v, e)
      /\ MemSet(s, r, f, s.sd[Entry(s, p, v).pfn])
      /\ r.page_id = s.page_id /\ r.kernMemCurr = s.kernMemCurr /\ r.sector = s.sector
      /\ r.sd = s.sd /\ r.shm_page_table = s.shm_page_table /\ r.panic = s.panic
  BY <1>3, <1>4, SwapBackFields
<1>9. Entry(s, p, v) \in Pte
  BY <1>4, Parts
<1>10. e \in Pte /\ ~e.insd /\ e.present /\ e.pfn = f
  BY <1>5, <1>9, BackTyped
<1>11. /\ page \in Page /\ page.pte = v /\ page.uva = v /\ page.status = "SWAPABLE"
       /\ page.kva = f
  <2>1. s.page_manager[i] \in Page
    BY <1>1, <1>6
  <2> QED
    BY <1>1, <1>5, <2>1, BackTyped
<1> HIDE DEF e, page
<1>12. /\ r.pcb \in [Procs -> Pcb] /\ Entry(r, p, v) = e
       /\ \A u \in Vpns : u # v => Entry(r, p, u) = Entry(s, p, u)
       /\ \A q \in Procs : q # p => r.pcb[q] = s.pcb[q]
       /\ \A q \in Procs : Own(r, q) = Own(s, q)
       /\ \A q \in Procs : \A u : Walks(r, q, u) <=> Walks(s, q, u)
       /\ \A q \in Procs : Full(r, q) <=> Full(s, q)
       /\ r.pcb[p].alive = s.pcb[p].alive /\ r.pcb[p].shm_page_num = s.pcb[p].shm_page_num
  BY <1>4, <1>8, <1>10, EntryChange
<1>13. /\ r.page_manager \in [PageIds -> Page] /\ r.page_manager[i] = page
       /\ \A j \in PageIds : j # i => r.page_manager[j] = s.page_manager[j]
  BY <1>1, <1>4, <1>8, <1>11, PageChange
<1>14. MemType(r)
  <2>1. Entry(s, p, v).pfn \in 0 .. MaxSector - 1
    <3>1. Entry(s, p, v).pfn \in Nat
      BY <1>9 DEF Pte
    <3>2. Entry(s, p, v).pfn < s.sector
      BY <1>4 DEF EntryInv
    <3> QED
      BY <1>6, <3>1, <3>2, PagingAssumption
  <2>2. s.sd[Entry(s, p, v).pfn] \in Contents
    BY <1>6, <2>1
  <2>3. r.mem \in [Frames -> Contents]
    BY <1>4, <1>8, <2>2, MemChange
  <2> QED
    BY <1>6, <1>8, <1>12, <1>13, <2>3, ShapeHasType
<1>15. PoolInv(r)
  <2>1. i < s.page_id /\ i \in Int
    BY <1>1, <1>4 DEF OwnInv, PageIds
  <2>2. ASSUME NEW j \in PageIds
        PROVE  /\ j >= r.page_id => r.page_manager[j] = UnusedPage
               /\ j < r.page_id => r.page_manager[j].status # "UNUSED"
               /\ r.page_manager[j].kva < r.kernMemCurr
    <3>1. /\ j >= s.page_id => s.page_manager[j] = UnusedPage
          /\ j < s.page_id => s.page_manager[j].status # "UNUSED"
          /\ s.page_manager[j].kva < s.kernMemCurr
      BY <1>4 DEF PoolInv
    <3> QED
      BY <1>5, <1>6, <1>8, <1>11, <1>13, <2>1, <3>1
  <2>3. ASSUME NEW j \in PageIds, NEW k \in PageIds, j # k, r.page_manager[j].kva # 0
        PROVE  r.page_manager[j].kva # r.page_manager[k].kva
    <3>1. s.page_manager[j].kva # 0 => s.page_manager[j].kva # s.page_manager[k].kva
      BY <1>4, <2>3 DEF PoolInv
    <3> QED
      BY <1>5, <1>11, <1>13, <2>3, <3>1
  <2> QED
    BY <2>2, <2>3 DEF PoolInv
<1>16. Disjoint(r)
  BY <1>4, <1>12 DEF Disjoint
<1>17. ASSUME NEW q \in Procs, q # p PROVE OwnInv(r, q) /\ EntryInv(r, q)
  <2>1. i \notin Own(s, q)
    BY <1>1, <1>4, <1>17 DEF Disjoint
  <2>2. \A j \in Own(s, q) : r.page_manager[j] = s.page_manager[j]
    BY <2>1, <1>4, <1>13, Parts
  <2>3. r.page_id \in Int /\ r.page_id >= s.page_id /\ r.sector \in Int /\ r.sector >= s.sector
    BY <1>6, <1>8
  <2> QED
    BY <1>4, <1>12, <1>17, <2>2, <2>3, Others
<1>18. OwnInv(r, p)
  <2>1. \A j \in Own(s, p) : j # i /\ s.page_manager[j].pte # NoVa => s.page_manager[j].pte # v
    BY <1>1, <1>4, <1>7 DEF OwnInv
  <2>2. \A j \in Own(s, p) : j \in PageIds
    BY <1>4, Parts
  <2>3. InMemory(r, p, i)
    BY <1>5, <1>10, <1>11, <1>12, <1>13 DEF InMemory
  <2>4. ASSUME NEW j \in Own(s, p), j # i, s.page_manager[j].pte # NoVa
        PROVE  /\ s.page_manager[j].pte \in Vpns \ ShmVpns
               /\ InMemory(r, p, j) \/ OnCard(r, p, j)
    <3>1. s.page_manager[j].pte \in Vpns \ ShmVpns /\ (InMemory(s, p, j) \/ OnCard(s, p, j))
      BY <1>4, <2>4 DEF OwnInv
    <3>2. Entry(r, p, s.page_manager[j].pte) = Entry(s, p, s.page_manager[j].pte)
      BY <1>12, <2>1, <2>4, <3>1
    <3>3. r.page_manager[j] = s.page_manager[j]
      BY <1>13, <2>2, <2>4
    <3> QED
      BY <3>1, <3>2, <3>3 DEF InMemory, OnCard
  <2>5. \A j \in Own(s, p) : j # i => r.page_manager[j] = s.page_manager[j]
    BY <1>13, <2>2
  <2>6. \A j \in Own(s, p) :
          /\ j < s.page_id
          /\ s.page_manager[j].status = "SWAPABLE" =>
               s.page_manager[j].uva \in HeapVpns /\ s.page_manager[j].pte = s.page_manager[j].uva
    BY <1>4 DEF OwnInv
  <2>7. \A j, k \in Own(s, p) :
         s.page_manager[j].pte # NoVa /\ s.page_manager[j].pte = s.page_manager[k].pte => j = k
    BY <1>4 DEF OwnInv
  <2>8. \A j \in Own(r, p) :
         /\ j < r.page_id
         /\ r.page_manager[j].status = "SWAPABLE" =>
              r.page_manager[j].uva \in HeapVpns /\ r.page_manager[j].pte = r.page_manager[j].uva
         /\ r.page_manager[j].pte # NoVa =>
              /\ r.page_manager[j].pte \in Vpns \ ShmVpns
              /\ InMemory(r, p, j) \/ OnCard(r, p, j)
    BY <1>2, <1>7, <1>8, <1>11, <1>12, <1>13, <2>3, <2>4, <2>5, <2>6
  <2>9. \A j, k \in Own(r, p) :
         r.page_manager[j].pte # NoVa /\ r.page_manager[j].pte = r.page_manager[k].pte => j = k
    BY <1>11, <1>12, <1>13, <2>1, <2>5, <2>7
  <2> QED
    BY <2>8, <2>9 DEF OwnInv
<1>19. EntryInv(r, p)
  <2>1. ASSUME NEW u \in Vpns, u # v
        PROVE  /\ Entry(r, p, u).present \/ Entry(r, p, u).insd => Walks(r, p, u)
               /\ Entry(r, p, u).insd => /\ ~Entry(r, p, u).present /\ Full(r, p)
                                         /\ Entry(r, p, u).pfn < r.sector
               /\ Entry(r, p, u).insd \/ (Entry(r, p, u).present /\ u \notin ShmVpns) =>
                    \E j \in Own(r, p) : r.page_manager[j].pte = u
    <3>1. Entry(s, p, u).insd \/ (Entry(s, p, u).present /\ u \notin ShmVpns) =>
            \E j \in Own(s, p) : j \in PageIds /\ j # i /\ s.page_manager[j].pte = u
      BY <1>1, <1>4, <2>1, Parts DEF EntryInv
    <3>2. Entry(r, p, u) = Entry(s, p, u)
      BY <1>12, <2>1
    <3>3. Entry(s, p, u).insd => /\ Entry(s, p, u).pfn < s.sector
                                 /\ ~Entry(s, p, u).present /\ Full(s, p)
      BY <1>4 DEF EntryInv
    <3>4. Entry(s, p, u).present \/ Entry(s, p, u).insd => Walks(s, p, u)
      BY <1>4 DEF EntryInv
    <3> QED
      BY <1>8, <1>12, <1>13, <3>1, <3>2, <3>3, <3>4
  <2> QED
    BY <1>1, <1>7, <1>10, <1>11, <1>12, <1>13, <2>1 DEF EntryInv
<1>20. Private(s, r, p)
  <2>1. Steady(s, r)
    BY <1>1, <1>7, <1>8, <1>13 DEF Steady
  <2> QED
    BY <1>7, <1>8, <1>12, <2>1, Layout DEF Private
<1> QED
  BY <1>8, <1>14, <1>15, <1>16, <1>17, <1>18, <1>19, <1>20 DEF Sound

-----------------------------------------------------------------------------
(* Shared pages *)

\* A change of an entry of an attached segment, and of the table of segments,
\* keeps the state sound.
LEMMA ShmEntrySound ==
    ASSUME NEW s, Sound(s), NEW p \in Procs, NEW v \in ShmVpns, NEW e \in Pte,
           ~e.insd, e.present => Walks(s, p, v),
           NEW r, Shape(r), EntrySet(s, r, p, v, e),
           r.page_manager = s.page_manager, r.page_id = s.page_id,
           r.kernMemCurr = s.kernMemCurr, r.sector = s.sector,
           r.mem \in [Frames -> Contents], r.sd = s.sd,
           r.shm_page_table \in [ShmIds -> Shm], r.panic \in BOOLEAN
    PROVE  /\ Sound(r)
           /\ \A q \in Procs : q # p => r.pcb[q] = s.pcb[q]
           /\ r.pcb[p].alive = s.pcb[p].alive /\ r.pcb[p].shm_page_num = s.pcb[p].shm_page_num
           /\ Entry(r, p, v) = e
           /\ \A u \in Vpns : u # v => Entry(r, p, u) = Entry(s, p, u)
<1>1. MemType(s) /\ OwnInv(s, p) /\ EntryInv(s, p) /\ v \in Vpns
  BY Layout DEF Sound
<1>2. /\ r.pcb \in [Procs -> Pcb] /\ Entry(r, p, v) = e
      /\ \A u \in Vpns : u # v => Entry(r, p, u) = Entry(s, p, u)
      /\ \A q \in Procs : q # p => r.pcb[q] = s.pcb[q]
      /\ \A q \in Procs : Own(r, q) = Own(s, q)
      /\ \A q \in Procs : \A u : Walks(r, q, u) <=> Walks(s, q, u)
      /\ \A q \in Procs : Full(r, q) <=> Full(s, q)
      /\ r.pcb[p].alive = s.pcb[p].alive /\ r.pcb[p].shm_page_num = s.pcb[p].shm_page_num
  BY <1>1, EntryChange
<1>3. /\ s.page_manager \in [PageIds -> Page] /\ s.page_id \in 0 .. PAGE_NUM
      /\ s.kernMemCurr \in 1 .. PAGE_NUM + 1 /\ s.sector \in 0 .. MaxSector
      /\ s.sd \in [0 .. MaxSector - 1 -> Contents]
  BY <1>1 DEF MemType
<1>4. MemType(r)
  BY <1>2, <1>3, ShapeHasType
<1>5. PoolInv(r) /\ Disjoint(r)
  BY <1>2 DEF Sound, PoolInv, Disjoint
<1>6. ASSUME NEW q \in Procs, q # p PROVE OwnInv(r, q) /\ EntryInv(r, q)
  <2>1. OwnInv(s, q) /\ EntryInv(s, q)
    BY DEF Sound
  <2>2. r.page_id \in Int /\ r.page_id >= s.page_id /\ r.sector \in Int /\ r.sector >= s.sector
    BY <1>3
  <2> QED
    BY <1>1, <1>2, <1>6, <2>1, <2>2, Others
<1>7. OwnInv(r, p)
  <2>1. \A i \in Own(s, p) : s.page_manager[i].pte # NoVa =>
          Entry(r, p, s.page_manager[i].pte) = Entry(s, p, s.page_manager[i].pte)
    BY <1>1, <1>2 DEF OwnInv
  <2> QED
    BY <1>1, <1>2, <2>1 DEF OwnInv, InMemory, OnCard
<1>8. EntryInv(r, p)
  BY <1>1, <1>2 DEF EntryInv
<1> QED
  BY <1>2, <1>4, <1>5, <1>6, <1>7, <1>8 DEF Sound

\* build_page_helper lets no counter shrink.
LEMMA BuildGrows ==
    ASSUME NEW s, Raw(s), NEW p, NEW v, NEW f, NEW r, r = build_page_helper(s, p, v, f)
    PROVE  Grows(s, r)
<1> DEFINE t == alloc_tables(s, p, v)
<1>1. Grows(s, t) /\ Raw(t)
  BY AllocTablesGrows DEF Grows
<1>2. r = t \/ r = map_page(t, p, v, f)
  BY DEF build_page_helper
<1> HIDE DEF t
<1>3. CASE r = map_page(t, p, v, f)
  <2>1. Shape(r) /\ r.page_id = t.page_id /\ r.kernMemCurr = t.kernMemCurr /\ r.sector = t.sector
    BY <1>1, <1>3, MapFields DEF Raw
  <2> QED
    BY <1>1, <2>1 DEF Grows, Raw
<1> QED
  BY <1>1, <1>2, <1>3

\* build_page_helper maps the frame of a segment, unless the page is mapped.
LEMMA BuildSound ==
    ASSUME NEW s, Sound(s), NEW p \in Procs, NEW v \in ShmVpns, NEW f \in Nat,
           NEW r, r = build_page_helper(s, p, v, f), Bounded(r)
    PROVE  /\ Sound(r) /\ Steady(s, r)
           /\ \A q \in Procs : q # p => r.pcb[q] = s.pcb[q]
           /\ r.pcb[p].alive = s.pcb[p].alive /\ r.pcb[p].shm_page_num = s.pcb[p].shm_page_num
           /\ r.shm_page_table = s.shm_page_table
           /\ \A u \in ShmVpns : u # v => Entry(r, p, u) = Entry(s, p, u)
           /\ Entry(r, p, v) = Entry(s, p, v) \/ (~r.panic /\ Entry(r, p, v).pfn = f)
           /\ r.panic => (s.panic /\ r = s) \/ Stuck(r, p)
           /\ ~r.panic => ~s.panic
<1> DEFINE t == alloc_tables(s, p, v)
<1>1. v \in Vpns /\ v \notin HeapVpns
  BY Layout
<1>2. r = IF t.panic \/ Entry(t, p, v).present THEN t ELSE map_page(t, p, v, f)
  BY DEF build_page_helper, Entry
<1>3. Raw(s) /\ Grows(s, t) /\ Raw(t)
  BY SoundRaw, AllocTablesGrows DEF Grows
<1>4. Bounded(t)
  <2>1. CASE r = t
    BY <2>1
  <2>2. CASE r = map_page(t, p, v, f)
    <3> HIDE DEF t
    <3>1. r.page_id = t.page_id /\ r.kernMemCurr = t.kernMemCurr /\ r.sector = t.sector
      BY <1>3, <2>2, MapFields DEF Raw
    <3> QED
      BY <3>1 DEF Bounded
  <2> QED
    BY <1>2, <2>1, <2>2
<1>5. /\ Sound(t) /\ Keeps(s, t, p)
      /\ t.panic => (s.panic /\ t = s) \/ Stuck(t, p)
      /\ ~t.panic => Walks(t, p, v) /\ ~s.panic
  BY <1>1, <1>4, AllocTables
<1>6. Private(s, t, p)
  BY <1>5, KeepsPrivate
<1> HIDE DEF t
<1>7. CASE t.panic \/ Entry(t, p, v).present
  <2>1. r = t
    BY <1>2, <1>7
  <2> QED
    BY <1>5, <1>6, <2>1 DEF Private
<1>8. CASE ~t.panic /\ ~Entry(t, p, v).present
  <2>1. r = map_page(t, p, v, f)
    BY <1>2, <1>8
  <2> DEFINE e == PteIn(Entry(t, p, v), f)
  <2>2. /\ Shape(r) /\ EntrySet(t, r, p, v, e)
        /\ r.page_manager = t.page_manager /\ r.page_id = t.page_id
        /\ r.kernMemCurr = t.kernMemCurr /\ r.sector = t.sector /\ r.mem = t.mem
        /\ r.sd = t.sd /\ r.shm_page_table = t.shm_page_table /\ r.panic = t.panic
    BY <1>3, <2>1, MapFields DEF Raw
  <2>3. /\ MemType(t) /\ t.mem \in [Frames -> Contents]
        /\ t.shm_page_table \in [ShmIds -> Shm] /\ t.panic \in BOOLEAN
    BY <1>5 DEF Sound, MemType
  <2>4. ~Entry(t, p, v).insd
    BY <1>1, <1>5, CardIsHeap
  <2>5. e \in Pte /\ ~e.insd /\ e.pfn = f
    BY <1>1, <2>3, <2>4, Parts, PteInTyped
  <2> HIDE DEF e
  <2>6. /\ Sound(r)
        /\ \A q \in Procs : q # p => r.pcb[q] = t.pcb[q]
        /\ r.pcb[p].alive = t.pcb[p].alive /\ r.pcb[p].shm_page_num = t.pcb[p].shm_page_num
        /\ Entry(r, p, v) = e
        /\ \A u \in Vpns : u # v => Entry(r, p, u) = Entry(t, p, u)
    BY <1>5, <1>8, <2>2, <2>3, <2>5, ShmEntrySound
  <2>7. Steady(s, r)
    BY <1>6, <2>2, SteadySame, SteadyTransitive DEF Private
  <2> QED
    BY <1>5, <1>6, <1>8, <2>2, <2>5, <2>6, <2>7, Layout DEF Private
<1> QED
  BY <1>7, <1>8

\* The count of the segments a process attached.
Numbered(c, n) == [c EXCEPT !.shm_page_num = n]
Attach(s, p, n) == [s EXCEPT !.pcb[p].shm_page_num = n]

\* A PCB with another number of attached segments.
LEMMA NumberedPcb ==
    ASSUME NEW c \in Pcb, NEW n \in Nat
    PROVE  LET d == Numbered(c, n) IN
           /\ d \in Pcb /\ d.alive = c.alive /\ d.shm_page_num = n
           /\ d.tables = c.tables /\ d.pagenum = c.pagenum /\ d.pagehead = c.pagehead
           /\ d.pgdir = c.pgdir
  BY DEF Numbered, Pcb

\* What counting a segment does to the fields.
LEMMA AttachFields ==
    ASSUME NEW s, Shape(s), NEW p, NEW n, NEW r, r = Attach(s, p, n)
    PROVE  /\ Shape(r) /\ PcbSet(s, r, p, Numbered(s.pcb[p], n))
           /\ r.page_manager = s.page_manager /\ r.page_id = s.page_id
           /\ r.kernMemCurr = s.kernMemCurr /\ r.sector = s.sector /\ r.mem = s.mem
           /\ r.sd = s.sd /\ r.shm_page_table = s.shm_page_table /\ r.panic = s.panic
  BY DEF Attach, Shape, Fields, PcbSet, Numbered

\* Counting a segment keeps the state sound.
LEMMA AttachSound ==
    ASSUME NEW s, Sound(s), NEW p \in Procs, NEW n \in Nat, NEW r, r = Attach(s, p, n)
    PROVE  /\ Sound(r)
           /\ \A q \in Procs : q # p => r.pcb[q] = s.pcb[q]
           /\ r.pcb[p].alive = s.pcb[p].alive /\ r.pcb[p].shm_page_num = n
           /\ r.shm_page_table = s.shm_page_table /\ r.panic = s.panic
           /\ \A u : Entry(r, p, u) = Entry(s, p, u)
           /\ r.page_manager = s.page_manager /\ r.page_id = s.page_id
<1> DEFINE d == Numbered(s.pcb[p], n)
<1>1. MemType(s) /\ Shape(s) /\ s.pcb[p] \in Pcb
  BY Parts, TypeHasShape DEF Sound
<1>2. /\ d \in Pcb /\ d.alive = s.pcb[p].alive /\ d.shm_page_num = n
      /\ d.tables = s.pcb[p].tables /\ d.pagenum = s.pcb[p].pagenum
      /\ d.pagehead = s.pcb[p].pagehead /\ d.pgdir = s.pcb[p].pgdir
  BY <1>1, NumberedPcb
<1>3. /\ Shape(r) /\ PcbSet(s, r, p, d)
      /\ r.page_manager = s.page_manager /\ r.page_id = s.page_id
      /\ r.kernMemCurr = s.kernMemCurr /\ r.sector = s.sector /\ r.mem = s.mem
      /\ r.sd = s.sd /\ r.shm_page_table = s.shm_page_table /\ r.panic = s.panic
  BY <1>1, AttachFields
<1> HIDE DEF d
<1>4. /\ r.pcb \in [Procs -> Pcb] /\ r.pcb[p] = d
      /\ \A q \in Procs : q # p => r.pcb[q] = s.pcb[q]
  BY <1>1, <1>2, <1>3, PcbChange
<1>5. \A q \in Procs : /\ Own(r, q) = Own(s, q) /\ \A u : Entry(r, q, u) = Entry(s, q, u)
                       /\ \A u : (Walks(r, q, u) <=> Walks(s, q, u))
                       /\ Full(r, q) <=> Full(s, q)
  BY <1>2, <1>4 DEF Own, Entry, Walks, Full
<1>6. /\ s.page_manager \in [PageIds -> Page] /\ s.page_id \in 0 .. PAGE_NUM
      /\ s.kernMemCurr \in 1 .. PAGE_NUM + 1 /\ s.sector \in 0 .. MaxSector
      /\ s.mem \in [Frames -> Contents] /\ s.sd \in [0 .. MaxSector - 1 -> Contents]
      /\ s.shm_page_table \in [ShmIds -> Shm] /\ s.panic \in BOOLEAN
  BY <1>1 DEF MemType
<1>7. MemType(r)
  BY <1>3, <1>4, <1>6, ShapeHasType
<1>8. PoolInv(r) /\ Disjoint(r)
  BY <1>3, <1>5 DEF Sound, PoolInv, Disjoint
<1>9. ASSUME NEW q \in Procs PROVE OwnInv(r, q) /\ EntryInv(r, q)
  <2>1. OwnInv(s, q) /\ EntryInv(s, q)
    BY DEF Sound
  <2> QED
    BY <1>3, <1>5, <2>1 DEF OwnInv, EntryInv, InMemory, OnCard
<1> QED
  BY <1>2, <1>3, <1>4, <1>5, <1>7, <1>8, <1>9 DEF Sound

\* The entries of the shared-page table that shm_page_get leaves behind.
ShmSet(s, r, i, shm) == r.shm_page_table = [s.shm_page_table EXCEPT ![i] = shm]
Created(shm, k, f) == [valid |-> TRUE, key |-> k % KeyMod, num |-> (shm.num + 1) % NumMod, pa |-> f]
Counted1(shm) == [shm EXCEPT !.num = (@ + 1) % NumMod]

Create(b, i, k, f) ==
    clear_pgdir(
        [b EXCEPT !.shm_page_table[i] =
                    [valid |-> TRUE, key |-> k % KeyMod, num |-> (@.num + 1) % NumMod, pa |-> f]], f)
Recount(b, i) == [b EXCEPT !.shm_page_table[i].num = (@ + 1) % NumMod]

\* What creating a segment does to the fields.
LEMMA CreateFields ==
    ASSUME NEW b, Shape(b), NEW i, NEW k, NEW f, NEW r, r = Create(b, i, k, f)
    PROVE  /\ Shape(r) /\ ShmSet(b, r, i, Created(b.shm_page_table[i], k, f))
           /\ MemSet(b, r, f, Zero)
           /\ r.page_manager = b.page_manager /\ r.page_id = b.page_id
           /\ r.kernMemCurr = b.kernMemCurr /\ r.sector = b.sector /\ r.pcb = b.pcb
           /\ r.sd = b.sd /\ r.panic = b.panic
<1>1. ShmSet(b, r, i, Created(b.shm_page_table[i], k, f))
  BY DEF Create, clear_pgdir, Shape, Fields, ShmSet, Created
<1>2. MemSet(b, r, f, Zero)
  BY DEF Create, clear_pgdir, Shape, Fields, MemSet
<1>3. /\ Shape(r) /\ r.page_manager = b.page_manager /\ r.page_id = b.page_id
      /\ r.kernMemCurr = b.kernMemCurr /\ r.sector = b.sector /\ r.pcb = b.pcb
      /\ r.sd = b.sd /\ r.panic = b.panic
  BY DEF Create, clear_pgdir, Shape, Fields
<1> QED
  BY <1>1, <1>2, <1>3

\* What counting a user of a segment does to the fields.
LEMMA RecountFields ==
    ASSUME NEW b, Shape(b), NEW i, NEW r, r = Recount(b, i)
    PROVE  /\ Shape(r) /\ ShmSet(b, r, i, Counted1(b.shm_page_table[i]))
           /\ r.page_manager = b.page_manager /\ r.page_id = b.page_id
           /\ r.kernMemCurr = b.kernMemCurr /\ r.sector = b.sector /\ r.pcb = b.pcb
           /\ r.mem = b.mem /\ r.sd = b.sd /\ r.panic = b.panic
<1>1. ShmSet(b, r, i, Counted1(b.shm_page_table[i]))
  BY DEF Recount, Shape, Fields, ShmSet, Counted1
<1>2. /\ Shape(r) /\ r.page_manager = b.page_manager /\ r.page_id = b.page_id
      /\ r.kernMemCurr = b.kernMemCurr /\ r.sector = b.sector /\ r.pcb = b.pcb
      /\ r.mem = b.mem /\ r.sd = b.sd /\ r.panic = b.panic
  BY DEF Recount, Shape, Fields
<1> QED
  BY <1>1, <1>2

\* A change of one entry of the shared-page table leaves the others alone.
LEMMA ShmChange ==
    ASSUME NEW s, MemType(s), NEW i \in ShmIds, NEW shm \in Shm, NEW r, ShmSet(s, r, i, shm)
    PROVE  /\ r.shm_page_table \in [ShmIds -> Shm]
           /\ r.shm_page_table[i] = shm
           /\ \A j \in ShmIds : j # i => r.shm_page_table[j] = s.shm_page_table[j]
<1>1. s.shm_page_table \in [ShmIds -> Shm]
  BY DEF MemType
<1> QED
  BY <1>1 DEF ShmSet

\* The entries shm_page_get writes are typed.
LEMMA ShmTyped ==
    ASSUME NEW shm \in Shm
    PROVE  /\ \A k \in Keys, f \in Nat : Created(shm, k, f) \in Shm
           /\ Counted1(shm) \in Shm /\ Counted1(shm).valid = shm.valid
           /\ Counted1(shm).key = shm.key /\ Counted1(shm).pa = shm.pa
<1>1. NumMod \in Nat \ {0}
  BY PagingAssumption
<1>2. shm.num \in Int
  BY DEF Shm
<1> DEFINE n == (shm.num + 1) % NumMod
<1>3. n \in 0 .. NumMod - 1
  BY <1>1, <1>2
<1>4. Counted1(shm) = [shm EXCEPT !.num = n]
  BY DEF Counted1
<1>5. \A k, f : Created(shm, k, f) = [valid |-> TRUE, key |-> k % KeyMod, num |-> n, pa |-> f]
  BY DEF Created
<1> HIDE DEF n
<1> DEFINE c == [shm EXCEPT !.num = n]
<1>6. c \in Shm /\ c.valid = shm.valid /\ c.key = shm.key /\ c.pa = shm.pa
  BY <1>3 DEF Shm
<1>7. ASSUME NEW k \in Keys, NEW f \in Nat PROVE Created(shm, k, f) \in Shm
  <2> DEFINE h == k % KeyMod
  <2>1. h \in 0 .. KeyMod - 1
    BY PagingAssumption
  <2> HIDE DEF h
  <2>2. [valid |-> TRUE, key |-> h, num |-> n, pa |-> f] \in Shm
    BY <1>3, <2>1 DEF Shm
  <2> QED
    BY <1>5, <2>2, Zenon DEF h
<1>8. Counted1(shm) = c
  BY <1>4
<1> HIDE DEF c
<1> QED
  BY <1>6, <1>7, <1>8

\* What shm_page_get may do to the entries of p's attached segments: one of
\* them may get the frame f.
Attaches(s, r, p, f) ==
    /\ Steady(s, r)
    /\ \A q \in Procs : q # p => r.pcb[q] = s.pcb[q]
    /\ r.pcb[p].alive = s.pcb[p].alive
    /\ r.pcb[p].shm_page_num <= MaxShm
    /\ \A u \in ShmVpns : \/ Entry(r, p, u) = Entry(s, p, u)
                          \/ ~r.panic /\ Entry(r, p, u).pfn = f

\* The next segment is attached at a page set aside for segments.
LEMMA NextVpn ==
    ASSUME NEW n \in Nat, n < MaxShm
    PROVE  n + 1 \in Nat /\ n + 1 <= MaxShm /\ ShmVpn(n + 1) \in ShmVpns
  BY PagingAssumption DEF ShmVpns

\* shm_page_get of a key that has no segment.
LEMMA ShmFirstSound ==
    ASSUME NEW s, Sound(s), ~s.panic, NEW p \in Procs, NEW k \in Keys, NEW i \in ShmIds,
           s.pcb[p].shm_page_num < MaxShm,
           NEW r, r = shm_first(s, p, k, i), Bounded(r)
    PROVE  \E f \in Nat :
             /\ Sound(r) /\ Attaches(s, r, p, f)
             /\ r.panic => Stuck(r, p) /\ r.shm_page_table = s.shm_page_table
             /\ ~r.panic => /\ f # 0
                            /\ r.shm_page_table[i].valid /\ r.shm_page_table[i].pa = f
                            /\ new_page(s) \in PageIds /\ new_page(s) < r.page_id
                            /\ r.page_manager[new_page(s)].kva = f
                            /\ r.page_manager[new_page(s)].uva = NoVa
                            /\ r.page_manager[new_page(s)].pte = NoVa
                            /\ \A j \in ShmIds : j # i =>
                                 r.shm_page_table[j] = s.shm_page_table[j]
<1> DEFINE a == allocPagetable(s, p, "UNSWAPABLE")
           f == new_kva(s, p)
           m == new_page(s)
           n == s.pcb[p].shm_page_num + 1
           c == Attach(a, p, n)
           v == ShmVpn(n)
           b == build_page_helper(c, p, v, f)
<1>1. r = IF a.panic THEN a ELSE IF b.panic THEN b ELSE Create(b, i, k, f)
  BY Zenon DEF shm_first, Attach, Create
<1>2. n \in Nat /\ n <= MaxShm /\ v \in ShmVpns
  <2>1. s.pcb[p] \in Pcb
    BY Parts DEF Sound
  <2>2. s.pcb[p].shm_page_num \in Nat
    BY <2>1 DEF Pcb
  <2> QED
    BY <2>2, NextVpn
<1>3. Raw(s) /\ Grows(s, a) /\ Raw(a)
  BY SoundRaw, AllocGrows DEF Grows
<1> HIDE DEF n, v
<1>4. /\ Shape(c) /\ c.page_id = a.page_id /\ c.kernMemCurr = a.kernMemCurr
      /\ c.sector = a.sector
  <2> HIDE DEF a
  <2> QED BY <1>3, AttachFields DEF Raw
<1>5. Raw(c) /\ (Bounded(c) => Bounded(a))
  <2> HIDE DEF a, c
  <2> QED BY <1>3, <1>4 DEF Raw, Bounded
<1>6. Grows(c, b) /\ Raw(b)
  <2> HIDE DEF c
  <2> QED BY <1>5, BuildGrows DEF Grows
<1>7. ~a.panic /\ ~b.panic =>
         /\ Shape(r) /\ ShmSet(b, r, i, Created(b.shm_page_table[i], k, f))
         /\ MemSet(b, r, f, Zero)
         /\ r.page_manager = b.page_manager /\ r.page_id = b.page_id
         /\ r.kernMemCurr = b.kernMemCurr /\ r.sector = b.sector /\ r.pcb = b.pcb
         /\ r.sd = b.sd /\ r.panic = b.panic
  <2> HIDE DEF a, b, f
  <2> QED BY <1>1, <1>6, CreateFields DEF Raw
<1>8. ~a.panic => Bounded(b)
  BY <1>1, <1>7 DEF Bounded
<1>9. Bounded(a)
  <2>1. CASE a.panic
    BY <1>1, <2>1
  <2>2. CASE ~a.panic
    BY <1>5, <1>6, <1>8, <2>2, BoundedBefore
  <2> QED
    BY <2>1, <2>2
<1>10. /\ Sound(a) /\ Keeps(s, a, p)
       /\ a.panic => s.panic \/ Stuck(a, p)
       /\ ~a.panic =>
            /\ f \in Nat \ {0}
            /\ m \in PageIds /\ m < a.page_id /\ a.page_manager[m].kva = f
            /\ a.page_manager[m].uva = NoVa /\ a.page_manager[m].pte = NoVa
  BY <1>9, AllocSound
<1>11. Private(s, a, p)
  BY <1>10, KeepsPrivate
<1>12. CASE a.panic
  <2>1. r = a
    BY <1>1, <1>12
  <2>2. s.pcb[p].shm_page_num <= MaxShm
    <3>1. s.pcb[p] \in Pcb
      BY Parts DEF Sound
    <3> QED
      BY <3>1, PagingAssumption DEF Pcb
  <2>3. Attaches(s, a, p, 0)
    BY <1>11, <2>2 DEF Attaches, Private
  <2> QED
    BY <1>10, <1>11, <1>12, <2>1, <2>3 DEF Private
<1>13. CASE ~a.panic
  <2> HIDE DEF a, f, m
  <2>1. /\ Sound(c)
        /\ \A q \in Procs : q # p => c.pcb[q] = a.pcb[q]
        /\ c.pcb[p].alive = a.pcb[p].alive /\ c.pcb[p].shm_page_num = n
        /\ c.shm_page_table = a.shm_page_table /\ c.panic = a.panic
        /\ \A u : Entry(c, p, u) = Entry(a, p, u)
        /\ c.page_manager = a.page_manager /\ c.page_id = a.page_id
    BY <1>2, <1>10, AttachSound, SMTT(40)
  <2> HIDE DEF c
  <2>2. f \in Nat /\ f # 0
    BY <1>10, <1>13
  <2>3. /\ Sound(b) /\ Steady(c, b)
        /\ \A q \in Procs : q # p => b.pcb[q] = c.pcb[q]
        /\ b.pcb[p].alive = c.pcb[p].alive /\ b.pcb[p].shm_page_num = c.pcb[p].shm_page_num
        /\ b.shm_page_table = c.shm_page_table
        /\ \A u \in ShmVpns : u # v => Entry(b, p, u) = Entry(c, p, u)
        /\ Entry(b, p, v) = Entry(c, p, v) \/ (~b.panic /\ Entry(b, p, v).pfn = f)
        /\ b.panic => (c.panic /\ b = c) \/ Stuck(b, p)
    BY <1>2, <1>8, <1>13, <2>1, <2>2, BuildSound
  <2> HIDE DEF b
  <2>4. Attaches(s, b, p, f) /\ b.shm_page_table = s.shm_page_table
    <3>1. Steady(s, b)
      BY <1>11, <2>1, <2>3, SteadySame, SteadyTransitive DEF Private
    <3> QED
      BY <1>2, <1>11, <2>1, <2>3, <3>1 DEF Attaches, Private
  <2>5. CASE b.panic
    <3>1. r = b
      BY <1>1, <1>13, <2>5
    <3>2. Stuck(b, p)
      BY <1>13, <2>1, <2>3, <2>5
    <3> QED
      BY <2>2, <2>3, <2>4, <2>5, <3>1, <3>2
  <2>6. CASE ~b.panic
    <3> DEFINE shm == Created(b.shm_page_table[i], k, f)
    <3>1. /\ MemType(b) /\ b.shm_page_table[i] \in Shm /\ b.panic \in BOOLEAN
      BY <2>3 DEF Sound, MemType
    <3>2. shm \in Shm
      BY <2>2, <3>1, ShmTyped
    <3>3. shm.valid /\ shm.pa = f
      BY DEF Created
    <3> HIDE DEF shm
    <3>4. /\ r.shm_page_table \in [ShmIds -> Shm] /\ r.shm_page_table[i] = shm
          /\ \A j \in ShmIds : j # i => r.shm_page_table[j] = b.shm_page_table[j]
      BY <1>7, <1>13, <2>6, <3>1, <3>2, ShmChange DEF shm
    <3>5. r.mem \in [Frames -> Contents]
      BY <1>7, <1>13, <2>6, <3>1, MemChange DEF Contents
    <3>6. Sound(r)
      BY <1>7, <1>13, <2>3, <2>6, <3>1, <3>4, <3>5, SameSound
    <3>7. Attaches(s, r, p, f)
      <4>1. Steady(s, r)
        BY <1>7, <1>13, <2>4, <2>6, SteadySame, SteadyTransitive DEF Attaches
      <4> QED
        BY <1>7, <1>13, <2>4, <2>6, <4>1 DEF Attaches, Entry
    <3>8. \A j \in ShmIds : j # i => r.shm_page_table[j] = s.shm_page_table[j]
      BY <2>4, <3>4
    <3>9. ~r.panic
      BY <1>7, <1>13, <2>6
    <3>10. /\ m \in PageIds /\ m < r.page_id /\ r.page_manager[m].kva = f
           /\ r.page_manager[m].uva = NoVa /\ r.page_manager[m].pte = NoVa
      BY <1>7, <1>10, <1>13, <2>1, <2>3, <2>6 DEF Steady
    <3> QED
      BY <2>2, <3>3, <3>4, <3>6, <3>7, <3>8, <3>9, <3>10 DEF m
  <2> QED
    BY <2>5, <2>6
<1> QED
  BY <1>12, <1>13

\* shm_page_get of a key that has a segment.
LEMMA ShmAgainSound ==
    ASSUME NEW s, Sound(s), ~s.panic, NEW p \in Procs, NEW i \in ShmIds,
           s.pcb[p].shm_page_num < MaxShm,
           NEW r, r = shm_again(s, p, i), Bounded(r)
    PROVE  /\ Sound(r) /\ Attaches(s, r, p, s.shm_page_table[i].pa)
           /\ r.panic => Stuck(r, p)
           /\ \A j \in ShmIds : /\ r.shm_page_table[j].valid = s.shm_page_table[j].valid
                                /\ r.shm_page_table[j].key = s.shm_page_table[j].key
                                /\ r.shm_page_table[j].pa = s.shm_page_table[j].pa
<1> DEFINE f == s.shm_page_table[i].pa
           n == s.pcb[p].shm_page_num + 1
           c == Attach(s, p, n)
           v == ShmVpn(n)
           b == build_page_helper(c, p, v, f)
<1>1. r = IF b.panic THEN b ELSE Recount(b, i)
  BY Zenon DEF shm_again, Attach, Recount
<1>2. n \in Nat /\ n <= MaxShm /\ v \in ShmVpns
  <2>1. s.pcb[p] \in Pcb
    BY Parts DEF Sound
  <2>2. s.pcb[p].shm_page_num \in Nat
    BY <2>1 DEF Pcb
  <2> QED
    BY <2>2, NextVpn
<1>3. f \in Nat
  <2>1. s.shm_page_table[i] \in Shm
    BY DEF Sound, MemType
  <2> QED
    BY <2>1 DEF Shm
<1> HIDE DEF n, v, f
<1>4. /\ Sound(c) /\ Raw(c)
      /\ \A q \in Procs : q # p => c.pcb[q] = s.pcb[q]
      /\ c.pcb[p].alive = s.pcb[p].alive /\ c.pcb[p].shm_page_num = n
      /\ c.shm_page_table = s.shm_page_table /\ c.panic = s.panic
      /\ \A u : Entry(c, p, u) = Entry(s, p, u)
      /\ c.page_manager = s.page_manager /\ c.page_id = s.page_id
  BY <1>2, AttachSound, SoundRaw
<1> HIDE DEF c
<1>5. Grows(c, b) /\ Raw(b)
  BY <1>4, BuildGrows DEF Grows
<1>6. ~b.panic =>
         /\ Shape(r) /\ ShmSet(b, r, i, Counted1(b.shm_page_table[i]))
         /\ r.page_manager = b.page_manager /\ r.page_id = b.page_id
         /\ r.kernMemCurr = b.kernMemCurr /\ r.sector = b.sector /\ r.pcb = b.pcb
         /\ r.mem = b.mem /\ r.sd = b.sd /\ r.panic = b.panic
  <2> HIDE DEF b
  <2> QED BY <1>1, <1>5, RecountFields DEF Raw
<1>7. Bounded(b)
  BY <1>1, <1>6 DEF Bounded
<1>8. /\ Sound(b) /\ Steady(c, b)
      /\ \A q \in Procs : q # p => b.pcb[q] = c.pcb[q]
      /\ b.pcb[p].alive = c.pcb[p].alive /\ b.pcb[p].shm_page_num = c.pcb[p].shm_page_num
      /\ b.shm_page_table = c.shm_page_table
      /\ \A u \in ShmVpns : u # v => Entry(b, p, u) = Entry(c, p, u)
      /\ Entry(b, p, v) = Entry(c, p, v) \/ (~b.panic /\ Entry(b, p, v).pfn = f)
      /\ b.panic => (c.panic /\ b = c) \/ Stuck(b, p)
  BY <1>2, <1>3, <1>4, <1>7, BuildSound
<1> HIDE DEF b
<1>9. Attaches(s, b, p, f) /\ b.shm_page_table = s.shm_page_table
  <2>1. Steady(s, b)
    BY <1>4, <1>8, SteadySame, SteadyTransitive
  <2> QED
    BY <1>2, <1>4, <1>8, <2>1 DEF Attaches
<1>10. CASE b.panic
  <2>1. r = b
    BY <1>1, <1>10
  <2>2. Stuck(b, p)
    BY <1>4, <1>8, <1>10
  <2> QED
    BY <1>8, <1>9, <2>1, <2>2 DEF f
<1>11. CASE ~b.panic
  <2> DEFINE shm == Counted1(b.shm_page_table[i])
  <2>1. /\ MemType(b) /\ b.shm_page_table[i] \in Shm /\ b.panic \in BOOLEAN
        /\ b.mem \in [Frames -> Contents]
    BY <1>8 DEF Sound, MemType
  <2>2. /\ shm \in Shm /\ shm.valid = b.shm_page_table[i].valid
        /\ shm.key = b.shm_page_table[i].key /\ shm.pa = b.shm_page_table[i].pa
    BY <2>1, ShmTyped
  <2> HIDE DEF shm
  <2>3. /\ r.shm_page_table \in [ShmIds -> Shm] /\ r.shm_page_table[i] = shm
        /\ \A j \in ShmIds : j # i => r.shm_page_table[j] = b.shm_page_table[j]
    BY <1>6, <1>11, <2>1, <2>2, ShmChange DEF shm
  <2>4. Sound(r)
    BY <1>6, <1>8, <1>11, <2>1, <2>3, SameSound
  <2>5. Attaches(s, r, p, f)
    <3>1. Steady(s, r)
      BY <1>6, <1>9, <1>11, SteadySame, SteadyTransitive DEF Attaches
    <3> QED
      BY <1>6, <1>9, <1>11, <3>1 DEF Attaches, Entry
  <2>6. ~r.panic
    BY <1>6, <1>11
  <2> QED
    BY <1>9, <2>2, <2>3, <2>4, <2>5, <2>6 DEF f
<1> QED
  BY <1>10, <1>11

-----------------------------------------------------------------------------
(* Shared pages.  shm_page_dt counts down the first entry that does NOT     *)
(* hold the page's frame, so a segment may end while it is attached; but    *)
(* its page stays a page of a segment for ever, and is never swapped out.   *)

\* The pages of segments, S, have a frame and no address; what is attached
\* maps the frame of one of them, and so will what is attached next.
ShareInv(s, S) ==
    /\ S \subseteq PageIds
    /\ \A i \in S : /\ i < s.page_id /\ s.page_manager[i].kva # 0
                    /\ s.page_manager[i].uva = NoVa /\ s.page_manager[i].pte = NoVa
    /\ \A p \in Procs : \A u \in ShmVpns : Entry(s, p, u).present =>
         \E i \in S : s.page_manager[i].kva = Entry(s, p, u).pfn
    /\ \A j \in ShmIds : s.shm_page_table[j].valid =>
         \E i \in S : s.page_manager[i].kva = s.shm_page_table[j].pa

\* What holds of the pages of segments stays true.
LEMMA SharedSteady ==
    ASSUME NEW s, NEW S, ShareInv(s, S), NEW r, Steady(s, r)
    PROVE  /\ S \subseteq PageIds
           /\ \A i \in S : i < r.page_id /\ r.page_manager[i] = s.page_manager[i]
           /\ \A i \in S : /\ i < r.page_id /\ r.page_manager[i].kva # 0
                           /\ r.page_manager[i].uva = NoVa /\ r.page_manager[i].pte = NoVa
<1>1. \A i \in S : i < r.page_id /\ r.page_manager[i] = s.page_manager[i]
  BY DEF ShareInv, Steady
<1> QED
  BY <1>1 DEF ShareInv

\* A step that attaches nothing, and makes no segment valid.
LEMMA SharingKept ==
    ASSUME NEW s, NEW S, ShareInv(s, S), NEW r, NEW p \in Procs, Steady(s, r),
           \A q \in Procs : q # p => r.pcb[q] = s.pcb[q],
           \A j \in ShmIds : r.shm_page_table[j].valid =>
              s.shm_page_table[j].valid /\ r.shm_page_table[j].pa = s.shm_page_table[j].pa,
           \A u \in ShmVpns : Entry(r, p, u) = Entry(s, p, u) \/ ~Entry(r, p, u).present
    PROVE  ShareInv(r, S)
<1>0. /\ S \subseteq PageIds
      /\ \A i \in S : i < r.page_id /\ r.page_manager[i] = s.page_manager[i]
      /\ \A i \in S : /\ i < r.page_id /\ r.page_manager[i].kva # 0
                      /\ r.page_manager[i].uva = NoVa /\ r.page_manager[i].pte = NoVa
  BY SharedSteady
<1>1. ASSUME NEW q \in Procs, NEW u \in ShmVpns, Entry(r, q, u).present
      PROVE  Entry(r, q, u) = Entry(s, q, u)
  BY <1>1 DEF Entry
<1>2. \A q \in Procs : \A u \in ShmVpns : Entry(r, q, u).present =>
         \E i \in S : r.page_manager[i].kva = Entry(r, q, u).pfn
  BY <1>1, <1>0 DEF ShareInv
<1>3. \A j \in ShmIds : r.shm_page_table[j].valid =>
         \E i \in S : r.page_manager[i].kva = r.shm_page_table[j].pa
  BY <1>0 DEF ShareInv
<1> QED
  BY <1>2, <1>3, <1>0 DEF ShareInv

\* A step that attaches the frame f of a valid entry.
LEMMA SharingAttached ==
    ASSUME NEW s, NEW S, ShareInv(s, S), NEW r, NEW p \in Procs, NEW f, Attaches(s, r, p, f),
           \A j \in ShmIds : /\ r.shm_page_table[j].valid = s.shm_page_table[j].valid
                             /\ r.shm_page_table[j].pa = s.shm_page_table[j].pa,
           \E i \in ShmIds : s.shm_page_table[i].valid /\ s.shm_page_table[i].pa = f
    PROVE  ShareInv(r, S)
<1>1. ASSUME NEW q \in Procs, NEW u \in ShmVpns, Entry(r, q, u).present
      PROVE  Entry(r, q, u) = Entry(s, q, u) \/ Entry(r, q, u).pfn = f
  BY DEF Entry, Attaches
<1>2. Steady(s, r)
  BY DEF Attaches
<1>0. /\ S \subseteq PageIds
      /\ \A i \in S : i < r.page_id /\ r.page_manager[i] = s.page_manager[i]
      /\ \A i \in S : /\ i < r.page_id /\ r.page_manager[i].kva # 0
                      /\ r.page_manager[i].uva = NoVa /\ r.page_manager[i].pte = NoVa
  BY <1>2, SharedSteady
<1>3. \E i \in S : s.page_manager[i].kva = f
  BY DEF ShareInv
<1>4. \A q \in Procs : \A u \in ShmVpns : Entry(r, q, u).present =>
         \E i \in S : r.page_manager[i].kva = Entry(r, q, u).pfn
  BY <1>1, <1>2, <1>3, <1>0 DEF ShareInv
<1>5. \A j \in ShmIds : r.shm_page_table[j].valid =>
         \E i \in S : r.page_manager[i].kva = r.shm_page_table[j].pa
  BY <1>0 DEF ShareInv
<1> QED
  BY <1>2, <1>4, <1>5, <1>0 DEF ShareInv

\* The step that creates a segment, with the page m.
LEMMA SharingCreated ==
    ASSUME NEW s, NEW S, ShareInv(s, S), NEW r, NEW p \in Procs, NEW f, Attaches(s, r, p, f), f # 0,
           NEW i \in ShmIds, r.shm_page_table[i].pa = f,
           \A j \in ShmIds : j # i => r.shm_page_table[j] = s.shm_page_table[j],
           NEW m \in PageIds, m < r.page_id, r.page_manager[m].kva = f,
           r.page_manager[m].uva = NoVa, r.page_manager[m].pte = NoVa
    PROVE  ShareInv(r, S \cup {m})
<1>1. ASSUME NEW q \in Procs, NEW u \in ShmVpns, Entry(r, q, u).present
      PROVE  Entry(r, q, u) = Entry(s, q, u) \/ Entry(r, q, u).pfn = f
  BY DEF Entry, Attaches
<1>2. Steady(s, r)
  BY DEF Attaches
<1>0. /\ S \subseteq PageIds
      /\ \A l \in S : l < r.page_id /\ r.page_manager[l] = s.page_manager[l]
      /\ \A l \in S : /\ l < r.page_id /\ r.page_manager[l].kva # 0
                      /\ r.page_manager[l].uva = NoVa /\ r.page_manager[l].pte = NoVa
  BY <1>2, SharedSteady
<1>3. \A q \in Procs : \A u \in ShmVpns : Entry(r, q, u).present =>
         \E l \in S \cup {m} : r.page_manager[l].kva = Entry(r, q, u).pfn
  BY <1>1, <1>0 DEF ShareInv
<1>4. \A j \in ShmIds : r.shm_page_table[j].valid =>
         \E l \in S \cup {m} : r.page_manager[l].kva = r.shm_page_table[j].pa
  BY <1>0 DEF ShareInv
<1> QED
  BY <1>2, <1>3, <1>4, <1>0 DEF ShareInv

\* What shm_page_dt does: entry i is counted down, and page v is unmapped.
Reduced(shm, n) == [shm EXCEPT !.num = n, !.valid = shm.valid /\ n # 0]
Detach(s, p, v, i, n) ==
    [s EXCEPT !.shm_page_table[i] = [@ EXCEPT !.num = n, !.valid = s.shm_page_table[i].valid /\ n # 0],
              !.pcb[p].pgdir[v] = NoPte]

\* The entry shm_page_dt writes is typed, and valid only if it was.
LEMMA ReducedTyped ==
    ASSUME NEW shm \in Shm, NEW n \in 0 .. NumMod - 1
    PROVE  /\ Reduced(shm, n) \in Shm
           /\ Reduced(shm, n).valid => shm.valid
           /\ Reduced(shm, n).key = shm.key /\ Reduced(shm, n).pa = shm.pa
<1> DEFINE b == shm.valid /\ n # 0
<1>1. b \in BOOLEAN /\ (b => shm.valid)
  OBVIOUS
<1>2. Reduced(shm, n) = [shm EXCEPT !.num = n, !.valid = b]
  BY DEF Reduced
<1> HIDE DEF b
<1> DEFINE c == [shm EXCEPT !.num = n, !.valid = b]
<1>3. c \in Shm /\ c.valid = b /\ c.key = shm.key /\ c.pa = shm.pa
  BY <1>1 DEF Shm
<1>4. Reduced(shm, n) = c
  BY <1>2
<1> HIDE DEF c
<1> QED
  BY <1>1, <1>3, <1>4

\* What shm_page_dt does to the fields.
LEMMA DetachFields ==
    ASSUME NEW s, Shape(s), NEW p, NEW v, NEW i, NEW n, NEW r, r = Detach(s, p, v, i, n)
    PROVE  /\ Shape(r) /\ ShmSet(s, r, i, Reduced(s.shm_page_table[i], n))
           /\ EntrySet(s, r, p, v, NoPte)
           /\ r.page_manager = s.page_manager /\ r.page_id = s.page_id
           /\ r.kernMemCurr = s.kernMemCurr /\ r.sector = s.sector
           /\ r.mem = s.mem /\ r.sd = s.sd /\ r.panic = s.panic
<1>1. ShmSet(s, r, i, Reduced(s.shm_page_table[i], n))
  BY DEF Detach, Shape, Fields, ShmSet, Reduced
<1>2. EntrySet(s, r, p, v, NoPte)
  BY DEF Detach, Shape, Fields, EntrySet
<1>3. /\ Shape(r) /\ r.page_manager = s.page_manager /\ r.page_id = s.page_id
      /\ r.kernMemCurr = s.kernMemCurr /\ r.sector = s.sector
      /\ r.mem = s.mem /\ r.sd = s.sd /\ r.panic = s.panic
  BY DEF Detach, Shape, Fields
<1> QED
  BY <1>1, <1>2, <1>3

\* shm_page_dt, whichever entry it counts down.
LEMMA DetachSound ==
    ASSUME NEW s, Sound(s), NEW p \in Procs, NEW v \in ShmVpns, Entry(s, p, v).present,
           NEW i \in ShmIds,
           NEW n \in 0 .. NumMod - 1, NEW r, r = Detach(s, p, v, i, n)
    PROVE  /\ Sound(r) /\ r.panic = s.panic
           /\ \A S : ShareInv(s, S) => ShareInv(r, S)
<1> DEFINE shm == Reduced(s.shm_page_table[i], n)
<1>1. /\ MemType(s) /\ Shape(s) /\ s.shm_page_table \in [ShmIds -> Shm]
      /\ s.mem \in [Frames -> Contents] /\ s.panic \in BOOLEAN
  BY TypeHasShape DEF Sound, MemType
<1>2. /\ Shape(r) /\ ShmSet(s, r, i, shm) /\ EntrySet(s, r, p, v, NoPte)
      /\ r.page_manager = s.page_manager /\ r.page_id = s.page_id
      /\ r.kernMemCurr = s.kernMemCurr /\ r.sector = s.sector
      /\ r.mem = s.mem /\ r.sd = s.sd /\ r.panic = s.panic
  BY <1>1, DetachFields
<1>3. s.shm_page_table[i] \in Shm
  BY <1>1
<1>4. /\ shm \in Shm /\ (shm.valid => s.shm_page_table[i].valid)
      /\ shm.key = s.shm_page_table[i].key /\ shm.pa = s.shm_page_table[i].pa
  BY <1>3, ReducedTyped
<1> HIDE DEF shm
<1>5. /\ r.shm_page_table \in [ShmIds -> Shm] /\ r.shm_page_table[i] = shm
      /\ \A j \in ShmIds : j # i => r.shm_page_table[j] = s.shm_page_table[j]
  BY <1>1, <1>2, <1>4, ShmChange
<1>6. NoPte \in Pte /\ ~NoPte.insd /\ ~NoPte.present
  BY DEF NoPte, Pte
<1>7. /\ Sound(r)
      /\ \A q \in Procs : q # p => r.pcb[q] = s.pcb[q]
      /\ Entry(r, p, v) = NoPte
      /\ \A u \in Vpns : u # v => Entry(r, p, u) = Entry(s, p, u)
  BY <1>1, <1>2, <1>5, <1>6, ShmEntrySound
<1>8. ASSUME NEW S, ShareInv(s, S) PROVE ShareInv(r, S)
  <2>1. \A j \in ShmIds : r.shm_page_table[j].valid =>
           s.shm_page_table[j].valid /\ r.shm_page_table[j].pa = s.shm_page_table[j].pa
    BY <1>4, <1>5
  <2>2. \A u \in ShmVpns : Entry(r, p, u) = Entry(s, p, u) \/ ~Entry(r, p, u).present
    BY <1>6, <1>7, Layout
  <2>3. Steady(s, r)
    BY <1>2, SteadySame
  <2> QED
    BY <1>7, <1>8, <2>1, <2>2, <2>3, SharingKept
<1> QED
  BY <1>2, <1>7, <1>8

-----------------------------------------------------------------------------
(* The invariant of the specification, one lemma per action. *)

\* What OnlyVictimAssert allows of a kernel that panicked.
Hopeless(s) ==
    \/ \E p \in Procs : s.pcb[p].alive /\ Stuck(s, p)
    \/ \A i \in ShmIds : s.shm_page_table[i].valid

\* What holds of mm, when S are the pages of segments.  (What the TLB holds
\* does not matter to it: a store through it changes contents only.)
MInv(s, S) ==
    /\ Sound(s)
    /\ s.panic => Hopeless(s)
    /\ ShareInv(s, S)
PInv == MInv(mm, shmPages) /\ tlb \in [Procs -> [Vpns -> Pte]]

\* A step of p that is private to it, and stuck if it panics.
LEMMA PrivateKept ==
    ASSUME NEW s, NEW S, MInv(s, S), ~s.panic, NEW p \in Procs, s.pcb[p].alive, NEW r, Sound(r),
           Private(s, r, p), r.panic => Stuck(r, p)
    PROVE  MInv(r, S)
<1>1. r.panic => Hopeless(r)
  BY DEF Private, Hopeless
<1>2. ShareInv(r, S)
  BY SharingKept DEF MInv, Private
<1> QED
  BY <1>1, <1>2 DEF MInv

\* The PCB that no program runs in is typed and empty.
LEMMA NoPcbTyped ==
    /\ NoPcb \in Pcb /\ NoPcb.alive = FALSE /\ Range(NoPcb.pagehead) = {}
    /\ \A u \in Vpns : NoPcb.pgdir[u] = NoPte
<1> DEFINE z == [v \in Vpns |-> NoPte]
           pcb == NoPcb
<1>1. z \in [Vpns -> Pte] /\ \A u \in Vpns : z[u] = NoPte
  BY DEF NoPte, Pte
<1>2. <<>> \in Seq(PageIds) /\ Range(<<>>) = {}
  BY DEF Range
<1>3. 0 \in 0 .. MAX_PAGETABLE_NUM /\ {} \in SUBSET ({1, 2} \X Nat)
  BY PagingAssumption
<1>4. pcb = [alive |-> FALSE, pagenum |-> 0, pagehead |-> <<>>, tables |-> {},
             pgdir |-> z, shm_page_num |-> 0]
  BY DEF NoPcb
<1> HIDE DEF z, pcb
<1>5. pcb \in Pcb
  BY <1>1, <1>2, <1>3, <1>4 DEF Pcb
<1>6. pcb.alive = FALSE /\ pcb.pagehead = <<>> /\ pcb.pgdir = z
  BY <1>4
<1>7. Range(pcb.pagehead) = {} /\ \A u \in Vpns : pcb.pgdir[u] = NoPte
  BY <1>1, <1>2, <1>6
<1> QED
  BY <1>5, <1>6, <1>7 DEF pcb

\* The invariant holds when the kernel has booted.
LEMMA InitKept ==
    ASSUME NEW s, s = init_pagetable
    PROVE  MInv(s, {})
<1> DEFINE pcb == NoPcb
           page == UnusedPage
           shm == UnusedShm
<1>1. NoPte \in Pte /\ ~NoPte.present /\ ~NoPte.insd
  BY DEF NoPte, Pte
<1>2. /\ pcb \in Pcb /\ Range(pcb.pagehead) = {}
      /\ \A u \in Vpns : pcb.pgdir[u] = NoPte
  BY NoPcbTyped
<1>3. page \in Page /\ page.kva = 0
  BY DEF UnusedPage, Page, Statuses
<1>4. shm \in Shm /\ ~shm.valid
  <2>1. 0 \in 0 .. NumMod - 1 /\ 0 \in 0 .. KeyMod - 1
    BY PagingAssumption
  <2> QED
    BY <2>1 DEF UnusedShm, Shm
<1>5. 0 \in 0 .. PAGE_NUM /\ 1 \in 1 .. PAGE_NUM + 1 /\ 0 \in 0 .. MaxSector
  BY PagingAssumption
<1>6. Shape(s)
  BY DEF init_pagetable, Shape, Fields
<1>7. /\ s.page_manager = [i \in PageIds |-> page] /\ s.page_id = 0 /\ s.kernMemCurr = 1
      /\ s.sector = 0 /\ s.mem = [f \in Frames |-> Junk]
      /\ s.sd = [x \in 0 .. MaxSector - 1 |-> Junk] /\ s.pcb = [p \in Procs |-> pcb]
      /\ s.shm_page_table = [i \in ShmIds |-> shm] /\ s.panic = FALSE
  BY DEF init_pagetable
<1> HIDE DEF pcb, page, shm
<1>8. /\ s.page_manager \in [PageIds -> Page] /\ s.mem \in [Frames -> Contents]
      /\ s.sd \in [0 .. MaxSector - 1 -> Contents] /\ s.pcb \in [Procs -> Pcb]
      /\ s.shm_page_table \in [ShmIds -> Shm]
  BY <1>2, <1>3, <1>4, <1>7 DEF Contents
<1>9. /\ \A i \in PageIds : s.page_manager[i] = UnusedPage /\ s.page_manager[i].kva = 0
      /\ \A i \in ShmIds : ~s.shm_page_table[i].valid
      /\ \A p \in Procs : Own(s, p) = {}
      /\ \A p \in Procs, u \in Vpns : Entry(s, p, u) = NoPte
  BY <1>2, <1>3, <1>4, <1>7 DEF Own, Entry, page
<1>10. MemType(s)
  BY <1>5, <1>6, <1>7, <1>8, ShapeHasType
<1>11. PoolInv(s) /\ Disjoint(s)
  BY <1>7, <1>9 DEF PoolInv, Disjoint, PageIds
<1>12. \A p \in Procs : OwnInv(s, p) /\ EntryInv(s, p)
  BY <1>1, <1>9 DEF OwnInv, EntryInv
<1>13. ShareInv(s, {})
  BY <1>1, <1>9, Layout DEF ShareInv
<1> QED
  BY <1>7, <1>10, <1>11, <1>12, <1>13 DEF MInv, Sound

\* do_exec keeps it.
LEMMA ExecKept ==
    ASSUME NEW s, NEW S, MInv(s, S), ~s.panic, NEW p \in Procs,
           NEW r, r = exec_memory(s, p), Bounded(r)
    PROVE  MInv(r, S)
<1>1. /\ Sound(r) /\ Steady(s, r)
      /\ \A q \in Procs : q # p => r.pcb[q] = s.pcb[q]
      /\ r.pcb[p].alive /\ r.shm_page_table = s.shm_page_table
      /\ \A u \in ShmVpns : ~Entry(r, p, u).present
      /\ r.panic => Stuck(r, p)
  BY ExecSound DEF MInv
<1>2. ShareInv(r, S)
  BY <1>1, SharingKept DEF MInv
<1> QED
  BY <1>1, <1>2 DEF MInv, Hopeless

\* The state do_exit leaves behind.
Ended(s, p) == [s EXCEPT !.pcb[p] = [NoPcb EXCEPT !.shm_page_num = s.pcb[p].shm_page_num]]

\* What do_exit does to the fields.
LEMMA EndedFields ==
    ASSUME NEW s, Shape(s), NEW p, NEW alive \in BOOLEAN, ~alive,
           NEW r, r = Ended(s, p)
    PROVE  /\ Shape(r) /\ PcbSet(s, r, p, EmptyPcb(s.pcb[p], alive))
           /\ r.page_manager = s.page_manager /\ r.page_id = s.page_id
           /\ r.kernMemCurr = s.kernMemCurr /\ r.sector = s.sector /\ r.mem = s.mem
           /\ r.sd = s.sd /\ r.shm_page_table = s.shm_page_table /\ r.panic = s.panic
<1> DEFINE c == s.pcb[p]
<1>1. [NoPcb EXCEPT !.shm_page_num = c.shm_page_num] = EmptyPcb(c, alive)
  <2> DEFINE x == NoPcb
             n == c.shm_page_num
  <2>1. x \in Pcb /\ x.alive = alive
    BY NoPcbTyped, Zenon
  <2> HIDE DEF x, n
  <2>2. [x EXCEPT !.shm_page_num = n] = [x EXCEPT !.alive = alive, !.shm_page_num = n]
    BY <2>1 DEF Pcb
  <2> QED
    BY <2>2, Zenon DEF EmptyPcb, x, n
<1>2. PcbSet(s, r, p, [NoPcb EXCEPT !.shm_page_num = c.shm_page_num])
  BY DEF Ended, Shape, Fields, PcbSet
<1>3. /\ Shape(r)
      /\ r.page_manager = s.page_manager /\ r.page_id = s.page_id
      /\ r.kernMemCurr = s.kernMemCurr /\ r.sector = s.sector /\ r.mem = s.mem
      /\ r.sd = s.sd /\ r.shm_page_table = s.shm_page_table /\ r.panic = s.panic
  BY DEF Ended, Shape, Fields
<1> QED
  BY <1>1, <1>2, <1>3, Zenon

\* do_exit keeps the invariant.
LEMMA ExitKept ==
    ASSUME NEW s, NEW S, MInv(s, S), ~s.panic, NEW p \in Procs, NEW r, r = Ended(s, p)
    PROVE  MInv(r, S)
<1> DEFINE alive == FALSE
<1>1. Sound(s) /\ Shape(s) /\ alive \in BOOLEAN /\ ~alive
  BY TypeHasShape DEF MInv, Sound
<1> HIDE DEF alive
<1>2. /\ Shape(r) /\ PcbSet(s, r, p, EmptyPcb(s.pcb[p], alive))
      /\ r.page_manager = s.page_manager /\ r.page_id = s.page_id
      /\ r.kernMemCurr = s.kernMemCurr /\ r.sector = s.sector /\ r.mem = s.mem
      /\ r.sd = s.sd /\ r.shm_page_table = s.shm_page_table /\ r.panic = s.panic
  BY <1>1, EndedFields
<1>3. /\ Sound(r) /\ \A u \in Vpns : Entry(r, p, u) = NoPte
      /\ \A q \in Procs : q # p => r.pcb[q] = s.pcb[q]
  BY <1>1, <1>2, ResetSound
<1>4. \A u \in ShmVpns : ~Entry(r, p, u).present
  BY <1>3, Layout DEF NoPte
<1>5. ShareInv(r, S)
  BY <1>2, <1>3, <1>4, SharingKept, SteadySame DEF MInv
<1> QED
  BY <1>2, <1>3, <1>5 DEF MInv

\* A fault on a page never mapped: the entry is not in use, on the card neither.
LEMMA FaultAllocKept ==
    ASSUME NEW s, NEW S, MInv(s, S), ~s.panic, NEW p \in Procs, s.pcb[p].alive, NEW v \in HeapVpns,
           ~Entry(s, p, v).present, ~Mapped(s, p, v),
           NEW r, r = alloc_page_helper(s, p, v, "SWAPABLE"), Bounded(r)
    PROVE  MInv(r, S)
<1>1. v \in Vpns \ ShmVpns
  BY Layout
<1>2. ~Entry(s, p, v).insd
  BY <1>1 DEF MInv, Sound, EntryInv, Mapped, Entry
<1>3. Sound(r) /\ Private(s, r, p) /\ (r.panic => (s.panic /\ r = s) \/ Stuck(r, p))
  BY <1>1, <1>2, AllocPageSound DEF MInv
<1> QED
  BY <1>3, PrivateKept

\* swap_to_mem hands out no slot.
LEMMA SwapInSector ==
    ASSUME NEW s, Shape(s), NEW p, NEW v, NEW f, NEW r, r = swap_to_mem(s, p, v, f)
    PROVE  r.sector = s.sector
<1>1. \/ r = s \/ r = Panic(s)
      \/ r = SwapBack(s, p, v, f, SwappedPage(s, p, v))
  BY Zenon DEF swap_to_mem, SwapBack
<1> QED
  BY <1>1, PanicFields, SwapBackFields

\* A fault on a page that is on the card: the process is at its limit, so a
\* page of its own makes room, and its frame is what swap_to_mem fills.
LEMMA FaultSwapKept ==
    ASSUME NEW s, NEW S, MInv(s, S), ~s.panic, NEW p \in Procs, s.pcb[p].alive, NEW v \in HeapVpns,
           Entry(s, p, v).insd, NEW t, t = IF Full(s, p) THEN do_swap(s, p) ELSE s,
           NEW kva \in IF ~Full(s, p) THEN Frames
                       ELSE IF CanSwap(s, p) THEN {swapped_kva(s, p)} ELSE {0},
           NEW r, r = swap_to_mem(t, p, v, kva), Bounded(r)
    PROVE  MInv(r, S)
<1>1. Sound(s) /\ v \in Vpns
  BY Layout DEF MInv
<1>2. Full(s, p) /\ ~Entry(s, p, v).present
  BY <1>1 DEF Sound, EntryInv
<1>3. t = do_swap(s, p) /\ t = Reserve(s, p)
  BY <1>2 DEF Reserve
<1>4. Shape(t)
  BY <1>1, <1>3, SoundRaw, ReserveGrows DEF Grows, Raw
<1>5. t.sector <= MaxSector
  BY <1>4, SwapInSector DEF Bounded
<1>6. /\ Sound(t) /\ Keeps(s, t, p)
      /\ CanSwap(s, p) => t.panic = s.panic /\ Free(t, swapped_kva(s, p))
      /\ ~CanSwap(s, p) => t.panic /\ Stuck(t, p)
  BY <1>1, <1>2, <1>3, <1>5, DoSwap
<1>7. Private(s, t, p)
  BY <1>6, KeepsPrivate
<1>8. CASE ~CanSwap(s, p)
  <2>1. r = t
    BY <1>6, <1>8, ZenonT(60) DEF swap_to_mem
  <2> QED
    BY <1>6, <1>7, <1>8, <2>1, PrivateKept
<1>9. CASE CanSwap(s, p)
  <2>1. kva = swapped_kva(s, p) /\ Free(t, kva) /\ ~t.panic
    BY <1>2, <1>6, <1>9
  <2>2. Entry(t, p, v) = Entry(s, p, v)
    BY <1>1, <1>2, <1>6 DEF Keeps
  <2>3. Sound(r) /\ Private(t, r, p) /\ ~r.panic
    BY <1>1, <1>6, <2>1, <2>2, SwapIn
  <2> QED
    BY <1>7, <2>3, PrivateTransitive, PrivateKept
<1> QED
  BY <1>8, <1>9

\* A store changes the contents of a frame and nothing else.
Stored(s, f, x) == [s EXCEPT !.mem[f] = x]

\* A store of a program keeps the invariant.
LEMMA StoreKept ==
    ASSUME NEW s, NEW S, MInv(s, S), ~s.panic, NEW f, NEW x \in Data, NEW r, r = Stored(s, f, x)
    PROVE  MInv(r, S)
<1>1. /\ Sound(s) /\ MemType(s) /\ Shape(s) /\ s.shm_page_table \in [ShmIds -> Shm]
      /\ s.panic \in BOOLEAN
  BY TypeHasShape DEF MInv, Sound, MemType
<1>2. /\ Shape(r) /\ MemSet(s, r, f, x)
      /\ r.page_manager = s.page_manager /\ r.page_id = s.page_id
      /\ r.kernMemCurr = s.kernMemCurr /\ r.sector = s.sector /\ r.pcb = s.pcb
      /\ r.sd = s.sd /\ r.shm_page_table = s.shm_page_table /\ r.panic = s.panic
  BY <1>1 DEF Stored, Shape, Fields, MemSet
<1>3. r.mem \in [Frames -> Contents]
  BY <1>1, <1>2, MemChange DEF Contents
<1>4. Sound(r)
  BY <1>1, <1>2, <1>3, SameSound
<1>5. ShareInv(r, S)
  BY <1>2 DEF MInv, ShareInv, Entry
<1> QED
  BY <1>2, <1>4, <1>5 DEF MInv

\* The three ways through shm_page_get: the key has a segment, it gets one,
\* or the table is full.
LEMMA ShmAgainKept ==
    ASSUME NEW s, NEW S, MInv(s, S), ~s.panic, NEW p \in Procs, s.pcb[p].alive,
           s.pcb[p].shm_page_num < MaxShm, NEW i \in ShmIds, s.shm_page_table[i].valid,
           NEW r, r = shm_again(s, p, i), Bounded(r)
    PROVE  MInv(r, S)
<1>1. /\ Sound(r) /\ Attaches(s, r, p, s.shm_page_table[i].pa)
      /\ r.panic => Stuck(r, p)
      /\ \A j \in ShmIds : /\ r.shm_page_table[j].valid = s.shm_page_table[j].valid
                           /\ r.shm_page_table[j].key = s.shm_page_table[j].key
                           /\ r.shm_page_table[j].pa = s.shm_page_table[j].pa
  BY ShmAgainSound DEF MInv
<1>2. r.panic => Hopeless(r)
  BY <1>1 DEF Hopeless, Attaches
<1>3. ShareInv(r, S)
  BY <1>1, SharingAttached DEF MInv
<1> QED
  BY <1>1, <1>2, <1>3 DEF MInv

\* The key gets a segment.
LEMMA ShmFirstKept ==
    ASSUME NEW s, NEW S, MInv(s, S), ~s.panic, NEW p \in Procs, s.pcb[p].alive,
           s.pcb[p].shm_page_num < MaxShm, NEW k \in Keys, NEW i \in ShmIds,
           NEW r, r = shm_first(s, p, k, i), Bounded(r)
    PROVE  MInv(r, IF r.panic THEN S ELSE S \cup {new_page(s)})
<1> DEFINE m == new_page(s)
<1>1. PICK f \in Nat :
         /\ Sound(r) /\ Attaches(s, r, p, f)
         /\ r.panic => Stuck(r, p) /\ r.shm_page_table = s.shm_page_table
         /\ ~r.panic => /\ f # 0
                        /\ r.shm_page_table[i].valid /\ r.shm_page_table[i].pa = f
                        /\ m \in PageIds /\ m < r.page_id
                        /\ r.page_manager[m].kva = f
                        /\ r.page_manager[m].uva = NoVa
                        /\ r.page_manager[m].pte = NoVa
                        /\ \A j \in ShmIds : j # i =>
                             r.shm_page_table[j] = s.shm_page_table[j]
  BY ShmFirstSound DEF MInv
<1>2. r.panic => Hopeless(r)
  BY <1>1 DEF Hopeless, Attaches
<1> HIDE DEF m
<1>3. ShareInv(s, S)
  BY DEF MInv
<1>4. CASE r.panic
  <2>1. \A u \in ShmVpns : Entry(r, p, u) = Entry(s, p, u)
    BY <1>1, <1>4 DEF Attaches
  <2>2. ShareInv(r, S)
    BY <1>1, <1>3, <1>4, <2>1, SharingKept DEF Attaches
  <2> QED
    BY <1>1, <1>2, <1>4, <2>2 DEF MInv
<1>5. CASE ~r.panic
  <2>1. ShareInv(r, S \cup {m})
    BY <1>1, <1>3, <1>5, SharingCreated
  <2> QED
    BY <1>1, <1>2, <1>5, <2>1 DEF MInv, m
<1> QED
  BY <1>4, <1>5

\* The table is full: the assertion OnlyVictimAssert allows for.
LEMMA ShmFullKept ==
    ASSUME NEW s, NEW S, MInv(s, S), \A i \in ShmIds : s.shm_page_table[i].valid, NEW r, r = Panic(s)
    PROVE  MInv(r, S)
<1>1. Sound(s) /\ Shape(s)
  BY TypeHasShape DEF MInv, Sound
<1>2. /\ Sound(r) /\ r.pcb = s.pcb /\ r.shm_page_table = s.shm_page_table
      /\ r.page_manager = s.page_manager /\ r.page_id = s.page_id
  BY <1>1, PanicFields, PanicSound
<1>3. Hopeless(r)
  BY <1>2 DEF Hopeless
<1>4. ShareInv(r, S)
  BY <1>2 DEF MInv, ShareInv, Entry
<1> QED
  BY <1>2, <1>3, <1>4 DEF MInv

\* Every step of a program keeps the invariant.
LEMMA ProgramKept ==
    ASSUME PInv, NEW p \in Procs, Program(p), Bounded(mm')
    PROVE  PInv'
<1>1. MInv(mm, shmPages) /\ tlb \in [Procs -> [Vpns -> Pte]]
  BY DEF PInv
<1>2. NoPte \in Pte
  BY DEF NoPte, Pte
<1>3. flush(p) \in [Procs -> [Vpns -> Pte]]
  BY <1>1, <1>2 DEF flush
<1>4. \A v \in Vpns : ~Translation(p, v).present => ~Entry(mm, p, v).present
  BY DEF Translation, Entry
<1> DEFINE Kept == MInv(mm', shmPages') /\ tlb' \in [Procs -> [Vpns -> Pte]]
<1>5. SUFFICES Kept
  BY DEF PInv
<1>6. CASE do_exec(p)
  <2>1. ~mm.panic /\ mm' = exec_memory(mm, p) /\ tlb' = flush(p) /\ shmPages' = shmPages
    BY <1>6 DEF do_exec
  <2> QED
    BY <1>1, <1>3, <2>1, ExecKept
<1>7. CASE do_exit(p)
  <2>1. mm' = Ended(mm, p) /\ ~mm.panic /\ tlb' = tlb /\ shmPages' = shmPages
    BY <1>7, Zenon DEF do_exit, Ended, Runs
  <2> QED
    BY <1>1, <2>1, ExitKept
<1>8. ASSUME NEW v \in HeapVpns, fault_alloc(p, v) PROVE Kept
  <2>1. v \in Vpns
    BY Layout
  <2>2. ~Entry(mm, p, v).present
    BY <1>4, <1>8, <2>1 DEF fault_alloc
  <2>3. /\ ~mm.panic /\ mm.pcb[p].alive /\ ~Mapped(mm, p, v)
        /\ mm' = alloc_page_helper(mm, p, v, "SWAPABLE") /\ tlb' = tlb /\ shmPages' = shmPages
    BY <1>8 DEF fault_alloc, Runs
  <2> QED
    BY <1>1, <2>2, <2>3, FaultAllocKept
<1>9. ASSUME NEW v \in HeapVpns, fault_swap(p, v) PROVE Kept
  <2> DEFINE t == IF Full(mm, p) THEN do_swap(mm, p) ELSE mm
  <2>1. PICK kva \in IF ~Full(mm, p) THEN Frames
                     ELSE IF CanSwap(mm, p) THEN {swapped_kva(mm, p)} ELSE {0} :
             mm' = swap_to_mem(t, p, v, kva)
    BY <1>9, Zenon DEF fault_swap
  <2>2. /\ ~mm.panic /\ mm.pcb[p].alive /\ Entry(mm, p, v).insd
        /\ tlb' = flush(p) /\ shmPages' = shmPages
    BY <1>9 DEF fault_swap, Runs, Entry
  <2> QED
    BY <1>1, <1>3, <2>1, <2>2, FaultSwapKept
<1>10. ASSUME NEW v \in HeapVpns \cup ShmVpns, NEW x \in Data, Store(p, v, x)
       PROVE  Kept
  <2>1. /\ mm' = Stored(mm, Translation(p, v).pfn, x) /\ ~mm.panic
        /\ tlb' = tlb /\ shmPages' = shmPages
    BY <1>10, Zenon DEF Store, Stored, Runs
  <2> QED
    BY <1>1, <2>1, StoreKept
<1>11. ASSUME NEW k \in Keys, shm_page_get(p, k) PROVE Kept
  <2> DEFINE A == ShmOf(k)
             B == ShmFree
  <2>1. A \in SUBSET Nat /\ B \in SUBSET Nat
    BY DEF ShmOf, ShmFree, ShmIds
  <2>2. /\ ~mm.panic /\ mm.pcb[p].alive /\ mm.pcb[p].shm_page_num < MaxShm /\ tlb' = flush(p)
        /\ mm' = IF A # {} THEN shm_again(mm, p, Min(A))
                 ELSE IF B # {} THEN shm_first(mm, p, k, Min(B)) ELSE Panic(mm)
        /\ shmPages' = IF A = {} /\ ~mm'.panic THEN shmPages \cup {new_page(mm)} ELSE shmPages
    BY <1>11 DEF shm_page_get, Runs
  <2>3. (A # {} => Min(A) \in A) /\ (B # {} => Min(B) \in B)
    <3> HIDE DEF A, B
    <3> QED BY <2>1, MinIsLeast
  <2>4. CASE A # {}
    <3>1. Min(A) \in ShmIds /\ mm.shm_page_table[Min(A)].valid
      BY <2>3, <2>4 DEF ShmOf
    <3>2. mm' = shm_again(mm, p, Min(A)) /\ shmPages' = shmPages
      BY <2>2, <2>4
    <3> QED
      BY <1>1, <1>3, <2>2, <3>1, <3>2, ShmAgainKept
  <2>5. CASE A = {} /\ B # {}
    <3>1. Min(B) \in ShmIds
      BY <2>3, <2>5 DEF ShmFree
    <3>2. /\ mm' = shm_first(mm, p, k, Min(B))
          /\ shmPages' = IF mm'.panic THEN shmPages ELSE shmPages \cup {new_page(mm)}
      BY <2>2, <2>5
    <3> DEFINE S == IF mm'.panic THEN shmPages ELSE shmPages \cup {new_page(mm)}
    <3>3. MInv(mm', S)
      BY <1>1, <2>2, <3>1, <3>2, ShmFirstKept
    <3>4. shmPages' = S
      BY <3>2
    <3> HIDE DEF S
    <3> QED
      BY <1>3, <2>2, <3>3, <3>4
  <2>6. CASE A = {} /\ B = {}
    <3>1. \A i \in ShmIds : mm.shm_page_table[i].valid
      BY <2>6 DEF ShmFree
    <3>2. mm' = Panic(mm) /\ Shape(mm)
      BY <1>1, <2>2, <2>6, TypeHasShape DEF MInv, Sound
    <3>3. mm'.panic
      BY <3>2 DEF Panic, Shape, Fields
    <3>4. shmPages' = shmPages
      BY <2>2, <3>3
    <3> QED
      BY <1>1, <1>3, <2>2, <3>1, <3>2, <3>4, ShmFullKept
  <2> QED
    BY <2>4, <2>5, <2>6
<1>12. ASSUME NEW v \in ShmVpns, shm_page_dt(p, v) PROVE Kept
  <2> DEFINE others == {i \in ShmIds : mm.shm_page_table[i].pa # Entry(mm, p, v).pfn}
             i == Min(others)
             n == (mm.shm_page_table[i].num - 1) % NumMod
  <2>1. /\ ~mm.panic /\ Entry(mm, p, v).present /\ others # {} /\ tlb' = flush(p)
        /\ mm' = Detach(mm, p, v, i, n) /\ shmPages' = shmPages
    BY <1>12, Zenon DEF shm_page_dt, Runs, Entry, Detach
  <2>2. i \in others
    <3>1. others \in SUBSET Nat
      BY DEF ShmIds
    <3> HIDE DEF others
    <3> QED BY <2>1, <3>1, MinIsLeast
  <2>3. i \in ShmIds
    BY <2>2
  <2> HIDE DEF i
  <2>4. n \in 0 .. NumMod - 1
    <3>1. mm.shm_page_table[i] \in Shm
      BY <1>1, <2>3 DEF MInv, Sound, MemType
    <3>2. mm.shm_page_table[i].num \in Int /\ NumMod \in Nat \ {0}
      BY <3>1, PagingAssumption DEF Shm
    <3> QED
      BY <3>2
  <2> HIDE DEF n
  <2>5. /\ Sound(mm') /\ mm'.panic = mm.panic
        /\ \A S : ShareInv(mm, S) => ShareInv(mm', S)
    BY <1>1, <2>1, <2>3, <2>4, DetachSound DEF MInv
  <2> QED
    BY <1>1, <1>3, <2>1, <2>5 DEF MInv
<1>13. ASSUME NEW v \in HeapVpns \cup ShmVpns, tlb_fill(p, v) PROVE Kept
  <2>1. v \in Vpns
    BY Layout
  <2>2. Entry(mm, p, v) \in Pte
    BY <1>1, <2>1, Parts DEF MInv, Sound
  <2>3. /\ tlb' = [tlb EXCEPT ![p][v] = Entry(mm, p, v)]
        /\ mm' = mm /\ shmPages' = shmPages
    BY <1>13 DEF tlb_fill, Entry
  <2> QED
    BY <1>1, <2>1, <2>2, <2>3
<1>14. CASE tlb_switch(p)
  <2>1. tlb' = flush(p) /\ mm' = mm /\ shmPages' = shmPages
    BY <1>14 DEF tlb_switch
  <2> QED
    BY <1>1, <1>3, <2>1
<1> QED
  BY <1>6, <1>7, <1>8, <1>9, <1>10, <1>11, <1>12, <1>13, <1>14 DEF Program

\* The invariant holds in every state.
LEMMA PagingHolds == Spec => []PInv
<1>1. Init => PInv
  <2> SUFFICES ASSUME Init PROVE PInv
    OBVIOUS
  <2>1. mm = init_pagetable /\ shmPages = {} /\ tlb = [p \in Procs |-> [v \in Vpns |-> NoPte]]
    BY DEF Init
  <2>2. NoPte \in Pte
    BY DEF NoPte, Pte
  <2> QED
    BY <2>1, <2>2, InitKept DEF PInv
<1>2. PInv /\ [Next]_vars => PInv'
  <2> SUFFICES ASSUME PInv, [Next]_vars PROVE PInv'
    OBVIOUS
  <2>1. CASE UNCHANGED vars
    BY <2>1 DEF vars, PInv
  <2>2. CASE Halted
    BY <2>2 DEF Halted, vars, PInv
  <2>3. ASSUME NEW p \in Procs, Program(p), Bounded(mm') PROVE PInv'
    BY <2>3, ProgramKept
  <2> QED
    BY <2>1, <2>2, <2>3 DEF Next
<1> QED
  BY <1>1, <1>2, PTL DEF Spec

-----------------------------------------------------------------------------

\* Every state of the memory management is of the types mm.c declares, and
\* no process ever counts more than MAX_PAGETABLE_NUM pages, through every
\* sequence of allocations, swaps, execs and exits: at its limit a process
\* gets a frame only by giving one up.  (That page_id and the swap slots stay
\* within their arrays is a bound of the model.)
THEOREM PagingTypes == Spec => []TypeOK
<1>1. PInv => TypeOK
  <2> SUFFICES ASSUME PInv PROVE TypeOK
    OBVIOUS
  <2>1. MemType(mm)
    BY DEF PInv, MInv, Sound
  <2>2. tlb \in [Procs -> [Vpns -> Pte]] /\ shmPages \subseteq PageIds
    BY DEF PInv, MInv, ShareInv
  <2>3. 1 .. PAGE_NUM + 1 \subseteq Nat
    BY PagingAssumption
  <2>4. mm \in [page_manager : [PageIds -> Page], page_id : 0 .. PAGE_NUM, kernMemCurr : Nat,
                sector : 0 .. MaxSector, mem : [Frames -> Contents],
                sd : [0 .. MaxSector - 1 -> Contents], pcb : [Procs -> Pcb],
                shm_page_table : [ShmIds -> Shm], panic : BOOLEAN]
    BY <2>1, <2>3 DEF MemType
  <2> QED
    BY <2>2, <2>4 DEF TypeOK
<1> QED
  BY <1>1, PagingHolds, PTL

\* No two entries of page_manager hold one frame, the page of a segment is
\* never swapped out, and a page directory leads only to the process's own
\* pages and to pages of segments, for any keys and any number of segments,
\* whatever was swapped, attached and detached before, and whatever the
\* program stored through translations that were out of date.
THEOREM PagingFramesExclusive == Spec => []FramesExclusive
<1>1. PInv => FramesExclusive
  <2> SUFFICES ASSUME PInv PROVE FramesExclusive
    OBVIOUS
  <2>1. Sound(mm) /\ ShareInv(mm, shmPages)
    BY DEF PInv, MInv
  <2>2. \A i, j \in PageIds :
          i # j /\ mm.page_manager[i].kva # 0 => mm.page_manager[i].kva # mm.page_manager[j].kva
    BY <2>1 DEF Sound, PoolInv
  <2>3. \A i \in shmPages : mm.page_manager[i].kva # 0 /\ mm.page_manager[i].uva = NoVa
    BY <2>1 DEF ShareInv
  <2>4. ASSUME NEW p \in Procs, NEW v \in Vpns, v \in ShmVpns, Entry(mm, p, v).present
        PROVE  \E i \in shmPages : mm.page_manager[i].kva = Entry(mm, p, v).pfn
    BY <2>1, <2>4 DEF ShareInv
  <2>5. ASSUME NEW p \in Procs, NEW v \in Vpns, v \notin ShmVpns, Entry(mm, p, v).present
        PROVE  \E i \in Own(mm, p) :
                  mm.page_manager[i].kva = Entry(mm, p, v).pfn /\ mm.page_manager[i].uva = v
    <3>1. OwnInv(mm, p) /\ EntryInv(mm, p)
      BY <2>1 DEF Sound
    <3>2. PICK i \in Own(mm, p) : mm.page_manager[i].pte = v
      BY <2>5, <3>1 DEF EntryInv
    <3>3. mm.page_manager[i].pte # NoVa
      BY <3>2, Layout
    <3>4. InMemory(mm, p, i)
      BY <2>5, <3>1, <3>2, <3>3 DEF OwnInv, OnCard
    <3> QED
      BY <3>2, <3>4 DEF InMemory
  <2> QED
    BY <2>2, <2>3, <2>4, <2>5 DEF FramesExclusive, Own, Entry
<1> QED
  BY <1>1, PagingHolds, PTL

\* A process with a page on the card is at its limit, so that the fault
\* handlers never pass swap_to_mem the kva they did not assign.
THEOREM PagingSwapsWhenFull == Spec => []SwappedOnlyWhenFull
<1>1. PInv => SwappedOnlyWhenFull
  BY DEF PInv, MInv, Sound, EntryInv, SwappedOnlyWhenFull, Entry
<1> QED
  BY <1>1, PagingHolds, PTL

\* The assertions of get_pte and swap_to_mem never fail: a kernel that
\* panicked had no page to swap out, or no free entry for a shared page.
THEOREM PagingOnlyVictimAssert == Spec => []OnlyVictimAssert
<1>1. PInv => OnlyVictimAssert
  BY DEF PInv, MInv, Hopeless, Stuck, OnlyVictimAssert, ShmFree
<1> QED
  BY <1>1, PagingHolds, PTL
=============================================================================
