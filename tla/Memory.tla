------------------------------- MODULE Memory -------------------------------
(***************************************************************************)
(* What the memory management promises to user programs, without frames,   *)
(* page tables or swapping: every process has its own pages, a page keeps  *)
(* what was last written to it, and only pages attached to the same shared *)
(* segment influence each other.  Module Paging implements it.             *)
(***************************************************************************)
EXTENDS Integers

CONSTANTS
    Procs,      \* processes
    Vpns,       \* virtual page numbers
    Data,       \* what programs write to a page
    Keys        \* keys of shared segments; Private is none of them

VARIABLES
    view,       \* view[p][v]: what process p reads at page v
    seg         \* seg[p][v]: the key of the segment attached there, or Private

vars == <<view, seg>>

Unmapped == "unmapped"
Private == -1

\* What a page may hold that nobody wrote: zeroes, memory that was never
\* used, or the program's image.
Zero == "zero"
Junk == "junk"
Image == "image"

Contents == Data \cup {Zero, Junk, Image}

Nothing == [v \in Vpns |-> Unmapped]
NoSegs == [v \in Vpns |-> Private]

Init ==
    /\ view = [p \in Procs |-> Nothing]
    /\ seg = [p \in Procs |-> NoSegs]

\* The pages that show the same memory as page v of p.
Aliases(p, v) ==
    {a \in Procs \X Vpns :
        \/ a = <<p, v>>
        \/ seg[p][v] # Private /\ seg[a[1]][a[2]] = seg[p][v]}

\* A program starts: its image and its stack, and nothing of anybody else.
Start(p) ==
    /\ view' = [view EXCEPT ![p] = view'[p]]
    /\ view'[p] \in [Vpns -> {Unmapped, Zero, Junk, Image}]
    /\ seg' = [seg EXCEPT ![p] = NoSegs]

Stop(p) ==
    /\ view' = [view EXCEPT ![p] = Nothing]
    /\ seg' = [seg EXCEPT ![p] = NoSegs]

\* The first access to a page: it shows nobody's data.
Touch(p, v) ==
    /\ view[p][v] = Unmapped
    /\ \E x \in {Zero, Junk} : view' = [view EXCEPT ![p][v] = x]
    /\ UNCHANGED seg

Write(p, v, x) ==
    /\ view[p][v] # Unmapped
    /\ view' = [q \in Procs |-> [w \in Vpns |->
                  IF <<q, w>> \in Aliases(p, v) THEN x ELSE view[q][w]]]
    /\ UNCHANGED seg

\* A segment shows what the others attached to it see; the contents of a
\* segment nobody is attached to are not specified.
Attach(p, v, k) ==
    /\ view[p][v] = Unmapped
    /\ seg' = [seg EXCEPT ![p][v] = k]
    /\ \E x \in Contents :
        /\ view' = [view EXCEPT ![p][v] = x]
        /\ \A q \in Procs, w \in Vpns : seg[q][w] = k => view[q][w] = x

Detach(p, v) ==
    /\ seg[p][v] # Private
    /\ view' = [view EXCEPT ![p][v] = Unmapped]
    /\ seg' = [seg EXCEPT ![p][v] = Private]

\* A snapshot is a private copy.
Snapshot(p, v, w) ==
    /\ view[p][v] # Unmapped
    /\ view[p][w] = Unmapped
    /\ view' = [view EXCEPT ![p][w] = view[p][v]]
    /\ UNCHANGED seg

Next ==
    \E p \in Procs :
        \/ Start(p)
        \/ Stop(p)
        \/ \E v \in Vpns : Touch(p, v) \/ Detach(p, v)
        \/ \E v \in Vpns, x \in Data : Write(p, v, x)
        \/ \E v \in Vpns, k \in Keys : Attach(p, v, k)
        \/ \E v, w \in Vpns : Snapshot(p, v, w)

Spec == Init /\ [][Next]_vars
=============================================================================
