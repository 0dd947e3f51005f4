------------------------- MODULE KernelEntryProofs -------------------------
(***************************************************************************)
(* Module KernelEntry for any number of cores and tasks: one core at a     *)
(* time in the kernel, and no register context torn.                       *)
(*                                                                         *)
(* Three invariants, each proved from the ones before it: XInv, where the  *)
(* cores are (KernelExclusive, and that nobody is awake before core 0 has  *)
(* initialised the kernel); CInv, where each task's registers are; EInv,   *)
(* the types of the rest and that a core finds its page table mapped while *)
(* it still boots.  The last needs that at most one core besides core 0    *)
(* boots, as on the board: the first to arrive takes the boot mapping      *)
(* away, whoever else is still below main.                                 *)
(***************************************************************************)
EXTENDS KernelEntry, TLAPS

-----------------------------------------------------------------------------
(* One core at a time in the kernel *)

Pcs == BootPcs \cup MainPcs \cup TrapPcs
Inside == {"main_init", "main_wakeup", "main_timer", "main_unlock",
           "handler", "switch_to", "return", "ret_from_exception", "halted", "own_lock"}

\* Nobody else is awake until core 0 has initialised the kernel.
Asleep == {"bootblock", "wait_for_wakeup"}
BeforeInit == BootPcs \cup {"main", "main_lock", "main_init"}
BootInv ==
    /\ pc[0] # "wait_for_wakeup"
    /\ pc[0] \in BeforeInit \cup {"main_wakeup"} =>
         \A d \in Cores \ {0} : pc[d] \in Asleep /\ ~ipi[d]
    /\ \A d \in Cores \ {0} : pc[d] # "main_wakeup"

PlaceOK == pc \in [Cores -> Pcs] /\ lock \in {0, 1} /\ ipi \in [Cores -> BOOLEAN]
XInv == PlaceOK /\ KernelExclusive /\ BootInv

\* What a step of core c does to pc and the lock, seen by KernelExclusive.
Moves(c, q) == c \in Cores /\ q \in Pcs /\ pc' = [pc EXCEPT ![c] = q]

\* What a step of core c to pc q leaves alone.
LEMMA MovesFacts ==
    ASSUME PlaceOK, NEW c, NEW q, Moves(c, q)
    PROVE  pc' \in [Cores -> Pcs] /\ pc'[c] = q /\ \A d \in Cores : d # c => pc'[d] = pc[d]
  BY DEF PlaceOK, Moves

\* A core that goes on in the kernel, or outside it.
LEMMA MovesOn ==
    ASSUME XInv, NEW c, NEW q, Moves(c, q), lock' = lock, q \in Inside => pc[c] \in Inside
    PROVE  KernelExclusive'
  BY MovesFacts DEF XInv, Moves, KernelExclusive, InKernel, Inside

\* A core that takes the lock,
LEMMA MovesIn ==
    ASSUME XInv, NEW c, NEW q, Moves(c, q), lock = 0, lock' = 1
    PROVE  KernelExclusive'
  BY MovesFacts DEF XInv, Moves, KernelExclusive, InKernel, Inside

\* and one that leaves the kernel.
LEMMA MovesOut ==
    ASSUME XInv, NEW c, NEW q, Moves(c, q), q \notin Inside, pc[c] \in Inside
    PROVE  KernelExclusive'
  BY MovesFacts, ZenonT(60) DEF XInv, Moves, KernelExclusive, InKernel, Inside

\* While core 0 has not initialised the kernel it is alone.
LEMMA MovesAlone ==
    ASSUME XInv, NEW q, Moves(0, q), q \notin Inside,
           pc[0] \in BeforeInit
    PROVE  KernelExclusive'
  BY MovesFacts, ZenonT(60) DEF XInv, BootInv, Moves, KernelExclusive, InKernel, Inside, Asleep

-----------------------------------------------------------------------------
\* The steps up to main keep the invariant.
LEMMA BootMoves ==
    ASSUME XInv, NEW c \in Cores, boot(c)
    PROVE  XInv'
  <1> USE DEF Goto, bootVars
  <1> USE EntryAssumption
  <1>1. CASE bootblock(c)
    <2>1. PICK q \in Pcs : /\ Moves(c, q) /\ lock' = lock /\ q \notin Inside
                           /\ ipi' = IF c = 0 THEN ipi ELSE [ipi EXCEPT ![c] = FALSE]
                           /\ q = IF c = 0 THEN "boot_kernel" ELSE "wait_for_wakeup"
      BY <1>1 DEF bootblock, Moves, Pcs, BootPcs, Inside
    <2>2. KernelExclusive'  BY <2>1, MovesOn
    <2>3. BootInv'
      BY <1>1, <2>1, MovesFacts DEF XInv, PlaceOK, BootInv, bootblock, Asleep, BeforeInit, BootPcs
    <2> QED  BY <2>1, <2>2, <2>3, MovesFacts DEF XInv, PlaceOK
  <1>2. CASE wait_for_wakeup(c)
    <2>1. Moves(c, "boot_kernel") /\ lock' = lock /\ ipi' = [ipi EXCEPT ![c] = FALSE]
      BY <1>2 DEF wait_for_wakeup, Moves, Pcs, BootPcs
    <2>2. KernelExclusive'  BY <2>1, MovesOn DEF Inside
    <2>3. BootInv'
      BY <1>2, <2>1, MovesFacts DEF XInv, PlaceOK, BootInv, wait_for_wakeup, Asleep, BeforeInit, BootPcs
    <2> QED  BY <2>1, <2>2, <2>3, MovesFacts DEF XInv, PlaceOK
  <1>3. CASE boot_kernel(c)
    <2>1. Moves(c, "_start") /\ lock' = lock /\ ipi' = ipi
      BY <1>3 DEF boot_kernel, Moves, Pcs, BootPcs
    <2>2. KernelExclusive'  BY <2>1, MovesOn DEF Inside
    <2>3. BootInv'
      BY <1>3, <2>1, MovesFacts, ZenonT(60) DEF XInv, BootInv, boot_kernel, Asleep, BeforeInit, BootPcs
    <2> QED  BY <2>1, <2>2, <2>3, MovesFacts DEF XInv, PlaceOK
  <1>4. CASE _start(c)
    <2>1. Moves(c, "main") /\ ipi' = ipi /\ lock' = IF c = 0 THEN 0 ELSE lock
      BY <1>4 DEF _start, Moves, Pcs, MainPcs
    <2>2. KernelExclusive'
      <3>1. CASE c = 0  BY <1>4, <2>1, <3>1, MovesAlone DEF _start, Inside, BeforeInit, BootPcs
      <3>2. CASE c # 0  BY <2>1, <3>2, MovesOn DEF Inside
      <3> QED  BY <3>1, <3>2
    <2>3. BootInv'
      BY <1>4, <2>1, MovesFacts DEF XInv, BootInv, _start, Asleep, BeforeInit, BootPcs
    <2> QED  BY <2>1, <2>2, <2>3, MovesFacts DEF XInv, PlaceOK
  <1>5. CASE smp_init(c)
    <2>1. Moves(c, "main_lock") /\ ipi' = ipi /\ lock' = IF c = 0 THEN 0 ELSE lock
      BY <1>5 DEF smp_init, Moves, Pcs, MainPcs
    <2>2. KernelExclusive'
      <3>1. CASE c = 0  BY <1>5, <2>1, <3>1, MovesAlone DEF smp_init, Inside, BeforeInit
      <3>2. CASE c # 0  BY <2>1, <3>2, MovesOn DEF Inside
      <3> QED  BY <3>1, <3>2
    <2>3. BootInv'
      BY <1>5, <2>1, MovesFacts DEF XInv, BootInv, smp_init, Asleep, BeforeInit, BootPcs
    <2> QED  BY <2>1, <2>2, <2>3, MovesFacts DEF XInv, PlaceOK
  <1>6. CASE main_master(c)
    <2>1. c = 0 /\ Moves(c, "main_wakeup") /\ ipi' = ipi /\ lock' = lock
      BY <1>6 DEF main_master, Moves, Pcs, MainPcs
    <2>2. KernelExclusive'  BY <1>6, <2>1, MovesOn DEF main_master, Inside
    <2>3. BootInv'
      BY <1>6, <2>1, MovesFacts DEF XInv, BootInv, main_master, Asleep, BeforeInit, BootPcs
    <2> QED  BY <2>1, <2>2, <2>3, MovesFacts DEF XInv, PlaceOK
  <1>7. CASE wakeup_other_hart(c)
    <2>1. Moves(c, "main_timer") /\ lock' = lock /\ ipi' = [d \in Cores |-> d # c]
      BY <1>7 DEF wakeup_other_hart, Moves, Pcs, MainPcs
    <2>2. KernelExclusive'  BY <1>7, <2>1, MovesOn DEF wakeup_other_hart, Inside
    <2>3. BootInv'
      BY <1>7, <2>1, MovesFacts DEF XInv, BootInv, wakeup_other_hart, Asleep, BeforeInit, BootPcs
    <2> QED  BY <2>1, <2>2, <2>3, MovesFacts DEF XInv, PlaceOK
  <1>8. CASE main_slave(c)
    <2>1. c # 0 /\ Moves(c, "main_timer") /\ lock' = lock /\ ipi' = ipi
      BY <1>8 DEF main_slave, Moves, Pcs, MainPcs
    <2>2. KernelExclusive'  BY <1>8, <2>1, MovesOn DEF main_slave, Inside
    <2>3. BootInv'
      BY <1>8, <2>1, MovesFacts DEF XInv, BootInv, main_slave, Asleep, BeforeInit, BootPcs
    <2> QED  BY <2>1, <2>2, <2>3, MovesFacts DEF XInv, PlaceOK
  <1>9. CASE bios_set_timer(c)
    <2>1. Moves(c, "main_unlock") /\ lock' = lock /\ ipi' = ipi
      BY <1>9 DEF bios_set_timer, Moves, Pcs, MainPcs
    <2>2. KernelExclusive'  BY <1>9, <2>1, MovesOn DEF bios_set_timer, Inside
    <2>3. BootInv'
      BY <1>9, <2>1, MovesFacts DEF XInv, BootInv, bios_set_timer, Asleep, BeforeInit, BootPcs
    <2> QED  BY <2>1, <2>2, <2>3, MovesFacts DEF XInv, PlaceOK
  <1>10. CASE main_unlock(c)
    <2>1. Moves(c, "run") /\ lock' = 0 /\ ipi' = ipi
      BY <1>10 DEF main_unlock, Moves, Pcs, TrapPcs
    <2>2. KernelExclusive'  BY <1>10, <2>1, MovesOut DEF main_unlock, Inside
    <2>3. BootInv'
      BY <1>10, <2>1, MovesFacts DEF XInv, BootInv, main_unlock, Asleep, BeforeInit, BootPcs
    <2> QED  BY <2>1, <2>2, <2>3, MovesFacts DEF XInv, PlaceOK
  <1> QED  BY <1>1, <1>2, <1>3, <1>4, <1>5, <1>6, <1>7, <1>8, <1>9, <1>10 DEF boot

\* Steps that a core makes after its boot touch nothing BootInv is about.
Later == {"main_lock", "run", "save", "save_rest", "trap_lock", "handler", "switch_to", "return",
          "ret_from_exception", "restore", "halted", "own_lock"}
\* Once a core is past main_lock, the order of booting is settled.
LEMMA LaterMoves ==
    ASSUME XInv, NEW c, NEW q, Moves(c, q), ipi' = ipi, pc[c] \in Later \cup {"main_unlock"},
           q \in Later \ {"main_lock"} \/ (q = "main_init" /\ pc[c] = "main_lock")
    PROVE  BootInv'
  BY EntryAssumption, MovesFacts DEF XInv, BootInv, Moves, Later, Asleep, BeforeInit, BootPcs

\* The steps in the kernel and the traps into it keep the invariant,
LEMMA KernelMoves ==
    ASSUME XInv, NEW c \in Cores,
           kernel(c) \/ compute(c) \/ interrupt(c) \/ ecall(c) \/ handler_stops(c) \/ spin(c)
    PROVE  XInv'
  <1> USE DEF Goto, bootVars
  <1>1. CASE SAVE_CONTEXT(c)
    <2>1. PICK q \in {"save_rest", "trap_lock"} : Moves(c, q) /\ ipi' = ipi /\ lock' = lock
      BY <1>1 DEF SAVE_CONTEXT, Moves, Pcs, TrapPcs
    <2>2. KernelExclusive'  BY <2>1, MovesOn DEF Inside
    <2>3. BootInv'  BY <1>1, <2>1, LaterMoves DEF SAVE_CONTEXT, Later
    <2> QED  BY <2>1, <2>2, <2>3, MovesFacts DEF XInv, PlaceOK
  <1>2. CASE lock_kernel(c)
    <2>1. PICK q \in {"main_init", "handler"} :
            /\ Moves(c, q) /\ ipi' = ipi /\ lock = 0 /\ lock' = 1
            /\ q = "main_init" => pc[c] = "main_lock"
      BY <1>2 DEF lock_kernel, Moves, Pcs, MainPcs, TrapPcs
    <2>2. KernelExclusive'  BY <2>1, MovesIn
    <2>3. BootInv'  BY <1>2, <2>1, LaterMoves DEF lock_kernel, Later
    <2> QED  BY <2>1, <2>2, <2>3, MovesFacts DEF XInv, PlaceOK
  <1>3. CASE pc' = pc /\ lock' = lock /\ ipi' = ipi
    BY <1>3 DEF XInv, PlaceOK, KernelExclusive, InKernel, BootInv
  <1>4. CASE interrupt_helper(c)
    <2>1. PICK q \in {"return", "switch_to"} : Moves(c, q) /\ ipi' = ipi /\ lock' = lock
      BY <1>4 DEF interrupt_helper, reschedule, Moves, Pcs, TrapPcs
    <2>2. KernelExclusive'  BY <1>4, <2>1, MovesOn DEF interrupt_helper, Inside
    <2>3. BootInv'  BY <1>4, <2>1, LaterMoves DEF interrupt_helper, Later
    <2> QED  BY <2>1, <2>2, <2>3, MovesFacts DEF XInv, PlaceOK
  <1>5. CASE switch_to(c)
    <2>1. PICK q \in {"return", "ret_from_exception"} : Moves(c, q) /\ ipi' = ipi /\ lock' = lock
      BY <1>5 DEF switch_to, Moves, Pcs, TrapPcs
    <2>2. KernelExclusive'  BY <1>5, <2>1, MovesOn DEF switch_to, Inside
    <2>3. BootInv'  BY <1>5, <2>1, LaterMoves DEF switch_to, Later
    <2> QED  BY <2>1, <2>2, <2>3, MovesFacts DEF XInv, PlaceOK
  <1>6. CASE handler_returns(c)
    <2>1. Moves(c, "ret_from_exception") /\ ipi' = ipi /\ lock' = lock
      BY <1>6 DEF handler_returns, Moves, Pcs, TrapPcs
    <2>2. KernelExclusive'  BY <1>6, <2>1, MovesOn DEF handler_returns, Inside
    <2>3. BootInv'  BY <1>6, <2>1, LaterMoves DEF handler_returns, Later
    <2> QED  BY <2>1, <2>2, <2>3, MovesFacts DEF XInv, PlaceOK
  <1>7. CASE ret_from_exception(c)
    <2>1. Moves(c, "restore") /\ ipi' = ipi /\ lock' = 0
      BY <1>7 DEF ret_from_exception, Moves, Pcs, TrapPcs
    <2>2. KernelExclusive'  BY <1>7, <2>1, MovesOut DEF ret_from_exception, Inside
    <2>3. BootInv'  BY <1>7, <2>1, LaterMoves DEF ret_from_exception, Later
    <2> QED  BY <2>1, <2>2, <2>3, MovesFacts DEF XInv, PlaceOK
  <1>8. CASE RESTORE_CONTEXT(c)
    <2>1. Moves(c, "run") /\ ipi' = ipi /\ lock' = lock
      BY <1>8 DEF RESTORE_CONTEXT, Moves, Pcs, TrapPcs
    <2>2. KernelExclusive'  BY <1>8, <2>1, MovesOn DEF RESTORE_CONTEXT, Inside
    <2>3. BootInv'  BY <1>8, <2>1, LaterMoves DEF RESTORE_CONTEXT, Later
    <2> QED  BY <2>1, <2>2, <2>3, MovesFacts DEF XInv, PlaceOK
  <1>9. CASE interrupt(c) \/ ecall(c) \/ handler_stops(c)
    <2>1. PICK q \in {"save", "halted", "own_lock"} :
            /\ Moves(c, q) /\ ipi' = ipi /\ lock' = lock
            /\ pc[c] \in Later \cup {"main_unlock"}
            /\ q # "save" => pc[c] \in Inside
      BY <1>9 DEF interrupt, ecall, handler_stops, trap, trap_inside, Moves, Pcs, TrapPcs, Later, Inside
    <2>2. KernelExclusive'  BY <2>1, MovesOn DEF Inside
    <2>3. BootInv'  BY <2>1, LaterMoves DEF Later
    <2> QED  BY <2>1, <2>2, <2>3, MovesFacts DEF XInv, PlaceOK
  <1>10. CASE compute(c)  BY <1>3, <1>10 DEF compute
  <1>11. CASE \E t \in Tasks : do_unblock(c, t) \/ do_exec(c, t)
    BY <1>3, <1>11 DEF do_unblock, do_exec
  <1>12. CASE spin(c)  BY <1>3, <1>12 DEF spin, vars
  <1> QED  BY <1>1, <1>2, <1>4, <1>5, <1>6, <1>7, <1>8, <1>9, <1>10, <1>11, <1>12 DEF kernel

\* and so does every step.
LEMMA XInvKept == XInv /\ [Next]_vars => XInv'
  <1> SUFFICES ASSUME XInv, [Next]_vars PROVE XInv'
    OBVIOUS
  <1>1. CASE UNCHANGED vars
    BY <1>1 DEF vars, bootVars, XInv, PlaceOK, KernelExclusive, InKernel, BootInv
  <1>2. CASE Next
    BY <1>2, BootMoves, KernelMoves DEF Next
  <1> QED  BY <1>1, <1>2

\* It holds when the machine is switched on,
LEMMA XInvInit == Init => XInv
  BY EntryAssumption DEF Init, XInv, PlaceOK, KernelExclusive, InKernel, BootInv, Pcs, BootPcs,
     BeforeInit, Asleep

\* and so in every state.
LEMMA XInvAlways == Spec => []XInv
  BY XInvInit, XInvKept, PTL DEF Spec

\* One core at a time is between lock_kernel and unlock_kernel, however many
\* cores there are, wherever the first timer interrupt comes and whatever
\* handlers assert or fault (KernelExclusive).
THEOREM EntryExclusive == Spec => []KernelExclusive
  <1>1. XInv => KernelExclusive  BY DEF XInv
  <1> QED  BY <1>1, XInvAlways, PTL

-----------------------------------------------------------------------------
(* No register context torn *)

\* Where the registers of a core's program are: not started ("boot"), in main
\* ("main"), in the registers ("regs"), on the kernel stack ("ctx"), or there,
\* with do_scheduler about to leave that stack ("switch"); or the core will
\* never leave the kernel ("dead").
Zone(p) ==
    IF p \in BootPcs THEN "boot"
    ELSE IF p \in MainPcs THEN "main"
    ELSE IF p \in {"run", "save", "save_rest"} THEN "regs"
    ELSE IF p = "switch_to" THEN "switch"
    ELSE IF p \in {"halted", "own_lock"} THEN "dead" ELSE "ctx"
zone == [c \in Cores |-> Zone(pc[c])]

\* Core 0 has initialised the kernel.
up == pc[0] \notin BeforeInit

TaskTypes ==
    /\ tp \in [Cores -> Pcbs \cup {NoPcb}] /\ running \in [Cores -> Pcbs \cup {NoPcb}]
    /\ status \in [Tasks -> {"free", "ready", "running", "blocked"}]
    /\ frame \in [Pcbs -> {"none", "new", "handler"}]
    /\ ctx \in [Pcbs -> Values \cup {Torn}]
    /\ regs \in [Cores -> Values]
    /\ work \in [Pcbs -> Values]

\* Who runs what.  Only do_scheduler, between its decision and switch_to,
\* has a core whose tp is not core_running.
CoreInv ==
    /\ ~up => \A t \in Tasks : status[t] = "free"
    /\ ~up => \A c \in Cores : running[c] = NoPcb
    /\ \A c \in Cores : up => running[c] \in Tasks \cup {Idle(c)}
    /\ \A c \in Cores : up /\ zone[c] \in {"boot", "main"} => running[c] = Idle(c)
    /\ \A c \in Cores : zone[c] = "main" => tp[c] = Idle(c)
    /\ \A c \in Cores : zone[c] \in {"regs", "ctx", "dead"} => tp[c] = running[c]
    /\ \A c \in Cores : zone[c] = "switch" => tp[c] \in Tasks \cup {Idle(c)}
    /\ \A c \in Cores : running[c] \in Tasks => status[running[c]] = "running"
    /\ \A c, d \in Cores : c # d /\ running[c] \in Tasks => running[c] # running[d]
    /\ \A c, d \in Cores : c # d /\ zone[c] = "switch" /\ tp[c] \in Tasks => running[d] # tp[c]

\* A PCB that is not on a core has a frame to come back to.
FrameInv ==
    /\ \A t \in Tasks : status[t] \in {"ready", "blocked"} =>
         frame[t] # "none" \/ \E c \in Cores : zone[c] = "switch" /\ tp[c] = t
    /\ \A c \in Cores : zone[c] \in {"regs", "ctx", "switch", "dead"} /\ tp[c] # Idle(c) =>
         frame[Idle(c)] # "none"
    /\ \A c \in Cores : zone[c] = "switch" => running[c] = tp[c] \/ frame[running[c]] # "none"

\* Where the registers of a program are.
CtxInv ==
    /\ \A t \in Tasks : status[t] \in {"ready", "blocked"} => ctx[t] = work[t]
    /\ \A c \in Cores : zone[c] \in {"boot", "main"} => regs[c] = work[Idle(c)]
    /\ \A c \in Cores : zone[c] = "regs" => regs[c] = work[tp[c]]
    /\ \A c \in Cores : zone[c] \in {"ctx", "switch"} => ctx[tp[c]] = work[tp[c]]
    /\ \A c \in Cores : zone[c] = "switch" => ctx[running[c]] = work[running[c]]
    /\ \A c \in Cores : zone[c] \in {"regs", "ctx", "switch", "dead"} /\ tp[c] # Idle(c) =>
         ctx[Idle(c)] = work[Idle(c)]

CInv == TaskTypes /\ CoreInv /\ FrameInv /\ CtxInv

\* The PCBs: one idle PCB per core, the tasks, and no PCB.
LEMMA PcbFacts ==
    /\ \A c \in Cores : Idle(c) \in Pcbs /\ Idle(c) \notin Tasks /\ Idle(c) # NoPcb
    /\ \A c, d \in Cores : Idle(c) = Idle(d) => c = d
    /\ Tasks \subseteq Pcbs /\ NoPcb \notin Tasks
    /\ Torn \notin Values /\ 0 \in Values
    /\ 0 \in Cores /\ Shell \in Tasks
  BY EntryAssumption DEF Idle, Pcbs, NoPcb, Torn, Values

\* A task that computes stays within its values.
LEMMA NextValue == \A x \in Values : (x + 1) % REGS \in Values
  BY EntryAssumption DEF Values

\* Where the registers of a task are, by the pc of its core.
LEMMA Zones ==
    ASSUME PlaceOK
    PROVE  /\ zone \in [Cores -> {"boot", "main", "regs", "ctx", "switch", "dead"}]
           /\ \A c \in Cores : zone[c] = "switch" <=> pc[c] = "switch_to"
           /\ \A c \in Cores : zone[c] = "regs" <=> pc[c] \in {"run", "save", "save_rest"}
           /\ \A c \in Cores : zone[c] = "boot" <=> pc[c] \in BootPcs
           /\ \A c \in Cores : zone[c] = "main" <=> pc[c] \in MainPcs
           /\ \A c \in Cores : zone[c] = "dead" <=> pc[c] \in {"halted", "own_lock"}
  BY DEF PlaceOK, zone, Zone, Pcs, BootPcs, MainPcs, TrapPcs

\* A step of a core moves that core between zones, and no other.
LEMMA ZoneMoves ==
    ASSUME PlaceOK, NEW c, NEW q, Moves(c, q)
    PROVE  zone' = [zone EXCEPT ![c] = Zone(q)]
  BY MovesFacts DEF PlaceOK, Moves, zone

\* A core at work, and hence core 0 has initialised the kernel.
LEMMA UpFacts ==
    ASSUME XInv, NEW c \in Cores
    PROVE  /\ zone[c] \in {"regs", "ctx", "switch", "dead"} => up
           /\ zone[c] = "main" /\ c # 0 => up
  BY EntryAssumption, Zones DEF XInv, PlaceOK, BootInv, up, BeforeInit, Asleep, BootPcs, MainPcs, zone, Zone

\* Steps within a zone that touch no task and no context.
LEMMA Quiet ==
    ASSUME CInv, UNCHANGED <<zone, tp, running, status, frame, ctx, regs, work>>, up' = up
    PROVE  CInv'
  BY DEF CInv, TaskTypes, CoreInv, FrameInv, CtxInv

\* The actions that Quiet covers.
LEMMA QuietSteps ==
    ASSUME XInv, CInv, NEW c \in Cores,
           \/ bootblock(c) \/ wait_for_wakeup(c) \/ boot_kernel(c) \/ smp_init(c)
           \/ lock_kernel(c) \/ wakeup_other_hart(c) \/ main_slave(c) \/ bios_set_timer(c)
           \/ ret_from_exception(c) \/ (pc[c] = "handler" /\ Goto(c, "return") /\ UNCHANGED <<taskVars, regVars>>)
           \/ (pc[c] = "run" /\ interrupt(c)) \/ ecall(c)
    PROVE  CInv'
  <1>0. lock_kernel(c) => pc[c] # "own_lock"
    BY DEF XInv, KernelExclusive, InKernel, lock_kernel
  <1>1. PICK q \in Pcs : /\ Moves(c, q) /\ UNCHANGED <<tp, running, status, frame, ctx, regs, work>>
                         /\ Zone(q) = Zone(pc[c])
                         /\ c = 0 => (q \in BeforeInit <=> pc[0] \in BeforeInit)
    BY <1>0, ZenonT(60) DEF XInv, BootInv, Moves, Goto, taskVars, regVars, bootblock, wait_for_wakeup, boot_kernel, smp_init,
       lock_kernel, wakeup_other_hart, main_slave, bios_set_timer, ret_from_exception, interrupt, ecall, trap,
       Pcs, BootPcs, MainPcs, TrapPcs, Zone, BeforeInit
  <1>2. zone' = zone  BY <1>1, ZoneMoves, ZenonT(60) DEF XInv, zone
  <1>3. up' = up  BY <1>1, MovesFacts, EntryAssumption DEF XInv, up
  <1> QED  BY <1>1, <1>2, <1>3, Quiet

\* head.S gives the core its idle PCB.
LEMMA Keeps__start ==
    ASSUME XInv, CInv, NEW c \in Cores, _start(c)
    PROVE  CInv'
  <1> USE PcbFacts
  <1>1. /\ Moves(c, "main") /\ tp' = [tp EXCEPT ![c] = Idle(c)]
        /\ UNCHANGED <<running, status, frame, ctx, regs, work>> /\ zone[c] = "boot"
    BY Zones DEF XInv, _start, Moves, Goto, regVars, Pcs, MainPcs, zone, Zone, BootPcs
  <1>2. zone' = [zone EXCEPT ![c] = "main"]  BY <1>1, ZoneMoves DEF XInv, Zone, BootPcs, MainPcs
  <1>3. up' = up  BY <1>1, MovesFacts, EntryAssumption DEF XInv, up, _start, BeforeInit, BootPcs
  <1>4. zone \in [Cores -> {"boot", "main", "regs", "ctx", "switch", "dead"}]  BY Zones DEF XInv
  <1>5. TaskTypes'  BY <1>1 DEF CInv, TaskTypes
  <1>6. CoreInv'  BY <1>1, <1>2, <1>3, <1>4 DEF CInv, TaskTypes, CoreInv
  <1>7. FrameInv'  BY <1>1, <1>2, <1>3, <1>4 DEF CInv, TaskTypes, FrameInv
  <1>8. CtxInv'  BY <1>1, <1>2, <1>3, <1>4 DEF CInv, TaskTypes, CtxInv
  <1> QED  BY <1>5, <1>6, <1>7, <1>8 DEF CInv

\* main creates the shell, and the cores run their idle PCBs.
LEMMA Keeps_main_master ==
    ASSUME XInv, CInv, NEW c \in Cores, main_master(c)
    PROVE  CInv'
  <1> USE PcbFacts
  <1>1. /\ c = 0 /\ Moves(c, "main_wakeup") /\ NewTask(Shell) /\ running' = [d \in Cores |-> Idle(d)]
        /\ UNCHANGED <<tp, regs>> /\ pc[0] = "main_init"
    BY DEF main_master, Moves, Goto, Pcs, MainPcs
  <1>2. zone' = zone /\ zone \in [Cores -> {"boot", "main", "regs", "ctx", "switch", "dead"}] /\ zone[0] = "main"
    <2>1. zone \in [Cores -> {"boot", "main", "regs", "ctx", "switch", "dead"}] /\ zone[0] = "main"
      BY <1>1, Zones DEF XInv, MainPcs
    <2>2. Zone("main_wakeup") = "main"  BY DEF Zone, BootPcs, MainPcs
    <2>3. zone' = [zone EXCEPT ![0] = "main"]  BY <1>1, <2>2, ZoneMoves DEF XInv
    <2> QED  BY <2>1, <2>3
  <1>3. ~up /\ up'  BY <1>1, MovesFacts, EntryAssumption DEF XInv, up, BeforeInit, BootPcs
  <1>4. \A d \in Cores : d # 0 => zone[d] = "boot"
    BY <1>1, Zones DEF XInv, BootInv, BeforeInit, Asleep, BootPcs
  <1>5. TaskTypes'  BY <1>1 DEF CInv, TaskTypes, NewTask
  <1>6. CoreInv'  BY <1>1, <1>2, <1>3, <1>4 DEF CInv, TaskTypes, CoreInv, NewTask
  <1>7. FrameInv'  BY <1>1, <1>2, <1>3, <1>4 DEF CInv, TaskTypes, CoreInv, FrameInv, NewTask
  <1>8. CtxInv'  BY <1>1, <1>2, <1>3, <1>4 DEF CInv, TaskTypes, CoreInv, CtxInv, NewTask
  <1> QED  BY <1>5, <1>6, <1>7, <1>8 DEF CInv

\* A core leaves main.
LEMMA Keeps_leaves_main ==
    ASSUME XInv, CInv, NEW c \in Cores, main_unlock(c)
    PROVE  CInv'
  <1> USE PcbFacts
  <1>1. Moves(c, "run") /\ UNCHANGED <<tp, running, status, frame, ctx, regs, work>>
    BY DEF main_unlock, Moves, Goto, taskVars, regVars, Pcs, TrapPcs
  <1>2. zone' = [zone EXCEPT ![c] = "regs"]
    BY <1>1, ZoneMoves DEF XInv, zone, Zone, BootPcs, MainPcs
  <1>3. zone \in [Cores -> {"boot", "main", "regs", "ctx", "switch", "dead"}] /\ zone[c] = "main"
    BY Zones DEF XInv, main_unlock, MainPcs
  <1>4. up /\ up'
    <2>1. up
      <3>1. pc[c] = "main_unlock"  BY DEF main_unlock
      <3> QED  BY <3>1 DEF XInv, BootInv, up, BeforeInit, BootPcs, Asleep
    <2>2. pc'[0] = pc[0] \/ pc'[0] = "run"  BY <1>1, MovesFacts DEF XInv
    <2> QED  BY <2>1, <2>2 DEF up, BeforeInit, BootPcs
  <1>5. TaskTypes'  BY <1>1 DEF CInv, TaskTypes
  <1>6. CoreInv'  BY <1>1, <1>2, <1>3, <1>4 DEF CInv, TaskTypes, CoreInv
  <1>7. FrameInv'  BY <1>1, <1>2, <1>3, <1>4 DEF CInv, TaskTypes, CoreInv, FrameInv
  <1>8. CtxInv'  BY <1>1, <1>2, <1>3, <1>4 DEF CInv, TaskTypes, CoreInv, CtxInv
  <1> QED  BY <1>5, <1>6, <1>7, <1>8 DEF CInv

\* A core never leaves the kernel: the registers of its program are lost.
LEMMA Keeps_stops ==
    ASSUME XInv, CInv, NEW c \in Cores,
           handler_stops(c) \/ (pc[c] = "main_unlock" /\ interrupt(c))
    PROVE  CInv'
  <1> USE PcbFacts
  <1> DEFINE P == tp[c]
  <1>1. PICK q \in {"halted", "own_lock"} :
           /\ Moves(c, q) /\ UNCHANGED <<tp, running, status, frame, regs, work>>
           /\ ctx' = ctx \/ ctx' = [ctx EXCEPT ![P] = Torn]
           /\ pc[c] \in {"handler", "return", "main_unlock"}
    BY DEF handler_stops, interrupt, trap, trap_inside, Moves, Goto, taskVars, regVars, Pcs, TrapPcs
  <1>2. zone' = [zone EXCEPT ![c] = "dead"]
    BY <1>1, ZoneMoves DEF XInv, zone, Zone, BootPcs, MainPcs
  <1>3. zone \in [Cores -> {"boot", "main", "regs", "ctx", "switch", "dead"}] /\ zone[c] \in {"main", "ctx"}
    BY <1>1, Zones DEF XInv, zone, Zone, BootPcs, MainPcs
  <1>4. up /\ up'
    <2>1. up
      BY <1>1, EntryAssumption DEF XInv, BootInv, up, BeforeInit, BootPcs, Asleep
    <2>2. pc'[0] = pc[0] \/ pc'[0] \in {"halted", "own_lock"}  BY <1>1, MovesFacts DEF XInv
    <2> QED  BY <2>1, <2>2 DEF up, BeforeInit, BootPcs
  <1>5. P = running[c] /\ P \in Tasks \cup {Idle(c)} /\ P \in Pcbs
    BY <1>3, <1>4 DEF CInv, CoreInv
  <1>6. \A d \in Cores : d # c => running[d] # P /\ Idle(d) # P /\ zone[d] # "switch"
    <2> SUFFICES ASSUME NEW d \in Cores, d # c PROVE running[d] # P /\ Idle(d) # P /\ zone[d] # "switch"
      OBVIOUS
    <2>1. running[d] \in Tasks \cup {Idle(d)}  BY <1>4 DEF CInv, CoreInv
    <2>2. running[d] # P /\ Idle(d) # P  BY <1>5, <2>1 DEF CInv, CoreInv
    <2>3. zone[d] # "switch"  BY <1>1, Zones DEF XInv, KernelExclusive, InKernel
    <2> QED  BY <2>2, <2>3
  <1>7. \A d \in Cores : d # c /\ zone[d] \in {"regs", "ctx", "dead"} => tp[d] # P
    BY <1>6 DEF CInv, CoreInv
  <1>8. P \in Tasks => status[P] = "running"  BY <1>5 DEF CInv, CoreInv
  <1>9. TaskTypes'  BY <1>1, <1>5 DEF CInv, TaskTypes
  <1>10. CoreInv'  BY <1>1, <1>2, <1>3, <1>4, <1>5, <1>6 DEF CInv, TaskTypes, CoreInv
  <1>11. FrameInv'
    <2>1. \A d \in Cores : /\ zone'[d] = "switch" => zone[d] = "switch"
                           /\ zone[d] = "switch" => zone'[d] = "switch"
      BY <1>2, <1>3
    <2>2. zone[c] = "main" => P = Idle(c)  BY DEF CInv, CoreInv
    <2> QED  BY <1>1, <1>2, <1>3, <2>1, <2>2 DEF CInv, FrameInv
  <1>12. CtxInv'
    <2>1. \A t \in Pcbs : t # P => ctx'[t] = ctx[t]  BY <1>1 DEF CInv, TaskTypes
    <2>2. zone[c] = "main" => P = Idle(c)  BY DEF CInv, CoreInv
    <2>3. zone'[c] = "dead" /\ \A d \in Cores : d # c => zone'[d] = zone[d]  BY <1>2, <1>3
    <2>4. \A t \in Tasks : status'[t] \in {"ready", "blocked"} => ctx'[t] = work'[t]
      BY <1>1, <1>8, <2>1 DEF CInv, CtxInv
    <2>5. \A d \in Cores : d # c => /\ zone[d] # "switch"
                                    /\ zone[d] = "ctx" => tp[d] # P /\ tp[d] \in Pcbs
      BY <1>4, <1>6, <1>7 DEF CInv, CoreInv
    <2>6. P # Idle(c) => ctx[Idle(c)] = work[Idle(c)]  BY <1>3, <2>2 DEF CInv, CtxInv
    <2> QED  BY <1>1, <1>6, <2>1, <2>3, <2>4, <2>5, <2>6 DEF CInv, CtxInv
  <1> QED  BY <1>9, <1>10, <1>11, <1>12 DEF CInv

\* A task computes.
LEMMA Keeps_compute ==
    ASSUME XInv, CInv, NEW c \in Cores, compute(c)
    PROVE  CInv'
  <1> USE PcbFacts, NextValue
  <1>1. /\ tp[c] \in Tasks /\ regs' = [regs EXCEPT ![c] = (regs[c] + 1) % REGS]
        /\ work' = [work EXCEPT ![tp[c]] = (work[tp[c]] + 1) % REGS]
        /\ UNCHANGED <<pc, tp, running, status, frame, ctx>>
        /\ zone[c] = "regs"
    BY Zones DEF XInv, compute, taskVars
  <1>2. zone' = zone /\ up' = up  BY <1>1 DEF zone, up
  <1>3. zone \in [Cores -> {"boot", "main", "regs", "ctx", "switch", "dead"}]  BY Zones DEF XInv
  <1>4. \A d \in Cores : d # c => ~(zone[d] \in {"regs", "ctx", "switch", "dead"} /\ tp[d] = tp[c]) /\ running[d] # tp[c]
    BY <1>1, <1>3 DEF CInv, CoreInv
  <1>5. TaskTypes'  BY <1>1 DEF CInv, TaskTypes
  <1>6. CoreInv'  BY <1>1, <1>2 DEF CInv, CoreInv
  <1>7. FrameInv'  BY <1>1, <1>2 DEF CInv, FrameInv
  <1>8. status[tp[c]] = "running"  BY <1>1 DEF CInv, CoreInv
  <1>9. CtxInv'  BY <1>1, <1>2, <1>3, <1>4, <1>8 DEF CInv, TaskTypes, CtxInv
  <1> QED  BY <1>5, <1>6, <1>7, <1>9 DEF CInv

\* Both steps of SAVE_CONTEXT, on the stack of a PCB no other core is on.
LEMMA Keeps_SAVE_CONTEXT ==
    ASSUME XInv, CInv, NEW c \in Cores, SAVE_CONTEXT(c)
    PROVE  CInv'
  <1> USE PcbFacts
  <1>1. zone \in [Cores -> {"boot", "main", "regs", "ctx", "switch", "dead"}] /\ zone[c] = "regs"
    BY Zones DEF XInv, SAVE_CONTEXT
  <1>2. up  BY <1>1, UpFacts
  <1>3. tp[c] = running[c] /\ tp[c] \in Tasks \cup {Idle(c)} /\ tp[c] \in Pcbs
    BY <1>1, <1>2 DEF CInv, CoreInv
  <1>4. \A d \in Cores : d # c => /\ zone[d] \in {"regs", "ctx", "switch", "dead"} => tp[d] # tp[c]
                                  /\ running[d] # tp[c]
                                  /\ Idle(d) # tp[c]
    <2> SUFFICES ASSUME NEW d \in Cores, d # c
                 PROVE  /\ zone[d] \in {"regs", "ctx", "switch", "dead"} => tp[d] # tp[c]
                        /\ running[d] # tp[c]
                        /\ Idle(d) # tp[c]
      OBVIOUS
    <2>1. running[d] \in Tasks \cup {Idle(d)}  BY <1>2 DEF CInv, CoreInv
    <2>2. running[d] # tp[c] /\ Idle(d) # tp[c]  BY <1>3, <2>1 DEF CInv, CoreInv
    <2>3. zone[d] = "switch" => tp[d] # tp[c]  BY <1>3 DEF CInv, CoreInv
    <2>4. zone[d] \in {"regs", "ctx", "dead"} => tp[d] # tp[c]  BY <2>2 DEF CInv, CoreInv
    <2> QED  BY <2>2, <2>3, <2>4
  <1>5. tp[c] \in Tasks => status[tp[c]] = "running"  BY <1>3 DEF CInv, CoreInv
  <1>6. CASE pc[c] = "save"
    <2>1. /\ Moves(c, "save_rest") /\ ctx' = [ctx EXCEPT ![tp[c]] = Torn]
          /\ UNCHANGED <<tp, running, status, frame, regs, work>>
      BY <1>6 DEF SAVE_CONTEXT, Moves, Goto, taskVars, Pcs, TrapPcs
    <2>2. zone' = zone  BY <2>1, <1>1, ZoneMoves DEF XInv, Zone, BootPcs, MainPcs
    <2>3. up' = up  BY <2>1, <1>2, MovesFacts DEF XInv, up, BeforeInit, BootPcs
    <2>4. TaskTypes'  BY <2>1 DEF CInv, TaskTypes
    <2>5. CoreInv'  BY <2>1, <2>2, <2>3 DEF CInv, CoreInv
    <2>6. FrameInv'  BY <2>1, <2>2 DEF CInv, FrameInv
    <2>7. CtxInv'  BY <2>1, <2>2, <1>1, <1>3, <1>4, <1>5 DEF CInv, TaskTypes, CtxInv
    <2> QED  BY <2>4, <2>5, <2>6, <2>7 DEF CInv
  <1>7. CASE pc[c] = "save_rest"
    <2>1. /\ Moves(c, "trap_lock") /\ ctx' = [ctx EXCEPT ![tp[c]] = regs[c]]
          /\ UNCHANGED <<tp, running, status, frame, regs, work>>
      BY <1>7 DEF SAVE_CONTEXT, Moves, Goto, taskVars, Pcs, TrapPcs
    <2>2. zone' = [zone EXCEPT ![c] = "ctx"]  BY <2>1, ZoneMoves DEF XInv, Zone, BootPcs, MainPcs
    <2>3. up' = up  BY <2>1, <1>2, MovesFacts DEF XInv, up, BeforeInit, BootPcs
    <2>4. TaskTypes'  BY <2>1 DEF CInv, TaskTypes
    <2>5. CoreInv'  BY <2>1, <2>2, <2>3, <1>1 DEF CInv, CoreInv
    <2>6. FrameInv'  BY <2>1, <2>2, <1>1 DEF CInv, FrameInv
    <2>7. CtxInv'  BY <2>1, <2>2, <1>1, <1>3, <1>4, <1>5 DEF CInv, TaskTypes, CtxInv
    <2> QED  BY <2>4, <2>5, <2>6, <2>7 DEF CInv
  <1> QED  BY <1>6, <1>7 DEF SAVE_CONTEXT

\* RESTORE_CONTEXT reads the frame that SAVE_CONTEXT wrote.
LEMMA Keeps_RESTORE_CONTEXT ==
    ASSUME XInv, CInv, NEW c \in Cores, RESTORE_CONTEXT(c)
    PROVE  CInv'
  <1> USE PcbFacts
  <1>1. zone \in [Cores -> {"boot", "main", "regs", "ctx", "switch", "dead"}] /\ zone[c] = "ctx"
    BY Zones DEF XInv, RESTORE_CONTEXT, zone, Zone, BootPcs, MainPcs
  <1>2. up  BY <1>1, UpFacts
  <1>3. /\ Moves(c, "run") /\ regs' = [regs EXCEPT ![c] = ctx[tp[c]]]
        /\ UNCHANGED <<tp, running, status, frame, ctx, work>>
    BY DEF RESTORE_CONTEXT, Moves, Goto, taskVars, Pcs, TrapPcs
  <1>4. zone' = [zone EXCEPT ![c] = "regs"]  BY <1>3, ZoneMoves DEF XInv, Zone, BootPcs, MainPcs
  <1>5. up' = up  BY <1>3, <1>2, MovesFacts DEF XInv, up, BeforeInit, BootPcs
  <1>6. tp[c] \in Pcbs /\ ctx[tp[c]] = work[tp[c]]  BY <1>1, <1>2 DEF CInv, CoreInv, CtxInv
  <1>7. TaskTypes'  BY <1>3, <1>6 DEF CInv, TaskTypes
  <1>8. CoreInv'  BY <1>1, <1>3, <1>4, <1>5 DEF CInv, CoreInv
  <1>9. FrameInv'  BY <1>1, <1>3, <1>4 DEF CInv, FrameInv
  <1>10. CtxInv'  BY <1>1, <1>3, <1>4, <1>6 DEF CInv, TaskTypes, CtxInv
  <1> QED  BY <1>7, <1>8, <1>9, <1>10 DEF CInv

\* A core in a handler: it has its PCB to itself, and no other core is
\* between do_scheduler and switch_to.
LEMMA InHandler ==
    ASSUME XInv, CInv, NEW c \in Cores, pc[c] \in {"handler", "return"}
    PROVE  /\ zone \in [Cores -> {"boot", "main", "regs", "ctx", "switch", "dead"}]
           /\ zone[c] = "ctx" /\ up
           /\ tp[c] = running[c] /\ tp[c] \in Tasks \cup {Idle(c)} /\ tp[c] \in Pcbs
           /\ tp[c] \in Tasks => status[tp[c]] = "running"
           /\ \A d \in Cores : d # c => /\ zone[d] # "switch"
                                        /\ zone[d] \in {"regs", "ctx", "dead"} => tp[d] # tp[c]
                                        /\ running[d] # tp[c]
                                        /\ Idle(d) # tp[c]
                                        /\ running[d] \in Tasks \cup {Idle(d)}
  <1> USE PcbFacts
  <1>1. zone \in [Cores -> {"boot", "main", "regs", "ctx", "switch", "dead"}] /\ zone[c] = "ctx"
    BY Zones DEF XInv, zone, Zone, BootPcs, MainPcs
  <1>2. up  BY <1>1, UpFacts
  <1>3. tp[c] = running[c] /\ tp[c] \in Tasks \cup {Idle(c)} /\ tp[c] \in Pcbs
    BY <1>1, <1>2 DEF CInv, CoreInv
  <1>4. tp[c] \in Tasks => status[tp[c]] = "running"  BY <1>3 DEF CInv, CoreInv
  <1>5. ASSUME NEW d \in Cores, d # c
        PROVE  /\ zone[d] # "switch"
               /\ zone[d] \in {"regs", "ctx", "dead"} => tp[d] # tp[c]
               /\ running[d] # tp[c] /\ Idle(d) # tp[c]
               /\ running[d] \in Tasks \cup {Idle(d)}
    <2>1. zone[d] # "switch"  BY <1>5, Zones DEF XInv, KernelExclusive, InKernel
    <2>2. running[d] \in Tasks \cup {Idle(d)}  BY <1>2 DEF CInv, CoreInv
    <2>3. running[d] # tp[c] /\ Idle(d) # tp[c]  BY <1>3, <1>5, <2>2 DEF CInv, CoreInv
    <2>4. zone[d] \in {"regs", "ctx", "dead"} => tp[d] # tp[c]  BY <2>3 DEF CInv, CoreInv
    <2> QED  BY <2>1, <2>2, <2>3, <2>4
  <1> QED  BY <1>1, <1>2, <1>3, <1>4, <1>5

\* do_unblock makes a blocked task ready.
LEMMA Keeps_do_unblock ==
    ASSUME XInv, CInv, NEW c \in Cores, NEW t \in Tasks, do_unblock(c, t)
    PROVE  CInv'
  <1> USE PcbFacts
  <1>1. /\ status[t] = "blocked" /\ status' = [status EXCEPT ![t] = "ready"]
        /\ UNCHANGED <<pc, tp, running, frame, ctx, regs, work>> /\ pc[c] = "handler"
    BY DEF do_unblock, regVars
  <1>2. zone' = zone /\ up' = up  BY <1>1 DEF zone, up
  <1>3. up  BY <1>1, InHandler
  <1>4. TaskTypes'  BY <1>1 DEF CInv, TaskTypes
  <1>5. CoreInv'  BY <1>1, <1>2, <1>3 DEF CInv, TaskTypes, CoreInv
  <1>6. FrameInv'  BY <1>1, <1>2 DEF CInv, TaskTypes, FrameInv
  <1>7. CtxInv'  BY <1>1, <1>2 DEF CInv, TaskTypes, CtxInv
  <1> QED  BY <1>4, <1>5, <1>6, <1>7 DEF CInv

\* The PCB is of no core: one that was left as free is left for good once
\* switch_to has come to its end.
LEMMA Keeps_do_exec ==
    ASSUME XInv, CInv, NEW c \in Cores, NEW t \in Tasks, do_exec(c, t)
    PROVE  CInv'
  <1> USE PcbFacts
  <1>1. /\ status[t] = "free" /\ NewTask(t) /\ UNCHANGED <<pc, tp, running, regs>> /\ pc[c] = "handler"
    BY DEF do_exec
  <1>2. zone' = zone /\ up' = up  BY <1>1 DEF zone, up
  <1>3. /\ up /\ zone \in [Cores -> {"boot", "main", "regs", "ctx", "switch", "dead"}]
        /\ \A d \in Cores : zone[d] # "switch" /\ running[d] # t /\ Idle(d) # t
    <2>0. zone[c] = "ctx" /\ \A d \in Cores : d # c => zone[d] # "switch"  BY <1>1, InHandler
    <2>1. \A d \in Cores : zone[d] # "switch"  BY <2>0
    <2>2. \A d \in Cores : running[d] # t  BY <1>1 DEF CInv, CoreInv
    <2> QED  BY <1>1, <2>1, <2>2, InHandler
  <1>4. \A d \in Cores : zone[d] \in {"regs", "ctx", "switch", "dead"} => tp[d] # t
    BY <1>3 DEF CInv, CoreInv
  <1>5. TaskTypes'  BY <1>1 DEF CInv, TaskTypes, NewTask
  <1>6. CoreInv'  BY <1>1, <1>2, <1>3 DEF CInv, TaskTypes, CoreInv, NewTask
  <1>7. FrameInv'  BY <1>1, <1>2, <1>3, <1>4 DEF CInv, TaskTypes, FrameInv, NewTask
  <1>8. CtxInv'  BY <1>1, <1>2, <1>3, <1>4 DEF CInv, TaskTypes, CtxInv, NewTask
  <1> QED  BY <1>5, <1>6, <1>7, <1>8 DEF CInv

\* The handler returns, its result is in the frame.
LEMMA Keeps_handler_returns ==
    ASSUME XInv, CInv, NEW c \in Cores, handler_returns(c)
    PROVE  CInv'
  <1> USE PcbFacts, NextValue
  <1> DEFINE P == tp[c]
  <1>1. /\ Moves(c, "ret_from_exception") /\ UNCHANGED <<tp, running, status, frame, regs>>
        /\ pc[c] = "return"
        /\ \/ UNCHANGED <<ctx, work>>
           \/ /\ ctx' = [ctx EXCEPT ![P] = (ctx[P] + 1) % REGS]
              /\ work' = [work EXCEPT ![P] = (work[P] + 1) % REGS]
    BY DEF handler_returns, Moves, Goto, taskVars, Pcs, TrapPcs
  <1>2. /\ up /\ zone \in [Cores -> {"boot", "main", "regs", "ctx", "switch", "dead"}] /\ zone[c] = "ctx"
        /\ P \in Pcbs /\ P = running[c] /\ P \in Tasks \cup {Idle(c)}
        /\ P \in Tasks => status[P] = "running"
        /\ \A d \in Cores : d # c => /\ zone[d] # "switch"
                                     /\ zone[d] \in {"regs", "ctx", "dead"} => tp[d] # P
                                     /\ Idle(d) # P
    BY <1>1, InHandler
  <1>3. zone' = zone
    <2>1. Zone("ret_from_exception") = "ctx"  BY DEF Zone, BootPcs, MainPcs
    <2> QED  BY <1>1, <1>2, <2>1, ZoneMoves DEF XInv
  <1>4. up' = up  BY <1>1, <1>2, MovesFacts DEF XInv, up, BeforeInit, BootPcs
  <1>5. CASE UNCHANGED <<ctx, work>>  BY <1>1, <1>3, <1>4, <1>5, Quiet
  <1>6. CASE /\ ctx' = [ctx EXCEPT ![P] = (ctx[P] + 1) % REGS]
             /\ work' = [work EXCEPT ![P] = (work[P] + 1) % REGS]
    <2>1. ctx[P] = work[P] /\ work[P] \in Values /\ (work[P] + 1) % REGS \in Values
      BY <1>2 DEF CInv, TaskTypes, CtxInv
    <2>2. TaskTypes'  BY <1>1, <1>2, <1>6, <2>1 DEF CInv, TaskTypes
    <2>3. CoreInv'  BY <1>1, <1>3, <1>4 DEF CInv, CoreInv
    <2>4. FrameInv'  BY <1>1, <1>3, <1>4 DEF CInv, FrameInv
    <2>5. CtxInv'  BY <1>1, <1>2, <1>3, <1>6, <2>1 DEF CInv, TaskTypes, CtxInv
    <2> QED  BY <2>2, <2>3, <2>4, <2>5 DEF CInv
  <1> QED  BY <1>1, <1>5, <1>6

\* do_scheduler decides: the task that is left may be taken by another core
\* only after switch_to, and the one it takes was on no core.
LEMMA Keeps_reschedule ==
    ASSUME XInv, CInv, NEW c \in Cores, pc[c] = "handler",
           NEW left \in {"ready", "blocked", "free"}, reschedule(c, left)
    PROVE  CInv'
  <1> USE PcbFacts
  <1> DEFINE st == IF tp[c] \in Tasks THEN [status EXCEPT ![tp[c]] = left] ELSE status
  <1>1. PICK next :
          /\ next \in Tasks \cup {Idle(c)}
          /\ next \in Tasks => st[next] = "ready"
          /\ running' = [running EXCEPT ![c] = next]
          /\ status' = IF next \in Tasks THEN [st EXCEPT ![next] = "running"] ELSE st
    BY DEF reschedule
  <1>2. Moves(c, "switch_to") /\ UNCHANGED <<tp, frame, ctx, regs, work>>
    BY DEF reschedule, Moves, Goto, regVars, Pcs, TrapPcs
  <1>3. /\ up /\ zone \in [Cores -> {"boot", "main", "regs", "ctx", "switch", "dead"}] /\ zone[c] = "ctx"
        /\ tp[c] \in Pcbs /\ tp[c] = running[c] /\ tp[c] \in Tasks \cup {Idle(c)}
        /\ tp[c] \in Tasks => status[tp[c]] = "running"
    BY InHandler
  <1>4. \A d \in Cores : d # c => /\ zone[d] # "switch"
                                  /\ zone[d] \in {"regs", "ctx", "dead"} => tp[d] # tp[c]
                                  /\ running[d] # tp[c]
                                  /\ running[d] \in Tasks \cup {Idle(d)}
    BY InHandler
  <1>5. zone' = [zone EXCEPT ![c] = "switch"]
    <2>1. Zone("switch_to") = "switch"  BY DEF Zone, BootPcs, MainPcs
    <2> QED  BY <1>2, <2>1, ZoneMoves DEF XInv
  <1>6. up' = up  BY <1>2, <1>3, MovesFacts DEF XInv, up, BeforeInit, BootPcs
  <1>7. st \in [Tasks -> {"free", "ready", "running", "blocked"}]
    BY DEF CInv, TaskTypes
  <1>8. status' \in [Tasks -> {"free", "ready", "running", "blocked"}]  BY <1>1, <1>7
  <1>9. next \in Pcbs  BY <1>1
  \* What the new table says of a task that is not the one taken.
  <1>10. \A t \in Tasks : t # next => status'[t] = IF t = tp[c] THEN left ELSE status[t]
    BY <1>1, <1>7 DEF CInv, TaskTypes
  <1>11. next \in Tasks => /\ status'[next] = "running"
                           /\ next = tp[c] \/ status[next] = "ready"
    BY <1>1, <1>7 DEF CInv, TaskTypes
  <1>12. \A d \in Cores : d # c => running[d] # next
    BY <1>1, <1>4, <1>11 DEF CInv, CoreInv
  <1>13. running' \in [Cores -> Pcbs \cup {NoPcb}] /\ running'[c] = next
         /\ \A d \in Cores : d # c => running'[d] = running[d]
    BY <1>1, <1>9 DEF CInv, TaskTypes
  <1>14. TaskTypes'  BY <1>2, <1>8, <1>13 DEF CInv, TaskTypes
  <1> HIDE DEF st
  <1>15. zone'[c] = "switch" /\ \A d \in Cores : d # c => zone'[d] = zone[d]  BY <1>3, <1>5
  <1>16. CoreInv'
    <2>1. \A d \in Cores : running'[d] \in Tasks \cup {Idle(d)}  BY <1>1, <1>4, <1>13
    <2>2. \A d \in Cores : zone'[d] \in {"boot", "main"} => running'[d] = Idle(d)
      BY <1>3, <1>13, <1>15 DEF CInv, CoreInv
    <2>3. \A d \in Cores : /\ zone'[d] = "main" => tp'[d] = Idle(d)
                           /\ zone'[d] \in {"regs", "ctx", "dead"} => tp'[d] = running'[d]
                           /\ zone'[d] = "switch" => tp'[d] \in Tasks \cup {Idle(d)}
      BY <1>2, <1>3, <1>13, <1>15 DEF CInv, CoreInv
    <2>4. \A d \in Cores : running'[d] \in Tasks => status'[running'[d]] = "running"
      <3> SUFFICES ASSUME NEW d \in Cores, running'[d] \in Tasks PROVE status'[running'[d]] = "running"
        OBVIOUS
      <3>1. CASE d = c  BY <3>1, <1>11, <1>13
      <3>2. CASE d # c  BY <3>2, <1>4, <1>10, <1>12, <1>13 DEF CInv, CoreInv
      <3> QED  BY <3>1, <3>2
    <2>5. \A d, e \in Cores : d # e /\ running'[d] \in Tasks => running'[d] # running'[e]
      BY <1>12, <1>13 DEF CInv, CoreInv
    <2>6. \A d, e \in Cores : d # e /\ zone'[d] = "switch" /\ tp'[d] \in Tasks => running'[e] # tp'[d]
      BY <1>2, <1>4, <1>13, <1>15
    <2> QED  BY <1>3, <1>6, <2>1, <2>2, <2>3, <2>4, <2>5, <2>6 DEF CoreInv
  <1>17. FrameInv'
    <2>1. ASSUME NEW t \in Tasks, status'[t] \in {"ready", "blocked"}
          PROVE  frame'[t] # "none" \/ \E d \in Cores : zone'[d] = "switch" /\ tp'[d] = t
      <3>1. CASE t = tp[c]  BY <3>1, <1>2, <1>15
      <3>2. CASE t # tp[c]
        <4>1. t # next  BY <2>1, <1>11
        <4>2. status[t] \in {"ready", "blocked"}  BY <2>1, <3>2, <4>1, <1>10
        <4> QED  BY <4>2, <3>2, <1>2, <1>3, <1>4 DEF CInv, FrameInv
      <3> QED  BY <3>1, <3>2
    <2>2. \A d \in Cores : zone'[d] \in {"regs", "ctx", "switch", "dead"} /\ tp'[d] # Idle(d) =>
            frame'[Idle(d)] # "none"
      BY <1>2, <1>3, <1>15 DEF CInv, FrameInv
    <2>3. next = tp[c] \/ frame[next] # "none"
      <3>1. CASE next \in Tasks  BY <3>1, <1>3, <1>4, <1>11 DEF CInv, FrameInv
      <3>2. CASE next = Idle(c)  BY <3>2, <1>3 DEF CInv, FrameInv
      <3> QED  BY <1>1, <3>1, <3>2
    <2>4. \A d \in Cores : zone'[d] = "switch" => running'[d] = tp'[d] \/ frame'[running'[d]] # "none"
      BY <2>3, <1>2, <1>4, <1>13, <1>15
    <2> QED  BY <2>1, <2>2, <2>4 DEF FrameInv
  <1>18. CtxInv'
    <2>1. ctx[tp[c]] = work[tp[c]]  BY <1>3 DEF CInv, CtxInv
    <2>2. \A t \in Tasks : status'[t] \in {"ready", "blocked"} => ctx'[t] = work'[t]
      BY <2>1, <1>2, <1>10, <1>11 DEF CInv, CtxInv
    <2>3. \A d \in Cores : /\ zone'[d] \in {"boot", "main"} => regs'[d] = work'[Idle(d)]
                           /\ zone'[d] = "regs" => regs'[d] = work'[tp'[d]]
                           /\ zone'[d] \in {"ctx", "switch"} => ctx'[tp'[d]] = work'[tp'[d]]
                           /\ zone'[d] \in {"regs", "ctx", "switch", "dead"} /\ tp'[d] # Idle(d) =>
                                ctx'[Idle(d)] = work'[Idle(d)]
      BY <1>2, <1>3, <1>15 DEF CInv, CtxInv
    <2>4. ctx[next] = work[next]
      <3>1. CASE next \in Tasks  BY <3>1, <2>1, <1>11 DEF CInv, CtxInv
      <3>2. CASE next = Idle(c)  BY <3>2, <2>1, <1>3 DEF CInv, CtxInv
      <3> QED  BY <1>1, <3>1, <3>2
    <2>5. \A d \in Cores : zone'[d] = "switch" => ctx'[running'[d]] = work'[running'[d]]
      BY <2>4, <1>2, <1>4, <1>13, <1>15
    <2> QED  BY <2>2, <2>3, <2>5 DEF CtxInv
  <1> QED  BY <1>14, <1>16, <1>17, <1>18 DEF CInv

\* switch_to: tp becomes core_running; the frame of the task left is written,
\* that of the next used up.
LEMMA Keeps_switch_to ==
    ASSUME XInv, CInv, NEW c \in Cores, switch_to(c)
    PROVE  CInv'
  <1> USE PcbFacts
  <1> DEFINE next == running[c]
             saved == [frame EXCEPT ![tp[c]] = "handler"]
  <1>1. PICK q \in {"ret_from_exception", "return"} : Moves(c, q)
    BY DEF switch_to, Moves, Goto, Pcs, TrapPcs
  <1>2. /\ tp' = [tp EXCEPT ![c] = next] /\ frame' = [saved EXCEPT ![next] = "none"]
        /\ UNCHANGED <<running, status, ctx, regs, work>> /\ pc[c] = "switch_to"
    BY DEF switch_to, regVars
  <1>3. zone \in [Cores -> {"boot", "main", "regs", "ctx", "switch", "dead"}] /\ zone[c] = "switch"
    BY <1>2, Zones DEF XInv
  <1>4. up  BY <1>3, UpFacts
  <1>5. \A d \in Cores : d # c => zone[d] # "switch"
    BY <1>2, Zones DEF XInv, KernelExclusive, InKernel
  <1>6. zone' = [zone EXCEPT ![c] = "ctx"]
    BY <1>1, ZoneMoves DEF XInv, Zone, BootPcs, MainPcs
  <1>7. up' = up  BY <1>1, <1>4, MovesFacts DEF XInv, up, BeforeInit, BootPcs
  <1>8. /\ next \in Tasks \cup {Idle(c)} /\ next \in Pcbs
        /\ tp[c] \in Tasks \cup {Idle(c)} /\ tp[c] \in Pcbs
    BY <1>3, <1>4 DEF CInv, CoreInv
  <1>9. /\ zone'[c] = "ctx" /\ \A d \in Cores : d # c => zone'[d] = zone[d]
        /\ tp'[c] = next /\ \A d \in Cores : d # c => tp'[d] = tp[d]
    BY <1>2, <1>3, <1>6 DEF CInv, TaskTypes
  <1>10. /\ frame'[next] = "none"
         /\ next # tp[c] => frame'[tp[c]] = "handler"
         /\ \A t \in Pcbs : t # next /\ t # tp[c] => frame'[t] = frame[t]
    BY <1>2, <1>8 DEF CInv, TaskTypes
  <1>11. TaskTypes'  BY <1>2, <1>8 DEF CInv, TaskTypes
  <1>12. CoreInv'  BY <1>2, <1>4, <1>5, <1>7, <1>8, <1>9 DEF CInv, CoreInv
  <1>13. FrameInv'
    <2>1. ASSUME NEW t \in Tasks, status'[t] \in {"ready", "blocked"} PROVE frame'[t] # "none"
      <3>1. t # next  BY <2>1, <1>2 DEF CInv, CoreInv
      <3>2. CASE t = tp[c]  BY <3>1, <3>2, <1>10
      <3>3. CASE t # tp[c]  BY <2>1, <3>1, <3>3, <1>2, <1>5, <1>10, ZenonT(60) DEF CInv, FrameInv
      <3> QED  BY <3>2, <3>3
    <2>2. ASSUME NEW d \in Cores, zone'[d] \in {"regs", "ctx", "switch", "dead"}, tp'[d] # Idle(d)
          PROVE  frame'[Idle(d)] # "none"
      <3>1. CASE d = c  BY <2>2, <3>1, <1>3, <1>8, <1>9, <1>10 DEF CInv, FrameInv
      <3>2. CASE d # c  BY <2>2, <3>2, <1>8, <1>9, <1>10 DEF CInv, FrameInv
      <3> QED  BY <3>1, <3>2
    <2>3. \A d \in Cores : zone'[d] # "switch"  BY <1>5, <1>9
    <2> QED  BY <2>1, <2>2, <2>3 DEF FrameInv
  <1>14. CtxInv'  BY <1>2, <1>3, <1>5, <1>8, <1>9 DEF CInv, CtxInv
  <1> QED  BY <1>11, <1>12, <1>13, <1>14 DEF CInv

-----------------------------------------------------------------------------
\* The invariant of the contexts holds at the start,
LEMMA CInvInit == Init => CInv
  BY PcbFacts DEF Init, CInv, TaskTypes, CoreInv, FrameInv, CtxInv, zone, Zone, up, BeforeInit,
     BootPcs

\* and every step keeps it.
LEMMA CInvKept == XInv /\ CInv /\ [Next]_vars => CInv'
  <1> SUFFICES ASSUME XInv, CInv, [Next]_vars PROVE CInv'
    OBVIOUS
  <1>1. CASE UNCHANGED vars
    <2>1. UNCHANGED <<zone, tp, running, status, frame, ctx, regs, work>> /\ up' = up
      BY <1>1 DEF vars, taskVars, regVars, zone, up
    <2> QED  BY <2>1, Quiet
  <1>2. ASSUME NEW c \in Cores, boot(c) PROVE CInv'
    BY <1>2, QuietSteps, Keeps__start, Keeps_main_master, Keeps_leaves_main DEF boot
  <1>3. ASSUME NEW c \in Cores, interrupt_helper(c) PROVE CInv'
    BY <1>3, QuietSteps, Keeps_reschedule DEF interrupt_helper
  <1>4. ASSUME NEW c \in Cores, kernel(c) PROVE CInv'
    BY <1>3, <1>4, QuietSteps, Keeps_SAVE_CONTEXT, Keeps_do_unblock, Keeps_do_exec, Keeps_switch_to,
       Keeps_handler_returns, Keeps_RESTORE_CONTEXT DEF kernel
  <1>5. ASSUME NEW c \in Cores,
               compute(c) \/ interrupt(c) \/ ecall(c) \/ handler_stops(c) \/ spin(c)
        PROVE  CInv'
    <2>1. interrupt(c) => pc[c] = "run" \/ pc[c] = "main_unlock"  BY DEF interrupt
    <2>2. spin(c) => UNCHANGED vars  BY DEF spin
    <2> QED  BY <1>1, <1>5, <2>1, <2>2, QuietSteps, Keeps_compute, Keeps_stops
  <1> QED  BY <1>1, <1>2, <1>4, <1>5 DEF Next

\* No context is torn and no kernel stack has two cores on it, though
\* SAVE_CONTEXT runs before lock_kernel and RESTORE_CONTEXT after
\* unlock_kernel, for any number of cores and tasks (ContextsWhole).
THEOREM EntryContexts == Spec => []ContextsWhole
  <1> USE PcbFacts
  <1>1. XInv /\ CInv => ContextsWhole
    <2> SUFFICES ASSUME XInv, CInv PROVE ContextsWhole
      OBVIOUS
    <2>1. \A c \in Cores : pc[c] \in TrapPcs => zone[c] \in {"regs", "ctx", "switch", "dead"}
      BY DEF zone, Zone, TrapPcs, BootPcs, MainPcs
    <2>2. \A c \in Cores : /\ pc[c] = "run" => zone[c] = "regs"
                           /\ pc[c] = "restore" => zone[c] = "ctx"
                           /\ pc[c] = "switch_to" => zone[c] = "switch"
      BY DEF zone, Zone, BootPcs, MainPcs
    <2>3. ASSUME NEW c \in Cores, NEW d \in Cores, c # d, pc[c] \in TrapPcs, pc[d] \in TrapPcs
          PROVE  tp[c] # tp[d]
      <3>1. zone[c] \in {"regs", "ctx", "switch", "dead"} /\ zone[d] \in {"regs", "ctx", "switch", "dead"} /\ up
        BY <2>1, <2>3, UpFacts
      <3>2. ~(zone[c] = "switch" /\ zone[d] = "switch")
        BY <2>3, Zones DEF XInv, KernelExclusive, InKernel
      <3>3. /\ tp[c] \in Tasks \cup {Idle(c)} /\ tp[d] \in Tasks \cup {Idle(d)}
            /\ zone[c] # "switch" => tp[c] = running[c]
            /\ zone[d] # "switch" => tp[d] = running[d]
        BY <3>1 DEF CInv, CoreInv
      <3> QED  BY <2>3, <3>1, <3>2, <3>3 DEF CInv, CoreInv
    <2> QED  BY <2>2, <2>3 DEF ContextsWhole, CInv, FrameInv, CtxInv
  <1>2. Init => CInv  BY CInvInit
  <1>3. XInv /\ CInv /\ [Next]_vars => CInv'  BY CInvKept
  <1> QED  BY <1>1, <1>2, <1>3, XInvAlways, PTL DEF Spec


-----------------------------------------------------------------------------
(* The types of all variables, and the order of the boot *)

\* A core that has not yet come to main_slave, which unmaps the boot addresses.
Mapped == {"bootblock", "wait_for_wakeup", "boot_kernel", "_start", "main", "main_lock", "main_init"}

SwitchTypes ==
    /\ vm \in {"nothing", "boot and kernel", "kernel"}
    /\ armed \in [Cores -> BOOLEAN] /\ sie \in [Cores -> BOOLEAN]
    /\ cause \in [Pcbs -> {"ecall", "fault", "other"}]

\* The first page table maps the boot addresses from core 0's boot_kernel
\* until some other core has gone through main_slave.
BootMapped ==
    pc[0] \notin {"bootblock", "boot_kernel"} /\ (\A d \in Cores \ {0} : pc[d] \in Mapped) =>
        vm = "boot and kernel"

EInv == SwitchTypes /\ BootMapped

\* A step that leaves vm alone keeps it, unless core 0 leaves boot_kernel.
LEMMA MappingKept ==
    ASSUME XInv, BootMapped, NEW c, NEW q, Moves(c, q), vm' = vm,
           c = 0 => q \in {"bootblock", "boot_kernel"} \/ pc[0] \notin {"bootblock", "boot_kernel"},
           q \in Mapped => pc[c] \in Mapped
    PROVE  BootMapped'
  BY EntryAssumption, MovesFacts, ZenonT(60) DEF XInv, Moves, BootMapped

\* Types and the boot order: at the start,
LEMMA EInvInit == Init => EInv
  BY EntryAssumption DEF Init, EInv, SwitchTypes, BootMapped

\* over the steps up to main,
LEMMA EInvBoot ==
    ASSUME XInv, EInv, NEW c \in Cores, boot(c)
    PROVE  EInv'
  <1> USE DEF Goto, bootVars, regVars, EInv
  <1>1. SwitchTypes'
    <2>1. CASE main_master(c)  BY <2>1 DEF main_master, SwitchTypes
    <2>2. CASE main_slave(c)  BY <2>2 DEF main_slave, SwitchTypes
    <2>3. CASE bios_set_timer(c)  BY <2>3 DEF bios_set_timer, SwitchTypes
    <2>4. CASE main_unlock(c)  BY <2>4 DEF main_unlock, SwitchTypes
    <2>5. CASE wakeup_other_hart(c)  BY <2>5 DEF wakeup_other_hart, SwitchTypes
    <2>6. CASE \/ bootblock(c) \/ wait_for_wakeup(c) \/ boot_kernel(c) \/ _start(c) \/ smp_init(c)
      BY <2>6 DEF bootblock, wait_for_wakeup, boot_kernel, _start, smp_init, SwitchTypes
    <2> QED  BY <2>1, <2>2, <2>3, <2>4, <2>5, <2>6 DEF boot
  <1>2. CASE boot_kernel(c)
    <2>1. Moves(c, "_start") /\ vm' = (IF c = 0 THEN "boot and kernel" ELSE vm) /\ pc[c] = "boot_kernel"
      BY <1>2 DEF boot_kernel, Moves, Pcs, BootPcs
    <2>2. CASE c = 0  BY <1>1, <2>1, <2>2 DEF BootMapped
    <2>3. CASE c # 0  BY <1>1, <2>1, <2>3, MappingKept DEF Mapped
    <2> QED  BY <2>2, <2>3
  <1>3. CASE main_slave(c)
    <2>1. c # 0 /\ Moves(c, "main_timer")  BY <1>3 DEF main_slave, Moves, Pcs, MainPcs
    <2>2. pc'[c] \notin Mapped  BY <2>1, MovesFacts DEF XInv, Mapped
    <2> QED  BY <1>1, <2>1, <2>2 DEF BootMapped
  <1>4. CASE ~boot_kernel(c) /\ ~main_slave(c)
    <2>1. PICK q \in Pcs : /\ Moves(c, q) /\ vm' = vm
                           /\ c = 0 => q \in {"bootblock", "boot_kernel"} \/ pc[0] \notin {"bootblock", "boot_kernel"}
                           /\ q \in Mapped => pc[c] \in Mapped
      BY <1>4 DEF boot, bootblock, wait_for_wakeup, _start, smp_init, main_master, wakeup_other_hart,
         bios_set_timer, main_unlock, Moves, Pcs, BootPcs, MainPcs, TrapPcs, Mapped
    <2> QED  BY <1>1, <2>1, MappingKept
  <1> QED  BY <1>2, <1>3, <1>4

\* over those in the kernel,
LEMMA EInvKernel ==
    ASSUME XInv, EInv, NEW c \in Cores,
           kernel(c) \/ compute(c) \/ interrupt(c) \/ ecall(c) \/ handler_stops(c) \/ spin(c)
    PROVE  EInv'
  <1> USE DEF Goto, bootVars, regVars, EInv
  <1>1. ASSUME NEW why \in {"ecall", "fault", "other"}, trap(c, why) \/ trap_inside(c, why)
        PROVE  SwitchTypes'
    BY <1>1 DEF trap, trap_inside, SwitchTypes
  <1>2. SwitchTypes'
    <2>1. CASE interrupt(c) \/ ecall(c)  BY <1>1, <2>1 DEF interrupt, ecall
    <2>2. CASE RESTORE_CONTEXT(c)  BY <2>2 DEF RESTORE_CONTEXT, SwitchTypes
    <2>3. CASE UNCHANGED <<vm, armed, sie, cause>>  BY <2>3, ZenonT(60) DEF SwitchTypes
    <2>4. CASE kernel(c) /\ ~RESTORE_CONTEXT(c)
      BY <2>3, <2>4 DEF kernel, SAVE_CONTEXT, lock_kernel, do_unblock, do_exec, interrupt_helper, reschedule,
         switch_to, handler_returns, ret_from_exception
    <2>5. CASE compute(c)  BY <2>3, <2>5 DEF compute
    <2>6. CASE handler_stops(c)  BY <1>1, <2>3, <2>6 DEF handler_stops
    <2>7. CASE spin(c)  BY <2>3, <2>7 DEF spin, vars
    <2> QED  BY <2>1, <2>2, <2>4, <2>5, <2>6, <2>7
  <1>3. CASE pc' = pc /\ vm' = vm
    BY <1>2, <1>3 DEF BootMapped
  <1>4. CASE pc' # pc
    <2>1. PICK q \in Pcs : /\ Moves(c, q) /\ vm' = vm
                           /\ pc[c] \notin {"bootblock", "boot_kernel"}
                           /\ q \in Mapped => pc[c] \in Mapped
      BY <1>4 DEF kernel, SAVE_CONTEXT, lock_kernel, do_unblock, do_exec, interrupt_helper, reschedule,
         switch_to, handler_returns, ret_from_exception, RESTORE_CONTEXT, compute, interrupt, ecall, trap,
         trap_inside, handler_stops, spin, vars, Moves, Pcs, BootPcs, MainPcs, TrapPcs, Mapped
    <2> QED  BY <1>2, <2>1, MappingKept
  <1>5. vm' = vm
    BY DEF kernel, SAVE_CONTEXT, lock_kernel, do_unblock, do_exec, interrupt_helper, reschedule,
       switch_to, handler_returns, ret_from_exception, RESTORE_CONTEXT, compute, interrupt, ecall, trap,
         trap_inside, handler_stops, spin, vars
  <1> QED  BY <1>3, <1>4, <1>5

\* and so over every step.
LEMMA EInvKept == XInv /\ EInv /\ [Next]_vars => EInv'
  <1> SUFFICES ASSUME XInv, EInv, [Next]_vars PROVE EInv'
    OBVIOUS
  <1>1. CASE UNCHANGED vars
    BY <1>1 DEF vars, bootVars, regVars, EInv, SwitchTypes, BootMapped
  <1>2. CASE Next
    BY <1>2, EInvBoot, EInvKernel DEF Next
  <1> QED  BY <1>1, <1>2

\* The invariants together.
LEMMA EntryInvariant == Spec => [](XInv /\ CInv /\ EInv)
  <1>1. Init => CInv /\ EInv  BY CInvInit, EInvInit
  <1>2. XInv /\ CInv /\ EInv /\ [Next]_vars => CInv' /\ EInv'  BY CInvKept, EInvKept
  <1> QED  BY <1>1, <1>2, XInvAlways, PTL DEF Spec

\* Every variable keeps its type, and from head.S on a core's tp is the PCB
\* of a task or its own pid-0 PCB, never another core's (TypeOK).
THEOREM EntryTypes == Spec => []TypeOK
  <1>1. XInv /\ CInv /\ EInv => TypeOK
    <2> SUFFICES ASSUME XInv, CInv, EInv PROVE TypeOK
      OBVIOUS
    <2>1. ASSUME NEW c \in Cores
          PROVE  /\ pc[c] \notin BootPcs => tp[c] \in Tasks \cup {Idle(c)}
                 /\ pc[c] \in TrapPcs => running[c] \in Tasks \cup {Idle(c)}
      <3>1. zone \in [Cores -> {"boot", "main", "regs", "ctx", "switch", "dead"}]
            /\ (zone[c] = "boot" <=> pc[c] \in BootPcs) /\ (zone[c] = "main" <=> pc[c] \in MainPcs)
        BY Zones DEF XInv
      <3>2. pc[c] \in TrapPcs => zone[c] \in {"regs", "ctx", "switch", "dead"}
        BY <3>1 DEF TrapPcs, BootPcs, MainPcs
      <3>3. zone[c] \in {"regs", "ctx", "switch", "dead"} => up /\ running[c] \in Tasks \cup {Idle(c)}
        BY UpFacts DEF CInv, CoreInv
      <3>4. zone[c] \in {"regs", "ctx", "switch", "dead"} => tp[c] \in Tasks \cup {Idle(c)}
        BY <3>3 DEF CInv, CoreInv
      <3>5. zone[c] = "main" => tp[c] = Idle(c)
        BY DEF CInv, CoreInv
      <3> QED  BY <3>1, <3>2, <3>3, <3>4, <3>5
    <2> QED  BY <2>1 DEF TypeOK, XInv, PlaceOK, Pcs, CInv, TaskTypes, EInv, SwitchTypes
  <1> QED  BY <1>1, EntryInvariant, PTL

\* The machine has core 0 and one other.
TwoCores == \A c, d \in Cores \ {0} : c = d

\* The second core boots with the page table set up and the boot addresses
\* still mapped, and not before core 0 has initialised the kernel
\* (BootOrder).  The first part is about two cores: the first of several
\* others to come through main_slave would unmap what the next still needs.
THEOREM EntryBootOrder == Spec => [](TwoCores => BootOrder)
  <1>1. XInv /\ CInv /\ EInv => (TwoCores => BootOrder)
    <2> SUFFICES ASSUME XInv, CInv, EInv, TwoCores PROVE BootOrder
      OBVIOUS
    <2>1. ASSUME NEW c \in Cores \ {0}, pc[c] \notin Asleep
          PROVE  /\ pc[0] \notin BeforeInit \cup {"main_wakeup"}
                 /\ running[c] # NoPcb
      <3>1. pc[0] \notin BeforeInit \cup {"main_wakeup"}
        BY <2>1 DEF XInv, BootInv
      <3>2. up
        BY <3>1 DEF up
      <3>3. running[c] \in Tasks \cup {Idle(c)}
        BY <3>2 DEF CInv, CoreInv
      <3> QED  BY <3>1, <3>3, PcbFacts
    <2>2. ASSUME NEW c \in Cores \ {0}, pc[c] = "boot_kernel"
          PROVE  vm = "boot and kernel"
      <3>1. \A d \in Cores \ {0} : pc[d] \in Mapped
        BY <2>2 DEF TwoCores, Mapped
      <3>2. pc[0] \notin {"bootblock", "boot_kernel"}
        BY <2>1, <2>2 DEF Asleep, BeforeInit, BootPcs
      <3> QED  BY <3>1, <3>2 DEF EInv, BootMapped
    <2> QED  BY <2>1, <2>2 DEF BootOrder, Asleep, BeforeInit
  <1> QED  BY <1>1, EntryInvariant, PTL
=============================================================================
