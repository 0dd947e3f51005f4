---------------------------- MODULE KernelEntry ----------------------------
(***************************************************************************)
(* How the cores get into the kernel and out of it: bootblock.S, start.S,  *)
(* boot.c, head.S, main of init/main.c, entry.S, trap.S, smp.c and         *)
(* syscall.c, one step for each piece of code that another core can see    *)
(* half done.                                                              *)
(*                                                                         *)
(* SAVE_CONTEXT runs before the kernel lock is taken and RESTORE_CONTEXT   *)
(* after it has been given back, both on the kernel stack of the task that *)
(* tp points to; in between do_scheduler may have put the task on another  *)
(* core.  A register file is a number that every step of a program         *)
(* changes.  Which task do_scheduler picks is left to module Sched.        *)
(***************************************************************************)
EXTENDS Integers, FiniteSets

CONSTANTS
    Cores,          \* hart numbers, 0 among them; the kernel has two
    Tasks,          \* slots of pcb[]
    Shell,          \* the slot of the shell
    REGS            \* number of values of a register file

ASSUME EntryAssumption ==
    /\ Cores \subseteq Nat /\ 0 \in Cores
    /\ Tasks \subseteq Nat /\ Shell \in Tasks
    /\ REGS \in Nat \ {0, 1}

VARIABLES
    pc,         \* what a core is about to do
    lock,       \* large_kernel_lock.status
    vm,         \* what the first page table maps: nothing, boot and kernel addresses, or kernel addresses
    ipi,        \* a software interrupt is pending on a core
    armed,      \* bios_set_timer has been called on a core
    sie,        \* interrupts are enabled on a core
    tp,         \* the PCB a core's tp points to
    running,    \* core_running
    status,     \* pcb_t.status
    frame,      \* what the switchto_context on a PCB's kernel stack holds
    cause,      \* why a PCB entered the kernel: a system call, a fault of the kernel, or anything else
    ctx,        \* the regs_context on a PCB's kernel stack
    regs,       \* the registers of a core
    work        \* ghost: the registers a program should have

bootVars == <<vm, ipi, armed>>
taskVars == <<tp, running, status, frame>>
regVars == <<cause, ctx, regs, work>>
vars == <<pc, lock, bootVars, sie, taskVars, regVars>>

-----------------------------------------------------------------------------
(* PCBs *)

\* pid0_pcb_master and pid0_pcb_slave, whose code is the loop at the end of main.
Idle(c) == -2 - c
Pcbs == Tasks \cup {Idle(c) : c \in Cores}
NoPcb == -1

Torn == -1      \* a context of which SAVE_CONTEXT has written a part, or over
                \* which it has written the registers of the kernel
Values == 0 .. REGS - 1

\* Where a core can be: before main, in main, and from then on.
BootPcs == {"bootblock", "wait_for_wakeup", "boot_kernel", "_start"}
MainPcs == {"main", "main_lock", "main_init", "main_wakeup", "main_timer", "main_unlock"}
TrapPcs == {"run", "save", "save_rest", "trap_lock", "handler", "switch_to", "return",
            "ret_from_exception", "restore", "halted", "own_lock"}

\* The places between lock_kernel and unlock_kernel; "halted" and "own_lock"
\* are those a core never leaves.
InKernel(c) == pc[c] \in {"main_init", "main_wakeup", "main_timer", "main_unlock",
                          "handler", "switch_to", "return", "ret_from_exception",
                          "halted", "own_lock"}

Goto(c, place) == pc' = [pc EXCEPT ![c] = place]

-----------------------------------------------------------------------------
(* Boot *)

\* bootblock.S: core 0 loads the kernel and jumps to it; the others clear sip
\* and wait for a software interrupt that takes them to the same address.
bootblock(c) ==
    /\ pc[c] = "bootblock"
    /\ Goto(c, IF c = 0 THEN "boot_kernel" ELSE "wait_for_wakeup")
    /\ ipi' = IF c = 0 THEN ipi ELSE [ipi EXCEPT ![c] = FALSE]
    /\ UNCHANGED <<lock, vm, armed, sie, taskVars, regVars>>

\* The interrupt; _boot clears sip.
wait_for_wakeup(c) ==
    /\ pc[c] = "wait_for_wakeup"
    /\ ipi[c]
    /\ Goto(c, "boot_kernel")
    /\ ipi' = [ipi EXCEPT ![c] = FALSE]
    /\ UNCHANGED <<lock, vm, armed, sie, taskVars, regVars>>

\* boot_kernel: core 0 sets up the page table, every core turns it on.
boot_kernel(c) ==
    /\ pc[c] = "boot_kernel"
    /\ Goto(c, "_start")
    /\ vm' = IF c = 0 THEN "boot and kernel" ELSE vm
    /\ UNCHANGED <<lock, ipi, armed, sie, taskVars, regVars>>

\* head.S: core 0 clears the BSS, the kernel lock in it; each core takes its
\* own PCB and stack.
_start_master_tp(c) ==
    /\ pc[c] = "_start"
    /\ Goto(c, "main")
    /\ tp' = IF c = 0 THEN [tp EXCEPT ![c] = Idle(c)] ELSE tp
    /\ lock' = IF c = 0 THEN 0 ELSE lock
    /\ UNCHANGED <<bootVars, sie, running, status, frame, regVars>>
_start(c) ==
    /\ pc[c] = "_start"
    /\ Goto(c, "main")
    /\ tp' = [tp EXCEPT ![c] = Idle(c)]
    /\ lock' = IF c = 0 THEN 0 ELSE lock
    /\ UNCHANGED <<bootVars, sie, running, status, frame, regVars>>

smp_init_everywhere(c) ==
    /\ pc[c] = "main"
    /\ Goto(c, "main_lock")
    /\ lock' = 0
    /\ UNCHANGED <<bootVars, sie, taskVars, regVars>>
smp_init(c) ==
    /\ pc[c] = "main"
    /\ Goto(c, "main_lock")
    /\ lock' = IF c = 0 THEN 0 ELSE lock
    /\ UNCHANGED <<bootVars, sie, taskVars, regVars>>

\* atomic_swap returns 0 to one core at a time; the others spin.
lock_kernel(c) ==
    /\ pc[c] \in {"main_lock", "trap_lock", "own_lock"}
    /\ lock = 0
    /\ lock' = 1
    /\ Goto(c, IF pc[c] = "main_lock" THEN "main_init" ELSE "handler")
    /\ UNCHANGED <<bootVars, sie, taskVars, regVars>>

\* The PCB of a task that has not run yet: init_pcb_stack gives it registers
\* and a switchto_context that leads to ret_from_exception.
NewTask(t) ==
    /\ status' = [status EXCEPT ![t] = "ready"]
    /\ frame' = [frame EXCEPT ![t] = "new"]
    /\ ctx' = [ctx EXCEPT ![t] = 0]
    /\ work' = [work EXCEPT ![t] = 0]

\* Core 0 initialises everything, with setup_exception in the middle.
main_master_cancels(c) ==
    /\ c = 0
    /\ pc[c] = "main_init"
    /\ NewTask(Shell)
    /\ vm' = "kernel"
    /\ running' = [d \in Cores |-> Idle(d)]
    /\ sie' = [sie EXCEPT ![c] = TRUE]
    /\ Goto(c, "main_wakeup")
    /\ UNCHANGED <<lock, ipi, armed, tp, cause, regs>>
main_master(c) ==
    /\ c = 0
    /\ pc[c] = "main_init"
    /\ NewTask(Shell)
    /\ running' = [d \in Cores |-> Idle(d)]
    /\ sie' = [sie EXCEPT ![c] = TRUE]
    /\ Goto(c, "main_wakeup")
    /\ UNCHANGED <<lock, bootVars, tp, cause, regs>>

\* disable_interrupt, wakeup_other_hart: an IPI to all, its own taken back.
wakeup_other_hart_enabled(c) ==
    /\ pc[c] = "main_wakeup"
    /\ ipi' = [d \in Cores |-> d # c]
    /\ Goto(c, "main_timer")
    /\ UNCHANGED <<lock, vm, armed, sie, taskVars, regVars>>
wakeup_other_hart(c) ==
    /\ pc[c] = "main_wakeup"
    /\ sie' = [sie EXCEPT ![c] = FALSE]
    /\ ipi' = [d \in Cores |-> d # c]
    /\ Goto(c, "main_timer")
    /\ UNCHANGED <<lock, vm, armed, taskVars, regVars>>

\* The other core: cancel_preboot_map, setup_exception.
main_slave(c) ==
    /\ c # 0
    /\ pc[c] = "main_init"
    /\ vm' = "kernel"
    /\ sie' = [sie EXCEPT ![c] = TRUE]
    /\ Goto(c, "main_timer")
    /\ UNCHANGED <<lock, ipi, armed, taskVars, regVars>>

bios_set_timer(c) ==
    /\ pc[c] = "main_timer"
    /\ armed' = [armed EXCEPT ![c] = TRUE]
    /\ Goto(c, "main_unlock")
    /\ UNCHANGED <<lock, vm, ipi, sie, taskVars, regVars>>

\* unlock_kernel, enable_interrupt, and the loop that is the pid-0 task.
main_unlock(c) ==
    /\ pc[c] = "main_unlock"
    /\ lock' = 0
    /\ sie' = [sie EXCEPT ![c] = TRUE]
    /\ Goto(c, "run")
    /\ UNCHANGED <<bootVars, taskVars, regVars>>

-----------------------------------------------------------------------------
(* Traps *)

\* A program makes a step.
compute(c) ==
    /\ pc[c] = "run"
    /\ tp[c] \in Tasks
    /\ regs' = [regs EXCEPT ![c] = (@ + 1) % REGS]
    /\ work' = [work EXCEPT ![tp[c]] = (@ + 1) % REGS]
    /\ UNCHANGED <<pc, lock, bootVars, sie, taskVars, cause, ctx>>

\* The hardware turns interrupts off and jumps to exception_handler_entry.
trap(c, why) ==
    /\ cause' = [cause EXCEPT ![tp[c]] = why]
    /\ sie' = [sie EXCEPT ![c] = FALSE]
    /\ Goto(c, "save")
    /\ UNCHANGED <<lock, bootVars, taskVars, ctx, regs, work>>

\* A trap into the kernel from the kernel, by a core that holds the lock:
\* SAVE_CONTEXT writes the registers of the kernel over what is on the stack
\* of the PCB, and lock_kernel waits for the core itself.
trap_inside(c, why) ==
    /\ cause' = [cause EXCEPT ![tp[c]] = why]
    /\ ctx' = [ctx EXCEPT ![tp[c]] = Torn]
    /\ sie' = [sie EXCEPT ![c] = FALSE]
    /\ Goto(c, "own_lock")
    /\ UNCHANGED <<lock, bootVars, taskVars, regs, work>>

\* The timer: of a program, of the pid-0 task, or of main between
\* bios_set_timer and unlock_kernel, on a core whose interrupts are on there.
interrupt(c) ==
    /\ sie[c]
    /\ armed[c]
    /\ \/ pc[c] = "run" /\ trap(c, "other")
       \/ pc[c] = "main_unlock" /\ trap_inside(c, "other")

ecall(c) ==
    /\ pc[c] = "run"
    /\ tp[c] \in Tasks
    /\ trap(c, "ecall")

\* SAVE_CONTEXT, in two steps.
SAVE_CONTEXT(c) ==
    \/ /\ pc[c] = "save"
       /\ ctx' = [ctx EXCEPT ![tp[c]] = Torn]
       /\ Goto(c, "save_rest")
       /\ UNCHANGED <<lock, bootVars, sie, taskVars, cause, regs, work>>
    \/ /\ pc[c] = "save_rest"
       /\ ctx' = [ctx EXCEPT ![tp[c]] = regs[c]]
       /\ Goto(c, "trap_lock")
       /\ UNCHANGED <<lock, bootVars, sie, taskVars, cause, regs, work>>

\* What handlers do to other tasks: do_unblock, do_exec.
do_unblock(c, t) ==
    /\ pc[c] = "handler"
    /\ status[t] = "blocked"
    /\ status' = [status EXCEPT ![t] = "ready"]
    /\ UNCHANGED <<pc, lock, bootVars, sie, tp, running, frame, regVars>>

do_exec(c, t) ==
    /\ pc[c] = "handler"
    /\ cause[tp[c]] = "ecall"
    /\ status[t] = "free"
    /\ NewTask(t)
    /\ UNCHANGED <<pc, lock, bootVars, sie, tp, running, cause, regs>>

\* do_scheduler, up to its call of switch_to: the task that is left is on a
\* queue, or gone; the next is a ready task or the core's pid-0 task.
reschedule_unlocks(c, left) ==
    LET st == IF tp[c] \in Tasks THEN [status EXCEPT ![tp[c]] = left] ELSE status
    IN
    /\ \E next \in {t \in Tasks : st[t] = "ready"} \cup {Idle(c)} :
         /\ running' = [running EXCEPT ![c] = next]
         /\ status' = IF next \in Tasks THEN [st EXCEPT ![next] = "running"] ELSE st
    /\ lock' = 0
    /\ Goto(c, "switch_to")
    /\ UNCHANGED <<bootVars, sie, tp, frame, regVars>>
reschedule(c, left) ==
    LET st == IF tp[c] \in Tasks THEN [status EXCEPT ![tp[c]] = left] ELSE status
    IN
    /\ \E next \in {t \in Tasks : st[t] = "ready"} \cup {Idle(c)} :
         /\ running' = [running EXCEPT ![c] = next]
         /\ status' = IF next \in Tasks THEN [st EXCEPT ![next] = "running"] ELSE st
    /\ Goto(c, "switch_to")
    /\ UNCHANGED <<lock, bootVars, sie, tp, frame, regVars>>

\* interrupt_helper: the handler returns, or gives up the processor: the
\* timer and do_yield leave the task READY, do_block leaves it BLOCKED,
\* do_exit leaves a PCB to be used again.
interrupt_helper(c) ==
    /\ pc[c] = "handler"
    /\ \/ /\ Goto(c, "return")
          /\ UNCHANGED <<lock, bootVars, sie, taskVars, regVars>>
       \/ reschedule(c, "ready")
       \/ /\ cause[tp[c]] = "ecall"
          /\ \E left \in {"blocked", "free"} : reschedule(c, left)

\* A handler that never returns: an assertion or an exception nobody handles
\* stops the core in a loop; a fault of the handler itself, as on a buffer of
\* the program that is on the card, is a trap like any other.
handler_stops(c) ==
    /\ pc[c] \in {"handler", "return"}
    /\ \/ /\ Goto(c, "halted")
          /\ UNCHANGED <<lock, bootVars, sie, taskVars, regVars>>
       \/ trap_inside(c, "fault")

\* The loop of panic, and that of lock_kernel for a core's own lock.
spin(c) ==
    /\ pc[c] \in {"halted", "own_lock"}
    /\ UNCHANGED vars

\* switch_to: the frame of the task that is left is written before that of
\* the next is read, also if they are the same.  ra leads a new task to
\* ret_from_exception and any other back into its handler.
switch_to(c) ==
    LET next == running[c]
        saved == [frame EXCEPT ![tp[c]] = "handler"]
    IN
    /\ pc[c] = "switch_to"
    /\ tp' = [tp EXCEPT ![c] = next]
    /\ frame' = [saved EXCEPT ![next] = "none"]
    /\ Goto(c, IF saved[next] = "new" THEN "ret_from_exception" ELSE "return")
    /\ UNCHANGED <<lock, bootVars, sie, running, status, regVars>>

\* The handler's end.  handle_syscall stores the result in the saved context.
handler_returns(c) ==
    /\ pc[c] = "return"
    /\ IF cause[tp[c]] = "ecall"
       THEN /\ ctx' = [ctx EXCEPT ![tp[c]] = (@ + 1) % REGS]
            /\ work' = [work EXCEPT ![tp[c]] = (@ + 1) % REGS]
       ELSE UNCHANGED <<ctx, work>>
    /\ Goto(c, "ret_from_exception")
    /\ UNCHANGED <<lock, bootVars, sie, taskVars, cause, regs>>

\* unlock_kernel, and only then RESTORE_CONTEXT.
ret_from_exception(c) ==
    /\ pc[c] = "ret_from_exception"
    /\ lock' = 0
    /\ Goto(c, "restore")
    /\ UNCHANGED <<bootVars, sie, taskVars, regVars>>

\* RESTORE_CONTEXT and sret.
RESTORE_CONTEXT(c) ==
    /\ pc[c] = "restore"
    /\ regs' = [regs EXCEPT ![c] = ctx[tp[c]]]
    /\ sie' = [sie EXCEPT ![c] = TRUE]
    /\ Goto(c, "run")
    /\ UNCHANGED <<lock, bootVars, taskVars, cause, ctx, work>>

-----------------------------------------------------------------------------
(* The specification *)

\* The power is on.  The kernel lock is whatever the memory holds.
Init ==
    /\ pc = [c \in Cores |-> "bootblock"]
    /\ lock \in {0, 1}
    /\ vm = "nothing"
    /\ ipi = [c \in Cores |-> FALSE]
    /\ armed = [c \in Cores |-> FALSE]
    /\ sie = [c \in Cores |-> FALSE]
    /\ tp = [c \in Cores |-> NoPcb]
    /\ running = [c \in Cores |-> NoPcb]
    /\ status = [t \in Tasks |-> "free"]
    /\ frame = [t \in Pcbs |-> "none"]
    /\ cause = [t \in Pcbs |-> "other"]
    /\ ctx = [t \in Pcbs |-> 0]
    /\ regs = [c \in Cores |-> 0]
    /\ work = [t \in Pcbs |-> 0]

boot(c) ==
    \/ bootblock(c) \/ wait_for_wakeup(c) \/ boot_kernel(c) \/ _start(c) \/ smp_init(c)
    \/ main_master(c) \/ wakeup_other_hart(c) \/ main_slave(c)
    \/ bios_set_timer(c) \/ main_unlock(c)

kernel(c) ==
    \/ SAVE_CONTEXT(c)
    \/ lock_kernel(c)
    \/ \E t \in Tasks : do_unblock(c, t) \/ do_exec(c, t)
    \/ interrupt_helper(c) \/ switch_to(c) \/ handler_returns(c)
    \/ ret_from_exception(c) \/ RESTORE_CONTEXT(c)

Next == \E c \in Cores :
    \/ boot(c) \/ kernel(c) \/ compute(c) \/ interrupt(c) \/ ecall(c)
    \/ handler_stops(c) \/ spin(c)

\* A core does not stop in the middle of boot or kernel code.  Nothing is
\* assumed of the spin lock: a core may spin for ever while others get it.
Fairness == \A c \in Cores : WF_vars(boot(c) \/ kernel(c))

Spec == Init /\ [][Next]_vars /\ Fairness

-----------------------------------------------------------------------------
(* Properties *)

\* The type of every variable; a core that has come through head.S works on
\* a PCB of its own or on a task.
TypeOK ==
    /\ pc \in [Cores -> BootPcs \cup MainPcs \cup TrapPcs]
    /\ lock \in {0, 1}
    /\ vm \in {"nothing", "boot and kernel", "kernel"}
    /\ ipi \in [Cores -> BOOLEAN] /\ armed \in [Cores -> BOOLEAN] /\ sie \in [Cores -> BOOLEAN]
    /\ tp \in [Cores -> Pcbs \cup {NoPcb}] /\ running \in [Cores -> Pcbs \cup {NoPcb}]
    /\ \A c \in Cores : pc[c] \notin BootPcs => tp[c] \in Tasks \cup {Idle(c)}
    /\ \A c \in Cores : pc[c] \in TrapPcs => running[c] \in Tasks \cup {Idle(c)}
    /\ status \in [Tasks -> {"free", "ready", "running", "blocked"}]
    /\ frame \in [Pcbs -> {"none", "new", "handler"}]
    /\ cause \in [Pcbs -> {"ecall", "fault", "other"}]
    /\ ctx \in [Pcbs -> Values \cup {Torn}]
    /\ regs \in [Cores -> Values]
    /\ work \in [Pcbs -> Values]

\* At most one core is between lock_kernel and unlock_kernel (smp.c:25), from
\* the boot of the first on: smp_init and the clearing of the BSS, which
\* write the lock without taking it, come before anyone can.
KernelExclusive ==
    /\ \A c, d \in Cores : InKernel(c) /\ InKernel(d) => c = d
    /\ \A c \in Cores : InKernel(c) => lock = 1

\* A program goes on with the registers it was interrupted with, plus the
\* result of its system call, on whichever core: no context is read before it
\* has been written completely, nor after another core has begun to write it,
\* though it is written before lock_kernel (entry.S:191) and read after
\* unlock_kernel (entry.S:184); and no kernel stack has two cores on it.
ContextsWhole ==
    /\ \A c \in Cores : pc[c] = "run" => regs[c] = work[tp[c]]
    /\ \A c \in Cores : pc[c] = "restore" => ctx[tp[c]] = work[tp[c]]
    /\ \A c \in Cores : pc[c] = "switch_to" =>
            running[c] = tp[c] \/ frame[running[c]] # "none"
    /\ \A c, d \in Cores : c # d /\ pc[c] \in TrapPcs /\ pc[d] \in TrapPcs => tp[c] # tp[d]
    /\ \A t \in Tasks : status[t] \in {"ready", "blocked"} =>
            ctx[t] = work[t]

\* A core that is woken up finds the page table set up, with the boot
\* addresses it executes at still mapped (boot.c:74; main.c:294 has the call
\* that would unmap them commented out), and no core is in a handler or runs
\* a task before core 0 has initialised everything the handlers use.
BootOrder ==
    /\ \A c \in Cores \ {0} : pc[c] = "boot_kernel" => vm = "boot and kernel"
    /\ \A c \in Cores \ {0} : pc[c] \notin {"bootblock", "wait_for_wakeup"} =>
            /\ pc[0] \notin BootPcs \cup {"main", "main_lock", "main_init", "main_wakeup"}
            /\ running[c] # NoPcb

\* The cores that never give the lock back: one whose handler stopped or
\* faulted, and one other than core 0 whose first timer interrupt came before
\* its unlock_kernel (main.c:361 turns the interrupts on, main.c:367 unlocks).
Hung(c) ==
    \/ pc[c] = "halted"
    \/ pc[c] = "own_lock" /\ (cause[tp[c]] = "fault" \/ c # 0)

\* The kernel lock does not stay taken, whatever the cores do at boot and in
\* handlers, unless a core is Hung: no way through the kernel keeps it, and
\* core 0, which turns its interrupts off before it sets the timer
\* (main.c:355), never waits for a lock it took in main itself.
KernelReleased == lock = 1 ~> lock = 0 \/ \E c \in Cores : Hung(c)
=============================================================================
