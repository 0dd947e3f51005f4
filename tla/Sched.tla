------------------------------- MODULE Sched -------------------------------
(***************************************************************************)
(* The PCB table, the scheduler and the process system calls of            *)
(* kernel/sched/sched.c and kernel/sched/time.c.                           *)
(*                                                                         *)
(* Every trap takes the big kernel lock in exception_handler_entry         *)
(* (entry.S) and runs with interrupts off, so a handler is one atomic      *)
(* action; the cores interleave handler by handler.  do_scheduler is the   *)
(* last thing every blocking handler does, so "body; do_scheduler" is one  *)
(* step: the body computes new status and queue functions and hands them   *)
(* to do_scheduler, which sets status', queue' and core_running'.          *)
(*                                                                         *)
(* Each action names the core c that traps; the task it acts for is        *)
(* core_running[c].                                                        *)
(***************************************************************************)
EXTENDS PcbList

CONSTANTS
    NUM_MAX_TASK,   \* size of the pcb array
    CORE_NUM,       \* number of harts
    LOCK_NUM,       \* size of mlocks
    BARRIER_NUM,    \* size of barriers
    CONDITION_NUM,  \* size of conditions
    MaxPid,         \* bound: no more processes are created once process_id exceeds it
    MaxTime,        \* bound: get_timer() stops here
    Masks,          \* the affinity masks programs pass to do_taskset_chg
    Workload        \* what the user programs do: system calls and misuses

ASSUME SchedAssumption ==
    /\ NUM_MAX_TASK \in Nat \ {0}
    /\ CORE_NUM \in Nat \ {0}
    /\ LOCK_NUM \in Nat /\ BARRIER_NUM \in Nat /\ CONDITION_NUM \in Nat
    /\ MaxPid \in Nat /\ MaxTime \in Nat
    /\ Masks \subseteq (SUBSET (0 .. CORE_NUM - 1)) \ {{}}

VARIABLES
    status,         \* pcb[p].status
    pid,            \* pcb[p].pid
    mask,           \* pcb[p].mask, as the set of cores whose bit is set
    wakeup_time,    \* pcb[p].wakeup_time
    queue,          \* every list of PCBs in the kernel
    core_running,   \* the PCB each core runs
    process_id,     \* the next pid
    time,           \* get_timer(), in seconds
    halt            \* "no", or why the kernel spins for ever holding its lock

schedVars == <<status, pid, mask, wakeup_time, queue, core_running,
               process_id, time, halt>>

-----------------------------------------------------------------------------
Slots == 0 .. NUM_MAX_TASK - 1
Cores == 0 .. CORE_NUM - 1
Mutexes == 0 .. LOCK_NUM - 1
Barriers == 0 .. BARRIER_NUM - 1
Conditions == 0 .. CONDITION_NUM - 1

\* pid0_pcb_master or pid0_pcb_slave, whichever belongs to the core.
Pid0 == -1

Statuses == {"BLOCKED", "RUNNING", "READY", "EXITED", "AVAILABLE"}
Free == {"EXITED", "AVAILABLE"}

\* "assert": assert(0); "spin": while(1) in do_mutex_lock_init; "drain": the
\* wait_list loop of do_exit or do_kill never ends; "list": a list head was
\* unlinked by get_head; "fault": a NULL link was followed, and the trap spins
\* on the kernel lock its own core holds.
Halts == {"no", "assert", "spin", "drain", "list", "fault"}

ReadyQ == <<"ready", 0>>
SleepQ == <<"sleep", 0>>
WaitQ(p) == <<"wait", p>>
MutexQ(m) == <<"mutex", m>>
BarrierQ(b) == <<"barrier", b>>
CondQ(k) == <<"cond", k>>

QueueId ==
    {ReadyQ, SleepQ}
        \cup {WaitQ(p) : p \in Slots}
        \cup {MutexQ(m) : m \in Mutexes}
        \cup {BarrierQ(b) : b \in Barriers}
        \cup {CondQ(k) : k \in Conditions}

-----------------------------------------------------------------------------
(* Queues *)

\* Mutant: insertion at the head of the list instead of its tail.
add_queue_front(q, Q, p) == [q EXCEPT ![Q] = <<p>> \o @]

add_queue(q, Q, p) == [q EXCEPT ![Q] = Append(@, p)]

\* Mutant: the node is not unlinked.
del_queue_skipped(q, S) == q

\* del_queue of every PCB in S, whatever list it is on.
del_queue(q, S) == [Q \in QueueId |-> Without(q[Q], S)]

\* Mutants: the woken task is not unlinked from its old list; it is unlinked
\* but never reaches the ready queue.
do_unblock_linked(q, woken) == [q EXCEPT ![ReadyQ] = @ \o woken]
do_unblock_dropped(q, woken) == del_queue(q, Range(woken))

\* The tasks of the sequence woken leave the lists they are on and go, in
\* this order, to the tail of the ready queue: do_unblock once per task.
do_unblock(q, woken) ==
    [del_queue(q, Range(woken)) EXCEPT ![ReadyQ] = @ \o woken]

set_status(st, S, s) == [p \in Slots |-> IF p \in S THEN s ELSE st[p]]

\* Mutant: the comparison with the clock is the wrong way round.
Expired_reversed(q) ==
    SubList(q[SleepQ],
            {i \in DOMAIN q[SleepQ] : time < wakeup_time'[q[SleepQ][i]]})

\* The tasks check_sleeping wakes, in the order it finds them.
Expired(q) ==
    SubList(q[SleepQ],
            {i \in DOMAIN q[SleepQ] : time >= wakeup_time'[q[SleepQ][i]]})

\* Mutant: a scan that finds nobody leaves a NULL next_running.
PickNext_null(c, r) ==
    LET runnable == {i \in DOMAIN r : c \in mask'[r[i]]}
    IN  IF runnable = {} THEN -2 ELSE r[Min(runnable)]

\* The first task of the ready list r that may run on core c, else the idle task.
PickNext(c, r) ==
    LET runnable == {i \in DOMAIN r : c \in mask'[r[i]]}
    IN  IF runnable = {} THEN Pid0 ELSE r[Min(runnable)]

\* Mutant: the test of the pid is inverted.
Requeues_inverted(c, st) ==
    /\ core_running[c] # Pid0
    /\ st[core_running[c]] = "RUNNING"
    /\ pid'[core_running[c]] = 0

\* The task that core c leaves goes back to the ready queue.
Requeues(c, st) ==
    /\ core_running[c] # Pid0
    /\ st[core_running[c]] = "RUNNING"
    /\ pid'[core_running[c]] # 0

\* The second half of do_scheduler: core c leaves the ready queue with the
\* next task to run and switches to it.
switch_to(c, st, q) ==
    \E next_running \in {PickNext(c, q[ReadyQ])} :
        /\ core_running' = [core_running EXCEPT ![c] = next_running]
        /\ status' = set_status(st, {next_running}, "RUNNING")
        /\ queue' = del_queue(q, {next_running})

\* do_scheduler on core c, entered with the statuses st and the lists q; pid,
\* mask and wakeup_time are read as the handler has left them.  (Each
\* quantifier over a singleton names a value of an intermediate state, which
\* TLC then computes once.)
do_scheduler(c, st, q) ==
    \E woken \in {Expired(q)} :
    \E st1 \in {set_status(st, Range(woken), "READY")}, q1 \in {do_unblock(q, woken)} :
        IF Requeues(c, st1)
        THEN \E st2 \in {set_status(st1, {core_running[c]}, "READY")},
                q2 \in {add_queue(q1, ReadyQ, core_running[c])} : switch_to(c, st2, q2)
        ELSE switch_to(c, st1, q1)

-----------------------------------------------------------------------------
(* Helpers of the system calls *)

\* Core c can trap: the kernel lock can be had.
Alive == halt = "no"

\* A user task is running on core c and uses the system call sc.
Calls(c, sc) == Alive /\ sc \in Workload /\ core_running[c] # Pid0

\* The slots whose pid is v; the array scans of do_kill, do_waitpid and
\* do_taskset_chg stop at the least of them.
SlotsOf(v) == {p \in Slots : pid[p] = v}

\* The slots do_exec and do_thread_create scan for; pcb[0] is the shell's.
FreeSlots == {p \in Slots \ {0} : status[p] \in Free}

-----------------------------------------------------------------------------
(* Actions *)

Init ==
    /\ status = [p \in Slots |-> IF p = 0 THEN "READY" ELSE "AVAILABLE"]
    /\ pid = [p \in Slots |-> IF p = 0 THEN 1 ELSE -1]
    /\ mask = [p \in Slots |-> IF p = 0 THEN Cores ELSE {}]
    /\ wakeup_time = [p \in Slots |-> 0]
    /\ queue = [Q \in QueueId |-> IF Q = ReadyQ THEN <<0>> ELSE <<>>]
    /\ core_running = [c \in Cores |-> Pid0]
    /\ process_id = 2
    /\ time = 0
    /\ halt = "no"

\* A second passes on the machine's clock.
Tick ==
    /\ Alive
    /\ time < MaxTime
    /\ time' = time + 1
    /\ UNCHANGED <<status, pid, mask, wakeup_time, queue, core_running,
                   process_id, halt>>

\* The timer interrupt, and SYSCALL_YIELD, which is do_scheduler itself.
handle_irq_timer(c) ==
    /\ Alive
    /\ UNCHANGED <<pid, mask, wakeup_time, process_id, time, halt>>
    /\ do_scheduler(c, status, queue)

do_sleep(c, sleep_time) ==
    LET p == core_running[c] IN
    /\ Calls(c, "sleep")
    /\ time + sleep_time <= MaxTime
    /\ wakeup_time' = [wakeup_time EXCEPT ![p] = time + sleep_time]
    /\ UNCHANGED <<pid, mask, process_id, time, halt>>
    /\ do_scheduler(c, set_status(status, {p}, "BLOCKED"),
                       add_queue(queue, SleepQ, p))

\* The part do_exec and do_thread_create share: take the first free slot,
\* reset its PCB and put it on the ready queue; assert(0) if there is none.
new_task(c, newpid) ==
    LET i == Min(FreeSlots) IN
    IF FreeSlots = {}
    THEN /\ halt' = "assert"
         /\ UNCHANGED <<status, pid, mask, wakeup_time, queue>>
    ELSE /\ status' = [status EXCEPT ![i] = "READY"]
         /\ pid' = [pid EXCEPT ![i] = newpid]
         /\ mask' = [mask EXCEPT ![i] = mask[core_running[c]]]
         /\ wakeup_time' = [wakeup_time EXCEPT ![i] = 0]
         /\ queue' = add_queue([queue EXCEPT ![WaitQ(i)] = <<>>], ReadyQ, i)
         /\ UNCHANGED halt

do_exec(c) ==
    /\ Calls(c, "exec")
    /\ process_id <= MaxPid
    /\ new_task(c, process_id)
    /\ process_id' = IF FreeSlots = {} THEN process_id ELSE process_id + 1
    /\ UNCHANGED <<core_running, time>>

do_thread_create(c) ==
    /\ Calls(c, "thread")
    /\ new_task(c, pid[core_running[c]])
    /\ UNCHANGED <<core_running, process_id, time>>

\* The loop that empties wait_list looks at the last waiter (do_exit) or at
\* the first (do_kill) and unblocks only if that one has not EXITED: an
\* EXITED waiter there keeps it going for ever.
exit_drain_hangs(w) == w # <<>> /\ status[w[Len(w)]] = "EXITED"
kill_drain_hangs(w) == \E p \in Range(w) : status[p] = "EXITED"

do_exit(c) ==
    LET p == core_running[c]
        w == queue[WaitQ(p)]
    IN
    /\ Calls(c, "exit")
    /\ halt' = IF exit_drain_hangs(w) THEN "drain" ELSE halt
    /\ UNCHANGED <<pid, mask, wakeup_time, process_id, time>>
    /\ do_scheduler(c, set_status(set_status(status, Range(w), "READY"), {p}, "EXITED"),
                       del_queue(do_unblock(queue, w), {p}))

\* Mutant: only a never-used slot is not waited for.
waitpid_blocks_exited(w) == status[w] # "AVAILABLE"

\* The task in slot w is still there to be waited for.
waitpid_blocks(w) == status[w] \notin Free

do_waitpid(c, v) ==
    LET p == core_running[c]
        w == Min(SlotsOf(v))
    IN
    /\ Calls(c, "waitpid")
    /\ SlotsOf(v) # {}
    /\ UNCHANGED <<pid, mask, wakeup_time, process_id, time, halt>>
    /\ IF waitpid_blocks(w)
       THEN do_scheduler(c, set_status(status, {p}, "BLOCKED"),
                            add_queue(queue, WaitQ(w), p))
       ELSE do_scheduler(c, status, queue)

do_taskset_chg(c, v, newmask) ==
    /\ Calls(c, "taskset")
    /\ IF SlotsOf(v) = {}
       THEN halt' = "assert" /\ UNCHANGED mask
       ELSE /\ mask' = [mask EXCEPT ![Min(SlotsOf(v))] = newmask]
            /\ UNCHANGED halt
    /\ UNCHANGED <<status, pid, wakeup_time, queue, core_running, process_id, time>>
=============================================================================
