------------------------------- MODULE Kernel -------------------------------
(***************************************************************************)
(* The whole task side of the kernel: the scheduler and process calls of   *)
(* module Sched, the locks of module Locks, and do_kill, which needs both. *)
(*                                                                         *)
(* The constant Workload says what the user programs do.  Besides the      *)
(* names of the system calls it may contain misuses the kernel does not    *)
(* defend against, each of which some property below depends on:           *)
(*   "kill_remote"      do_kill of a task that is running on another core  *)
(*   "kill_waiting"     do_kill of a task that waits at a barrier          *)
(*   "exit_locked"      do_exit inside a mutex                             *)
(*   "signal_unlocked"  do_condition_signal outside the mutex              *)
(*   "signal_empty"     do_condition_signal with nobody waiting            *)
(***************************************************************************)
EXTENDS Locks

\* The mutexes release_pcb_lock releases.  Mutant: it is not called.
OwnedBy_none(v) == {}
OwnedBy(v) == {m \in Mutexes : mlocks[m].owner = v}

\* do_kill(v) by the task on core c of a PCB that some task has used, the
\* first with that pid.  Its waiters are woken, its pid becomes 0, every mutex the pid owns
\* is released, and it becomes EXITED; if it was RUNNING, do_scheduler runs,
\* on the killer's core.
kill_task(c, v) ==
    LET t == Min(SlotsOf(v))
        w == queue[WaitQ(t)]
        st1 == set_status(status, Range(w), "READY")
        q1 == do_unblock(queue, w)
        owned == OwnedBy(v)
        woken == Successors(q1, owned)
        st2 == set_status(st1, Range(woken), "READY")
        q2 == do_unblock(q1, woken)
        remote == \E d \in Cores \ {c} : core_running[d] = t
    IN
    /\ Calls(c, "kill")
    /\ SlotsOf(v) # {}
    /\ status[t] # "AVAILABLE"
    /\ remote => "kill_remote" \in Workload
    /\ (\E b \in Barriers : t \in Range(queue[BarrierQ(b)])) => "kill_waiting" \in Workload
    /\ halt' = IF kill_drain_hangs(w) THEN "drain" ELSE halt
    /\ pid' = [pid EXCEPT ![t] = 0]
    /\ mlocks' = ReleasedLocks(q1, owned)
    /\ holds' = ReleasedHolds(q1, owned, IF remote THEN {} ELSE {t})
    /\ UNCHANGED <<mask, wakeup_time, process_id, time, barriers, conditions, goal>>
    /\ CASE st2[t] = "RUNNING" ->
              do_scheduler(c, set_status(st2, {t}, "EXITED"), q2)
         [] st2[t] \in {"BLOCKED", "READY"} ->
              /\ status' = set_status(st2, {t}, "EXITED")
              /\ queue' = del_queue(q2, {t})
              /\ UNCHANGED core_running
         [] OTHER ->
              /\ status' = st2
              /\ queue' = q2
              /\ UNCHANGED core_running

\* do_kill of a PCB that no task has used yet, which has pid -1: its
\* wait_list was never initialised and holds NULL links, so it does not look
\* empty.
kill_unused(c, v) ==
    /\ Calls(c, "kill")
    /\ SlotsOf(v) # {}
    /\ status[Min(SlotsOf(v))] = "AVAILABLE"
    /\ halt' = "fault"
    /\ UNCHANGED <<status, pid, mask, wakeup_time, queue, core_running, process_id, time>>
    /\ UNCHANGED lockVars

do_kill(c, v) == kill_task(c, v) \/ kill_unused(c, v)

-----------------------------------------------------------------------------
\* What programs pass as a pid: the shell passes on whatever atoi() gives, so
\* also the pid 0 of a killed task and the -1 of a PCB never used.
Pids == -1 .. MaxPid

\* A program that is inside a mutex does not exit, unless the workload says so.
exit_step(c) ==
    /\ "exit_locked" \notin Workload => \A m \in Mutexes : core_running[c] \notin holds[m]
    /\ do_exit(c)
    /\ UNCHANGED lockVars

\* A task asks for less sleep than the clock bound leaves.
sleep_step(c) == \E d \in 0 .. MaxTime : do_sleep(c, d) /\ UNCHANGED lockVars

timer_step(c) == handle_irq_timer(c) /\ UNCHANGED lockVars
tick_step == Tick /\ UNCHANGED lockVars
exec_step(c) == do_exec(c) /\ UNCHANGED lockVars
thread_step(c) == do_thread_create(c) /\ UNCHANGED lockVars
waitpid_step(c) == \E v \in Pids : do_waitpid(c, v) /\ UNCHANGED lockVars
taskset_step(c) ==
    \E v \in Pids, newmask \in Masks : do_taskset_chg(c, v, newmask) /\ UNCHANGED lockVars

\* The kernel spins for ever inside a handler and nobody else gets its lock.
Halted == ~Alive /\ UNCHANGED vars

KInit == Init /\ LocksInit

Next ==
    \/ tick_step
    \/ Halted
    \/ \E c \in Cores :
        \/ timer_step(c)
        \/ exec_step(c)
        \/ thread_step(c)
        \/ exit_step(c)
        \/ sleep_step(c)
        \/ waitpid_step(c)
        \/ taskset_step(c)
        \/ \E v \in Pids : do_kill(c, v)
        \/ \E key \in Keys : do_mutex_lock_init(c, key)
        \/ \E m \in Mutexes : do_mutex_lock_acquire(c, m)
        \/ \E m \in Mutexes : do_mutex_lock_release(c, m)
        \/ \E g \in Goals : do_barrier_init(c, g)
        \/ \E b \in Barriers : do_barrier_wait(c, b)
        \/ \E b \in Barriers : do_barrier_destroy(c, b)
        \/ do_condition_init(c)
        \/ \E k \in Conditions, m \in Mutexes : do_condition_wait(c, k, m)
        \/ \E k \in Conditions : do_condition_signal(c, k)
        \/ \E k \in Conditions : do_condition_broadcast(c, k)
        \/ \E k \in Conditions : do_condition_destroy(c, k)

Spec == KInit /\ [][Next]_vars

-----------------------------------------------------------------------------
(* Fairness.  Each core's timer is re-armed by every timer interrupt        *)
(* (irq.c:32) and by main (main.c:366) and interrupts are on in user mode,  *)
(* so every core keeps taking timer interrupts; the clock keeps running.    *)
(* A program that is inside a mutex is assumed to release it if it is given *)
(* the processor often enough; the kernel cannot enforce that.              *)
FairSpec ==
    /\ Spec
    /\ WF_vars(tick_step)
    /\ \A c \in Cores : WF_vars(timer_step(c))
    /\ \A m \in Mutexes : SF_vars(\E c \in Cores : do_mutex_lock_release(c, m))

-----------------------------------------------------------------------------
(* Invariants *)

TypeOK ==
    /\ status \in [Slots -> Statuses]
    /\ pid \in [Slots -> Int]
    /\ mask \in [Slots -> SUBSET Cores]
    /\ wakeup_time \in [Slots -> Nat]
    /\ queue \in [QueueId -> Seq(Slots)]
    /\ core_running \in [Cores -> Slots \cup {Pid0}]
    /\ process_id \in Nat
    /\ time \in Nat
    /\ halt \in Halts
    /\ mlocks \in [Mutexes -> [status : {"UNLOCKED", "LOCKED"}, owner : Int, key : Nat]]
    /\ barriers \in [Barriers -> [used : BOOLEAN, num : Int]]
    /\ conditions \in [Conditions -> [valid : BOOLEAN, lock_idx : Mutexes \cup {NoLock}]]
    /\ holds \in [Mutexes -> SUBSET Slots]
    /\ goal \in [Barriers -> Int]

Queued(p) == \E Q \in QueueId : p \in Range(queue[Q])

\* Every PCB is linked at most once in all the lists of the kernel: one pair
\* of links (pcb_t.list) serves every queue, so a second insertion before a
\* removal would splice two lists together.
OneQueue ==
    /\ \A Q \in QueueId : IsInjective(queue[Q])
    /\ \A Q, R \in QueueId : Q # R => Range(queue[Q]) \cap Range(queue[R]) = {}

\* A PCB is RUNNING exactly while some core runs it, no two cores run the
\* same PCB (they would share one kernel stack), and a running PCB is on no
\* list, so that no core can pick it a second time.
RunningExactlyOnce ==
    /\ \A c \in Cores : core_running[c] # Pid0 =>
          /\ status[core_running[c]] = "RUNNING"
          /\ ~Queued(core_running[c])
          /\ \A d \in Cores : core_running[d] = core_running[c] => d = c
    /\ \A p \in Slots : status[p] = "RUNNING" => \E c \in Cores : core_running[c] = p

\* Nobody is forgotten: a READY task is in the ready queue, and a BLOCKED
\* one is on the list of the event that will wake it.
NobodyForgotten ==
    \A p \in Slots :
        /\ status[p] = "READY" => p \in Range(queue[ReadyQ])
        /\ status[p] = "BLOCKED" => Queued(p)

\* What the kernel assumes of its PCBs whenever it is entered.
TasksConsistent == OneQueue /\ RunningExactlyOnce /\ NobodyForgotten

\* A PCB that is free for reuse is on no list, and nobody waits for it:
\* do_exec empties wait_list and NULLs the links without looking.
FreeSlotsClean ==
    \A p \in Slots : status[p] \in Free => ~Queued(p) /\ queue[WaitQ(p)] = <<>>

\* The loops that empty wait_list in do_exit and do_kill always end.
DrainsEnd == halt # "drain"

\* At most one task is inside a mutex.
MutexExclusion == \A m \in Mutexes : Cardinality(holds[m]) <= 1

\* A mutex is never left behind: while it is LOCKED, or has waiters, a task
\* that has not exited is inside it and will hand it on.
NoOrphanedMutex ==
    \A m \in Mutexes :
        mlocks[m].status = "LOCKED" \/ queue[MutexQ(m)] # <<>> =>
            \E p \in holds[m] : status[p] \notin Free

\* owner names the task inside the mutex and -1 means nobody is, which is
\* what release_pcb_lock and the scan of do_mutex_lock_init rely on.
OwnerIsHolder ==
    \A m \in Mutexes :
        /\ \A p \in holds[m] : mlocks[m].owner = pid[p]
        /\ mlocks[m].owner = NoOwner => holds[m] = {} /\ queue[MutexQ(m)] = <<>>

\* do_mutex_lock_init gives a mutex a new key, and makes it UNLOCKED, only
\* when nobody is inside it or queued for it.
RekeyedOnlyWhenFree ==
    [][\A m \in Mutexes : mlocks'[m].key # mlocks[m].key =>
          holds[m] = {} /\ queue[MutexQ(m)] = <<>> /\ mlocks[m].status = "UNLOCKED"]_vars

\* barrier_num counts the arrivals still missing: with the tasks already
\* waiting it always adds up to the goal, also after a release, so the
\* barrier can be used again.
BarrierConserved ==
    \A b \in Barriers : barriers[b].used =>
        /\ barriers[b].num + Len(queue[BarrierQ(b)]) = goal[b]
        /\ barriers[b].num >= 1

\* Nobody passes a barrier before everybody has arrived: the waiters leave
\* it all together, in a step in which goal - 1 of them were there.
BarrierReleasesTogether ==
    [][\A b \in Barriers :
          (\E p \in Range(queue[BarrierQ(b)]) :
               p \notin Range(queue'[BarrierQ(b)]) /\ status'[p] # "EXITED")
          => /\ Len(queue[BarrierQ(b)]) = goal[b] - 1
             /\ queue'[BarrierQ(b)] = <<>>]_vars

\* No PCB is given to a new task while a core still runs the old one: a PCB
\* some core runs is never waiting to be picked from a list.
ReusedOnlyWhenLeft ==
    \A c \in Cores : core_running[c] # Pid0 => ~Queued(core_running[c])

-----------------------------------------------------------------------------
(* Liveness *)

\* No task starves: whoever is READY is dispatched (or killed), because
\* do_scheduler takes the ready queue in order and appends at its tail.
ReadyRuns == \A p \in Slots : status[p] = "READY" ~> status[p] # "READY" \/ ~Alive

\* Whoever sleeps runs again (or is killed): some core's check_sleeping
\* finds it once the clock has passed its wakeup_time.
SleeperRuns ==
    \A p \in Slots :
        p \in Range(queue[SleepQ]) ~> status[p] \in {"RUNNING", "EXITED"} \/ ~Alive

\* Whoever is queued for a mutex gets in (or is killed), as long as those
\* inside leave: do_mutex_lock_release hands the mutex to the first waiter,
\* so a newcomer cannot overtake.
WaiterEnters ==
    \A m \in Mutexes, p \in Slots :
        p \in Range(queue[MutexQ(m)]) ~>
            \/ p \in holds[m] /\ status[p] = "RUNNING"
            \/ status[p] = "EXITED"
            \/ ~Alive
=============================================================================
