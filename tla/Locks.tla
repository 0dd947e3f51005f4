------------------------------- MODULE Locks -------------------------------
(***************************************************************************)
(* Mutexes, barriers and condition variables of kernel/locking/lock.c, on  *)
(* top of the scheduler.  Each system call is one action, do_scheduler     *)
(* included where the code calls it.                                       *)
(*                                                                         *)
(* Two variables are not in the code.  holds[m] is the user's view of a    *)
(* mutex: the tasks whose acquire (or condition wait) has returned, or     *)
(* will return when they are next dispatched, and that have not released   *)
(* it; the code only keeps a pid in owner.  goal[b] remembers the argument *)
(* of do_barrier_init, which the code overwrites.                          *)
(***************************************************************************)
EXTENDS Sched

CONSTANTS
    Keys,           \* the keys programs pass to do_mutex_lock_init
    Goals           \* the goals programs pass to do_barrier_init

ASSUME LocksAssumption ==
    /\ Keys \subseteq Nat \ {0}
    /\ Goals \subseteq Nat \ {0}

VARIABLES
    mlocks,         \* mlocks[m]: lock.status, owner and key
    barriers,       \* barriers[b]: in use (key # -1) and barrier_num
    conditions,     \* conditions[k]: valid and lock_idx
    holds,          \* ghost: who is inside mutex m
    goal            \* ghost: the goal barrier b was initialised with

lockVars == <<mlocks, barriers, conditions, holds, goal>>
vars == <<schedVars, lockVars>>

NoOwner == -1
NoLock == -1

LocksInit ==
    /\ mlocks = [m \in Mutexes |-> [status |-> "UNLOCKED", owner |-> NoOwner, key |-> 0]]
    /\ barriers = [b \in Barriers |-> [used |-> FALSE, num |-> -1]]
    /\ conditions = [k \in Conditions |-> [valid |-> FALSE, lock_idx |-> NoLock]]
    /\ holds = [m \in Mutexes |-> {}]
    /\ goal = [b \in Barriers |-> -1]

-----------------------------------------------------------------------------
(* Mutexes *)

\* Mutant: the scan takes any mutex.
InitScan_any(key) == Mutexes

\* The scan stops at the first mutex that has the key or no owner.
InitScan(key) == {m \in Mutexes : mlocks[m].key = key \/ mlocks[m].owner = NoOwner}

do_mutex_lock_init(c, key) ==
    LET found == InitScan(key)
        i == Min(found)
    IN
    /\ Calls(c, "mutex")
    /\ halt' = IF found = {} THEN "spin" ELSE halt
    /\ mlocks' = IF found = {} \/ mlocks[i].key = key
                 THEN mlocks
                 ELSE [mlocks EXCEPT ![i] =
                          [status |-> "UNLOCKED", owner |-> 0, key |-> key]]
    /\ UNCHANGED <<status, pid, mask, wakeup_time, queue, core_running,
                   process_id, time, barriers, conditions, holds, goal>>

\* A program passes an index do_mutex_lock_init gave out, and does not
\* acquire a mutex it is inside.
do_mutex_lock_acquire(c, m) ==
    LET p == core_running[c] IN
    /\ Calls(c, "mutex")
    /\ mlocks[m].key # 0
    /\ p \notin holds[m]
    /\ UNCHANGED <<pid, mask, wakeup_time, process_id, time, halt,
                   barriers, conditions, goal>>
    /\ IF mlocks[m].status = "UNLOCKED"
       THEN /\ mlocks' = [mlocks EXCEPT ![m].status = "LOCKED", ![m].owner = pid[p]]
            /\ holds' = [holds EXCEPT ![m] = @ \cup {p}]
            /\ UNCHANGED <<status, queue, core_running>>
       ELSE /\ UNCHANGED <<mlocks, holds>>
            /\ do_scheduler(c, set_status(status, {p}, "BLOCKED"),
                               add_queue(queue, MutexQ(m), p))

\* Mutant: nobody is unblocked.
Successors_none(q, ms) == <<>>

\* The first waiter of each mutex in ms that has one, in the order of the
\* mutexes: the tasks that do_mutex_lock_release of these mutexes unblocks.
Successors(q, ms) ==
    LET all == [i \in 1 .. LOCK_NUM |-> i - 1]
        contended == SubList(all, {i \in DOMAIN all :
                                      all[i] \in ms /\ q[MutexQ(all[i])] # <<>>})
    IN  [i \in DOMAIN contended |-> Head(q[MutexQ(contended[i])])]

\* Mutants: a mutex with waiters becomes UNLOCKED although its first waiter
\* goes on; the owner is not updated at the hand-off.
ReleasedLocks_unlocked(q, ms) ==
    [m \in Mutexes |->
        IF m \notin ms THEN mlocks[m]
        ELSE [mlocks[m] EXCEPT !.status = "UNLOCKED", !.owner = NoOwner]]
ReleasedLocks_owner(q, ms) ==
    [m \in Mutexes |->
        IF m \notin ms \/ q[MutexQ(m)] # <<>> THEN mlocks[m]
        ELSE [mlocks[m] EXCEPT !.status = "UNLOCKED", !.owner = NoOwner]]

\* mlocks and holds once the mutexes in ms have been released by the tasks
\* in leave; a mutex with waiters stays LOCKED and its first waiter owns it.
ReleasedLocks(q, ms) ==
    [m \in Mutexes |->
        IF m \notin ms THEN mlocks[m]
        ELSE IF q[MutexQ(m)] = <<>>
             THEN [mlocks[m] EXCEPT !.status = "UNLOCKED", !.owner = NoOwner]
             ELSE [mlocks[m] EXCEPT !.owner = pid'[Head(q[MutexQ(m)])]]]
ReleasedHolds(q, ms, leave) ==
    [m \in Mutexes |->
        IF m \notin ms THEN holds[m]
        ELSE (holds[m] \ leave)
                \cup IF q[MutexQ(m)] = <<>> THEN {} ELSE {Head(q[MutexQ(m)])}]

\* A program releases a mutex it is inside; the kernel does not check.
do_mutex_lock_release(c, m) ==
    LET p == core_running[c]
        woken == Successors(queue, {m})
    IN
    /\ Calls(c, "mutex")
    /\ p \in holds[m]
    /\ UNCHANGED <<pid, mask, wakeup_time, process_id, time, halt, core_running,
                   barriers, conditions, goal>>
    /\ status' = set_status(status, Range(woken), "READY")
    /\ queue' = do_unblock(queue, woken)
    /\ mlocks' = ReleasedLocks(queue, {m})
    /\ holds' = ReleasedHolds(queue, {m}, {p})

-----------------------------------------------------------------------------
(* Barriers *)

do_barrier_init(c, g) ==
    LET unused == {b \in Barriers : ~barriers[b].used}
        i == Min(unused)
    IN
    /\ Calls(c, "barrier")
    /\ unused # {}
    /\ barriers' = [barriers EXCEPT ![i] = [used |-> TRUE, num |-> g]]
    /\ goal' = [goal EXCEPT ![i] = g]
    /\ UNCHANGED <<schedVars, mlocks, conditions, holds>>

\* The last of the expected tasks arrives.  Mutant: the last but one does.
LastArrival_early(b) == barriers[b].num <= 2
LastArrival(b) == barriers[b].num = 1

\* barrier_num after the waiters w have left, one increment for each.
\* Mutant: barrier_num is not put back.
RestoredNum_kept(b, w) == barriers[b].num
RestoredNum(b, w) == barriers[b].num + Len(w)

do_barrier_wait(c, b) ==
    LET p == core_running[c]
        w == queue[BarrierQ(b)]
    IN
    /\ Calls(c, "barrier")
    /\ barriers[b].used
    /\ UNCHANGED <<pid, mask, wakeup_time, process_id, time, halt,
                   mlocks, conditions, holds, goal>>
    /\ IF LastArrival(b)
       THEN /\ barriers' = [barriers EXCEPT ![b].num = RestoredNum(b, w)]
            /\ do_scheduler(c, set_status(status, Range(w), "READY"),
                               do_unblock(queue, w))
       ELSE /\ barriers' = [barriers EXCEPT ![b].num = @ - 1]
            /\ do_scheduler(c, set_status(status, {p}, "BLOCKED"),
                               add_queue(queue, BarrierQ(b), p))

\* Programs destroy a barrier nobody waits at, as the comment at
\* lock.c:142 assumes; the kernel does not check.
do_barrier_destroy(c, b) ==
    /\ Calls(c, "barrier")
    /\ barriers[b].used
    /\ queue[BarrierQ(b)] = <<>>
    /\ barriers' = [barriers EXCEPT ![b] = [used |-> FALSE, num |-> -1]]
    /\ UNCHANGED <<schedVars, mlocks, conditions, holds, goal>>

-----------------------------------------------------------------------------
(* Condition variables *)

do_condition_init(c) ==
    LET unused == {k \in Conditions : ~conditions[k].valid}
        i == Min(unused)
    IN
    /\ Calls(c, "cond")
    /\ unused # {}
    /\ conditions' = [conditions EXCEPT ![i].valid = TRUE]
    /\ UNCHANGED <<schedVars, mlocks, barriers, holds, goal>>

\* A program waits inside the mutex it passes, and tasks that wait together
\* pass the same mutex; the kernel checks neither.
do_condition_wait(c, k, m) ==
    LET p == core_running[c]
        woken == Successors(queue, {m})
        st1 == set_status(status, {p}, "BLOCKED")
        q1 == add_queue(queue, CondQ(k), p)
    IN
    /\ Calls(c, "cond")
    /\ conditions[k].valid
    /\ p \in holds[m]
    /\ queue[CondQ(k)] = <<>> \/ conditions[k].lock_idx = m
    /\ UNCHANGED <<pid, mask, wakeup_time, process_id, time, halt, barriers, goal>>
    /\ conditions' = [conditions EXCEPT ![k].lock_idx = m]
    /\ mlocks' = ReleasedLocks(queue, {m})
    /\ holds' = ReleasedHolds(queue, {m}, {p})
    /\ do_scheduler(c, set_status(st1, Range(woken), "READY"), do_unblock(q1, woken))

\* Wakes the first waiter straight into the mutex it gave up.  Programs
\* signal inside that mutex unless the workload has "signal_unlocked", and
\* with somebody waiting unless it has "signal_empty": get_head of an empty
\* list unlinks the list head.
do_condition_signal(c, k) ==
    LET m == conditions[k].lock_idx
        s == Head(queue[CondQ(k)])
        q1 == del_queue(queue, {s})
    IN
    /\ Calls(c, "cond")
    /\ conditions[k].valid
    /\ queue[CondQ(k)] # <<>> \/ "signal_empty" \in Workload
    /\ queue[CondQ(k)] # <<>> /\ "signal_unlocked" \notin Workload
          => core_running[c] \in holds[m]
    /\ UNCHANGED <<pid, mask, wakeup_time, process_id, time, barriers,
                   conditions, holds, goal>>
    /\ IF queue[CondQ(k)] = <<>>
       THEN /\ halt' = "list"
            /\ UNCHANGED <<status, queue, core_running, mlocks>>
       ELSE /\ UNCHANGED halt
            /\ IF mlocks[m].status = "UNLOCKED"
               THEN /\ mlocks' = [mlocks EXCEPT ![m].status = "LOCKED",
                                                ![m].owner = pid[s]]
                    /\ queue' = q1
                    /\ UNCHANGED <<status, core_running>>
               ELSE /\ UNCHANGED mlocks
                    /\ do_scheduler(c, set_status(status, {s}, "BLOCKED"),
                                       add_queue(q1, MutexQ(m), s))

\* Moves every waiter to the mutex's queue; if the mutex is free the first
\* of them gets it and goes to the ready queue, its status still BLOCKED.
do_condition_broadcast(c, k) ==
    LET m == conditions[k].lock_idx
        w == queue[CondQ(k)]
        free == w # <<>> /\ mlocks[m].status = "UNLOCKED"
        q1 == [queue EXCEPT ![CondQ(k)] = <<>>]
        q2 == IF w = <<>> THEN q1
              ELSE IF free
                   THEN [add_queue(q1, ReadyQ, Head(w)) EXCEPT ![MutexQ(m)] = @ \o Tail(w)]
                   ELSE [q1 EXCEPT ![MutexQ(m)] = @ \o w]
    IN
    /\ Calls(c, "cond")
    /\ conditions[k].valid
    /\ UNCHANGED <<pid, mask, wakeup_time, process_id, time, halt, barriers,
                   conditions, goal>>
    /\ mlocks' = IF free THEN [mlocks EXCEPT ![m].status = "LOCKED",
                                             ![m].owner = pid[Head(w)]]
                 ELSE mlocks
    /\ holds' = IF free THEN [holds EXCEPT ![m] = @ \cup {Head(w)}] ELSE holds
    /\ do_scheduler(c, status, q2)

do_condition_destroy(c, k) ==
    /\ Calls(c, "cond")
    /\ queue[CondQ(k)] = <<>>
    /\ conditions' = [conditions EXCEPT ![k] = [valid |-> FALSE, lock_idx |-> NoLock]]
    /\ UNCHANGED <<schedVars, mlocks, barriers, holds, goal>>
=============================================================================
