---------------------------- MODULE LocksProofs ----------------------------
(***************************************************************************)
(* Mutexes, condition variables and barriers keep their promises, for any  *)
(* number of tasks, cores, mutexes, barriers and conditions.               *)
(*                                                                         *)
(* The promises depend on what the programs do.  Disciplined programs kill *)
(* no task that runs on another core, leave a mutex before they exit, and  *)
(* signal inside the mutex; and if they create threads, which share a pid, *)
(* they kill nobody, because release_pcb_lock goes by the pid.  For        *)
(* barriers nobody may be killed while it waits at one.                    *)
(*                                                                         *)
(* The inductive invariant MInv says that a mutex is either free, with     *)
(* nobody inside and nobody queued, or held by exactly one live task whose *)
(* pid is its owner and which does not queue for it itself; that whoever   *)
(* waits for a condition is outside the mutex it will be woken into; and   *)
(* that pids name tasks uniquely.  BInv adds to BarrierConserved that      *)
(* nobody waits at a barrier that is not in use.                           *)
(* BlockedOn says that a BLOCKED task is on some list.  It holds without   *)
(* any discipline as long as no program uses condition variables           *)
(* (NoneLost): only a signal given outside the mutex unlinks a waiter.     *)
(***************************************************************************)
EXTENDS KernelProofs

\* Programs that keep the rules the locks are written for, see above.
Disciplined ==
    /\ LocalKills
    /\ "exit_locked" \notin Workload
    /\ "signal_unlocked" \notin Workload
    /\ "thread" \notin Workload \/ "kill" \notin Workload

MutexFree(m) == mlocks[m].status = "UNLOCKED" /\ holds[m] = {} /\ Range(queue[MutexQ(m)]) = {}

MutexHeld(m) ==
    /\ mlocks[m].status = "LOCKED"
    /\ \E p \in Slots : /\ holds[m] = {p}
                        /\ status[p] \notin Free
                        /\ mlocks[m].owner = pid[p]
                        /\ p \notin Range(queue[MutexQ(m)])

\* Every mutex is free, or held by one task.
MutexesKept == \A m \in Mutexes : MutexFree(m) \/ MutexHeld(m)

\* Who waits for condition k gave up the mutex it will be woken into.
CondsKept ==
    \A k \in Conditions : \A s \in Range(queue[CondQ(k)]) :
        conditions[k].lock_idx \in Mutexes /\ s \notin holds[conditions[k].lock_idx]

\* Pids are handed out in order, and whoever lives has one.
PidsNamed ==
    /\ process_id >= 2
    /\ \A p \in Slots : pid[p] < process_id /\ (status[p] \notin Free => pid[p] >= 1)

PidsUnique ==
    "thread" \notin Workload =>
        \A p, r \in Slots : pid[p] = pid[r] /\ pid[p] >= 1 => p = r

MInv == MutexesKept /\ CondsKept /\ PidsNamed /\ PidsUnique

\* A BLOCKED task is on some list.
BlockedOn(st, q) == \A p \in Slots : st[p] = "BLOCKED" => On(q, p)

\* Programs that kill nobody at a barrier, and nobody on another core.
BarrierUse == LocalKills /\ "kill_waiting" \notin Workload

BInv ==
    /\ BarrierConserved
    /\ \A b \in Barriers : ~barriers[b].used => queue[BarrierQ(b)] = <<>>

-----------------------------------------------------------------------------
(* Which lists an operation leaves as they are *)

\* The lists of the locks.
LockQ ==
    {MutexQ(m) : m \in Mutexes} \cup {BarrierQ(b) : b \in Barriers} \cup {CondQ(k) : k \in Conditions}

\* The queues of the synchronisation objects are all different.
LEMMA LockQueueNames ==
    /\ LockQ \subseteq QueueId
    /\ \A Q \in LockQ : Q # ReadyQ /\ Q # SleepQ /\ \A x \in Slots : Q # WaitQ(x)
    /\ \A m \in Mutexes : MutexQ(m) \in LockQ
    /\ \A b \in Barriers : BarrierQ(b) \in LockQ
    /\ \A k \in Conditions : CondQ(k) \in LockQ
    /\ \A m, n : MutexQ(m) = MutexQ(n) => m = n
    /\ \A b, d : BarrierQ(b) = BarrierQ(d) => b = d
    /\ \A k, l : CondQ(k) = CondQ(l) => k = l
    /\ \A m, b : MutexQ(m) # BarrierQ(b) /\ MutexQ(m) # CondQ(b) /\ BarrierQ(m) # CondQ(b)
BY DEF LockQ, QueueId, ReadyQ, SleepQ, WaitQ, MutexQ, BarrierQ, CondQ

\* Unlinking nodes that are not on a list leaves it alone.
LEMMA WithoutAbsent ==
    ASSUME NEW s, NEW S, Range(s) \cap S = {}
    PROVE  Without(s, S) = s
<1>1. {i \in DOMAIN s : s[i] \notin S} = DOMAIN s
  BY DEF Range
<1> QED
  BY <1>1 DEF Without, SubList

\* Unlinking all nodes of a list empties it.
LEMMA WithoutAll ==
    ASSUME NEW s \in Seq(Slots), NEW S, Range(s) \subseteq S
    PROVE  Without(s, S) = <<>>
BY WithoutProperties, RangeOfList

\* A queue with none of the tasks taken off stays as it is.
LEMMA DelQueueFrame ==
    ASSUME NEW q \in QueuesType, NEW S, NEW Q \in QueueId, Range(q[Q]) \cap S = {}
    PROVE  del_queue(q, S)[Q] = q[Q]
BY WithoutAbsent DEF del_queue

\* Waking tasks that are not on a queue leaves it as it is; waking all of it
\* empties it.
LEMMA UnblockFrame ==
    ASSUME NEW q \in QueuesType, NEW woken, NEW Q \in QueueId, Q # ReadyQ
    PROVE  /\ Range(q[Q]) \cap Range(woken) = {} => do_unblock(q, woken)[Q] = q[Q]
           /\ Range(q[Q]) \subseteq Range(woken) => do_unblock(q, woken)[Q] = <<>>
<1>1. do_unblock(q, woken)[Q] = Without(q[Q], Range(woken)) /\ q[Q] \in Seq(Slots)
  BY DEF do_unblock, del_queue, QueuesType
<1> QED
  BY <1>1, WithoutAbsent, WithoutAll

\* do_scheduler touches only the ready queue and the sleep queue, and loses
\* nobody who is BLOCKED.
LEMMA SwitchFrame ==
    ASSUME NEW c \in Cores, NEW st \in StatusType, NEW q \in QueuesType, Lists(q),
           switch_to(c, st, q)
    PROVE  /\ \A Q \in QueueId : Q # ReadyQ => queue'[Q] = q[Q]
           /\ BlockedOn(st, q) => BlockedOn(status', queue')
<1>1. PICK n \in {PickNext(c, q[ReadyQ])} :
        /\ status' = set_status(st, {n}, "RUNNING")
        /\ queue' = del_queue(q, {n})
  BY DEF switch_to
<1>2. ReadyQ \in QueueId /\ q[ReadyQ] \in Seq(Slots)
  BY QueueNames DEF QueuesType
<1>3. n = Pid0 \/ n \in Range(q[ReadyQ])
  BY <1>1, <1>2, PickNextTask
<1>4. Pid0 \notin Slots
  BY SchedAssumption DEF Pid0, Slots
<1>5. ASSUME NEW Q \in QueueId, Q # ReadyQ PROVE queue'[Q] = q[Q]
  <2>1. Range(q[Q]) \subseteq Slots
    BY RangeOfList DEF QueuesType
  <2>2. n \notin Range(q[Q])
    BY <1>2, <1>3, <1>4, <1>5, <2>1 DEF Lists
  <2> QED BY <1>1, <2>2, DelQueueFrame
<1>6. \A Q \in QueueId : Range(queue'[Q]) = Range(q[Q]) \ {n}
  BY <1>1, DelQueue
<1>7. \A p \in Slots : status'[p] = IF p = n THEN "RUNNING" ELSE st[p]
  BY <1>1, SetStatus DEF Statuses
<1>8. BlockedOn(st, q) => BlockedOn(status', queue')
  BY <1>6, <1>7 DEF BlockedOn, On
<1> QED
  BY <1>5, <1>8

\* The scheduler touches the ready and the sleep queue only, and loses nobody.
LEMMA SchedulerFrame ==
    ASSUME NEW c \in Cores, NEW st \in StatusType, NEW q \in QueuesType, Lists(q),
           core_running \in CoresType, Tasks(st, q), do_scheduler(c, st, q)
    PROVE  /\ \A Q \in QueueId : Q # ReadyQ /\ Q # SleepQ => queue'[Q] = q[Q]
           /\ BlockedOn(st, q) => BlockedOn(status', queue')
<1> DEFINE r == core_running[c]
           woken == Expired(q)
           st1 == set_status(st, Range(woken), "READY")
           q1 == do_unblock(q, woken)
           st2 == set_status(st1, {r}, "READY")
           q2 == add_queue(q1, ReadyQ, r)
<1>1. IF Requeues(c, st1) THEN switch_to(c, st2, q2) ELSE switch_to(c, st1, q1)
  BY DEF do_scheduler
<1>2. /\ woken \in Seq(Slots) /\ IsInjective(woken) /\ Range(woken) \subseteq Range(q[SleepQ])
      /\ \A p \in Range(woken) : On(q, p)
  BY ExpiredTasks, QueueNames DEF On
<1>3. ReadyQ \in QueueId /\ SleepQ \in QueueId
  BY QueueNames
<1>4. ASSUME NEW Q \in QueueId, Q # ReadyQ, Q # SleepQ PROVE q1[Q] = q[Q]
  <2>1. Range(q[Q]) \cap Range(woken) = {}
    BY <1>2, <1>3, <1>4 DEF Lists
  <2> HIDE DEF woken
  <2> QED BY <1>4, <2>1, UnblockFrame
<1>5. /\ st1 \in StatusType /\ q1 \in QueuesType /\ Lists(q1) /\ Tasks(st1, q1)
      /\ \A p \in Slots : On(q1, p) <=> On(q, p)
      /\ \A p \in Slots : st1[p] = IF p \in Range(woken) THEN "READY" ELSE st[p]
  <2> HIDE DEF woken
  <2>1. st1 \in StatusType /\ \A p \in Slots : st1[p] = IF p \in Range(woken) THEN "READY" ELSE st[p]
    BY SetStatus DEF Statuses
  <2> QED BY <1>2, <2>1, Unblock, WakeKeeps
<1> HIDE DEF woken, st1, q1
<1>6. BlockedOn(st, q) => BlockedOn(st1, q1)
  BY <1>5 DEF BlockedOn
<1>7. CASE Requeues(c, st1)
  <2>1. r \in Slots /\ st1[r] = "RUNNING"
    BY <1>7 DEF Requeues, CoresType
  <2>2. ~On(q1, r)
    BY <1>5, <2>1 DEF Tasks
  <2>3. st2 \in StatusType /\ \A p \in Slots : st2[p] = IF p = r THEN "READY" ELSE st1[p]
    BY <1>5, SetStatus DEF Statuses
  <2>4. q2 \in QueuesType /\ Lists(q2)
    BY <1>3, <1>5, <2>1, <2>2, AddQueue
  <2>5. Range(q2[ReadyQ]) = Range(q1[ReadyQ]) \cup {r}
    <3>1. q1 \in QueuesType /\ r \in Slots
      BY <1>5, <2>1
    <3> HIDE DEF r
    <3> QED BY <1>3, <3>1, AddQueue, SMTT(40)
  <2>6. \A R \in QueueId : R # ReadyQ => q2[R] = q1[R]
    BY <1>3, <1>5, <2>1, AddQueue
  <2> HIDE DEF st2, q2, r
  <2>7. BlockedOn(st1, q1) => BlockedOn(st2, q2)
    <3>1. \A p \in Slots : On(q1, p) => On(q2, p)
      BY <1>3, <2>5, <2>6 DEF On
    <3> QED BY <2>3, <3>1 DEF BlockedOn
  <2>8. /\ \A Q \in QueueId : Q # ReadyQ => queue'[Q] = q2[Q]
        /\ BlockedOn(st2, q2) => BlockedOn(status', queue')
    BY <1>1, <1>7, <2>3, <2>4, SwitchFrame
  <2> QED BY <1>4, <1>6, <2>6, <2>7, <2>8
<1>8. CASE ~Requeues(c, st1)
  <2>1. /\ \A Q \in QueueId : Q # ReadyQ => queue'[Q] = q1[Q]
        /\ BlockedOn(st1, q1) => BlockedOn(status', queue')
    BY <1>1, <1>5, <1>8, SwitchFrame
  <2> QED BY <1>4, <1>6, <2>1
<1> QED
  BY <1>7, <1>8

\* The same for a handler that hands consistent statuses and lists over.
LEMMA ScheduleFrame ==
    ASSUME core_running \in CoresType, NEW c \in Cores,
           NEW st \in StatusType, NEW q \in QueuesType,
           Lists(q), Tasks(st, q), OnCores(st, core_running, Cores \ {c}),
           PidsLive(st, pid'), do_scheduler(c, st, q)
    PROVE  /\ \A Q \in LockQ : queue'[Q] = q[Q]
           /\ \A p \in Slots : status'[p] \in Free <=> st[p] \in Free
           /\ BlockedOn(st, q) => BlockedOn(status', queue')
<1>1. core_running[c] # Pid0 /\ st[core_running[c]] = "RUNNING" => pid'[core_running[c]] # 0
  BY DEF CoresType, PidsLive, Free
<1>2. \A p \in Slots : status'[p] \in Free <=> st[p] \in Free
  BY <1>1, SchedulerKeeps
<1> QED
  BY <1>2, SchedulerFrame, LockQueueNames

\* What a step leaves alone that takes no part in locking.
Frame ==
    /\ \A Q \in LockQ : queue'[Q] = queue[Q]
    /\ \A p \in Slots : status'[p] \in Free <=> status[p] \in Free
    /\ BlockedOn(status, queue) => BlockedOn(status', queue')

\* A call that blocks the running task on a queue.
LEMMA BlockFrame ==
    ASSUME TypeOK, CInv, NEW c \in Cores, core_running[c] # Pid0, pid' = pid,
           NEW Q \in QueueId, Q # ReadyQ,
           \A w \in Slots : Q = WaitQ(w) => status[w] \notin Free,
           do_scheduler(c, set_status(status, {core_running[c]}, "BLOCKED"),
                           add_queue(queue, Q, core_running[c]))
    PROVE  /\ \A R \in LockQ : R # Q => queue'[R] = queue[R]
           /\ Q \in LockQ => queue'[Q] = Append(queue[Q], core_running[c])
           /\ \A p \in Slots : status'[p] \in Free <=> status[p] \in Free
           /\ BlockedOn(status, queue) => BlockedOn(status', queue')
<1> DEFINE p == core_running[c]
           st == set_status(status, {p}, "BLOCKED")
           q == add_queue(queue, Q, p)
<1>1. status \in StatusType /\ queue \in QueuesType /\ core_running \in CoresType
  BY TypeParts
<1>2. p \in Slots /\ status[p] = "RUNNING"
  BY <1>1 DEF CoresType, CInv, Agree, OnCores
<1>3. Lists(q) /\ Tasks(st, q) /\ OnCores(st, core_running, Cores \ {c})
  BY <1>1, BlockKeeps DEF CInv, Agree
<1>4. st \in StatusType /\ \A x \in Slots : st[x] = IF x = p THEN "BLOCKED" ELSE status[x]
  BY <1>1, SetStatus DEF Statuses
<1>5. q \in QueuesType /\ q[Q] = Append(queue[Q], p) /\ \A R \in QueueId : R # Q => q[R] = queue[R]
  <2>1. q \in QueuesType /\ \A R \in QueueId : R # Q => q[R] = queue[R]
    BY <1>1, <1>2, AddQueue
  <2> QED BY <1>1, <2>1 DEF QueuesType, add_queue
<1>6. Range(q[Q]) = Range(queue[Q]) \cup {p}
  <2>1. queue \in QueuesType /\ p \in Slots
    BY <1>1, <1>2
  <2> HIDE DEF p
  <2> QED BY <2>1, AddQueue
<1> HIDE DEF st, q
<1>7. PidsLive(st, pid')
  BY <1>2, <1>4 DEF CInv, PidsLive, Free
<1>8. BlockedOn(status, queue) => BlockedOn(st, q)
  <2>1. \A x \in Slots : x = p \/ On(queue, x) => On(q, x)
    BY <1>5, <1>6 DEF On
  <2> HIDE DEF p
  <2> QED BY <1>4, <2>1 DEF BlockedOn
<1>9. \A x \in Slots : st[x] \in Free <=> status[x] \in Free
  BY <1>2, <1>4 DEF Free
<1>10. /\ \A R \in LockQ : queue'[R] = q[R]
       /\ \A x \in Slots : status'[x] \in Free <=> st[x] \in Free
       /\ BlockedOn(st, q) => BlockedOn(status', queue')
  BY <1>1, <1>3, <1>4, <1>5, <1>7, ScheduleFrame, ZenonT(60) DEF st, q
<1> QED
  BY <1>5, <1>8, <1>9, <1>10, LockQueueNames

\* A call that goes straight to do_scheduler.
LEMMA YieldFrame ==
    ASSUME TypeOK, CInv, NEW c \in Cores, pid' = pid, do_scheduler(c, status, queue)
    PROVE  Frame
<1>1. status \in StatusType /\ queue \in QueuesType /\ core_running \in CoresType
  BY TypeParts
<1>2. /\ Lists(queue) /\ Tasks(status, queue)
      /\ OnCores(status, core_running, Cores \ {c}) /\ PidsLive(status, pid')
  BY OtherCores DEF CInv, Agree
<1> QED
  BY <1>1, <1>2, ScheduleFrame DEF Frame

-----------------------------------------------------------------------------
(* The process calls take no part in locking *)

\* Timer interrupt, yield, sleep and waitpid.
LEMMA WaitFrame ==
    ASSUME TypeOK, CInv, NEW c \in Cores, timer_step(c) \/ sleep_step(c) \/ waitpid_step(c)
    PROVE  Frame /\ UNCHANGED <<pid, process_id, lockVars>>
<1>1. CASE timer_step(c)
  BY <1>1, YieldFrame DEF timer_step, handle_irq_timer
<1>2. CASE sleep_step(c)
  <2>1. /\ core_running[c] # Pid0 /\ UNCHANGED <<pid, process_id, lockVars>>
        /\ do_scheduler(c, set_status(status, {core_running[c]}, "BLOCKED"),
                           add_queue(queue, SleepQ, core_running[c]))
    BY <1>2 DEF sleep_step, do_sleep, Calls
  <2>2. SleepQ \in QueueId /\ SleepQ # ReadyQ /\ \A w \in Slots : SleepQ # WaitQ(w)
    BY QueueNames
  <2>3. /\ \A R \in LockQ : R # SleepQ => queue'[R] = queue[R]
        /\ \A p \in Slots : status'[p] \in Free <=> status[p] \in Free
        /\ BlockedOn(status, queue) => BlockedOn(status', queue')
    BY <2>1, <2>2, BlockFrame
  <2> QED BY <2>1, <2>3, LockQueueNames DEF Frame
<1>3. ASSUME NEW v \in Pids, do_waitpid(c, v), UNCHANGED lockVars
      PROVE  Frame /\ UNCHANGED <<pid, process_id, lockVars>>
  <2> DEFINE w == Min(SlotsOf(v))
  <2>1. core_running[c] # Pid0 /\ SlotsOf(v) # {} /\ UNCHANGED <<pid, process_id>>
    BY <1>3 DEF do_waitpid, Calls
  <2>2. w \in Slots
    BY <2>1, Scans
  <2>3. CASE waitpid_blocks(w)
    <3>1. do_scheduler(c, set_status(status, {core_running[c]}, "BLOCKED"),
                          add_queue(queue, WaitQ(w), core_running[c]))
      BY <1>3, <2>3 DEF do_waitpid
    <3> HIDE DEF w
    <3>2. /\ WaitQ(w) \in QueueId /\ WaitQ(w) # ReadyQ
          /\ \A x \in Slots : WaitQ(w) = WaitQ(x) => status[x] \notin Free
      BY <2>2, <2>3, QueueNames DEF waitpid_blocks
    <3>3. /\ \A R \in LockQ : R # WaitQ(w) => queue'[R] = queue[R]
          /\ \A p \in Slots : status'[p] \in Free <=> status[p] \in Free
          /\ BlockedOn(status, queue) => BlockedOn(status', queue')
      BY <2>1, <3>1, <3>2, BlockFrame
    <3> QED BY <1>3, <2>1, <2>2, <3>3, LockQueueNames DEF Frame
  <2>4. CASE ~waitpid_blocks(w)
    BY <1>3, <2>1, <2>4, YieldFrame DEF do_waitpid
  <2> QED BY <2>3, <2>4
<1> QED
  BY <1>1, <1>2, <1>3 DEF waitpid_step

\* do_exec and do_thread_create change one slot that is free.
LEMMA NewTaskFrame ==
    ASSUME TypeOK, CInv, NEW c \in Cores, NEW v, new_task(c, v)
    PROVE  /\ \A Q \in LockQ : queue'[Q] = queue[Q]
           /\ BlockedOn(status, queue) => BlockedOn(status', queue')
           /\ FreeSlots # {} =>
                /\ Min(FreeSlots) \in Slots /\ status[Min(FreeSlots)] \in Free
                /\ status' = [status EXCEPT ![Min(FreeSlots)] = "READY"]
                /\ pid' = [pid EXCEPT ![Min(FreeSlots)] = v]
           /\ FreeSlots = {} => UNCHANGED <<status, pid>>
<1>1. status \in StatusType /\ queue \in QueuesType
  BY TypeParts
<1>2. CASE FreeSlots = {}
  BY <1>2 DEF new_task
<1>3. CASE FreeSlots # {}
  <2> DEFINE i == Min(FreeSlots)
             e == [queue EXCEPT ![WaitQ(i)] = <<>>]
  <2>1. i \in Slots /\ status[i] \in Free
    BY <1>3, Scans
  <2>2. /\ status' = [status EXCEPT ![i] = "READY"]
        /\ pid' = [pid EXCEPT ![i] = v]
        /\ queue' = add_queue(e, ReadyQ, i)
    BY <1>3 DEF new_task
  <2> HIDE DEF i
  <2>3. Range(queue[WaitQ(i)]) = {}
    BY <2>1 DEF CInv, Agree, Tasks, Free
  <2>4. WaitQ(i) \in QueueId /\ ReadyQ \in QueueId /\ queue[WaitQ(i)] \in Seq(Slots)
    BY <1>1, <2>1, QueueNames DEF QueuesType
  <2>5. e = queue
    BY <1>1, <2>3, <2>4, RangeOfList DEF QueuesType
  <2>6. queue' = add_queue(queue, ReadyQ, i)
    BY <2>2, <2>5
  <2> HIDE DEF e
  <2>7. \A R \in QueueId : R # ReadyQ => queue'[R] = queue[R]
    BY <1>1, <2>1, <2>4, <2>6, AddQueue
  <2>8. Range(queue'[ReadyQ]) = Range(queue[ReadyQ]) \cup {i}
    <3>1. Range(add_queue(queue, ReadyQ, i)[ReadyQ]) = Range(queue[ReadyQ]) \cup {i}
      BY <1>1, <2>1, <2>4, AddQueue
    <3> QED BY <2>6, <3>1
  <2>9. \A x \in Slots : On(queue, x) => On(queue', x)
    BY <2>7, <2>8 DEF On
  <2>10. \A x \in Slots : status'[x] = IF x = i THEN "READY" ELSE status[x]
    BY <1>1, <2>2 DEF StatusType
  <2>11. BlockedOn(status, queue) => BlockedOn(status', queue')
    BY <2>9, <2>10 DEF BlockedOn
  <2> QED BY <1>3, <2>1, <2>2, <2>7, <2>11, LockQueueNames DEF i
<1> QED
  BY <1>2, <1>3

\* Waking queued tasks loses nobody.
LEMMA WakeFrame ==
    ASSUME NEW st \in StatusType, NEW q \in QueuesType, Lists(q), Tasks(st, q),
           NEW woken \in Seq(Slots), IsInjective(woken), \A p \in Range(woken) : On(q, p),
           BlockedOn(st, q)
    PROVE  BlockedOn(set_status(st, Range(woken), "READY"), do_unblock(q, woken))
<1>1. \A p \in Slots : On(do_unblock(q, woken), p) <=> On(q, p)
  BY WakeKeeps
<1>2. \A p \in Slots : set_status(st, Range(woken), "READY")[p] = "BLOCKED" => st[p] = "BLOCKED"
  BY SetStatus DEF Statuses
<1> QED
  BY <1>1, <1>2 DEF BlockedOn

\* Neither does taking an EXITED task off its list.
LEMMA ExitedFrame ==
    ASSUME NEW st \in StatusType, NEW q \in QueuesType, NEW t, BlockedOn(st, q)
    PROVE  /\ BlockedOn(set_status(st, {t}, "EXITED"), del_queue(q, {t}))
           /\ \A x \in Slots \ {t} : set_status(st, {t}, "EXITED")[x] = st[x]
<1>1. \A x \in Slots : set_status(st, {t}, "EXITED")[x] = IF x = t THEN "EXITED" ELSE st[x]
  BY SetStatus DEF Statuses
<1>2. \A Q \in QueueId : Range(del_queue(q, {t})[Q]) = Range(q[Q]) \ {t}
  BY DelQueue
<1>3. \A x \in Slots : x # t /\ On(q, x) => On(del_queue(q, {t}), x)
  BY <1>2 DEF On
<1> QED
  BY <1>1, <1>3 DEF BlockedOn

\* do_exit.
LEMMA ExitFrame ==
    ASSUME TypeOK, CInv, NEW c \in Cores, do_exit(c)
    PROVE  /\ \A Q \in LockQ : queue'[Q] = queue[Q]
           /\ \A x \in Slots : x # core_running[c] => (status'[x] \in Free <=> status[x] \in Free)
           /\ BlockedOn(status, queue) => BlockedOn(status', queue')
           /\ UNCHANGED <<pid, process_id>>
<1> DEFINE p == core_running[c]
           w == queue[WaitQ(p)]
           st1 == set_status(status, Range(w), "READY")
           q1 == do_unblock(queue, w)
           st2 == set_status(st1, {p}, "EXITED")
           q2 == del_queue(q1, {p})
<1>1. status \in StatusType /\ queue \in QueuesType /\ core_running \in CoresType
  BY TypeParts
<1>2. /\ Agree(status, queue, core_running) /\ PidsLive(status, pid)
      /\ Lists(queue) /\ Tasks(status, queue)
  BY DEF CInv, Agree
<1>3. p # Pid0 /\ UNCHANGED <<pid, process_id>> /\ do_scheduler(c, st2, q2)
  BY DEF do_exit, Calls
<1>4. p \in Slots /\ status[p] = "RUNNING"
  BY <1>1, <1>2, <1>3 DEF CoresType, Agree, OnCores
<1>5. WaitQ(p) \in QueueId /\ WaitQ(p) # ReadyQ
  BY <1>4, QueueNames
<1>6. w \in Seq(Slots) /\ IsInjective(w) /\ \A x \in Range(w) : On(queue, x)
  BY <1>1, <1>2, <1>5, QueueWakes
<1>7. \A Q \in LockQ : Range(queue[Q]) \cap Range(w) = {} /\ Q \in QueueId /\ Q # ReadyQ
  BY <1>2, <1>4, <1>5, LockQueueNames DEF Lists
<1>8. Range(q1[WaitQ(p)]) = {}
  <2>1. Range(q1[WaitQ(p)]) = Range(queue[WaitQ(p)]) \ Range(w)
    <3> HIDE DEF w, p
    <3> QED BY <1>1, <1>5, <1>6, Unblock
  <2> QED BY <2>1
<1> HIDE DEF w
<1>9. \A Q \in LockQ : q1[Q] = queue[Q]
  BY <1>1, <1>7, UnblockFrame
<1>10. /\ st1 \in StatusType /\ q1 \in QueuesType
       /\ Agree(st1, q1, core_running) /\ PidsLive(st1, pid)
       /\ \A x \in Slots : st1[x] \in Free <=> status[x] \in Free
       /\ BlockedOn(status, queue) => BlockedOn(st1, q1)
  BY <1>1, <1>2, <1>6, WakeAgrees, WakeKeeps, WakeFrame
<1>11. \A d \in Cores \ {c} : core_running[d] # p
  BY <1>2, <1>3 DEF Agree, OnCores
<1>12. ~On(queue, p)
  BY <1>2, <1>4 DEF Tasks
<1> HIDE DEF st1, q1, p
<1>13. /\ st2 \in StatusType /\ q2 \in QueuesType
       /\ Lists(q2) /\ Tasks(st2, q2) /\ OnCores(st2, core_running, Cores \ {c})
       /\ PidsLive(st2, pid)
  BY <1>1, <1>4, <1>8, <1>10, <1>11, ExitKeeps
<1>14. /\ BlockedOn(st1, q1) => BlockedOn(st2, q2)
       /\ \A x \in Slots : x # p => st2[x] = st1[x]
  <2>1. \A x \in Slots : st2[x] = IF x = p THEN "EXITED" ELSE st1[x]
    BY <1>10, SetStatus DEF Statuses
  <2> QED BY <1>10, <2>1, ExitedFrame
<1>15. \A Q \in LockQ : q2[Q] = q1[Q]
  BY <1>7, <1>9, <1>10, <1>12, DelQueueFrame DEF On
<1> HIDE DEF st2, q2
<1>16. /\ \A Q \in LockQ : queue'[Q] = q2[Q]
       /\ \A x \in Slots : status'[x] \in Free <=> st2[x] \in Free
       /\ BlockedOn(st2, q2) => BlockedOn(status', queue')
  BY <1>1, <1>3, <1>13, ScheduleFrame
<1> QED
  BY <1>3, <1>9, <1>10, <1>14, <1>15, <1>16 DEF p

-----------------------------------------------------------------------------
(* Handing mutexes on *)

\* Exactly the first waiters of the mutexes ms are unblocked.
LEMMA SuccessorsAre ==
    ASSUME NEW q \in QueuesType, NEW ms
    PROVE  /\ \A m \in Mutexes : m \in ms /\ q[MutexQ(m)] # <<>>
                 => Head(q[MutexQ(m)]) \in Range(Successors(q, ms))
           /\ \A p \in Range(Successors(q, ms)) : \E m \in Mutexes :
                 m \in ms /\ q[MutexQ(m)] # <<>> /\ p = Head(q[MutexQ(m)])
<1> DEFINE all == [i \in 1 .. LOCK_NUM |-> i - 1]
           I == {i \in DOMAIN all : all[i] \in ms /\ q[MutexQ(all[i])] # <<>>}
           con == SubList(all, I)
<1>1. LOCK_NUM \in Nat
  BY SchedAssumption
<1>2. all \in [1 .. LOCK_NUM -> Mutexes]
  BY <1>1 DEF Mutexes
<1>3. ASSUME NEW m \in Mutexes, m \in ms, q[MutexQ(m)] # <<>>
      PROVE  \E i \in I : all[i] = m
  <2>1. m + 1 \in 1 .. LOCK_NUM /\ all[m + 1] = m
    BY <1>1 DEF Mutexes
  <2> QED BY <1>3, <2>1
<1>4. /\ I \in SUBSET DOMAIN all
      /\ \A i \in I : all[i] \in ms /\ q[MutexQ(all[i])] # <<>>
  OBVIOUS
<1>5. Successors(q, ms) = [i \in DOMAIN con |-> Head(q[MutexQ(con[i])])]
  BY DEF Successors
<1> HIDE DEF all, I
<1>6. all \in Seq(Mutexes)
  BY <1>1, <1>2, SeqDef
<1>7. Range(con) = {all[i] : i \in I}
  BY <1>4, <1>6, SubListProperties
<1>8. \A i \in I : all[i] \in Mutexes
  BY <1>1, <1>2, <1>4
<1> HIDE DEF con
<1>9. Range(Successors(q, ms)) = {Head(q[MutexQ(m)]) : m \in Range(con)}
  BY <1>5 DEF Range
<1> QED
  BY <1>3, <1>4, <1>7, <1>8, <1>9

\* So on the lists of other mutexes and of anything else nobody is unblocked.
LEMMA SuccessorsElsewhere ==
    ASSUME NEW q \in QueuesType, Lists(q), NEW ms, NEW Q \in QueueId,
           \A m \in Mutexes : m \in ms => Q # MutexQ(m)
    PROVE  Range(q[Q]) \cap Range(Successors(q, ms)) = {}
<1> SUFFICES ASSUME NEW p \in Range(Successors(q, ms)), p \in Range(q[Q]) PROVE FALSE
  OBVIOUS
<1>1. PICK m \in Mutexes : m \in ms /\ p \in Range(q[MutexQ(m)])
  BY SuccessorsQueued
<1>2. MutexQ(m) \in QueueId /\ MutexQ(m) # Q
  BY <1>1, QueueNames
<1> QED
  BY <1>1, <1>2 DEF Lists

\* do_kill of a task that runs on no other core.
LEMMA KillFrame ==
    ASSUME TypeOK, CInv, LocalKills, NEW c \in Cores, NEW v \in Pids, kill_task(c, v)
    PROVE  LET t == Min(SlotsOf(v))
               W == Range(Successors(queue, OwnedBy(v)))
           IN
           /\ t \in Slots /\ pid[t] = v /\ pid' = [pid EXCEPT ![t] = 0] /\ process_id' = process_id
           /\ \A Q \in LockQ : Range(queue'[Q]) = (Range(queue[Q]) \ W) \ {t}
           /\ \A b \in Barriers : t \notin Range(queue[BarrierQ(b)])
                 => queue'[BarrierQ(b)] = queue[BarrierQ(b)]
           /\ \A x \in Slots : x # t => (status'[x] \in Free <=> status[x] \in Free)
           /\ BlockedOn(status, queue) => BlockedOn(status', queue')
           /\ mlocks' = ReleasedLocks(queue, OwnedBy(v))
           /\ holds' = ReleasedHolds(queue, OwnedBy(v), {t})
<1> DEFINE t == Min(SlotsOf(v))
           w == queue[WaitQ(t)]
           owned == OwnedBy(v)
           st1 == set_status(status, Range(w), "READY")
           q1 == do_unblock(queue, w)
           woken == Successors(q1, owned)
           st2 == set_status(st1, Range(woken), "READY")
           q2 == do_unblock(q1, woken)
           st3 == set_status(st2, {t}, "EXITED")
           q3 == del_queue(q2, {t})
<1>1. /\ status \in StatusType /\ queue \in QueuesType /\ core_running \in CoresType
      /\ pid \in [Slots -> Int]
  BY TypeParts
<1>2. /\ Agree(status, queue, core_running) /\ PidsLive(status, pid)
      /\ Lists(queue) /\ Tasks(status, queue)
  BY DEF CInv, Agree
<1>3. t \in Slots /\ pid[t] = v
  BY Scans DEF kill_task
<1>4. /\ \A d \in Cores \ {c} : core_running[d] # t
      /\ pid' = [pid EXCEPT ![t] = 0]
      /\ process_id' = process_id
      /\ mlocks' = ReleasedLocks(q1, owned)
      /\ holds' = ReleasedHolds(q1, owned, {t})
  BY DEF kill_task, LocalKills
<1>5. \/ st2[t] = "RUNNING" /\ do_scheduler(c, st3, q2)
      \/ status' = st3 /\ queue' = q3
      \/ status' = st2 /\ queue' = q2 /\ st2[t] \notin {"RUNNING", "BLOCKED", "READY"}
  BY DEF kill_task
<1>6. WaitQ(t) \in QueueId /\ WaitQ(t) # ReadyQ
  BY <1>3, QueueNames
<1>7. w \in Seq(Slots) /\ IsInjective(w) /\ \A x \in Range(w) : On(queue, x)
  BY <1>1, <1>2, <1>6, QueueWakes
<1>8. \A Q \in LockQ : Range(queue[Q]) \cap Range(w) = {} /\ Q \in QueueId /\ Q # ReadyQ
  BY <1>2, <1>3, <1>6, LockQueueNames DEF Lists
<1>9. Range(q1[WaitQ(t)]) = {}
  <2>1. Range(q1[WaitQ(t)]) = Range(queue[WaitQ(t)]) \ Range(w)
    <3> HIDE DEF w, t
    <3> QED BY <1>1, <1>6, <1>7, Unblock
  <2> QED BY <2>1
<1> HIDE DEF w, owned
<1>10. \A Q \in LockQ : q1[Q] = queue[Q]
  BY <1>1, <1>8, UnblockFrame
<1>11. /\ st1 \in StatusType /\ q1 \in QueuesType
       /\ Agree(st1, q1, core_running) /\ PidsLive(st1, pid)
       /\ \A x \in Slots : st1[x] \in Free <=> status[x] \in Free
       /\ BlockedOn(status, queue) => BlockedOn(st1, q1)
  BY <1>1, <1>2, <1>7, WakeAgrees, WakeKeeps, WakeFrame
<1>12. Lists(q1) /\ Tasks(st1, q1)
  BY <1>11 DEF Agree
<1>13. \A m \in Mutexes : q1[MutexQ(m)] = queue[MutexQ(m)]
  BY <1>10, LockQueueNames
<1>14. /\ ReleasedLocks(q1, owned) = ReleasedLocks(queue, owned)
       /\ ReleasedHolds(q1, owned, {t}) = ReleasedHolds(queue, owned, {t})
       /\ Successors(q1, owned) = Successors(queue, owned)
  <2> HIDE DEF q1, t
  <2>1. /\ ReleasedLocks(q1, owned) = ReleasedLocks(queue, owned)
        /\ ReleasedHolds(q1, owned, {t}) = ReleasedHolds(queue, owned, {t})
    BY <1>13 DEF ReleasedLocks, ReleasedHolds
  <2> DEFINE all == [i \in 1 .. LOCK_NUM |-> i - 1]
             con(q) == SubList(all, {i \in DOMAIN all : all[i] \in owned /\ q[MutexQ(all[i])] # <<>>})
  <2>2. \A i \in DOMAIN all : all[i] \in Mutexes
    BY SchedAssumption DEF Mutexes
  <2>3. con(q1) = con(queue) /\ Range(con(queue)) \subseteq Mutexes
    <3> DEFINE I == {i \in DOMAIN all : all[i] \in owned /\ queue[MutexQ(all[i])] # <<>>}
    <3>1. {i \in DOMAIN all : all[i] \in owned /\ q1[MutexQ(all[i])] # <<>>} = I
      BY <1>13, <2>2
    <3>2. all \in Seq(Mutexes) /\ I \in SUBSET DOMAIN all
      <4>1. all \in [1 .. LOCK_NUM -> Mutexes]
        BY <2>2
      <4> HIDE DEF all
      <4> QED BY <4>1, SchedAssumption, SeqDef
    <3> HIDE DEF all, I
    <3>3. SubList(all, I) \in Seq(Mutexes)
      BY <3>2, SubListProperties
    <3> QED BY <3>1, <3>3, RangeOfList DEF I
  <2>4. /\ Successors(q1, owned) = [i \in DOMAIN con(q1) |-> Head(q1[MutexQ(con(q1)[i])])]
        /\ Successors(queue, owned) = [i \in DOMAIN con(queue) |-> Head(queue[MutexQ(con(queue)[i])])]
    BY DEF Successors
  <2> HIDE DEF con
  <2>5. \A i \in DOMAIN con(queue) : con(queue)[i] \in Mutexes
    BY <2>3 DEF Range
  <2> QED BY <1>13, <2>1, <2>3, <2>4, <2>5, SMTT(40)
<1> HIDE DEF st1, q1
<1>15. woken \in Seq(Slots) /\ IsInjective(woken) /\ \A x \in Range(woken) : On(q1, x)
  BY <1>11, <1>12, SuccessorsWake
<1>16. \A b \in Barriers : Range(q1[BarrierQ(b)]) \cap Range(woken) = {}
  <2>1. \A b \in Barriers : /\ BarrierQ(b) \in QueueId /\ BarrierQ(b) # ReadyQ
                            /\ \A m \in Mutexes : BarrierQ(b) # MutexQ(m)
    BY LockQueueNames
  <2> QED BY <1>11, <1>12, <2>1, SuccessorsElsewhere
<1> HIDE DEF woken
<1>17. /\ st2 \in StatusType /\ q2 \in QueuesType
       /\ Agree(st2, q2, core_running) /\ PidsLive(st2, pid)
       /\ \A x \in Slots : st2[x] \in Free <=> st1[x] \in Free
       /\ BlockedOn(st1, q1) => BlockedOn(st2, q2)
  BY <1>1, <1>11, <1>12, <1>15, WakeAgrees, WakeKeeps, WakeFrame
<1>18. \A Q \in LockQ : Range(q2[Q]) = Range(q1[Q]) \ Range(woken)
  BY <1>8, <1>11, <1>15, Unblock
<1>19. \A b \in Barriers : q2[BarrierQ(b)] = q1[BarrierQ(b)]
  BY <1>8, <1>11, <1>16, UnblockFrame, LockQueueNames
<1>20. Range(q2[WaitQ(t)]) = {}
  <2>1. Range(q2[WaitQ(t)]) = Range(q1[WaitQ(t)]) \ Range(woken)
    <3> HIDE DEF t
    <3> QED BY <1>6, <1>11, <1>15, Unblock
  <2> QED BY <1>9, <2>1
<1> HIDE DEF t, st2, q2
<1>21. \A x \in Slots \ {t} : pid'[x] = pid[x]
  BY <1>1, <1>3, <1>4
<1>22. /\ \A x \in Slots : st3[x] = IF x = t THEN "EXITED" ELSE st2[x]
       /\ \A Q \in QueueId : Range(q3[Q]) = Range(q2[Q]) \ {t}
       /\ BlockedOn(st2, q2) => BlockedOn(st3, q3)
       /\ \A Q \in LockQ : t \notin Range(q2[Q]) => q3[Q] = q2[Q]
  <2>1. \A x \in Slots : st3[x] = IF x = t THEN "EXITED" ELSE st2[x]
    BY <1>17, SetStatus DEF Statuses
  <2>2. \A Q \in QueueId : Range(q3[Q]) = Range(q2[Q]) \ {t}
    BY <1>17, DelQueue
  <2>3. \A Q \in LockQ : t \notin Range(q2[Q]) => q3[Q] = q2[Q]
    BY <1>8, <1>17, DelQueueFrame
  <2> QED BY <1>17, <2>1, <2>2, <2>3, ExitedFrame
<1>23. ASSUME BlockedOn(st2, q2) PROVE BlockedOn(st3, q3)
  BY <1>22, <1>23
<1>24. st3 \in StatusType /\ q3 \in QueuesType
  BY <1>17, SetStatus, DelQueue DEF Statuses
<1>25. /\ \A Q \in LockQ : Range(queue'[Q]) = Range(q2[Q]) \ {t}
                           /\ (t \notin Range(q2[Q]) => queue'[Q] = q2[Q])
       /\ \A x \in Slots : x # t => (status'[x] \in Free <=> st2[x] \in Free)
       /\ BlockedOn(st2, q2) => BlockedOn(status', queue')
  <2>1. CASE st2[t] = "RUNNING" /\ do_scheduler(c, st3, q2)
    <3>1. ~On(q2, t)
      BY <1>3, <1>17, <2>1 DEF Agree, Tasks
    <3>2. q3 = q2
      BY <1>17, <3>1, DelAbsent
    <3>3. Lists(q3) /\ Tasks(st3, q3) /\ OnCores(st3, core_running, Cores \ {c}) /\ PidsLive(st3, pid')
      BY <1>1, <1>3, <1>4, <1>17, <1>20, <1>21, ExitKeeps, ZenonT(60)
    <3> HIDE DEF st3, q3
    <3>4. do_scheduler(c, st3, q3)
      BY <2>1, <3>2
    <3>5. /\ \A Q \in LockQ : queue'[Q] = q3[Q]
          /\ \A x \in Slots : status'[x] \in Free <=> st3[x] \in Free
          /\ BlockedOn(st3, q3) => BlockedOn(status', queue')
      BY <1>1, <1>24, <3>3, <3>4, ScheduleFrame
    <3> QED BY <1>8, <1>22, <1>23, <3>2, <3>5
  <2>2. CASE status' = st3 /\ queue' = q3
    <3> HIDE DEF st3, q3
    <3> QED BY <1>8, <1>22, <1>23, <2>2
  <2>3. CASE status' = st2 /\ queue' = q2 /\ st2[t] \notin {"RUNNING", "BLOCKED", "READY"}
    <3>1. st2[t] \in Free
      BY <1>3, <1>17, <2>3 DEF StatusType, Statuses, Free
    <3>2. ~On(q2, t)
      BY <1>3, <1>17, <3>1 DEF Agree, Tasks, Free
    <3> QED BY <1>8, <2>3, <3>2 DEF On
  <2> QED BY <1>5, <2>1, <2>2, <2>3
<1> HIDE DEF st3, q3
<1>26. \A Q \in LockQ : Range(queue'[Q]) = (Range(queue[Q]) \ Range(woken)) \ {t}
  BY <1>10, <1>18, <1>25
<1>27. \A b \in Barriers : t \notin Range(queue[BarrierQ(b)]) => queue'[BarrierQ(b)] = queue[BarrierQ(b)]
  BY <1>10, <1>19, <1>25, LockQueueNames
<1>28. woken = Successors(queue, owned)
  BY <1>14 DEF woken
<1> QED
  BY <1>3, <1>4, <1>11, <1>14, <1>17, <1>25, <1>26, <1>27, <1>28 DEF t, owned

-----------------------------------------------------------------------------
(* What each lock call does to the lists *)

\* What do_mutex_lock_acquire changes of the queues of the locks,
LEMMA AcquireFrame ==
    ASSUME TypeOK, CInv, NEW c \in Cores, NEW m \in Mutexes, do_mutex_lock_acquire(c, m)
    PROVE  /\ \A Q \in LockQ : Q # MutexQ(m) => queue'[Q] = queue[Q]
           /\ mlocks[m].status = "UNLOCKED" => queue'[MutexQ(m)] = queue[MutexQ(m)]
           /\ mlocks[m].status # "UNLOCKED" =>
                 Range(queue'[MutexQ(m)]) = Range(queue[MutexQ(m)]) \cup {core_running[c]}
           /\ \A p \in Slots : status'[p] \in Free <=> status[p] \in Free
           /\ BlockedOn(status, queue) => BlockedOn(status', queue')
<1>1. core_running[c] # Pid0 /\ pid' = pid
  BY DEF do_mutex_lock_acquire, Calls
<1>2. CASE mlocks[m].status = "UNLOCKED"
  BY <1>2 DEF do_mutex_lock_acquire
<1>3. CASE mlocks[m].status # "UNLOCKED"
  <2>1. do_scheduler(c, set_status(status, {core_running[c]}, "BLOCKED"),
                        add_queue(queue, MutexQ(m), core_running[c]))
    BY <1>3 DEF do_mutex_lock_acquire
  <2>2. /\ MutexQ(m) \in QueueId /\ MutexQ(m) # ReadyQ /\ MutexQ(m) \in LockQ
        /\ \A x \in Slots : MutexQ(m) # WaitQ(x)
    BY QueueNames, LockQueueNames
  <2>3. /\ \A R \in LockQ : R # MutexQ(m) => queue'[R] = queue[R]
        /\ queue'[MutexQ(m)] = Append(queue[MutexQ(m)], core_running[c])
        /\ \A p \in Slots : status'[p] \in Free <=> status[p] \in Free
        /\ BlockedOn(status, queue) => BlockedOn(status', queue')
    BY <1>1, <2>1, <2>2, BlockFrame
  <2>4. queue[MutexQ(m)] \in Seq(Slots) /\ core_running[c] \in Slots
    BY <1>1, <2>2, TypeParts DEF QueuesType, CoresType
  <2>5. Range(queue'[MutexQ(m)]) = Range(queue[MutexQ(m)]) \cup {core_running[c]}
    BY <2>3, <2>4, AppendNodes
  <2> QED BY <1>3, <2>3, <2>5
<1> QED
  BY <1>2, <1>3

\* do_mutex_lock_release,
LEMMA ReleaseFrame ==
    ASSUME TypeOK, CInv, NEW c \in Cores, NEW m \in Mutexes, do_mutex_lock_release(c, m)
    PROVE  /\ \A Q \in LockQ :
                 Range(queue'[Q]) = Range(queue[Q]) \ Range(Successors(queue, {m}))
           /\ \A b \in Barriers : queue'[BarrierQ(b)] = queue[BarrierQ(b)]
           /\ \A p \in Slots : status'[p] \in Free <=> status[p] \in Free
           /\ BlockedOn(status, queue) => BlockedOn(status', queue')
<1> DEFINE woken == Successors(queue, {m})
<1>1. status \in StatusType /\ queue \in QueuesType /\ Lists(queue) /\ Tasks(status, queue)
  BY TypeParts DEF CInv, Agree
<1>2. status' = set_status(status, Range(woken), "READY") /\ queue' = do_unblock(queue, woken)
  BY DEF do_mutex_lock_release
<1>3. woken \in Seq(Slots) /\ IsInjective(woken) /\ \A x \in Range(woken) : On(queue, x)
  BY <1>1, SuccessorsWake
<1>4. \A b \in Barriers : Range(queue[BarrierQ(b)]) \cap Range(woken) = {}
  BY <1>1, LockQueueNames, SuccessorsElsewhere
<1> HIDE DEF woken
<1>5. \A Q \in LockQ : Range(queue'[Q]) = Range(queue[Q]) \ Range(woken)
  BY <1>1, <1>2, <1>3, Unblock, LockQueueNames, SMTT(40)
<1>6. \A b \in Barriers : queue'[BarrierQ(b)] = queue[BarrierQ(b)]
  BY <1>1, <1>2, <1>4, UnblockFrame, LockQueueNames
<1>7. \A p \in Slots : status'[p] \in Free <=> status[p] \in Free
  BY <1>1, <1>2, <1>3, WakeKeeps
<1>8. BlockedOn(status, queue) => BlockedOn(status', queue')
  BY <1>1, <1>2, <1>3, WakeFrame
<1> QED
  BY <1>5, <1>6, <1>7, <1>8 DEF woken

\* do_barrier_wait,
LEMMA BarrierWaitFrame ==
    ASSUME TypeOK, CInv, NEW c \in Cores, NEW b \in Barriers, do_barrier_wait(c, b)
    PROVE  /\ \A Q \in LockQ : Q # BarrierQ(b) => queue'[Q] = queue[Q]
           /\ LastArrival(b) => queue'[BarrierQ(b)] = <<>>
           /\ ~LastArrival(b) =>
                 queue'[BarrierQ(b)] = Append(queue[BarrierQ(b)], core_running[c])
           /\ \A p \in Slots : status'[p] \in Free <=> status[p] \in Free
           /\ BlockedOn(status, queue) => BlockedOn(status', queue')
<1> DEFINE w == queue[BarrierQ(b)]
           st == set_status(status, Range(w), "READY")
           q == do_unblock(queue, w)
<1>1. core_running[c] # Pid0 /\ pid' = pid
  BY DEF do_barrier_wait, Calls
<1>2. /\ BarrierQ(b) \in QueueId /\ BarrierQ(b) # ReadyQ /\ BarrierQ(b) \in LockQ
      /\ \A x \in Slots : BarrierQ(b) # WaitQ(x)
  BY QueueNames, LockQueueNames
<1>3. CASE LastArrival(b)
  <2>1. do_scheduler(c, st, q)
    BY <1>3 DEF do_barrier_wait
  <2>2. /\ status \in StatusType /\ queue \in QueuesType /\ core_running \in CoresType
        /\ Agree(status, queue, core_running) /\ PidsLive(status, pid)
        /\ Lists(queue) /\ Tasks(status, queue)
    BY TypeParts DEF CInv, Agree
  <2>3. w \in Seq(Slots) /\ IsInjective(w) /\ \A x \in Range(w) : On(queue, x)
    BY <1>2, <2>2, QueueWakes
  <2>4. \A Q \in LockQ : Q # BarrierQ(b) => Range(queue[Q]) \cap Range(w) = {}
    BY <1>2, <2>2, LockQueueNames DEF Lists
  <2>5. q[BarrierQ(b)] = <<>>
    BY <1>2, <2>2, UnblockFrame
  <2> HIDE DEF w
  <2>6. \A Q \in LockQ : Q # BarrierQ(b) => q[Q] = queue[Q]
    BY <2>2, <2>4, UnblockFrame, LockQueueNames
  <2>7. /\ st \in StatusType /\ q \in QueuesType
        /\ Agree(st, q, core_running) /\ PidsLive(st, pid)
        /\ \A p \in Slots : st[p] \in Free <=> status[p] \in Free
        /\ BlockedOn(status, queue) => BlockedOn(st, q)
    BY <2>2, <2>3, WakeAgrees, WakeKeeps, WakeFrame
  <2> HIDE DEF st, q
  <2>8. /\ Lists(q) /\ Tasks(st, q)
        /\ OnCores(st, core_running, Cores \ {c}) /\ PidsLive(st, pid')
    BY <1>1, <2>7, OtherCores DEF Agree
  <2>9. /\ \A Q \in LockQ : queue'[Q] = q[Q]
        /\ \A p \in Slots : status'[p] \in Free <=> st[p] \in Free
        /\ BlockedOn(st, q) => BlockedOn(status', queue')
    BY <2>1, <2>2, <2>7, <2>8, ScheduleFrame
  <2> QED BY <1>2, <1>3, <2>5, <2>6, <2>7, <2>9
<1>4. CASE ~LastArrival(b)
  <2>1. do_scheduler(c, set_status(status, {core_running[c]}, "BLOCKED"),
                        add_queue(queue, BarrierQ(b), core_running[c]))
    BY <1>4 DEF do_barrier_wait
  <2> QED BY <1>1, <1>2, <1>4, <2>1, BlockFrame
<1> QED
  BY <1>3, <1>4

\* do_condition_wait,
LEMMA CondWaitFrame ==
    ASSUME TypeOK, CInv, NEW c \in Cores, NEW k \in Conditions, NEW m \in Mutexes,
           do_condition_wait(c, k, m)
    PROVE  LET W == Range(Successors(queue, {m})) IN
           /\ core_running[c] \in Slots /\ ~On(queue, core_running[c])
           /\ Range(queue'[CondQ(k)]) = Range(queue[CondQ(k)]) \cup {core_running[c]}
           /\ \A Q \in LockQ : Q # CondQ(k) => Range(queue'[Q]) = Range(queue[Q]) \ W
           /\ \A b \in Barriers : queue'[BarrierQ(b)] = queue[BarrierQ(b)]
           /\ \A p \in Slots : status'[p] \in Free <=> status[p] \in Free
           /\ BlockedOn(status, queue) => BlockedOn(status', queue')
<1> DEFINE p == core_running[c]
           woken == Successors(queue, {m})
           st1 == set_status(status, {p}, "BLOCKED")
           q1 == add_queue(queue, CondQ(k), p)
           st2 == set_status(st1, Range(woken), "READY")
           q2 == do_unblock(q1, woken)
<1>1. /\ status \in StatusType /\ queue \in QueuesType /\ core_running \in CoresType
      /\ Agree(status, queue, core_running) /\ PidsLive(status, pid)
      /\ Lists(queue) /\ Tasks(status, queue) /\ OnCores(status, core_running, Cores)
  BY TypeParts DEF CInv, Agree
<1>2. p # Pid0 /\ pid' = pid /\ do_scheduler(c, st2, q2)
  BY DEF do_condition_wait, Calls
<1>3. p \in Slots /\ status[p] = "RUNNING" /\ ~On(queue, p)
  BY <1>1, <1>2 DEF CoresType, OnCores, Tasks
<1>4. /\ CondQ(k) \in QueueId /\ CondQ(k) # ReadyQ /\ CondQ(k) \in LockQ
      /\ \A x \in Slots : CondQ(k) # WaitQ(x)
  BY QueueNames, LockQueueNames
<1>5. Lists(q1) /\ Tasks(st1, q1) /\ OnCores(st1, core_running, Cores \ {c})
  BY <1>1, <1>2, <1>4, BlockKeeps
<1>6. st1 \in StatusType /\ \A x \in Slots : st1[x] = IF x = p THEN "BLOCKED" ELSE status[x]
  BY <1>1, SetStatus DEF Statuses
<1>7. q1 \in QueuesType /\ \A R \in QueueId : R # CondQ(k) => q1[R] = queue[R]
  BY <1>1, <1>3, <1>4, AddQueue
<1>8. Range(q1[CondQ(k)]) = Range(queue[CondQ(k)]) \cup {p}
  <2>1. queue \in QueuesType /\ p \in Slots
    BY <1>1, <1>3
  <2> HIDE DEF p
  <2> QED BY <1>4, <2>1, AddQueue
<1>9. /\ woken \in Seq(Slots) /\ IsInjective(woken) /\ \A x \in Range(woken) : On(queue, x)
      /\ Range(queue[CondQ(k)]) \cap Range(woken) = {}
      /\ \A b \in Barriers : Range(queue[BarrierQ(b)]) \cap Range(woken) = {}
  <2>1. woken \in Seq(Slots) /\ IsInjective(woken) /\ \A x \in Range(woken) : On(queue, x)
    BY <1>1, SuccessorsWake
  <2>2. Range(queue[CondQ(k)]) \cap Range(woken) = {}
    BY <1>1, <1>4, LockQueueNames, SuccessorsElsewhere
  <2>3. \A b \in Barriers : Range(queue[BarrierQ(b)]) \cap Range(woken) = {}
    BY <1>1, LockQueueNames, SuccessorsElsewhere
  <2> QED BY <2>1, <2>2, <2>3
<1> HIDE DEF woken, p, q1, st1
<1>10. BlockedOn(status, queue) => BlockedOn(st1, q1)
  <2>1. \A x \in Slots : x = p \/ On(queue, x) => On(q1, x)
    BY <1>4, <1>7, <1>8 DEF On
  <2> QED BY <1>6, <2>1 DEF BlockedOn
<1>11. \A x \in Range(woken) : On(q1, x)
  BY <1>4, <1>7, <1>8, <1>9 DEF On
<1>12. /\ Lists(q2) /\ Tasks(st2, q2)
       /\ \A x \in Slots : st2[x] = "RUNNING" <=> st1[x] = "RUNNING"
       /\ \A x \in Slots : st2[x] \in Free <=> st1[x] \in Free
       /\ BlockedOn(st1, q1) => BlockedOn(st2, q2)
  BY <1>5, <1>6, <1>7, <1>9, <1>11, WakeKeeps, WakeFrame
<1>13. /\ q2 \in QueuesType
       /\ \A Q \in LockQ : Range(q2[Q]) = Range(q1[Q]) \ Range(woken)
  BY <1>7, <1>9, Unblock, LockQueueNames
<1>14. \A b \in Barriers : q2[BarrierQ(b)] = queue[BarrierQ(b)]
  <2>1. \A b \in Barriers : q1[BarrierQ(b)] = queue[BarrierQ(b)]
    BY <1>7, LockQueueNames
  <2> QED BY <1>7, <1>9, <2>1, UnblockFrame, LockQueueNames
<1>15. st2 \in StatusType
  BY <1>6, SetStatus DEF Statuses
<1> HIDE DEF st2, q2
<1>16. OnCores(st2, core_running, Cores \ {c})
  BY <1>1, <1>5, <1>12, SameRunning
<1>17. \A x \in Slots : st2[x] \in Free <=> status[x] \in Free
  BY <1>3, <1>6, <1>12 DEF Free
<1>18. PidsLive(st2, pid')
  BY <1>1, <1>2, <1>17 DEF PidsLive
<1>19. /\ \A Q \in LockQ : queue'[Q] = q2[Q]
       /\ \A x \in Slots : status'[x] \in Free <=> st2[x] \in Free
       /\ BlockedOn(st2, q2) => BlockedOn(status', queue')
  BY <1>1, <1>2, <1>12, <1>13, <1>15, <1>16, <1>18, ScheduleFrame
<1>20. p \notin Range(woken)
  BY <1>3, <1>9
<1>21. Range(queue'[CondQ(k)]) = Range(queue[CondQ(k)]) \cup {p}
  <2>1. Range(queue'[CondQ(k)]) = (Range(queue[CondQ(k)]) \cup {p}) \ Range(woken)
    BY <1>4, <1>8, <1>13, <1>19
  <2> QED BY <1>9, <1>20, <2>1
<1>22. \A Q \in LockQ : Q # CondQ(k) => Range(queue'[Q]) = Range(queue[Q]) \ Range(woken)
  BY <1>7, <1>13, <1>19, LockQueueNames
<1>23. \A b \in Barriers : queue'[BarrierQ(b)] = queue[BarrierQ(b)]
  BY <1>14, <1>19, LockQueueNames
<1> QED
  BY <1>3, <1>10, <1>12, <1>17, <1>19, <1>21, <1>22, <1>23 DEF p, woken

\* do_condition_signal,
LEMMA SignalFrame ==
    ASSUME TypeOK, CInv, NEW c \in Cores, NEW k \in Conditions, do_condition_signal(c, k)
    PROVE  LET m == conditions[k].lock_idx
               s == Head(queue[CondQ(k)])
           IN
           /\ \A b \in Barriers : queue'[BarrierQ(b)] = queue[BarrierQ(b)]
           /\ \A p \in Slots : status'[p] \in Free <=> status[p] \in Free
           /\ m \in Mutexes /\ queue[CondQ(k)] # <<>> /\ mlocks[m].status # "UNLOCKED" =>
                 /\ s \in Range(queue[CondQ(k)])
                 /\ Range(queue'[CondQ(k)]) = Range(queue[CondQ(k)]) \ {s}
                 /\ Range(queue'[MutexQ(m)]) = Range(queue[MutexQ(m)]) \cup {s}
                 /\ \A Q \in LockQ : Q # CondQ(k) /\ Q # MutexQ(m)
                        => Range(queue'[Q]) = Range(queue[Q])
                 /\ BlockedOn(status, queue) => BlockedOn(status', queue')
<1> DEFINE m == conditions[k].lock_idx
           s == Head(queue[CondQ(k)])
           q1 == del_queue(queue, {s})
           q2 == add_queue(q1, MutexQ(m), s)
<1>1. /\ status \in StatusType /\ queue \in QueuesType /\ core_running \in CoresType
      /\ Agree(status, queue, core_running) /\ PidsLive(status, pid)
      /\ Lists(queue) /\ Tasks(status, queue) /\ OnCores(status, core_running, Cores)
  BY TypeParts DEF CInv, Agree
<1>2. pid' = pid
  BY DEF do_condition_signal
<1>3. CASE queue[CondQ(k)] = <<>>
  <2>1. UNCHANGED <<status, queue>>
    BY <1>3 DEF do_condition_signal
  <2> QED BY <1>3, <2>1
<1>4. CASE queue[CondQ(k)] # <<>>
  <2>1. /\ s \in Slots /\ On(queue, s) /\ status[s] = "BLOCKED"
        /\ s \in Range(queue[CondQ(k)])
        /\ \A Q \in QueueId : Q # CondQ(k) => s \notin Range(queue[Q])
    BY <1>1, <1>4, CondHead, CondWaiters
  <2>2. /\ q1 \in QueuesType /\ Lists(q1)
        /\ \A Q \in QueueId : Range(q1[Q]) = Range(queue[Q]) \ {s}
    BY <1>1, DelQueue
  <2>3. \A Q \in LockQ : Q # CondQ(k) => q1[Q] = queue[Q]
    BY <1>1, <2>1, DelQueueFrame, LockQueueNames
  <2>4. /\ ReadyQ \in QueueId /\ ReadyQ # CondQ(k) /\ ReadyQ # MutexQ(m)
        /\ CondQ(k) \in LockQ /\ CondQ(k) \in QueueId /\ CondQ(k) # MutexQ(m)
        /\ \A x \in Slots : WaitQ(x) \in QueueId /\ WaitQ(x) # MutexQ(m)
        /\ \A b \in Barriers : /\ BarrierQ(b) \in LockQ /\ BarrierQ(b) \in QueueId
                                /\ BarrierQ(b) # CondQ(k) /\ BarrierQ(b) # MutexQ(m)
    BY QueueNames, LockQueueNames
  <2>5. CASE mlocks[m].status = "UNLOCKED"
    <3>1. queue' = q1 /\ UNCHANGED status
      BY <1>4, <2>5 DEF do_condition_signal
    <3> HIDE DEF s, q1
    <3> QED BY <2>3, <2>4, <2>5, <3>1
  <2>6. CASE mlocks[m].status # "UNLOCKED"
    <3>1. do_scheduler(c, set_status(status, {s}, "BLOCKED"), q2)
      BY <1>4, <2>6 DEF do_condition_signal
    <3> HIDE DEF s, q1, m
    <3>2. set_status(status, {s}, "BLOCKED") = status
      BY <1>1, <2>1 DEF set_status, StatusType
    <3>3. ~On(q1, s)
      BY <2>2 DEF On
    <3>4. /\ q2 \in QueuesType /\ Lists(q2)
          /\ \A Q \in QueueId : Q # MutexQ(m) => q2[Q] = q1[Q]
          /\ \A x \in Slots : On(q2, x) => On(queue, x)
          /\ m \in Mutexes => Range(q2[MutexQ(m)]) = Range(q1[MutexQ(m)]) \cup {s}
      <4>1. CASE MutexQ(m) \in QueueId
        <5>1. q2 \in QueuesType /\ Lists(q2)
          BY <2>1, <2>2, <3>3, <4>1, AddQueue
        <5>2. Range(q2[MutexQ(m)]) = Range(q1[MutexQ(m)]) \cup {s}
          BY <2>1, <2>2, <4>1, AddQueue
        <5>3. \A Q \in QueueId : Q # MutexQ(m) => q2[Q] = q1[Q]
          BY <2>1, <2>2, <4>1, AddQueue
        <5> HIDE DEF q2
        <5>4. \A x \in Slots : On(q2, x) => On(queue, x)
          BY <2>1, <2>2, <5>2, <5>3 DEF On
        <5> QED BY <5>1, <5>2, <5>3, <5>4
      <4>2. CASE MutexQ(m) \notin QueueId
        <5>1. q2 = q1 /\ m \notin Mutexes
          BY <2>2, <4>2, NoSuchIndex, QueueNames
        <5>2. \A x \in Slots : On(q1, x) => On(queue, x)
          BY <2>2 DEF On
        <5> QED BY <2>2, <5>1, <5>2
      <4> QED BY <4>1, <4>2
    <3> HIDE DEF q2
    <3>5. Tasks(status, q2)
      <4>1. Range(queue[ReadyQ]) \subseteq Range(q2[ReadyQ])
        BY <2>1, <2>2, <2>4, <3>4
      <4>2. \A x \in Slots : Range(q2[WaitQ(x)]) \subseteq Range(queue[WaitQ(x)])
        BY <2>2, <2>4, <3>4
      <4> QED BY <1>1, <3>4, <4>1, <4>2, MoveKeeps
    <3>6. OnCores(status, core_running, Cores \ {c}) /\ PidsLive(status, pid')
      BY <1>1, <1>2, OtherCores
    <3>7. /\ \A Q \in LockQ : queue'[Q] = q2[Q]
          /\ \A x \in Slots : status'[x] \in Free <=> status[x] \in Free
          /\ BlockedOn(status, q2) => BlockedOn(status', queue')
      BY <1>1, <3>1, <3>2, <3>4, <3>5, <3>6, ScheduleFrame
    <3>8. \A b \in Barriers : queue'[BarrierQ(b)] = queue[BarrierQ(b)]
      BY <2>3, <2>4, <3>4, <3>7
    <3>9. ASSUME m \in Mutexes
          PROVE  /\ Range(queue'[CondQ(k)]) = Range(queue[CondQ(k)]) \ {s}
                 /\ Range(queue'[MutexQ(m)]) = Range(queue[MutexQ(m)]) \cup {s}
                 /\ \A Q \in LockQ : Q # CondQ(k) /\ Q # MutexQ(m)
                        => Range(queue'[Q]) = Range(queue[Q])
                 /\ BlockedOn(status, queue) => BlockedOn(status', queue')
      <4>1. MutexQ(m) \in LockQ /\ MutexQ(m) \in QueueId
        BY <3>9, LockQueueNames
      <4>2. Range(queue'[CondQ(k)]) = Range(queue[CondQ(k)]) \ {s}
        BY <2>2, <2>4, <3>4, <3>7
      <4>3. Range(queue'[MutexQ(m)]) = Range(queue[MutexQ(m)]) \cup {s}
        BY <2>2, <3>4, <3>7, <3>9, <4>1
      <4>4. \A Q \in LockQ : Q # CondQ(k) /\ Q # MutexQ(m) => Range(queue'[Q]) = Range(queue[Q])
        BY <2>3, <3>4, <3>7, LockQueueNames
      <4>5. \A x \in Slots : On(queue, x) => On(q2, x)
        BY <2>2, <2>4, <3>4, <3>9, <4>1 DEF On
      <4>6. BlockedOn(status, queue) => BlockedOn(status, q2)
        BY <4>5 DEF BlockedOn
      <4> QED BY <3>7, <4>2, <4>3, <4>4, <4>6
    <3> QED BY <2>1, <3>7, <3>8, <3>9 DEF m, s
  <2> QED BY <2>5, <2>6
<1> QED
  BY <1>3, <1>4

\* The lists that do_condition_broadcast hands to do_scheduler.
LEMMA BroadcastMoves ==
    ASSUME TypeOK, CInv, NEW k \in Conditions, NEW m
    PROVE  LET w == queue[CondQ(k)]
               h == Head(w)
               q == BroadcastLists(k, m)
           IN
           /\ \A Q \in QueueId : Q # CondQ(k) /\ Q # MutexQ(m) /\ Q # ReadyQ => q[Q] = queue[Q]
           /\ Range(q[CondQ(k)]) = {}
           /\ m \in Mutexes =>
                /\ w = <<>> => Range(q[MutexQ(m)]) = Range(queue[MutexQ(m)])
                /\ w # <<>> /\ mlocks[m].status # "UNLOCKED" =>
                      Range(q[MutexQ(m)]) = Range(queue[MutexQ(m)]) \cup Range(w)
                /\ w # <<>> /\ mlocks[m].status = "UNLOCKED" =>
                      /\ h \in Range(w)
                      /\ h \in Range(q[ReadyQ])
                      /\ Range(q[MutexQ(m)]) = Range(queue[MutexQ(m)]) \cup (Range(w) \ {h})
<1> DEFINE w == queue[CondQ(k)]
           q1 == [queue EXCEPT ![CondQ(k)] = <<>>]
           h == Head(w)
           u == Tail(w)
           q2 == add_queue(q1, ReadyQ, h)
<1>1. queue \in QueuesType /\ Lists(queue)
  BY TypeParts DEF CInv, Agree
<1>2. /\ CondQ(k) \in QueueId /\ ReadyQ \in QueueId /\ ReadyQ # CondQ(k) /\ ReadyQ # MutexQ(m)
      /\ CondQ(k) # MutexQ(m) /\ (m \in Mutexes => MutexQ(m) \in QueueId)
  BY QueueNames
<1>3. w \in Seq(Slots) /\ IsInjective(w)
  BY <1>1, <1>2, QueueWakes
<1>4. w # <<>> => /\ h \in Range(w) /\ h \in Slots /\ u \in Seq(Slots)
                  /\ Range(u) = Range(w) \ {h}
  <2>1. ASSUME w # <<>> PROVE /\ h \in Range(w) /\ u \in Seq(Slots)
                               /\ Range(w) = {h} \cup Range(u) /\ h \notin Range(u)
    <3> HIDE DEF w
    <3> QED BY <1>3, <2>1, HeadTailNodes
  <2>2. Range(w) \subseteq Slots
    BY <1>3, RangeOfList
  <2> QED BY <2>1, <2>2
<1>5. /\ q1 \in QueuesType
      /\ Range(q1[CondQ(k)]) = {}
      /\ \A Q \in QueueId : Q # CondQ(k) => q1[Q] = queue[Q]
  <2>1. q1 \in QueuesType
    BY <1>1, CondHead
  <2>2. q1[CondQ(k)] = <<>> /\ \A Q \in QueueId : Q # CondQ(k) => q1[Q] = queue[Q]
    BY <1>1, <1>2 DEF QueuesType
  <2>3. Range(<<>>) = {}
    BY DEF Range
  <2> QED BY <2>1, <2>2, <2>3
<1>6. BroadcastLists(k, m) =
        IF w = <<>> THEN q1
        ELSE IF mlocks[m].status = "UNLOCKED" THEN AddAll(q2, MutexQ(m), u)
             ELSE AddAll(q1, MutexQ(m), w)
  BY DEF BroadcastLists
<1> HIDE DEF q1, w, h, u
<1>7. ASSUME NEW q \in QueuesType, NEW z \in Seq(Slots)
      PROVE  /\ \A R \in QueueId : R # MutexQ(m) => AddAll(q, MutexQ(m), z)[R] = q[R]
             /\ m \in Mutexes => Range(AddAll(q, MutexQ(m), z)[MutexQ(m)])
                                   = Range(q[MutexQ(m)]) \cup Range(z)
  <2>1. CASE MutexQ(m) \in QueueId
    <3>1. \A R \in QueueId : R # MutexQ(m) => AddAll(q, MutexQ(m), z)[R] = q[R]
      BY <2>1, AddQueues
    <3>2. Range(AddAll(q, MutexQ(m), z)[MutexQ(m)]) = Range(q[MutexQ(m)]) \cup Range(z)
      BY <2>1, AddQueues
    <3> QED BY <3>1, <3>2
  <2>2. CASE MutexQ(m) \notin QueueId
    BY <1>2, <2>2, NoSuchIndex
  <2> QED BY <2>1, <2>2
<1>8. CASE w = <<>>
  <2>1. BroadcastLists(k, m) = q1
    BY <1>6, <1>8
  <2>2. /\ \A Q \in QueueId : Q # CondQ(k) /\ Q # MutexQ(m) /\ Q # ReadyQ => q1[Q] = queue[Q]
        /\ Range(q1[CondQ(k)]) = {}
        /\ m \in Mutexes => Range(q1[MutexQ(m)]) = Range(queue[MutexQ(m)])
    BY <1>2, <1>5
  <2> QED BY <1>8, <2>1, <2>2 DEF w
<1>9. CASE w # <<>> /\ mlocks[m].status # "UNLOCKED"
  <2> DEFINE r == AddAll(q1, MutexQ(m), w)
  <2>1. BroadcastLists(k, m) = r
    BY <1>6, <1>9
  <2>2. /\ \A R \in QueueId : R # MutexQ(m) => r[R] = q1[R]
        /\ m \in Mutexes => Range(r[MutexQ(m)]) = Range(q1[MutexQ(m)]) \cup Range(w)
    BY <1>3, <1>5, <1>7
  <2> HIDE DEF r
  <2>3. /\ \A Q \in QueueId : Q # CondQ(k) /\ Q # MutexQ(m) /\ Q # ReadyQ => r[Q] = queue[Q]
        /\ Range(r[CondQ(k)]) = {}
        /\ m \in Mutexes => Range(r[MutexQ(m)]) = Range(queue[MutexQ(m)]) \cup Range(w)
    BY <1>2, <1>5, <2>2
  <2> QED BY <1>9, <2>1, <2>3 DEF w
<1>10. CASE w # <<>> /\ mlocks[m].status = "UNLOCKED"
  <2> DEFINE r == AddAll(q2, MutexQ(m), u)
  <2>1. BroadcastLists(k, m) = r
    BY <1>6, <1>10
  <2>2. /\ q2 \in QueuesType
        /\ \A R \in QueueId : R # ReadyQ => q2[R] = q1[R]
    BY <1>2, <1>4, <1>5, <1>10, AddQueue
  <2>3. Range(q2[ReadyQ]) = Range(q1[ReadyQ]) \cup {h}
    <3>1. q1 \in QueuesType /\ ReadyQ \in QueueId /\ h \in Slots
      BY <1>2, <1>4, <1>5, <1>10
    <3> QED BY <3>1, AddQueue
  <2> HIDE DEF q2
  <2>4. /\ \A R \in QueueId : R # MutexQ(m) => r[R] = q2[R]
        /\ m \in Mutexes => Range(r[MutexQ(m)]) = Range(q2[MutexQ(m)]) \cup Range(u)
    BY <1>4, <1>7, <1>10, <2>2
  <2> HIDE DEF r
  <2>5. /\ \A Q \in QueueId : Q # CondQ(k) /\ Q # MutexQ(m) /\ Q # ReadyQ => r[Q] = queue[Q]
        /\ Range(r[CondQ(k)]) = {}
        /\ h \in Range(r[ReadyQ])
        /\ m \in Mutexes => Range(r[MutexQ(m)]) = Range(queue[MutexQ(m)]) \cup (Range(w) \ {h})
    BY <1>2, <1>4, <1>5, <1>10, <2>2, <2>3, <2>4
  <2> QED BY <1>4, <1>10, <2>1, <2>5 DEF w, h
<1> QED
  BY <1>8, <1>9, <1>10

\* and do_condition_broadcast.
LEMMA BroadcastFrame ==
    ASSUME TypeOK, CInv, NEW c \in Cores, NEW k \in Conditions, do_condition_broadcast(c, k)
    PROVE  LET m == conditions[k].lock_idx
               q == BroadcastLists(k, m)
           IN
           /\ \A Q \in LockQ : queue'[Q] = q[Q]
           /\ \A b \in Barriers : queue'[BarrierQ(b)] = queue[BarrierQ(b)]
           /\ \A p \in Slots : status'[p] \in Free <=> status[p] \in Free
           /\ (m \in Mutexes \/ queue[CondQ(k)] = <<>>) /\ BlockedOn(status, queue)
                 => BlockedOn(status', queue')
<1> DEFINE m == conditions[k].lock_idx
           w == queue[CondQ(k)]
           q == BroadcastLists(k, m)
<1>1. /\ status \in StatusType /\ queue \in QueuesType /\ core_running \in CoresType
      /\ Agree(status, queue, core_running) /\ PidsLive(status, pid)
      /\ Lists(queue) /\ Tasks(status, queue) /\ OnCores(status, core_running, Cores)
  BY TypeParts DEF CInv, Agree
<1>2. do_scheduler(c, status, q) /\ pid' = pid
  BY DEF do_condition_broadcast, BroadcastLists, AddAll
<1> HIDE DEF m
<1>3. /\ q \in QueuesType /\ Lists(q)
      /\ \A x \in Slots : On(q, x) => On(queue, x)
      /\ Range(queue[ReadyQ]) \subseteq Range(q[ReadyQ])
      /\ \A x \in Slots : q[WaitQ(x)] = queue[WaitQ(x)]
  BY <1>1, BroadcastTypes, BroadcastKeeps
<1>4. /\ \A Q \in QueueId : Q # CondQ(k) /\ Q # MutexQ(m) /\ Q # ReadyQ => q[Q] = queue[Q]
      /\ m \in Mutexes =>
           /\ w = <<>> => Range(q[MutexQ(m)]) = Range(queue[MutexQ(m)])
           /\ w # <<>> /\ mlocks[m].status # "UNLOCKED" =>
                 Range(q[MutexQ(m)]) = Range(queue[MutexQ(m)]) \cup Range(w)
           /\ w # <<>> /\ mlocks[m].status = "UNLOCKED" =>
                 /\ Head(w) \in Range(q[ReadyQ])
                 /\ Range(q[MutexQ(m)]) = Range(queue[MutexQ(m)]) \cup (Range(w) \ {Head(w)})
  BY BroadcastMoves, ZenonT(60)
<1>5. /\ CondQ(k) \in QueueId /\ ReadyQ \in QueueId
      /\ m \in Mutexes => MutexQ(m) \in QueueId
      /\ w \in Seq(Slots)
  BY <1>1, QueueNames, CondHead
<1>6. Range(w) = {} <=> w = <<>>
  BY <1>5, RangeOfList
<1> HIDE DEF q
<1>7. /\ Tasks(status, q)
      /\ OnCores(status, core_running, Cores \ {c}) /\ PidsLive(status, pid')
  BY <1>1, <1>2, <1>3, MoveKeeps, OtherCores
<1>8. /\ \A Q \in LockQ : queue'[Q] = q[Q]
      /\ \A x \in Slots : status'[x] \in Free <=> status[x] \in Free
      /\ BlockedOn(status, q) => BlockedOn(status', queue')
  BY <1>1, <1>2, <1>3, <1>7, ScheduleFrame
<1>9. \A b \in Barriers : queue'[BarrierQ(b)] = queue[BarrierQ(b)]
  <2>1. \A b \in Barriers : /\ BarrierQ(b) \in LockQ /\ BarrierQ(b) \in QueueId
                            /\ BarrierQ(b) # CondQ(k) /\ BarrierQ(b) # MutexQ(m)
                            /\ BarrierQ(b) # ReadyQ
    BY LockQueueNames
  <2> QED BY <1>4, <1>8, <2>1
<1>10. ASSUME m \in Mutexes \/ w = <<>>, BlockedOn(status, queue) PROVE BlockedOn(status, q)
  <2> SUFFICES ASSUME NEW x \in Slots, NEW Q \in QueueId, x \in Range(queue[Q])
               PROVE  On(q, x)
    BY <1>10 DEF BlockedOn, On
  <2>1. CASE Q # CondQ(k) /\ Q # MutexQ(m) /\ Q # ReadyQ
    BY <1>4, <2>1 DEF On
  <2>2. CASE Q = ReadyQ
    BY <1>3, <1>5, <2>2 DEF On
  <2>3. CASE Q = CondQ(k)
    <3>1. x \in Range(w) /\ w # <<>> /\ m \in Mutexes
      BY <1>6, <1>10, <2>3
    <3> HIDE DEF w
    <3>2. CASE mlocks[m].status # "UNLOCKED"
      BY <1>4, <1>5, <3>1, <3>2 DEF On
    <3>3. CASE mlocks[m].status = "UNLOCKED"
      BY <1>4, <1>5, <3>1, <3>3 DEF On
    <3> QED BY <3>2, <3>3
  <2>4. CASE Q = MutexQ(m)
    <3>1. m \in Mutexes
      BY <2>4 DEF QueueId, MutexQ, CondQ, BarrierQ, WaitQ, ReadyQ, SleepQ
    <3>2. Range(queue[MutexQ(m)]) \subseteq Range(q[MutexQ(m)])
      <4> HIDE DEF w
      <4> QED BY <1>4, <3>1
    <3> QED BY <1>5, <2>4, <3>1, <3>2 DEF On
  <2> QED BY <2>1, <2>2, <2>3, <2>4
<1> QED
  BY <1>8, <1>9, <1>10, SMTT(40) DEF m, q

-----------------------------------------------------------------------------
(* Barriers *)

\* The calls that have nothing to do with barriers.
OtherCall(c) ==
    \/ timer_step(c) \/ exec_step(c) \/ thread_step(c) \/ exit_step(c)
    \/ sleep_step(c) \/ waitpid_step(c) \/ taskset_step(c)
    \/ \E v \in Pids : do_kill(c, v)
    \/ \E key \in Keys : do_mutex_lock_init(c, key)
    \/ \E m \in Mutexes : do_mutex_lock_acquire(c, m)
    \/ \E m \in Mutexes : do_mutex_lock_release(c, m)
    \/ do_condition_init(c)
    \/ \E k \in Conditions, m \in Mutexes : do_condition_wait(c, k, m)
    \/ \E k \in Conditions : do_condition_signal(c, k)
    \/ \E k \in Conditions : do_condition_broadcast(c, k)
    \/ \E k \in Conditions : do_condition_destroy(c, k)

\* They leave whoever waits at a barrier there, if nobody is killed at one.
LEMMA WaitersStay ==
    ASSUME TypeOK, CInv, BarrierUse, NEW c \in Cores, OtherCall(c)
    PROVE  /\ \A b \in Barriers : queue'[BarrierQ(b)] = queue[BarrierQ(b)]
           /\ UNCHANGED <<barriers, goal>>
<1>1. \A b \in Barriers : BarrierQ(b) \in LockQ
  BY LockQueueNames
<1>2. LocalKills
  BY DEF BarrierUse
<1>3. CASE timer_step(c) \/ sleep_step(c) \/ waitpid_step(c)
  BY <1>1, <1>3, WaitFrame DEF Frame, lockVars
<1>4. CASE exec_step(c) \/ thread_step(c)
  <2>1. new_task(c, process_id) \/ new_task(c, pid[core_running[c]])
    BY <1>4 DEF exec_step, thread_step, do_exec, do_thread_create
  <2>2. UNCHANGED lockVars
    BY <1>4 DEF exec_step, thread_step
  <2>3. \A Q \in LockQ : queue'[Q] = queue[Q]
    BY <2>1, NewTaskFrame
  <2> QED BY <1>1, <2>2, <2>3 DEF lockVars
<1>5. CASE exit_step(c)
  BY <1>1, <1>5, ExitFrame DEF exit_step, lockVars
<1>6. CASE taskset_step(c)
  BY <1>6 DEF taskset_step, do_taskset_chg, lockVars
<1>7. ASSUME NEW v \in Pids, do_kill(c, v)
      PROVE  /\ \A b \in Barriers : queue'[BarrierQ(b)] = queue[BarrierQ(b)]
             /\ UNCHANGED <<barriers, goal>>
  <2>1. CASE kill_task(c, v)
    <3>1. \A b \in Barriers : Min(SlotsOf(v)) \notin Range(queue[BarrierQ(b)])
      BY <2>1 DEF kill_task, BarrierUse
    <3>2. UNCHANGED <<barriers, goal>>
      BY <2>1 DEF kill_task
    <3> QED BY <1>2, <2>1, <3>1, <3>2, KillFrame
  <2>2. CASE kill_unused(c, v)
    BY <2>2 DEF kill_unused, lockVars
  <2> QED BY <1>7, <2>1, <2>2 DEF do_kill
<1>8. ASSUME NEW key \in Keys, do_mutex_lock_init(c, key)
      PROVE  UNCHANGED <<queue, barriers, goal>>
  BY <1>8 DEF do_mutex_lock_init
<1>9. ASSUME NEW m \in Mutexes, do_mutex_lock_acquire(c, m)
      PROVE  /\ \A b \in Barriers : queue'[BarrierQ(b)] = queue[BarrierQ(b)]
             /\ UNCHANGED <<barriers, goal>>
  <2>1. UNCHANGED <<barriers, goal>>
    BY <1>9 DEF do_mutex_lock_acquire
  <2> QED BY <1>9, <2>1, AcquireFrame, LockQueueNames
<1>10. ASSUME NEW m \in Mutexes, do_mutex_lock_release(c, m)
       PROVE  /\ \A b \in Barriers : queue'[BarrierQ(b)] = queue[BarrierQ(b)]
              /\ UNCHANGED <<barriers, goal>>
  <2>1. UNCHANGED <<barriers, goal>>
    BY <1>10 DEF do_mutex_lock_release
  <2> QED BY <1>10, <2>1, ReleaseFrame
<1>11. ASSUME do_condition_init(c) \/ \E k \in Conditions : do_condition_destroy(c, k)
       PROVE  UNCHANGED <<queue, barriers, goal>>
  BY <1>11 DEF do_condition_init, do_condition_destroy, schedVars
<1>12. ASSUME NEW k \in Conditions, NEW m \in Mutexes, do_condition_wait(c, k, m)
       PROVE  /\ \A b \in Barriers : queue'[BarrierQ(b)] = queue[BarrierQ(b)]
              /\ UNCHANGED <<barriers, goal>>
  <2>1. UNCHANGED <<barriers, goal>>
    BY <1>12 DEF do_condition_wait
  <2> QED BY <1>12, <2>1, CondWaitFrame
<1>13. ASSUME NEW k \in Conditions, do_condition_signal(c, k)
       PROVE  /\ \A b \in Barriers : queue'[BarrierQ(b)] = queue[BarrierQ(b)]
              /\ UNCHANGED <<barriers, goal>>
  <2>1. UNCHANGED <<barriers, goal>>
    BY <1>13 DEF do_condition_signal
  <2> QED BY <1>13, <2>1, SignalFrame
<1>14. ASSUME NEW k \in Conditions, do_condition_broadcast(c, k)
       PROVE  /\ \A b \in Barriers : queue'[BarrierQ(b)] = queue[BarrierQ(b)]
              /\ UNCHANGED <<barriers, goal>>
  <2>1. UNCHANGED <<barriers, goal>>
    BY <1>14 DEF do_condition_broadcast
  <2> QED BY <1>14, <2>1, BroadcastFrame, SMTT(40)
<1> QED
  BY <1>3, <1>4, <1>5, <1>6, <1>7, <1>8, <1>9, <1>10, <1>11, <1>12, <1>13, <1>14 DEF OtherCall

\* What do_barrier_wait does to the barrier it is called for.
LEMMA WaitAtBarrier ==
    ASSUME TypeOK, CInv, BInv, NEW c \in Cores, NEW b \in Barriers, do_barrier_wait(c, b)
    PROVE  /\ BInv'
           /\ ~LastArrival(b) =>
                 queue'[BarrierQ(b)] = Append(queue[BarrierQ(b)], core_running[c])
           /\ LastArrival(b) => /\ Len(queue[BarrierQ(b)]) = goal[b] - 1
                                /\ queue'[BarrierQ(b)] = <<>>
           /\ \A d \in Barriers : d # b => queue'[BarrierQ(d)] = queue[BarrierQ(d)]
<1> DEFINE w == queue[BarrierQ(b)]
<1>1. /\ barriers \in BarriersType /\ goal \in [Barriers -> Int]
      /\ BarrierQ(b) \in QueueId /\ w \in Seq(Slots)
  BY TypeParts, LockQueueNames DEF BarriersType, QueuesType
<1>2. Len(w) \in Nat
  BY <1>1, LenProperties
<1>3. barriers[b].used /\ goal' = goal
  BY DEF do_barrier_wait
<1>4. barriers[b].num + Len(w) = goal[b] /\ barriers[b].num >= 1 /\ barriers[b].num \in Int
  BY <1>1, <1>3 DEF BInv, BarrierConserved, BarriersType
<1>5. /\ LastArrival(b) => queue'[BarrierQ(b)] = <<>>
      /\ ~LastArrival(b) => queue'[BarrierQ(b)] = Append(w, core_running[c])
  BY BarrierWaitFrame
<1>6. \A d \in Barriers : d # b => queue'[BarrierQ(d)] = queue[BarrierQ(d)]
  BY BarrierWaitFrame, LockQueueNames
<1>7. core_running[c] \in Slots
  BY TypeParts DEF do_barrier_wait, Calls, CoresType
<1>8. /\ \A d \in Barriers : d # b => barriers'[d] = barriers[d]
      /\ barriers'[b].used = barriers[b].used
      /\ barriers'[b].num = IF LastArrival(b) THEN barriers[b].num + Len(w)
                                              ELSE barriers[b].num - 1
  BY <1>1, ZenonT(60) DEF do_barrier_wait, RestoredNum, BarriersType
<1>9. barriers'[b].num + Len(queue'[BarrierQ(b)]) = goal'[b] /\ barriers'[b].num >= 1
  <2>1. CASE LastArrival(b)
    <3>1. Len(<<>>) = 0
      BY EmptySeq
    <3> QED BY <1>2, <1>3, <1>4, <1>5, <1>8, <2>1, <3>1
  <2>2. CASE ~LastArrival(b)
    <3>1. Len(Append(w, core_running[c])) = Len(w) + 1
      BY <1>1, <1>7, AppendProperties
    <3>2. barriers[b].num # 1
      BY <2>2 DEF LastArrival
    <3>3. queue'[BarrierQ(b)] = Append(w, core_running[c])
      BY <1>5, <2>2
    <3>4. barriers'[b].num = barriers[b].num - 1
      BY <1>8, <2>2
    <3>5. \A n \in Int, l \in Nat : n >= 1 /\ n # 1 => n - 1 >= 1 /\ (n - 1) + (l + 1) = n + l
      OBVIOUS
    <3>6. /\ barriers[b].num - 1 >= 1
          /\ (barriers[b].num - 1) + (Len(w) + 1) = barriers[b].num + Len(w)
      BY <1>2, <1>4, <3>2, <3>5
    <3>7. Len(queue'[BarrierQ(b)]) = Len(w) + 1
      BY <3>1, <3>3
    <3> QED BY <1>3, <1>4, <3>4, <3>6, <3>7
  <2> QED BY <2>1, <2>2
<1>10. \A d \in Barriers : d # b =>
          /\ barriers'[d].used => /\ barriers'[d].num + Len(queue'[BarrierQ(d)]) = goal'[d]
                                  /\ barriers'[d].num >= 1
          /\ ~barriers'[d].used => queue'[BarrierQ(d)] = <<>>
  BY <1>3, <1>6, <1>8 DEF BInv, BarrierConserved
<1>11. BInv'
  BY <1>3, <1>8, <1>9, <1>10 DEF BInv, BarrierConserved
<1>12. LastArrival(b) => Len(w) = goal[b] - 1
  BY <1>1, <1>2, <1>4 DEF LastArrival
<1> QED
  BY <1>5, <1>6, <1>11, <1>12

\* Every step keeps the invariant of the barriers.
LEMMA BarrierStep ==
    ASSUME TypeOK, CInv, BInv, BarrierUse, [Next]_vars
    PROVE  BInv'
<1>1. ASSUME \A b \in Barriers : queue'[BarrierQ(b)] = queue[BarrierQ(b)],
             UNCHANGED <<barriers, goal>>
      PROVE  BInv'
  BY <1>1 DEF BInv, BarrierConserved
<1>2. CASE UNCHANGED vars \/ tick_step \/ Halted
  <2>1. UNCHANGED <<queue, barriers, goal>>
    BY <1>2 DEF tick_step, Tick, Halted, vars, schedVars, lockVars
  <2> QED BY <1>1, <2>1
<1>3. ASSUME NEW c \in Cores, OtherCall(c) PROVE BInv'
  BY <1>1, <1>3, WaitersStay
<1>4. ASSUME NEW c \in Cores, NEW g \in Goals, do_barrier_init(c, g) PROVE BInv'
  <2> DEFINE unused == {b \in Barriers : ~barriers[b].used}
             i == Min(unused)
  <2>1. i \in unused
    <3>1. unused # {}
      BY <1>4 DEF do_barrier_init
    <3>2. unused \in SUBSET Nat
      BY SchedAssumption DEF Barriers
    <3> HIDE DEF unused
    <3> QED BY <3>1, <3>2, MinIsLeast
  <2>2. /\ barriers' = [barriers EXCEPT ![i] = [used |-> TRUE, num |-> g]]
        /\ goal' = [goal EXCEPT ![i] = g] /\ queue' = queue
    BY <1>4 DEF do_barrier_init, schedVars
  <2>3. i \in Barriers /\ ~barriers[i].used
    BY <2>1
  <2> HIDE DEF i, unused
  <2>4. queue[BarrierQ(i)] = <<>> /\ Len(<<>>) = 0 /\ g \in Nat /\ g >= 1
    BY <2>3, EmptySeq, LocksAssumption DEF BInv
  <2>5. /\ barriers'[i] = [used |-> TRUE, num |-> g] /\ goal'[i] = g
        /\ \A d \in Barriers : d # i => barriers'[d] = barriers[d] /\ goal'[d] = goal[d]
    BY <2>2, <2>3, TypeParts
  <2>6. \A d \in Barriers : d # i =>
          /\ barriers'[d].used => /\ barriers'[d].num + Len(queue'[BarrierQ(d)]) = goal'[d]
                                  /\ barriers'[d].num >= 1
          /\ ~barriers'[d].used => queue'[BarrierQ(d)] = <<>>
    BY <2>2, <2>5 DEF BInv, BarrierConserved
  <2>7. /\ barriers'[i].used /\ barriers'[i].num >= 1
        /\ barriers'[i].num + Len(queue'[BarrierQ(i)]) = goal'[i]
    BY <2>2, <2>4, <2>5
  <2> QED BY <2>6, <2>7 DEF BInv, BarrierConserved
<1>5. ASSUME NEW c \in Cores, NEW b \in Barriers, do_barrier_wait(c, b) PROVE BInv'
  BY <1>5, WaitAtBarrier
<1>6. ASSUME NEW c \in Cores, NEW b \in Barriers, do_barrier_destroy(c, b) PROVE BInv'
  <2>1. /\ barriers' = [barriers EXCEPT ![b] = [used |-> FALSE, num |-> -1]]
        /\ goal' = goal /\ queue' = queue /\ queue[BarrierQ(b)] = <<>>
    BY <1>6 DEF do_barrier_destroy, schedVars
  <2>2. /\ barriers'[b] = [used |-> FALSE, num |-> -1]
        /\ \A d \in Barriers : d # b => barriers'[d] = barriers[d]
    BY <2>1, TypeParts
  <2>3. ~barriers'[b].used
    BY <2>2
  <2> QED BY <2>1, <2>2, <2>3 DEF BInv, BarrierConserved
<1> QED
  BY <1>2, <1>3, <1>4, <1>5, <1>6 DEF Next, OtherCall

\* It holds at boot,
LEMMA BarrierInit == KInit => BInv
<1>1. KInit => \A b \in Barriers : ~barriers[b].used /\ queue[BarrierQ(b)] = <<>>
  BY LockQueueNames DEF KInit, Init, LocksInit
<1> QED
  BY <1>1 DEF BInv, BarrierConserved

BarriersHold == KInv /\ (BarrierUse => BInv)

\* and so in every state.
LEMMA BarrierInvariant == Spec => []BarriersHold
<1>1. KInit => BarriersHold
  BY TypeInit, CInit, BarrierInit DEF KInv, BarriersHold
<1>2. BarriersHold /\ [Next]_vars => BarriersHold'
  <2> SUFFICES ASSUME BarriersHold, [Next]_vars PROVE BarriersHold'
    OBVIOUS
  <2>1. TypeOK'
    BY TypeStep DEF KInv, BarriersHold
  <2>2. LocalKills => CInv'
    BY CStep DEF KInv, BarriersHold
  <2>3. BarrierUse => BInv'
    BY BarrierStep DEF KInv, BarriersHold, BarrierUse
  <2> QED BY <2>1, <2>2, <2>3 DEF KInv, LocalKills, BarriersHold, BarrierUse
<1> QED
  BY <1>1, <1>2, PTL DEF Spec

\* Unless a task is killed while it waits at a barrier, or while it runs on
\* another core, barrier_num and the tasks that wait always add up to the
\* goal, so do_barrier_wait releases after goal arrivals, every round again.
THEOREM BarriersConserved == Spec => [](BarrierUse => BarrierConserved)
<1>1. BarriersHold => (BarrierUse => BarrierConserved)
  BY DEF BarriersHold, BInv
<1> QED
  BY <1>1, BarrierInvariant, PTL

\* Under the same condition nobody passes do_barrier_wait before everybody
\* has arrived, and then all leave it in one step.
THEOREM BarriersReleaseTogether ==
    ASSUME BarrierUse
    PROVE  Spec => BarrierReleasesTogether
<1> DEFINE Left(b) == \E p \in Range(queue[BarrierQ(b)]) :
                          p \notin Range(queue'[BarrierQ(b)]) /\ status'[p] # "EXITED"
           Together == \A b \in Barriers : Left(b) => /\ Len(queue[BarrierQ(b)]) = goal[b] - 1
                                                      /\ queue'[BarrierQ(b)] = <<>>
<1>1. BarriersHold /\ [Next]_vars => [Together]_vars
  <2> SUFFICES ASSUME BarriersHold, Next PROVE Together
    OBVIOUS
  <2>1. TypeOK /\ CInv /\ BInv
    BY DEF BarriersHold, KInv, BarrierUse
  <2>2. CASE tick_step \/ Halted
    BY <2>2 DEF tick_step, Tick, Halted, vars, schedVars
  <2>3. ASSUME NEW c \in Cores, OtherCall(c) PROVE Together
    BY <2>1, <2>3, WaitersStay
  <2>4. ASSUME NEW c \in Cores,
               \/ \E g \in Goals : do_barrier_init(c, g)
               \/ \E b \in Barriers : do_barrier_destroy(c, b)
        PROVE  Together
    BY <2>4 DEF do_barrier_init, do_barrier_destroy, schedVars
  <2>5. ASSUME NEW c \in Cores, NEW b \in Barriers, do_barrier_wait(c, b) PROVE Together
    <3> SUFFICES ASSUME NEW d \in Barriers, Left(d)
                 PROVE  Len(queue[BarrierQ(d)]) = goal[d] - 1 /\ queue'[BarrierQ(d)] = <<>>
      OBVIOUS
    <3>1. d = b
      BY <2>1, <2>5, WaitAtBarrier
    <3>2. LastArrival(b)
      <4>1. queue[BarrierQ(b)] \in Seq(Slots) /\ core_running[c] \in Slots
        BY <2>1, <2>5, TypeParts, LockQueueNames DEF QueuesType, CoresType, do_barrier_wait, Calls
      <4>2. Range(Append(queue[BarrierQ(b)], core_running[c]))
              = Range(queue[BarrierQ(b)]) \cup {core_running[c]}
        BY <4>1, AppendNodes
      <4> QED BY <2>1, <2>5, <3>1, <4>2, WaitAtBarrier
    <3> QED BY <2>1, <2>5, <3>1, <3>2, WaitAtBarrier
  <2> QED BY <2>2, <2>3, <2>4, <2>5 DEF Next, OtherCall
<1> QED
  BY <1>1, BarrierInvariant, PTL DEF Spec, BarrierReleasesTogether

-----------------------------------------------------------------------------
(* Mutexes and conditions *)

\* A release leaves the mutex free, or held by the first of its queue.
LEMMA Released ==
    ASSUME TypeOK, NEW m \in Mutexes, NEW ms, NEW leave
    PROVE  LET L == ReleasedLocks(queue, ms)[m]
               H == ReleasedHolds(queue, ms, leave)[m]
               w == queue[MutexQ(m)]
           IN
           /\ m \notin ms => L = mlocks[m] /\ H = holds[m]
           /\ m \in ms /\ w = <<>> => L.status = "UNLOCKED" /\ H = holds[m] \ leave
           /\ m \in ms /\ w # <<>> =>
                /\ L.status = mlocks[m].status /\ L.owner = pid'[Head(w)]
                /\ H = (holds[m] \ leave) \cup {Head(w)}
                /\ Head(w) \in Range(w) /\ Head(w) \in Slots
<1>1. mlocks \in MlocksType
  BY TypeParts
<1>2. mlocks[m] \in [status : {"UNLOCKED", "LOCKED"}, owner : Int, key : Nat]
  BY <1>1 DEF MlocksType
<1>3. queue[MutexQ(m)] \in Seq(Slots)
  BY TypeParts, QueueNames DEF QueuesType
<1>4. /\ m \notin ms => ReleasedLocks(queue, ms)[m] = mlocks[m]
      /\ m \in ms /\ queue[MutexQ(m)] = <<>> => ReleasedLocks(queue, ms)[m].status = "UNLOCKED"
      /\ m \in ms /\ queue[MutexQ(m)] # <<>> =>
           /\ ReleasedLocks(queue, ms)[m].status = mlocks[m].status
           /\ ReleasedLocks(queue, ms)[m].owner = pid'[Head(queue[MutexQ(m)])]
  BY <1>2 DEF ReleasedLocks
<1>5. /\ m \notin ms => ReleasedHolds(queue, ms, leave)[m] = holds[m]
      /\ m \in ms /\ queue[MutexQ(m)] = <<>> =>
           ReleasedHolds(queue, ms, leave)[m] = holds[m] \ leave
      /\ m \in ms /\ queue[MutexQ(m)] # <<>> =>
           ReleasedHolds(queue, ms, leave)[m] = (holds[m] \ leave) \cup {Head(queue[MutexQ(m)])}
  BY DEF ReleasedHolds
<1>6. queue[MutexQ(m)] # <<>> => /\ Head(queue[MutexQ(m)]) \in Range(queue[MutexQ(m)])
                                 /\ Head(queue[MutexQ(m)]) \in Slots
  BY <1>3, HeadTailNodes, RangeOfList
<1> QED
  BY <1>4, <1>5, <1>6

\* A mutex that everybody inside leaves is handed to its first waiter, or
\* is free.
LEMMA HandOver ==
    ASSUME TypeOK, NEW m \in Mutexes, NEW ms, m \in ms, NEW leave,
           MutexHeld(m), holds[m] \subseteq leave,
           mlocks' = ReleasedLocks(queue, ms), holds' = ReleasedHolds(queue, ms, leave),
           Range(queue'[MutexQ(m)]) \subseteq Range(queue[MutexQ(m)]) \ Range(Successors(queue, ms)),
           \A x \in Range(queue[MutexQ(m)]) : status'[x] \notin Free
    PROVE  (MutexFree(m) \/ MutexHeld(m))'
<1> DEFINE w == queue[MutexQ(m)]
<1>1. w \in Seq(Slots)
  BY TypeParts, QueueNames DEF QueuesType
<1>2. mlocks[m].status = "LOCKED" /\ holds[m] \ leave = {}
  BY DEF MutexHeld
<1>3. CASE w = <<>>
  <2>1. mlocks'[m].status = "UNLOCKED" /\ holds'[m] = {}
    BY <1>2, <1>3, Released
  <2>2. Range(queue'[MutexQ(m)]) = {}
    BY <1>1, <1>3, RangeOfList
  <2> QED BY <2>1, <2>2 DEF MutexFree
<1>4. CASE w # <<>>
  <2> DEFINE h == Head(w)
  <2>1. /\ mlocks'[m].status = "LOCKED" /\ mlocks'[m].owner = pid'[h]
        /\ holds'[m] = {h} /\ h \in Range(w) /\ h \in Slots
    BY <1>2, <1>4, Released
  <2>2. h \notin Range(queue'[MutexQ(m)])
    <3>1. h \in Range(Successors(queue, ms))
      BY <1>4, TypeParts, SuccessorsAre
    <3> HIDE DEF h
    <3> QED BY <3>1
  <2>3. status'[h] \notin Free
    BY <2>1
  <2> HIDE DEF h
  <2> QED BY <2>1, <2>2, <2>3 DEF MutexHeld
<1> QED
  BY <1>3, <1>4

\* Whoever waits for a condition is on no other list and is not running.
LEMMA OnOneList ==
    ASSUME TypeOK, CInv, NEW k \in Conditions, NEW s \in Range(queue[CondQ(k)])
    PROVE  /\ \A m \in Mutexes : s \notin Range(queue[MutexQ(m)])
           /\ \A c \in Cores : core_running[c] # s
           /\ s \in Slots /\ status[s] \notin Free
<1>1. /\ s \in Slots /\ status[s] = "BLOCKED"
      /\ \A Q \in QueueId : Q # CondQ(k) => s \notin Range(queue[Q])
  BY CondWaiters
<1>2. \A c \in Cores : core_running[c] # s
  <2>1. Pid0 \notin Slots
    BY SchedAssumption DEF Pid0, Slots
  <2> QED BY <1>1, <2>1 DEF CInv, Agree, OnCores
<1> QED
  BY <1>1, <1>2, LockQueueNames DEF Free

\* Queued tasks have not exited.
LEMMA QueuedLives ==
    ASSUME TypeOK, CInv, NEW Q \in QueueId, NEW x \in Range(queue[Q])
    PROVE  x \in Slots /\ status[x] \notin Free
<1>1. x \in Slots
  BY TypeParts, RangeOfList DEF QueuesType
<1> QED
  BY <1>1 DEF CInv, Agree, Tasks, On, Free

\* The running task is on no list.
LEMMA RunnerUnlisted ==
    ASSUME TypeOK, CInv, NEW c \in Cores, core_running[c] # Pid0
    PROVE  /\ core_running[c] \in Slots /\ status[core_running[c]] \notin Free
           /\ ~On(queue, core_running[c])
<1>1. core_running[c] \in Slots /\ status[core_running[c]] = "RUNNING"
  BY TypeParts DEF CoresType, CInv, Agree, OnCores
<1> QED
  BY <1>1 DEF CInv, Agree, Tasks, Free

\* A step keeps the pids if it leaves them alone and makes no task live.
LEMMA PidsKept ==
    ASSUME PidsNamed, PidsUnique, UNCHANGED <<pid, process_id>>,
           \A p \in Slots : status'[p] \notin Free => status[p] \notin Free
    PROVE  PidsNamed' /\ PidsUnique'
BY DEF PidsNamed, PidsUnique

\* A mutex is kept by a step that leaves it, its queue and its holder alone.
LEMMA MutexUntouched ==
    ASSUME NEW m \in Mutexes, MutexFree(m) \/ MutexHeld(m),
           mlocks'[m] = mlocks[m], holds'[m] = holds[m],
           Range(queue'[MutexQ(m)]) \subseteq Range(queue[MutexQ(m)]),
           \A p \in holds[m] : p \in Slots /\ status[p] \notin Free
                                  => status'[p] \notin Free /\ pid'[p] = pid[p]
    PROVE  (MutexFree(m) \/ MutexHeld(m))'
<1>1. CASE MutexFree(m)
  <2>1. MutexFree(m)'
    BY <1>1 DEF MutexFree
  <2> QED BY <2>1
<1>2. CASE MutexHeld(m)
  <2>1. MutexHeld(m)'
    BY <1>2 DEF MutexHeld
  <2> QED BY <2>1
<1> QED
  BY <1>1, <1>2

\* So are the conditions, if waiters only leave and nobody waiting gets in.
LEMMA CondsUntouched ==
    ASSUME TypeOK, CInv, CondsKept,
           \A k \in Conditions : Range(queue'[CondQ(k)]) # {} =>
               /\ conditions'[k].lock_idx = conditions[k].lock_idx
               /\ Range(queue'[CondQ(k)]) \subseteq Range(queue[CondQ(k)]),
           \A m \in Mutexes : \A x \in holds'[m] :
               x \in holds[m] \/ x \in Range(queue[MutexQ(m)]) \/ \E c \in Cores : x = core_running[c]
    PROVE  CondsKept'
<1> SUFFICES ASSUME NEW k \in Conditions, NEW s \in Range(queue'[CondQ(k)])
             PROVE  conditions'[k].lock_idx \in Mutexes /\ s \notin holds'[conditions'[k].lock_idx]
  BY DEF CondsKept
<1> DEFINE m == conditions[k].lock_idx
<1>1. conditions'[k].lock_idx = m /\ s \in Range(queue[CondQ(k)])
  OBVIOUS
<1>2. m \in Mutexes /\ s \notin holds[m]
  BY <1>1 DEF CondsKept
<1>3. s \notin Range(queue[MutexQ(m)]) /\ \A c \in Cores : core_running[c] # s
  BY <1>1, <1>2, OnOneList
<1> HIDE DEF m
<1> QED
  BY <1>1, <1>2, <1>3

\* Steps that take no part in locking.
LEMMA UntouchedStep ==
    ASSUME TypeOK, CInv, MInv, UNCHANGED <<pid, process_id, mlocks, holds>>,
           \A Q \in LockQ : (\A b \in Barriers : Q # BarrierQ(b)) =>
               Range(queue'[Q]) \subseteq Range(queue[Q]),
           \A k \in Conditions : Range(queue'[CondQ(k)]) # {} =>
               conditions'[k].lock_idx = conditions[k].lock_idx,
           \A p \in Slots : status'[p] \in Free => status[p] \in Free \/ \A m \in Mutexes : p \notin holds[m],
           \A p \in Slots : status'[p] \notin Free => status[p] \notin Free
    PROVE  MInv'
<1>1. PidsNamed' /\ PidsUnique'
  BY PidsKept DEF MInv
<1>2. /\ \A m \in Mutexes : Range(queue'[MutexQ(m)]) \subseteq Range(queue[MutexQ(m)])
      /\ \A k \in Conditions : Range(queue'[CondQ(k)]) \subseteq Range(queue[CondQ(k)])
  BY LockQueueNames
<1>3. MutexesKept'
  <2> SUFFICES ASSUME NEW m \in Mutexes PROVE (MutexFree(m) \/ MutexHeld(m))'
    BY DEF MutexesKept
  <2>1. MutexFree(m) \/ MutexHeld(m)
    BY DEF MInv, MutexesKept
  <2>2. \A p \in holds[m] : p \in Slots /\ status[p] \notin Free
                              => status'[p] \notin Free /\ pid'[p] = pid[p]
    OBVIOUS
  <2> QED BY <1>2, <2>1, <2>2, MutexUntouched
<1>4. CondsKept'
  <2>1. \A m \in Mutexes : \A x \in holds'[m] : x \in holds[m]
    OBVIOUS
  <2> QED BY <1>2, <2>1, CondsUntouched DEF MInv
<1> QED
  BY <1>1, <1>3, <1>4 DEF MInv

\* Timer, sleep, waitpid, taskset and the barrier calls.
LEMMA QuietForMutexes ==
    ASSUME TypeOK, CInv, MInv, NEW c \in Cores,
           \/ timer_step(c) \/ sleep_step(c) \/ waitpid_step(c) \/ taskset_step(c)
           \/ \E g \in Goals : do_barrier_init(c, g)
           \/ \E b \in Barriers : do_barrier_wait(c, b)
           \/ \E b \in Barriers : do_barrier_destroy(c, b)
           \/ do_condition_init(c)
           \/ \E k \in Conditions : do_condition_destroy(c, k)
    PROVE  MInv'
<1>1. ASSUME Frame, UNCHANGED <<pid, process_id, lockVars>> PROVE MInv'
  BY <1>1, UntouchedStep DEF Frame, lockVars
<1>2. ASSUME UNCHANGED <<status, queue, pid, process_id, mlocks, holds>>,
             \A k \in Conditions : Range(queue[CondQ(k)]) # {} =>
                 conditions'[k].lock_idx = conditions[k].lock_idx
      PROVE  MInv'
  BY <1>2, UntouchedStep
<1>3. CASE timer_step(c) \/ sleep_step(c) \/ waitpid_step(c)
  BY <1>1, <1>3, WaitFrame
<1>4. CASE taskset_step(c)
  BY <1>2, <1>4 DEF taskset_step, do_taskset_chg, lockVars
<1>5. CASE \/ \E g \in Goals : do_barrier_init(c, g)
           \/ \E b \in Barriers : do_barrier_destroy(c, b)
  BY <1>2, <1>5 DEF do_barrier_init, do_barrier_destroy, schedVars
<1>6. ASSUME NEW b \in Barriers, do_barrier_wait(c, b) PROVE MInv'
  <2>1. UNCHANGED <<pid, process_id, mlocks, holds, conditions>>
    BY <1>6 DEF do_barrier_wait
  <2>2. /\ \A Q \in LockQ : Q # BarrierQ(b) => queue'[Q] = queue[Q]
        /\ \A p \in Slots : status'[p] \in Free <=> status[p] \in Free
    BY <1>6, BarrierWaitFrame
  <2> QED BY <2>1, <2>2, UntouchedStep
<1>7. ASSUME do_condition_init(c) \/ \E k \in Conditions : do_condition_destroy(c, k)
      PROVE  MInv'
  <2>1. UNCHANGED <<status, queue, pid, process_id, mlocks, holds>>
    BY <1>7 DEF do_condition_init, do_condition_destroy, schedVars
  <2>2. conditions \in ConditionsType
    BY TypeParts DEF ConditionsType
  <2>3. ASSUME do_condition_init(c), NEW k \in Conditions
        PROVE  conditions'[k].lock_idx = conditions[k].lock_idx
    BY <2>2, <2>3 DEF do_condition_init, ConditionsType
  <2>4. ASSUME NEW d \in Conditions, do_condition_destroy(c, d),
               NEW k \in Conditions, Range(queue[CondQ(k)]) # {}
        PROVE  conditions'[k].lock_idx = conditions[k].lock_idx
    <3>1. queue[CondQ(d)] = <<>> /\ queue[CondQ(d)] \in Seq(Slots)
      BY <2>4, CondHead, TypeParts DEF do_condition_destroy
    <3>2. Range(queue[CondQ(d)]) = {}
      BY <3>1, RangeOfList
    <3>3. k # d
      BY <2>4, <3>2
    <3> QED BY <2>2, <2>4, <3>3 DEF do_condition_destroy, ConditionsType
  <2> QED BY <1>2, <1>7, <2>1, <2>3, <2>4
<1> QED
  BY <1>3, <1>4, <1>5, <1>6, <1>7

\* do_exit outside every mutex.
LEMMA ExitForMutexes ==
    ASSUME TypeOK, CInv, MInv, Disciplined, NEW c \in Cores, exit_step(c)
    PROVE  MInv'
<1>1. /\ do_exit(c) /\ UNCHANGED lockVars
      /\ \A m \in Mutexes : core_running[c] \notin holds[m]
  BY DEF exit_step, Disciplined
<1>2. core_running[c] # Pid0
  BY <1>1 DEF do_exit, Calls
<1>3. status[core_running[c]] \notin Free
  BY <1>2, RunnerUnlisted
<1>4. /\ \A Q \in LockQ : queue'[Q] = queue[Q]
      /\ \A x \in Slots : x # core_running[c] => (status'[x] \in Free <=> status[x] \in Free)
      /\ UNCHANGED <<pid, process_id>>
  BY <1>1, ExitFrame
<1> QED
  BY <1>1, <1>3, <1>4, UntouchedStep DEF lockVars

\* do_exec and do_thread_create: the PCB they take held no mutex.
LEMMA NewTaskForMutexes ==
    ASSUME TypeOK, CInv, MInv, NEW c \in Cores, exec_step(c) \/ thread_step(c)
    PROVE  MInv'
<1> DEFINE i == Min(FreeSlots)
           v == IF exec_step(c) THEN process_id ELSE pid[core_running[c]]
<1>1. /\ UNCHANGED lockVars
      /\ exec_step(c) => /\ new_task(c, process_id)
                         /\ process_id' = IF FreeSlots = {} THEN process_id ELSE process_id + 1
      /\ ~exec_step(c) => /\ new_task(c, pid[core_running[c]]) /\ process_id' = process_id
                          /\ "thread" \in Workload /\ core_running[c] # Pid0
  BY DEF exec_step, thread_step, do_exec, do_thread_create, Calls
<1>2. new_task(c, v)
  BY <1>1
<1>3. pid \in [Slots -> Int] /\ status \in StatusType /\ process_id \in Nat /\ holds \in HoldsType
  BY TypeParts
<1>4. v \in Int /\ v >= 1 /\ v < process_id + 1 /\ (~exec_step(c) => v < process_id)
  <2>1. CASE exec_step(c)
    BY <1>3, <2>1 DEF MInv, PidsNamed
  <2>2. CASE ~exec_step(c)
    <3>1. core_running[c] \in Slots /\ status[core_running[c]] \notin Free
      BY <1>1, <2>2, RunnerUnlisted
    <3> QED BY <1>3, <2>2, <3>1 DEF MInv, PidsNamed
  <2> QED BY <2>1, <2>2
<1> HIDE DEF v
<1>5. \A Q \in LockQ : queue'[Q] = queue[Q]
  BY <1>2, NewTaskFrame
<1>6. CASE FreeSlots = {}
  <2>1. UNCHANGED <<status, pid, process_id>>
    BY <1>1, <1>2, <1>6, NewTaskFrame
  <2> QED BY <1>1, <1>5, <2>1, UntouchedStep DEF lockVars
<1>7. CASE FreeSlots # {}
  <2>1. /\ i \in Slots /\ status[i] \in Free
        /\ status' = [status EXCEPT ![i] = "READY"]
        /\ pid' = [pid EXCEPT ![i] = v]
    BY <1>2, <1>7, NewTaskFrame
  <2> HIDE DEF i
  <2>2. \A x \in Slots : /\ status'[x] = IF x = i THEN "READY" ELSE status[x]
                         /\ pid'[x] = IF x = i THEN v ELSE pid[x]
    BY <1>3, <2>1 DEF StatusType
  <2>3. /\ exec_step(c) => process_id' = process_id + 1 /\ v = process_id
        /\ ~exec_step(c) => process_id' = process_id /\ "thread" \in Workload
    BY <1>1, <1>7 DEF v
  <2>4. PidsNamed'
    <3>1. process_id' \in Nat /\ process_id' >= process_id /\ v < process_id'
      BY <1>3, <1>4, <2>3
    <3>2. process_id' >= 2
      BY <1>3, <3>1 DEF MInv, PidsNamed
    <3>3. ASSUME NEW x \in Slots
          PROVE  pid'[x] < process_id' /\ (status'[x] \notin Free => pid'[x] >= 1)
      <4>1. CASE x = i
        BY <1>4, <2>2, <3>1, <4>1
      <4>2. CASE x # i
        <5>1. /\ pid[x] \in Int /\ pid[x] < process_id
              /\ status[x] \notin Free => pid[x] >= 1
          BY <1>3 DEF MInv, PidsNamed
        <5>2. pid'[x] = pid[x] /\ status'[x] = status[x]
          BY <2>2, <4>2
        <5> QED BY <1>3, <3>1, <5>1, <5>2
      <4> QED BY <4>1, <4>2
    <3> QED BY <3>2, <3>3 DEF PidsNamed
  <2>5. PidsUnique'
    <3> SUFFICES ASSUME "thread" \notin Workload, NEW p \in Slots, NEW r \in Slots,
                        pid'[p] = pid'[r], pid'[p] >= 1
                 PROVE  p = r
      BY DEF PidsUnique
    <3>1. v = process_id
      BY <2>3
    <3>2. \A x \in Slots : pid[x] # process_id
      BY <1>3 DEF MInv, PidsNamed
    <3>3. p # i /\ r # i => p = r
      BY <2>2 DEF MInv, PidsUnique
    <3> QED BY <2>2, <3>1, <3>2, <3>3
  <2>6. MutexesKept'
    <3> SUFFICES ASSUME NEW m \in Mutexes PROVE (MutexFree(m) \/ MutexHeld(m))'
      BY DEF MutexesKept
    <3>1. MutexFree(m) \/ MutexHeld(m)
      BY DEF MInv, MutexesKept
    <3>2. \A p \in holds[m] : p \in Slots /\ status[p] \notin Free
                                => status'[p] \notin Free /\ pid'[p] = pid[p]
      BY <2>1, <2>2
    <3>3. mlocks'[m] = mlocks[m] /\ holds'[m] = holds[m]
      BY <1>1 DEF lockVars
    <3>4. queue'[MutexQ(m)] = queue[MutexQ(m)]
      BY <1>5, LockQueueNames
    <3> QED BY <3>1, <3>2, <3>3, <3>4, MutexUntouched
  <2>7. CondsKept'
    <3>1. \A k \in Conditions : queue'[CondQ(k)] = queue[CondQ(k)]
      BY <1>5, LockQueueNames
    <3> QED BY <1>1, <3>1 DEF MInv, CondsKept, lockVars
  <2> QED BY <2>4, <2>5, <2>6, <2>7 DEF MInv
<1> QED
  BY <1>6, <1>7

\* do_mutex_lock_init gives a new key only to a mutex without an owner.
LEMMA InitForMutexes ==
    ASSUME TypeOK, CInv, MInv, NEW c \in Cores, NEW key \in Keys, do_mutex_lock_init(c, key)
    PROVE  /\ MInv'
           /\ \A m \in Mutexes : mlocks'[m].key # mlocks[m].key => MutexFree(m)
<1> DEFINE found == InitScan(key)
           i == Min(found)
<1>1. UNCHANGED <<status, queue, pid, process_id, conditions, holds>>
  BY DEF do_mutex_lock_init
<1>2. CASE found = {} \/ mlocks[i].key = key
  <2>1. mlocks' = mlocks
    BY <1>2 DEF do_mutex_lock_init
  <2> QED BY <1>1, <2>1, UntouchedStep
<1>3. CASE found # {} /\ mlocks[i].key # key
  <2>1. mlocks' = [mlocks EXCEPT ![i] = [status |-> "UNLOCKED", owner |-> 0, key |-> key]]
    BY <1>3 DEF do_mutex_lock_init
  <2>2. i \in found
    <3>1. found \in SUBSET Nat
      BY SchedAssumption DEF InitScan, Mutexes
    <3> HIDE DEF found
    <3> QED BY <1>3, <3>1, MinIsLeast
  <2>3. i \in Mutexes /\ mlocks[i].owner = NoOwner
    BY <1>3, <2>2 DEF InitScan
  <2> HIDE DEF i
  <2>4. ~MutexHeld(i)
    <3>1. \A p \in Slots : status[p] \notin Free => pid[p] >= 1
      BY DEF MInv, PidsNamed
    <3>2. ~(NoOwner >= 1)
      BY DEF NoOwner
    <3> QED BY <2>3, <3>1, <3>2 DEF MutexHeld
  <2>5. MutexFree(i)
    BY <2>3, <2>4 DEF MInv, MutexesKept
  <2>6. /\ mlocks'[i].status = "UNLOCKED"
        /\ \A m \in Mutexes : m # i => mlocks'[m] = mlocks[m]
    BY <2>1, <2>3, TypeParts DEF MlocksType
  <2>7. MutexesKept'
    <3> SUFFICES ASSUME NEW m \in Mutexes PROVE (MutexFree(m) \/ MutexHeld(m))'
      BY DEF MutexesKept
    <3>1. CASE m = i
      BY <1>1, <2>5, <2>6, <3>1 DEF MutexFree
    <3>2. CASE m # i
      <4>1. MutexFree(m) \/ MutexHeld(m)
        BY DEF MInv, MutexesKept
      <4> QED BY <1>1, <2>6, <3>2, <4>1, MutexUntouched
    <3> QED BY <3>1, <3>2
  <2>8. PidsNamed' /\ PidsUnique' /\ CondsKept'
    BY <1>1 DEF MInv, PidsNamed, PidsUnique, CondsKept
  <2> QED BY <2>5, <2>6, <2>7, <2>8 DEF MInv
<1> QED
  BY <1>2, <1>3

\* do_mutex_lock_acquire enters a free mutex or queues for a held one.
LEMMA AcquireForMutexes ==
    ASSUME TypeOK, CInv, MInv, NEW c \in Cores, NEW m \in Mutexes, do_mutex_lock_acquire(c, m)
    PROVE  MInv'
<1> DEFINE p == core_running[c]
<1>1. p # Pid0 /\ p \notin holds[m] /\ UNCHANGED <<pid, process_id, conditions>>
  BY DEF do_mutex_lock_acquire, Calls
<1>2. p \in Slots /\ status[p] \notin Free /\ ~On(queue, p)
  BY <1>1, RunnerUnlisted
<1>3. /\ \A Q \in LockQ : Q # MutexQ(m) => queue'[Q] = queue[Q]
      /\ mlocks[m].status = "UNLOCKED" => queue'[MutexQ(m)] = queue[MutexQ(m)]
      /\ mlocks[m].status # "UNLOCKED" =>
            Range(queue'[MutexQ(m)]) = Range(queue[MutexQ(m)]) \cup {p}
      /\ \A x \in Slots : status'[x] \in Free <=> status[x] \in Free
  BY AcquireFrame
<1>4. /\ mlocks[m].status = "UNLOCKED" =>
           /\ mlocks' = [mlocks EXCEPT ![m].status = "LOCKED", ![m].owner = pid[p]]
           /\ holds' = [holds EXCEPT ![m] = @ \cup {p}]
      /\ mlocks[m].status # "UNLOCKED" => UNCHANGED <<mlocks, holds>>
  BY DEF do_mutex_lock_acquire
<1>5. mlocks \in MlocksType /\ holds \in HoldsType
  BY TypeParts
<1> HIDE DEF p
<1>6. PidsNamed' /\ PidsUnique'
  BY <1>1, <1>3, PidsKept DEF MInv
<1>7. \A n \in Mutexes : n # m => mlocks'[n] = mlocks[n] /\ holds'[n] = holds[n]
  BY <1>4, <1>5 DEF MlocksType, HoldsType
<1>8. \A n \in Mutexes : n # m => queue'[MutexQ(n)] = queue[MutexQ(n)]
  BY <1>3, LockQueueNames
<1>9. \A n \in Mutexes : MutexFree(n) \/ MutexHeld(n)
  BY DEF MInv, MutexesKept
<1>10. ASSUME NEW n \in Mutexes, n # m PROVE (MutexFree(n) \/ MutexHeld(n))'
  BY <1>1, <1>3, <1>7, <1>8, <1>9, <1>10, MutexUntouched
<1>11. CASE mlocks[m].status = "UNLOCKED"
  <2>1. MutexFree(m)
    BY <1>9, <1>11 DEF MutexHeld
  <2>2. mlocks'[m].status = "LOCKED" /\ mlocks'[m].owner = pid[p] /\ holds'[m] = {p}
    BY <1>4, <1>5, <1>11, <2>1 DEF MlocksType, HoldsType, MutexFree
  <2>3. p \notin Range(queue'[MutexQ(m)])
    BY <1>3, <1>11, <2>1 DEF MutexFree
  <2>4. MutexHeld(m)'
    BY <1>1, <1>2, <1>3, <2>2, <2>3 DEF MutexHeld
  <2>5. \A n \in Mutexes : \A x \in holds'[n] : x \in holds[n] \/ \E d \in Cores : x = core_running[d]
    BY <1>7, <2>2 DEF p
  <2>6. \A k \in Conditions : queue'[CondQ(k)] = queue[CondQ(k)]
    BY <1>3, LockQueueNames
  <2>7. CondsKept'
    BY <1>1, <2>5, <2>6, CondsUntouched DEF MInv
  <2> QED BY <1>6, <1>10, <2>4, <2>7 DEF MInv, MutexesKept
<1>12. CASE mlocks[m].status # "UNLOCKED"
  <2>1. MutexHeld(m)
    BY <1>9, <1>12 DEF MutexFree
  <2>2. MutexHeld(m)'
    BY <1>1, <1>3, <1>4, <1>12, <2>1 DEF MutexHeld
  <2>3. \A k \in Conditions : queue'[CondQ(k)] = queue[CondQ(k)]
    BY <1>3, LockQueueNames
  <2>4. CondsKept'
    BY <1>1, <1>4, <1>12, <2>3, CondsUntouched DEF MInv
  <2> QED BY <1>6, <1>10, <2>2, <2>4 DEF MInv, MutexesKept
<1> QED
  BY <1>11, <1>12

\* do_mutex_lock_release by the task inside.
LEMMA ReleaseForMutexes ==
    ASSUME TypeOK, CInv, MInv, NEW c \in Cores, NEW m \in Mutexes, do_mutex_lock_release(c, m)
    PROVE  MInv'
<1> DEFINE p == core_running[c]
<1>1. /\ p \in holds[m] /\ UNCHANGED <<pid, process_id, conditions>>
      /\ mlocks' = ReleasedLocks(queue, {m}) /\ holds' = ReleasedHolds(queue, {m}, {p})
  BY DEF do_mutex_lock_release
<1>2. /\ \A Q \in LockQ : Range(queue'[Q]) = Range(queue[Q]) \ Range(Successors(queue, {m}))
      /\ \A x \in Slots : status'[x] \in Free <=> status[x] \in Free
  BY ReleaseFrame
<1> HIDE DEF p
<1>3. PidsNamed' /\ PidsUnique'
  BY <1>1, <1>2, PidsKept DEF MInv
<1>4. \A n \in Mutexes : MutexFree(n) \/ MutexHeld(n)
  BY DEF MInv, MutexesKept
<1>5. /\ \A n \in Mutexes : Range(queue'[MutexQ(n)])
                              = Range(queue[MutexQ(n)]) \ Range(Successors(queue, {m}))
      /\ \A k \in Conditions : Range(queue'[CondQ(k)]) \subseteq Range(queue[CondQ(k)])
  BY <1>2, LockQueueNames
<1>6. \A n \in Mutexes : n # m => mlocks'[n] = mlocks[n] /\ holds'[n] = holds[n]
  BY <1>1, Released
<1>7. ASSUME NEW n \in Mutexes, n # m PROVE (MutexFree(n) \/ MutexHeld(n))'
  BY <1>1, <1>2, <1>4, <1>5, <1>6, <1>7, MutexUntouched
<1>8. (MutexFree(m) \/ MutexHeld(m))'
  <2>1. MutexHeld(m) /\ holds[m] \subseteq {p}
    BY <1>1, <1>4 DEF MutexFree, MutexHeld
  <2>2. \A x \in Range(queue[MutexQ(m)]) : status'[x] \notin Free
    BY <1>2, QueuedLives, QueueNames
  <2> QED BY <1>1, <1>5, <2>1, <2>2, HandOver
<1>9. \A n \in Mutexes : \A x \in holds'[n] : x \in holds[n] \/ x \in Range(queue[MutexQ(n)])
  BY <1>1, Released
<1>10. CondsKept'
  BY <1>1, <1>5, <1>9, CondsUntouched DEF MInv
<1> QED
  BY <1>3, <1>7, <1>8, <1>10 DEF MInv, MutexesKept

\* do_condition_wait releases the mutex the same way and queues outside it.
LEMMA CondWaitForMutexes ==
    ASSUME TypeOK, CInv, MInv, NEW c \in Cores, NEW k \in Conditions, NEW m \in Mutexes,
           do_condition_wait(c, k, m)
    PROVE  MInv'
<1> DEFINE p == core_running[c]
<1>1. /\ p \in holds[m] /\ UNCHANGED <<pid, process_id>>
      /\ mlocks' = ReleasedLocks(queue, {m}) /\ holds' = ReleasedHolds(queue, {m}, {p})
      /\ conditions' = [conditions EXCEPT ![k].lock_idx = m]
      /\ queue[CondQ(k)] = <<>> \/ conditions[k].lock_idx = m
  BY DEF do_condition_wait
<1>2. /\ p \in Slots /\ ~On(queue, p)
      /\ Range(queue'[CondQ(k)]) = Range(queue[CondQ(k)]) \cup {p}
      /\ \A Q \in LockQ : Q # CondQ(k) =>
            Range(queue'[Q]) = Range(queue[Q]) \ Range(Successors(queue, {m}))
      /\ \A x \in Slots : status'[x] \in Free <=> status[x] \in Free
  <2>1. \A Q \in LockQ : Q # CondQ(k) =>
           Range(queue'[Q]) = Range(queue[Q]) \ Range(Successors(queue, {m}))
    BY CondWaitFrame
  <2>2. core_running[c] \in Slots /\ ~On(queue, core_running[c])
    BY CondWaitFrame
  <2>3. Range(queue'[CondQ(k)]) = Range(queue[CondQ(k)]) \cup {core_running[c]}
    BY CondWaitFrame
  <2>4. \A x \in Slots : status'[x] \in Free <=> status[x] \in Free
    BY CondWaitFrame
  <2> QED BY <2>1, <2>2, <2>3, <2>4
<1> HIDE DEF p
<1>3. PidsNamed' /\ PidsUnique'
  BY <1>1, <1>2, PidsKept DEF MInv
<1>4. \A n \in Mutexes : MutexFree(n) \/ MutexHeld(n)
  BY DEF MInv, MutexesKept
<1>5. /\ \A n \in Mutexes : Range(queue'[MutexQ(n)])
                              = Range(queue[MutexQ(n)]) \ Range(Successors(queue, {m}))
      /\ \A l \in Conditions : l # k => Range(queue'[CondQ(l)]) \subseteq Range(queue[CondQ(l)])
  BY <1>2, LockQueueNames
<1>6. \A n \in Mutexes : n # m => mlocks'[n] = mlocks[n] /\ holds'[n] = holds[n]
  BY <1>1, Released
<1>7. ASSUME NEW n \in Mutexes, n # m PROVE (MutexFree(n) \/ MutexHeld(n))'
  BY <1>1, <1>2, <1>4, <1>5, <1>6, <1>7, MutexUntouched
<1>8. MutexHeld(m) /\ holds[m] = {p}
  BY <1>1, <1>4 DEF MutexFree, MutexHeld
<1>9. (MutexFree(m) \/ MutexHeld(m))'
  <2>1. \A x \in Range(queue[MutexQ(m)]) : status'[x] \notin Free
    BY <1>2, QueuedLives, QueueNames
  <2> QED BY <1>1, <1>5, <1>8, <2>1, HandOver
<1>10. \A n \in Mutexes : \A x \in holds'[n] :
          (x \in holds[n] /\ ~(n = m /\ x = p)) \/ x \in Range(queue[MutexQ(n)])
  BY <1>1, Released
<1>11. /\ conditions'[k].lock_idx = m
       /\ \A l \in Conditions : l # k => conditions'[l] = conditions[l]
  BY <1>1, TypeParts
<1>12. CondsKept'
  <2> SUFFICES ASSUME NEW l \in Conditions, NEW s \in Range(queue'[CondQ(l)])
               PROVE  conditions'[l].lock_idx \in Mutexes /\ s \notin holds'[conditions'[l].lock_idx]
    BY DEF CondsKept
  <2>1. CASE l # k
    <3>1. /\ s \in Range(queue[CondQ(l)]) /\ conditions'[l].lock_idx = conditions[l].lock_idx
          /\ conditions[l].lock_idx \in Mutexes /\ s \notin holds[conditions[l].lock_idx]
      BY <1>5, <1>11, <2>1 DEF MInv, CondsKept
    <3>2. \A n \in Mutexes : s \notin Range(queue[MutexQ(n)])
      BY <3>1, OnOneList
    <3> QED BY <1>10, <3>1, <3>2
  <2>2. CASE l = k /\ s = p
    <3>1. p \notin Range(queue[MutexQ(m)])
      BY <1>2, QueueNames DEF On
    <3> QED BY <1>10, <1>11, <2>2, <3>1
  <2>3. CASE l = k /\ s # p
    <3>1. s \in Range(queue[CondQ(k)])
      BY <1>2, <2>3
    <3>2. \A n \in Mutexes : s \notin Range(queue[MutexQ(n)])
      BY <3>1, OnOneList
    <3> QED BY <1>8, <1>10, <1>11, <2>3, <3>2
  <2> QED BY <2>1, <2>2, <2>3
<1> QED
  BY <1>3, <1>7, <1>9, <1>12 DEF MInv, MutexesKept

\* do_condition_signal inside the mutex: the first waiter queues for it.
LEMMA SignalForMutexes ==
    ASSUME TypeOK, CInv, MInv, Disciplined, NEW c \in Cores, NEW k \in Conditions,
           do_condition_signal(c, k)
    PROVE  /\ MInv'
           /\ BlockedOn(status, queue) => BlockedOn(status', queue')
<1> DEFINE m == conditions[k].lock_idx
           s == Head(queue[CondQ(k)])
<1>1. /\ UNCHANGED <<pid, process_id, conditions, holds>>
      /\ queue[CondQ(k)] # <<>> => core_running[c] \in holds[m]
  BY DEF do_condition_signal, Disciplined
<1>2. CASE queue[CondQ(k)] = <<>>
  <2>1. UNCHANGED <<status, queue, mlocks>>
    BY <1>2 DEF do_condition_signal
  <2> QED BY <1>1, <2>1, UntouchedStep
<1>3. CASE queue[CondQ(k)] # <<>>
  <2>1. s \in Range(queue[CondQ(k)])
    BY <1>3, CondHead, TypeParts
  <2>2. m \in Mutexes /\ s \notin holds[m]
    BY <2>1 DEF MInv, CondsKept
  <2>3. \A n \in Mutexes : MutexFree(n) \/ MutexHeld(n)
    BY DEF MInv, MutexesKept
  <2>4. MutexHeld(m) /\ mlocks[m].status # "UNLOCKED"
    BY <1>1, <1>3, <2>2, <2>3 DEF MutexFree, MutexHeld
  <2>5. mlocks' = mlocks
    BY <1>3, <2>4 DEF do_condition_signal
  <2>6. /\ \A p \in Slots : status'[p] \in Free <=> status[p] \in Free
        /\ Range(queue'[CondQ(k)]) = Range(queue[CondQ(k)]) \ {s}
        /\ Range(queue'[MutexQ(m)]) = Range(queue[MutexQ(m)]) \cup {s}
        /\ \A Q \in LockQ : Q # CondQ(k) /\ Q # MutexQ(m) => Range(queue'[Q]) = Range(queue[Q])
        /\ BlockedOn(status, queue) => BlockedOn(status', queue')
    BY <1>3, <2>2, <2>4, SignalFrame
  <2> HIDE DEF s
  <2>7. PidsNamed' /\ PidsUnique'
    BY <1>1, <2>6, PidsKept DEF MInv
  <2> m' = m
    BY <1>1
  <2> HIDE DEF m
  <2>8. ASSUME NEW n \in Mutexes, n # m PROVE (MutexFree(n) \/ MutexHeld(n))'
    <3>1. Range(queue'[MutexQ(n)]) = Range(queue[MutexQ(n)])
      BY <2>2, <2>6, <2>8, LockQueueNames
    <3> QED BY <1>1, <2>3, <2>5, <2>6, <3>1, MutexUntouched
  <2>9. MutexHeld(m)'
    BY <1>1, <2>2, <2>4, <2>5, <2>6 DEF MutexHeld
  <2>10. \A l \in Conditions : Range(queue'[CondQ(l)]) \subseteq Range(queue[CondQ(l)])
    BY <2>6, LockQueueNames
  <2>11. CondsKept'
    BY <1>1, <2>10 DEF MInv, CondsKept
  <2> QED BY <2>6, <2>7, <2>8, <2>9, <2>11 DEF MInv, MutexesKept
<1> QED
  BY <1>2, <1>3

\* do_condition_broadcast: everybody queues, but for the first if the mutex
\* is free, who gets it.
LEMMA BroadcastForMutexes ==
    ASSUME TypeOK, CInv, MInv, NEW c \in Cores, NEW k \in Conditions,
           do_condition_broadcast(c, k)
    PROVE  /\ MInv'
           /\ BlockedOn(status, queue) => BlockedOn(status', queue')
<1> DEFINE m == conditions[k].lock_idx
           w == queue[CondQ(k)]
           h == Head(w)
           free == w # <<>> /\ mlocks[m].status = "UNLOCKED"
<1>1. /\ UNCHANGED <<pid, process_id, conditions>>
      /\ free => /\ mlocks' = [mlocks EXCEPT ![m].status = "LOCKED", ![m].owner = pid[h]]
                 /\ holds' = [holds EXCEPT ![m] = @ \cup {h}]
      /\ ~free => UNCHANGED <<mlocks, holds>>
  BY DEF do_condition_broadcast
<1>2. /\ \A Q \in LockQ : queue'[Q] = BroadcastLists(k, m)[Q]
      /\ \A p \in Slots : status'[p] \in Free <=> status[p] \in Free
      /\ (m \in Mutexes \/ w = <<>>) /\ BlockedOn(status, queue) => BlockedOn(status', queue')
  BY BroadcastFrame
<1>3. /\ w \in Seq(Slots) /\ CondQ(k) \in LockQ
      /\ Range(w) = {} <=> w = <<>>
  BY CondHead, TypeParts, LockQueueNames, RangeOfList, ZenonT(60)
<1>4. w # <<>> => m \in Mutexes /\ \A s \in Range(w) : s \notin holds[m]
  BY <1>3 DEF MInv, CondsKept
<1>5. /\ Range(BroadcastLists(k, m)[CondQ(k)]) = {}
      /\ m \in Mutexes =>
           /\ w = <<>> => Range(BroadcastLists(k, m)[MutexQ(m)]) = Range(queue[MutexQ(m)])
           /\ w # <<>> /\ ~free =>
                 Range(BroadcastLists(k, m)[MutexQ(m)]) = Range(queue[MutexQ(m)]) \cup Range(w)
           /\ free => /\ h \in Range(w)
                      /\ Range(BroadcastLists(k, m)[MutexQ(m)])
                            = Range(queue[MutexQ(m)]) \cup (Range(w) \ {h})
  BY BroadcastMoves
<1>6. \A Q \in QueueId : Q # CondQ(k) /\ Q # MutexQ(m) /\ Q # ReadyQ
                            => BroadcastLists(k, m)[Q] = queue[Q]
  BY BroadcastMoves
<1>7. \A s \in Range(w) : /\ s \in Slots /\ status[s] \notin Free
                          /\ \A n \in Mutexes : s \notin Range(queue[MutexQ(n)])
  BY OnOneList
<1> m' = m
  BY <1>1
<1> HIDE DEF m, h, w
<1>8. \A n \in Mutexes : n # m => queue'[MutexQ(n)] = queue[MutexQ(n)]
  BY <1>2, <1>6, LockQueueNames
<1>9. \A l \in Conditions : l # k => queue'[CondQ(l)] = queue[CondQ(l)]
  BY <1>2, <1>6, LockQueueNames
<1>10. /\ Range(queue'[CondQ(k)]) = {}
       /\ m \in Mutexes => queue'[MutexQ(m)] = BroadcastLists(k, m)[MutexQ(m)]
  BY <1>2, <1>3, <1>5, LockQueueNames
<1>11. \A n \in Mutexes : MutexFree(n) \/ MutexHeld(n)
  BY DEF MInv, MutexesKept
<1>12. PidsNamed' /\ PidsUnique'
  BY <1>1, <1>2, PidsKept DEF MInv
<1>13. mlocks \in MlocksType /\ holds \in HoldsType
  BY TypeParts
<1>14. \A n \in Mutexes : n # m => mlocks'[n] = mlocks[n] /\ holds'[n] = holds[n]
  BY <1>1, <1>13 DEF MlocksType, HoldsType
<1>15. ASSUME NEW n \in Mutexes, n # m PROVE (MutexFree(n) \/ MutexHeld(n))'
  BY <1>1, <1>2, <1>8, <1>11, <1>14, <1>15, MutexUntouched
<1>16. ASSUME m \in Mutexes PROVE (MutexFree(m) \/ MutexHeld(m))'
  <2>1. CASE w = <<>>
    <3>1. mlocks'[m] = mlocks[m] /\ holds'[m] = holds[m]
      BY <1>1, <2>1
    <3>2. Range(queue'[MutexQ(m)]) = Range(queue[MutexQ(m)])
      BY <1>5, <1>10, <1>16, <2>1
    <3> QED BY <1>1, <1>2, <1>11, <1>16, <3>1, <3>2, MutexUntouched
  <2>2. CASE w # <<>> /\ ~free
    <3>1. MutexHeld(m)
      BY <1>11, <1>16, <2>2 DEF MutexFree
    <3>2. Range(queue'[MutexQ(m)]) = Range(queue[MutexQ(m)]) \cup Range(w)
      BY <1>5, <1>10, <1>16, <2>2
    <3>3. MutexHeld(m)'
      BY <1>1, <1>2, <1>4, <2>2, <3>1, <3>2 DEF MutexHeld
    <3> QED BY <3>3
  <2>3. CASE free
    <3>1. MutexFree(m)
      BY <1>11, <1>16, <2>3 DEF MutexHeld
    <3>2. mlocks'[m].status = "LOCKED" /\ mlocks'[m].owner = pid[h] /\ holds'[m] = {h}
      BY <1>1, <1>13, <1>16, <2>3, <3>1 DEF MlocksType, HoldsType, MutexFree
    <3>3. h \in Range(w) /\ Range(queue'[MutexQ(m)]) = Range(w) \ {h}
      BY <1>5, <1>10, <1>16, <2>3, <3>1 DEF MutexFree
    <3>4. h \in Slots /\ status'[h] \notin Free
      BY <1>2, <1>7, <3>3
    <3>5. MutexHeld(m)'
      BY <1>1, <3>2, <3>3, <3>4 DEF MutexHeld
    <3> QED BY <3>5
  <2> QED BY <2>1, <2>2, <2>3
<1>17. CondsKept'
  <2> SUFFICES ASSUME NEW l \in Conditions, NEW s \in Range(queue'[CondQ(l)])
               PROVE  conditions'[l].lock_idx \in Mutexes /\ s \notin holds'[conditions'[l].lock_idx]
    BY DEF CondsKept
  <2>1. l # k
    BY <1>10
  <2>2. s \in Range(queue[CondQ(l)])
    BY <1>9, <2>1
  <2>3. /\ conditions'[l].lock_idx = conditions[l].lock_idx
        /\ conditions[l].lock_idx \in Mutexes /\ s \notin holds[conditions[l].lock_idx]
    BY <1>1, <2>2 DEF MInv, CondsKept
  <2>4. free => s # h
    <3>1. s \notin Range(queue[CondQ(k)])
      BY <2>1, <2>2, CondWaiters, LockQueueNames
    <3> QED BY <1>4, <1>5, <3>1 DEF w
  <2>5. \A n \in Mutexes : \A x \in holds'[n] : x \in holds[n] \/ (free /\ x = h)
    BY <1>1, <1>13 DEF HoldsType
  <2> HIDE DEF free
  <2> QED BY <2>3, <2>4, <2>5
<1> QED
  BY <1>2, <1>4, <1>12, <1>15, <1>16, <1>17, SMTT(40) DEF MInv, MutexesKept

\* do_kill releases exactly the mutexes the victim is inside.
LEMMA KillTaskForMutexes ==
    ASSUME TypeOK, CInv, MInv, Disciplined, NEW c \in Cores, NEW v \in Pids, kill_task(c, v)
    PROVE  MInv'
<1> DEFINE t == Min(SlotsOf(v))
           owned == OwnedBy(v)
           W == Range(Successors(queue, owned))
<1>1. LocalKills /\ "kill" \in Workload /\ "thread" \notin Workload
  BY DEF Disciplined, kill_task, Calls
<1>2. /\ t \in Slots /\ pid[t] = v /\ pid' = [pid EXCEPT ![t] = 0] /\ process_id' = process_id
      /\ \A Q \in LockQ : Range(queue'[Q]) = (Range(queue[Q]) \ W) \ {t}
      /\ \A x \in Slots : x # t => (status'[x] \in Free <=> status[x] \in Free)
      /\ mlocks' = ReleasedLocks(queue, owned)
      /\ holds' = ReleasedHolds(queue, owned, {t})
  BY <1>1, KillFrame
<1>3. conditions' = conditions
  BY DEF kill_task
<1>4. /\ pid \in [Slots -> Int] /\ process_id \in Nat /\ holds \in HoldsType
  BY TypeParts
<1>5. v \in Int
  BY SchedAssumption DEF Pids
<1>6. \A m \in Mutexes : m \in owned <=> mlocks[m].owner = v
  BY DEF OwnedBy
<1>7. status'[t] \in Free
  <2>1. PidsLive(status', pid')
    BY <1>1, KillTaskAgrees DEF CInv
  <2>2. pid'[t] = 0
    BY <1>2, <1>4
  <2> QED BY <1>2, <2>1, <2>2 DEF PidsLive
<1> HIDE DEF t, owned, W
<1>8. \A x \in Slots : x # t => pid'[x] = pid[x]
  BY <1>2, <1>4
<1>9. pid'[t] = 0
  BY <1>2, <1>4
<1>10. PidsNamed'
  <2>1. process_id >= 2 /\ 0 < process_id
    BY <1>4 DEF MInv, PidsNamed
  <2>2. ASSUME NEW x \in Slots
        PROVE  pid'[x] < process_id' /\ (status'[x] \notin Free => pid'[x] >= 1)
    <3>1. CASE x = t
      BY <1>2, <1>7, <1>9, <2>1, <3>1
    <3>2. CASE x # t
      BY <1>2, <1>8, <3>2 DEF MInv, PidsNamed
    <3> QED BY <3>1, <3>2
  <2> QED BY <1>2, <2>1, <2>2 DEF PidsNamed
<1>11. PidsUnique'
  <2> SUFFICES ASSUME NEW p \in Slots, NEW r \in Slots, pid'[p] = pid'[r], pid'[p] >= 1
               PROVE  p = r
    BY DEF PidsUnique
  <2>1. p # t /\ r # t
    BY <1>9
  <2> QED BY <1>1, <1>8, <2>1 DEF MInv, PidsUnique
<1>12. /\ \A m \in Mutexes : Range(queue'[MutexQ(m)]) = (Range(queue[MutexQ(m)]) \ W) \ {t}
       /\ \A k \in Conditions : Range(queue'[CondQ(k)]) \subseteq Range(queue[CondQ(k)])
  BY <1>2, LockQueueNames
<1>13. MutexesKept'
  <2> SUFFICES ASSUME NEW m \in Mutexes PROVE (MutexFree(m) \/ MutexHeld(m))'
    BY DEF MutexesKept
  <2>1. MutexFree(m) \/ MutexHeld(m)
    BY DEF MInv, MutexesKept
  <2>2. CASE m \notin owned
    <3>1. mlocks'[m] = mlocks[m] /\ holds'[m] = holds[m]
      BY <1>2, <2>2, Released
    <3>2. t \notin holds[m]
      BY <1>2, <1>6, <2>1, <2>2 DEF MutexFree, MutexHeld
    <3> QED BY <1>2, <1>8, <1>12, <2>1, <3>1, <3>2, MutexUntouched
  <2>3. CASE m \in owned /\ MutexFree(m)
    <3>1. queue[MutexQ(m)] = <<>>
      BY <2>3, TypeParts, QueueNames, RangeOfList, ZenonT(60) DEF MutexFree, QueuesType
    <3>2. mlocks'[m].status = "UNLOCKED" /\ holds'[m] = holds[m] \ {t}
      BY <1>2, <2>3, <3>1, Released
    <3>3. MutexFree(m)'
      BY <1>12, <2>3, <3>2 DEF MutexFree
    <3> QED BY <3>3
  <2>4. CASE m \in owned /\ MutexHeld(m)
    <3>1. PICK p \in Slots : /\ holds[m] = {p} /\ mlocks[m].owner = pid[p]
                             /\ p \notin Range(queue[MutexQ(m)])
                             /\ status[p] \notin Free
      BY <2>4 DEF MutexHeld
    <3>2. p = t
      <4>1. pid[p] = v /\ pid[p] >= 1
        BY <1>6, <2>4, <3>1 DEF MInv, PidsNamed
      <4> QED BY <1>1, <1>2, <3>1, <4>1 DEF MInv, PidsUnique
    <3>3. holds[m] \subseteq {t}
      BY <3>1, <3>2
    <3>4. \A x \in Range(queue[MutexQ(m)]) : status'[x] \notin Free
      BY <1>2, <3>1, <3>2, QueuedLives, QueueNames
    <3>5. Range(queue'[MutexQ(m)]) \subseteq Range(queue[MutexQ(m)]) \ Range(Successors(queue, owned))
      BY <1>12 DEF W
    <3> QED BY <1>2, <2>4, <3>3, <3>4, <3>5, HandOver
  <2> QED BY <2>1, <2>2, <2>3, <2>4
<1>14. \A m \in Mutexes : \A x \in holds'[m] : x \in holds[m] \/ x \in Range(queue[MutexQ(m)])
  BY <1>2, Released
<1>15. CondsKept'
  BY <1>3, <1>12, <1>14, CondsUntouched DEF MInv
<1> QED
  BY <1>10, <1>11, <1>13, <1>15 DEF MInv

\* do_kill keeps the mutexes whatever pid it is given.
LEMMA KillForMutexes ==
    ASSUME TypeOK, CInv, MInv, Disciplined, NEW c \in Cores, NEW v \in Pids, do_kill(c, v)
    PROVE  MInv'
<1>1. CASE kill_task(c, v)
  BY <1>1, KillTaskForMutexes
<1>2. CASE kill_unused(c, v)
  <2>1. UNCHANGED <<status, pid, queue, process_id, mlocks, holds, conditions>>
    BY <1>2 DEF kill_unused, lockVars
  <2> QED BY <2>1, UntouchedStep
<1> QED
  BY <1>1, <1>2 DEF do_kill

\* The key of a mutex is written only by do_mutex_lock_init.
LEMMA KeysKept ==
    ASSUME TypeOK, NEW c \in Cores, NEW m \in Mutexes,
           \/ OtherCall(c) /\ ~\E key \in Keys : do_mutex_lock_init(c, key)
           \/ \E g \in Goals : do_barrier_init(c, g)
           \/ \E b \in Barriers : do_barrier_wait(c, b)
           \/ \E b \in Barriers : do_barrier_destroy(c, b)
    PROVE  mlocks'[m].key = mlocks[m].key
<1>1. mlocks \in MlocksType
  BY TypeParts
<1>2. \A n, v : [mlocks EXCEPT ![n].status = "LOCKED", ![n].owner = v][m].key = mlocks[m].key
  BY <1>1 DEF MlocksType
<1>3. \A q, ms : ReleasedLocks(q, ms)[m].key = mlocks[m].key
  <2>1. mlocks[m] \in [status : {"UNLOCKED", "LOCKED"}, owner : Int, key : Nat]
    BY <1>1 DEF MlocksType
  <2> QED BY <2>1 DEF ReleasedLocks
<1>4. CASE \/ timer_step(c) \/ exec_step(c) \/ thread_step(c) \/ exit_step(c)
           \/ sleep_step(c) \/ waitpid_step(c) \/ taskset_step(c)
  BY <1>4 DEF timer_step, exec_step, thread_step, exit_step, sleep_step, waitpid_step,
              taskset_step, lockVars
<1>5. CASE \/ \E v \in Pids : do_kill(c, v)
           \/ \E n \in Mutexes : do_mutex_lock_release(c, n)
           \/ \E k \in Conditions, n \in Mutexes : do_condition_wait(c, k, n)
  <2>1. mlocks' = mlocks \/ \E q, ms : mlocks' = ReleasedLocks(q, ms)
    BY <1>5 DEF do_kill, kill_task, kill_unused, lockVars, do_mutex_lock_release, do_condition_wait
  <2> QED BY <1>3, <2>1
<1>6. CASE \/ \E n \in Mutexes : do_mutex_lock_acquire(c, n)
           \/ \E k \in Conditions : do_condition_signal(c, k)
           \/ \E k \in Conditions : do_condition_broadcast(c, k)
  <2>1. mlocks' = mlocks \/ \E n, v : mlocks' = [mlocks EXCEPT ![n].status = "LOCKED", ![n].owner = v]
    BY <1>6, ZenonT(60) DEF do_mutex_lock_acquire, do_condition_signal, do_condition_broadcast
  <2> QED BY <1>2, <2>1, ZenonT(60)
<1>7. CASE \/ do_condition_init(c) \/ \E k \in Conditions : do_condition_destroy(c, k)
           \/ \E g \in Goals : do_barrier_init(c, g)
           \/ \E b \in Barriers : do_barrier_wait(c, b)
           \/ \E b \in Barriers : do_barrier_destroy(c, b)
  BY <1>7 DEF do_condition_init, do_condition_destroy, do_barrier_init, do_barrier_wait,
              do_barrier_destroy
<1> QED
  BY <1>4, <1>5, <1>6, <1>7 DEF OtherCall

\* The invariant of the mutexes holds at boot.
LEMMA MutexesInit == KInit => MInv
<1> SUFFICES ASSUME KInit PROVE MInv
  OBVIOUS
<1>1. Range(<<>>) = {}
  BY DEF Range
<1>2. \A m \in Mutexes : MutexFree(m)
  BY <1>1, LockQueueNames DEF KInit, Init, LocksInit, MutexFree
<1>3. \A k \in Conditions : Range(queue[CondQ(k)]) = {}
  BY <1>1, LockQueueNames DEF KInit, Init
<1>4. /\ process_id = 2
      /\ \A p \in Slots : /\ pid[p] = IF p = 0 THEN 1 ELSE -1
                          /\ status[p] = IF p = 0 THEN "READY" ELSE "AVAILABLE"
  BY DEF KInit, Init
<1>5. PidsNamed /\ PidsUnique
  BY <1>4 DEF PidsNamed, PidsUnique, Free
<1> QED
  BY <1>2, <1>3, <1>5 DEF MInv, MutexesKept, CondsKept

\* Every step keeps it.
LEMMA MutexesStep ==
    ASSUME TypeOK, CInv, MInv, Disciplined, [Next]_vars
    PROVE  MInv'
<1>1. CASE UNCHANGED vars \/ tick_step \/ Halted
  <2>1. UNCHANGED <<status, queue, pid, process_id, mlocks, holds, conditions>>
    BY <1>1 DEF tick_step, Tick, Halted, vars, schedVars, lockVars
  <2> QED BY <2>1, UntouchedStep
<1> QED
  BY <1>1, QuietForMutexes, ExitForMutexes, NewTaskForMutexes, KillForMutexes,
     InitForMutexes, AcquireForMutexes, ReleaseForMutexes, CondWaitForMutexes,
     SignalForMutexes, BroadcastForMutexes DEF Next

\* Nobody is lost unless a signal given outside the mutex unlinks a waiter.
NoneLost == LocalKills /\ ("cond" \notin Workload \/ Disciplined)

\* Every step keeps BlockedOn.
LEMMA BlockedStep ==
    ASSUME TypeOK, CInv, NoneLost, Disciplined => MInv, BlockedOn(status, queue), [Next]_vars
    PROVE  BlockedOn(status', queue')
<1>1. CASE UNCHANGED vars \/ tick_step \/ Halted
  <2>1. UNCHANGED <<status, queue>>
    BY <1>1 DEF tick_step, Tick, Halted, vars, schedVars
  <2> QED BY <2>1
<1>2. ASSUME NEW c \in Cores,
             \/ \E v \in Pids, newmask \in Masks : do_taskset_chg(c, v, newmask)
             \/ \E key \in Keys : do_mutex_lock_init(c, key)
             \/ \E g \in Goals : do_barrier_init(c, g)
             \/ \E b \in Barriers : do_barrier_destroy(c, b)
             \/ do_condition_init(c)
             \/ \E k \in Conditions : do_condition_destroy(c, k)
      PROVE  BlockedOn(status', queue')
  <2>1. UNCHANGED <<status, queue>>
    BY <1>2 DEF do_taskset_chg, do_mutex_lock_init, do_barrier_init, do_barrier_destroy,
                do_condition_init, do_condition_destroy, schedVars
  <2> QED BY <2>1
<1>3. ASSUME NEW c \in Cores, timer_step(c) \/ sleep_step(c) \/ waitpid_step(c)
      PROVE  BlockedOn(status', queue')
  BY <1>3, WaitFrame DEF Frame
<1>4. ASSUME NEW c \in Cores, exec_step(c) \/ thread_step(c) PROVE BlockedOn(status', queue')
  <2>1. \E v : new_task(c, v)
    BY <1>4 DEF exec_step, thread_step, do_exec, do_thread_create
  <2> QED BY <2>1, NewTaskFrame
<1>5. ASSUME NEW c \in Cores, exit_step(c) PROVE BlockedOn(status', queue')
  BY <1>5, ExitFrame DEF exit_step
<1>6. ASSUME NEW c \in Cores, NEW v \in Pids, do_kill(c, v) PROVE BlockedOn(status', queue')
  <2>1. CASE kill_unused(c, v)
    BY <2>1 DEF kill_unused, BlockedOn, On
  <2> QED BY <1>6, <2>1, KillFrame DEF NoneLost, do_kill
<1>7. ASSUME NEW c \in Cores, NEW m \in Mutexes,
             do_mutex_lock_acquire(c, m) \/ do_mutex_lock_release(c, m)
      PROVE  BlockedOn(status', queue')
  BY <1>7, AcquireFrame, ReleaseFrame
<1>8. ASSUME NEW c \in Cores, NEW b \in Barriers, do_barrier_wait(c, b)
      PROVE  BlockedOn(status', queue')
  BY <1>8, BarrierWaitFrame
<1>9. ASSUME NEW c \in Cores, NEW k \in Conditions, NEW m \in Mutexes, do_condition_wait(c, k, m)
      PROVE  BlockedOn(status', queue')
  BY <1>9, CondWaitFrame
<1>10. ASSUME NEW c \in Cores, NEW k \in Conditions,
              do_condition_signal(c, k) \/ do_condition_broadcast(c, k)
       PROVE  BlockedOn(status', queue')
  <2>1. Disciplined
    BY <1>10 DEF do_condition_signal, do_condition_broadcast, Calls, NoneLost
  <2> QED BY <1>10, <2>1, SignalForMutexes, BroadcastForMutexes
<1> QED
  BY <1>1, <1>2, <1>3, <1>4, <1>5, <1>6, <1>7, <1>8, <1>9, <1>10 DEF Next, taskset_step

LocksHold ==
    /\ KInv
    /\ Disciplined => MInv
    /\ NoneLost => BlockedOn(status, queue)

\* The three invariants hold in every state.
LEMMA LocksInvariant == Spec => []LocksHold
<1>1. KInit => LocksHold
  <2> SUFFICES ASSUME KInit PROVE LocksHold
    OBVIOUS
  <2>1. BlockedOn(status, queue)
    BY DEF KInit, Init, BlockedOn
  <2> QED BY <2>1, TypeInit, CInit, MutexesInit DEF KInv, LocksHold
<1>2. LocksHold /\ [Next]_vars => LocksHold'
  <2> SUFFICES ASSUME LocksHold, [Next]_vars PROVE LocksHold'
    OBVIOUS
  <2>1. TypeOK'
    BY TypeStep DEF KInv, LocksHold
  <2>2. LocalKills => CInv'
    BY CStep DEF KInv, LocksHold
  <2>3. Disciplined => MInv'
    BY MutexesStep DEF KInv, LocksHold, Disciplined
  <2>4. NoneLost => BlockedOn(status', queue')
    BY BlockedStep DEF KInv, LocksHold, NoneLost
  <2> QED BY <2>1, <2>2, <2>3, <2>4 DEF KInv, LocalKills, LocksHold, NoneLost, Disciplined
<1> QED
  BY <1>1, <1>2, PTL DEF Spec

\* At most one task is inside a mutex, whatever mixture of acquire, release,
\* condition wait, signal, broadcast and do_kill the programs use.
THEOREM MutexesExclude == Spec => [](Disciplined => MutexExclusion)
<1>1. LocksHold => (Disciplined => MutexExclusion)
  <2> SUFFICES ASSUME MInv, NEW m \in Mutexes PROVE Cardinality(holds[m]) <= 1
    BY DEF LocksHold, MutexExclusion
  <2>1. holds[m] = {} \/ \E p : holds[m] = {p}
    BY DEF MInv, MutexesKept, MutexFree, MutexHeld
  <2>2. Cardinality({}) = 0 /\ \A p : Cardinality({p}) = 1
    BY FS_EmptySet, FS_Singleton
  <2>3. Cardinality(holds[m]) = 0 \/ Cardinality(holds[m]) = 1
    BY <2>1, <2>2
  <2> QED BY <2>3
<1> QED
  BY <1>1, LocksInvariant, PTL

\* A mutex that is LOCKED or has waiters has a live task inside that will
\* hand it on; do_kill of that task hands it on through release_pcb_lock.
THEOREM MutexesNotOrphaned == Spec => [](Disciplined => NoOrphanedMutex)
<1>1. LocksHold => (Disciplined => NoOrphanedMutex)
  <2> SUFFICES ASSUME TypeOK, MInv, NEW m \in Mutexes,
                      mlocks[m].status = "LOCKED" \/ queue[MutexQ(m)] # <<>>
               PROVE  \E p \in holds[m] : status[p] \notin Free
    BY DEF LocksHold, KInv, NoOrphanedMutex
  <2>1. queue[MutexQ(m)] \in Seq(Slots)
    BY TypeParts, QueueNames DEF QueuesType
  <2>2. MutexHeld(m)
    BY <2>1, RangeOfList, SMTT(40) DEF MInv, MutexesKept, MutexFree
  <2> QED BY <2>2 DEF MutexHeld
<1> QED
  BY <1>1, LocksInvariant, PTL

\* owner is the pid of the task inside the mutex, and -1 only when nobody is
\* inside or queued: release_pcb_lock and do_mutex_lock_init rely on it.
THEOREM OwnersHold == Spec => [](Disciplined => OwnerIsHolder)
<1>1. LocksHold => (Disciplined => OwnerIsHolder)
  <2> SUFFICES ASSUME TypeOK, MInv, NEW m \in Mutexes
               PROVE  /\ \A p \in holds[m] : mlocks[m].owner = pid[p]
                      /\ mlocks[m].owner = NoOwner => holds[m] = {} /\ queue[MutexQ(m)] = <<>>
    BY DEF LocksHold, KInv, OwnerIsHolder
  <2>1. queue[MutexQ(m)] \in Seq(Slots)
    BY TypeParts, QueueNames DEF QueuesType
  <2>2. CASE MutexFree(m)
    BY <2>1, <2>2, RangeOfList DEF MutexFree
  <2>3. CASE MutexHeld(m)
    <3>1. \A p \in Slots : status[p] \notin Free => pid[p] >= 1
      BY DEF MInv, PidsNamed
    <3>2. ~(NoOwner >= 1)
      BY DEF NoOwner
    <3> QED BY <2>3, <3>1, <3>2 DEF MutexHeld
  <2> QED BY <2>2, <2>3 DEF MInv, MutexesKept
<1> QED
  BY <1>1, LocksInvariant, PTL

\* do_mutex_lock_init never gives a new key to a mutex in use.
THEOREM MutexesRekeyedWhenFree ==
    ASSUME Disciplined
    PROVE  Spec => RekeyedOnlyWhenFree
<1> DEFINE Rekeys == \A m \in Mutexes : mlocks'[m].key # mlocks[m].key =>
                        holds[m] = {} /\ queue[MutexQ(m)] = <<>> /\ mlocks[m].status = "UNLOCKED"
<1>1. LocksHold /\ [Next]_vars => [Rekeys]_vars
  <2> SUFFICES ASSUME LocksHold, Next, NEW m \in Mutexes, mlocks'[m].key # mlocks[m].key
               PROVE  holds[m] = {} /\ queue[MutexQ(m)] = <<>> /\ mlocks[m].status = "UNLOCKED"
    OBVIOUS
  <2>1. TypeOK /\ CInv /\ MInv
    BY DEF LocksHold, KInv, Disciplined
  <2>2. ~tick_step /\ ~Halted
    BY DEF tick_step, Halted, vars, lockVars
  <2>3. PICK c \in Cores : \E key \in Keys : do_mutex_lock_init(c, key)
    BY <2>1, <2>2, KeysKept DEF Next, OtherCall
  <2>4. MutexFree(m)
    BY <2>1, <2>3, InitForMutexes
  <2>5. queue[MutexQ(m)] \in Seq(Slots)
    BY <2>1, TypeParts, QueueNames DEF QueuesType
  <2> QED BY <2>4, <2>5, RangeOfList DEF MutexFree
<1> QED
  BY <1>1, LocksInvariant, PTL DEF Spec, RekeyedOnlyWhenFree

\* A READY task is in the ready queue and a BLOCKED one on the list it will
\* be woken from, so no call of the kernel loses a task.
THEOREM NobodyIsForgotten == Spec => [](NoneLost => NobodyForgotten)
<1>1. LocksHold => (NoneLost => NobodyForgotten)
  <2> SUFFICES ASSUME CInv, BlockedOn(status, queue) PROVE NobodyForgotten
    BY DEF LocksHold, KInv, NoneLost
  <2>1. \A p \in Slots : status[p] = "READY" => p \in Range(queue[ReadyQ])
    BY DEF CInv, Agree, Tasks
  <2>2. \A p \in Slots : status[p] = "BLOCKED" => Queued(p)
    BY DEF BlockedOn, On, Queued
  <2> QED BY <2>1, <2>2 DEF NobodyForgotten
<1> QED
  BY <1>1, LocksInvariant, PTL

\* All the kernel assumes of its PCBs whenever it is entered.
THEOREM TasksAreConsistent == Spec => [](NoneLost => TasksConsistent)
<1>1. /\ LocalKills => OneQueue
      /\ LocalKills => RunningExactlyOnce
      /\ NoneLost => NobodyForgotten
      => (NoneLost => TasksConsistent)
  BY DEF TasksConsistent, NoneLost
<1> QED
  BY <1>1, PcbsLinkedOnce, PcbsRunOnce, NobodyIsForgotten, PTL
=============================================================================
