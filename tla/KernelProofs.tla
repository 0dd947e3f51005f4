---------------------------- MODULE KernelProofs ----------------------------
(***************************************************************************)
(* Proofs about the whole task side of the kernel, for every size of its   *)
(* tables, any number of cores and every workload.                         *)
(*                                                                         *)
(* First type correctness.  Then: as long as nobody kills a task that is   *)
(* running on another core, the lists, the statuses and the cores agree    *)
(* whenever the kernel is entered, whatever else the programs do, threads  *)
(* and misused locks included.                                             *)
(*                                                                         *)
(* The inductive invariant CInv is Agree, which says more than the         *)
(* properties it is for (a queued task is READY or BLOCKED; nobody is on   *)
(* the wait_list of a task that is gone), with two facts about pids: a     *)
(* task that is not gone has a pid other than 0, because do_scheduler      *)
(* takes pid 0 to mean "do not requeue", and process_id stays positive.    *)
(***************************************************************************)
EXTENDS Kernel, SchedProofs

MlocksType == [Mutexes -> [status : {"UNLOCKED", "LOCKED"}, owner : Int, key : Nat]]
HoldsType == [Mutexes -> SUBSET Slots]

-----------------------------------------------------------------------------
(* Helpers *)

\* The array scans of do_kill, do_waitpid and do_taskset_chg find a PCB with
\* that pid, those of do_exec and do_thread_create a free one.
LEMMA Scans ==
    /\ \A v : SlotsOf(v) # {} => Min(SlotsOf(v)) \in Slots /\ pid[Min(SlotsOf(v))] = v
    /\ FreeSlots # {} => Min(FreeSlots) \in Slots /\ status[Min(FreeSlots)] \in Free
<1>1. Slots \subseteq Nat
  BY SchedAssumption DEF Slots
<1>2. ASSUME NEW v, SlotsOf(v) # {}
      PROVE  Min(SlotsOf(v)) \in Slots /\ pid[Min(SlotsOf(v))] = v
  <2>1. SlotsOf(v) \in SUBSET Nat
    BY <1>1 DEF SlotsOf
  <2>2. Min(SlotsOf(v)) \in SlotsOf(v)
    BY <1>2, <2>1, MinIsLeast
  <2> QED BY <2>2 DEF SlotsOf
<1>3. ASSUME FreeSlots # {}
      PROVE  Min(FreeSlots) \in Slots /\ status[Min(FreeSlots)] \in Free
  <2>1. FreeSlots \in SUBSET Nat
    BY <1>1 DEF FreeSlots
  <2>2. Min(FreeSlots) \in FreeSlots
    BY <1>3, <2>1, MinIsLeast
  <2> QED BY <2>2 DEF FreeSlots
<1> QED
  BY <1>2, <1>3

\* The tasks that a release of the mutexes ms unblocks are queued for them,
\* and none is unblocked twice.
LEMMA SuccessorsQueued ==
    ASSUME NEW q \in QueuesType, NEW ms
    PROVE  /\ Successors(q, ms) \in Seq(Slots)
           /\ \A p \in Range(Successors(q, ms)) :
                 \E m \in Mutexes : m \in ms /\ p \in Range(q[MutexQ(m)])
           /\ Lists(q) => IsInjective(Successors(q, ms))
<1> DEFINE all == [i \in 1 .. LOCK_NUM |-> i - 1]
           I == {i \in DOMAIN all : all[i] \in ms /\ q[MutexQ(all[i])] # <<>>}
           con == SubList(all, I)
           r == Successors(q, ms)
<1>1. LOCK_NUM \in Nat
  BY SchedAssumption
<1>2. all \in Seq(Mutexes) /\ IsInjective(all)
  <2>1. all \in [1 .. LOCK_NUM -> Mutexes]
    BY <1>1 DEF Mutexes
  <2>2. IsInjective(all)
    BY <1>1 DEF IsInjective
  <2> HIDE DEF all
  <2> QED BY <1>1, <2>1, <2>2, SeqDef
<1>3. I \in SUBSET DOMAIN all
  OBVIOUS
<1>4. \A i \in I : all[i] \in ms /\ q[MutexQ(all[i])] # <<>>
  OBVIOUS
<1>5. r = [i \in DOMAIN con |-> Head(q[MutexQ(con[i])])]
  BY DEF Successors
<1> HIDE DEF all, I
<1>6. con \in Seq(Mutexes) /\ Range(con) = {all[i] : i \in I} /\ IsInjective(con)
  BY <1>2, <1>3, SubListProperties
<1> HIDE DEF con, r
<1>7. \A i \in DOMAIN con : con[i] \in Mutexes /\ con[i] \in ms /\ q[MutexQ(con[i])] # <<>>
  <2> SUFFICES ASSUME NEW i \in DOMAIN con
               PROVE  con[i] \in Mutexes /\ con[i] \in ms /\ q[MutexQ(con[i])] # <<>>
    OBVIOUS
  <2>1. con[i] \in Range(con)
    BY DEF Range
  <2>2. con[i] \in Mutexes
    BY <1>6, <2>1, RangeOfList
  <2>3. PICK j \in I : con[i] = all[j]
    BY <1>6, <2>1
  <2> QED BY <1>4, <2>2, <2>3
<1>8. \A m \in Mutexes : MutexQ(m) \in QueueId /\ q[MutexQ(m)] \in Seq(Slots)
  BY QueueNames DEF QueuesType
<1>9. ASSUME NEW i \in DOMAIN con
      PROVE  r[i] \in Range(q[MutexQ(con[i])]) /\ r[i] \in Slots
  <2>1. q[MutexQ(con[i])] \in Seq(Slots) /\ q[MutexQ(con[i])] # <<>>
    BY <1>7, <1>8
  <2>2. r[i] \in Range(q[MutexQ(con[i])])
    BY <1>5, <2>1, HeadTailNodes
  <2> QED BY <2>1, <2>2, RangeOfList
<1>10. r \in Seq(Slots)
  <2>1. DOMAIN con = 1 .. Len(con) /\ Len(con) \in Nat
    BY <1>6, LenProperties
  <2>2. r \in [1 .. Len(con) -> Slots]
    BY <1>5, <1>9, <2>1
  <2> QED BY <2>1, <2>2, SeqDef
<1>11. DOMAIN r = DOMAIN con
  BY <1>5
<1>12. \A p \in Range(r) : \E m \in Mutexes : m \in ms /\ p \in Range(q[MutexQ(m)])
  BY <1>7, <1>9, <1>11 DEF Range
<1>13. ASSUME Lists(q) PROVE IsInjective(r)
  <2> SUFFICES ASSUME NEW i \in DOMAIN con, NEW j \in DOMAIN con, r[i] = r[j]
               PROVE  i = j
    BY <1>11 DEF IsInjective
  <2>1. MutexQ(con[i]) = MutexQ(con[j])
    BY <1>7, <1>8, <1>9, <1>13 DEF Lists
  <2>2. con[i] = con[j]
    BY <2>1 DEF MutexQ
  <2> QED BY <1>6, <2>2 DEF IsInjective
<1> QED
  BY <1>10, <1>12, <1>13 DEF r

\* What a release does to mlocks and holds is typed.
LEMMA ReleasedTypes ==
    ASSUME NEW q \in QueuesType, NEW ms, NEW leave,
           mlocks \in MlocksType, holds \in HoldsType, pid' \in [Slots -> Int]
    PROVE  ReleasedLocks(q, ms) \in MlocksType /\ ReleasedHolds(q, ms, leave) \in HoldsType
<1>1. \A m \in Mutexes : q[MutexQ(m)] \in Seq(Slots)
  BY QueueNames DEF QueuesType
<1>2. \A m \in Mutexes : q[MutexQ(m)] # <<>> => Head(q[MutexQ(m)]) \in Slots
  BY <1>1, HeadTailNodes, RangeOfList
<1>3. ReleasedLocks(q, ms) \in MlocksType
  <2>1. ASSUME NEW m \in Mutexes
        PROVE  ReleasedLocks(q, ms)[m] \in [status : {"UNLOCKED", "LOCKED"}, owner : Int, key : Nat]
    <3>1. mlocks[m] \in [status : {"UNLOCKED", "LOCKED"}, owner : Int, key : Nat]
      BY DEF MlocksType
    <3>2. q[MutexQ(m)] # <<>> => pid'[Head(q[MutexQ(m)])] \in Int
      BY <1>2
    <3>3. NoOwner \in Int
      BY DEF NoOwner
    <3> QED BY <3>1, <3>2, <3>3 DEF ReleasedLocks
  <2> QED BY <2>1 DEF ReleasedLocks, MlocksType
<1>4. ReleasedHolds(q, ms, leave) \in HoldsType
  BY <1>2 DEF ReleasedHolds, HoldsType
<1> QED
  BY <1>3, <1>4

-----------------------------------------------------------------------------
(* Types *)

\* TypeOK in terms of the types of the lemmas.
LEMMA TypeParts ==
    TypeOK <=>
        /\ status \in StatusType /\ queue \in QueuesType /\ core_running \in CoresType
        /\ pid \in [Slots -> Int] /\ mask \in [Slots -> SUBSET Cores]
        /\ wakeup_time \in [Slots -> Nat]
        /\ process_id \in Nat /\ time \in Nat /\ halt \in Halts
        /\ mlocks \in MlocksType /\ holds \in HoldsType
        /\ barriers \in [Barriers -> [used : BOOLEAN, num : Int]]
        /\ conditions \in [Conditions -> [valid : BOOLEAN, lock_idx : Mutexes \cup {NoLock}]]
        /\ goal \in [Barriers -> Int]
BY DEF TypeOK, StatusType, QueuesType, CoresType, MlocksType, HoldsType

\* Blocking the running task and calling do_scheduler is typed.
LEMMA BlockTypes ==
    ASSUME TypeOK, NEW c \in Cores, core_running[c] # Pid0, NEW Q \in QueueId,
           do_scheduler(c, set_status(status, {core_running[c]}, "BLOCKED"),
                           add_queue(queue, Q, core_running[c]))
    PROVE  status' \in StatusType /\ queue' \in QueuesType /\ core_running' \in CoresType
<1>1. status \in StatusType /\ queue \in QueuesType /\ core_running \in CoresType
  BY TypeParts
<1>2. core_running[c] \in Slots
  BY <1>1 DEF CoresType
<1>3. set_status(status, {core_running[c]}, "BLOCKED") \in StatusType
  BY <1>1, SetStatus DEF Statuses
<1>4. add_queue(queue, Q, core_running[c]) \in QueuesType
  BY <1>1, <1>2, AddQueue
<1> QED
  BY <1>1, <1>3, <1>4, SchedulerTypes

\* The process calls are typed.
LEMMA SchedCallTypes ==
    ASSUME TypeOK, NEW c \in Cores, UNCHANGED lockVars,
           \/ handle_irq_timer(c) \/ do_exec(c) \/ do_thread_create(c) \/ do_exit(c)
           \/ \E d \in Nat : do_sleep(c, d)
           \/ \E v \in Pids : do_waitpid(c, v)
           \/ \E v \in Pids, newmask \in Masks : do_taskset_chg(c, v, newmask)
    PROVE  TypeOK'
<1>1. /\ status \in StatusType /\ queue \in QueuesType /\ core_running \in CoresType
      /\ pid \in [Slots -> Int] /\ mask \in [Slots -> SUBSET Cores]
      /\ wakeup_time \in [Slots -> Nat]
      /\ process_id \in Nat /\ time \in Nat /\ halt \in Halts
  BY TypeParts
<1>2. ASSUME /\ status' \in StatusType /\ queue' \in QueuesType /\ core_running' \in CoresType
             /\ pid' \in [Slots -> Int] /\ mask' \in [Slots -> SUBSET Cores]
             /\ wakeup_time' \in [Slots -> Nat]
             /\ process_id' \in Nat /\ time' \in Nat /\ halt' \in Halts
      PROVE  TypeOK'
  <2>1. /\ mlocks' \in MlocksType /\ holds' \in HoldsType
        /\ barriers' \in [Barriers -> [used : BOOLEAN, num : Int]]
        /\ conditions' \in [Conditions -> [valid : BOOLEAN, lock_idx : Mutexes \cup {NoLock}]]
        /\ goal' \in [Barriers -> Int]
    BY TypeParts DEF lockVars
  <2> QED
    BY <1>2, <2>1 DEF TypeOK, StatusType, QueuesType, CoresType, MlocksType, HoldsType
<1>3. CASE handle_irq_timer(c)
  <2>1. status' \in StatusType /\ queue' \in QueuesType /\ core_running' \in CoresType
    BY <1>1, <1>3, SchedulerTypes DEF handle_irq_timer
  <2> QED BY <1>1, <1>2, <1>3, <2>1 DEF handle_irq_timer
<1>4. ASSUME NEW d \in Nat, do_sleep(c, d) PROVE TypeOK'
  <2>1. core_running[c] # Pid0 /\ core_running[c] \in Slots
    BY <1>1, <1>4 DEF do_sleep, Calls, CoresType
  <2>2. status' \in StatusType /\ queue' \in QueuesType /\ core_running' \in CoresType
    BY <1>4, <2>1, BlockTypes, QueueNames DEF do_sleep
  <2>3. wakeup_time' \in [Slots -> Nat]
    BY <1>1, <1>4, <2>1 DEF do_sleep
  <2> QED BY <1>1, <1>2, <1>4, <2>2, <2>3 DEF do_sleep
<1>5. ASSUME NEW v \in Int, new_task(c, v), core_running[c] # Pid0
      PROVE  /\ status' \in StatusType /\ queue' \in QueuesType /\ pid' \in [Slots -> Int]
             /\ mask' \in [Slots -> SUBSET Cores] /\ wakeup_time' \in [Slots -> Nat]
             /\ halt' \in Halts
  <2>1. CASE FreeSlots = {}
    BY <1>1, <1>5, <2>1 DEF new_task, Halts
  <2>2. CASE FreeSlots # {}
    <3> DEFINE i == Min(FreeSlots)
               e == [queue EXCEPT ![WaitQ(i)] = <<>>]
    <3>1. i \in Slots
      BY <2>2, Scans
    <3>2. /\ status' = [status EXCEPT ![i] = "READY"]
          /\ pid' = [pid EXCEPT ![i] = v]
          /\ mask' = [mask EXCEPT ![i] = mask[core_running[c]]]
          /\ wakeup_time' = [wakeup_time EXCEPT ![i] = 0]
          /\ queue' = add_queue(e, ReadyQ, i)
          /\ halt' = halt
      BY <1>5, <2>2 DEF new_task
    <3> HIDE DEF i
    <3>3. core_running[c] \in Slots
      BY <1>1, <1>5 DEF CoresType
    <3>4. e \in QueuesType
      BY <1>1, EmptySeq DEF QueuesType
    <3>5. queue' \in QueuesType
      <4> HIDE DEF e
      <4> QED BY <3>1, <3>2, <3>4, AddQueue, QueueNames
    <3> QED BY <1>1, <3>1, <3>2, <3>3, <3>5 DEF StatusType, Statuses
  <2> QED BY <2>1, <2>2
<1>6. CASE do_exec(c)
  BY <1>1, <1>2, <1>5, <1>6 DEF do_exec, Calls
<1>7. CASE do_thread_create(c)
  <2>1. core_running[c] # Pid0 /\ pid[core_running[c]] \in Int
    BY <1>1, <1>7 DEF do_thread_create, Calls, CoresType
  <2> QED BY <1>1, <1>2, <1>5, <1>7, <2>1 DEF do_thread_create
<1>8. CASE do_exit(c)
  <2> DEFINE p == core_running[c]
             w == queue[WaitQ(p)]
             st == set_status(set_status(status, Range(w), "READY"), {p}, "EXITED")
             q == del_queue(do_unblock(queue, w), {p})
  <2>1. do_scheduler(c, st, q) /\ p # Pid0
    BY <1>8 DEF do_exit, Calls
  <2>2. p \in Slots /\ w \in Seq(Slots)
    BY <1>1, <2>1, QueueNames DEF CoresType, QueuesType
  <2>3. st \in StatusType
    BY <1>1, SetStatus DEF Statuses
  <2>4. q \in QueuesType
    <3> HIDE DEF w
    <3> QED BY <1>1, <2>2, Unblock, DelQueue
  <2>5. status' \in StatusType /\ queue' \in QueuesType /\ core_running' \in CoresType
    <3> HIDE DEF st, q
    <3> QED BY <1>1, <2>1, <2>3, <2>4, SchedulerTypes
  <2>6. halt' \in Halts
    BY <1>1, <1>8 DEF do_exit, Halts
  <2> QED BY <1>1, <1>2, <1>8, <2>5, <2>6 DEF do_exit
<1>9. ASSUME NEW v \in Pids, do_waitpid(c, v) PROVE TypeOK'
  <2>1. core_running[c] # Pid0 /\ SlotsOf(v) # {}
    BY <1>9 DEF do_waitpid, Calls
  <2>2. WaitQ(Min(SlotsOf(v))) \in QueueId
    BY <2>1, Scans, QueueNames
  <2>3. CASE waitpid_blocks(Min(SlotsOf(v)))
    <3>1. status' \in StatusType /\ queue' \in QueuesType /\ core_running' \in CoresType
      BY <1>9, <2>1, <2>2, <2>3, BlockTypes DEF do_waitpid
    <3> QED BY <1>1, <1>2, <1>9, <3>1 DEF do_waitpid
  <2>4. CASE ~waitpid_blocks(Min(SlotsOf(v)))
    <3>1. status' \in StatusType /\ queue' \in QueuesType /\ core_running' \in CoresType
      BY <1>1, <1>9, <2>4, SchedulerTypes DEF do_waitpid
    <3> QED BY <1>1, <1>2, <1>9, <3>1 DEF do_waitpid
  <2> QED BY <2>3, <2>4
<1>10. ASSUME NEW v \in Pids, NEW newmask \in Masks, do_taskset_chg(c, v, newmask)
       PROVE  TypeOK'
  <2>1. newmask \in SUBSET Cores
    BY SchedAssumption DEF Cores
  <2>2. mask' \in [Slots -> SUBSET Cores] /\ halt' \in Halts
    BY <1>1, <1>10, <2>1, Scans DEF do_taskset_chg, Halts
  <2> QED BY <1>1, <1>2, <1>10, <2>2 DEF do_taskset_chg
<1> QED
  BY <1>3, <1>4, <1>6, <1>7, <1>8, <1>9, <1>10

BarriersType == [Barriers -> [used : BOOLEAN, num : Int]]
ConditionsType == [Conditions -> [valid : BOOLEAN, lock_idx : Mutexes \cup {NoLock}]]

\* What the handlers of the locks leave alone, or change within its type.
LEMMA LockCallFrame ==
    ASSUME TypeOK, UNCHANGED <<mask, wakeup_time, process_id, time>>,
           status' \in StatusType, queue' \in QueuesType, core_running' \in CoresType,
           pid' \in [Slots -> Int], halt' \in Halts,
           mlocks' \in MlocksType, holds' \in HoldsType,
           barriers' \in BarriersType, conditions' \in ConditionsType,
           goal' \in [Barriers -> Int]
    PROVE  TypeOK'
BY DEF TypeOK, StatusType, QueuesType, CoresType, MlocksType, HoldsType, BarriersType,
       ConditionsType

\* The mutex calls are typed.
LEMMA MutexTypes ==
    ASSUME TypeOK, NEW c \in Cores,
           \/ \E key \in Keys : do_mutex_lock_init(c, key)
           \/ \E m \in Mutexes : do_mutex_lock_acquire(c, m)
           \/ \E m \in Mutexes : do_mutex_lock_release(c, m)
    PROVE  TypeOK'
<1>1. /\ status \in StatusType /\ queue \in QueuesType /\ core_running \in CoresType
      /\ pid \in [Slots -> Int] /\ halt \in Halts
      /\ mlocks \in MlocksType /\ holds \in HoldsType
      /\ barriers \in BarriersType /\ conditions \in ConditionsType /\ goal \in [Barriers -> Int]
  BY TypeParts DEF BarriersType, ConditionsType
<1>2. ASSUME NEW key \in Keys, do_mutex_lock_init(c, key) PROVE TypeOK'
  <2>1. key \in Nat
    BY LocksAssumption
  <2>2. mlocks' \in MlocksType
    <3> DEFINE i == Min(InitScan(key))
               r == [status |-> "UNLOCKED", owner |-> 0, key |-> key]
    <3>1. mlocks' = mlocks \/ mlocks' = [mlocks EXCEPT ![i] = r]
      BY <1>2, Zenon DEF do_mutex_lock_init
    <3>2. r \in [status : {"UNLOCKED", "LOCKED"}, owner : Int, key : Nat]
      BY <2>1
    <3> HIDE DEF i, r
    <3> QED BY <1>1, <3>1, <3>2 DEF MlocksType
  <2>3. halt' \in Halts
    BY <1>1, <1>2 DEF do_mutex_lock_init, Halts
  <2> QED BY <1>1, <1>2, <2>2, <2>3, LockCallFrame DEF do_mutex_lock_init
<1>3. ASSUME NEW m \in Mutexes, do_mutex_lock_acquire(c, m) PROVE TypeOK'
  <2>1. core_running[c] # Pid0 /\ core_running[c] \in Slots
    BY <1>1, <1>3 DEF do_mutex_lock_acquire, Calls, CoresType
  <2>2. CASE mlocks[m].status = "UNLOCKED"
    <3>1. mlocks' = [mlocks EXCEPT ![m].status = "LOCKED", ![m].owner = pid[core_running[c]]]
          /\ holds' = [holds EXCEPT ![m] = @ \cup {core_running[c]}]
      BY <1>3, <2>2 DEF do_mutex_lock_acquire
    <3>2. mlocks' \in MlocksType /\ holds' \in HoldsType
      BY <1>1, <2>1, <3>1, ZenonT(60) DEF MlocksType, HoldsType
    <3> QED BY <1>1, <1>3, <2>2, <3>2, LockCallFrame DEF do_mutex_lock_acquire
  <2>3. CASE mlocks[m].status # "UNLOCKED"
    <3>1. status' \in StatusType /\ queue' \in QueuesType /\ core_running' \in CoresType
      BY <1>3, <2>1, <2>3, BlockTypes, QueueNames DEF do_mutex_lock_acquire
    <3> QED BY <1>1, <1>3, <2>3, <3>1, LockCallFrame DEF do_mutex_lock_acquire
  <2> QED BY <2>2, <2>3
<1>4. ASSUME NEW m \in Mutexes, do_mutex_lock_release(c, m) PROVE TypeOK'
  <2>1. pid' \in [Slots -> Int]
    BY <1>1, <1>4 DEF do_mutex_lock_release
  <2>2. mlocks' \in MlocksType /\ holds' \in HoldsType
    BY <1>1, <1>4, <2>1, ReleasedTypes DEF do_mutex_lock_release
  <2>3. Successors(queue, {m}) \in Seq(Slots)
    BY <1>1, SuccessorsQueued
  <2>4. status' \in StatusType /\ queue' \in QueuesType
    BY <1>1, <1>4, <2>3, SetStatus, Unblock DEF do_mutex_lock_release, Statuses
  <2> QED BY <1>1, <1>4, <2>1, <2>2, <2>4, LockCallFrame DEF do_mutex_lock_release
<1> QED
  BY <1>2, <1>3, <1>4

\* The barrier calls are typed.
LEMMA BarrierTypes ==
    ASSUME TypeOK, NEW c \in Cores,
           \/ \E g \in Goals : do_barrier_init(c, g)
           \/ \E b \in Barriers : do_barrier_wait(c, b)
           \/ \E b \in Barriers : do_barrier_destroy(c, b)
    PROVE  TypeOK'
<1>1. /\ status \in StatusType /\ queue \in QueuesType /\ core_running \in CoresType
      /\ pid \in [Slots -> Int] /\ halt \in Halts
      /\ mlocks \in MlocksType /\ holds \in HoldsType
      /\ barriers \in BarriersType /\ conditions \in ConditionsType /\ goal \in [Barriers -> Int]
  BY TypeParts DEF BarriersType, ConditionsType
<1>2. ASSUME NEW g \in Goals, do_barrier_init(c, g) PROVE TypeOK'
  <2>1. g \in Int
    BY LocksAssumption
  <2>2. barriers' \in BarriersType /\ goal' \in [Barriers -> Int]
    BY <1>1, <1>2, <2>1 DEF do_barrier_init, BarriersType
  <2> QED BY <1>1, <1>2, <2>2, LockCallFrame DEF do_barrier_init, schedVars
<1>3. ASSUME NEW b \in Barriers, do_barrier_wait(c, b) PROVE TypeOK'
  <2> DEFINE w == queue[BarrierQ(b)]
  <2>1. core_running[c] # Pid0 /\ w \in Seq(Slots) /\ barriers[b].num \in Int
    BY <1>1, <1>3, QueueNames DEF do_barrier_wait, Calls, QueuesType, BarriersType
  <2>2. RestoredNum(b, w) \in Int
    BY <2>1, LenProperties DEF RestoredNum
  <2>3. barriers' \in BarriersType
    <3>1. barriers' = [barriers EXCEPT ![b].num = RestoredNum(b, w)]
          \/ barriers' = [barriers EXCEPT ![b].num = barriers[b].num - 1]
      BY <1>3 DEF do_barrier_wait
    <3>2. PICK n \in Int : barriers' = [barriers EXCEPT ![b].num = n]
      <4> HIDE DEF w
      <4> QED BY <2>1, <2>2, <3>1
    <3>3. barriers[b] \in [used : BOOLEAN, num : Int]
      BY <1>1 DEF BarriersType
    <3>4. [barriers[b] EXCEPT !.num = n] \in [used : BOOLEAN, num : Int]
      BY <3>3
    <3>5. barriers' = [barriers EXCEPT ![b] = [barriers[b] EXCEPT !.num = n]]
      BY <3>2
    <3> QED BY <1>1, <3>4, <3>5 DEF BarriersType
  <2>4. CASE LastArrival(b)
    <3>1. do_scheduler(c, set_status(status, Range(w), "READY"), do_unblock(queue, w))
      BY <1>3, <2>4 DEF do_barrier_wait
    <3>2. set_status(status, Range(w), "READY") \in StatusType /\ do_unblock(queue, w) \in QueuesType
      BY <1>1, <2>1, SetStatus, Unblock DEF Statuses
    <3>3. status' \in StatusType /\ queue' \in QueuesType /\ core_running' \in CoresType
      BY <1>1, <3>1, <3>2, SchedulerTypes
    <3> QED BY <1>1, <1>3, <2>3, <3>3, LockCallFrame DEF do_barrier_wait
  <2>5. CASE ~LastArrival(b)
    <3>1. status' \in StatusType /\ queue' \in QueuesType /\ core_running' \in CoresType
      BY <1>3, <2>1, <2>5, BlockTypes, QueueNames DEF do_barrier_wait
    <3> QED BY <1>1, <1>3, <2>3, <3>1, LockCallFrame DEF do_barrier_wait
  <2> QED BY <2>4, <2>5
<1>4. ASSUME NEW b \in Barriers, do_barrier_destroy(c, b) PROVE TypeOK'
  <2>1. barriers' \in BarriersType
    BY <1>1, <1>4 DEF do_barrier_destroy, BarriersType
  <2> QED BY <1>1, <1>4, <2>1, LockCallFrame DEF do_barrier_destroy, schedVars
<1> QED
  BY <1>2, <1>3, <1>4

\* An assignment to a queue or a mutex that does not exist changes nothing.
LEMMA NoSuchIndex ==
    /\ \A q \in QueuesType : \A Q, p : Q \notin QueueId => add_queue(q, Q, p) = q
    /\ \A q \in QueuesType : \A Q, u : Q \notin QueueId => AddAll(q, Q, u) = q
    /\ \A m, v : mlocks \in MlocksType /\ m \notin Mutexes =>
          [mlocks EXCEPT ![m].status = "LOCKED", ![m].owner = v] = mlocks
    /\ \A m, S : holds \in HoldsType /\ m \notin Mutexes =>
          [holds EXCEPT ![m] = S] = holds
BY DEF QueuesType, add_queue, AddAll, MlocksType, HoldsType

\* The lists do_condition_broadcast hands to do_scheduler.
BroadcastLists(k, m) ==
    LET w == queue[CondQ(k)]
        q1 == [queue EXCEPT ![CondQ(k)] = <<>>]
    IN  IF w = <<>> THEN q1
        ELSE IF mlocks[m].status = "UNLOCKED"
             THEN AddAll(add_queue(q1, ReadyQ, Head(w)), MutexQ(m), Tail(w))
             ELSE AddAll(q1, MutexQ(m), w)

\* The first waiter of a condition is a task.
LEMMA CondHead ==
    ASSUME queue \in QueuesType, NEW k \in Conditions
    PROVE  /\ queue[CondQ(k)] \in Seq(Slots) /\ CondQ(k) \in QueueId
           /\ [queue EXCEPT ![CondQ(k)] = <<>>] \in QueuesType
           /\ queue[CondQ(k)] # <<>> =>
                 /\ Head(queue[CondQ(k)]) \in Slots /\ Tail(queue[CondQ(k)]) \in Seq(Slots)
                 /\ Head(queue[CondQ(k)]) \in Range(queue[CondQ(k)])
<1>1. CondQ(k) \in QueueId /\ queue[CondQ(k)] \in Seq(Slots)
  BY QueueNames DEF QueuesType
<1>2. [queue EXCEPT ![CondQ(k)] = <<>>] \in QueuesType
  BY EmptySeq DEF QueuesType
<1> QED
  BY <1>1, <1>2, HeadTailNodes, RangeOfList

\* do_condition_broadcast works on typed lists.
LEMMA BroadcastTypes ==
    ASSUME queue \in QueuesType, NEW k \in Conditions, NEW m
    PROVE  BroadcastLists(k, m) \in QueuesType
<1> DEFINE w == queue[CondQ(k)]
           q1 == [queue EXCEPT ![CondQ(k)] = <<>>]
<1>1. w \in Seq(Slots) /\ q1 \in QueuesType
      /\ (w # <<>> => Head(w) \in Slots /\ Tail(w) \in Seq(Slots))
  BY CondHead
<1>2. BroadcastLists(k, m) =
        IF w = <<>> THEN q1
        ELSE IF mlocks[m].status = "UNLOCKED"
             THEN AddAll(add_queue(q1, ReadyQ, Head(w)), MutexQ(m), Tail(w))
             ELSE AddAll(q1, MutexQ(m), w)
  BY DEF BroadcastLists
<1> HIDE DEF w, q1
<1>3. \A q \in QueuesType, u \in Seq(Slots) : AddAll(q, MutexQ(m), u) \in QueuesType
  BY AddQueues, NoSuchIndex
<1>4. w # <<>> => add_queue(q1, ReadyQ, Head(w)) \in QueuesType
  <2>1. ReadyQ \in QueueId
    BY QueueNames
  <2> QED BY <1>1, <2>1, AddQueue
<1> QED
  BY <1>1, <1>2, <1>3, <1>4

\* The condition calls are typed.
LEMMA ConditionTypes ==
    ASSUME TypeOK, NEW c \in Cores,
           \/ do_condition_init(c)
           \/ \E k \in Conditions, m \in Mutexes : do_condition_wait(c, k, m)
           \/ \E k \in Conditions : do_condition_signal(c, k)
           \/ \E k \in Conditions : do_condition_broadcast(c, k)
           \/ \E k \in Conditions : do_condition_destroy(c, k)
    PROVE  TypeOK'
<1>1. /\ status \in StatusType /\ queue \in QueuesType /\ core_running \in CoresType
      /\ pid \in [Slots -> Int] /\ halt \in Halts
      /\ mlocks \in MlocksType /\ holds \in HoldsType
      /\ barriers \in BarriersType /\ conditions \in ConditionsType /\ goal \in [Barriers -> Int]
  BY TypeParts DEF BarriersType, ConditionsType
<1>2. ASSUME NEW m, NEW p \in Slots
      PROVE  [mlocks EXCEPT ![m].status = "LOCKED", ![m].owner = pid[p]] \in MlocksType
  <2>1. CASE m \in Mutexes
    BY <1>1, <2>1, ZenonT(60) DEF MlocksType
  <2>2. CASE m \notin Mutexes
    BY <1>1, <2>2, NoSuchIndex
  <2> QED BY <2>1, <2>2
<1>3. CASE do_condition_init(c)
  <2>1. conditions' \in ConditionsType
    <3>1. PICK i : conditions' = [conditions EXCEPT ![i].valid = TRUE]
      BY <1>3 DEF do_condition_init
    <3> QED BY <1>1, <3>1 DEF ConditionsType
  <2> QED BY <1>1, <1>3, <2>1, LockCallFrame DEF do_condition_init, schedVars
<1>4. ASSUME NEW k \in Conditions, NEW m \in Mutexes, do_condition_wait(c, k, m)
      PROVE  TypeOK'
  <2> DEFINE p == core_running[c]
             woken == Successors(queue, {m})
             st == set_status(set_status(status, {p}, "BLOCKED"), Range(woken), "READY")
             q == do_unblock(add_queue(queue, CondQ(k), p), woken)
  <2>1. p # Pid0 /\ p \in Slots
    BY <1>1, <1>4 DEF do_condition_wait, Calls, CoresType
  <2>2. pid' \in [Slots -> Int]
    BY <1>1, <1>4 DEF do_condition_wait
  <2>3. mlocks' \in MlocksType /\ holds' \in HoldsType
    BY <1>1, <1>4, <2>2, ReleasedTypes DEF do_condition_wait
  <2>4. conditions' \in ConditionsType
    BY <1>1, <1>4 DEF do_condition_wait, ConditionsType
  <2>5. do_scheduler(c, st, q)
    BY <1>4 DEF do_condition_wait
  <2>6. st \in StatusType
    BY <1>1, SetStatus DEF Statuses
  <2>7. q \in QueuesType
    <3>1. CondQ(k) \in QueueId
      BY QueueNames
    <3>2. add_queue(queue, CondQ(k), p) \in QueuesType
      BY <1>1, <2>1, <3>1, AddQueue
    <3>3. woken \in Seq(Slots)
      BY <1>1, SuccessorsQueued
    <3> HIDE DEF woken
    <3> QED BY <3>2, <3>3, Unblock
  <2> HIDE DEF st, q
  <2>8. status' \in StatusType /\ queue' \in QueuesType /\ core_running' \in CoresType
    BY <1>1, <2>5, <2>6, <2>7, SchedulerTypes
  <2> QED BY <1>1, <1>4, <2>2, <2>3, <2>4, <2>8, LockCallFrame DEF do_condition_wait
<1>5. ASSUME NEW k \in Conditions, do_condition_signal(c, k) PROVE TypeOK'
  <2> DEFINE m == conditions[k].lock_idx
             s == Head(queue[CondQ(k)])
             q1 == del_queue(queue, {s})
  <2>1. UNCHANGED <<pid, mask, wakeup_time, process_id, time, barriers, conditions, holds, goal>>
    BY <1>5 DEF do_condition_signal
  <2>2. CASE queue[CondQ(k)] = <<>>
    BY <1>1, <1>5, <2>1, <2>2, LockCallFrame DEF do_condition_signal, Halts
  <2>3. CASE queue[CondQ(k)] # <<>>
    <3>1. s \in Slots /\ q1 \in QueuesType
      BY <1>1, <2>3, CondHead, DelQueue
    <3>2. halt' = halt
      BY <1>5, <2>3 DEF do_condition_signal
    <3>3. CASE mlocks[m].status = "UNLOCKED"
      <4>1. /\ mlocks' = [mlocks EXCEPT ![m].status = "LOCKED", ![m].owner = pid[s]]
            /\ queue' = q1 /\ UNCHANGED <<status, core_running>>
        BY <1>5, <2>3, <3>3 DEF do_condition_signal
      <4>2. mlocks' \in MlocksType
        <5> HIDE DEF m, s
        <5> QED BY <1>2, <3>1, <4>1
      <4> QED BY <1>1, <2>1, <3>1, <3>2, <4>1, <4>2, LockCallFrame, SMTT(40)
    <3>4. CASE mlocks[m].status # "UNLOCKED"
      <4> DEFINE st == set_status(status, {s}, "BLOCKED")
                 q2 == add_queue(q1, MutexQ(m), s)
      <4>1. mlocks' = mlocks /\ do_scheduler(c, st, q2)
        BY <1>5, <2>3, <3>4 DEF do_condition_signal
      <4>2. st \in StatusType /\ q2 \in QueuesType
        <5> HIDE DEF m, s, q1
        <5> QED BY <1>1, <3>1, SetStatus, AddQueue, NoSuchIndex DEF Statuses
      <4> HIDE DEF st, q2
      <4>3. status' \in StatusType /\ queue' \in QueuesType /\ core_running' \in CoresType
        BY <1>1, <4>1, <4>2, SchedulerTypes, SMTT(40)
      <4> QED BY <1>1, <2>1, <3>2, <4>1, <4>3, LockCallFrame
    <3> QED BY <3>3, <3>4
  <2> QED BY <2>2, <2>3, SMTT(40)
<1>6. ASSUME NEW k \in Conditions, do_condition_broadcast(c, k) PROVE TypeOK'
  <2> DEFINE m == conditions[k].lock_idx
             w == queue[CondQ(k)]
  <2>1. do_scheduler(c, status, BroadcastLists(k, m))
    BY <1>6, ZenonT(60) DEF do_condition_broadcast, BroadcastLists, AddAll
  <2>2. status' \in StatusType /\ queue' \in QueuesType /\ core_running' \in CoresType
    BY <1>1, <2>1, BroadcastTypes, SchedulerTypes, SMTT(40)
  <2>3. \/ mlocks' = mlocks /\ holds' = holds
        \/ /\ w # <<>>
           /\ mlocks' = [mlocks EXCEPT ![m].status = "LOCKED", ![m].owner = pid[Head(w)]]
           /\ holds' = [holds EXCEPT ![m] = holds[m] \cup {Head(w)}]
    BY <1>6, ZenonT(60) DEF do_condition_broadcast
  <2>4. w # <<>> => Head(w) \in Slots
    BY <1>1, CondHead
  <2> HIDE DEF m, w
  <2>5. mlocks' \in MlocksType
    BY <1>1, <1>2, <2>3, <2>4, SMTT(40)
  <2>6. holds' \in HoldsType
    BY <1>1, <2>3, <2>4 DEF HoldsType
  <2> QED BY <1>1, <1>6, <2>2, <2>5, <2>6, LockCallFrame, ZenonT(60) DEF do_condition_broadcast
<1>7. ASSUME NEW k \in Conditions, do_condition_destroy(c, k) PROVE TypeOK'
  <2>1. conditions' \in ConditionsType
    BY <1>1, <1>7 DEF do_condition_destroy, ConditionsType
  <2> QED BY <1>1, <1>7, <2>1, LockCallFrame DEF do_condition_destroy, schedVars
<1> QED
  BY <1>3, <1>4, <1>5, <1>6, <1>7

\* do_kill is typed, of a PCB that was used,
LEMMA KillTaskTypes ==
    ASSUME TypeOK, NEW c \in Cores, NEW v \in Pids, kill_task(c, v)
    PROVE  TypeOK'
<1> DEFINE t == Min(SlotsOf(v))
           w == queue[WaitQ(t)]
           st1 == set_status(status, Range(w), "READY")
           q1 == do_unblock(queue, w)
           woken == Successors(q1, OwnedBy(v))
           st2 == set_status(st1, Range(woken), "READY")
           q2 == do_unblock(q1, woken)
<1>1. /\ status \in StatusType /\ queue \in QueuesType /\ core_running \in CoresType
      /\ pid \in [Slots -> Int] /\ halt \in Halts
      /\ mlocks \in MlocksType /\ holds \in HoldsType
      /\ barriers \in BarriersType /\ conditions \in ConditionsType /\ goal \in [Barriers -> Int]
  BY TypeParts DEF BarriersType, ConditionsType
<1>2. t \in Slots /\ w \in Seq(Slots)
  BY <1>1, Scans, QueueNames DEF kill_task, QueuesType
<1>3. /\ pid' = [pid EXCEPT ![t] = 0]
      /\ mlocks' = ReleasedLocks(q1, OwnedBy(v))
      /\ \E leave : holds' = ReleasedHolds(q1, OwnedBy(v), leave)
      /\ UNCHANGED <<mask, wakeup_time, process_id, time, barriers, conditions, goal>>
      /\ halt' \in {halt, "drain"}
  BY DEF kill_task
<1>4. \/ do_scheduler(c, set_status(st2, {t}, "EXITED"), q2)
      \/ /\ status' = set_status(st2, {t}, "EXITED") /\ queue' = del_queue(q2, {t})
         /\ UNCHANGED core_running
      \/ status' = st2 /\ queue' = q2 /\ UNCHANGED core_running
  BY DEF kill_task
<1>5. st1 \in StatusType /\ st2 \in StatusType /\ set_status(st2, {t}, "EXITED") \in StatusType
  BY <1>1, SetStatus DEF Statuses
<1> HIDE DEF t, w
<1>6. q1 \in QueuesType
  BY <1>1, <1>2, Unblock
<1> HIDE DEF q1
<1>7. woken \in Seq(Slots)
  BY <1>6, SuccessorsQueued
<1> HIDE DEF woken
<1>8. q2 \in QueuesType /\ del_queue(q2, {t}) \in QueuesType
  BY <1>6, <1>7, Unblock, DelQueue
<1> HIDE DEF st1, st2, q2
<1>9. status' \in StatusType /\ queue' \in QueuesType /\ core_running' \in CoresType
  BY <1>1, <1>4, <1>5, <1>8, SchedulerTypes
<1>10. pid' \in [Slots -> Int]
  BY <1>1, <1>2, <1>3
<1>11. mlocks' \in MlocksType /\ holds' \in HoldsType
  BY <1>1, <1>3, <1>6, <1>10, ReleasedTypes
<1>12. halt' \in Halts
  BY <1>1, <1>3 DEF Halts
<1> QED
  BY <1>1, <1>3, <1>9, <1>10, <1>11, <1>12, LockCallFrame

\* and of any.
LEMMA KillTypes ==
    ASSUME TypeOK, NEW c \in Cores, NEW v \in Pids, do_kill(c, v)
    PROVE  TypeOK'
<1>1. CASE kill_task(c, v)
  BY <1>1, KillTaskTypes
<1>2. CASE kill_unused(c, v)
  BY <1>2 DEF kill_unused, lockVars, TypeOK, Halts
<1> QED
  BY <1>1, <1>2 DEF do_kill

\* The tables are typed when init_pcb and the init_ functions of lock.c have run.
LEMMA TypeInit == KInit => TypeOK
<1> SUFFICES ASSUME KInit PROVE TypeOK
  OBVIOUS
<1>1. 0 \in Slots
  BY SchedAssumption DEF Slots
<1>2. /\ status \in [Slots -> Statuses] /\ pid \in [Slots -> Int]
      /\ mask \in [Slots -> SUBSET Cores] /\ wakeup_time \in [Slots -> Nat]
      /\ core_running \in [Cores -> Slots \cup {Pid0}]
      /\ process_id \in Nat /\ time \in Nat /\ halt \in Halts
  BY DEF KInit, Init, Statuses, Halts
<1>3. queue \in [QueueId -> Seq(Slots)]
  <2>1. <<>> \in Seq(Slots) /\ <<0>> \in Seq(Slots)
    BY <1>1
  <2> QED BY <2>1 DEF KInit, Init
<1>4. /\ mlocks \in [Mutexes -> [status : {"UNLOCKED", "LOCKED"}, owner : Int, key : Nat]]
      /\ barriers \in [Barriers -> [used : BOOLEAN, num : Int]]
      /\ conditions \in [Conditions -> [valid : BOOLEAN, lock_idx : Mutexes \cup {NoLock}]]
      /\ holds \in [Mutexes -> SUBSET Slots] /\ goal \in [Barriers -> Int]
  BY DEF KInit, LocksInit, NoOwner
<1> QED
  BY <1>2, <1>3, <1>4 DEF TypeOK

\* Every handler on every core keeps the types.
LEMMA TypeStep == TypeOK /\ [Next]_vars => TypeOK'
<1> SUFFICES ASSUME TypeOK, [Next]_vars PROVE TypeOK'
  OBVIOUS
<1>1. CASE UNCHANGED vars
  BY <1>1 DEF vars, schedVars, lockVars, TypeOK
<1>2. CASE tick_step
  <2>1. time' \in Nat
    BY <1>2 DEF tick_step, Tick, TypeOK
  <2> QED BY <1>2, <2>1 DEF tick_step, Tick, lockVars, TypeOK
<1>3. CASE Halted
  BY <1>1, <1>3 DEF Halted
<1>4. ASSUME NEW c \in Cores,
             \/ timer_step(c) \/ exec_step(c) \/ thread_step(c) \/ exit_step(c)
             \/ sleep_step(c) \/ waitpid_step(c) \/ taskset_step(c)
      PROVE  TypeOK'
  <2>1. 0 .. MaxTime \subseteq Nat
    BY SchedAssumption
  <2>2. /\ UNCHANGED lockVars
        /\ \/ handle_irq_timer(c) \/ do_exec(c) \/ do_thread_create(c) \/ do_exit(c)
           \/ \E d \in Nat : do_sleep(c, d)
           \/ \E v \in Pids : do_waitpid(c, v)
           \/ \E v \in Pids, newmask \in Masks : do_taskset_chg(c, v, newmask)
    BY <1>4, <2>1, Zenon
    DEF timer_step, exec_step, thread_step, exit_step, sleep_step, waitpid_step, taskset_step
  <2> QED BY <2>2, SchedCallTypes
<1> QED
  BY <1>1, <1>2, <1>3, <1>4, KillTypes, MutexTypes, BarrierTypes, ConditionTypes DEF Next

\* Every variable of the kernel keeps its type, whatever the programs do.
THEOREM KernelTypes == Spec => []TypeOK
BY TypeInit, TypeStep, PTL DEF Spec

-----------------------------------------------------------------------------
(* Consistency *)

Agree(st, q, cr) == Lists(q) /\ Tasks(st, q) /\ OnCores(st, cr, Cores)

PidsLive(st, pd) == \A p \in Slots : st[p] \notin Free => pd[p] # 0

CInv ==
    /\ Agree(status, queue, core_running)
    /\ PidsLive(status, pid)
    /\ process_id # 0
    /\ DrainsEnd

LocalKills == "kill_remote" \notin Workload

KInv == TypeOK /\ (LocalKills => CInv)

-----------------------------------------------------------------------------
(* Handlers that end in do_scheduler *)

\* do_scheduler restores Agree from the state the handler hands to it.
LEMMA ScheduleAgrees ==
    ASSUME core_running \in CoresType, NEW c \in Cores,
           NEW st \in StatusType, NEW q \in QueuesType,
           Lists(q), Tasks(st, q), OnCores(st, core_running, Cores \ {c}),
           PidsLive(st, pid'), do_scheduler(c, st, q)
    PROVE  Agree(status', queue', core_running') /\ PidsLive(status', pid')
<1>1. core_running[c] # Pid0 /\ st[core_running[c]] = "RUNNING" => pid'[core_running[c]] # 0
  BY DEF CoresType, PidsLive, Free
<1>2. /\ Lists(queue') /\ Tasks(status', queue')
      /\ OnCores(status', core_running', Cores)
      /\ \A p \in Slots : status'[p] \in Free <=> st[p] \in Free
  BY <1>1, SchedulerKeeps
<1> QED
  BY <1>2 DEF Agree, PidsLive

\* Fewer cores, weaker OnCores.
LEMMA OtherCores ==
    ASSUME NEW st, NEW cr, NEW c, OnCores(st, cr, Cores)
    PROVE  OnCores(st, cr, Cores \ {c})
BY DEF OnCores

\* A call that blocks the running task on a queue.
LEMMA BlockAgrees ==
    ASSUME TypeOK, CInv, NEW c \in Cores, core_running[c] # Pid0, pid' = pid,
           NEW Q \in QueueId, Q # ReadyQ,
           \A w \in Slots : Q = WaitQ(w) => status[w] \notin Free,
           do_scheduler(c, set_status(status, {core_running[c]}, "BLOCKED"),
                           add_queue(queue, Q, core_running[c]))
    PROVE  Agree(status', queue', core_running') /\ PidsLive(status', pid')
<1> DEFINE p == core_running[c]
           st == set_status(status, {p}, "BLOCKED")
           q == add_queue(queue, Q, p)
<1>1. status \in StatusType /\ queue \in QueuesType /\ core_running \in CoresType
  BY TypeParts
<1>2. p \in Slots
  BY <1>1 DEF CoresType
<1>3. Lists(q) /\ Tasks(st, q) /\ OnCores(st, core_running, Cores \ {c})
  BY <1>1, BlockKeeps DEF CInv, Agree
<1>4. st \in StatusType /\ \A x \in Slots : st[x] = IF x = p THEN "BLOCKED" ELSE status[x]
  BY <1>1, SetStatus DEF Statuses
<1>5. q \in QueuesType
  BY <1>1, <1>2, AddQueue
<1>6. status[p] = "RUNNING"
  BY DEF CInv, Agree, OnCores
<1> HIDE DEF st, q
<1>7. PidsLive(st, pid')
  BY <1>2, <1>4, <1>6 DEF CInv, PidsLive, Free
<1> QED
  BY <1>1, <1>3, <1>4, <1>5, <1>7, ScheduleAgrees DEF st, q

\* Waking queued tasks keeps everything, on all cores.
LEMMA WakeAgrees ==
    ASSUME NEW st \in StatusType, NEW q \in QueuesType, core_running \in CoresType,
           Agree(st, q, core_running),
           NEW woken \in Seq(Slots), IsInjective(woken), \A p \in Range(woken) : On(q, p)
    PROVE  /\ set_status(st, Range(woken), "READY") \in StatusType
           /\ do_unblock(q, woken) \in QueuesType
           /\ Agree(set_status(st, Range(woken), "READY"), do_unblock(q, woken), core_running)
           /\ \A pd : PidsLive(st, pd) => PidsLive(set_status(st, Range(woken), "READY"), pd)
<1> DEFINE st1 == set_status(st, Range(woken), "READY")
           q1 == do_unblock(q, woken)
<1>1. st1 \in StatusType /\ q1 \in QueuesType
  BY SetStatus, Unblock DEF Statuses
<1>2. /\ Lists(q1) /\ Tasks(st1, q1)
      /\ \A p \in Slots : st[p] = "RUNNING" <=> st1[p] = "RUNNING"
      /\ \A p \in Slots : st[p] \in Free <=> st1[p] \in Free
  BY WakeKeeps DEF Agree
<1> HIDE DEF st1, q1
<1>3. OnCores(st1, core_running, Cores)
  BY <1>2, SameRunning DEF Agree
<1>4. \A pd : PidsLive(st, pd) => PidsLive(st1, pd)
  BY <1>2 DEF PidsLive
<1> QED
  BY <1>1, <1>2, <1>3, <1>4 DEF Agree, st1, q1

\* A whole queue is a list that can be woken.
LEMMA QueueWakes ==
    ASSUME NEW q \in QueuesType, Lists(q), NEW Q \in QueueId
    PROVE  q[Q] \in Seq(Slots) /\ IsInjective(q[Q]) /\ \A p \in Range(q[Q]) : On(q, p)
BY DEF QueuesType, Lists, On

\* So are the first waiters of some mutexes.
LEMMA SuccessorsWake ==
    ASSUME NEW q \in QueuesType, Lists(q), NEW ms
    PROVE  /\ Successors(q, ms) \in Seq(Slots) /\ IsInjective(Successors(q, ms))
           /\ \A p \in Range(Successors(q, ms)) : On(q, p)
<1>1. /\ Successors(q, ms) \in Seq(Slots) /\ IsInjective(Successors(q, ms))
      /\ \A p \in Range(Successors(q, ms)) :
            \E m \in Mutexes : m \in ms /\ p \in Range(q[MutexQ(m)])
  BY SuccessorsQueued
<1>2. \A m \in Mutexes : MutexQ(m) \in QueueId
  BY QueueNames
<1> QED
  BY <1>1, <1>2 DEF On

\* The loops that drain a wait_list end: nobody on it has EXITED.
LEMMA NoHangs ==
    ASSUME TypeOK, CInv, NEW p \in Slots
    PROVE  ~exit_drain_hangs(queue[WaitQ(p)]) /\ ~kill_drain_hangs(queue[WaitQ(p)])
<1> DEFINE w == queue[WaitQ(p)]
<1>1. queue \in QueuesType /\ WaitQ(p) \in QueueId
  BY TypeParts, QueueNames
<1>2. w \in Seq(Slots) /\ \A x \in Range(w) : On(queue, x) /\ x \in Slots
  BY <1>1, QueueWakes, RangeOfList DEF CInv, Agree
<1> HIDE DEF w
<1>3. \A x \in Range(w) : status[x] # "EXITED"
  BY <1>2 DEF CInv, Agree, Tasks
<1>4. w # <<>> => w[Len(w)] \in Range(w)
  <2>1. Len(w) \in Nat /\ DOMAIN w = 1 .. Len(w) /\ (w # <<>> => Len(w) # 0)
    BY <1>2, LenProperties, EmptySeq
  <2> QED BY <2>1 DEF Range
<1> QED
  BY <1>3, <1>4 DEF exit_drain_hangs, kill_drain_hangs, w

\* A task whose wait_list is empty is made EXITED and taken off its list.
LEMMA ExitKeeps ==
    ASSUME NEW st \in StatusType, NEW q \in QueuesType, core_running \in CoresType,
           Agree(st, q, core_running), NEW t \in Slots, Range(q[WaitQ(t)]) = {},
           NEW D \in SUBSET Cores, \A d \in D : core_running[d] # t
    PROVE  /\ set_status(st, {t}, "EXITED") \in StatusType
           /\ del_queue(q, {t}) \in QueuesType
           /\ Lists(del_queue(q, {t}))
           /\ Tasks(set_status(st, {t}, "EXITED"), del_queue(q, {t}))
           /\ OnCores(set_status(st, {t}, "EXITED"), core_running, D)
           /\ \A pd, pd1 : PidsLive(st, pd) /\ (\A x \in Slots \ {t} : pd1[x] = pd[x])
                              => PidsLive(set_status(st, {t}, "EXITED"), pd1)
<1> DEFINE st1 == set_status(st, {t}, "EXITED")
           q1 == del_queue(q, {t})
<1>1. st1 \in StatusType /\ \A x \in Slots : st1[x] = IF x = t THEN "EXITED" ELSE st[x]
  BY SetStatus DEF Statuses
<1>2. /\ q1 \in QueuesType /\ Lists(q1)
      /\ \A Q \in QueueId : Range(q1[Q]) = Range(q[Q]) \ {t}
  BY DelQueue DEF Agree
<1>3. ReadyQ \in QueueId /\ \A x \in Slots : WaitQ(x) \in QueueId
  BY QueueNames
<1>4. Tasks(st, q) /\ OnCores(st, core_running, Cores)
  BY DEF Agree
<1> HIDE DEF st1, q1
<1>5. Tasks(st1, q1)
  <2>1. \A x \in Slots : On(q1, x) => x # t /\ On(q, x)
    BY <1>2 DEF On
  <2>2. \A x \in Slots : On(q1, x) => st1[x] \in {"READY", "BLOCKED"}
    BY <1>1, <1>4, <2>1 DEF Tasks
  <2>3. \A x \in Slots : st1[x] = "READY" => x \in Range(q1[ReadyQ])
    BY <1>1, <1>2, <1>3, <1>4 DEF Tasks
  <2>4. \A x \in Slots : Range(q1[WaitQ(x)]) # {} => st1[x] \notin Free
    BY <1>1, <1>2, <1>3, <1>4 DEF Tasks
  <2> QED BY <2>2, <2>3, <2>4 DEF Tasks
<1>6. OnCores(st1, core_running, D)
  <2>1. \A d \in D : core_running[d] # Pid0 => st1[core_running[d]] = "RUNNING"
    BY <1>1, <1>4 DEF OnCores, CoresType
  <2> QED BY <1>1, <1>4, <2>1 DEF OnCores
<1>7. \A pd, pd1 : PidsLive(st, pd) /\ (\A x \in Slots \ {t} : pd1[x] = pd[x])
                      => PidsLive(st1, pd1)
  BY <1>1 DEF PidsLive, Free
<1> QED
  BY <1>1, <1>2, <1>5, <1>6, <1>7 DEF st1, q1

\* del_queue of a task that is on no list changes nothing.
LEMMA DelAbsent ==
    ASSUME NEW q \in QueuesType, NEW t, ~On(q, t)
    PROVE  del_queue(q, {t}) = q
<1>1. ASSUME NEW Q \in QueueId PROVE Without(q[Q], {t}) = q[Q]
  <2>1. {i \in DOMAIN q[Q] : q[Q][i] \notin {t}} = DOMAIN q[Q]
    BY DEF On, Range
  <2> QED BY <2>1 DEF Without, SubList
<1> QED
  BY <1>1 DEF del_queue, QueuesType

-----------------------------------------------------------------------------
(* The process calls *)

\* A call that leaves the statuses, the lists, the cores and the pids alone.
LEMMA QuietStep ==
    ASSUME CInv, UNCHANGED <<status, queue, core_running, pid, process_id>>,
           halt' # "drain"
    PROVE  CInv'
BY DEF CInv, DrainsEnd

\* A call that leaves process_id alone.
LEMMA AgreeStep ==
    ASSUME CInv, Agree(status', queue', core_running'), PidsLive(status', pid'),
           process_id' = process_id, halt' # "drain"
    PROVE  CInv'
BY DEF CInv, DrainsEnd

\* Timer interrupt, yield and sleep.
LEMMA TimerAgrees ==
    ASSUME TypeOK, CInv, NEW c \in Cores,
           handle_irq_timer(c) \/ \E d \in Nat : do_sleep(c, d)
    PROVE  CInv'
<1>1. status \in StatusType /\ queue \in QueuesType /\ core_running \in CoresType
  BY TypeParts
<1>2. Agree(status, queue, core_running) /\ PidsLive(status, pid) /\ halt # "drain"
  BY DEF CInv, DrainsEnd
<1>3. CASE handle_irq_timer(c)
  <2>1. /\ do_scheduler(c, status, queue)
        /\ UNCHANGED <<pid, process_id, halt>>
    BY <1>3 DEF handle_irq_timer
  <2>2. /\ Lists(queue) /\ Tasks(status, queue)
        /\ OnCores(status, core_running, Cores \ {c}) /\ PidsLive(status, pid')
    BY <1>2, <2>1, OtherCores DEF Agree
  <2>3. Agree(status', queue', core_running') /\ PidsLive(status', pid')
    BY <1>1, <2>1, <2>2, ScheduleAgrees
  <2> QED BY <1>2, <2>1, <2>3, AgreeStep
<1>4. ASSUME NEW d \in Nat, do_sleep(c, d) PROVE CInv'
  <2>1. /\ core_running[c] # Pid0
        /\ UNCHANGED <<pid, process_id, halt>>
        /\ do_scheduler(c, set_status(status, {core_running[c]}, "BLOCKED"),
                           add_queue(queue, SleepQ, core_running[c]))
    BY <1>4 DEF do_sleep, Calls
  <2>2. /\ SleepQ \in QueueId /\ SleepQ # ReadyQ
        /\ \A w \in Slots : SleepQ # WaitQ(w)
    BY QueueNames
  <2>3. Agree(status', queue', core_running') /\ PidsLive(status', pid')
    BY <2>1, <2>2, BlockAgrees
  <2> QED BY <1>2, <2>1, <2>3, AgreeStep
<1> QED
  BY <1>3, <1>4

\* do_exec and do_thread_create: the slot they take is on no list and nobody
\* waits for it.
LEMMA NewTaskAgrees ==
    ASSUME TypeOK, CInv, NEW c \in Cores, do_exec(c) \/ do_thread_create(c)
    PROVE  CInv'
<1>1. /\ status \in StatusType /\ queue \in QueuesType /\ core_running \in CoresType
      /\ pid \in [Slots -> Int] /\ process_id \in Nat
  BY TypeParts
<1>2. /\ Lists(queue) /\ Tasks(status, queue) /\ OnCores(status, core_running, Cores)
      /\ PidsLive(status, pid) /\ process_id # 0 /\ halt # "drain"
  BY DEF CInv, Agree, DrainsEnd
<1>3. core_running[c] \in Slots /\ pid[core_running[c]] # 0
  BY <1>1, <1>2 DEF do_exec, do_thread_create, Calls, CoresType, OnCores, PidsLive, Free
<1>4. /\ \E v : v # 0 /\ new_task(c, v)
      /\ core_running' = core_running
      /\ process_id' # 0
  BY <1>1, <1>2, <1>3 DEF do_exec, do_thread_create
<1>5. PICK v : v # 0 /\ new_task(c, v)
  BY <1>4
<1>6. CASE FreeSlots = {}
  BY <1>2, <1>4, <1>5, <1>6 DEF new_task, CInv, Agree, DrainsEnd
<1>7. CASE FreeSlots # {}
  <2> DEFINE i == Min(FreeSlots)
             e == [queue EXCEPT ![WaitQ(i)] = <<>>]
  <2>1. i \in Slots /\ status[i] \in Free
    BY <1>7, Scans
  <2>2. /\ status' = [status EXCEPT ![i] = "READY"]
        /\ pid' = [pid EXCEPT ![i] = v]
        /\ queue' = add_queue(e, ReadyQ, i)
        /\ halt' = halt
    BY <1>5, <1>7 DEF new_task
  <2> HIDE DEF i
  <2>3. ~On(queue, i) /\ Range(queue[WaitQ(i)]) = {}
    BY <1>2, <2>1 DEF Tasks, Free
  <2>4. WaitQ(i) \in QueueId /\ ReadyQ \in QueueId /\ queue[WaitQ(i)] \in Seq(Slots)
        /\ \A x \in Slots : WaitQ(x) \in QueueId /\ WaitQ(x) # ReadyQ
    BY <1>1, <2>1, QueueNames DEF QueuesType
  <2>5. queue[WaitQ(i)] = <<>>
    BY <2>3, <2>4, RangeOfList
  <2>6. e = queue
    BY <1>1, <2>4, <2>5 DEF QueuesType
  <2>7. /\ Lists(queue')
        /\ Range(queue'[ReadyQ]) = Range(queue[ReadyQ]) \cup {i}
        /\ \A R \in QueueId : R # ReadyQ => queue'[R] = queue[R]
    <3>1. queue' = add_queue(queue, ReadyQ, i)
      BY <2>2, <2>6
    <3>2. ReadyQ \in QueueId
      BY <2>4
    <3> HIDE DEF e
    <3>3. Lists(queue')
      BY <1>1, <1>2, <2>1, <2>3, <3>1, <3>2, AddQueue
    <3>4. Range(queue'[ReadyQ]) = Range(queue[ReadyQ]) \cup {i}
      <4>1. queue \in QueuesType /\ i \in Slots
        BY <1>1, <2>1
      <4>2. Range(add_queue(queue, ReadyQ, i)[ReadyQ]) = Range(queue[ReadyQ]) \cup {i}
        BY <3>2, <4>1, AddQueue
      <4> QED BY <3>1, <4>2
    <3>5. \A R \in QueueId : R # ReadyQ => queue'[R] = queue[R]
      BY <1>1, <2>1, <3>1, <3>2, AddQueue
    <3> QED BY <3>3, <3>4, <3>5
  <2>8. \A x \in Slots : status'[x] = IF x = i THEN "READY" ELSE status[x]
    BY <1>1, <2>2 DEF StatusType
  <2>9. Tasks(status', queue')
    <3>1. \A x \in Slots : On(queue', x) => x = i \/ On(queue, x)
      BY <2>7 DEF On
    <3>2. \A x \in Slots : On(queue', x) => status'[x] \in {"READY", "BLOCKED"}
      BY <1>2, <2>8, <3>1 DEF Tasks
    <3>3. \A x \in Slots : status'[x] = "READY" => x \in Range(queue'[ReadyQ])
      BY <1>2, <2>7, <2>8 DEF Tasks
    <3>4. \A x \in Slots : Range(queue'[WaitQ(x)]) # {} => status'[x] \notin Free
      BY <1>2, <2>4, <2>7, <2>8 DEF Tasks, Free
    <3> QED BY <3>2, <3>3, <3>4 DEF Tasks
  <2>10. OnCores(status', core_running', Cores)
    <3>1. \A x \in Slots : status[x] = "RUNNING" <=> status'[x] = "RUNNING"
      BY <2>1, <2>8 DEF Free
    <3> QED BY <1>1, <1>2, <1>4, <3>1, SameRunning
  <2>11. PidsLive(status', pid')
    BY <1>1, <1>2, <1>5, <2>1, <2>2, <2>8 DEF PidsLive
  <2> QED BY <1>2, <1>4, <2>2, <2>7, <2>9, <2>10, <2>11 DEF CInv, Agree, DrainsEnd
<1> QED
  BY <1>6, <1>7

\* do_exit: the waiters are woken before the task becomes EXITED.
LEMMA ExitAgrees ==
    ASSUME TypeOK, CInv, NEW c \in Cores, do_exit(c)
    PROVE  CInv'
<1> DEFINE p == core_running[c]
           w == queue[WaitQ(p)]
           st1 == set_status(status, Range(w), "READY")
           q1 == do_unblock(queue, w)
           st2 == set_status(st1, {p}, "EXITED")
           q2 == del_queue(q1, {p})
<1>1. status \in StatusType /\ queue \in QueuesType /\ core_running \in CoresType
  BY TypeParts
<1>2. Agree(status, queue, core_running) /\ PidsLive(status, pid) /\ halt # "drain"
  BY DEF CInv, DrainsEnd
<1>3. /\ p # Pid0
      /\ halt' = IF exit_drain_hangs(w) THEN "drain" ELSE halt
      /\ UNCHANGED <<pid, process_id>>
      /\ do_scheduler(c, st2, q2)
  BY DEF do_exit, Calls
<1>4. p \in Slots
  BY <1>1, <1>3 DEF CoresType
<1>5. halt' # "drain"
  BY <1>2, <1>3, <1>4, NoHangs
<1>6. WaitQ(p) \in QueueId /\ WaitQ(p) # ReadyQ
  BY <1>4, QueueNames
<1>7. w \in Seq(Slots) /\ IsInjective(w) /\ \A x \in Range(w) : On(queue, x)
  BY <1>1, <1>2, <1>6, QueueWakes DEF Agree
<1>8. Range(q1[WaitQ(p)]) = {}
  <2>1. Range(q1[WaitQ(p)]) = Range(queue[WaitQ(p)]) \ Range(w)
    <3> HIDE DEF w, p
    <3> QED BY <1>1, <1>6, <1>7, Unblock
  <2> QED BY <2>1
<1> HIDE DEF w
<1>9. /\ st1 \in StatusType /\ q1 \in QueuesType
      /\ Agree(st1, q1, core_running) /\ PidsLive(st1, pid)
  BY <1>1, <1>2, <1>7, WakeAgrees
<1>10. \A d \in Cores \ {c} : core_running[d] # p
  BY <1>2, <1>3 DEF Agree, OnCores
<1> HIDE DEF st1, q1
<1>11. /\ st2 \in StatusType /\ q2 \in QueuesType
       /\ Lists(q2) /\ Tasks(st2, q2) /\ OnCores(st2, core_running, Cores \ {c})
       /\ PidsLive(st2, pid)
  <2> HIDE DEF p
  <2> QED BY <1>1, <1>4, <1>8, <1>9, <1>10, ExitKeeps
<1> HIDE DEF st2, q2
<1>12. Agree(status', queue', core_running') /\ PidsLive(status', pid')
  BY <1>1, <1>3, <1>11, ScheduleAgrees
<1> QED
  BY <1>3, <1>5, <1>12, AgreeStep

\* do_waitpid blocks only for a task that is not gone.
LEMMA WaitpidAgrees ==
    ASSUME TypeOK, CInv, NEW c \in Cores, NEW v \in Pids, do_waitpid(c, v)
    PROVE  CInv'
<1> DEFINE w == Min(SlotsOf(v))
<1>1. status \in StatusType /\ queue \in QueuesType /\ core_running \in CoresType
  BY TypeParts
<1>2. Agree(status, queue, core_running) /\ PidsLive(status, pid) /\ halt # "drain"
  BY DEF CInv, DrainsEnd
<1>3. core_running[c] # Pid0 /\ SlotsOf(v) # {} /\ UNCHANGED <<pid, process_id, halt>>
  BY DEF do_waitpid, Calls
<1>4. w \in Slots
  BY <1>3, Scans
<1>5. CASE waitpid_blocks(w)
  <2>1. do_scheduler(c, set_status(status, {core_running[c]}, "BLOCKED"),
                        add_queue(queue, WaitQ(w), core_running[c]))
    BY <1>5 DEF do_waitpid
  <2>2. /\ WaitQ(w) \in QueueId /\ WaitQ(w) # ReadyQ
        /\ \A x \in Slots : WaitQ(w) = WaitQ(x) => status[x] \notin Free
    <3> HIDE DEF w
    <3> QED BY <1>4, <1>5, QueueNames DEF waitpid_blocks
  <2>3. Agree(status', queue', core_running') /\ PidsLive(status', pid')
    <3> HIDE DEF w
    <3> QED BY <1>3, <2>1, <2>2, BlockAgrees
  <2> QED BY <1>2, <1>3, <2>3, AgreeStep
<1>6. CASE ~waitpid_blocks(w)
  <2>1. do_scheduler(c, status, queue)
    BY <1>6 DEF do_waitpid
  <2>2. /\ Lists(queue) /\ Tasks(status, queue)
        /\ OnCores(status, core_running, Cores \ {c}) /\ PidsLive(status, pid')
    BY <1>2, <1>3, OtherCores DEF Agree
  <2>3. Agree(status', queue', core_running') /\ PidsLive(status', pid')
    BY <1>1, <2>1, <2>2, ScheduleAgrees
  <2> QED BY <1>2, <1>3, <2>3, AgreeStep
<1> QED
  BY <1>5, <1>6

\* do_kill of a task that runs on no other core.
LEMMA KillTaskAgrees ==
    ASSUME TypeOK, CInv, LocalKills, NEW c \in Cores, NEW v \in Pids, kill_task(c, v)
    PROVE  CInv'
<1> DEFINE t == Min(SlotsOf(v))
           w == queue[WaitQ(t)]
           st1 == set_status(status, Range(w), "READY")
           q1 == do_unblock(queue, w)
           woken == Successors(q1, OwnedBy(v))
           st2 == set_status(st1, Range(woken), "READY")
           q2 == do_unblock(q1, woken)
           st3 == set_status(st2, {t}, "EXITED")
           q3 == del_queue(q2, {t})
<1>1. /\ status \in StatusType /\ queue \in QueuesType /\ core_running \in CoresType
      /\ pid \in [Slots -> Int]
  BY TypeParts
<1>2. Agree(status, queue, core_running) /\ PidsLive(status, pid) /\ halt # "drain"
  BY DEF CInv, DrainsEnd
<1>3. t \in Slots
  BY Scans DEF kill_task
<1>4. /\ \A d \in Cores \ {c} : core_running[d] # t
      /\ halt' = IF kill_drain_hangs(w) THEN "drain" ELSE halt
      /\ pid' = [pid EXCEPT ![t] = 0]
      /\ process_id' = process_id
  BY DEF kill_task, LocalKills
<1>5. halt' # "drain"
  BY <1>2, <1>3, <1>4, NoHangs
<1>6. \/ st2[t] = "RUNNING" /\ do_scheduler(c, st3, q2)
      \/ status' = st3 /\ queue' = q3 /\ core_running' = core_running /\ st2[t] # "RUNNING"
      \/ /\ status' = st2 /\ queue' = q2 /\ core_running' = core_running
         /\ st2[t] \notin {"RUNNING", "BLOCKED", "READY"}
  BY DEF kill_task
<1>7. WaitQ(t) \in QueueId /\ WaitQ(t) # ReadyQ
  BY <1>3, QueueNames
<1>8. w \in Seq(Slots) /\ IsInjective(w) /\ \A x \in Range(w) : On(queue, x)
  BY <1>1, <1>2, <1>7, QueueWakes DEF Agree
<1>9. Range(q1[WaitQ(t)]) = {}
  <2>1. Range(q1[WaitQ(t)]) = Range(queue[WaitQ(t)]) \ Range(w)
    <3> HIDE DEF w, t
    <3> QED BY <1>1, <1>7, <1>8, Unblock
  <2> QED BY <2>1
<1> HIDE DEF w
<1>10. /\ st1 \in StatusType /\ q1 \in QueuesType
       /\ Agree(st1, q1, core_running) /\ PidsLive(st1, pid)
  BY <1>1, <1>2, <1>8, WakeAgrees
<1> HIDE DEF st1, q1
<1>11. woken \in Seq(Slots) /\ IsInjective(woken) /\ \A x \in Range(woken) : On(q1, x)
  BY <1>10, SuccessorsWake DEF Agree
<1> HIDE DEF woken
<1>12. /\ st2 \in StatusType /\ q2 \in QueuesType
       /\ Agree(st2, q2, core_running) /\ PidsLive(st2, pid)
  BY <1>1, <1>10, <1>11, WakeAgrees
<1>13. Range(q2[WaitQ(t)]) = {}
  <2>1. Range(q2[WaitQ(t)]) = Range(q1[WaitQ(t)]) \ Range(woken)
    <3> HIDE DEF t
    <3> QED BY <1>7, <1>10, <1>11, Unblock
  <2> QED BY <1>9, <2>1
<1> HIDE DEF t, st2, q2
<1>14. \A x \in Slots \ {t} : pid'[x] = pid[x]
  BY <1>1, <1>3, <1>4
<1>15. ASSUME NEW D \in SUBSET Cores, \A d \in D : core_running[d] # t
       PROVE  /\ st3 \in StatusType /\ q3 \in QueuesType
              /\ Lists(q3) /\ Tasks(st3, q3) /\ OnCores(st3, core_running, D)
              /\ PidsLive(st3, pid')
  <2>1. /\ st3 \in StatusType /\ q3 \in QueuesType
        /\ Lists(q3) /\ Tasks(st3, q3) /\ OnCores(st3, core_running, D)
        /\ \A pd, pd1 : PidsLive(st2, pd) /\ (\A x \in Slots \ {t} : pd1[x] = pd[x])
                           => PidsLive(st3, pd1)
    BY <1>1, <1>3, <1>12, <1>13, <1>15, ExitKeeps, ZenonT(60)
  <2> HIDE DEF st3, q3
  <2> QED BY <1>12, <1>14, <2>1
<1>16. CASE st2[t] = "RUNNING" /\ do_scheduler(c, st3, q2)
  <2>1. ~On(q2, t)
    BY <1>3, <1>12, <1>16 DEF Agree, Tasks
  <2>2. q3 = q2
    BY <1>12, <2>1, DelAbsent
  <2>3. /\ st3 \in StatusType /\ Lists(q2) /\ Tasks(st3, q2)
        /\ OnCores(st3, core_running, Cores \ {c}) /\ PidsLive(st3, pid')
    BY <1>4, <1>15, <2>2
  <2> HIDE DEF st3, q3
  <2>4. Agree(status', queue', core_running') /\ PidsLive(status', pid')
    BY <1>1, <1>12, <1>16, <2>3, ScheduleAgrees
  <2> QED BY <1>4, <1>5, <2>4, AgreeStep
<1>17. CASE status' = st3 /\ queue' = q3 /\ core_running' = core_running /\ st2[t] # "RUNNING"
  <2>1. \A d \in Cores : core_running[d] # t
    <3>1. \A d \in Cores : core_running[d] = t => st2[t] = "RUNNING"
      <4>1. Pid0 \notin Slots
        BY SchedAssumption DEF Pid0, Slots
      <4> QED BY <1>3, <1>12, <4>1 DEF Agree, OnCores
    <3> QED BY <1>17, <3>1
  <2>2. Agree(status', queue', core_running') /\ PidsLive(status', pid')
    BY <1>15, <1>17, <2>1 DEF Agree
  <2> QED BY <1>4, <1>5, <2>2, AgreeStep
<1>18. CASE /\ status' = st2 /\ queue' = q2 /\ core_running' = core_running
            /\ st2[t] \notin {"RUNNING", "BLOCKED", "READY"}
  <2>1. st2[t] \in Free
    BY <1>3, <1>12, <1>18 DEF StatusType, Statuses, Free
  <2>2. PidsLive(status', pid')
    BY <1>12, <1>14, <1>18, <2>1 DEF PidsLive
  <2> QED BY <1>4, <1>5, <1>12, <1>18, <2>2, AgreeStep
<1> QED
  BY <1>6, <1>16, <1>17, <1>18

\* do_kill of any PCB.
LEMMA KillAgrees ==
    ASSUME TypeOK, CInv, LocalKills, NEW c \in Cores, NEW v \in Pids, do_kill(c, v)
    PROVE  CInv'
<1>1. CASE kill_task(c, v)
  BY <1>1, KillTaskAgrees
<1>2. CASE kill_unused(c, v)
  <2>1. UNCHANGED <<status, pid, queue, core_running, process_id>> /\ halt' # "drain"
    BY <1>2 DEF kill_unused
  <2>2. Agree(status', queue', core_running') /\ PidsLive(status', pid')
    BY <2>1 DEF CInv
  <2> QED BY <2>1, <2>2, AgreeStep
<1> QED
  BY <1>1, <1>2 DEF do_kill

-----------------------------------------------------------------------------
(* The calls of the locks *)

\* Moving tasks between lists, but not off the ready queue nor onto a
\* wait_list, keeps what is known of the statuses.
LEMMA MoveKeeps ==
    ASSUME NEW st, NEW q, NEW q2, Tasks(st, q),
           \A x \in Slots : On(q2, x) => On(q, x),
           Range(q[ReadyQ]) \subseteq Range(q2[ReadyQ]),
           \A x \in Slots : Range(q2[WaitQ(x)]) \subseteq Range(q[WaitQ(x)])
    PROVE  Tasks(st, q2)
BY DEF Tasks

\* The mutex calls.
LEMMA MutexAgrees ==
    ASSUME TypeOK, CInv, NEW c \in Cores,
           \/ \E key \in Keys : do_mutex_lock_init(c, key)
           \/ \E m \in Mutexes : do_mutex_lock_acquire(c, m)
           \/ \E m \in Mutexes : do_mutex_lock_release(c, m)
    PROVE  CInv'
<1>1. status \in StatusType /\ queue \in QueuesType /\ core_running \in CoresType
  BY TypeParts
<1>2. Agree(status, queue, core_running) /\ PidsLive(status, pid) /\ halt # "drain"
  BY DEF CInv, DrainsEnd
<1>3. ASSUME NEW key \in Keys, do_mutex_lock_init(c, key) PROVE CInv'
  <2>1. /\ halt' = halt \/ halt' = "spin"
        /\ UNCHANGED <<status, queue, core_running, pid, process_id>>
    BY <1>3 DEF do_mutex_lock_init
  <2> QED BY <1>2, <2>1, QuietStep
<1>4. ASSUME NEW m \in Mutexes, do_mutex_lock_acquire(c, m) PROVE CInv'
  <2>1. core_running[c] # Pid0 /\ UNCHANGED <<pid, process_id, halt>>
    BY <1>4 DEF do_mutex_lock_acquire, Calls
  <2>2. CASE mlocks[m].status = "UNLOCKED"
    <3>1. UNCHANGED <<status, queue, core_running>>
      BY <1>4, <2>2 DEF do_mutex_lock_acquire
    <3> QED BY <1>2, <2>1, <3>1, QuietStep
  <2>3. CASE mlocks[m].status # "UNLOCKED"
    <3>1. do_scheduler(c, set_status(status, {core_running[c]}, "BLOCKED"),
                          add_queue(queue, MutexQ(m), core_running[c]))
      BY <1>4, <2>3 DEF do_mutex_lock_acquire
    <3>2. MutexQ(m) \in QueueId /\ MutexQ(m) # ReadyQ /\ \A x \in Slots : MutexQ(m) # WaitQ(x)
      BY QueueNames
    <3>3. Agree(status', queue', core_running') /\ PidsLive(status', pid')
      BY <2>1, <3>1, <3>2, BlockAgrees
    <3> QED BY <1>2, <2>1, <3>3, AgreeStep
  <2> QED BY <2>2, <2>3
<1>5. ASSUME NEW m \in Mutexes, do_mutex_lock_release(c, m) PROVE CInv'
  <2> DEFINE woken == Successors(queue, {m})
  <2>1. /\ status' = set_status(status, Range(woken), "READY")
        /\ queue' = do_unblock(queue, woken)
        /\ UNCHANGED <<pid, process_id, halt, core_running>>
    BY <1>5 DEF do_mutex_lock_release
  <2>2. woken \in Seq(Slots) /\ IsInjective(woken) /\ \A x \in Range(woken) : On(queue, x)
    BY <1>1, <1>2, SuccessorsWake DEF Agree
  <2> HIDE DEF woken
  <2>3. Agree(status', queue', core_running') /\ PidsLive(status', pid')
    BY <1>1, <1>2, <2>1, <2>2, WakeAgrees
  <2> QED BY <1>2, <2>1, <2>3, AgreeStep
<1> QED
  BY <1>3, <1>4, <1>5

\* The barrier calls.
LEMMA BarrierAgrees ==
    ASSUME TypeOK, CInv, NEW c \in Cores,
           \/ \E g \in Goals : do_barrier_init(c, g)
           \/ \E b \in Barriers : do_barrier_wait(c, b)
           \/ \E b \in Barriers : do_barrier_destroy(c, b)
    PROVE  CInv'
<1>1. status \in StatusType /\ queue \in QueuesType /\ core_running \in CoresType
  BY TypeParts
<1>2. Agree(status, queue, core_running) /\ PidsLive(status, pid) /\ halt # "drain"
  BY DEF CInv, DrainsEnd
<1>3. ASSUME \/ \E g \in Goals : do_barrier_init(c, g)
             \/ \E b \in Barriers : do_barrier_destroy(c, b)
      PROVE  CInv'
  <2>1. UNCHANGED schedVars
    BY <1>3 DEF do_barrier_init, do_barrier_destroy
  <2> QED BY <1>2, <2>1, QuietStep DEF schedVars
<1>4. ASSUME NEW b \in Barriers, do_barrier_wait(c, b) PROVE CInv'
  <2> DEFINE w == queue[BarrierQ(b)]
             st == set_status(status, Range(w), "READY")
             q == do_unblock(queue, w)
  <2>1. core_running[c] # Pid0 /\ UNCHANGED <<pid, process_id, halt>>
    BY <1>4 DEF do_barrier_wait, Calls
  <2>2. BarrierQ(b) \in QueueId /\ BarrierQ(b) # ReadyQ /\ \A x \in Slots : BarrierQ(b) # WaitQ(x)
    BY QueueNames
  <2>3. CASE LastArrival(b)
    <3>1. do_scheduler(c, st, q)
      BY <1>4, <2>3 DEF do_barrier_wait
    <3>2. w \in Seq(Slots) /\ IsInjective(w) /\ \A x \in Range(w) : On(queue, x)
      BY <1>1, <1>2, <2>2, QueueWakes DEF Agree
    <3> HIDE DEF w
    <3>3. /\ st \in StatusType /\ q \in QueuesType
          /\ Agree(st, q, core_running) /\ PidsLive(st, pid)
      BY <1>1, <1>2, <3>2, WakeAgrees
    <3> HIDE DEF st, q
    <3>4. /\ Lists(q) /\ Tasks(st, q)
          /\ OnCores(st, core_running, Cores \ {c}) /\ PidsLive(st, pid')
      BY <2>1, <3>3, OtherCores DEF Agree
    <3>5. Agree(status', queue', core_running') /\ PidsLive(status', pid')
      BY <1>1, <3>1, <3>3, <3>4, ScheduleAgrees
    <3> QED BY <1>2, <2>1, <3>5, AgreeStep
  <2>4. CASE ~LastArrival(b)
    <3>1. do_scheduler(c, set_status(status, {core_running[c]}, "BLOCKED"),
                          add_queue(queue, BarrierQ(b), core_running[c]))
      BY <1>4, <2>4 DEF do_barrier_wait
    <3>2. Agree(status', queue', core_running') /\ PidsLive(status', pid')
      BY <2>1, <2>2, <3>1, BlockAgrees
    <3> QED BY <1>2, <2>1, <3>2, AgreeStep
  <2> QED BY <2>3, <2>4
<1> QED
  BY <1>3, <1>4

\* do_condition_wait: the caller blocks, then the mutex is handed on.
LEMMA CondWaitAgrees ==
    ASSUME TypeOK, CInv, NEW c \in Cores, NEW k \in Conditions, NEW m \in Mutexes,
           do_condition_wait(c, k, m)
    PROVE  CInv'
<1> DEFINE p == core_running[c]
           woken == Successors(queue, {m})
           st1 == set_status(status, {p}, "BLOCKED")
           q1 == add_queue(queue, CondQ(k), p)
           st2 == set_status(st1, Range(woken), "READY")
           q2 == do_unblock(q1, woken)
<1>1. status \in StatusType /\ queue \in QueuesType /\ core_running \in CoresType
  BY TypeParts
<1>2. Agree(status, queue, core_running) /\ PidsLive(status, pid) /\ halt # "drain"
  BY DEF CInv, DrainsEnd
<1>3. p # Pid0 /\ UNCHANGED <<pid, process_id, halt>> /\ do_scheduler(c, st2, q2)
  BY DEF do_condition_wait, Calls
<1>4. CondQ(k) \in QueueId /\ CondQ(k) # ReadyQ /\ \A x \in Slots : CondQ(k) # WaitQ(x)
  BY QueueNames
<1>5. p \in Slots /\ status[p] = "RUNNING"
  BY <1>1, <1>2, <1>3 DEF CoresType, Agree, OnCores
<1>6. Lists(q1) /\ Tasks(st1, q1) /\ OnCores(st1, core_running, Cores \ {c})
  BY <1>1, <1>2, <1>3, <1>4, BlockKeeps DEF Agree
<1>7. st1 \in StatusType /\ \A x \in Slots : st1[x] = IF x = p THEN "BLOCKED" ELSE status[x]
  BY <1>1, SetStatus DEF Statuses
<1>8. /\ q1 \in QueuesType
      /\ Range(q1[CondQ(k)]) = Range(queue[CondQ(k)]) \cup {p}
      /\ \A R \in QueueId : R # CondQ(k) => q1[R] = queue[R]
  <2>1. q1 \in QueuesType
    BY <1>1, <1>4, <1>5, AddQueue
  <2>2. Range(q1[CondQ(k)]) = Range(queue[CondQ(k)]) \cup {p}
    BY <1>1, <1>4, <1>5, AddQueue
  <2>3. \A R \in QueueId : R # CondQ(k) => q1[R] = queue[R]
    BY <1>1, <1>4, <1>5, AddQueue
  <2> QED BY <2>1, <2>2, <2>3
<1>9. woken \in Seq(Slots) /\ IsInjective(woken) /\ \A x \in Range(woken) : On(queue, x)
  BY <1>1, <1>2, SuccessorsWake DEF Agree
<1> HIDE DEF st1, q1, woken
<1>10. \A x \in Range(woken) : On(q1, x)
  BY <1>4, <1>8, <1>9 DEF On
<1>11. /\ st2 \in StatusType /\ q2 \in QueuesType
  BY <1>7, <1>8, <1>9, SetStatus, Unblock DEF Statuses
<1>12. /\ Lists(q2) /\ Tasks(st2, q2)
       /\ \A x \in Slots : st1[x] = "RUNNING" <=> st2[x] = "RUNNING"
       /\ \A x \in Slots : st1[x] \in Free <=> st2[x] \in Free
  BY <1>6, <1>7, <1>8, <1>9, <1>10, WakeKeeps
<1> HIDE DEF st2, q2
<1>13. OnCores(st2, core_running, Cores \ {c})
  BY <1>1, <1>6, <1>12, SameRunning
<1>14. PidsLive(st2, pid')
  BY <1>2, <1>3, <1>5, <1>7, <1>12 DEF PidsLive, Free
<1>15. Agree(status', queue', core_running') /\ PidsLive(status', pid')
  BY <1>1, <1>3, <1>11, <1>12, <1>13, <1>14, ScheduleAgrees
<1> QED
  BY <1>2, <1>3, <1>15, AgreeStep

\* A task that waits for a condition is BLOCKED, and on no other list.
LEMMA CondWaiters ==
    ASSUME TypeOK, CInv, NEW k \in Conditions, NEW s \in Range(queue[CondQ(k)])
    PROVE  /\ s \in Slots /\ On(queue, s) /\ status[s] = "BLOCKED"
           /\ \A Q \in QueueId : Q # CondQ(k) => s \notin Range(queue[Q])
<1>1. /\ CondQ(k) \in QueueId /\ CondQ(k) # ReadyQ /\ ReadyQ \in QueueId
  BY QueueNames
<1>2. queue[CondQ(k)] \in Seq(Slots)
  BY <1>1, TypeParts DEF QueuesType
<1>3. s \in Slots /\ On(queue, s)
  BY <1>1, <1>2, RangeOfList DEF On
<1>4. \A Q \in QueueId : Q # CondQ(k) => s \notin Range(queue[Q])
  BY <1>1 DEF CInv, Agree, Lists
<1> QED
  BY <1>1, <1>3, <1>4 DEF CInv, Agree, Tasks

\* do_condition_signal: the first waiter goes to the queue of the mutex.
LEMMA CondSignalAgrees ==
    ASSUME TypeOK, CInv, NEW c \in Cores, NEW k \in Conditions, do_condition_signal(c, k)
    PROVE  CInv'
<1> DEFINE m == conditions[k].lock_idx
           s == Head(queue[CondQ(k)])
           q1 == del_queue(queue, {s})
           q2 == add_queue(q1, MutexQ(m), s)
<1>1. status \in StatusType /\ queue \in QueuesType /\ core_running \in CoresType
  BY TypeParts
<1>2. Agree(status, queue, core_running) /\ PidsLive(status, pid) /\ halt # "drain"
  BY DEF CInv, DrainsEnd
<1>3. pid' = pid /\ process_id' = process_id
  BY DEF do_condition_signal
<1>4. CASE queue[CondQ(k)] = <<>>
  <2>1. halt' = "list" /\ UNCHANGED <<status, queue, core_running>>
    BY <1>4 DEF do_condition_signal
  <2> QED BY <1>3, <2>1, QuietStep
<1>5. CASE queue[CondQ(k)] # <<>>
  <2>1. halt' = halt
    BY <1>5 DEF do_condition_signal
  <2>2. /\ s \in Slots /\ On(queue, s) /\ status[s] = "BLOCKED"
        /\ \A Q \in QueueId : Q # CondQ(k) => s \notin Range(queue[Q])
    BY <1>1, <1>5, CondHead, CondWaiters
  <2>3. /\ q1 \in QueuesType /\ Lists(q1)
        /\ \A Q \in QueueId : Range(q1[Q]) = Range(queue[Q]) \ {s}
    BY <1>1, <1>2, DelQueue DEF Agree
  <2>4. /\ ReadyQ \in QueueId /\ ReadyQ # CondQ(k) /\ ReadyQ # MutexQ(m)
        /\ \A x \in Slots : WaitQ(x) \in QueueId /\ WaitQ(x) # MutexQ(m)
    BY QueueNames
  <2>5. CASE mlocks[m].status = "UNLOCKED"
    <3>1. queue' = q1 /\ UNCHANGED <<status, core_running>>
      BY <1>5, <2>5 DEF do_condition_signal
    <3> HIDE DEF s, q1, m
    <3>2. Tasks(status, q1)
      <4>1. \A x \in Slots : On(q1, x) => On(queue, x)
        BY <2>3 DEF On
      <4>2. Range(queue[ReadyQ]) \subseteq Range(q1[ReadyQ])
        BY <2>2, <2>3, <2>4
      <4>3. \A x \in Slots : Range(q1[WaitQ(x)]) \subseteq Range(queue[WaitQ(x)])
        BY <2>3, <2>4
      <4> QED BY <1>2, <4>1, <4>2, <4>3, MoveKeeps DEF Agree
    <3>3. Agree(status', queue', core_running') /\ PidsLive(status', pid')
      BY <1>2, <1>3, <2>3, <3>1, <3>2 DEF Agree
    <3> QED BY <1>2, <1>3, <2>1, <3>3, AgreeStep
  <2>6. CASE mlocks[m].status # "UNLOCKED"
    <3>1. do_scheduler(c, set_status(status, {s}, "BLOCKED"), q2)
      BY <1>5, <2>6 DEF do_condition_signal
    <3> HIDE DEF s, q1, m
    <3>2. set_status(status, {s}, "BLOCKED") = status
      BY <1>1, <2>2 DEF set_status, StatusType
    <3>3. ~On(q1, s)
      BY <2>3 DEF On
    <3>4. /\ q2 \in QueuesType /\ Lists(q2)
          /\ \A Q \in QueueId : Q # MutexQ(m) => q2[Q] = q1[Q]
          /\ \A x \in Slots : On(q2, x) => On(queue, x)
      <4>1. CASE MutexQ(m) \in QueueId
        <5>1. q2 \in QueuesType /\ Lists(q2)
          BY <2>2, <2>3, <3>3, <4>1, AddQueue
        <5>2. Range(q2[MutexQ(m)]) = Range(q1[MutexQ(m)]) \cup {s}
          BY <2>2, <2>3, <4>1, AddQueue
        <5>3. \A Q \in QueueId : Q # MutexQ(m) => q2[Q] = q1[Q]
          BY <2>2, <2>3, <4>1, AddQueue
        <5> HIDE DEF q2
        <5>4. \A x \in Slots : On(q2, x) => On(queue, x)
          BY <2>2, <2>3, <5>2, <5>3 DEF On
        <5> QED BY <5>1, <5>3, <5>4
      <4>2. CASE MutexQ(m) \notin QueueId
        <5>1. q2 = q1
          BY <2>3, <4>2, NoSuchIndex
        <5>2. \A x \in Slots : On(q1, x) => On(queue, x)
          BY <2>3 DEF On
        <5> QED BY <2>3, <5>1, <5>2
      <4> QED BY <4>1, <4>2
    <3> HIDE DEF q2
    <3>5. Tasks(status, q2)
      <4>1. Range(queue[ReadyQ]) \subseteq Range(q2[ReadyQ])
        BY <2>2, <2>3, <2>4, <3>4
      <4>2. \A x \in Slots : Range(q2[WaitQ(x)]) \subseteq Range(queue[WaitQ(x)])
        BY <2>3, <2>4, <3>4
      <4> QED BY <1>2, <3>4, <4>1, <4>2, MoveKeeps DEF Agree
    <3>6. OnCores(status, core_running, Cores \ {c}) /\ PidsLive(status, pid')
      BY <1>2, <1>3, OtherCores DEF Agree
    <3>7. Agree(status', queue', core_running') /\ PidsLive(status', pid')
      BY <1>1, <3>1, <3>2, <3>4, <3>5, <3>6, ScheduleAgrees
    <3> QED BY <1>2, <1>3, <2>1, <3>7, AgreeStep
  <2> QED BY <2>5, <2>6
<1> QED
  BY <1>4, <1>5

\* The lists do_condition_broadcast makes link nobody twice, lose nobody
\* from the ready queue and put nobody on a wait_list.
LEMMA BroadcastKeeps ==
    ASSUME TypeOK, CInv, NEW k \in Conditions, NEW m
    PROVE  /\ Lists(BroadcastLists(k, m))
           /\ \A x \in Slots : On(BroadcastLists(k, m), x) => On(queue, x)
           /\ Range(queue[ReadyQ]) \subseteq Range(BroadcastLists(k, m)[ReadyQ])
           /\ \A x \in Slots : BroadcastLists(k, m)[WaitQ(x)] = queue[WaitQ(x)]
<1> DEFINE w == queue[CondQ(k)]
           q1 == [queue EXCEPT ![CondQ(k)] = <<>>]
           h == Head(w)
           u == Tail(w)
           q2 == add_queue(q1, ReadyQ, h)
<1>1. queue \in QueuesType /\ Lists(queue)
  BY TypeParts DEF CInv, Agree
<1>2. /\ CondQ(k) \in QueueId /\ ReadyQ \in QueueId /\ ReadyQ # CondQ(k) /\ ReadyQ # MutexQ(m)
      /\ \A x \in Slots : /\ WaitQ(x) \in QueueId /\ WaitQ(x) # MutexQ(m)
                           /\ WaitQ(x) # CondQ(k) /\ WaitQ(x) # ReadyQ
  BY QueueNames
<1>3. /\ w \in Seq(Slots) /\ IsInjective(w)
      /\ \A x \in Range(w) : /\ x \in Slots /\ On(queue, x)
                              /\ \A Q \in QueueId : Q # CondQ(k) => x \notin Range(queue[Q])
  BY <1>1, <1>2, CondWaiters, QueueWakes
<1>4. w # <<>> => /\ h \in Range(w) /\ u \in Seq(Slots) /\ IsInjective(u)
                  /\ h \notin Range(u) /\ Range(u) \subseteq Range(w)
  BY <1>3, HeadTailNodes
<1>5. /\ q1 \in QueuesType
      /\ Range(q1[CondQ(k)]) = {} /\ IsInjective(q1[CondQ(k)])
      /\ \A Q \in QueueId : Q # CondQ(k) => q1[Q] = queue[Q]
  <2>1. q1 \in QueuesType
    BY <1>1, CondHead
  <2>2. q1[CondQ(k)] = <<>> /\ \A Q \in QueueId : Q # CondQ(k) => q1[Q] = queue[Q]
    BY <1>1, <1>2 DEF QueuesType
  <2>3. Range(<<>>) = {} /\ IsInjective(<<>>)
    BY DEF Range, IsInjective
  <2> QED BY <2>1, <2>2, <2>3
<1>6. BroadcastLists(k, m) =
        IF w = <<>> THEN q1
        ELSE IF mlocks[m].status = "UNLOCKED" THEN AddAll(q2, MutexQ(m), u)
             ELSE AddAll(q1, MutexQ(m), w)
  BY DEF BroadcastLists
<1> HIDE DEF q1, w, h, u
<1>7. Lists(q1)
  BY <1>1, <1>5 DEF Lists, QueuesType
<1>8. \A x \in Slots : On(q1, x) => On(queue, x)
  BY <1>5 DEF On
<1>9. \A x \in Range(w) : ~On(q1, x)
  BY <1>3, <1>5 DEF On
<1>10. ASSUME NEW q \in QueuesType, Lists(q), NEW z \in Seq(Slots), IsInjective(z),
              Range(z) \subseteq Range(w), \A x \in Range(z) : ~On(q, x),
              \A x \in Slots : On(q, x) => On(queue, x),
              Range(queue[ReadyQ]) \subseteq Range(q[ReadyQ]),
              \A x \in Slots : q[WaitQ(x)] = queue[WaitQ(x)]
       PROVE  /\ Lists(AddAll(q, MutexQ(m), z))
              /\ \A x \in Slots : On(AddAll(q, MutexQ(m), z), x) => On(queue, x)
              /\ Range(queue[ReadyQ]) \subseteq Range(AddAll(q, MutexQ(m), z)[ReadyQ])
              /\ \A x \in Slots : AddAll(q, MutexQ(m), z)[WaitQ(x)] = queue[WaitQ(x)]
  <2> DEFINE r == AddAll(q, MutexQ(m), z)
  <2>1. CASE MutexQ(m) \in QueueId
    <3>1. Lists(r)
      BY <1>10, <2>1, AddQueues
    <3>2. Range(r[MutexQ(m)]) = Range(q[MutexQ(m)]) \cup Range(z)
      BY <2>1, AddQueues
    <3>3. \A R \in QueueId : R # MutexQ(m) => r[R] = q[R]
      BY <2>1, AddQueues
    <3> HIDE DEF r
    <3>4. \A x \in Slots : On(r, x) => On(q, x) \/ x \in Range(w)
      BY <1>10, <2>1, <3>2, <3>3 DEF On
    <3>5. \A x \in Slots : On(r, x) => On(queue, x)
      BY <1>3, <1>10, <3>4
    <3>6. Range(queue[ReadyQ]) \subseteq Range(r[ReadyQ])
      BY <1>2, <1>10, <3>3
    <3>7. \A x \in Slots : r[WaitQ(x)] = queue[WaitQ(x)]
      BY <1>2, <1>10, <3>3
    <3> QED BY <3>1, <3>5, <3>6, <3>7 DEF r
  <2>2. CASE MutexQ(m) \notin QueueId
    <3>1. r = q
      BY <2>2, NoSuchIndex
    <3> QED BY <1>10, <3>1
  <2> QED BY <2>1, <2>2
<1>11. Range(queue[ReadyQ]) = Range(q1[ReadyQ]) /\ \A x \in Slots : q1[WaitQ(x)] = queue[WaitQ(x)]
  BY <1>2, <1>5
<1>12. CASE w = <<>>
  BY <1>6, <1>7, <1>8, <1>11, <1>12
<1>13. CASE w # <<>> /\ mlocks[m].status # "UNLOCKED"
  <2>1. BroadcastLists(k, m) = AddAll(q1, MutexQ(m), w)
    BY <1>6, <1>13
  <2> QED BY <1>3, <1>5, <1>7, <1>8, <1>9, <1>10, <1>11, <2>1
<1>14. CASE w # <<>> /\ mlocks[m].status = "UNLOCKED"
  <2>1. BroadcastLists(k, m) = AddAll(q2, MutexQ(m), u)
    BY <1>6, <1>14
  <2>2. h \in Slots /\ ~On(q1, h)
    BY <1>3, <1>4, <1>9, <1>14
  <2>3. q2 \in QueuesType /\ Lists(q2)
    BY <1>2, <1>5, <1>7, <2>2, AddQueue
  <2>4. Range(q2[ReadyQ]) = Range(q1[ReadyQ]) \cup {h}
    <3>1. q1 \in QueuesType /\ ReadyQ \in QueueId /\ h \in Slots
      BY <1>2, <1>5, <2>2
    <3> QED BY <3>1, AddQueue
  <2>5. \A R \in QueueId : R # ReadyQ => q2[R] = q1[R]
    BY <1>2, <1>5, <2>2, AddQueue
  <2> HIDE DEF q2
  <2>6. \A x \in Slots : On(q2, x) => x = h \/ On(q1, x)
    BY <2>4, <2>5 DEF On
  <2>7. \A x \in Range(u) : ~On(q2, x)
    BY <1>3, <1>4, <1>9, <1>14, <2>6
  <2>8. \A x \in Slots : On(q2, x) => On(queue, x)
    BY <1>3, <1>4, <1>8, <1>14, <2>6
  <2>9. /\ Range(queue[ReadyQ]) \subseteq Range(q2[ReadyQ])
        /\ \A x \in Slots : q2[WaitQ(x)] = queue[WaitQ(x)]
    BY <1>2, <1>11, <2>4, <2>5
  <2> QED BY <1>4, <1>10, <1>14, <2>1, <2>3, <2>7, <2>8, <2>9
<1> QED
  BY <1>12, <1>13, <1>14

\* The condition calls.
LEMMA ConditionAgrees ==
    ASSUME TypeOK, CInv, NEW c \in Cores,
           \/ do_condition_init(c)
           \/ \E k \in Conditions, m \in Mutexes : do_condition_wait(c, k, m)
           \/ \E k \in Conditions : do_condition_signal(c, k)
           \/ \E k \in Conditions : do_condition_broadcast(c, k)
           \/ \E k \in Conditions : do_condition_destroy(c, k)
    PROVE  CInv'
<1>1. status \in StatusType /\ queue \in QueuesType /\ core_running \in CoresType
  BY TypeParts
<1>2. Agree(status, queue, core_running) /\ PidsLive(status, pid) /\ halt # "drain"
  BY DEF CInv, DrainsEnd
<1>3. ASSUME do_condition_init(c) \/ \E k \in Conditions : do_condition_destroy(c, k)
      PROVE  CInv'
  <2>1. UNCHANGED schedVars
    BY <1>3 DEF do_condition_init, do_condition_destroy
  <2> QED BY <1>2, <2>1, QuietStep DEF schedVars
<1>4. ASSUME NEW k \in Conditions, do_condition_broadcast(c, k) PROVE CInv'
  <2> DEFINE m == conditions[k].lock_idx
             q == BroadcastLists(k, m)
  <2>1. do_scheduler(c, status, q) /\ UNCHANGED <<pid, process_id, halt>>
    BY <1>4, ZenonT(60) DEF do_condition_broadcast, BroadcastLists, AddAll
  <2> HIDE DEF m
  <2>2. /\ q \in QueuesType /\ Lists(q)
        /\ \A x \in Slots : On(q, x) => On(queue, x)
        /\ Range(queue[ReadyQ]) \subseteq Range(q[ReadyQ])
        /\ \A x \in Slots : q[WaitQ(x)] = queue[WaitQ(x)]
    BY <1>1, BroadcastTypes, BroadcastKeeps
  <2> HIDE DEF q
  <2>3. Tasks(status, q)
    BY <1>2, <2>2, MoveKeeps DEF Agree
  <2>4. OnCores(status, core_running, Cores \ {c}) /\ PidsLive(status, pid')
    BY <1>2, <2>1, OtherCores DEF Agree
  <2>5. Agree(status', queue', core_running') /\ PidsLive(status', pid')
    BY <1>1, <2>1, <2>2, <2>3, <2>4, ScheduleAgrees
  <2> QED BY <1>2, <2>1, <2>5, AgreeStep, SMTT(40)
<1> QED
  BY <1>3, <1>4, CondWaitAgrees, CondSignalAgrees

-----------------------------------------------------------------------------
\* The invariant holds when main has set up the shell.
LEMMA CInit == KInit => CInv
<1> SUFFICES ASSUME KInit PROVE CInv
  OBVIOUS
<1>1. 0 \in Slots /\ Pid0 \notin Slots
  BY SchedAssumption DEF Slots, Pid0
<1>2. queue = [Q \in QueueId |-> IF Q = ReadyQ THEN <<0>> ELSE <<>>]
      /\ queue \in [QueueId -> Seq(Slots)]
  BY TypeInit DEF KInit, Init, TypeOK
<1>3. Range(<<0>>) = {0} /\ IsInjective(<<0>>) /\ Range(<<>>) = {} /\ IsInjective(<<>>)
  BY DEF Range, IsInjective
<1>4. /\ ReadyQ \in QueueId
      /\ \A x \in Slots : WaitQ(x) \in QueueId /\ WaitQ(x) # ReadyQ
  BY QueueNames
<1>5. Lists(queue)
  BY <1>2, <1>3 DEF Lists
<1>6. Tasks(status, queue)
  <2>1. \A x \in Slots : On(queue, x) => x = 0
    BY <1>2, <1>3 DEF On
  <2>2. \A x \in Slots : status[x] = IF x = 0 THEN "READY" ELSE "AVAILABLE"
    BY DEF KInit, Init
  <2>3. Range(queue[ReadyQ]) = {0} /\ \A x \in Slots : Range(queue[WaitQ(x)]) = {}
    BY <1>2, <1>3, <1>4
  <2> QED BY <2>1, <2>2, <2>3 DEF Tasks
<1>7. OnCores(status, core_running, Cores)
  BY DEF KInit, Init, OnCores
<1>8. PidsLive(status, pid) /\ process_id # 0 /\ DrainsEnd
  BY DEF KInit, Init, PidsLive, Free, DrainsEnd
<1> QED
  BY <1>5, <1>6, <1>7, <1>8 DEF CInv, Agree

\* Every handler on every core keeps it.
LEMMA CStep ==
    ASSUME TypeOK, CInv, LocalKills, [Next]_vars
    PROVE  CInv'
<1>1. halt # "drain"
  BY DEF CInv, DrainsEnd
<1>2. CASE UNCHANGED vars
  BY <1>1, <1>2, QuietStep DEF vars, schedVars
<1>3. CASE tick_step
  BY <1>1, <1>3, QuietStep DEF tick_step, Tick
<1>4. CASE Halted
  BY <1>2, <1>4 DEF Halted
<1>5. ASSUME NEW c \in Cores, timer_step(c) \/ sleep_step(c) PROVE CInv'
  <2>1. 0 .. MaxTime \subseteq Nat
    BY SchedAssumption
  <2>2. handle_irq_timer(c) \/ \E d \in Nat : do_sleep(c, d)
    BY <1>5, <2>1 DEF timer_step, sleep_step
  <2> QED BY <2>2, TimerAgrees
<1>6. ASSUME NEW c \in Cores, exec_step(c) \/ thread_step(c) PROVE CInv'
  BY <1>6, NewTaskAgrees DEF exec_step, thread_step
<1>7. ASSUME NEW c \in Cores, exit_step(c) PROVE CInv'
  BY <1>7, ExitAgrees DEF exit_step
<1>8. ASSUME NEW c \in Cores, waitpid_step(c) PROVE CInv'
  BY <1>8, WaitpidAgrees DEF waitpid_step
<1>9. ASSUME NEW c \in Cores, taskset_step(c) PROVE CInv'
  <2>1. /\ UNCHANGED <<status, queue, core_running, pid, process_id>>
        /\ halt' = halt \/ halt' = "assert"
    BY <1>9 DEF taskset_step, do_taskset_chg
  <2> QED BY <1>1, <2>1, QuietStep
<1> QED
  BY <1>2, <1>3, <1>4, <1>5, <1>6, <1>7, <1>8, <1>9, KillAgrees, MutexAgrees,
     BarrierAgrees, ConditionAgrees DEF Next

\* The inductive invariant holds in every reachable state.
THEOREM ConsistencyInvariant == Spec => []KInv
<1>1. KInit => KInv
  BY TypeInit, CInit DEF KInv
<1>2. KInv /\ [Next]_vars => KInv'
  <2> SUFFICES ASSUME KInv, [Next]_vars PROVE KInv'
    OBVIOUS
  <2>1. TypeOK'
    BY TypeStep DEF KInv
  <2>2. LocalKills => CInv'
    BY CStep DEF KInv
  <2> QED BY <2>1, <2>2 DEF KInv, LocalKills
<1> QED
  BY <1>1, <1>2, PTL DEF Spec

\* Unless a task running on another core is killed, every PCB is linked at
\* most once in all the lists of the kernel.
THEOREM PcbsLinkedOnce == Spec => [](LocalKills => OneQueue)
<1>1. KInv => (LocalKills => OneQueue)
  BY DEF KInv, CInv, Agree, Lists, OneQueue
<1> QED
  BY <1>1, ConsistencyInvariant, PTL

\* Under the same condition a PCB is RUNNING exactly while one core runs it,
\* and it is then on no list.
THEOREM PcbsRunOnce == Spec => [](LocalKills => RunningExactlyOnce)
<1>1. KInv => (LocalKills => RunningExactlyOnce)
  <2> SUFFICES ASSUME TypeOK, CInv PROVE RunningExactlyOnce
    BY DEF KInv
  <2>1. core_running \in CoresType
    BY TypeParts
  <2>2. Tasks(status, queue) /\ OnCores(status, core_running, Cores)
    BY DEF CInv, Agree
  <2>3. ASSUME NEW c \in Cores, core_running[c] # Pid0
        PROVE  /\ status[core_running[c]] = "RUNNING"
               /\ ~Queued(core_running[c])
               /\ \A d \in Cores : core_running[d] = core_running[c] => d = c
    <3>1. core_running[c] \in Slots /\ status[core_running[c]] = "RUNNING"
      BY <2>1, <2>2, <2>3 DEF CoresType, OnCores
    <3>2. ~On(queue, core_running[c])
      BY <2>2, <3>1 DEF Tasks
    <3> QED BY <2>2, <2>3, <3>1, <3>2 DEF OnCores, On, Queued
  <2> QED BY <2>2, <2>3 DEF RunningExactlyOnce, OnCores
<1> QED
  BY <1>1, ConsistencyInvariant, PTL

\* Under the same condition a slot that do_exec may reuse is on no list and
\* nobody waits for it.
THEOREM FreePcbsClean == Spec => [](LocalKills => FreeSlotsClean)
<1>1. KInv => (LocalKills => FreeSlotsClean)
  <2> SUFFICES ASSUME TypeOK, CInv, NEW p \in Slots, status[p] \in Free
               PROVE  ~Queued(p) /\ queue[WaitQ(p)] = <<>>
    BY DEF KInv, FreeSlotsClean
  <2>1. ~On(queue, p) /\ Range(queue[WaitQ(p)]) = {}
    BY DEF CInv, Agree, Tasks, Free
  <2>2. queue[WaitQ(p)] \in Seq(Slots)
    BY TypeParts, QueueNames DEF QueuesType
  <2> QED BY <2>1, <2>2, RangeOfList DEF On, Queued
<1> QED
  BY <1>1, ConsistencyInvariant, PTL

\* Under the same condition the loops of do_exit and do_kill that empty a
\* wait_list always end.
THEOREM WaitListLoopsEnd == Spec => [](LocalKills => DrainsEnd)
<1>1. KInv => (LocalKills => DrainsEnd)
  BY DEF KInv, CInv
<1> QED
  BY <1>1, ConsistencyInvariant, PTL
=============================================================================
