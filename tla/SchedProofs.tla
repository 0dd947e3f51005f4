---------------------------- MODULE SchedProofs ----------------------------
(***************************************************************************)
(* What the queue operations and do_scheduler preserve, for any number of  *)
(* tasks, cores and queues.  The state a handler works on is the pair of   *)
(* the statuses st and the lists q it hands to do_scheduler:               *)
(*   Lists(q)         no PCB is linked twice                               *)
(*   Tasks(st, q)     only READY and BLOCKED tasks are linked, all READY   *)
(*                    tasks are in the ready queue, and nobody waits for a *)
(*                    task that is gone                                    *)
(*   OnCores(st, cr, D)   the cores in D run different tasks, and these    *)
(*                    are RUNNING; every RUNNING task is on some core      *)
(* do_scheduler is entered with OnCores true of the other cores and leaves *)
(* it true of all (SchedulerKeeps).                                        *)
(***************************************************************************)
EXTENDS Sched, PcbListProofs

On(q, p) == \E Q \in QueueId : p \in Range(q[Q])

Lists(q) ==
    /\ q \in [QueueId -> Seq(Slots)]
    /\ \A Q \in QueueId : IsInjective(q[Q])
    /\ \A Q, R \in QueueId : Q # R => Range(q[Q]) \cap Range(q[R]) = {}

Tasks(st, q) ==
    /\ \A p \in Slots : On(q, p) => st[p] \in {"READY", "BLOCKED"}
    /\ \A p \in Slots : st[p] = "READY" => p \in Range(q[ReadyQ])
    /\ \A p \in Slots : Range(q[WaitQ(p)]) # {} => st[p] \notin Free

OnCores(st, cr, D) ==
    /\ \A c, d \in Cores : cr[c] = cr[d] /\ cr[c] # Pid0 => c = d
    /\ \A d \in D : cr[d] # Pid0 => st[cr[d]] = "RUNNING"
    /\ \A p \in Slots : st[p] = "RUNNING" => \E d \in Cores : cr[d] = p

QueuesType == [QueueId -> Seq(Slots)]
StatusType == [Slots -> Statuses]
CoresType == [Cores -> Slots \cup {Pid0}]

-----------------------------------------------------------------------------
(* Queues *)

\* The members of a list of PCBs are PCBs.
LEMMA RangeOfList ==
    ASSUME NEW S, NEW s \in Seq(S)
    PROVE  /\ Range(s) \subseteq S
           /\ s = <<>> <=> Range(s) = {}
<1>1. DOMAIN s = 1 .. Len(s) /\ Len(s) \in Nat /\ \A i \in 1 .. Len(s) : s[i] \in S
  BY LenProperties, ElementOfSeq
<1>2. Range(s) \subseteq S
  BY <1>1 DEF Range
<1>3. s = <<>> => Range(s) = {}
  BY DEF Range
<1>4. s # <<>> => Range(s) # {}
  BY HeadTailNodes
<1> QED
  BY <1>2, <1>3, <1>4

\* The names of the fixed queues.
LEMMA QueueNames ==
    /\ ReadyQ \in QueueId /\ SleepQ \in QueueId
    /\ \A p \in Slots : WaitQ(p) \in QueueId /\ WaitQ(p) # ReadyQ /\ WaitQ(p) # SleepQ
    /\ \A m \in Mutexes : MutexQ(m) \in QueueId
    /\ \A b \in Barriers : BarrierQ(b) \in QueueId
    /\ \A k \in Conditions : CondQ(k) \in QueueId
    /\ SleepQ # ReadyQ
    /\ \A p, r \in Slots : WaitQ(p) = WaitQ(r) => p = r
    /\ \A p \in Slots : \A m : WaitQ(p) # MutexQ(m) /\ WaitQ(p) # BarrierQ(m) /\ WaitQ(p) # CondQ(m)
    /\ \A m : ReadyQ # MutexQ(m) /\ ReadyQ # BarrierQ(m) /\ ReadyQ # CondQ(m)
    /\ \A m, k : MutexQ(m) # CondQ(k)
BY DEF QueueId, ReadyQ, SleepQ, WaitQ, MutexQ, BarrierQ, CondQ

\* del_queue takes the PCBs of S off all lists and changes nothing else.
LEMMA DelQueue ==
    ASSUME NEW q \in QueuesType, NEW S
    PROVE  /\ del_queue(q, S) \in QueuesType
           /\ \A Q \in QueueId : Range(del_queue(q, S)[Q]) = Range(q[Q]) \ S
           /\ Lists(q) => Lists(del_queue(q, S))
<1> DEFINE r == del_queue(q, S)
<1>1. \A Q \in QueueId : q[Q] \in Seq(Slots) /\ r[Q] = Without(q[Q], S)
  BY DEF QueuesType, del_queue
<1>2. \A Q \in QueueId : /\ r[Q] \in Seq(Slots)
                         /\ Range(r[Q]) = Range(q[Q]) \ S
                         /\ IsInjective(q[Q]) => IsInjective(r[Q])
  <2> HIDE DEF r
  <2> QED BY <1>1, WithoutProperties
<1>3. r \in QueuesType
  BY <1>2 DEF QueuesType, del_queue
<1> HIDE DEF r
<1>4. Lists(q) => Lists(r)
  BY <1>2, <1>3 DEF Lists, QueuesType
<1> QED
  BY <1>2, <1>3, <1>4 DEF r

AddAll(q, Q, u) == [q EXCEPT ![Q] = @ \o u]

\* Putting a list of PCBs that are on no list at the tail of one list.
LEMMA AddQueues ==
    ASSUME NEW q \in QueuesType, NEW Q \in QueueId, NEW u \in Seq(Slots)
    PROVE  /\ AddAll(q, Q, u) \in QueuesType
           /\ Range(AddAll(q, Q, u)[Q]) = Range(q[Q]) \cup Range(u)
           /\ \A R \in QueueId : R # Q => AddAll(q, Q, u)[R] = q[R]
           /\ Lists(q) /\ IsInjective(u) /\ (\A p \in Range(u) : ~On(q, p))
                 => Lists(AddAll(q, Q, u))
<1> DEFINE r == AddAll(q, Q, u)
<1>1. q[Q] \in Seq(Slots) /\ r[Q] = q[Q] \o u /\ \A R \in QueueId : R # Q => r[R] = q[R]
  BY DEF QueuesType, AddAll
<1>2. /\ r[Q] \in Seq(Slots)
      /\ Range(r[Q]) = Range(q[Q]) \cup Range(u)
      /\ IsInjective(q[Q]) /\ IsInjective(u) /\ Range(q[Q]) \cap Range(u) = {}
            => IsInjective(r[Q])
  <2> HIDE DEF r
  <2> QED BY <1>1, ConcatNodes
<1>3. r \in QueuesType
  BY <1>1, <1>2 DEF QueuesType, AddAll
<1> HIDE DEF r
<1>4. ASSUME Lists(q), IsInjective(u), \A p \in Range(u) : ~On(q, p) PROVE Lists(r)
  <2>1. \A R \in QueueId : Range(q[R]) \cap Range(u) = {}
    BY <1>4 DEF On
  <2>2. \A R \in QueueId : IsInjective(r[R])
    BY <1>1, <1>2, <1>4, <2>1 DEF Lists
  <2>3. ASSUME NEW R \in QueueId, NEW T \in QueueId, R # T
        PROVE  Range(r[R]) \cap Range(r[T]) = {}
    <3>1. CASE R = Q
      BY <1>1, <1>2, <1>4, <2>1, <2>3, <3>1 DEF Lists
    <3>2. CASE T = Q
      BY <1>1, <1>2, <1>4, <2>1, <2>3, <3>2 DEF Lists
    <3>3. CASE R # Q /\ T # Q
      BY <1>1, <1>4, <2>3, <3>3 DEF Lists
    <3> QED BY <3>1, <3>2, <3>3
  <2> QED BY <1>3, <2>2, <2>3 DEF Lists, QueuesType
<1> QED
  BY <1>1, <1>2, <1>3, <1>4 DEF r

\* add_queue of a PCB that is on no list.
LEMMA AddQueue ==
    ASSUME NEW q \in QueuesType, NEW Q \in QueueId, NEW p \in Slots
    PROVE  /\ add_queue(q, Q, p) \in QueuesType
           /\ Range(add_queue(q, Q, p)[Q]) = Range(q[Q]) \cup {p}
           /\ \A R \in QueueId : R # Q => add_queue(q, Q, p)[R] = q[R]
           /\ Lists(q) /\ ~On(q, p) => Lists(add_queue(q, Q, p))
<1> DEFINE r == add_queue(q, Q, p)
<1>1. q[Q] \in Seq(Slots) /\ r[Q] = Append(q[Q], p)
      /\ \A R \in QueueId : R # Q => r[R] = q[R]
  BY DEF QueuesType, add_queue
<1>2. /\ r[Q] \in Seq(Slots)
      /\ Range(r[Q]) = Range(q[Q]) \cup {p}
      /\ IsInjective(q[Q]) /\ p \notin Range(q[Q]) => IsInjective(r[Q])
  <2> HIDE DEF r
  <2> QED BY <1>1, AppendNodes
<1>3. r \in QueuesType
  BY <1>1, <1>2 DEF QueuesType, add_queue
<1> HIDE DEF r
<1>4. ASSUME Lists(q), ~On(q, p) PROVE Lists(r)
  <2>1. \A R \in QueueId : p \notin Range(q[R])
    BY <1>4 DEF On
  <2>2. \A R \in QueueId : IsInjective(r[R])
    BY <1>1, <1>2, <1>4, <2>1 DEF Lists
  <2>3. ASSUME NEW R \in QueueId, NEW T \in QueueId, R # T
        PROVE  Range(r[R]) \cap Range(r[T]) = {}
    <3>1. CASE R = Q
      BY <1>1, <1>2, <1>4, <2>1, <2>3, <3>1, ZenonT(60) DEF Lists
    <3>2. CASE T = Q
      BY <1>1, <1>2, <1>4, <2>1, <2>3, <3>2 DEF Lists
    <3>3. CASE R # Q /\ T # Q
      BY <1>1, <1>4, <2>3, <3>3 DEF Lists
    <3> QED BY <3>1, <3>2, <3>3
  <2> QED BY <1>3, <2>2, <2>3 DEF Lists, QueuesType
<1> QED
  BY <1>1, <1>2, <1>3, <1>4 DEF r

\* do_unblock moves the PCBs of woken to the ready queue.
LEMMA Unblock ==
    ASSUME NEW q \in QueuesType, NEW woken \in Seq(Slots)
    PROVE  /\ do_unblock(q, woken) \in QueuesType
           /\ Range(do_unblock(q, woken)[ReadyQ]) = Range(q[ReadyQ]) \cup Range(woken)
           /\ \A R \in QueueId : R # ReadyQ =>
                 Range(do_unblock(q, woken)[R]) = Range(q[R]) \ Range(woken)
           /\ Lists(q) /\ IsInjective(woken) => Lists(do_unblock(q, woken))
<1> DEFINE d == del_queue(q, Range(woken))
<1>1. /\ d \in QueuesType
      /\ \A Q \in QueueId : Range(d[Q]) = Range(q[Q]) \ Range(woken)
      /\ Lists(q) => Lists(d)
  BY DelQueue
<1>2. \A p \in Range(woken) : ~On(d, p)
  BY <1>1 DEF On
<1>3. do_unblock(q, woken) = AddAll(d, ReadyQ, woken)
  BY DEF do_unblock, AddAll
<1> DEFINE u == do_unblock(q, woken)
<1> HIDE DEF d
<1>4. ReadyQ \in QueueId
  BY QueueNames
<1>5. /\ u \in QueuesType
      /\ Range(u[ReadyQ]) = Range(d[ReadyQ]) \cup Range(woken)
      /\ \A R \in QueueId : R # ReadyQ => u[R] = d[R]
      /\ Lists(d) /\ IsInjective(woken) /\ (\A p \in Range(woken) : ~On(d, p)) => Lists(u)
  BY <1>1, <1>3, <1>4, AddQueues, SMTT(40)
<1> HIDE DEF u
<1>6. Range(u[ReadyQ]) = Range(q[ReadyQ]) \cup Range(woken)
  BY <1>1, <1>4, <1>5
<1>7. \A R \in QueueId : R # ReadyQ => Range(u[R]) = Range(q[R]) \ Range(woken)
  BY <1>1, <1>5
<1>8. Lists(q) /\ IsInjective(woken) => Lists(u)
  BY <1>1, <1>2, <1>5
<1> QED
  BY <1>5, <1>6, <1>7, <1>8 DEF u

-----------------------------------------------------------------------------
(* Types of the scheduler *)

\* set_status of any set of PCBs.
LEMMA SetStatus ==
    ASSUME NEW st \in StatusType, NEW S, NEW s \in Statuses
    PROVE  /\ set_status(st, S, s) \in StatusType
           /\ \A p \in Slots : set_status(st, S, s)[p] = IF p \in S THEN s ELSE st[p]
BY DEF StatusType, set_status

\* check_sleeping wakes some of the tasks of the sleep queue.
LEMMA ExpiredTasks ==
    ASSUME NEW q \in QueuesType
    PROVE  /\ Expired(q) \in Seq(Slots)
           /\ Range(Expired(q)) \subseteq Range(q[SleepQ])
           /\ Lists(q) => IsInjective(Expired(q))
<1> DEFINE s == q[SleepQ]
           I == {i \in DOMAIN s : time >= wakeup_time'[s[i]]}
<1>1. s \in Seq(Slots)
  BY QueueNames DEF QueuesType
<1>2. I \in SUBSET DOMAIN s
  OBVIOUS
<1>3. Expired(q) = SubList(s, I)
  BY DEF Expired
<1>4. Lists(q) => IsInjective(s)
  BY QueueNames DEF Lists
<1> HIDE DEF I, s
<1>5. /\ SubList(s, I) \in Seq(Slots)
      /\ Range(SubList(s, I)) = {s[i] : i \in I}
      /\ IsInjective(s) => IsInjective(SubList(s, I))
  BY <1>1, <1>2, SubListProperties
<1>6. {s[i] : i \in I} \subseteq Range(s)
  BY <1>2 DEF Range
<1> QED
  BY <1>3, <1>4, <1>5, <1>6 DEF s

\* The next task is the idle task or one of the ready list.
LEMMA PickNextTask ==
    ASSUME NEW c, NEW r \in Seq(Slots)
    PROVE  PickNext(c, r) \in Range(r) \cup {Pid0}
<1> DEFINE I == {i \in DOMAIN r : c \in mask'[r[i]]}
<1>1. CASE I = {}
  BY <1>1 DEF PickNext
<1>2. CASE I # {}
  <2>1. I \in SUBSET DOMAIN r /\ I \in SUBSET Nat
    BY LenProperties
  <2>2. PickNext(c, r) = r[Min(I)]
    BY <1>2 DEF PickNext
  <2> HIDE DEF I
  <2>3. Min(I) \in I
    BY <1>2, <2>1, MinIsLeast
  <2> QED BY <2>1, <2>2, <2>3 DEF Range
<1> QED
  BY <1>1, <1>2

\* switch_to is given typed statuses and lists and leaves typed ones.
LEMMA SwitchTypes ==
    ASSUME NEW c \in Cores, NEW st \in StatusType, NEW q \in QueuesType,
           core_running \in CoresType, switch_to(c, st, q)
    PROVE  status' \in StatusType /\ queue' \in QueuesType /\ core_running' \in CoresType
<1>1. PICK n \in {PickNext(c, q[ReadyQ])} :
        /\ core_running' = [core_running EXCEPT ![c] = n]
        /\ status' = set_status(st, {n}, "RUNNING")
        /\ queue' = del_queue(q, {n})
  BY DEF switch_to
<1>2. q[ReadyQ] \in Seq(Slots)
  BY QueueNames DEF QueuesType
<1>3. n \in Slots \cup {Pid0}
  BY <1>1, <1>2, PickNextTask, RangeOfList
<1>4. core_running' \in CoresType
  BY <1>1, <1>3 DEF CoresType
<1>5. status' \in StatusType
  BY <1>1, SetStatus DEF Statuses
<1> QED
  BY <1>1, <1>4, <1>5, DelQueue

\* do_scheduler leaves typed statuses, lists and cores.
LEMMA SchedulerTypes ==
    ASSUME NEW c \in Cores, NEW st \in StatusType, NEW q \in QueuesType,
           core_running \in CoresType, do_scheduler(c, st, q)
    PROVE  status' \in StatusType /\ queue' \in QueuesType /\ core_running' \in CoresType
<1> DEFINE woken == Expired(q)
           st1 == set_status(st, Range(woken), "READY")
           q1 == do_unblock(q, woken)
           st2 == set_status(st1, {core_running[c]}, "READY")
           q2 == add_queue(q1, ReadyQ, core_running[c])
<1>1. IF Requeues(c, st1) THEN switch_to(c, st2, q2) ELSE switch_to(c, st1, q1)
  BY DEF do_scheduler
<1>2. st1 \in StatusType /\ st2 \in StatusType
  BY SetStatus DEF Statuses
<1>3. q1 \in QueuesType
  BY ExpiredTasks, Unblock
<1>4. CASE Requeues(c, st1)
  <2>1. core_running[c] \in Slots
    BY <1>4 DEF Requeues, CoresType
  <2>2. q2 \in QueuesType
    BY <1>3, <2>1, QueueNames, AddQueue
  <2> HIDE DEF st1, st2, q1, q2
  <2> QED BY <1>1, <1>2, <1>4, <2>2, SwitchTypes
<1>5. CASE ~Requeues(c, st1)
  <2> HIDE DEF st1, st2, q1, q2
  <2> QED BY <1>1, <1>2, <1>3, <1>5, SwitchTypes
<1> QED
  BY <1>4, <1>5

-----------------------------------------------------------------------------
(* Consistency of tasks, lists and cores *)

\* What OnCores says depends only on which tasks are RUNNING.
LEMMA SameRunning ==
    ASSUME NEW st, NEW st1, NEW cr \in CoresType, NEW D \in SUBSET Cores,
           \A p \in Slots : st[p] = "RUNNING" <=> st1[p] = "RUNNING",
           OnCores(st, cr, D)
    PROVE  OnCores(st1, cr, D)
BY DEF OnCores, CoresType

\* do_unblock of queued tasks, with their new status, keeps all consistent.
LEMMA WakeKeeps ==
    ASSUME NEW st \in StatusType, NEW q \in QueuesType, NEW woken \in Seq(Slots),
           Lists(q), Tasks(st, q), IsInjective(woken), \A p \in Range(woken) : On(q, p)
    PROVE  /\ Lists(do_unblock(q, woken))
           /\ Tasks(set_status(st, Range(woken), "READY"), do_unblock(q, woken))
           /\ \A p \in Slots : st[p] = "RUNNING" <=>
                               set_status(st, Range(woken), "READY")[p] = "RUNNING"
           /\ \A p \in Slots : st[p] \in Free <=>
                               set_status(st, Range(woken), "READY")[p] \in Free
           /\ \A p \in Slots : On(do_unblock(q, woken), p) <=> On(q, p)
<1> DEFINE st1 == set_status(st, Range(woken), "READY")
           q1 == do_unblock(q, woken)
<1>1. \A p \in Slots : st1[p] = IF p \in Range(woken) THEN "READY" ELSE st[p]
  BY SetStatus DEF Statuses
<1>2. /\ q1 \in QueuesType /\ Lists(q1)
      /\ Range(q1[ReadyQ]) = Range(q[ReadyQ]) \cup Range(woken)
      /\ \A R \in QueueId : R # ReadyQ => Range(q1[R]) = Range(q[R]) \ Range(woken)
  BY Unblock
<1>3. Range(woken) \subseteq Slots
  BY RangeOfList
<1>4. \A p \in Range(woken) : st[p] \in {"READY", "BLOCKED"}
  BY <1>3 DEF Tasks
<1>5. /\ ReadyQ \in QueueId
      /\ \A p \in Slots : WaitQ(p) \in QueueId /\ WaitQ(p) # ReadyQ
  BY QueueNames
<1> HIDE DEF st1, q1
<1>6. \A p \in Slots : On(q1, p) <=> On(q, p)
  BY <1>2, <1>5 DEF On
<1>7. \A p \in Slots : st[p] = "RUNNING" <=> st1[p] = "RUNNING"
  BY <1>1, <1>4
<1>8. \A p \in Slots : st[p] \in Free <=> st1[p] \in Free
  BY <1>1, <1>4 DEF Free
<1>9. Tasks(st1, q1)
  <2>1. \A p \in Slots : On(q1, p) => st1[p] \in {"READY", "BLOCKED"}
    BY <1>1, <1>6 DEF Tasks
  <2>2. \A p \in Slots : st1[p] = "READY" => p \in Range(q1[ReadyQ])
    BY <1>1, <1>2 DEF Tasks
  <2>3. \A p \in Slots : Range(q1[WaitQ(p)]) # {} => st1[p] \notin Free
    BY <1>2, <1>5, <1>8, ZenonT(60) DEF Tasks
  <2> QED BY <2>1, <2>2, <2>3 DEF Tasks
<1> QED
  BY <1>2, <1>6, <1>7, <1>8, <1>9 DEF st1, q1

\* Blocking the task of core c on a queue other than the ready queue.
LEMMA BlockKeeps ==
    ASSUME NEW st \in StatusType, NEW q \in QueuesType, core_running \in CoresType,
           Lists(q), Tasks(st, q), OnCores(st, core_running, Cores),
           NEW c \in Cores, core_running[c] # Pid0,
           NEW Q \in QueueId, Q # ReadyQ,
           \A w \in Slots : Q = WaitQ(w) => st[w] \notin Free
    PROVE  LET p == core_running[c] IN
           /\ Lists(add_queue(q, Q, p))
           /\ Tasks(set_status(st, {p}, "BLOCKED"), add_queue(q, Q, p))
           /\ OnCores(set_status(st, {p}, "BLOCKED"), core_running, Cores \ {c})
           /\ set_status(st, {p}, "BLOCKED")[p] = "BLOCKED"
<1> DEFINE p == core_running[c]
           st1 == set_status(st, {p}, "BLOCKED")
           q1 == add_queue(q, Q, p)
<1>1. p \in Slots /\ st[p] = "RUNNING"
  BY DEF CoresType, OnCores
<1>2. ~On(q, p)
  BY <1>1 DEF Tasks
<1>3. \A x \in Slots : st1[x] = IF x = p THEN "BLOCKED" ELSE st[x]
  BY SetStatus DEF Statuses
<1>4. /\ Lists(q1)
      /\ Range(q1[Q]) = Range(q[Q]) \cup {p}
      /\ \A R \in QueueId : R # Q => q1[R] = q[R]
  BY <1>1, <1>2, AddQueue
<1>5. /\ ReadyQ \in QueueId
      /\ \A x \in Slots : WaitQ(x) \in QueueId
  BY QueueNames
<1> HIDE DEF st1, q1
<1>6. Tasks(st1, q1)
  <2>1. \A x \in Slots : On(q1, x) => x = p \/ On(q, x)
    BY <1>4 DEF On
  <2>2. \A x \in Slots : On(q1, x) => st1[x] \in {"READY", "BLOCKED"}
    BY <1>3, <2>1 DEF Tasks
  <2>3. \A x \in Slots : st1[x] = "READY" => x \in Range(q1[ReadyQ])
    BY <1>3, <1>4, <1>5 DEF Tasks
  <2>4. \A x \in Slots : Range(q1[WaitQ(x)]) # {} => st1[x] \notin Free
    <3> SUFFICES ASSUME NEW x \in Slots, Range(q1[WaitQ(x)]) # {}, x # p
                 PROVE  st[x] \notin Free
      BY <1>3 DEF Free
    <3>1. CASE Q = WaitQ(x)
      BY <3>1
    <3>2. CASE Q # WaitQ(x)
      BY <1>4, <1>5, <3>2 DEF Tasks
    <3> QED BY <3>1, <3>2
  <2> QED BY <2>2, <2>3, <2>4 DEF Tasks
<1>7. OnCores(st1, core_running, Cores \ {c})
  <2>1. \A d \in Cores \ {c} : core_running[d] # Pid0 => st1[core_running[d]] = "RUNNING"
    BY <1>3 DEF OnCores, CoresType
  <2> QED BY <1>3, <2>1 DEF OnCores
<1> QED
  BY <1>1, <1>3, <1>4, <1>6, <1>7 DEF st1, q1

\* switch_to, entered when core c runs nobody that is RUNNING, keeps all
\* consistent: the task it takes from the ready queue runs nowhere else.
LEMMA SwitchKeeps ==
    ASSUME NEW c \in Cores, NEW st \in StatusType, NEW q \in QueuesType,
           core_running \in CoresType,
           Lists(q), Tasks(st, q), OnCores(st, core_running, Cores \ {c}),
           core_running[c] # Pid0 => st[core_running[c]] # "RUNNING",
           switch_to(c, st, q)
    PROVE  /\ Lists(queue') /\ Tasks(status', queue')
           /\ OnCores(status', core_running', Cores)
           /\ \A p \in Slots : status'[p] \in Free <=> st[p] \in Free
<1>1. PICK n \in {PickNext(c, q[ReadyQ])} :
        /\ core_running' = [core_running EXCEPT ![c] = n]
        /\ status' = set_status(st, {n}, "RUNNING")
        /\ queue' = del_queue(q, {n})
  BY DEF switch_to
<1>2. /\ ReadyQ \in QueueId /\ q[ReadyQ] \in Seq(Slots)
      /\ \A p \in Slots : WaitQ(p) \in QueueId
  BY QueueNames DEF QueuesType
<1>3. n = Pid0 \/ n \in Range(q[ReadyQ])
  BY <1>1, <1>2, PickNextTask
<1>4. Pid0 \notin Slots
  BY SchedAssumption DEF Pid0, Slots
<1>5. n \in Slots => On(q, n) /\ st[n] \in {"READY", "BLOCKED"}
  BY <1>2, <1>3, <1>4 DEF On, Tasks
<1>6. \A p \in Slots : status'[p] = IF p = n THEN "RUNNING" ELSE st[p]
  BY <1>1, SetStatus DEF Statuses
<1>7. Lists(queue') /\ \A Q \in QueueId : Range(queue'[Q]) = Range(q[Q]) \ {n}
  BY <1>1, DelQueue
<1>8. \A p \in Slots : status'[p] \in Free <=> st[p] \in Free
  BY <1>5, <1>6 DEF Free
<1>9. Tasks(status', queue')
  <2>1. \A p \in Slots : On(queue', p) => p # n /\ On(q, p)
    BY <1>7 DEF On
  <2>2. \A p \in Slots : On(queue', p) => status'[p] \in {"READY", "BLOCKED"}
    BY <1>6, <2>1 DEF Tasks
  <2>3. \A p \in Slots : status'[p] = "READY" => p \in Range(queue'[ReadyQ])
    BY <1>2, <1>6, <1>7 DEF Tasks
  <2>4. \A p \in Slots : Range(queue'[WaitQ(p)]) # {} => status'[p] \notin Free
    BY <1>2, <1>7, <1>8 DEF Tasks
  <2> QED BY <2>2, <2>3, <2>4 DEF Tasks
<1>10. OnCores(status', core_running', Cores)
  <2>1. \A d \in Cores : core_running'[d] = IF d = c THEN n ELSE core_running[d]
    BY <1>1 DEF CoresType
  <2>2. \A d \in Cores \ {c} : core_running[d] # Pid0 =>
           /\ core_running[d] \in Slots
           /\ st[core_running[d]] = "RUNNING"
           /\ core_running[d] # n
    BY <1>5 DEF OnCores, CoresType
  <2>3. \A d, e \in Cores : core_running'[d] = core_running'[e] /\ core_running'[d] # Pid0 => d = e
    BY <2>1, <2>2 DEF OnCores
  <2>4. \A d \in Cores : core_running'[d] # Pid0 => status'[core_running'[d]] = "RUNNING"
    <3>1. n # Pid0 => n \in Slots
      BY <1>2, <1>3, RangeOfList
    <3> QED BY <1>6, <2>1, <2>2, <3>1
  <2>5. ASSUME NEW p \in Slots, status'[p] = "RUNNING"
        PROVE  \E d \in Cores : core_running'[d] = p
    <3>1. CASE p = n
      BY <2>1, <3>1
    <3>2. CASE p # n
      <4>1. st[p] = "RUNNING"
        BY <1>6, <2>5, <3>2
      <4>2. PICK d \in Cores : core_running[d] = p
        BY <4>1 DEF OnCores
      <4>3. d # c
        BY <1>4, <4>1, <4>2
      <4> QED BY <2>1, <4>2, <4>3
    <3> QED BY <3>1, <3>2
  <2> QED BY <2>3, <2>4, <2>5 DEF OnCores
<1> QED
  BY <1>7, <1>8, <1>9, <1>10

\* do_scheduler keeps all consistent if the handler left the other cores
\* alone and its own task is only RUNNING with a pid that is not 0.
LEMMA SchedulerKeeps ==
    ASSUME NEW c \in Cores, NEW st \in StatusType, NEW q \in QueuesType,
           core_running \in CoresType,
           Lists(q), Tasks(st, q), OnCores(st, core_running, Cores \ {c}),
           core_running[c] # Pid0 /\ st[core_running[c]] = "RUNNING"
              => pid'[core_running[c]] # 0,
           do_scheduler(c, st, q)
    PROVE  /\ Lists(queue') /\ Tasks(status', queue')
           /\ OnCores(status', core_running', Cores)
           /\ \A p \in Slots : status'[p] \in Free <=> st[p] \in Free
<1> DEFINE r == core_running[c]
           woken == Expired(q)
           st1 == set_status(st, Range(woken), "READY")
           q1 == do_unblock(q, woken)
           st2 == set_status(st1, {r}, "READY")
           q2 == add_queue(q1, ReadyQ, r)
<1>1. IF Requeues(c, st1) THEN switch_to(c, st2, q2) ELSE switch_to(c, st1, q1)
  BY DEF do_scheduler
<1>2. /\ woken \in Seq(Slots) /\ IsInjective(woken)
      /\ \A p \in Range(woken) : On(q, p)
  BY ExpiredTasks, QueueNames DEF On
<1>3. st1 \in StatusType /\ q1 \in QueuesType
  BY <1>2, SetStatus, Unblock DEF Statuses
<1>4. /\ Lists(q1) /\ Tasks(st1, q1)
      /\ \A p \in Slots : st[p] = "RUNNING" <=> st1[p] = "RUNNING"
      /\ \A p \in Slots : st[p] \in Free <=> st1[p] \in Free
  <2> HIDE DEF woken
  <2> QED BY <1>2, WakeKeeps
<1>5. OnCores(st1, core_running, Cores \ {c})
  <2> HIDE DEF st1
  <2> QED BY <1>4, SameRunning
<1>6. r # Pid0 => r \in Slots
  BY DEF CoresType
<1>7. CASE Requeues(c, st1)
  <2>1. r \in Slots /\ st1[r] = "RUNNING"
    BY <1>6, <1>7 DEF Requeues
  <2> HIDE DEF st1, q1
  <2>2. ~On(q1, r)
    BY <1>4, <2>1 DEF Tasks
  <2>3. st2 \in StatusType /\ \A p \in Slots : st2[p] = IF p = r THEN "READY" ELSE st1[p]
    BY <1>3, SetStatus DEF Statuses
  <2>4. /\ q2 \in QueuesType /\ Lists(q2)
        /\ Range(q2[ReadyQ]) = Range(q1[ReadyQ]) \cup {r}
        /\ \A R \in QueueId : R # ReadyQ => q2[R] = q1[R]
    <3>1. ReadyQ \in QueueId
      BY QueueNames
    <3> QED BY <1>3, <1>4, <2>1, <2>2, <3>1, AddQueue, SMTT(40)
  <2> HIDE DEF st2, q2
  <2>5. Tasks(st2, q2)
    <3>1. \A p \in Slots : On(q2, p) => p = r \/ On(q1, p)
      BY <2>4 DEF On
    <3>2. \A p \in Slots : On(q2, p) => st2[p] \in {"READY", "BLOCKED"}
      BY <1>4, <2>3, <3>1 DEF Tasks
    <3>3. \A p \in Slots : st2[p] = "READY" => p \in Range(q2[ReadyQ])
      BY <1>4, <2>3, <2>4 DEF Tasks
    <3>4. \A p \in Slots : Range(q2[WaitQ(p)]) # {} => st2[p] \notin Free
      BY <1>4, <2>3, <2>4, QueueNames DEF Tasks, Free
    <3> QED BY <3>2, <3>3, <3>4 DEF Tasks
  <2>6. OnCores(st2, core_running, Cores \ {c})
    <3>1. \A d \in Cores \ {c} : core_running[d] # Pid0 => st2[core_running[d]] = "RUNNING"
      BY <1>5, <2>1, <2>3 DEF OnCores, CoresType, Pid0
    <3> QED BY <1>5, <2>3, <3>1 DEF OnCores
  <2>7. st2[r] # "RUNNING"
    BY <2>1, <2>3
  <2>8. /\ Lists(queue') /\ Tasks(status', queue')
        /\ OnCores(status', core_running', Cores)
        /\ \A p \in Slots : status'[p] \in Free <=> st2[p] \in Free
    BY <1>1, <1>7, <2>3, <2>4, <2>5, <2>6, <2>7, SwitchKeeps
  <2>9. \A p \in Slots : st2[p] \in Free <=> st[p] \in Free
    BY <1>4, <2>1, <2>3 DEF Free
  <2> QED BY <2>8, <2>9
<1>8. CASE ~Requeues(c, st1)
  <2>1. r # Pid0 => st1[r] # "RUNNING"
    BY <1>4, <1>6, <1>8 DEF Requeues
  <2> HIDE DEF st1, q1, st2, q2
  <2>2. /\ Lists(queue') /\ Tasks(status', queue')
        /\ OnCores(status', core_running', Cores)
        /\ \A p \in Slots : status'[p] \in Free <=> st1[p] \in Free
    BY <1>1, <1>3, <1>4, <1>5, <1>8, <2>1, SwitchKeeps
  <2> QED BY <1>4, <2>2
<1> QED
  BY <1>7, <1>8
=============================================================================
