--------------------------- MODULE MailboxProofs ---------------------------
(***************************************************************************)
(* Proofs about the mailboxes, for any number of tasks and mailboxes, any  *)
(* mailbox size and any message lengths, with do_kill hitting tasks inside *)
(* a call or not.                                                          *)
(*                                                                         *)
(* The inductive invariant MInv adds to the properties of module Mailbox   *)
(*   - what a task inside a call carries (InCall);                         *)
(*   - that the used mailboxes are a prefix of the array (UsedPrefix),     *)
(*     which is why do_mbox_open finds the mailbox of a name before it     *)
(*     finds an unused one;                                                *)
(*   - that user_num is at least the number of tasks inside a call         *)
(*     (UsersBound), so that user_num-- never goes below zero.             *)
(*                                                                         *)
(* With messages of one length (OneLength) two more invariants hold.  WInv *)
(* says that head and tail stay multiples of the length (Aligned), so that *)
(* a transfer never splits a message.  SInv says that while somebody waits *)
(* on a queue, the tasks already woken will use up the room but for less   *)
(* than one message (WakeupsSuffice): nobody is stranded, if nobody is     *)
(* killed.                                                                 *)
(***************************************************************************)
EXTENDS Mailbox, PcbListProofs

CallRecord == [kind : Kinds, mbox : Mboxes, len : Lengths]

\* The tasks inside a call on mailbox i.
Inside(i) == {t \in Tasks : pc[t] \in {"retry", "locked"} /\ call[t].mbox = i}

InCall == \A t \in Tasks : pc[t] \in {"retry", "locked"} => call[t] \in CallRecord

UsedPrefix == \A i, j \in Mboxes : i < j /\ valid[j] => valid[i]

UsersBound ==
    \A i \in Mboxes :
        /\ Cardinality(Inside(i)) <= user_num[i]
        /\ ~Kills => Cardinality(Inside(i)) = user_num[i]

NobodyKilled == ~Kills => \A t \in Tasks : pc[t] # "dead"

\* What TypeOK says of the variables that a transfer changes.
TransferTypeOK ==
    /\ head \in [Mboxes -> Nat]
    /\ tail \in [Mboxes -> Nat]
    /\ content \in [Mboxes -> [0 .. MAX_MBOX_LENGTH - 1 ->
                                 {NoByte} \cup (Tasks \X (1 .. MAX_MBOX_LENGTH))]]
    /\ lock \in [Mboxes -> {"UNLOCKED", "LOCKED"}]
    /\ waiting \in [Mboxes -> [Queues -> Seq(Tasks)]]
    /\ pc \in [Tasks -> {"user", "retry", "locked", "dead"}]
    /\ call \in [Tasks -> {NoCall} \cup CallRecord]

\* Between two actions no mailbox is locked and lock_queue is empty: the lock
\* is not held across do_scheduler, and its LOCKED branches are dead code.
LockFreeAtSwitch ==
    \A i \in Mboxes : lock[i] = "UNLOCKED" /\ waiting[i]["lock"] = <<>>

\* The status of the locks where the critical section of mailbox i begins.
HeldFor(held, i) == held \in {lock, Locked(i)}

BufferInv == TransferTypeOK /\ LockFreeAtSwitch /\ BufferBounds

CountInv == user_num \in [Mboxes -> Nat] /\ InCall /\ UsersBound /\ NobodyKilled

TableInv ==
    /\ valid \in [Mboxes -> BOOLEAN]
    /\ name \in [Mboxes -> Names \cup {NoName}]
    /\ UsedPrefix
    /\ NamesUnique

MInv == BufferInv /\ CountInv /\ TableInv

-----------------------------------------------------------------------------
\* Waking the first of a queue leaves a queue, and an empty one empty.
LEMMA UnblockOneType ==
    ASSUME NEW s \in Seq(Tasks)
    PROVE  UnblockOne(s) \in Seq(Tasks) /\ (s = <<>> => UnblockOne(s) = <<>>)
BY HeadTailNodes DEF UnblockOne

\* A task that gives up the lock changes the queues and leaves lock_queue empty.
LEMMA GiveUpType ==
    ASSUME NEW w \in [Queues -> Seq(Tasks)], w["lock"] = <<>>, NEW t \in Tasks, NEW kind
    PROVE  GiveUp(w, t, kind) \in [Queues -> Seq(Tasks)] /\ GiveUp(w, t, kind)["lock"] = <<>>
<1>1. WaitsIn(kind) \in Queues /\ WaitsIn(kind) # "lock" /\ "lock" \in Queues
  BY DEF WaitsIn, Queues
<1>2. UnblockOne(w["lock"]) = <<>> /\ <<>> \in Seq(Tasks)
  BY <1>1, UnblockOneType
<1>3. Append(w[WaitsIn(kind)], t) \in Seq(Tasks)
  BY <1>1, AppendNodes
<1> QED
  BY <1>1, <1>2, <1>3 DEF GiveUp

\* The wake-ups at the end of a call leave queues, and lock_queue empty.
LEMMA FinishType ==
    ASSUME NEW w \in [Queues -> Seq(Tasks)], w["lock"] = <<>>, NEW kind, NEW all
    PROVE  Finish(w, kind, all) \in [Queues -> Seq(Tasks)] /\ Finish(w, kind, all)["lock"] = <<>>
<1>1. Wakes(kind) \in Queues /\ Wakes(kind) # "lock" /\ "lock" \in Queues
  BY DEF Wakes, Queues
<1>2. UnblockOne(w["lock"]) = <<>> /\ <<>> \in Seq(Tasks)
  BY <1>1, UnblockOneType
<1>3. UnblockOne(IF all THEN <<>> ELSE w[Wakes(kind)]) \in Seq(Tasks)
  BY <1>1, <1>2, UnblockOneType
<1> QED
  BY <1>1, <1>2, <1>3 DEF Finish

\* The buffer stays an array of bytes of senders.
LEMMA FilledType ==
    ASSUME TransferTypeOK, NEW i \in Mboxes, NEW t \in Tasks, NEW len \in Lengths
    PROVE  Filled(i, t, len) \in [0 .. MAX_MBOX_LENGTH - 1 ->
                                    {NoByte} \cup (Tasks \X (1 .. MAX_MBOX_LENGTH))]
<1> DEFINE Bytes == {NoByte} \cup (Tasks \X (1 .. MAX_MBOX_LENGTH))
           Src(j) == CHOOSE k \in 1 .. len : Cell(tail[i] + (k - 1)) = j
<1>1. len \in 1 .. MAX_MBOX_LENGTH /\ MAX_MBOX_LENGTH \in Nat
  BY MailboxAssumption
<1>2. \A j \in 0 .. MAX_MBOX_LENGTH - 1 : content[i][j] \in Bytes
  <2>1. content \in [Mboxes -> [0 .. MAX_MBOX_LENGTH - 1 -> Bytes]]
    BY DEF TransferTypeOK
  <2> HIDE DEF Bytes
  <2> QED BY <2>1
<1>3. ASSUME NEW j, \E k \in 1 .. len : Cell(tail[i] + (k - 1)) = j
      PROVE  <<t, Src(j)>> \in Bytes
  <2>1. Src(j) \in 1 .. len
    BY <1>3
  <2>2. Src(j) \in 1 .. MAX_MBOX_LENGTH
    BY <1>1, <2>1
  <2> HIDE DEF Src
  <2> QED BY <2>2
<1> QED
  BY <1>2, <1>3 DEF Filled

\* The stretch of a call that holds the lock of the mailbox keeps the buffer
\* within its bounds and the lock free; it ends in a wait or in the return.
LEMMA CriticalSection ==
    ASSUME BufferInv, NEW t \in Tasks, NEW cl \in CallRecord,
           NEW users \in [Mboxes -> Nat], users[cl.mbox] # 0,
           NEW held, HeldFor(held, cl.mbox), critical_section(t, cl, users, held)
    PROVE  /\ BufferInv'
           /\ \/ /\ pc' = [pc EXCEPT ![t] = "retry"]
                 /\ call' = [call EXCEPT ![t] = cl]
                 /\ user_num' = users
              \/ /\ pc' = [pc EXCEPT ![t] = "user"]
                 /\ call' = [call EXCEPT ![t] = NoCall]
                 /\ user_num' = [users EXCEPT ![cl.mbox] = @ - 1]
<1> DEFINE i == cl.mbox
<1>1. /\ i \in Mboxes /\ cl.len \in Lengths /\ cl.kind \in Kinds
      /\ cl.len \in Nat /\ MAX_MBOX_LENGTH \in Nat
  <2>1. i \in Mboxes /\ cl.len \in Lengths /\ cl.kind \in Kinds
    BY DEF CallRecord
  <2>2. MAX_MBOX_LENGTH \in Nat /\ \A len \in Lengths : len \in 1 .. MAX_MBOX_LENGTH
    BY MailboxAssumption
  <2>3. cl.len \in 1 .. MAX_MBOX_LENGTH
    BY <2>1, <2>2
  <2>4. cl.len \in Nat
    BY <2>2, <2>3
  <2> QED BY <2>1, <2>2, <2>4
<1>2. TransferTypeOK /\ LockFreeAtSwitch /\ BufferBounds
  BY DEF BufferInv
<1>3. head[i] \in Nat /\ tail[i] \in Nat /\ waiting[i] \in [Queues -> Seq(Tasks)]
  BY <1>1, <1>2 DEF TransferTypeOK
<1>4. waiting[i]["lock"] = <<>>
  BY <1>1, <1>2 DEF LockFreeAtSwitch
<1>5. lock' = Unlocked(held, i)
  BY DEF critical_section, wait, transfer
<1>6. lock' \in [Mboxes -> {"UNLOCKED", "LOCKED"}] /\ \A j \in Mboxes : lock'[j] = "UNLOCKED"
  BY <1>1, <1>2, <1>5 DEF HeldFor, Locked, Unlocked, TransferTypeOK, LockFreeAtSwitch
<1>7. ASSUME NEW w \in [Queues -> Seq(Tasks)], w["lock"] = <<>>,
             waiting' = [waiting EXCEPT ![i] = w]
      PROVE  /\ waiting' \in [Mboxes -> [Queues -> Seq(Tasks)]]
             /\ \A j \in Mboxes : waiting'[j]["lock"] = <<>>
  BY <1>1, <1>2, <1>7 DEF TransferTypeOK, LockFreeAtSwitch
<1>8. CASE MustWait(cl)
  <2>1. /\ waiting' = [waiting EXCEPT ![i] = GiveUp(waiting[i], t, cl.kind)]
        /\ user_num' = users
        /\ pc' = [pc EXCEPT ![t] = "retry"]
        /\ call' = [call EXCEPT ![t] = cl]
        /\ UNCHANGED <<head, tail, content>>
    BY <1>8 DEF critical_section, wait, transfer
  <2>2. /\ waiting' \in [Mboxes -> [Queues -> Seq(Tasks)]]
        /\ \A j \in Mboxes : waiting'[j]["lock"] = <<>>
    BY <1>3, <1>4, <1>7, <2>1, GiveUpType, ZenonT(60)
  <2>3. TransferTypeOK'
    BY <1>2, <1>6, <2>1, <2>2 DEF TransferTypeOK
  <2>4. LockFreeAtSwitch' /\ BufferBounds'
    BY <1>2, <1>6, <2>1, <2>2 DEF LockFreeAtSwitch, BufferBounds
  <2> QED
    BY <2>1, <2>3, <2>4 DEF BufferInv
<1>9. CASE ~MustWait(cl)
  <2> DEFINE all == IF cl.kind = "send" THEN head'[i] + MAX_MBOX_LENGTH = tail'[i]
                                        ELSE head'[i] = tail'[i]
  <2>1. /\ waiting' = [waiting EXCEPT ![i] = Finish(waiting[i], cl.kind, all)]
        /\ user_num' = [users EXCEPT ![i] = @ - 1]
        /\ pc' = [pc EXCEPT ![t] = "user"]
        /\ call' = [call EXCEPT ![t] = NoCall]
    BY <1>9 DEF critical_section, wait, transfer
  <2>2. /\ waiting' \in [Mboxes -> [Queues -> Seq(Tasks)]]
        /\ \A j \in Mboxes : waiting'[j]["lock"] = <<>>
    <3> HIDE DEF all
    <3> QED BY <1>3, <1>4, <1>7, <2>1, FinishType, ZenonT(60)
  <2>3. pc' \in [Tasks -> {"user", "retry", "locked", "dead"}]
        /\ call' \in [Tasks -> {NoCall} \cup CallRecord]
    BY <1>2, <2>1 DEF TransferTypeOK
  <2>4. CASE cl.kind = "send"
    <3>1. /\ content' = [content EXCEPT ![i] = Filled(i, t, cl.len)]
          /\ tail' = [tail EXCEPT ![i] = @ + cl.len]
          /\ head' = head
      BY <1>9, <2>4 DEF critical_section, wait, transfer
    <3>2. tail[i] + cl.len <= head[i] + MAX_MBOX_LENGTH
      BY <1>1, <1>3, <1>9, <2>4, SMTT(40) DEF MustWait, Used
    <3>3. BufferBounds'
      BY <1>1, <1>2, <1>3, <3>1, <3>2, SMTT(40) DEF BufferBounds, TransferTypeOK
    <3>4. content' \in [Mboxes -> [0 .. MAX_MBOX_LENGTH - 1 ->
                                     {NoByte} \cup (Tasks \X (1 .. MAX_MBOX_LENGTH))]]
      BY <1>1, <1>2, <3>1, FilledType DEF TransferTypeOK
    <3>5. head' \in [Mboxes -> Nat] /\ tail' \in [Mboxes -> Nat]
      BY <1>1, <1>2, <1>3, <3>1, SMTT(40) DEF TransferTypeOK
    <3> QED
      BY <1>6, <2>1, <2>2, <2>3, <3>3, <3>4, <3>5
      DEF BufferInv, TransferTypeOK, LockFreeAtSwitch
  <2>5. CASE cl.kind # "send"
    <3>1. head' = [head EXCEPT ![i] = @ + cl.len] /\ tail' = tail /\ content' = content
      BY <1>9, <2>5 DEF critical_section, wait, transfer
    <3>2. head[i] + cl.len <= tail[i]
      BY <1>1, <1>3, <1>9, <2>5, SMTT(40) DEF MustWait, Used
    <3>3. BufferBounds'
      BY <1>1, <1>2, <1>3, <3>1, <3>2, SMTT(40) DEF BufferBounds, TransferTypeOK
    <3>4. head' \in [Mboxes -> Nat] /\ tail' \in [Mboxes -> Nat]
      BY <1>1, <1>2, <1>3, <3>1 DEF TransferTypeOK
    <3> QED
      BY <1>2, <1>6, <2>1, <2>2, <2>3, <3>1, <3>3, <3>4
      DEF BufferInv, TransferTypeOK, LockFreeAtSwitch
  <2> QED
    BY <2>4, <2>5
<1> QED
  BY <1>8, <1>9

-----------------------------------------------------------------------------
\* The tasks that count for mailbox j while t is inside a call on mailbox i.
Claim(t, i, j) == (Inside(j) \ {t}) \cup (IF j = i THEN {t} ELSE {})

\* A critical section entered with user_num counting the caller leaves
\* user_num counting those who are still inside.
LEMMA Counted ==
    ASSUME BufferInv, CountInv, NEW t \in Tasks, NEW cl \in CallRecord,
           NEW users \in [Mboxes -> Nat],
           \A j \in Mboxes :
              /\ Cardinality(Claim(t, cl.mbox, j)) <= users[j]
              /\ ~Kills => Cardinality(Claim(t, cl.mbox, j)) = users[j],
           NEW held, HeldFor(held, cl.mbox), critical_section(t, cl, users, held)
    PROVE  BufferInv' /\ CountInv'
<1> DEFINE i == cl.mbox
<1>1. i \in Mboxes
  BY DEF CallRecord
<1>2. \A j \in Mboxes : IsFiniteSet(Claim(t, i, j)) /\ Cardinality(Claim(t, i, j)) \in Nat
  <2> SUFFICES ASSUME NEW j \in Mboxes PROVE IsFiniteSet(Claim(t, i, j))
    BY FS_CardinalityType
  <2>1. Claim(t, i, j) \in SUBSET Tasks
    BY DEF Claim, Inside
  <2> QED BY <2>1, MailboxAssumption, FS_Subset
<1>3. t \in Claim(t, i, i)
  BY DEF Claim
<1>4. users[i] # 0
  <2>1. Cardinality(Claim(t, i, i)) # 0
    BY <1>1, <1>2, <1>3, FS_EmptySet
  <2> QED BY <1>1, <1>2, <2>1
<1>5. /\ BufferInv'
      /\ \/ /\ pc' = [pc EXCEPT ![t] = "retry"]
            /\ call' = [call EXCEPT ![t] = cl]
            /\ user_num' = users
         \/ /\ pc' = [pc EXCEPT ![t] = "user"]
            /\ call' = [call EXCEPT ![t] = NoCall]
            /\ user_num' = [users EXCEPT ![i] = @ - 1]
  BY <1>4, CriticalSection
<1>6. pc \in [Tasks -> {"user", "retry", "locked", "dead"}]
      /\ call \in [Tasks -> {NoCall} \cup CallRecord]
  BY DEF BufferInv, TransferTypeOK
<1>7. CASE /\ pc' = [pc EXCEPT ![t] = "retry"]
           /\ call' = [call EXCEPT ![t] = cl]
           /\ user_num' = users
  <2>1. \A j \in Mboxes : Inside(j)' = Claim(t, i, j)
    BY <1>6, <1>7 DEF Inside, Claim
  <2>2. UsersBound'
    BY <1>7, <2>1 DEF UsersBound
  <2>3. InCall' /\ NobodyKilled'
    BY <1>6, <1>7 DEF InCall, NobodyKilled, CountInv
  <2> QED BY <1>5, <1>7, <2>2, <2>3 DEF CountInv
<1>8. CASE /\ pc' = [pc EXCEPT ![t] = "user"]
           /\ call' = [call EXCEPT ![t] = NoCall]
           /\ user_num' = [users EXCEPT ![i] = @ - 1]
  <2>1. \A j \in Mboxes : Inside(j)' = Claim(t, i, j) \ {t}
    BY <1>6, <1>8 DEF Inside, Claim
  <2>2. user_num' \in [Mboxes -> Nat]
    BY <1>1, <1>4, <1>8
  <2>3. ASSUME NEW j \in Mboxes
        PROVE  /\ Cardinality(Inside(j)') <= user_num'[j]
               /\ ~Kills => Cardinality(Inside(j)') = user_num'[j]
    <3>1. CASE j = i
      <4>1. Cardinality(Inside(j)') = Cardinality(Claim(t, i, i)) - 1
        BY <1>1, <1>2, <1>3, <2>1, <3>1, FS_RemoveElement
      <4>2. user_num'[j] = users[i] - 1
        BY <1>1, <1>8, <3>1
      <4> QED BY <1>1, <1>2, <3>1, <4>1, <4>2
    <3>2. CASE j # i
      <4>1. Inside(j)' = Claim(t, i, j)
        BY <2>1, <3>2 DEF Claim
      <4>2. user_num'[j] = users[j]
        BY <1>1, <1>8, <3>2
      <4> QED BY <4>1, <4>2
    <3> QED BY <3>1, <3>2
  <2>4. UsersBound'
    BY <2>3 DEF UsersBound
  <2>5. InCall' /\ NobodyKilled'
    BY <1>6, <1>8 DEF InCall, NobodyKilled, CountInv
  <2> QED BY <1>5, <2>2, <2>4, <2>5 DEF CountInv
<1> QED
  BY <1>5, <1>7, <1>8

\* begin counts the caller and goes straight into the critical section.
LEMMA BeginStep ==
    ASSUME BufferInv, CountInv, NEW t \in Tasks, NEW cl \in CallRecord, begin(t, cl)
    PROVE  BufferInv' /\ CountInv'
<1> DEFINE i == cl.mbox
           users == [user_num EXCEPT ![i] = @ + 1]
<1>1. i \in Mboxes
  BY DEF CallRecord
<1>2. critical_section(t, cl, users, Locked(i)) /\ HeldFor(Locked(i), i)
  BY <1>1 DEF begin, enter, BufferInv, LockFreeAtSwitch, HeldFor
<1>3. user_num \in [Mboxes -> Nat] /\ users \in [Mboxes -> Nat]
  BY <1>1 DEF CountInv
<1>4. \A j \in Mboxes : t \notin Inside(j)
  BY DEF begin, Inside
<1>5. ASSUME NEW j \in Mboxes
      PROVE  /\ Cardinality(Claim(t, i, j)) <= users[j]
             /\ ~Kills => Cardinality(Claim(t, i, j)) = users[j]
  <2>1. /\ Cardinality(Inside(j)) <= user_num[j]
        /\ ~Kills => Cardinality(Inside(j)) = user_num[j]
    BY DEF CountInv, UsersBound
  <2>2. IsFiniteSet(Inside(j)) /\ Cardinality(Inside(j)) \in Nat
    <3>1. Inside(j) \in SUBSET Tasks
      BY DEF Inside
    <3>2. IsFiniteSet(Inside(j))
      BY <3>1, MailboxAssumption, FS_Subset
    <3> QED BY <3>2, FS_CardinalityType
  <2>3. CASE j = i
    <3>1. Claim(t, i, j) = Inside(j) \cup {t}
      BY <1>4, <2>3 DEF Claim
    <3>2. Cardinality(Claim(t, i, j)) = Cardinality(Inside(j)) + 1
      BY <1>4, <2>2, <3>1, FS_AddElement
    <3>3. users[j] = user_num[j] + 1 /\ user_num[j] \in Nat
      BY <1>1, <1>3, <2>3
    <3> QED BY <2>1, <2>2, <3>2, <3>3
  <2>4. CASE j # i
    <3>1. Claim(t, i, j) = Inside(j)
      BY <1>4, <2>4 DEF Claim
    <3>2. users[j] = user_num[j]
      BY <1>1, <1>3, <2>4
    <3> QED BY <2>1, <3>1, <3>2
  <2> QED BY <2>3, <2>4
<1> HIDE DEF users
<1> QED
  BY <1>2, <1>3, <1>5, Counted

\* A task that resumes has been counted since its call began.
LEMMA ResumeStep ==
    ASSUME BufferInv, CountInv, NEW t \in Tasks, resume(t)
    PROVE  BufferInv' /\ CountInv'
<1> DEFINE cl == call[t]
<1>1. pc[t] \in {"retry", "locked"}
  BY DEF resume, Woken
<1>2. cl \in CallRecord
  BY <1>1 DEF CountInv, InCall
<1>3. cl.mbox \in Mboxes
  BY <1>2 DEF CallRecord
<1>4. PICK held : critical_section(t, cl, user_num, held) /\ HeldFor(held, cl.mbox)
  <2>1. \/ critical_section(t, cl, user_num, Locked(cl.mbox))
        \/ critical_section(t, cl, user_num, lock)
    BY <1>1, <1>3 DEF resume, enter, BufferInv, LockFreeAtSwitch
  <2> QED BY <2>1 DEF HeldFor
<1>5. \A j \in Mboxes : Claim(t, cl.mbox, j) = Inside(j)
  BY <1>1, <1>3 DEF Claim, Inside
<1>6. /\ user_num \in [Mboxes -> Nat]
      /\ \A j \in Mboxes :
            /\ Cardinality(Claim(t, cl.mbox, j)) <= user_num[j]
            /\ ~Kills => Cardinality(Claim(t, cl.mbox, j)) = user_num[j]
  BY <1>5 DEF CountInv, UsersBound
<1> HIDE DEF cl
<1> QED
  BY <1>2, <1>4, <1>6, Counted

\* A task killed inside a call leaves the queues; user_num keeps counting it.
LEMMA KillStep ==
    ASSUME BufferInv, CountInv, NEW t \in Tasks, kill_inside(t)
    PROVE  BufferInv' /\ CountInv'
<1>1. /\ Kills
      /\ waiting' = [i \in Mboxes |-> [Q \in Queues |-> Without(waiting[i][Q], {t})]]
      /\ pc' = [pc EXCEPT ![t] = "dead"]
      /\ call' = [call EXCEPT ![t] = NoCall]
      /\ UNCHANGED <<head, tail, content, lock, user_num>>
  BY DEF kill_inside
<1>2. TransferTypeOK /\ LockFreeAtSwitch /\ BufferBounds
  BY DEF BufferInv
<1>3. ASSUME NEW i \in Mboxes, NEW Q \in Queues
      PROVE  /\ waiting'[i][Q] \in Seq(Tasks)
             /\ waiting[i][Q] = <<>> => waiting'[i][Q] = <<>>
  <2>1. waiting'[i][Q] = Without(waiting[i][Q], {t}) /\ waiting[i][Q] \in Seq(Tasks)
    BY <1>1, <1>2 DEF TransferTypeOK
  <2>2. /\ waiting'[i][Q] \in Seq(Tasks)
        /\ Range(waiting'[i][Q]) = Range(waiting[i][Q]) \ {t}
    BY <2>1, WithoutProperties
  <2>3. ASSUME waiting[i][Q] = <<>> PROVE waiting'[i][Q] = <<>>
    <3>1. Range(waiting[i][Q]) = {}
      BY <2>3 DEF Range
    <3>2. Range(waiting'[i][Q]) = {}
      BY <2>2, <3>1
    <3> QED BY <2>2, <3>2, HeadTailNodes
  <2> QED BY <2>2, <2>3
<1>4. waiting' \in [Mboxes -> [Queues -> Seq(Tasks)]]
  <2>1. \A i \in Mboxes, Q \in Queues : Without(waiting[i][Q], {t}) \in Seq(Tasks)
    BY <1>1, <1>3
  <2> QED BY <1>1, <2>1
<1>5. pc' \in [Tasks -> {"user", "retry", "locked", "dead"}]
      /\ call' \in [Tasks -> {NoCall} \cup CallRecord]
  BY <1>1, <1>2 DEF TransferTypeOK
<1>6. BufferInv'
  BY <1>1, <1>2, <1>3, <1>4, <1>5
  DEF BufferInv, TransferTypeOK, LockFreeAtSwitch, BufferBounds, Queues
<1>7. InCall' /\ NobodyKilled'
  BY <1>1, <1>2 DEF TransferTypeOK, CountInv, InCall, NobodyKilled
<1>8. ASSUME NEW i \in Mboxes
      PROVE  Cardinality(Inside(i)') <= user_num'[i]
  <2>1. Inside(i)' \in SUBSET Inside(i) /\ Inside(i) \in SUBSET Tasks
    BY <1>1, <1>2 DEF Inside, TransferTypeOK
  <2>2. IsFiniteSet(Inside(i))
    BY <2>1, MailboxAssumption, FS_Subset
  <2>3. /\ Cardinality(Inside(i)') <= Cardinality(Inside(i))
        /\ Cardinality(Inside(i)') \in Nat /\ Cardinality(Inside(i)) \in Nat
    BY <2>1, <2>2, FS_Subset, FS_CardinalityType
  <2>4. Cardinality(Inside(i)) <= user_num[i] /\ user_num[i] \in Nat
    BY DEF CountInv, UsersBound
  <2> QED BY <1>1, <2>3, <2>4
<1> QED
  BY <1>1, <1>6, <1>7, <1>8 DEF CountInv, UsersBound

\* do_mbox_open keeps the used mailboxes a prefix and their names different:
\* it stops at the mailbox of that name, or at the first unused one, and
\* then no mailbox behind it is used.
LEMMA OpenStep ==
    ASSUME TableInv, NEW t \in Tasks, NEW n \in Names, do_mbox_open(t, n)
    PROVE  TableInv'
<1> DEFINE found == {j \in Mboxes : ~valid[j] \/ name[j] = n}
           i == Min(found)
<1>1. /\ found # {}
      /\ valid' = [valid EXCEPT ![i] = TRUE]
      /\ name' = [name EXCEPT ![i] = n]
  BY DEF do_mbox_open
<1>2. found \in SUBSET Nat /\ Mboxes \subseteq Nat
  BY MailboxAssumption DEF Mboxes
<1>3. i \in found /\ \A j \in found : i <= j
  <2> HIDE DEF found
  <2> QED BY <1>1, <1>2, MinIsLeast
<1>4. i \in Mboxes /\ (~valid[i] \/ name[i] = n)
  BY <1>3
<1>5. \A j \in Mboxes : j < i => valid[j] /\ name[j] # n
  <2> SUFFICES ASSUME NEW j \in Mboxes, j < i PROVE j \notin found
    OBVIOUS
  <2>1. i \in Nat /\ j \in Nat
    BY <1>2, <1>4
  <2> HIDE DEF found, i
  <2> QED BY <1>3, <2>1
<1> HIDE DEF found, i
<1>6. valid \in [Mboxes -> BOOLEAN] /\ name \in [Mboxes -> Names \cup {NoName}]
  BY DEF TableInv
<1>7. valid' \in [Mboxes -> BOOLEAN] /\ name' \in [Mboxes -> Names \cup {NoName}]
  BY <1>1, <1>4, <1>6
<1>8. ASSUME NEW j \in Mboxes, NEW k \in Mboxes, j < k, valid'[k] PROVE valid'[j]
  <2>1. CASE k = i
    BY <1>1, <1>4, <1>5, <1>6, <1>8, <2>1
  <2>2. CASE k # i
    BY <1>1, <1>4, <1>6, <1>8, <2>2 DEF TableInv, UsedPrefix
  <2> QED BY <2>1, <2>2
<1>9. ASSUME NEW j \in Mboxes, j # i, valid[j] PROVE name[j] # n
  <2>1. CASE valid[i]
    <3>1. name[i] = n
      BY <1>4, <2>1
    <3> QED BY <1>4, <1>9, <2>1, <3>1 DEF TableInv, NamesUnique
  <2>2. CASE ~valid[i]
    <3>1. ~(i < j)
      BY <1>4, <1>9, <2>2 DEF TableInv, UsedPrefix
    <3>2. j < i
      BY <1>2, <1>4, <1>9, <3>1
    <3> QED BY <1>5, <3>2
  <2> QED BY <2>1, <2>2
<1>10. ASSUME NEW j \in Mboxes, NEW k \in Mboxes, valid'[j], valid'[k], name'[j] = name'[k]
       PROVE  j = k
  <2>1. CASE j # i /\ k # i
    BY <1>1, <1>4, <1>6, <1>10, <2>1 DEF TableInv, NamesUnique
  <2>2. CASE j = i /\ k # i
    BY <1>1, <1>4, <1>6, <1>9, <1>10, <2>2
  <2>3. CASE j # i /\ k = i
    BY <1>1, <1>4, <1>6, <1>9, <1>10, <2>3
  <2> QED BY <2>1, <2>2, <2>3
<1> QED
  BY <1>7, <1>8, <1>10 DEF TableInv, UsedPrefix, NamesUnique

\* do_mbox_close changes nothing: valid stays set.
LEMMA CloseStep ==
    ASSUME TableInv, NEW t \in Tasks, NEW i \in Mboxes, do_mbox_close(t, i)
    PROVE  valid' = valid /\ name' = name
<1>1. valid[i] /\ valid \in [Mboxes -> BOOLEAN] /\ name' = name
      /\ valid' = [valid EXCEPT ![i] = @ \/ user_num[i] = 0]
  BY DEF do_mbox_close, TableInv
<1>2. valid[i] = TRUE
  BY <1>1
<1>3. valid' = [valid EXCEPT ![i] = TRUE]
  BY <1>1, <1>2
<1> QED
  BY <1>1, <1>2, <1>3

\* Calls that do not touch the mailbox table keep what is known of it.
LEMMA TableUnchanged ==
    ASSUME TableInv, UNCHANGED table
    PROVE  TableInv'
BY DEF TableInv, table, UsedPrefix, NamesUnique

\* Steps that do not touch the buffers or the tasks keep what is known of them.
LEMMA TransferUnchanged ==
    ASSUME BufferInv, CountInv,
           UNCHANGED <<head, tail, content, lock, user_num, waiting, pc, call>>
    PROVE  BufferInv' /\ CountInv'
<1>1. BufferInv'
  BY DEF BufferInv, TransferTypeOK, LockFreeAtSwitch, BufferBounds
<1>2. \A i \in Mboxes : Inside(i)' = Inside(i)
  BY DEF Inside
<1>3. UsersBound'
  BY <1>2 DEF CountInv, UsersBound
<1> QED
  BY <1>1, <1>3 DEF CountInv, InCall, NobodyKilled

-----------------------------------------------------------------------------
\* The invariant holds when init_mbox has run.
LEMMA MInvInit == Init => MInv
<1> SUFFICES ASSUME Init PROVE MInv
  OBVIOUS
<1>1. BufferInv
  <2>1. <<>> \in Seq(Tasks)
    BY EmptySeq
  <2>2. MAX_MBOX_LENGTH \in Nat
    BY MailboxAssumption
  <2> QED
    BY <2>1, <2>2 DEF Init, BufferInv, TransferTypeOK, LockFreeAtSwitch, BufferBounds, Queues
<1>2. CountInv
  <2>1. \A i \in Mboxes : Inside(i) = {}
    BY DEF Init, Inside
  <2>2. \A i \in Mboxes : Cardinality(Inside(i)) = 0 /\ user_num[i] = 0
    BY <2>1, FS_EmptySet DEF Init
  <2>3. UsersBound
    BY <2>2 DEF UsersBound
  <2> QED
    BY <2>3 DEF Init, CountInv, InCall, NobodyKilled
<1>3. TableInv
  BY DEF Init, TableInv, UsedPrefix, NamesUnique
<1> QED
  BY <1>1, <1>2, <1>3 DEF MInv

\* Every step of every task keeps the invariant.
LEMMA MInvStep == MInv /\ [Next]_vars => MInv'
<1> SUFFICES ASSUME MInv, [Next]_vars PROVE MInv'
  OBVIOUS
<1>1. BufferInv /\ CountInv /\ TableInv
  BY DEF MInv
<1>2. CASE UNCHANGED vars
  BY <1>1, <1>2, TableUnchanged, TransferUnchanged DEF vars, table, MInv
<1>3. CASE Next
  <2>1. PICK t \in Tasks :
          \/ \E n \in Names : do_mbox_open(t, n)
          \/ \E i \in Mboxes : do_mbox_close(t, i)
          \/ \E i \in Mboxes, len \in Lengths : do_mbox_send(t, i, len)
          \/ \E i \in Mboxes, len \in Lengths : do_mbox_recv(t, i, len)
          \/ resume(t)
          \/ kill_inside(t)
    BY <1>3 DEF Next
  <2>2. ASSUME NEW n \in Names, do_mbox_open(t, n) PROVE MInv'
    <3>1. UNCHANGED <<head, tail, content, lock, user_num, waiting, pc, call>>
      BY <2>2 DEF do_mbox_open
    <3> QED BY <1>1, <2>2, <3>1, OpenStep, TransferUnchanged DEF MInv
  <2>3. ASSUME NEW i \in Mboxes, do_mbox_close(t, i) PROVE MInv'
    <3>1. UNCHANGED <<head, tail, content, lock, user_num, waiting, pc, call>>
      BY <2>3 DEF do_mbox_close
    <3>2. UNCHANGED table
      BY <1>1, <2>3, CloseStep DEF table
    <3> QED BY <1>1, <3>1, <3>2, TableUnchanged, TransferUnchanged DEF MInv
  <2>4. ASSUME NEW cl \in CallRecord, begin(t, cl) PROVE MInv'
    <3>1. UNCHANGED table
      BY <2>4 DEF begin
    <3> QED BY <1>1, <2>4, <3>1, BeginStep, TableUnchanged DEF MInv
  <2>5. ASSUME NEW i \in Mboxes, NEW len \in Lengths,
               do_mbox_send(t, i, len) \/ do_mbox_recv(t, i, len)
        PROVE  MInv'
    <3>1. /\ [kind |-> "send", mbox |-> i, len |-> len] \in CallRecord
          /\ [kind |-> "recv", mbox |-> i, len |-> len] \in CallRecord
      BY DEF CallRecord, Kinds
    <3>2. CASE do_mbox_send(t, i, len)
      BY <2>4, <3>1, <3>2 DEF do_mbox_send
    <3>3. CASE do_mbox_recv(t, i, len)
      BY <2>4, <3>1, <3>3 DEF do_mbox_recv
    <3> QED BY <2>5, <3>2, <3>3
  <2>6. CASE resume(t)
    <3>1. UNCHANGED table
      BY <2>6 DEF resume
    <3> QED BY <1>1, <2>6, <3>1, ResumeStep, TableUnchanged DEF MInv
  <2>7. CASE kill_inside(t)
    <3>1. UNCHANGED table
      BY <2>7 DEF kill_inside, table
    <3> QED BY <1>1, <2>7, <3>1, KillStep, TableUnchanged DEF MInv
  <2> QED
    BY <2>1, <2>2, <2>3, <2>5, <2>6, <2>7
<1> QED
  BY <1>2, <1>3

\* The inductive invariant holds in every reachable state.
THEOREM MailboxInvariant == Spec => []MInv
BY MInvInit, MInvStep, PTL DEF Spec

\* Every variable keeps its type; in particular user_num never goes below 0.
THEOREM MailboxTypes == Spec => []TypeOK
<1>1. MInv => TypeOK
  BY DEF MInv, BufferInv, CountInv, TableInv, TransferTypeOK, CallRecord, TypeOK
<1> QED
  BY <1>1, MailboxInvariant, PTL

\* Neither side of a mailbox runs past the other, whatever lengths the
\* programs pass and whoever is killed while waiting.
THEOREM MailboxBounds == Spec => []BufferBounds
<1>1. MInv => BufferBounds
  BY DEF MInv, BufferInv
<1> QED
  BY <1>1, MailboxInvariant, PTL

\* One name never denotes two mailboxes.
THEOREM MailboxNames == Spec => []NamesUnique
<1>1. MInv => NamesUnique
  BY DEF MInv, TableInv
<1> QED
  BY <1>1, MailboxInvariant, PTL

\* Without do_kill inside a call, user_num is the number of tasks inside.
THEOREM MailboxUsers == Spec => [](~Kills => UserCount)
<1>1. MInv => (~Kills => UserCount)
  <2> SUFFICES ASSUME MInv, ~Kills, NEW i \in Mboxes
               PROVE  user_num[i] = Cardinality({t \in Tasks : pc[t] # "user" /\ call[t].mbox = i})
    BY DEF UserCount
  <2>1. {t \in Tasks : pc[t] # "user" /\ call[t].mbox = i} = Inside(i)
    BY DEF MInv, BufferInv, TransferTypeOK, CountInv, NobodyKilled, Inside
  <2> QED
    BY <2>1 DEF MInv, CountInv, UsersBound
<1> QED
  BY <1>1, MailboxInvariant, PTL

-----------------------------------------------------------------------------
(* Whole messages.  The buffer is addressed modulo its size and a byte's    *)
(* offset is its stream position modulo the length: facts about remainders. *)

\* A multiple of M between -M and M is zero.
LEMMA SmallMultiple ==
    ASSUME NEW M \in Nat \ {0}, NEW d \in Int, M * d < M, -M < M * d
    PROVE  d = 0
<1>1. CASE d >= 1
  <2>1. PICK e \in Nat : d = e + 1
    BY <1>1
  <2>2. M * d = M * e + M /\ M * e >= 0
    BY <2>1
  <2> QED BY <2>2
<1>2. CASE d <= -1
  <2>1. -d - 1 \in Nat
    BY <1>2
  <2>2. PICK e \in Nat : d = -e - 1
    BY <2>1
  <2>3. M * d = -(M * e) - M /\ M * e >= 0
    BY <2>2
  <2> QED BY <2>3
<1> QED
  BY <1>1, <1>2

\* Division with remainder, and its uniqueness.
LEMMA Division ==
    ASSUME NEW a \in Nat, NEW L \in Nat \ {0}
    PROVE  /\ a = L * (a \div L) + (a % L)
           /\ a \div L \in Nat /\ a % L \in Nat /\ a % L < L
BY SMTT(20)

\* What remains of q messages of L bytes and r bytes more.
LEMMA Remainder ==
    ASSUME NEW L \in Nat \ {0}, NEW q \in Nat, NEW r \in Nat, r < L
    PROVE  (L * q + r) % L = r
<1> DEFINE n == L * q + r
           d == (n \div L) - q
<1>1. n \in Nat
  OBVIOUS
<1>2. n = L * (n \div L) + (n % L) /\ n \div L \in Nat /\ n % L \in Nat /\ n % L < L
  BY <1>1, Division
<1>3. d \in Int /\ L * d = r - (n % L)
  BY <1>2
<1>4. d = 0
  BY <1>2, <1>3, SmallMultiple
<1> QED
  BY <1>2, <1>3, <1>4

\* The k-th byte of a message that starts at a multiple of its length.
LEMMA OffsetInMessage ==
    ASSUME NEW a \in Nat, NEW L \in Nat \ {0}, a % L = 0, NEW k \in Nat, k < L
    PROVE  (a + k) % L = k
<1>1. a = L * (a \div L) /\ a \div L \in Nat
  BY Division
<1> DEFINE q == a \div L
<1> HIDE DEF q
<1>2. (L * q + k) % L = k
  BY <1>1, Remainder DEF q
<1> QED
  BY <1>1, <1>2 DEF q

\* The position behind such a message.
LEMMA NextMessage ==
    ASSUME NEW a \in Nat, NEW L \in Nat \ {0}, a % L = 0
    PROVE  (a + L) % L = 0
<1> DEFINE q == (a \div L) + 1
<1>1. a + L = L * q + 0 /\ q \in Nat
  <2>1. a = L * (a \div L) /\ a \div L \in Nat
    BY Division
  <2> QED BY <2>1
<1> HIDE DEF q
<1>2. \A r \in Nat : r < L => (L * q + r) % L = r
  BY <1>1, Remainder
<1>3. PICK r \in Nat : r = 0
  OBVIOUS
<1>4. (L * q + r) % L = 0
  BY <1>2, <1>3
<1> QED
  BY <1>1, <1>3, <1>4

\* The start of the message that position j is in is not before any message
\* start that j is not before.
LEMMA MessageStart ==
    ASSUME NEW a \in Nat, NEW j \in Nat, NEW L \in Nat \ {0}, a <= j, a % L = 0
    PROVE  a <= j - (j % L) /\ j - (j % L) <= j /\ j - (j % L) \in Nat
<1>1. a = L * (a \div L) /\ j = L * (j \div L) + (j % L) /\ a \div L \in Nat
      /\ j \div L \in Nat /\ j % L \in Nat /\ j % L < L
  BY Division
<1> DEFINE d == (j \div L) - (a \div L)
<1>2. d \in Int /\ L * d = j - (j % L) - a
  BY <1>1
<1>3. ASSUME d < 0 PROVE FALSE
  <2>1. -L < L * d
    BY <1>1, <1>2
  <2>2. L * d < L
    BY <1>1, <1>2, <1>3
  <2> QED BY <1>2, <1>3, <2>1, <2>2, SmallMultiple
<1>4. L * d >= 0
  BY <1>2, <1>3
<1> QED
  BY <1>1, <1>2, <1>4

\* Positions less than the size of a mailbox apart have cells of their own.
LEMMA CellsDiffer ==
    ASSUME NEW a \in Nat, NEW b \in Nat, a < b, b < a + MAX_MBOX_LENGTH
    PROVE  Cell(a) # Cell(b)
<1> DEFINE M == MAX_MBOX_LENGTH
           d == (b \div M) - (a \div M)
<1>1. M \in Nat \ {0}
  BY MailboxAssumption
<1> SUFFICES ASSUME a % M = b % M PROVE FALSE
  BY DEF Cell
<1>2. a = M * (a \div M) + (a % M) /\ b = M * (b \div M) + (b % M)
      /\ a \div M \in Nat /\ b \div M \in Nat /\ a % M \in Nat
  BY <1>1, Division
<1>3. d \in Int /\ M * d = b - a
  BY <1>1, <1>2
<1>4. d = 0
  BY <1>1, <1>3, SmallMultiple
<1> QED
  BY <1>1, <1>3, <1>4

\* Every position has a cell of the buffer.
LEMMA CellInBuffer ==
    ASSUME NEW a \in Nat
    PROVE  Cell(a) \in 0 .. MAX_MBOX_LENGTH - 1
BY MailboxAssumption, Division DEF Cell

\* What do_mbox_send copies in: the message from tail on, one byte to a cell;
\* the unread bytes are where they were.
LEMMA FilledCells ==
    ASSUME TransferTypeOK, NEW i \in Mboxes, NEW t \in Tasks, NEW len \in Lengths,
           tail[i] + len <= head[i] + MAX_MBOX_LENGTH
    PROVE  /\ \A k \in 0 .. len - 1 : Filled(i, t, len)[Cell(tail[i] + k)] = <<t, k + 1>>
           /\ \A j \in head[i] .. tail[i] - 1 :
                 Filled(i, t, len)[Cell(j)] = content[i][Cell(j)]
<1> DEFINE T == tail[i]
           H == head[i]
           M == MAX_MBOX_LENGTH
<1>1. T \in Nat /\ H \in Nat /\ M \in Nat /\ len \in Nat /\ len <= M
  BY MailboxAssumption DEF TransferTypeOK
<1>2. ASSUME NEW k \in 0 .. len - 1
      PROVE  Filled(i, t, len)[Cell(T + k)] = <<t, k + 1>>
  <2> DEFINE c == Cell(T + k)
             Src == CHOOSE n \in 1 .. len : Cell(T + (n - 1)) = c
  <2>1. c \in 0 .. M - 1
    BY <1>1, CellInBuffer
  <2>2. k + 1 \in 1 .. len /\ Cell(T + ((k + 1) - 1)) = c
    <3>1. T + ((k + 1) - 1) = T + k
      BY <1>1
    <3> QED BY <1>1, <3>1
  <2>3. ASSUME NEW n \in 1 .. len, Cell(T + (n - 1)) = c PROVE n = k + 1
    <3>1. CASE n - 1 < k
      <4>1. T + (n - 1) \in Nat /\ T + k \in Nat /\ T + (n - 1) < T + k /\ T + k < T + (n - 1) + M
        BY <1>1, <3>1
      <4> HIDE DEF T, M
      <4>2. Cell(T + (n - 1)) # Cell(T + k)
        BY <4>1, CellsDiffer DEF M
      <4> QED BY <2>3, <4>2
    <3>2. CASE k < n - 1
      <4>1. T + (n - 1) \in Nat /\ T + k \in Nat /\ T + k < T + (n - 1) /\ T + (n - 1) < T + k + M
        BY <1>1, <3>2
      <4> HIDE DEF T, M
      <4>2. Cell(T + k) # Cell(T + (n - 1))
        BY <4>1, CellsDiffer DEF M
      <4> QED BY <2>3, <4>2
    <3> QED BY <1>1, <3>1, <3>2
  <2>4. Src = k + 1
    BY <2>2, <2>3
  <2>5. \E n \in 1 .. len : Cell(T + (n - 1)) = c
    BY <2>2
  <2>6. Filled(i, t, len)[c] = <<t, Src>>
    BY <2>1, <2>5 DEF Filled
  <2> QED BY <2>4, <2>6
<1>3. ASSUME NEW j \in H .. T - 1
      PROVE  Filled(i, t, len)[Cell(j)] = content[i][Cell(j)]
  <2>1. Cell(j) \in 0 .. M - 1
    BY <1>1, CellInBuffer
  <2>2. ASSUME NEW n \in 1 .. len PROVE Cell(T + (n - 1)) # Cell(j)
    <3>1. j \in Nat /\ T + (n - 1) \in Nat /\ j < T + (n - 1) /\ T + (n - 1) < j + M
      BY <1>1
    <3> HIDE DEF T, M
    <3> QED BY <3>1, CellsDiffer DEF M
  <2> QED BY <2>1, <2>2 DEF Filled
<1> QED
  BY <1>2, <1>3

\* All programs pass the same length.
OneLength == \A l, m \in Lengths : l = m

\* Messages start at multiples of the length.
Aligned == \A i \in Mboxes, len \in Lengths : head[i] % len = 0 /\ tail[i] % len = 0

WInv == OneLength => Aligned /\ WholeMessages

\* The shape of a step: a call runs its critical section at once, be it new
\* or resumed; a task is killed; or only the table of names changes.
LEMMA StepShape ==
    ASSUME MInv, [Next]_vars
    PROVE  \/ \E t \in Tasks, cl \in CallRecord, users \in [Mboxes -> Nat] : \E held :
                /\ critical_section(t, cl, users, held)
                /\ pc[t] = "user" \/ (Woken(t) /\ call[t] = cl)
           \/ \E t \in Tasks : kill_inside(t)
           \/ UNCHANGED <<head, tail, content, waiting, pc, call>>
<1>1. CASE UNCHANGED vars
  BY <1>1 DEF vars
<1>2. ASSUME NEW t \in Tasks, NEW cl \in CallRecord, begin(t, cl)
      PROVE  \E users \in [Mboxes -> Nat] : \E held :
                critical_section(t, cl, users, held) /\ pc[t] = "user"
  <2>1. cl.mbox \in Mboxes
    BY DEF CallRecord
  <2>2. /\ critical_section(t, cl, [user_num EXCEPT ![cl.mbox] = @ + 1], Locked(cl.mbox))
        /\ pc[t] = "user"
    BY <1>2, <2>1 DEF begin, enter, MInv, BufferInv, LockFreeAtSwitch
  <2>3. [user_num EXCEPT ![cl.mbox] = @ + 1] \in [Mboxes -> Nat]
    BY <2>1 DEF MInv, CountInv
  <2> QED BY <2>2, <2>3
<1>3. ASSUME NEW t \in Tasks, resume(t)
      PROVE  /\ call[t] \in CallRecord /\ user_num \in [Mboxes -> Nat]
             /\ \E held : critical_section(t, call[t], user_num, held)
             /\ Woken(t)
  <2>1. pc[t] \in {"retry", "locked"} /\ Woken(t)
    BY <1>3 DEF resume, Woken
  <2>2. call[t] \in CallRecord
    BY <2>1 DEF MInv, CountInv, InCall
  <2>3. call[t].mbox \in Mboxes
    BY <2>2 DEF CallRecord
  <2>4. \/ critical_section(t, call[t], user_num, Locked(call[t].mbox))
        \/ critical_section(t, call[t], user_num, lock)
    BY <1>3, <2>1, <2>3 DEF resume, enter, MInv, BufferInv, LockFreeAtSwitch
  <2> QED BY <2>1, <2>2, <2>4 DEF MInv, CountInv
<1>4. ASSUME NEW t \in Tasks, NEW i \in Mboxes, NEW len \in Lengths,
             do_mbox_send(t, i, len) \/ do_mbox_recv(t, i, len)
      PROVE  \E cl \in CallRecord : begin(t, cl)
  <2>1. /\ [kind |-> "send", mbox |-> i, len |-> len] \in CallRecord
        /\ [kind |-> "recv", mbox |-> i, len |-> len] \in CallRecord
    BY DEF CallRecord, Kinds
  <2> QED BY <1>4, <2>1 DEF do_mbox_send, do_mbox_recv
<1>5. ASSUME NEW t \in Tasks, NEW x, do_mbox_open(t, x) \/ do_mbox_close(t, x)
      PROVE  UNCHANGED <<head, tail, content, waiting, pc, call>>
  BY <1>5 DEF do_mbox_open, do_mbox_close
<1>6. CASE Next
  <2>1. PICK t \in Tasks :
          \/ \E n \in Names : do_mbox_open(t, n)
          \/ \E i \in Mboxes : do_mbox_close(t, i)
          \/ \E i \in Mboxes, len \in Lengths : do_mbox_send(t, i, len)
          \/ \E i \in Mboxes, len \in Lengths : do_mbox_recv(t, i, len)
          \/ resume(t)
          \/ kill_inside(t)
    BY <1>6 DEF Next
  <2>2. CASE \E i \in Mboxes, len \in Lengths : do_mbox_send(t, i, len) \/ do_mbox_recv(t, i, len)
    BY <1>2, <1>4, <2>2
  <2>3. CASE resume(t)
    BY <1>3, <2>3
  <2>4. CASE \/ \E n \in Names : do_mbox_open(t, n)
             \/ \E i \in Mboxes : do_mbox_close(t, i)
    BY <1>5, <2>4
  <2> QED BY <2>1, <2>2, <2>3, <2>4
<1> QED
  BY <1>1, <1>6

\* What the critical section does to the buffer of its mailbox, and what
\* the call may have relied on.
LEMMA TransferEffect ==
    ASSUME BufferInv, NEW t \in Tasks, NEW cl \in CallRecord, NEW users, NEW held,
           critical_section(t, cl, users, held)
    PROVE  \/ UNCHANGED <<head, tail, content>>
           \/ /\ content' = [content EXCEPT ![cl.mbox] = Filled(cl.mbox, t, cl.len)]
              /\ tail' = [tail EXCEPT ![cl.mbox] = @ + cl.len]
              /\ head' = head
              /\ tail[cl.mbox] + cl.len <= head[cl.mbox] + MAX_MBOX_LENGTH
           \/ /\ head' = [head EXCEPT ![cl.mbox] = @ + cl.len]
              /\ UNCHANGED <<tail, content>>
              /\ head[cl.mbox] + cl.len <= tail[cl.mbox]
<1> DEFINE i == cl.mbox
<1>1. i \in Mboxes /\ cl.len \in Lengths
  BY DEF CallRecord
<1>2. cl.len \in 1 .. MAX_MBOX_LENGTH /\ MAX_MBOX_LENGTH \in Nat
  BY <1>1, MailboxAssumption
<1>3. head[i] \in Nat /\ tail[i] \in Nat
  BY <1>1 DEF BufferInv, TransferTypeOK
<1>4. CASE MustWait(cl)
  BY <1>4 DEF critical_section, wait, transfer
<1>5. CASE ~MustWait(cl) /\ cl.kind = "send"
  <2>1. tail[i] + cl.len <= head[i] + MAX_MBOX_LENGTH
    BY <1>2, <1>3, <1>5 DEF MustWait, Used
  <2> QED BY <1>5, <2>1 DEF critical_section, wait, transfer
<1>6. CASE ~MustWait(cl) /\ cl.kind # "send"
  <2>1. head[i] + cl.len <= tail[i]
    BY <1>2, <1>3, <1>6 DEF MustWait, Used
  <2> QED BY <1>6, <2>1 DEF critical_section, wait, transfer
<1> QED
  BY <1>4, <1>5, <1>6

\* A transfer keeps the messages whole: do_mbox_send starts behind the last
\* one and stops before the first unread byte, do_mbox_recv takes one away.
LEMMA WholeKept ==
    ASSUME BufferInv, OneLength, Aligned, WholeMessages,
           NEW t \in Tasks, NEW cl \in CallRecord, NEW users, NEW held,
           critical_section(t, cl, users, held)
    PROVE  Aligned' /\ WholeMessages'
<1> DEFINE i == cl.mbox
           L == cl.len
<1>1. i \in Mboxes /\ L \in Lengths /\ L \in Nat \ {0} /\ MAX_MBOX_LENGTH \in Nat \ {0}
  <2>1. i \in Mboxes /\ L \in Lengths
    BY DEF CallRecord
  <2>2. L \in 1 .. MAX_MBOX_LENGTH /\ MAX_MBOX_LENGTH \in Nat \ {0}
    BY <2>1, MailboxAssumption
  <2> QED BY <2>1, <2>2
<1>2. \A len \in Lengths : len = L
  BY <1>1 DEF OneLength
<1>3. /\ TransferTypeOK /\ head \in [Mboxes -> Nat] /\ tail \in [Mboxes -> Nat]
      /\ content \in [Mboxes -> [0 .. MAX_MBOX_LENGTH - 1 ->
                                   {NoByte} \cup (Tasks \X (1 .. MAX_MBOX_LENGTH))]]
      /\ head[i] \in Nat /\ tail[i] \in Nat /\ head[i] <= tail[i]
  BY <1>1 DEF BufferInv, TransferTypeOK, BufferBounds
<1>4. \A j \in Mboxes : head[j] % L = 0 /\ tail[j] % L = 0
  BY <1>1 DEF Aligned
<1>5. CASE UNCHANGED <<head, tail, content>>
  BY <1>5 DEF Aligned, WholeMessages
<1>6. CASE /\ head' = [head EXCEPT ![i] = @ + L]
           /\ UNCHANGED <<tail, content>>
           /\ head[i] + L <= tail[i]
  <2>1. (head[i] + L) % L = 0
    BY <1>1, <1>3, <1>4, NextMessage
  <2>2. \A j \in Mboxes : head'[j] % L = 0 /\ tail'[j] % L = 0
    BY <1>1, <1>3, <1>4, <1>6, <2>1
  <2>3. \A j \in Mboxes : head[j] <= head'[j] /\ head'[j] \in Nat /\ head[j] \in Nat
    BY <1>1, <1>3, <1>6
  <2>4. ASSUME NEW m \in Mboxes, NEW len \in Lengths, NEW j \in head'[m] .. tail'[m] - 1
        PROVE  \E u \in Tasks : /\ content'[m][Cell(j - (j % len))] = <<u, 1>>
                                /\ content'[m][Cell(j)] = <<u, (j % len) + 1>>
    <3>1. j \in head[m] .. tail[m] - 1
      BY <1>3, <1>6, <2>3
    <3> QED BY <1>6, <3>1 DEF WholeMessages
  <2> QED BY <1>2, <2>2, <2>4 DEF Aligned, WholeMessages
<1>7. CASE /\ content' = [content EXCEPT ![i] = Filled(i, t, L)]
           /\ tail' = [tail EXCEPT ![i] = @ + L]
           /\ head' = head
           /\ tail[i] + L <= head[i] + MAX_MBOX_LENGTH
  <2>1. (tail[i] + L) % L = 0
    BY <1>1, <1>3, <1>4, NextMessage
  <2>2. \A j \in Mboxes : head'[j] % L = 0 /\ tail'[j] % L = 0
    BY <1>1, <1>3, <1>4, <1>7, <2>1
  <2>3. /\ \A k \in 0 .. L - 1 : Filled(i, t, L)[Cell(tail[i] + k)] = <<t, k + 1>>
        /\ \A j \in head[i] .. tail[i] - 1 : Filled(i, t, L)[Cell(j)] = content[i][Cell(j)]
    BY <1>1, <1>3, <1>7, FilledCells, ZenonT(60)
  <2>4. content'[i] = Filled(i, t, L) /\ tail'[i] = tail[i] + L /\ head'[i] = head[i]
    BY <1>1, <1>3, <1>7
  <2>5. ASSUME NEW j \in head'[i] .. tail'[i] - 1
        PROVE  \E u \in Tasks : /\ content'[i][Cell(j - (j % L))] = <<u, 1>>
                                /\ content'[i][Cell(j)] = <<u, (j % L) + 1>>
    <3>1. j \in Nat /\ head[i] <= j /\ j < tail[i] + L
      BY <1>1, <1>3, <2>4, SMTT(40)
    <3>2. CASE j < tail[i]
      <4>1. head[i] <= j - (j % L) /\ j - (j % L) <= j /\ j - (j % L) \in Nat
        BY <1>1, <1>3, <1>4, <3>1, MessageStart
      <4>2. j \in head[i] .. tail[i] - 1 /\ j - (j % L) \in head[i] .. tail[i] - 1
        BY <1>3, <3>1, <3>2, <4>1
      <4>3. PICK u \in Tasks : /\ content[i][Cell(j - (j % L))] = <<u, 1>>
                               /\ content[i][Cell(j)] = <<u, (j % L) + 1>>
        BY <1>1, <4>2 DEF WholeMessages
      <4> QED BY <2>3, <2>4, <4>2, <4>3
    <3>3. CASE tail[i] <= j
      <4> DEFINE k == j - tail[i]
      <4>1. k \in Nat /\ k < L /\ k \in 0 .. L - 1 /\ j = tail[i] + k
        BY <1>1, <1>3, <3>1, <3>3, SMTT(40)
      <4>2. (tail[i] + k) % L = k
        <5> HIDE DEF k
        <5> QED BY <1>1, <1>3, <1>4, <4>1, OffsetInMessage
      <4>3. j % L = k
        BY <4>1, <4>2
      <4>4. j - (j % L) = tail[i] + 0 /\ 0 \in 0 .. L - 1
        <5>1. j - k = tail[i] + 0
          BY <1>3, <3>1
        <5>2. j - (j % L) = j - k
          BY <4>3
        <5>3. 0 \in 0 .. L - 1
          BY <1>1
        <5> QED BY <5>1, <5>2, <5>3
      <4>5. content'[i][Cell(j)] = <<t, (j % L) + 1>>
        <5>1. Filled(i, t, L)[Cell(tail[i] + k)] = <<t, k + 1>>
          <6> HIDE DEF k
          <6> QED BY <2>3, <4>1
        <5>2. Cell(j) = Cell(tail[i] + k)
          BY <4>1
        <5> HIDE DEF k
        <5> QED BY <2>4, <4>3, <5>1, <5>2
      <4>6. content'[i][Cell(j - (j % L))] = <<t, 1>>
        <5>1. Filled(i, t, L)[Cell(tail[i] + 0)] = <<t, 0 + 1>>
          BY <2>3, <4>4
        <5> QED BY <2>4, <4>4, <5>1
      <4> QED BY <4>5, <4>6
    <3> QED BY <1>3, <3>1, <3>2, <3>3
  <2>6. ASSUME NEW m \in Mboxes, m # i, NEW len \in Lengths, NEW j \in head'[m] .. tail'[m] - 1
        PROVE  \E u \in Tasks : /\ content'[m][Cell(j - (j % len))] = <<u, 1>>
                                /\ content'[m][Cell(j)] = <<u, (j % len) + 1>>
    <3>1. content'[m] = content[m] /\ tail'[m] = tail[m] /\ head'[m] = head[m]
      BY <1>1, <1>3, <1>7, <2>6
    <3> QED BY <2>6, <3>1 DEF WholeMessages
  <2>7. Aligned'
    BY <1>2, <2>2 DEF Aligned
  <2>8. ASSUME NEW m \in Mboxes, NEW len \in Lengths, NEW j \in head'[m] .. tail'[m] - 1
        PROVE  \E u \in Tasks : /\ content'[m][Cell(j - (j % len))] = <<u, 1>>
                                /\ content'[m][Cell(j)] = <<u, (j % len) + 1>>
    <3>1. len = L
      BY <1>2
    <3>2. CASE m = i
      BY <2>5, <2>8, <3>1, <3>2
    <3>3. CASE m # i
      BY <2>6, <2>8, <3>3
    <3> QED BY <3>2, <3>3
  <2> QED BY <2>7, <2>8 DEF WholeMessages
<1> QED
  BY <1>5, <1>6, <1>7, TransferEffect

\* When all programs pass one length, the unread bytes of a mailbox are whole
\* messages in order, for any length and mailbox size and any number of
\* senders and receivers, also when the buffer wraps round within a message
\* and when tasks are killed while they wait (WholeMessages).
THEOREM MailboxWholeMessages == Spec => [](OneLength => WholeMessages)
<1>1. Init => WInv
  <2> SUFFICES ASSUME Init PROVE Aligned /\ WholeMessages
    BY DEF WInv
  <2>1. \A len \in Lengths : 0 % len = 0
    <3> SUFFICES ASSUME NEW len \in Lengths PROVE 0 % len = 0
      OBVIOUS
    <3>1. len \in Nat \ {0}
      BY MailboxAssumption
    <3> QED BY <3>1
  <2>2. \A i \in Mboxes : head[i] = 0 /\ tail[i] = 0
    BY DEF Init
  <2>3. 0 .. 0 - 1 = {}
    OBVIOUS
  <2> QED BY <2>1, <2>2, <2>3 DEF Aligned, WholeMessages
<1>2. MInv /\ WInv /\ [Next]_vars => WInv'
  <2> SUFFICES ASSUME MInv, WInv, [Next]_vars, OneLength PROVE Aligned' /\ WholeMessages'
    BY DEF WInv, OneLength
  <2>1. Aligned /\ WholeMessages /\ BufferInv
    BY DEF WInv, MInv
  <2>2. ASSUME UNCHANGED <<head, tail, content>> PROVE Aligned' /\ WholeMessages'
    BY <2>1, <2>2 DEF Aligned, WholeMessages
  <2>3. ASSUME NEW t \in Tasks, kill_inside(t) PROVE UNCHANGED <<head, tail, content>>
    BY <2>3 DEF kill_inside
  <2> QED BY <2>1, <2>2, <2>3, StepShape, WholeKept
<1>3. WInv => (OneLength => WholeMessages)
  BY DEF WInv
<1> QED
  BY <1>1, <1>2, <1>3, MailboxInvariant, PTL DEF Spec

-----------------------------------------------------------------------------
(* Wake-ups.  Room(i, kind) is what a call of a kind needs: free bytes for   *)
(* do_mbox_send, unread ones for do_mbox_recv.  A transfer of one kind takes *)
(* its length from the room of that kind and adds it to the other's, for     *)
(* which it wakes one task.                                                  *)

Room(i, kind) == IF kind = "send" THEN MAX_MBOX_LENGTH - Used(i) ELSE Used(i)

\* The tasks that wait for room of a kind, and those that have been woken.
Waiters(i, kind) == waiting[i][WaitsIn(kind)]
WokenFor(i, kind) == {t \in Inside(i) : call[t].kind = kind /\ t \notin Range(Waiters(i, kind))}

\* A task on a queue waits there once, inside the call that waits there.
QueuesKept ==
    \A i \in Mboxes, Q \in Queues :
        /\ IsInjective(waiting[i][Q])
        /\ \A t \in Range(waiting[i][Q]) :
              pc[t] = "retry" /\ call[t].mbox = i /\ WaitsIn(call[t].kind) = Q

\* While somebody waits, the woken tasks will use up the room, but for less
\* than one message.
WakeupsSuffice ==
    \A i \in Mboxes, kind \in Kinds, len \in Lengths :
        Waiters(i, kind) # <<>> =>
            (Cardinality(WokenFor(i, kind)) + 1) * len > Room(i, kind)

SInv == OneLength /\ ~Kills => QueuesKept /\ WakeupsSuffice

\* What the critical section does to queues and tasks.
LEMMA QueueEffect ==
    ASSUME BufferInv, NEW t \in Tasks, NEW cl \in CallRecord, NEW users, NEW held,
           critical_section(t, cl, users, held)
    PROVE  \/ /\ cl.len > Room(cl.mbox, cl.kind)
              /\ pc' = [pc EXCEPT ![t] = "retry"] /\ call' = [call EXCEPT ![t] = cl]
              /\ UNCHANGED <<head, tail>>
              /\ waiting' = [waiting EXCEPT ![cl.mbox] =
                    [waiting[cl.mbox] EXCEPT ![WaitsIn(cl.kind)] = Append(@, t)]]
           \/ /\ pc' = [pc EXCEPT ![t] = "user"] /\ call' = [call EXCEPT ![t] = NoCall]
              /\ \E s : /\ s = <<>> \/ (/\ waiting[cl.mbox][Wakes(cl.kind)] # <<>>
                                        /\ s = Tail(waiting[cl.mbox][Wakes(cl.kind)]))
                        /\ waiting' = [waiting EXCEPT ![cl.mbox] =
                              [waiting[cl.mbox] EXCEPT ![Wakes(cl.kind)] = s]]
<1> DEFINE i == cl.mbox
           w == waiting[i]
<1>1. /\ i \in Mboxes /\ cl.len \in Lengths /\ cl.kind \in Kinds
      /\ w \in [Queues -> Seq(Tasks)] /\ w["lock"] = <<>>
  BY DEF CallRecord, BufferInv, TransferTypeOK, LockFreeAtSwitch
<1>2. /\ WaitsIn(cl.kind) \in Queues /\ Wakes(cl.kind) \in Queues /\ "lock" \in Queues
      /\ WaitsIn(cl.kind) # "lock" /\ Wakes(cl.kind) # "lock"
  BY DEF WaitsIn, Wakes, Queues
<1>3. UnblockOne(w["lock"]) = w["lock"]
  BY <1>1 DEF UnblockOne
<1>4. [w EXCEPT !["lock"] = UnblockOne(@)] = w
  BY <1>1, <1>2, <1>3
<1>5. CASE MustWait(cl)
  <2>1. cl.len > Room(i, cl.kind)
    BY <1>5 DEF MustWait, Room
  <2>2. GiveUp(w, t, cl.kind) = [w EXCEPT ![WaitsIn(cl.kind)] = Append(@, t)]
    BY <1>1, <1>2, <1>3 DEF GiveUp
  <2>3. /\ waiting' = [waiting EXCEPT ![i] = GiveUp(w, t, cl.kind)]
        /\ pc' = [pc EXCEPT ![t] = "retry"]
        /\ call' = [call EXCEPT ![t] = cl]
        /\ UNCHANGED <<head, tail>>
    BY <1>5 DEF critical_section, wait, transfer
  <2> QED BY <2>1, <2>2, <2>3
<1>6. CASE ~MustWait(cl)
  <2> DEFINE all == IF cl.kind = "send" THEN head'[i] + MAX_MBOX_LENGTH = tail'[i]
                                        ELSE head'[i] = tail'[i]
             s == UnblockOne(IF all THEN <<>> ELSE w[Wakes(cl.kind)])
  <2>1. /\ waiting' = [waiting EXCEPT ![i] = Finish(w, cl.kind, all)]
        /\ pc' = [pc EXCEPT ![t] = "user"]
        /\ call' = [call EXCEPT ![t] = NoCall]
    BY <1>6 DEF critical_section, wait, transfer
  <2> HIDE DEF all
  <2>2. Finish(w, cl.kind, all) = [w EXCEPT ![Wakes(cl.kind)] = s]
    BY <1>1, <1>2, <1>3 DEF Finish
  <2>3. s = <<>> \/ (w[Wakes(cl.kind)] # <<>> /\ s = Tail(w[Wakes(cl.kind)]))
    BY DEF UnblockOne
  <2> HIDE DEF s
  <2> QED BY <2>1, <2>2, <2>3
<1> QED
  BY <1>5, <1>6

\* A task that may enter the critical section is on no queue and is counted
\* among the woken, if at all, where it waited.
LEMMA Enters ==
    ASSUME QueuesKept, NEW t \in Tasks, NEW cl,
           pc[t] = "user" \/ (Woken(t) /\ call[t] = cl)
    PROVE  /\ \A i \in Mboxes, Q \in Queues : t \notin Range(waiting[i][Q])
           /\ \A i \in Mboxes, kind \in Kinds :
                 t \in WokenFor(i, kind) => i = cl.mbox /\ kind = cl.kind
<1>1. \A i \in Mboxes, Q \in Queues : t \notin Range(waiting[i][Q])
  BY DEF QueuesKept, Woken, OnQueue
<1> QED
  BY <1>1 DEF WokenFor, Inside

\* A task that finds no room joins the queue of its call: there is less room
\* than it needs, so nobody on that queue has been forgotten.
LEMMA WaitKeeps ==
    ASSUME BufferInv, OneLength, QueuesKept, WakeupsSuffice,
           NEW t \in Tasks, NEW cl \in CallRecord, pc[t] = "user" \/ (Woken(t) /\ call[t] = cl),
           cl.len > Room(cl.mbox, cl.kind),
           pc' = [pc EXCEPT ![t] = "retry"], call' = [call EXCEPT ![t] = cl],
           UNCHANGED <<head, tail>>,
           waiting' = [waiting EXCEPT ![cl.mbox] =
                          [waiting[cl.mbox] EXCEPT ![WaitsIn(cl.kind)] = Append(@, t)]]
    PROVE  QueuesKept' /\ WakeupsSuffice'
<1> DEFINE i == cl.mbox
           W == WaitsIn(cl.kind)
<1>1. /\ i \in Mboxes /\ cl.len \in Lengths /\ cl.kind \in Kinds
      /\ waiting \in [Mboxes -> [Queues -> Seq(Tasks)]]
      /\ pc \in [Tasks -> {"user", "retry", "locked", "dead"}]
      /\ call \in [Tasks -> {NoCall} \cup CallRecord]
  BY DEF CallRecord, BufferInv, TransferTypeOK
<1>2. W \in Queues /\ \A kind \in Kinds : WaitsIn(kind) \in Queues /\ (kind # cl.kind => WaitsIn(kind) # W)
  BY <1>1 DEF WaitsIn, Queues, Kinds
<1>3. /\ \A j \in Mboxes, Q \in Queues : t \notin Range(waiting[j][Q])
      /\ \A j \in Mboxes, kind \in Kinds : t \in WokenFor(j, kind) => j = i /\ kind = cl.kind
  BY Enters
<1>4. /\ waiting'[i][W] = Append(waiting[i][W], t)
      /\ \A j \in Mboxes, Q \in Queues : j # i \/ Q # W => waiting'[j][Q] = waiting[j][Q]
  BY <1>1, <1>2
<1>5. /\ pc'[t] = "retry" /\ call'[t] = cl
      /\ \A u \in Tasks : u # t => pc'[u] = pc[u] /\ call'[u] = call[u]
  BY <1>1
<1>6. /\ waiting[i][W] \in Seq(Tasks) /\ IsInjective(waiting[i][W])
      /\ t \notin Range(waiting[i][W])
  BY <1>1, <1>2, <1>3, SMTT(40) DEF QueuesKept
<1>7. /\ Range(waiting'[i][W]) = Range(waiting[i][W]) \cup {t}
      /\ IsInjective(waiting'[i][W])
  BY <1>4, <1>6, AppendNodes
<1>8. \A j \in Mboxes, Q \in Queues : \A u \in Range(waiting[j][Q]) : u \in Tasks
  BY <1>1 DEF Range
<1>9. QueuesKept'
  <2> SUFFICES ASSUME NEW j \in Mboxes, NEW Q \in Queues
               PROVE  /\ IsInjective(waiting'[j][Q])
                      /\ \A u \in Range(waiting'[j][Q]) :
                            pc'[u] = "retry" /\ call'[u].mbox = j /\ WaitsIn(call'[u].kind) = Q
    BY DEF QueuesKept
  <2>1. \A u \in Range(waiting[j][Q]) :
            pc'[u] = "retry" /\ call'[u].mbox = j /\ WaitsIn(call'[u].kind) = Q
    BY <1>3, <1>5, <1>8 DEF QueuesKept
  <2>2. CASE j = i /\ Q = W
    BY <1>5, <1>7, <2>1, <2>2
  <2>3. CASE ~(j = i /\ Q = W)
    BY <1>4, <2>1, <2>3 DEF QueuesKept
  <2> QED BY <2>2, <2>3
<1>10. ASSUME NEW j \in Mboxes, NEW kind \in Kinds, NEW len \in Lengths,
              Waiters(j, kind)' # <<>>
       PROVE  (Cardinality(WokenFor(j, kind)') + 1) * len > Room(j, kind)'
  <2>1. Room(j, kind)' = Room(j, kind)
    BY DEF Room, Used
  <2>2. IsFiniteSet(WokenFor(j, kind)') /\ Cardinality(WokenFor(j, kind)') \in Nat
    <3>1. WokenFor(j, kind)' \in SUBSET Tasks
      BY DEF WokenFor, Inside
    <3>2. IsFiniteSet(WokenFor(j, kind)')
      BY <3>1, MailboxAssumption, FS_Subset
    <3> QED BY <3>2, FS_CardinalityType
  <2>3. CASE j = i /\ kind = cl.kind
    <3>1. len = cl.len /\ len \in Nat
      <4>1. len = cl.len
        BY <1>1 DEF OneLength
      <4>2. len \in 1 .. MAX_MBOX_LENGTH /\ MAX_MBOX_LENGTH \in Nat
        BY MailboxAssumption
      <4> QED BY <4>1, <4>2
    <3>2. len > Room(j, kind) /\ Room(j, kind) \in Int
      <4>1. Room(j, kind) \in Int
        <5>1. head[j] \in Nat /\ tail[j] \in Nat /\ MAX_MBOX_LENGTH \in Nat
          BY MailboxAssumption DEF BufferInv, TransferTypeOK
        <5> QED BY <5>1 DEF Room, Used
      <4> QED BY <2>3, <3>1, <4>1
    <3>3. \A n, l \in Nat : (n + 1) * l >= l
      <4>1. \A n, l \in Nat : (n + 1) * l = n * l + l /\ n * l >= 0
        OBVIOUS
      <4> QED BY <4>1
    <3>4. (Cardinality(WokenFor(j, kind)') + 1) * len >= len
      BY <2>2, <3>1, <3>3
    <3>5. (Cardinality(WokenFor(j, kind)') + 1) * len \in Int
      BY <2>2, <3>1
    <3> QED BY <2>1, <3>1, <3>2, <3>4, <3>5
  <2>4. CASE ~(j = i /\ kind = cl.kind)
    <3>1. Waiters(j, kind)' = Waiters(j, kind)
      BY <1>2, <1>4, <2>4 DEF Waiters
    <3>2. t \notin WokenFor(j, kind) /\ t \notin WokenFor(j, kind)'
      BY <1>3, <1>5, <2>4 DEF WokenFor, Inside
    <3>3. WokenFor(j, kind)' = WokenFor(j, kind)
      BY <1>5, <3>1, <3>2 DEF WokenFor, Inside
    <3> QED BY <1>10, <2>1, <3>1, <3>3, SMTT(40) DEF WakeupsSuffice
  <2> QED BY <2>3, <2>4
<1> QED
  BY <1>9, <1>10 DEF WakeupsSuffice

\* A transfer takes its length from the room of its kind, and its caller from
\* the woken; it adds the same to the other room, and one task to the woken
\* there, or leaves nobody waiting.
LEMMA TransferKeeps ==
    ASSUME BufferInv, InCall, OneLength, QueuesKept, WakeupsSuffice,
           NEW t \in Tasks, NEW cl \in CallRecord, pc[t] = "user" \/ (Woken(t) /\ call[t] = cl),
           pc' = [pc EXCEPT ![t] = "user"], call' = [call EXCEPT ![t] = NoCall],
           Room(cl.mbox, cl.kind)' = Room(cl.mbox, cl.kind) - cl.len,
           \A kind \in Kinds : kind # cl.kind =>
              Room(cl.mbox, kind)' = Room(cl.mbox, kind) + cl.len,
           \A j \in Mboxes, kind \in Kinds : j # cl.mbox => Room(j, kind)' = Room(j, kind),
           NEW s,
           s = <<>> \/ (/\ waiting[cl.mbox][Wakes(cl.kind)] # <<>>
                        /\ s = Tail(waiting[cl.mbox][Wakes(cl.kind)])),
           waiting' = [waiting EXCEPT ![cl.mbox] =
                          [waiting[cl.mbox] EXCEPT ![Wakes(cl.kind)] = s]]
    PROVE  QueuesKept' /\ WakeupsSuffice'
<1> DEFINE i == cl.mbox
           W == Wakes(cl.kind)
           q == waiting[i][W]
<1>1. /\ i \in Mboxes /\ cl.len \in Lengths /\ cl.kind \in Kinds
      /\ waiting \in [Mboxes -> [Queues -> Seq(Tasks)]]
      /\ pc \in [Tasks -> {"user", "retry", "locked", "dead"}]
      /\ call \in [Tasks -> {NoCall} \cup CallRecord]
  BY DEF CallRecord, BufferInv, TransferTypeOK
<1>2. /\ W \in Queues
      /\ \A kind \in Kinds : WaitsIn(kind) \in Queues /\ (kind # cl.kind <=> WaitsIn(kind) = W)
  BY <1>1 DEF WaitsIn, Wakes, Queues, Kinds
<1>3. /\ \A j \in Mboxes, Q \in Queues : t \notin Range(waiting[j][Q])
      /\ \A j \in Mboxes, kind \in Kinds : t \in WokenFor(j, kind) => j = i /\ kind = cl.kind
  BY Enters
<1>4. /\ waiting'[i][W] = s
      /\ \A j \in Mboxes, Q \in Queues : j # i \/ Q # W => waiting'[j][Q] = waiting[j][Q]
  BY <1>1, <1>2
<1>5. /\ pc'[t] = "user"
      /\ \A u \in Tasks : u # t => pc'[u] = pc[u] /\ call'[u] = call[u]
  BY <1>1
<1>6. q \in Seq(Tasks) /\ IsInjective(q)
  BY <1>1, <1>2, SMTT(40) DEF QueuesKept
<1>7. IsInjective(s) /\ Range(s) \subseteq Range(q)
  <2>1. CASE s = <<>>
    BY <2>1 DEF IsInjective, Range
  <2>2. CASE q # <<>> /\ s = Tail(q)
    <3> HIDE DEF q
    <3>1. Range(q) = {Head(q)} \cup Range(Tail(q)) /\ IsInjective(Tail(q))
      BY <1>6, <2>2, HeadTailNodes
    <3> QED BY <2>2, <3>1
  <2> QED BY <2>1, <2>2
<1>8. \A j \in Mboxes, Q \in Queues : \A u \in Range(waiting[j][Q]) : u \in Tasks
  BY <1>1, SMTT(40) DEF Range
<1>9. QueuesKept'
  <2> SUFFICES ASSUME NEW j \in Mboxes, NEW Q \in Queues
               PROVE  /\ IsInjective(waiting'[j][Q])
                      /\ \A u \in Range(waiting'[j][Q]) :
                            pc'[u] = "retry" /\ call'[u].mbox = j /\ WaitsIn(call'[u].kind) = Q
    BY DEF QueuesKept
  <2>1. \A u \in Range(waiting[j][Q]) :
            pc'[u] = "retry" /\ call'[u].mbox = j /\ WaitsIn(call'[u].kind) = Q
    BY <1>3, <1>5, <1>8, SMTT(40) DEF QueuesKept
  <2>2. CASE j = i /\ Q = W
    BY <1>4, <1>7, <2>1, <2>2, SMTT(40)
  <2>3. CASE ~(j = i /\ Q = W)
    BY <1>4, <2>1, <2>3 DEF QueuesKept
  <2> QED BY <2>2, <2>3
<1>10. ASSUME NEW j \in Mboxes, NEW kind \in Kinds, NEW len \in Lengths,
              Waiters(j, kind)' # <<>>
       PROVE  (Cardinality(WokenFor(j, kind)') + 1) * len > Room(j, kind)'
  <2> DEFINE n == Cardinality(WokenFor(j, kind))
             m == Cardinality(WokenFor(j, kind)')
             R == Room(j, kind)
  <2>1. /\ IsFiniteSet(WokenFor(j, kind)) /\ n \in Nat
        /\ IsFiniteSet(WokenFor(j, kind)') /\ m \in Nat
    <3>1. WokenFor(j, kind) \in SUBSET Tasks /\ WokenFor(j, kind)' \in SUBSET Tasks
      BY DEF WokenFor, Inside
    <3>2. IsFiniteSet(WokenFor(j, kind)) /\ IsFiniteSet(WokenFor(j, kind)')
      BY <3>1, MailboxAssumption, FS_Subset
    <3> QED BY <3>2, FS_CardinalityType
  <2>2. len = cl.len /\ len \in Nat
    <3>1. len = cl.len
      BY <1>1 DEF OneLength
    <3>2. len \in 1 .. MAX_MBOX_LENGTH /\ MAX_MBOX_LENGTH \in Nat
      BY MailboxAssumption
    <3> QED BY <3>1, <3>2
  <2>3. R \in Int
    <3>1. head[j] \in Nat /\ tail[j] \in Nat /\ MAX_MBOX_LENGTH \in Nat
      BY MailboxAssumption DEF BufferInv, TransferTypeOK
    <3> QED BY <3>1 DEF Room, Used
  <2>4. CASE j = i /\ kind = cl.kind
    <3>1. Waiters(j, kind)' = Waiters(j, kind)
      BY <1>2, <1>4, <2>4 DEF Waiters
    <3>2. WokenFor(j, kind)' = WokenFor(j, kind) \ {t}
      BY <1>5, <3>1 DEF WokenFor, Inside
    <3>3. m = n \/ m = n - 1
      <4>1. CASE t \in WokenFor(j, kind)
        BY <2>1, <3>2, <4>1, FS_RemoveElement
      <4>2. CASE t \notin WokenFor(j, kind)
        <5>1. WokenFor(j, kind)' = WokenFor(j, kind)
          BY <3>2, <4>2
        <5> QED BY <5>1
      <4> QED BY <4>1, <4>2
    <3>4. (n + 1) * len > R
      BY <1>10, <3>1 DEF WakeupsSuffice
    <3>5. Room(j, kind)' = R - len
      BY <2>2, <2>4
    <3> HIDE DEF n, m, R
    <3>6. (n + 1) * len = n * len + len /\ (m + 1) * len = m * len + len
          /\ n * len \in Int /\ m * len \in Int /\ ((n - 1) * len = n * len - len)
      BY <2>1, <2>2, SMTT(40) DEF n, m
    <3>7. (m + 1) * len > R - len
      BY <2>2, <2>3, <3>3, <3>4, <3>6
    <3> QED BY <3>5, <3>7 DEF m
  <2>5. CASE j = i /\ kind # cl.kind
    <3> DEFINE h == Head(q)
    <3>1. /\ Waiters(j, kind) = q /\ Waiters(j, kind)' = s /\ s # <<>>
      BY <1>2, <1>4, <1>10, <2>5 DEF Waiters
    <3>2. q # <<>> /\ s = Tail(q)
      BY <3>1
    <3>3. Range(q) = {h} \cup Range(s) /\ h \notin Range(s)
      <4> HIDE DEF q
      <4> QED BY <1>6, <3>2, HeadTailNodes
    <3>4. h \in Tasks /\ pc[h] = "retry" /\ call[h].mbox = j /\ WaitsIn(call[h].kind) = W /\ h # t
      <4>1. h \in Range(q)
        BY <3>3, SMTT(40)
      <4> HIDE DEF h
      <4> QED BY <1>1, <1>2, <1>3, <1>8, <2>5, <4>1, SMTT(40) DEF QueuesKept
    <3>5. call[h].kind = kind
      <4>1. call[h] \in CallRecord
        BY <3>4 DEF InCall
      <4>2. call[h].kind \in Kinds
        BY <4>1 DEF CallRecord
      <4> QED BY <1>1, <1>2, <2>5, <3>4, <4>2, SMTT(40) DEF Kinds
    <3> HIDE DEF h
    <3>6. WokenFor(j, kind)' = WokenFor(j, kind) \cup {h} /\ h \notin WokenFor(j, kind)
      <4>1. t \notin WokenFor(j, kind) /\ t \notin WokenFor(j, kind)'
        BY <1>3, <1>5, <2>5 DEF WokenFor, Inside
      <4> QED BY <1>5, <3>1, <3>3, <3>4, <3>5, <4>1 DEF WokenFor, Inside
    <3>7. m = n + 1
      BY <2>1, <3>6, FS_AddElement
    <3>8. (n + 1) * len > R
      BY <3>1, <3>2 DEF WakeupsSuffice
    <3>9. Room(j, kind)' = R + len
      BY <2>2, <2>5
    <3> HIDE DEF n, m, R
    <3>10. (n + 1) * len \in Int /\ (m + 1) * len = (n + 1) * len + len
      BY <2>1, <2>2, <3>7 DEF n, m
    <3>11. (m + 1) * len > R + len
      BY <2>2, <2>3, <3>8, <3>10
    <3> QED BY <3>9, <3>11 DEF m
  <2>6. CASE j # i
    <3>1. Waiters(j, kind)' = Waiters(j, kind)
      BY <1>2, <1>4, <2>6 DEF Waiters
    <3>2. t \notin WokenFor(j, kind) /\ t \notin WokenFor(j, kind)'
      BY <1>3, <1>5, <2>6 DEF WokenFor, Inside
    <3>3. WokenFor(j, kind)' = WokenFor(j, kind)
      BY <1>5, <3>1, <3>2 DEF WokenFor, Inside
    <3>4. Room(j, kind)' = R
      BY <2>6
    <3> QED BY <1>10, <3>1, <3>3, <3>4 DEF WakeupsSuffice
  <2> QED BY <2>4, <2>5, <2>6
<1> QED
  BY <1>9, <1>10 DEF WakeupsSuffice

\* The effect of a transfer on both kinds of room.
LEMMA RoomEffect ==
    ASSUME BufferInv, NEW t \in Tasks, NEW cl \in CallRecord, NEW users, NEW held,
           critical_section(t, cl, users, held), ~MustWait(cl)
    PROVE  /\ Room(cl.mbox, cl.kind)' = Room(cl.mbox, cl.kind) - cl.len
           /\ \A kind \in Kinds : kind # cl.kind =>
                 Room(cl.mbox, kind)' = Room(cl.mbox, kind) + cl.len
           /\ \A j \in Mboxes, kind \in Kinds : j # cl.mbox => Room(j, kind)' = Room(j, kind)
<1> DEFINE i == cl.mbox
<1>1. i \in Mboxes /\ cl.len \in Lengths /\ cl.kind \in Kinds
  BY DEF CallRecord
<1>2. cl.len \in Nat /\ MAX_MBOX_LENGTH \in Nat
  <2>1. cl.len \in 1 .. MAX_MBOX_LENGTH /\ MAX_MBOX_LENGTH \in Nat
    BY <1>1, MailboxAssumption
  <2> QED BY <2>1
<1>3. head \in [Mboxes -> Nat] /\ tail \in [Mboxes -> Nat] /\ head[i] \in Nat /\ tail[i] \in Nat
  BY <1>1 DEF BufferInv, TransferTypeOK
<1>4. \A j \in Mboxes : j # i => head'[j] = head[j] /\ tail'[j] = tail[j]
  BY <1>1, <1>3 DEF critical_section, wait, transfer
<1>5. \A j \in Mboxes, kind \in Kinds : j # i => Room(j, kind)' = Room(j, kind)
  BY <1>4 DEF Room, Used
<1>6. CASE cl.kind = "send"
  <2>1. tail'[i] = tail[i] + cl.len /\ head'[i] = head[i]
    BY <1>1, <1>3, <1>6 DEF critical_section, wait, transfer
  <2> QED BY <1>1, <1>2, <1>3, <1>5, <1>6, <2>1 DEF Room, Used, Kinds
<1>7. CASE cl.kind # "send"
  <2>1. head'[i] = head[i] + cl.len /\ tail'[i] = tail[i]
    BY <1>1, <1>3, <1>7 DEF critical_section, wait, transfer
  <2> QED BY <1>1, <1>2, <1>3, <1>5, <1>7, <2>1 DEF Room, Used, Kinds
<1> QED
  BY <1>6, <1>7

\* The mailbox wakes one task per transfer, and that is enough when all
\* messages have one length and nobody is killed: no task waits for bytes or
\* room that is there without a woken task on its side that will take it,
\* for any number of tasks and any mailbox size (NobodyStranded).  It is
\* false when lengths differ (lock.c:368).
THEOREM MailboxNobodyStranded == Spec => [](OneLength /\ ~Kills => NobodyStranded)
<1>1. Init => SInv
  <2> SUFFICES ASSUME Init PROVE QueuesKept /\ WakeupsSuffice
    BY DEF SInv
  <2>1. \A i \in Mboxes, Q \in Queues : waiting[i][Q] = <<>>
    BY DEF Init
  <2>2. \A kind \in Kinds : WaitsIn(kind) \in Queues
    BY DEF WaitsIn, Queues
  <2> QED BY <2>1, <2>2 DEF QueuesKept, WakeupsSuffice, Waiters, IsInjective, Range
<1>2. MInv /\ SInv /\ [Next]_vars => SInv'
  <2> SUFFICES ASSUME MInv, SInv, [Next]_vars, OneLength, ~Kills
               PROVE  QueuesKept' /\ WakeupsSuffice'
    BY DEF SInv, OneLength
  <2>1. QueuesKept /\ WakeupsSuffice /\ BufferInv /\ InCall
    BY DEF SInv, MInv, CountInv
  <2>2. ASSUME UNCHANGED <<head, tail, waiting, pc, call>> PROVE QueuesKept' /\ WakeupsSuffice'
    <3>1. QueuesKept'
      BY <2>1, <2>2 DEF QueuesKept
    <3>2. \A i \in Mboxes, kind \in Kinds :
             /\ Waiters(i, kind)' = Waiters(i, kind) /\ WokenFor(i, kind)' = WokenFor(i, kind)
             /\ Room(i, kind)' = Room(i, kind)
      BY <2>2 DEF Waiters, WokenFor, Inside, Room, Used
    <3> QED BY <2>1, <3>1, <3>2 DEF WakeupsSuffice
  <2>3. ASSUME NEW t \in Tasks, kill_inside(t) PROVE FALSE
    BY <2>3 DEF kill_inside
  <2>4. ASSUME NEW t \in Tasks, NEW cl \in CallRecord, NEW users, NEW held,
               critical_section(t, cl, users, held), pc[t] = "user" \/ (Woken(t) /\ call[t] = cl)
        PROVE  QueuesKept' /\ WakeupsSuffice'
    <3>1. \/ /\ cl.len > Room(cl.mbox, cl.kind)
             /\ pc' = [pc EXCEPT ![t] = "retry"] /\ call' = [call EXCEPT ![t] = cl]
             /\ UNCHANGED <<head, tail>>
             /\ waiting' = [waiting EXCEPT ![cl.mbox] =
                   [waiting[cl.mbox] EXCEPT ![WaitsIn(cl.kind)] = Append(@, t)]]
          \/ /\ pc' = [pc EXCEPT ![t] = "user"] /\ call' = [call EXCEPT ![t] = NoCall]
             /\ \E s : /\ s = <<>> \/ (/\ waiting[cl.mbox][Wakes(cl.kind)] # <<>>
                                       /\ s = Tail(waiting[cl.mbox][Wakes(cl.kind)]))
                       /\ waiting' = [waiting EXCEPT ![cl.mbox] =
                             [waiting[cl.mbox] EXCEPT ![Wakes(cl.kind)] = s]]
      BY <2>1, <2>4, QueueEffect
    <3>2. CASE pc'[t] = "retry"
      <4>1. pc \in [Tasks -> {"user", "retry", "locked", "dead"}]
        BY <2>1, SMTT(40) DEF BufferInv, TransferTypeOK
      <4> QED BY <2>1, <2>4, <3>1, <3>2, <4>1, WaitKeeps
    <3>3. CASE pc'[t] # "retry"
      <4>1. pc \in [Tasks -> {"user", "retry", "locked", "dead"}]
        BY <2>1 DEF BufferInv, TransferTypeOK
      <4>2. ~MustWait(cl)
        BY <2>4, <3>3, <4>1 DEF critical_section, wait, transfer
      <4>3. /\ Room(cl.mbox, cl.kind)' = Room(cl.mbox, cl.kind) - cl.len
            /\ \A kind \in Kinds : kind # cl.kind =>
                  Room(cl.mbox, kind)' = Room(cl.mbox, kind) + cl.len
            /\ \A j \in Mboxes, kind \in Kinds : j # cl.mbox => Room(j, kind)' = Room(j, kind)
        BY <2>1, <2>4, <4>2, RoomEffect
      <4>4. pc' = [pc EXCEPT ![t] = "user"] /\ call' = [call EXCEPT ![t] = NoCall]
        BY <3>1, <3>3, <4>1
      <4>5. PICK s : /\ s = <<>> \/ (/\ waiting[cl.mbox][Wakes(cl.kind)] # <<>>
                                     /\ s = Tail(waiting[cl.mbox][Wakes(cl.kind)]))
                     /\ waiting' = [waiting EXCEPT ![cl.mbox] =
                           [waiting[cl.mbox] EXCEPT ![Wakes(cl.kind)] = s]]
        BY <3>1, <3>3, <4>1
      <4> QED BY <2>1, <2>4, <4>3, <4>4, <4>5, TransferKeeps
    <3> QED BY <3>2, <3>3
  <2> QED BY <2>2, <2>3, <2>4, StepShape
<1>3. MInv /\ SInv => (OneLength /\ ~Kills => NobodyStranded)
  <2> SUFFICES ASSUME MInv, QueuesKept, WakeupsSuffice,
                      NEW t \in Tasks, OnQueue(t), ~MustWait(call[t])
               PROVE  \E u \in Tasks : /\ Woken(u)
                                       /\ call[u].mbox = call[t].mbox
                                       /\ call[u].kind = call[t].kind
    BY DEF SInv, NobodyStranded
  <2>1. PICK i \in Mboxes, Q \in Queues : t \in Range(waiting[i][Q])
    BY DEF OnQueue
  <2>2. pc[t] = "retry" /\ call[t].mbox = i /\ WaitsIn(call[t].kind) = Q
    BY <2>1 DEF QueuesKept
  <2>3. call[t] \in CallRecord
    BY <2>2 DEF MInv, CountInv, InCall
  <2> DEFINE kind == call[t].kind
             len == call[t].len
  <2>4. kind \in Kinds /\ len \in Lengths
    BY <2>3 DEF CallRecord
  <2>5. Waiters(i, kind) # <<>>
    BY <2>1, <2>2 DEF Waiters, Range
  <2>6. (Cardinality(WokenFor(i, kind)) + 1) * len > Room(i, kind)
    BY <2>4, <2>5 DEF WakeupsSuffice
  <2>7. ~(len > Room(i, kind)) /\ len \in Int
    <3>1. ~(len > Room(i, kind))
      BY <2>2, <2>3 DEF MustWait, Room, CallRecord, Kinds
    <3>2. len \in 1 .. MAX_MBOX_LENGTH
      BY <2>4, MailboxAssumption
    <3> QED BY <3>1, <3>2
  <2>8. WokenFor(i, kind) # {}
    <3> SUFFICES ASSUME WokenFor(i, kind) = {} PROVE FALSE
      OBVIOUS
    <3>1. Cardinality(WokenFor(i, kind)) = 0
      BY FS_EmptySet
    <3>2. (0 + 1) * len = len
      BY <2>7
    <3> QED BY <2>6, <2>7, <3>1, <3>2
  <2>9. PICK u \in Tasks : u \in WokenFor(i, kind)
    BY <2>8 DEF WokenFor, Inside
  <2>10. call[u].mbox = i /\ call[u].kind = kind /\ pc[u] \in {"retry", "locked"}
         /\ u \notin Range(waiting[i][WaitsIn(kind)])
    BY <2>9 DEF WokenFor, Inside, Waiters
  <2>11. ~OnQueue(u)
    BY <2>10 DEF OnQueue, QueuesKept
  <2> QED BY <2>2, <2>10, <2>11 DEF Woken
<1> QED
  BY <1>1, <1>2, <1>3, MailboxInvariant, PTL DEF Spec
=============================================================================
