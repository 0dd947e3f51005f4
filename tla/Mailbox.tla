------------------------------ MODULE Mailbox ------------------------------
(***************************************************************************)
(* The mailboxes of kernel/locking/lock.c: bounded byte buffers with two   *)
(* wait queues, opened by name.                                            *)
(*                                                                         *)
(* do_mbox_send and do_mbox_recv run under the big kernel lock and give it *)
(* up only inside do_scheduler, so each stretch of code between two calls  *)
(* of do_scheduler is one action.  pc says where a task that is inside a   *)
(* call resumes when it is dispatched:                                     *)
(*   "retry"   after the wait in empty_queue or full_queue                 *)
(*   "locked"  after a wait in lock_queue                                  *)
(* A task that is inside a call and on no queue has been unblocked and     *)
(* waits to be dispatched.  The order of dispatch is left open: module     *)
(* Kernel is about what the scheduler does, this one must not depend on it.*)
(*                                                                         *)
(* A byte of the buffer is <<sender, offset in its message>>.              *)
(***************************************************************************)
EXTENDS PcbList

CONSTANTS
    Tasks,              \* the tasks that use mailboxes
    Names,              \* the names passed to do_mbox_open
    MBOX_NUM,           \* size of mboxs
    MAX_MBOX_LENGTH,    \* bytes in a mailbox
    Lengths,            \* the message lengths programs pass
    MaxTail,            \* bound: no new send once tail, which only grows, is past it
    Kills               \* TRUE iff do_kill may hit a task inside a call

ASSUME MailboxAssumption ==
    /\ IsFiniteSet(Tasks)
    /\ MBOX_NUM \in Nat
    /\ MAX_MBOX_LENGTH \in Nat \ {0}
    /\ Lengths \subseteq 1 .. MAX_MBOX_LENGTH
    /\ MaxTail \in Nat
    /\ Kills \in BOOLEAN

VARIABLES
    valid,      \* mboxs[i].valid
    name,       \* mboxs[i].name
    head,       \* mboxs[i].head
    tail,       \* mboxs[i].tail
    content,    \* mboxs[i].content
    lock,       \* mboxs[i].lock.status
    user_num,   \* mboxs[i].user_num
    waiting,    \* mboxs[i].lock_queue, full_queue and empty_queue
    pc,         \* where a task is: "user", "retry", "locked" or "dead"
    call        \* the call a task is in: kind, mbox and len

table == <<valid, name>>
vars == <<valid, name, head, tail, content, lock, user_num, waiting, pc, call>>

Mboxes == 0 .. MBOX_NUM - 1
Queues == {"lock", "full", "empty"}
Kinds == {"send", "recv"}
NoName == ""
NoByte == <<>>
NoCall == [kind |-> "none", mbox |-> 0, len |-> 0]

\* The queue a call of this kind waits in, and the one it wakes.
WaitsIn(kind) == IF kind = "send" THEN "empty" ELSE "full"
Wakes(kind) == IF kind = "send" THEN "full" ELSE "empty"

TypeOK ==
    /\ valid \in [Mboxes -> BOOLEAN]
    /\ name \in [Mboxes -> Names \cup {NoName}]
    /\ head \in [Mboxes -> Nat]
    /\ tail \in [Mboxes -> Nat]
    /\ content \in [Mboxes -> [0 .. MAX_MBOX_LENGTH - 1 ->
                                 {NoByte} \cup (Tasks \X (1 .. MAX_MBOX_LENGTH))]]
    /\ lock \in [Mboxes -> {"UNLOCKED", "LOCKED"}]
    /\ user_num \in [Mboxes -> Nat]
    /\ waiting \in [Mboxes -> [Queues -> Seq(Tasks)]]
    /\ pc \in [Tasks -> {"user", "retry", "locked", "dead"}]
    /\ call \in [Tasks -> {NoCall} \cup [kind : Kinds, mbox : Mboxes, len : Lengths]]

Init ==
    /\ valid = [i \in Mboxes |-> FALSE]
    /\ name = [i \in Mboxes |-> NoName]
    /\ head = [i \in Mboxes |-> 0]
    /\ tail = [i \in Mboxes |-> 0]
    /\ content = [i \in Mboxes |-> [j \in 0 .. MAX_MBOX_LENGTH - 1 |-> NoByte]]
    /\ lock = [i \in Mboxes |-> "UNLOCKED"]
    /\ user_num = [i \in Mboxes |-> 0]
    /\ waiting = [i \in Mboxes |-> [Q \in Queues |-> <<>>]]
    /\ pc = [t \in Tasks |-> "user"]
    /\ call = [t \in Tasks |-> NoCall]

-----------------------------------------------------------------------------
(* Opening and closing *)

\* The first mailbox that is unused or has the name; -1 and no change if all
\* are used under other names.
do_mbox_open(t, n) ==
    LET found == {i \in Mboxes : ~valid[i] \/ name[i] = n}
        i == Min(found)
    IN
    /\ pc[t] = "user"
    /\ found # {}
    /\ valid' = [valid EXCEPT ![i] = TRUE]
    /\ name' = [name EXCEPT ![i] = n]
    /\ UNCHANGED <<head, tail, content, lock, user_num, waiting, pc, call>>

\* Mutant: closing really frees an idle mailbox.
do_mbox_close_frees(t, i) ==
    /\ pc[t] = "user"
    /\ valid[i]
    /\ valid' = [valid EXCEPT ![i] = user_num[i] # 0]
    /\ UNCHANGED <<name, head, tail, content, lock, user_num, waiting, pc, call>>

\* Programs close a mailbox that was opened.
do_mbox_close(t, i) ==
    /\ pc[t] = "user"
    /\ valid[i]
    /\ valid' = [valid EXCEPT ![i] = @ \/ user_num[i] = 0]
    /\ UNCHANGED <<name, head, tail, content, lock, user_num, waiting, pc, call>>

-----------------------------------------------------------------------------
(* Sending and receiving *)

Used(i) == tail[i] - head[i]

\* Mutant: the sender does not count the unread bytes.
MustWait_overrun(cl) ==
    cl.kind = "recv" /\ cl.len > Used(cl.mbox)

\* The while condition: the message does not fit, or is not there yet.
MustWait(cl) ==
    IF cl.kind = "send"
    THEN cl.len > MAX_MBOX_LENGTH - Used(cl.mbox)
    ELSE cl.len > Used(cl.mbox)

\* do_unblock if the queue is not empty.
UnblockOne(s) == IF s = <<>> THEN s ELSE Tail(s)

\* The queues after lock_queue is given the lock and the caller is blocked.
GiveUp(w, t, kind) ==
    [w EXCEPT !["lock"] = UnblockOne(@), ![WaitsIn(kind)] = Append(@, t)]

\* Mutant: the single wake-up at the end of the call is left out.
Finish_full_only(w, kind, all) ==
    [w EXCEPT ![Wakes(kind)] = IF all THEN <<>> ELSE @,
              !["lock"] = UnblockOne(@)]

\* The queues after a transfer: everybody on the other side if the mailbox is
\* now full (send) or empty (recv), then lock_queue, then one of the other side.
Finish(w, kind, all) ==
    [w EXCEPT ![Wakes(kind)] = UnblockOne(IF all THEN <<>> ELSE @),
              !["lock"] = UnblockOne(@)]

\* The cells a transfer of len bytes that starts at stream position p touches.
Cell(p) == p % MAX_MBOX_LENGTH

\* Mutant: the copy starts one cell too far.
Filled_shifted(i, t, len) ==
    [j \in 0 .. MAX_MBOX_LENGTH - 1 |->
        IF \E k \in 1 .. len : Cell(tail[i] + k) = j
        THEN <<t, CHOOSE k \in 1 .. len : Cell(tail[i] + k) = j>>
        ELSE content[i][j]]

\* The buffer of mailbox i after t's message of len bytes is copied in.
Filled(i, t, len) ==
    [j \in 0 .. MAX_MBOX_LENGTH - 1 |->
        IF \E k \in 1 .. len : Cell(tail[i] + (k - 1)) = j
        THEN <<t, CHOOSE k \in 1 .. len : Cell(tail[i] + (k - 1)) = j>>
        ELSE content[i][j]]

\* lock.status of mailbox i is set, by a task that found it UNLOCKED, and
\* cleared, on either way out of the critical section.
Locked(i) == [lock EXCEPT ![i] = "LOCKED"]
Unlocked(held, i) == [held EXCEPT ![i] = "UNLOCKED"]

\* The message does not fit, or is not there yet: unlock and wait.
wait(t, cl, users, held) ==
    LET i == cl.mbox IN
    /\ lock' = Unlocked(held, i)
    /\ waiting' = [waiting EXCEPT ![i] = GiveUp(@, t, cl.kind)]
    /\ user_num' = users
    /\ pc' = [pc EXCEPT ![t] = "retry"]
    /\ call' = [call EXCEPT ![t] = cl]
    /\ UNCHANGED <<head, tail, content>>

\* The message is copied, the lock given back and the call returns.
transfer(t, cl, users, held) ==
    LET i == cl.mbox IN
    /\ IF cl.kind = "send"
       THEN /\ content' = [content EXCEPT ![i] = Filled(i, t, cl.len)]
            /\ tail' = [tail EXCEPT ![i] = @ + cl.len]
            /\ UNCHANGED head
       ELSE /\ head' = [head EXCEPT ![i] = @ + cl.len]
            /\ UNCHANGED <<tail, content>>
    /\ lock' = Unlocked(held, i)
    /\ waiting' = [waiting EXCEPT ![i] =
          Finish(@, cl.kind,
                 IF cl.kind = "send" THEN head'[i] + MAX_MBOX_LENGTH = tail'[i]
                                     ELSE head'[i] = tail'[i])]
    /\ user_num' = [users EXCEPT ![i] = @ - 1]
    /\ pc' = [pc EXCEPT ![t] = "user"]
    /\ call' = [call EXCEPT ![t] = NoCall]

\* From the test of the length to the end of the call or of the next wait.
\* users is user_num and held the status of the locks on entry.
critical_section(t, cl, users, held) ==
    \/ MustWait(cl) /\ wait(t, cl, users, held)
    \/ ~MustWait(cl) /\ transfer(t, cl, users, held)

\* Taking the lock of the mailbox, or waiting for it in lock_queue.
enter(t, cl, users) ==
    IF lock[cl.mbox] = "UNLOCKED"
    THEN critical_section(t, cl, users, Locked(cl.mbox))
    ELSE /\ waiting' = [waiting EXCEPT ![cl.mbox]["lock"] = Append(@, t)]
         /\ user_num' = users
         /\ pc' = [pc EXCEPT ![t] = "locked"]
         /\ call' = [call EXCEPT ![t] = cl]
         /\ UNCHANGED <<head, tail, content, lock>>

\* Mutant: user_num++ is left out.
begin_uncounted(t, cl) ==
    /\ pc[t] = "user"
    /\ valid[cl.mbox]
    /\ enter(t, cl, user_num)
    /\ UNCHANGED table

\* A mailbox call of a task in user mode; an unused mailbox gives -1.
begin(t, cl) ==
    /\ pc[t] = "user"
    /\ valid[cl.mbox]
    /\ enter(t, cl, [user_num EXCEPT ![cl.mbox] = @ + 1])
    /\ UNCHANGED table

do_mbox_send(t, i, len) ==
    /\ tail[i] <= MaxTail
    /\ begin(t, [kind |-> "send", mbox |-> i, len |-> len])

do_mbox_recv(t, i, len) == begin(t, [kind |-> "recv", mbox |-> i, len |-> len])

OnQueue(t) == \E i \in Mboxes, Q \in Queues : t \in Range(waiting[i][Q])

\* Unblocked, and not yet dispatched.
Woken(t) == pc[t] \in {"retry", "locked"} /\ ~OnQueue(t)

\* A task that was unblocked is dispatched.  From full_queue or empty_queue
\* it goes for the lock again; from lock_queue it goes on without setting it.
resume(t) ==
    /\ Woken(t)
    /\ IF pc[t] = "retry" THEN enter(t, call[t], user_num)
                          ELSE critical_section(t, call[t], user_num, lock)
    /\ UNCHANGED table

\* do_kill of a task that is inside a call: it leaves its queue and never
\* returns, so nobody undoes user_num++.
kill_inside(t) ==
    /\ Kills
    /\ pc[t] \in {"retry", "locked"}
    /\ waiting' = [i \in Mboxes |-> [Q \in Queues |-> Without(waiting[i][Q], {t})]]
    /\ pc' = [pc EXCEPT ![t] = "dead"]
    /\ call' = [call EXCEPT ![t] = NoCall]
    /\ UNCHANGED <<valid, name, head, tail, content, lock, user_num>>

Next ==
    \E t \in Tasks :
        \/ \E n \in Names : do_mbox_open(t, n)
        \/ \E i \in Mboxes : do_mbox_close(t, i)
        \/ \E i \in Mboxes, len \in Lengths : do_mbox_send(t, i, len)
        \/ \E i \in Mboxes, len \in Lengths : do_mbox_recv(t, i, len)
        \/ resume(t)
        \/ kill_inside(t)

Spec == Init /\ [][Next]_vars

-----------------------------------------------------------------------------
(* Properties *)

\* Neither side runs past the other: a sender that was woken, or that barges
\* in, never overwrites unread bytes and a receiver never reads stale ones.
BufferBounds == \A i \in Mboxes : head[i] <= tail[i] /\ tail[i] <= head[i] + MAX_MBOX_LENGTH

\* Two opens of one name never end up with different mailboxes.
NamesUnique == \A i, j \in Mboxes : valid[i] /\ valid[j] /\ name[i] = name[j] => i = j

\* With messages of one length the unread bytes are whole messages in order:
\* no two senders interleave and no message wraps onto another.
WholeMessages ==
    \A i \in Mboxes, len \in Lengths : \A j \in head[i] .. tail[i] - 1 :
        \E t \in Tasks : /\ content[i][Cell(j - (j % len))] = <<t, 1>>
                         /\ content[i][Cell(j)] = <<t, (j % len) + 1>>

\* Wake-ups are not lost: while somebody waits for what is already there
\* (bytes, or room), a task on the same side has been woken and will take it.
\* Waking one waiter per transfer is all the code does.
NobodyStranded ==
    \A t \in Tasks : OnQueue(t) /\ ~MustWait(call[t]) =>
        \E u \in Tasks : /\ Woken(u)
                         /\ call[u].mbox = call[t].mbox
                         /\ call[u].kind = call[t].kind

\* user_num is the number of tasks inside a call, which do_mbox_close reads
\* to decide whether the mailbox is idle.
UserCount ==
    \A i \in Mboxes :
        user_num[i] = Cardinality({t \in Tasks : pc[t] # "user" /\ call[t].mbox = i})
=============================================================================
