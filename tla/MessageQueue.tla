---------------------------- MODULE MessageQueue -----------------------------
(***************************************************************************)
(* The message queue of common/kernel/ipc.c: a pool of message nodes, each *)
(* on the free list, on the queue, or in the hands of one call that copies *)
(* a message into it or out of it with interrupts enabled.                 *)
(*                                                                         *)
(*   mq        entry, msg_queue_head, msg_queue_tail and msg_queue_free of *)
(*             struct rt_messagequeue; next and body are the nodes' next   *)
(*             pointers and the messages in the pool                       *)
(*   frame     locals of a thread's call: msg (node), the message (what it *)
(*             sends, or what it found in the node it took) and timeout    *)
(*   last      the message that was taken off the queue last               *)
(*   pc        run, sched (about to call rt_schedule() on the way out),    *)
(*             fill and link (rt_mq_send), fill_urgent and link_urgent     *)
(*             (rt_mq_urgent), wait, back and copy (rt_mq_recv)            *)
(***************************************************************************)
EXTENDS Kernel

CONSTANTS Readers,    \* the wait list of mq->parent
          MaxMsgs,    \* mq->max_msgs
          Flag,       \* FIFO or PRIO, the order of the waiting readers
          Messages    \* the values that are sent

VARIABLES k, pc, mq, frame, last

vars == <<k, pc, mq, frame, last>>

me == k.current

NULL == 0

Nodes == 1 .. MaxMsgs

Times == {"zero", "timed", "forever"}

Labels == {"run", "sched", "fill", "link", "fill_urgent", "link_urgent", "wait", "back", "copy"}

TypeOK ==
    /\ k \in KernelStates
    /\ pc \in [Threads -> Labels]
    /\ mq \in [entry : 0 .. MaxMsgs, head : Nodes \cup {NULL}, tail : Nodes \cup {NULL},
               free : Nodes \cup {NULL}, next : [Nodes -> Nodes \cup {NULL}],
               body : [Nodes -> Messages]]
    /\ frame \in [Threads -> [node : Nodes \cup {NULL}, msg : Messages \cup {NULL},
                               timeout : Times]]
    /\ last \in Messages

\* rt_mq_init() / rt_mq_create(): the loop leaves the last node at the head of
\* the free list; the pool holds arbitrary values.
rt_mq_init(x) ==
    [entry |-> 0, head |-> NULL, tail |-> NULL, free |-> MaxMsgs,
     next |-> [n \in Nodes |-> n - 1], body |-> [n \in Nodes |-> x]]

Init ==
    /\ \E f \in WorkerPriorities : k = Asleep(f)
    /\ pc = [t \in Threads |-> "run"]
    /\ last \in Messages
    /\ mq = rt_mq_init(last)
    /\ frame = [t \in Threads |-> [node |-> NULL, msg |-> NULL, timeout |-> "zero"]]

(***************************************************************************)
(* The pieces of code that run with interrupts disabled, as functions of   *)
(* the queue q.                                                            *)
(***************************************************************************)
TakeFree(q) == [q EXCEPT !.free = q.next[q.free]]

PutFree(q, n) == [q EXCEPT !.next[n] = q.free, !.free = n]

Fill(q, n, v) == [q EXCEPT !.next[n] = NULL, !.body[n] = v]

LinkTail(q, n) ==
    [q EXCEPT !.next = IF q.tail # NULL THEN [@ EXCEPT ![q.tail] = n] ELSE @,
              !.tail = n,
              !.head = IF @ = NULL THEN n ELSE @,
              !.entry = @ + 1]

FillUrgent(q, n, v) == [q EXCEPT !.body[n] = v]

LinkHead(q, n) ==
    [q EXCEPT !.next[n] = q.head,
              !.head = n,
              !.tail = IF @ = NULL THEN n ELSE @,
              !.entry = @ + 1]

\* A mutant: the node is free while its message is still being copied.
TakeHeadAndFree(q) ==
    PutFree([q EXCEPT !.head = q.next[q.head],
                      !.tail = IF @ = q.head THEN NULL ELSE @,
                      !.entry = @ - 1], q.head)

\* A mutant: the last message leaves and the tail still points to its node.
TakeHeadKeepsTail(q) == [q EXCEPT !.head = q.next[q.head], !.entry = @ - 1]

TakeHead(q) ==
    [q EXCEPT !.head = q.next[q.head],
              !.tail = IF @ = q.head THEN NULL ELSE @,
              !.entry = @ - 1]

\* The nodes reached from n, in order: a chain longer than the pool is cut.
ChainFrom(q, n) ==
    LET nth[i \in 1 .. MaxMsgs] ==
            IF i = 1 THEN n ELSE IF nth[i - 1] = NULL THEN NULL ELSE q.next[nth[i - 1]]
    IN  SelectSeq([i \in 1 .. MaxMsgs |-> nth[i]], LAMBDA m : m # NULL)

\* Rounds of the loop of rt_mq_control(): the head goes to the free list.
ReleaseAll(q) ==
    LET rounds[i \in 0 .. MaxMsgs] ==
            IF i = 0 THEN q
            ELSE LET r == rounds[i - 1]
                 IN  IF r.head = NULL THEN r
                     ELSE PutFree([r EXCEPT !.head = r.next[r.head],
                                            !.tail = IF @ = r.head THEN NULL ELSE @], r.head)
    IN  [rounds[MaxMsgs] EXCEPT !.entry = 0]

\* A mutant: readers are woken only when the queue was empty.
WakeIfWasEmpty ==
    IF k.wait[Readers] # <<>> /\ mq.entry = 0 THEN rt_ipc_list_resume(k, Readers) ELSE k

\* The first waiting reader, if there is one, is resumed.
WakeReader == IF k.wait[Readers] # <<>> THEN rt_ipc_list_resume(k, Readers) ELSE k

Enter(label, n, v, time) ==
    /\ pc' = [pc EXCEPT ![me] = label]
    /\ frame' = [frame EXCEPT ![me] = [node |-> n, msg |-> v, timeout |-> time]]

\* The call ends, with a call of rt_schedule() if it resumed a thread.
Leave(woke) == Enter(IF woke THEN "sched" ELSE "run", NULL, NULL, "zero")

(***************************************************************************)
(* rt_mq_send() and rt_mq_urgent().  A call that finds no free node, or a  *)
(* message longer than msg_size, changes nothing and is not an action.     *)
(***************************************************************************)
SendTake(v, label) ==
    /\ pc[me] = "run" /\ mq.free # NULL
    /\ Enter(label, mq.free, v, "zero")
    /\ mq' = TakeFree(mq)
    /\ UNCHANGED <<k, last>>

SendFill ==
    /\ \/ /\ pc[me] = "fill"
          /\ mq' = Fill(mq, frame[me].node, frame[me].msg)
          /\ pc' = [pc EXCEPT ![me] = "link"]
       \/ /\ pc[me] = "fill_urgent"
          /\ mq' = FillUrgent(mq, frame[me].node, frame[me].msg)
          /\ pc' = [pc EXCEPT ![me] = "link_urgent"]
    /\ UNCHANGED <<k, frame, last>>

SendLink ==
    /\ \/ pc[me] = "link" /\ mq' = LinkTail(mq, frame[me].node)
       \/ pc[me] = "link_urgent" /\ mq' = LinkHead(mq, frame[me].node)
    /\ k' = WakeReader
    /\ Leave(k.wait[Readers] # <<>>)
    /\ UNCHANGED last

(***************************************************************************)
(* rt_mq_recv() from the point where interrupts are disabled and the queue *)
(* is looked at: on entry and after each wake-up.                          *)
(***************************************************************************)
WaitOn(time) ==
    LET waiting == rt_ipc_list_suspend([k EXCEPT !.error[me] = "EOK"], Readers, me, Flag)
    IN  IF time = "timed" THEN rt_timer_start(waiting, me) ELSE waiting

\* timeout after the recalculation that follows a wake-up.
Remaining(time) == IF time = "timed" THEN {"timed", "zero"} ELSE {time}

RecvLoop(time) ==
    \/ /\ mq.entry = 0 /\ time = "zero"
       /\ Leave(FALSE)
       /\ UNCHANGED <<k, mq, last>>
    \/ /\ mq.entry = 0 /\ time # "zero"
       /\ k' = WaitOn(time)
       /\ Enter("wait", NULL, NULL, time)
       /\ UNCHANGED <<mq, last>>
    \/ /\ mq.entry # 0
       /\ mq' = TakeHead(mq)
       /\ last' = mq.body[mq.head]
       /\ Enter("copy", mq.head, mq.body[mq.head], "zero")
       /\ UNCHANGED k

Recv(time) == pc[me] = "run" /\ RecvLoop(time)

RecvAgain ==
    /\ pc[me] = "back" /\ k.error[me] = "EOK"
    /\ \E time \in Remaining(frame[me].timeout) : RecvLoop(time)

RecvFail ==
    /\ pc[me] = "back" /\ k.error[me] # "EOK"
    /\ Leave(FALSE)
    /\ UNCHANGED <<k, mq, last>>

\* The message is copied to the caller, then the node is put on the free list.
RecvFree ==
    /\ pc[me] = "copy"
    /\ mq' = PutFree(mq, frame[me].node)
    /\ Leave(FALSE)
    /\ UNCHANGED <<k, last>>

\* rt_mq_control(RT_IPC_CMD_RESET)
Reset ==
    /\ pc[me] = "run"
    /\ k' = rt_ipc_list_resume_all(k, Readers)
    /\ mq' = ReleaseAll(mq)
    /\ pc' = [pc EXCEPT ![me] = "sched"]
    /\ UNCHANGED <<frame, last>>

Schedule ==
    /\ pc[me] \in {"sched", "wait"}
    /\ k' = rt_schedule(k)
    /\ pc' = [pc EXCEPT ![me] = IF @ = "wait" THEN "back" ELSE "run"]
    /\ UNCHANGED <<mq, frame, last>>

Delay ==
    /\ pc[me] = "run"
    /\ k' = rt_thread_sleep(k, me)
    /\ pc' = [pc EXCEPT ![me] = "sched"]
    /\ UNCHANGED <<mq, frame, last>>

(***************************************************************************)
(* Interrupt handlers; they may send, not receive.                         *)
(***************************************************************************)
IsrSend(v) ==
    /\ mq.free # NULL
    /\ \/ mq' = LinkTail(Fill(TakeFree(mq), mq.free, v), mq.free)
       \/ mq' = LinkHead(FillUrgent(TakeFree(mq), mq.free, v), mq.free)
    /\ k' = IF k.wait[Readers] # <<>> THEN rt_schedule(WakeReader) ELSE k
    /\ UNCHANGED <<pc, frame, last>>

Slice ==
    /\ k' = SliceEnd(k)
    /\ UNCHANGED <<pc, mq, frame, last>>

Expire(t) ==
    /\ t \in k.timer
    /\ k' \in Expiry(k, t)
    /\ UNCHANGED <<pc, mq, frame, last>>

ThreadStep ==
    \/ SendFill \/ SendLink \/ RecvAgain \/ RecvFail \/ RecvFree \/ Reset \/ Schedule \/ Delay
    \/ \E time \in Times : Recv(time)
    \/ \E v \in Messages : SendTake(v, "fill") \/ SendTake(v, "fill_urgent")

IsrStep == Slice \/ (\E v \in Messages : IsrSend(v)) \/ \E t \in Threads : Expire(t)

Next == (me # Idle /\ ThreadStep) \/ IsrStep

Spec == Init /\ [][Next]_vars

(***************************************************************************)
(* Properties.                                                             *)
(***************************************************************************)

Queued == ChainFrom(mq, mq.head)

Contents == [i \in 1 .. Len(Queued) |-> mq.body[Queued[i]]]

C == INSTANCE Channel WITH Items <- Messages, Size <- MaxMsgs, queue <- Contents

\* The message queue is a bounded channel that keeps the order of ordinary
\* messages and lets an urgent one overtake: what rt_mq_send() and
\* rt_mq_urgent() accept is received once, whatever the order in which calls
\* that interleave take their nodes, fill them and link them.
ImplementsChannel == C!UrgentSpec

\* Threads that hold a node.
Holding == {t \in Threads : pc[t] \in {"fill", "link", "fill_urgent", "link_urgent", "copy"}}

\* Every node is in one place: on the free list, on the queue, or held by one
\* call of rt_mq_send(), rt_mq_urgent() or rt_mq_recv(); the list ends at the
\* tail, entry counts it, and a node being read still has the message in it.
NodesConserved ==
    LET free == ChainFrom(mq, mq.free)
        held == {frame[t].node : t \in Holding}
    IN  /\ Len(free) + Len(Queued) + Cardinality(Holding) = MaxMsgs
        /\ {free[i] : i \in 1 .. Len(free)} \cup {Queued[i] : i \in 1 .. Len(Queued)} \cup held
              = Nodes
        /\ mq.entry = Len(Queued)
        /\ mq.tail = IF Queued = <<>> THEN NULL ELSE Queued[Len(Queued)]
        /\ \A t \in Threads : pc[t] = "copy" => mq.body[frame[t].node] = frame[t].msg

\* No wake-up is lost: while readers wait, at least as many resumed readers
\* are on their way as there are messages in the queue.
NoLostWakeup ==
    k.wait[Readers] # <<>> =>
        mq.entry <= Cardinality({t \in Threads : /\ pc[t] \in {"wait", "back"}
                                                 /\ ~In(k.wait[Readers], t)
                                                 /\ k.error[t] = "EOK"})

=============================================================================
