------------------------------ MODULE Mailbox --------------------------------
(***************************************************************************)
(* The mailbox of common/kernel/ipc.c: a ring of mails with two wait       *)
(* lists, one of receivers and one of senders.                             *)
(*                                                                         *)
(*   mb        entry, in_offset, out_offset, msg_pool and flag of struct   *)
(*             rt_mailbox                                                  *)
(*   mail      the value a thread in rt_mb_send_wait() is sending          *)
(*   timeout   what is left of the waiting time of a thread in a call:     *)
(*             zero, timed (some ticks) or forever                         *)
(*   last      the mail that was received last                             *)
(*   pc        run, sched (about to call rt_schedule() on the way out),    *)
(*             send_wait, recv_wait (about to call rt_schedule() in the    *)
(*             loop), send_back, recv_back (back from that call)           *)
(***************************************************************************)
EXTENDS Kernel

CONSTANTS Receivers, Senders,   \* the two wait lists
          Size,                 \* mb->size
          Flags,                \* the orders of waiting: FIFO, PRIO
          Mails                 \* the values that are sent

VARIABLES k, pc, mb, mail, timeout, last

vars == <<k, pc, mb, mail, timeout, last>>

me == k.current

Slots == 0 .. Size - 1

Times == {"zero", "timed", "forever"}

Labels == {"run", "sched", "send_wait", "send_back", "recv_wait", "recv_back"}

TypeOK ==
    /\ k \in KernelStates
    /\ pc \in [Threads -> Labels]
    /\ mb \in [entry : 0 .. Size, in_offset : Slots, out_offset : Slots,
               msg_pool : [Slots -> Mails], flag : Flags]
    /\ mail \in [Threads -> Mails]
    /\ timeout \in [Threads -> Times]
    /\ last \in Mails

\* rt_mb_init() / rt_mb_create(): the pool holds arbitrary values.
rt_mb_init(x, f) ==
    [entry |-> 0, in_offset |-> 0, out_offset |-> 0,
     msg_pool |-> [i \in Slots |-> x], flag |-> f]

Init ==
    /\ \E f \in WorkerPriorities : k = Asleep(f)
    /\ pc = [t \in Threads |-> "run"]
    /\ last \in Mails
    /\ \E f \in Flags : mb = rt_mb_init(last, f)
    /\ mail = [t \in Threads |-> last]
    /\ timeout = [t \in Threads |-> "zero"]

Full  == mb.entry = Size
Empty == mb.entry = 0

\* A mutant: the offset runs one slot too far before it wraps.
AdvanceLate(i) == IF i + 1 > Size THEN 0 ELSE i + 1

Advance(i) == IF i + 1 >= Size THEN 0 ELSE i + 1

\* A mutant: the oldest mail is overwritten in place.
PutAtOut(v) ==
    [mb EXCEPT !.msg_pool[mb.out_offset] = v, !.in_offset = Advance(@), !.entry = @ + 1]

Put(v) ==
    [mb EXCEPT !.msg_pool[mb.in_offset] = v, !.in_offset = Advance(@), !.entry = @ + 1]

Get == [mb EXCEPT !.out_offset = Advance(@), !.entry = @ - 1]

\* The first thread of the other list, if there is one, is resumed.
WakeFirst(l) == IF k.wait[l] # <<>> THEN rt_ipc_list_resume(k, l) ELSE k

\* A mutant: the error of an earlier wait is not reset.
WaitKeepsError(l, time) ==
    LET waiting == rt_ipc_list_suspend(k, l, me, mb.flag)
    IN  IF time = "timed" THEN rt_timer_start(waiting, me) ELSE waiting

\* The caller waits on list l: error reset, suspended, timer started.
WaitOn(l, time) ==
    LET waiting == rt_ipc_list_suspend([k EXCEPT !.error[me] = "EOK"], l, me, mb.flag)
    IN  IF time = "timed" THEN rt_timer_start(waiting, me) ELSE waiting

\* timeout after the recalculation that follows a wake-up.
Remaining(time) == IF time = "timed" THEN {"timed", "zero"} ELSE {time}

\* The call ends, with a call of rt_schedule() if it resumed a thread.
Leave(woke) ==
    /\ pc' = [pc EXCEPT ![me] = IF woke THEN "sched" ELSE "run"]
    /\ timeout' = [timeout EXCEPT ![me] = "zero"]

(***************************************************************************)
(* rt_mb_send_wait() from the point where interrupts are disabled and the  *)
(* ring is looked at: on entry and after each wake-up.  (The error code of *)
(* a call that gives up is not kept; nobody reads it after the call.)      *)
(***************************************************************************)
SendLoop(v, time) ==
    /\ UNCHANGED last
    /\ \/ /\ Full /\ time = "zero"
          /\ Leave(FALSE)
          /\ UNCHANGED <<k, mb, mail>>
       \/ /\ Full /\ time # "zero"
          /\ k' = WaitOn(Senders, time)
          /\ pc' = [pc EXCEPT ![me] = "send_wait"]
          /\ timeout' = [timeout EXCEPT ![me] = time]
          /\ mail' = [mail EXCEPT ![me] = v]
          /\ UNCHANGED mb
       \/ /\ ~Full
          /\ UNCHANGED mail
          /\ mb' = Put(v)
          /\ k' = WakeFirst(Receivers)
          /\ Leave(k.wait[Receivers] # <<>>)

Send(v, time) == pc[me] = "run" /\ SendLoop(v, time)

SendAgain ==
    /\ pc[me] = "send_back" /\ k.error[me] = "EOK"
    /\ \E time \in Remaining(timeout[me]) : SendLoop(mail[me], time)

(***************************************************************************)
(* rt_mb_recv(), likewise.                                                 *)
(***************************************************************************)
RecvLoop(time) ==
    /\ UNCHANGED mail
    /\ \/ /\ Empty /\ time = "zero"
          /\ Leave(FALSE)
          /\ UNCHANGED <<k, mb, last>>
       \/ /\ Empty /\ time # "zero"
          /\ k' = WaitOn(Receivers, time)
          /\ pc' = [pc EXCEPT ![me] = "recv_wait"]
          /\ timeout' = [timeout EXCEPT ![me] = time]
          /\ UNCHANGED <<mb, last>>
       \/ /\ ~Empty
          /\ last' = mb.msg_pool[mb.out_offset]
          /\ mb' = Get
          /\ k' = WakeFirst(Senders)
          /\ Leave(k.wait[Senders] # <<>>)

Recv(time) == pc[me] = "run" /\ RecvLoop(time)

RecvAgain ==
    /\ pc[me] = "recv_back" /\ k.error[me] = "EOK"
    /\ \E time \in Remaining(timeout[me]) : RecvLoop(time)

\* Either call returns the error its wait ended with.
Fail ==
    /\ pc[me] \in {"send_back", "recv_back"} /\ k.error[me] # "EOK"
    /\ Leave(FALSE)
    /\ UNCHANGED <<k, mb, mail, last>>

Schedule ==
    /\ pc[me] \in {"sched", "send_wait", "recv_wait"}
    /\ k' = rt_schedule(k)
    /\ pc' = [pc EXCEPT ![me] = CASE @ = "send_wait" -> "send_back"
                                  [] @ = "recv_wait" -> "recv_back"
                                  [] OTHER           -> "run"]
    /\ UNCHANGED <<mb, mail, timeout, last>>

\* A mutant: the waiting senders are forgotten.
ResetReceiversOnly ==
    /\ pc[me] = "run"
    /\ k' = rt_ipc_list_resume_all(k, Receivers)
    /\ mb' = [mb EXCEPT !.entry = 0, !.in_offset = 0, !.out_offset = 0]
    /\ pc' = [pc EXCEPT ![me] = "sched"]
    /\ UNCHANGED <<mail, timeout, last>>

\* rt_mb_control(RT_IPC_CMD_RESET)
Reset ==
    /\ pc[me] = "run"
    /\ k' = rt_ipc_list_resume_all(rt_ipc_list_resume_all(k, Receivers), Senders)
    /\ mb' = [mb EXCEPT !.entry = 0, !.in_offset = 0, !.out_offset = 0]
    /\ pc' = [pc EXCEPT ![me] = "sched"]
    /\ UNCHANGED <<mail, timeout, last>>

Delay ==
    /\ pc[me] = "run"
    /\ k' = rt_thread_sleep(k, me)
    /\ pc' = [pc EXCEPT ![me] = "sched"]
    /\ UNCHANGED <<mb, mail, timeout, last>>

(***************************************************************************)
(* Interrupt handlers; rt_mb_send() does not wait, so they may use it.     *)
(***************************************************************************)
IsrSend(v) ==
    /\ ~Full
    /\ mb' = Put(v)
    /\ k' = IF k.wait[Receivers] # <<>> THEN rt_schedule(WakeFirst(Receivers)) ELSE k
    /\ UNCHANGED <<pc, mail, timeout, last>>

Slice ==
    /\ k' = SliceEnd(k)
    /\ UNCHANGED <<pc, mb, mail, timeout, last>>

Expire(t) ==
    /\ t \in k.timer
    /\ k' \in Expiry(k, t)
    /\ UNCHANGED <<pc, mb, mail, timeout, last>>

ThreadStep ==
    \/ SendAgain \/ RecvAgain \/ Fail \/ Schedule \/ Reset \/ Delay
    \/ \E time \in Times : Recv(time) \/ \E v \in Mails : Send(v, time)

IsrStep == Slice \/ (\E v \in Mails : IsrSend(v)) \/ \E t \in Threads : Expire(t)

Next == (me # Idle /\ ThreadStep) \/ IsrStep

Spec == Init /\ [][Next]_vars

(***************************************************************************)
(* Properties.                                                             *)
(***************************************************************************)

\* The mails in the ring, oldest first.
Slot(i) == IF mb.out_offset + i - 1 >= Size THEN mb.out_offset + i - 1 - Size
           ELSE mb.out_offset + i - 1

Contents == [i \in 1 .. mb.entry |-> mb.msg_pool[Slot(i)]]

C == INSTANCE Channel WITH Items <- Mails, queue <- Contents

\* The mailbox is a bounded FIFO channel: every mail that rt_mb_send_wait()
\* accepts is received once and in order, whoever sends and receives, waits,
\* times out or is woken to find that another thread was faster.
ImplementsChannel == C!Spec

\* Threads that were resumed from list l to look at the ring again.
Woken(l, labels) ==
    {t \in Threads : pc[t] \in labels /\ ~In(k.wait[l], t) /\ k.error[t] = "EOK"}

\* No wake-up is lost: while threads wait for a mail (a free slot), there are
\* as many resumed receivers (senders) on their way as there are mails (slots).
NoLostWakeup ==
    /\ k.wait[Receivers] # <<>> =>
          mb.entry <= Cardinality(Woken(Receivers, {"recv_wait", "recv_back"}))
    /\ k.wait[Senders] # <<>> =>
          Size - mb.entry <= Cardinality(Woken(Senders, {"send_wait", "send_back"}))

(***************************************************************************)
(* The inductive invariant behind them.                                    *)
(***************************************************************************)
MailboxInv ==
    /\ TypeOK
    /\ KernelOK(k, {})
    /\ k.lock_nest = 0
    /\ mb.in_offset = (IF mb.out_offset + mb.entry >= Size
                       THEN mb.out_offset + mb.entry - Size
                       ELSE mb.out_offset + mb.entry)
    /\ \A t \in On(k, Receivers) : pc[t] \in {"recv_wait", "recv_back"} /\ k.error[t] = "EOK"
    /\ \A t \in On(k, Senders) : pc[t] \in {"send_wait", "send_back"} /\ k.error[t] = "EOK"
    /\ NoLostWakeup

=============================================================================
