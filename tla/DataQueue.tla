------------------------------ MODULE DataQueue ------------------------------
(***************************************************************************)
(* The data queue of common/drivers/ipc/dataqueue.c: a ring of items       *)
(* indexed by two 16-bit counters that run freely, with a list of threads  *)
(* waiting to push, which are woken at a low water mark, and a list of     *)
(* threads waiting to pop.                                                 *)
(*                                                                         *)
(*   dq        put_index, get_index and the items of struct rt_data_queue  *)
(*   frame     locals of a thread's call: the item it pushes and timeout   *)
(*   last      the item that was popped last                               *)
(*   pc        run, sched (about to call rt_schedule() on the way out),    *)
(*             push_wait, push_back, pop_wait, pop_back (before and after  *)
(*             the rt_schedule() of the loops), reset_pop, resume_pop,     *)
(*             reset_push, resume_push (in rt_data_queue_reset)            *)
(***************************************************************************)
EXTENDS Kernel

CONSTANTS Pushers, Poppers,   \* suspended_push_list, suspended_pop_list
          Size, Lwm,          \* queue->size, queue->lwm
          IndexMod,           \* put_index and get_index are counted modulo 2^16
          PushMax,            \* bound: pushes in a behaviour
          Items               \* the data that is pushed

VARIABLES k, pc, dq, frame, last

vars == <<k, pc, dq, frame, last>>

me == k.current

NULL == 0

Times == {"zero", "timed", "forever"}

Labels == {"run", "sched", "push_wait", "push_back", "pop_wait", "pop_back",
           "reset_pop", "reset_push", "resume_pop", "resume_push"}

TypeOK ==
    /\ k \in KernelStates
    /\ pc \in [Threads -> Labels]
    /\ dq \in [put_index : 0 .. IndexMod - 1, get_index : 0 .. IndexMod - 1,
               queue : [0 .. Size - 1 -> Items \cup {NULL}], pushed : 0 .. PushMax]
    /\ frame \in [Threads -> [item : Items \cup {NULL}, timeout : Times]]
    /\ last \in Items \cup {NULL}

rt_data_queue_init ==
    [put_index |-> 0, get_index |-> 0, queue |-> [i \in 0 .. Size - 1 |-> NULL], pushed |-> 0]

Init ==
    /\ \E f \in WorkerPriorities : k = Asleep(f)
    /\ pc = [t \in Threads |-> "run"]
    /\ dq = rt_data_queue_init
    /\ frame = [t \in Threads |-> [item |-> NULL, timeout |-> "zero"]]
    /\ last = NULL

\* The subtraction is done in int, so it is not reduced modulo 2^16.
Count == dq.put_index - dq.get_index

Full  == Count = Size
Empty == dq.get_index = dq.put_index

Put(v) ==
    [dq EXCEPT !.queue[dq.put_index % Size] = v,
               !.put_index = (@ + 1) % IndexMod,
               !.pushed = @ + 1]

Get == [dq EXCEPT !.get_index = (@ + 1) % IndexMod]

WaitOn(l, time) ==
    LET waiting == rt_ipc_list_suspend([k EXCEPT !.error[me] = "EOK"], l, me, "FIFO")
    IN  IF time = "timed" THEN rt_timer_start(waiting, me) ELSE waiting

Enter(label, v, time) ==
    /\ pc' = [pc EXCEPT ![me] = label]
    /\ frame' = [frame EXCEPT ![me] = [item |-> v, timeout |-> time]]

Leave(woke) == Enter(IF woke THEN "sched" ELSE "run", NULL, "zero")

WakeFirst(l) == IF k.wait[l] # <<>> THEN rt_ipc_list_resume(k, l) ELSE k

(***************************************************************************)
(* rt_data_queue_push() from the point where interrupts are disabled, on   *)
(* entry and after each wake-up (the timeout is not recalculated).         *)
(***************************************************************************)
PushLoop(v, time) ==
    /\ UNCHANGED last
    /\ \/ Full /\ time = "zero" /\ Leave(FALSE) /\ UNCHANGED <<k, dq>>
       \/ /\ Full /\ time # "zero"
          /\ k' = WaitOn(Pushers, time)
          /\ Enter("push_wait", v, time)
          /\ UNCHANGED dq
       \/ /\ ~Full /\ dq.pushed < PushMax
          /\ dq' = Put(v)
          /\ k' = WakeFirst(Poppers)
          /\ Leave(k.wait[Poppers] # <<>>)

Push(v, time) == pc[me] = "run" /\ dq.pushed < PushMax /\ PushLoop(v, time)

PushAgain ==
    /\ pc[me] = "push_back" /\ k.error[me] = "EOK"
    /\ PushLoop(frame[me].item, frame[me].timeout)

\* A mutant: pushers are woken only when the queue crosses the mark.
AtLowWaterOnce == Count - 1 = Lwm

\* The entry that is popped leaves lwm entries or less.
AtLowWater == Count - 1 <= Lwm

(***************************************************************************)
(* rt_data_queue_pop(), likewise; rt_data_queue_peak() changes nothing.    *)
(***************************************************************************)
PopLoop(time) ==
    \/ Empty /\ time = "zero" /\ Leave(FALSE) /\ UNCHANGED <<k, dq, last>>
    \/ /\ Empty /\ time # "zero"
       /\ k' = WaitOn(Poppers, time)
       /\ Enter("pop_wait", NULL, time)
       /\ UNCHANGED <<dq, last>>
    \/ /\ ~Empty
       /\ last' = dq.queue[dq.get_index % Size]
       /\ dq' = Get
       /\ k' = IF AtLowWater THEN WakeFirst(Pushers) ELSE k
       /\ Leave(AtLowWater /\ k.wait[Pushers] # <<>>)

Pop(time) == pc[me] = "run" /\ PopLoop(time)

PopAgain ==
    /\ pc[me] = "pop_back" /\ k.error[me] = "EOK"
    /\ PopLoop(frame[me].timeout)

Fail ==
    /\ pc[me] \in {"push_back", "pop_back"} /\ k.error[me] # "EOK"
    /\ Leave(FALSE)
    /\ UNCHANGED <<k, dq, last>>

(***************************************************************************)
(* rt_data_queue_reset(): the scheduler is locked; waiters are resumed one *)
(* by one, first those of the pop list.  The lists are tested with         *)
(* interrupts enabled: if the last waiter times out between the test and   *)
(* the resumption, the list head is taken for a thread, as in rt_mp_free() *)
(* (module MemPool), and nothing is resumed.  The items stay.              *)
(***************************************************************************)
Reset ==
    /\ pc[me] = "run"
    /\ k' = rt_enter_critical(k)
    /\ pc' = [pc EXCEPT ![me] = "reset_pop"]
    /\ UNCHANGED <<dq, frame, last>>

ResetTest ==
    /\ \/ /\ pc[me] = "reset_pop"
          /\ pc' = [pc EXCEPT ![me] = IF k.wait[Poppers] # <<>> THEN "resume_pop" ELSE "reset_push"]
          /\ UNCHANGED k
       \/ /\ pc[me] = "reset_push" /\ k.wait[Pushers] # <<>>
          /\ pc' = [pc EXCEPT ![me] = "resume_push"]
          /\ UNCHANGED k
       \/ /\ pc[me] = "reset_push" /\ k.wait[Pushers] = <<>>
          /\ k' = rt_exit_critical(k)
          /\ pc' = [pc EXCEPT ![me] = "sched"]
    /\ UNCHANGED <<dq, frame, last>>

ResetResume ==
    /\ \E l \in {Poppers, Pushers} :
          /\ pc[me] = IF l = Poppers THEN "resume_pop" ELSE "resume_push"
          /\ k' = IF k.wait[l] # <<>> THEN ResumeFirst(k, l) ELSE k
          /\ pc' = [pc EXCEPT ![me] = IF l = Poppers THEN "reset_pop" ELSE "reset_push"]
    /\ UNCHANGED <<dq, frame, last>>

Schedule ==
    /\ pc[me] \in {"sched", "push_wait", "pop_wait"}
    /\ k' = rt_schedule(k)
    /\ pc' = [pc EXCEPT ![me] = CASE @ = "push_wait" -> "push_back"
                                  [] @ = "pop_wait"  -> "pop_back"
                                  [] OTHER           -> "run"]
    /\ UNCHANGED <<dq, frame, last>>

Delay ==
    /\ pc[me] = "run"
    /\ k' = rt_thread_sleep(k, me)
    /\ pc' = [pc EXCEPT ![me] = "sched"]
    /\ UNCHANGED <<dq, frame, last>>

Slice ==
    /\ k' = SliceEnd(k)
    /\ UNCHANGED <<pc, dq, frame, last>>

Expire(t) ==
    /\ t \in k.timer
    /\ k' \in Expiry(k, t)
    /\ UNCHANGED <<pc, dq, frame, last>>

ThreadStep ==
    \/ PushAgain \/ PopAgain \/ Fail \/ Reset \/ ResetTest \/ ResetResume \/ Schedule \/ Delay
    \/ \E time \in Times : Pop(time) \/ \E v \in Items : Push(v, time)

Next == (me # Idle /\ ThreadStep) \/ Slice \/ \E t \in Threads : Expire(t)

Spec == Init /\ [][Next]_vars

(***************************************************************************)
(* Properties.                                                             *)
(***************************************************************************)

Contents == [i \in 1 .. Count |-> dq.queue[(dq.get_index + i - 1) % Size]]

C == INSTANCE Channel WITH Items <- Items \cup {NULL}, queue <- Contents

\* Until the 16-bit counters wrap, the data queue is a bounded FIFO channel:
\* what rt_data_queue_push() accepts is popped once and in order.
ImplementsChannel == C!Spec

Woken(l, labels) ==
    {t \in Threads : pc[t] \in labels /\ ~In(k.wait[l], t) /\ k.error[t] = "EOK"}

\* Nobody is left waiting for what is there: a thread that waits to pop has
\* as many resumed threads before it as there are items, and although pushers
\* are woken only at the low water mark, an empty queue with waiting pushers
\* has a resumed one on its way.
NoLostWakeup ==
    /\ k.wait[Poppers] # <<>> => Count <= Cardinality(Woken(Poppers, {"pop_wait", "pop_back"}))
    /\ k.wait[Pushers] # <<>> /\ Empty => Woken(Pushers, {"push_wait", "push_back"}) # {}

=============================================================================
