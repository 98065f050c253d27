------------------------------ MODULE WorkQueue ------------------------------
(***************************************************************************)
(* The work queue of common/drivers/ipc/workqueue.c: a thread that runs    *)
(* the work items other threads queue.                                     *)
(*                                                                         *)
(*   wq        work_list, work_current and the value of the semaphore of   *)
(*             struct rt_workqueue, whose wait list is Sync                *)
(*   frame     the work item of a thread that is in a call                 *)
(*   stray     the worker took the list head itself for a work item        *)
(*   pc        of the worker: loop, suspend, suspended, take, work, asleep *)
(*             (work_func waits), clean, ack; of the others: run, resume   *)
(*             (queued, worker not resumed yet), sync (in rt_sem_take);    *)
(*             of both: sched (about to call rt_schedule)                  *)
(*                                                                         *)
(* The caller is one thread less urgent than the worker, which closes the  *)
(* window between the worker's test of the list and its suspension, and    *)
(* the one between a caller's insertion and its rt_thread_resume().  Calls *)
(* by interrupt handlers, by more urgent threads or by a second caller are *)
(* outside the model: a cancellation in the latter window lets the worker  *)
(* loose on an empty list.                                                 *)
(***************************************************************************)
EXTENDS Kernel

CONSTANTS Sync,      \* the wait list of queue->sem
          Worker,    \* queue->work_thread
          Works      \* the work items

VARIABLES k, pc, wq, frame, stray

vars == <<k, pc, wq, frame, stray>>

me == k.current

NULL == 0

Labels == {"run", "resume", "sched", "sync", "loop", "suspend", "suspended", "take", "work",
           "asleep", "clean", "ack"}

TypeOK ==
    /\ k \in KernelStates
    /\ pc \in [Threads -> Labels]
    /\ wq \in [list : Seq(Works), current : Works \cup {NULL}, sem : {0, 1}]
    /\ frame \in [Threads -> Works \cup {NULL}]
    /\ stray \in BOOLEAN

\* rt_workqueue_create(): the worker has been started and is about to run.
Init ==
    /\ \E f \in WorkerPriorities :
          /\ \A t \in Workers \ {Worker} : f[Worker] < f[t]
          /\ k = rt_thread_resume(Asleep(f), Worker)
    /\ pc = [t \in Threads |-> IF t = Worker THEN "loop" ELSE "run"]
    /\ wq = [list |-> <<>>, current |-> NULL, sem |-> 0]
    /\ frame = [t \in Threads |-> NULL]
    /\ stray = FALSE

Goto(label) == pc' = [pc EXCEPT ![me] = label]

(***************************************************************************)
(* _workqueue_thread_entry()                                               *)
(***************************************************************************)
WorkerTest ==
    /\ pc[me] = "loop"
    /\ Goto(IF wq.list = <<>> THEN "suspend" ELSE "take")
    /\ UNCHANGED <<k, wq, frame, stray>>

WorkerSuspend ==
    /\ pc[me] = "suspend"
    /\ k' = rt_thread_suspend(k, me)
    /\ Goto("suspended")
    /\ UNCHANGED <<wq, frame, stray>>

\* The list is not tested again after the wake-up.
WorkerTake ==
    /\ pc[me] = "take"
    /\ IF wq.list = <<>>
       THEN stray' = TRUE /\ UNCHANGED wq
       ELSE wq' = [wq EXCEPT !.list = Tail(@), !.current = Head(wq.list)] /\ UNCHANGED stray
    /\ Goto("work")
    /\ UNCHANGED <<k, frame>>

\* work_func() may wait for something, a delay for instance.
WorkFunc ==
    /\ \/ pc[me] = "work" /\ k' = rt_thread_sleep(k, me) /\ Goto("asleep")
       \/ pc[me] = "work" /\ Goto("clean") /\ UNCHANGED k
    /\ UNCHANGED <<wq, frame, stray>>

\* A mutant: the current work stays recorded after it is done.
CleanForgotten ==
    /\ pc[me] = "clean"
    /\ Goto("ack")
    /\ UNCHANGED <<k, wq, frame, stray>>

WorkerClean ==
    /\ pc[me] = "clean"
    /\ wq' = [wq EXCEPT !.current = NULL]
    /\ Goto("ack")
    /\ UNCHANGED <<k, frame, stray>>

\* _workqueue_work_completion(): with the scheduler locked, the semaphore is
\* released until nobody waits for it, and its value is taken back to 0.
WorkerAck ==
    /\ pc[me] = "ack"
    /\ k' = LET resumed[i \in 0 .. Len(k.wait[Sync])] ==
                    IF i = 0 THEN k ELSE rt_ipc_list_resume(resumed[i - 1], Sync)
            IN  resumed[Len(k.wait[Sync])]
    /\ Goto("sched")
    /\ UNCHANGED <<wq, frame, stray>>

(***************************************************************************)
(* The callers.                                                            *)
(***************************************************************************)
Without(w) == SelectSeq(wq.list, LAMBDA v : v # w)

\* rt_workqueue_dowork() and rt_workqueue_critical_work(), whose code is the
\* same: work is moved to the end of the list, and an idle worker resumed.
DoWork(w) ==
    /\ pc[me] = "run" /\ wq.current # w
    /\ wq' = [wq EXCEPT !.list = Append(Without(w), w)]
    /\ IF wq.current = NULL THEN Goto("resume") ELSE UNCHANGED pc
    /\ UNCHANGED <<k, frame, stray>>

DoWorkResume ==
    /\ pc[me] = "resume"
    /\ k' = rt_thread_resume(k, Worker)
    /\ Goto("sched")
    /\ UNCHANGED <<wq, frame, stray>>

\* rt_workqueue_cancel_work()
Cancel(w) ==
    /\ pc[me] = "run" /\ wq.current # w
    /\ wq' = [wq EXCEPT !.list = Without(w)]
    /\ UNCHANGED <<k, pc, frame, stray>>

\* rt_workqueue_cancel_work_sync() of the work that is being done: the caller
\* waits for its end (otherwise it does what Cancel does).
CancelSync(w) ==
    /\ pc[me] = "run" /\ wq.current = w
    /\ k' = rt_ipc_list_suspend([k EXCEPT !.error[me] = "EOK"], Sync, me, "FIFO")
    /\ Goto("sync")
    /\ frame' = [frame EXCEPT ![me] = w]
    /\ UNCHANGED <<wq, stray>>

CancelSyncEnds ==
    /\ pc[me] = "sync" /\ k.stat[me] = "RUNNING"
    /\ Goto("run")
    /\ frame' = [frame EXCEPT ![me] = NULL]
    /\ UNCHANGED <<k, wq, stray>>

\* rt_workqueue_cancel_all_work()
CancelAll ==
    /\ pc[me] = "run"
    /\ wq' = [wq EXCEPT !.list = <<>>]
    /\ UNCHANGED <<k, pc, frame, stray>>

Schedule ==
    /\ pc[me] \in {"sched", "suspended", "asleep", "sync"}
    /\ pc[me] = "sync" => k.stat[me] # "RUNNING"
    /\ k' = rt_schedule(k)
    /\ Goto(CASE pc[me] = "suspended" -> "take"
              [] pc[me] = "asleep"    -> "clean"
              [] pc[me] = "sync"      -> "sync"
              [] OTHER -> IF me = Worker THEN "loop" ELSE "run")
    /\ UNCHANGED <<wq, frame, stray>>

Delay ==
    /\ pc[me] = "run"
    /\ k' = rt_thread_sleep(k, me)
    /\ Goto("sched")
    /\ UNCHANGED <<wq, frame, stray>>

Slice ==
    /\ k' = SliceEnd(k)
    /\ UNCHANGED <<pc, wq, frame, stray>>

Expire(t) ==
    /\ t \in k.timer
    /\ k' \in Expiry(k, t)
    /\ UNCHANGED <<pc, wq, frame, stray>>

ThreadStep ==
    \/ WorkerTest \/ WorkerSuspend \/ WorkerTake \/ WorkFunc \/ WorkerClean \/ WorkerAck
    \/ DoWorkResume \/ CancelSyncEnds \/ CancelAll \/ Schedule \/ Delay
    \/ \E w \in Works : DoWork(w) \/ Cancel(w) \/ CancelSync(w)

Next == (me # Idle /\ ThreadStep) \/ Slice \/ \E t \in Threads : Expire(t)

Spec == Init /\ [][Next]_vars

(***************************************************************************)
(* Properties.                                                             *)
(***************************************************************************)

\* With one caller, less urgent than the worker, queued work is never stranded
\* (the worker does not sleep in its loop unless a caller is about to resume
\* it), the worker never takes a work item from an empty list, a work item is
\* queued at most once, and nobody waits for a work that is not being done.
NoLostWakeup ==
    /\ ~stray
    /\ wq.list # <<>> /\ pc[Worker] = "take" /\ k.stat[Worker] = "SUSPEND" =>
          \E t \in Threads : pc[t] = "resume"
    /\ NoDuplicates(wq.list)
    /\ \A t \in On(k, Sync) : wq.current = frame[t] \/ pc[Worker] = "ack"

=============================================================================
