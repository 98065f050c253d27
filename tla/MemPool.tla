------------------------------- MODULE MemPool -------------------------------
(***************************************************************************)
(* The memory pool of common/kernel/mempool.c: blocks of one size, handed  *)
(* out from a free list, with a list of threads that wait for one.         *)
(*                                                                         *)
(*   mp        block_free_count, block_list (the first block on top) and   *)
(*             suspend_thread_count of struct rt_mempool                   *)
(*   frame     what is left of the waiting time of a thread in             *)
(*             rt_mp_alloc()                                               *)
(*   held      the block each thread has from the pool (NULL: none)        *)
(*   stray     rt_mp_free() took the list head itself for a thread         *)
(*   pc        run, sched (about to call rt_schedule() on the way out),    *)
(*             wait and back (before and after it in rt_mp_alloc)          *)
(***************************************************************************)
EXTENDS Kernel

CONSTANTS Takers,       \* mp->suspend_thread
          BlockTotal,   \* mp->block_total_count
          CountMax      \* bound: suspend_thread_count, which grows with every timeout

VARIABLES k, pc, mp, frame, held, stray

vars == <<k, pc, mp, frame, held, stray>>

me == k.current

NULL == 0

Times == {"zero", "timed", "forever"}

Blocks == 1 .. BlockTotal

TypeOK ==
    /\ k \in KernelStates
    /\ pc \in [Threads -> {"run", "sched", "wait", "back"}]
    /\ mp \in [block_free_count : 0 .. BlockTotal, block_list : Seq(Blocks),
               suspend_thread_count : 0 .. CountMax]
    /\ frame \in [Threads -> Times]
    /\ held \in [Threads -> Blocks \cup {NULL}]
    /\ stray \in BOOLEAN

\* rt_mp_init() / rt_mp_create(): the blocks are linked in address order.
rt_mp_init ==
    [block_free_count |-> BlockTotal, block_list |-> [i \in Blocks |-> i],
     suspend_thread_count |-> 0]

Init ==
    /\ \E f \in WorkerPriorities : k = Asleep(f)
    /\ pc = [t \in Threads |-> "run"]
    /\ mp = rt_mp_init
    /\ frame = [t \in Threads |-> "zero"]
    /\ held = [t \in Threads |-> NULL]
    /\ stray = FALSE

\* The block on top of the free list leaves it.
TakeBlock == [mp EXCEPT !.block_free_count = @ - 1, !.block_list = Tail(@)]

PutBlock(b) == [mp EXCEPT !.block_free_count = @ + 1, !.block_list = <<b>> \o @]

\* The caller waits at the head of the list: the thread that came last is
\* the first to be resumed.
WaitFor(time) ==
    LET asleep  == rt_thread_suspend([k EXCEPT !.error[me] = "EOK"], me)
        waiting == [asleep EXCEPT !.wait[Takers] = <<me>> \o @]
    IN  IF time = "timed" THEN rt_timer_start(waiting, me) ELSE waiting

Remaining(time) == IF time = "timed" THEN {"timed", "zero"} ELSE {time}

Leave(woke) ==
    /\ pc' = [pc EXCEPT ![me] = IF woke THEN "sched" ELSE "run"]
    /\ frame' = [frame EXCEPT ![me] = "zero"]

(***************************************************************************)
(* rt_mp_alloc() from the point where interrupts are disabled and the      *)
(* counter is looked at: on entry and after each wake-up.                  *)
(***************************************************************************)
AllocLoop(time) ==
    /\ UNCHANGED stray
    /\ \/ /\ mp.block_free_count = 0 /\ time = "zero"
          /\ Leave(FALSE)
          /\ UNCHANGED <<k, mp, held>>
       \/ /\ mp.block_free_count = 0 /\ time # "zero"
          /\ mp.suspend_thread_count < CountMax
          /\ k' = WaitFor(time)
          /\ mp' = [mp EXCEPT !.suspend_thread_count = @ + 1]
          /\ pc' = [pc EXCEPT ![me] = "wait"]
          /\ frame' = [frame EXCEPT ![me] = time]
          /\ UNCHANGED held
       \/ /\ mp.block_free_count # 0
          /\ held' = [held EXCEPT ![me] = Head(mp.block_list)]
          /\ mp' = TakeBlock
          /\ Leave(FALSE)
          /\ UNCHANGED k

\* A user asks for a block when it has none.
Alloc(time) == pc[me] = "run" /\ held[me] = NULL /\ AllocLoop(time)

\* A mutant: the woken thread takes a block without looking at the counter again.
AllocWithoutLook ==
    /\ pc[me] = "back" /\ k.error[me] = "EOK"
    /\ held' = [held EXCEPT ![me] = IF mp.block_list = <<>> THEN NULL ELSE Head(mp.block_list)]
    /\ mp' = [mp EXCEPT !.block_list = IF @ = <<>> THEN @ ELSE Tail(@),
                        !.block_free_count = @ - 1]
    /\ Leave(FALSE)
    /\ UNCHANGED <<k, stray>>

AllocAgain ==
    /\ pc[me] = "back" /\ k.error[me] = "EOK"
    /\ \E time \in Remaining(frame[me]) : AllocLoop(time)

\* The wait ended with an error.  suspend_thread_count keeps counting the thread.
AllocFail ==
    /\ pc[me] = "back" /\ k.error[me] # "EOK"
    /\ Leave(FALSE)
    /\ UNCHANGED <<k, mp, held, stray>>

(***************************************************************************)
(* rt_mp_free() of block b.  Whether a thread is resumed depends on        *)
(* suspend_thread_count; if the list is empty nonetheless, its head is     *)
(* taken for a thread: an error field is written somewhere outside the     *)
(* pool, and nothing is resumed, provided that the memory taken for the    *)
(* thread's state does not say that it is suspended.                       *)
(***************************************************************************)
Wakes == mp.suspend_thread_count > 0

FreedPool(b) ==
    IF Wakes THEN [PutBlock(b) EXCEPT !.suspend_thread_count = @ - 1] ELSE PutBlock(b)

\* A mutant: a thread is resumed only when the pool was empty.
FreedWakesIfEmpty ==
    IF Wakes /\ mp.block_free_count = 0 /\ k.wait[Takers] # <<>>
    THEN rt_ipc_list_resume([k EXCEPT !.error[Head(k.wait[Takers])] = "EOK"], Takers)
    ELSE k

FreedKernel ==
    IF Wakes /\ k.wait[Takers] # <<>>
    THEN rt_ipc_list_resume([k EXCEPT !.error[Head(k.wait[Takers])] = "EOK"], Takers)
    ELSE k

Release(b) ==
    /\ mp' = FreedPool(b)
    /\ stray' = (stray \/ (Wakes /\ k.wait[Takers] = <<>>))

Free ==
    /\ pc[me] = "run" /\ held[me] # NULL
    /\ Release(held[me])
    /\ k' = FreedKernel
    /\ held' = [held EXCEPT ![me] = NULL]
    /\ Leave(Wakes)

Schedule ==
    /\ pc[me] \in {"sched", "wait"}
    /\ k' = rt_schedule(k)
    /\ pc' = [pc EXCEPT ![me] = IF @ = "wait" THEN "back" ELSE "run"]
    /\ UNCHANGED <<mp, frame, held, stray>>

Delay ==
    /\ pc[me] = "run"
    /\ k' = rt_thread_sleep(k, me)
    /\ pc' = [pc EXCEPT ![me] = "sched"]
    /\ UNCHANGED <<mp, frame, held, stray>>

(***************************************************************************)
(* Interrupt handlers take a block without waiting and free it again; the  *)
(* block is entered under the idle thread, which does not use the pool.    *)
(***************************************************************************)
IsrAlloc ==
    /\ held[Idle] = NULL /\ mp.block_free_count # 0
    /\ held' = [held EXCEPT ![Idle] = Head(mp.block_list)]
    /\ mp' = TakeBlock
    /\ UNCHANGED <<k, pc, frame, stray>>

IsrFree ==
    /\ held[Idle] # NULL
    /\ Release(held[Idle])
    /\ k' = IF Wakes THEN rt_schedule(FreedKernel) ELSE k
    /\ held' = [held EXCEPT ![Idle] = NULL]
    /\ UNCHANGED <<pc, frame>>

Slice ==
    /\ k' = SliceEnd(k)
    /\ UNCHANGED <<pc, mp, frame, held, stray>>

Expire(t) ==
    /\ t \in k.timer
    /\ k' \in Expiry(k, t)
    /\ UNCHANGED <<pc, mp, frame, held, stray>>

ThreadStep ==
    \/ AllocAgain \/ AllocFail \/ Free \/ Schedule \/ Delay
    \/ \E time \in Times : Alloc(time)

IsrStep == Slice \/ IsrAlloc \/ IsrFree \/ \E t \in Threads : Expire(t)

Next == (me # Idle /\ ThreadStep) \/ IsrStep

Spec == Init /\ [][Next]_vars

(***************************************************************************)
(* Properties.                                                             *)
(***************************************************************************)

\* Every block is in one place: on the free list, which block_free_count
\* counts, or with the one user rt_mp_alloc() gave it to.
BlocksConserved ==
    LET free  == {mp.block_list[i] : i \in 1 .. Len(mp.block_list)}
        users == {t \in Threads : held[t] # NULL}
    IN  /\ mp.block_free_count = Len(mp.block_list)
        /\ Len(mp.block_list) + Cardinality(users) = BlockTotal
        /\ free \cup {held[t] : t \in users} = Blocks

\* No wake-up is lost: while threads wait in rt_mp_alloc(), at least as many
\* resumed threads are on their way as there are free blocks.
NoLostWakeup ==
    k.wait[Takers] # <<>> =>
        mp.block_free_count <= Cardinality({t \in Threads : /\ pc[t] \in {"wait", "back"}
                                                            /\ ~In(k.wait[Takers], t)
                                                            /\ k.error[t] = "EOK"})

\* "get the suspended thread" (rt_mp_free): when suspend_thread_count says that
\* a thread waits, there is one on the list to be resumed.
ResumesAThread == ~stray

=============================================================================
