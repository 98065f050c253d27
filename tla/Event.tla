-------------------------------- MODULE Event --------------------------------
(***************************************************************************)
(* The event object of common/kernel/ipc.c and its users: threads that     *)
(* send to it and wait for combinations of events, and an interrupt        *)
(* handler that sends.                                                     *)
(*                                                                         *)
(*   e, flag   the event object                                            *)
(*   asked     the set and the options a thread in rt_event_recv() passed  *)
(*   pc        run, sched (about to call rt_schedule()), recv (the same,   *)
(*             inside rt_event_recv()), back (back from that call)         *)
(***************************************************************************)
EXTENDS EventOps

VARIABLES k, pc, e, flag, asked

vars == <<k, pc, e, flag, asked>>

me == k.current

Waiters == On(k, EventList)

Requests == [bits : (SUBSET Bits) \ {{}}, option : Options]

Nothing == [bits |-> {}, option |-> {"OR"}]

TypeOK ==
    /\ k \in KernelStates
    /\ pc \in [Threads -> {"run", "sched", "recv", "back"}]
    /\ e \in EventStates
    /\ flag \in {"FIFO", "PRIO"}
    /\ asked \in [Threads -> Requests \cup {Nothing}]

Init ==
    /\ \E f \in WorkerPriorities : k = Asleep(f)
    /\ pc = [t \in Threads |-> "run"]
    /\ e = rt_event_init
    /\ flag \in {"FIFO", "PRIO"}
    /\ asked = [t \in Threads |-> Nothing]

\* rt_event_send() by a thread (with no event in b it returns -RT_ERROR).
Send(b) ==
    LET x == rt_event_send(k, e, b)
    IN  /\ pc[me] = "run" /\ b # {}
        /\ k' = x.k /\ e' = x.e
        /\ pc' = [pc EXCEPT ![me] = IF x.k = k THEN "run" ELSE "sched"]
        /\ UNCHANGED <<flag, asked>>

\* rt_event_recv() whose condition holds.
RecvNow(r) ==
    /\ pc[me] = "run"
    /\ Satisfied(e.set, r.bits, r.option)
    /\ k' = [k EXCEPT !.error[me] = "EOK"]
    /\ e' = Received(e, r.bits, r.option)
    /\ UNCHANGED <<pc, flag, asked>>

\* rt_event_recv() with timeout 0 whose condition does not hold.
RecvNothing(r) ==
    /\ pc[me] = "run"
    /\ ~Satisfied(e.set, r.bits, r.option)
    /\ k' = [k EXCEPT !.error[me] = "ETIMEOUT"]
    /\ UNCHANGED <<pc, e, flag, asked>>

\* A mutant: the thread waits without looking at the events that are set.
RecvWaitBlind(r, timed) ==
    /\ pc[me] = "run"
    /\ k' = WaitKernel(k, me, timed, flag)
    /\ e' = WaitEvent(e, me, r.bits, r.option)
    /\ asked' = [asked EXCEPT ![me] = r]
    /\ pc' = [pc EXCEPT ![me] = "recv"]
    /\ UNCHANGED flag

RecvWait(r, timed) ==
    /\ pc[me] = "run"
    /\ ~Satisfied(e.set, r.bits, r.option)
    /\ k' = WaitKernel(k, me, timed, flag)
    /\ e' = WaitEvent(e, me, r.bits, r.option)
    /\ asked' = [asked EXCEPT ![me] = r]
    /\ pc' = [pc EXCEPT ![me] = "recv"]
    /\ UNCHANGED flag

Schedule ==
    /\ pc[me] \in {"sched", "recv"}
    /\ k' = rt_schedule(k)
    /\ pc' = [pc EXCEPT ![me] = IF @ = "recv" THEN "back" ELSE "run"]
    /\ UNCHANGED <<e, flag, asked>>

\* The end of rt_event_recv() for a thread that had to wait.  Its event_set
\* and event_info, which nobody reads any more, are forgotten.
Recvd ==
    /\ pc[me] = "back"
    /\ e' = WaitEvent(e, me, {}, {"OR"})
    /\ asked' = [asked EXCEPT ![me] = Nothing]
    /\ pc' = [pc EXCEPT ![me] = "run"]
    /\ UNCHANGED <<k, flag>>

\* rt_event_control(RT_IPC_CMD_RESET)
Reset ==
    /\ pc[me] = "run"
    /\ k' = rt_ipc_list_resume_all(k, EventList)
    /\ e' = [e EXCEPT !.set = {}]
    /\ pc' = [pc EXCEPT ![me] = "sched"]
    /\ UNCHANGED <<flag, asked>>

Delay ==
    /\ pc[me] = "run"
    /\ k' = rt_thread_sleep(k, me)
    /\ pc' = [pc EXCEPT ![me] = "sched"]
    /\ UNCHANGED <<e, flag, asked>>

IsrSend(b) ==
    LET x == rt_event_send(k, e, b)
    IN  /\ b # {}
        /\ k' = IF x.k = k THEN k ELSE rt_schedule(x.k)
        /\ e' = x.e
        /\ UNCHANGED <<pc, flag, asked>>

Slice ==
    /\ k' = SliceEnd(k)
    /\ UNCHANGED <<pc, e, flag, asked>>

Expire(t) ==
    /\ t \in k.timer
    /\ k' \in Expiry(k, t)
    /\ UNCHANGED <<pc, e, flag, asked>>

ThreadStep ==
    \/ Schedule \/ Recvd \/ Reset \/ Delay
    \/ \E b \in SUBSET Bits : Send(b)
    \/ \E r \in Requests : \/ RecvNow(r) \/ RecvNothing(r)
                           \/ \E timed \in BOOLEAN : RecvWait(r, timed)

IsrStep == Slice \/ (\E b \in SUBSET Bits : IsrSend(b)) \/ \E t \in Threads : Expire(t)

Next == (me # Idle /\ ThreadStep) \/ IsrStep

Spec == Init /\ [][Next]_vars

(***************************************************************************)
(* Properties.                                                             *)
(***************************************************************************)

\* No event is missed: a thread never waits for a combination of events that
\* are all there, whichever of them were sent before or after it asked, and
\* whatever other waiters cleared.
NoSatisfiedWaiter ==
    \A t \in Waiters : ~Satisfied(e.set, e.want[t], e.info[t])

\* t was resumed by rt_event_send() and has not returned yet.
Notified(t) == pc[t] \in {"recv", "back"} /\ t \notin Waiters /\ k.error[t] = "EOK"

\* What a resumed thread is going to return is what it asked for: some of the
\* events of an OR request, all of an AND request.
ReceivesWhatItAsked ==
    \A t \in Threads : Notified(t) =>
        /\ e.want[t] # {} /\ e.want[t] \subseteq asked[t].bits
        /\ "AND" \in asked[t].option => e.want[t] = asked[t].bits

\* An event is consumed once: of the threads that one rt_event_send() resumes,
\* no two that asked for RT_EVENT_FLAG_CLEAR get the same event, and what they
\* got is no longer set.
ConsumedStep ==
    LET resumed == {t \in Waiters : Notified(t)' /\ "CLEAR" \in asked[t].option}
    IN  /\ \A t, u \in resumed : t # u => e'.want[t] \cap e'.want[u] = {}
        /\ \A t \in resumed : e'.want[t] \cap e'.set = {}

ConsumedOnce == [][ConsumedStep]_vars

\* The lists of the kernel are intact and everybody on the event's wait list is
\* inside rt_event_recv(), asking for what its thread object says.
WaitersAreReceivers ==
    /\ KernelOK(k, {})
    /\ \A t \in Waiters :
          /\ pc[t] \in {"recv", "back"} /\ k.error[t] = "EOK"
          /\ e.want[t] = asked[t].bits /\ e.info[t] = asked[t].option

\* The inductive invariant behind these: besides, the scheduler is unlocked, the
\* current thread is suspended only on its way to rt_schedule(), and nobody is
\* inside rt_event_recv() without having asked for an event.
EventInv ==
    /\ TypeOK
    /\ WaitersAreReceivers
    /\ k.lock_nest = 0
    /\ pc[me] \notin {"sched", "recv"} => k.stat[me] = "RUNNING"
    /\ \A t \in Threads : pc[t] \in {"recv", "back"} => asked[t] \in Requests
    /\ NoSatisfiedWaiter
    /\ ReceivesWhatItAsked

=============================================================================
