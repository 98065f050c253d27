------------------------------ MODULE EventOps -------------------------------
(***************************************************************************)
(* The event object of common/kernel/ipc.c as operators on its state:      *)
(*   set     event->set, a set of bits                                     *)
(*   want    event_set of every thread: what it waits for and, once it is  *)
(*           resumed, what it received                                     *)
(*   info    event_info of every thread: RT_EVENT_FLAG_AND / _OR / _CLEAR  *)
(***************************************************************************)
EXTENDS Kernel

CONSTANTS EventList,      \* the wait list of the event object
          Bits          \* the events

ASSUME EventAssumption == EventList \in Lists /\ IsFiniteSet(Bits)

Options == {{"AND"}, {"OR"}, {"AND", "CLEAR"}, {"OR", "CLEAR"}}

EventStates ==
    [set : SUBSET Bits, want : [Threads -> SUBSET Bits], info : [Threads -> Options]]

rt_event_init ==
    [set |-> {}, want |-> [t \in Threads |-> {}], info |-> [t \in Threads |-> {"OR"}]]

\* A mutant: RT_EVENT_FLAG_AND is treated like RT_EVENT_FLAG_OR.
SatisfiedBySome(set, b, o) == b \cap set # {}

\* The condition of a thread that wants bits b under options o.
Satisfied(set, b, o) == IF "AND" \in o THEN b \subseteq set ELSE b \cap set # {}

\* A mutant: the waiter's events stay in the set.
ServeKeepsSet(x, t) ==
    IF Satisfied(x.e.set, x.e.want[t], x.e.info[t])
    THEN [k |-> rt_thread_resume(x.k, t),
          e |-> [x.e EXCEPT !.want[t] = @ \cap x.e.set]]
    ELSE x

\* One round of the loop of rt_event_send(): waiter t is resumed with the
\* events it receives, if its condition holds.
Serve(x, t) ==
    LET got == x.e.want[t] \cap x.e.set
    IN  IF Satisfied(x.e.set, x.e.want[t], x.e.info[t])
        THEN [k |-> rt_thread_resume(x.k, t),
              e |-> [x.e EXCEPT !.want[t] = got,
                                !.set = IF "CLEAR" \in x.e.info[t] THEN @ \ got ELSE @]]
        ELSE x

\* rt_event_send(b) with interrupts disabled: the waiters in list order.
rt_event_send(k, e, b) ==
    LET s == k.wait[EventList]
        after[i \in 0 .. Len(s)] ==
            IF i = 0 THEN [k |-> k, e |-> [e EXCEPT !.set = @ \cup b]]
            ELSE Serve(after[i - 1], s[i])
    IN  after[Len(s)]

\* rt_event_recv() whose condition holds at once: the event object after it.
Received(e, b, o) == IF "CLEAR" \in o THEN [e EXCEPT !.set = @ \ b] ELSE e

\* A mutant: the error of an earlier wait is not reset.
WaitKeepsError(k, t, timed, flag) ==
    LET waiting == rt_ipc_list_suspend(k, EventList, t, flag)
    IN  IF timed THEN rt_timer_start(waiting, t) ELSE waiting

\* rt_event_recv() that has to wait: the kernel and the event object after it.
WaitKernel(k, t, timed, flag) ==
    LET waiting == rt_ipc_list_suspend([k EXCEPT !.error[t] = "EOK"], EventList, t, flag)
    IN  IF timed THEN rt_timer_start(waiting, t) ELSE waiting

\* A mutant: the options of an earlier wait are kept.
WaitAddsOptions(e, t, b, o) == [e EXCEPT !.want[t] = b, !.info[t] = @ \cup o]

WaitEvent(e, t, b, o) == [e EXCEPT !.want[t] = b, !.info[t] = o]

=============================================================================
