-------------------------------- MODULE Timer --------------------------------
(***************************************************************************)
(* The timers of common/kernel/timer.c: the list of hard timers, served by *)
(* the clock interrupt, and the list of soft timers, served by the timer   *)
(* thread, which sleeps with a hard timer of its own.  Ticks are counted   *)
(* modulo 2^32 (here TickMax + 1) and compared by their difference.        *)
(*                                                                         *)
(*   tick      rt_tick                                                     *)
(*   hard      rt_timer_list, soft  rt_soft_timer_list (one row each:      *)
(*             RT_TIMER_SKIP_LIST_LEVEL is 1)                              *)
(*   timer     init_tick, timeout_tick and the ACTIVATED flag of a timer   *)
(*   user      the thread that starts and stops timers: its place in the   *)
(*             call and the timer it is about                              *)
(*   server    the timer thread: its place, next_timeout or current_tick,  *)
(*             and whether it is RT_THREAD_SUSPEND                         *)
(*   left      ticks until the timer's deadline, counted down from its     *)
(*             start (zero or less: it is due)                             *)
(*   fired     the timers whose timeout function the last step called      *)
(*                                                                         *)
(* The user is less urgent than the timer thread: it runs while that is    *)
(* suspended.  Timeout functions start and stop no timer themselves.       *)
(***************************************************************************)
EXTENDS Integers, Sequences, FiniteSets

CONSTANTS Hard, Soft,    \* the hard timers and the soft timers of the user
          Periodic,      \* those with RT_TIMER_FLAG_PERIODIC
          ThreadTimer,   \* the thread_timer of the timer thread, a hard timer
          TickMax,       \* RT_TICK_MAX, 2^32 - 1
          InitTicks,     \* the times in use, below RT_TICK_MAX / 2
          Lag            \* no thread is kept from running for more than Lag
                         \* ticks past a deadline it is to serve

Half == TickMax \div 2

Ticks == 0 .. TickMax

UserTimers == Hard \cup Soft

Timers == UserTimers \cup {ThreadTimer}

VARIABLES tick, hard, soft, timer, user, server, left, fired

vars == <<tick, hard, soft, timer, user, server, left, fired>>

NULL == 0

TypeOK ==
    /\ tick \in Ticks
    /\ hard \in Seq(Hard \cup {ThreadTimer}) /\ soft \in Seq(Soft)
    /\ timer \in [Timers -> [init_tick : Ticks, timeout_tick : Ticks, activated : BOOLEAN]]
    /\ user \in [at : {"run", "insert", "wake", "stopped"}, of : UserTimers \cup {NULL}]
    /\ server \in [at : {"next", "suspend", "delay", "check", "scan"},
                   value : Ticks, suspended : BOOLEAN]
    /\ left \in [Timers -> -Lag .. TickMax]
    /\ fired \subseteq Timers

\* A timer off its list: its times are set again before they are next read.
Idle == [init_tick |-> 0, timeout_tick |-> 0, activated |-> FALSE]

\* Right after the start of the timer thread, at any tick.
Init ==
    /\ tick \in Ticks
    /\ hard = <<>> /\ soft = <<>>
    /\ timer = [t \in Timers |-> Idle]
    /\ user = [at |-> "run", of |-> NULL]
    /\ server = [at |-> "next", value |-> 0, suspended |-> FALSE]
    /\ left = [t \in Timers |-> -Lag]
    /\ fired = {}

\* a - b in rt_tick_t
Minus(a, b) == (a - b) % (TickMax + 1)

\* A mutant: deadlines are compared as numbers.
DueCompared(now, deadline) == deadline <= now

Due(now, deadline) == Minus(now, deadline) < Half

\* Where rt_timer_start() puts a timer with deadline d in list s: before the
\* first one that is later.
Insertion(s, T, d) ==
    LET later == {i \in 1 .. Len(s) : Minus(T[s[i]].timeout_tick, d) \in 1 .. Half - 1}
    IN  IF later = {} THEN Len(s) + 1 ELSE CHOOSE i \in later : \A j \in later : i <= j

Insert(s, T, t) ==
    LET p == Insertion(s, T, T[t].timeout_tick)
    IN  SubSeq(s, 1, p - 1) \o <<t>> \o SubSeq(s, p, Len(s))

Remove(s, t) == SelectSeq(s, LAMBDA u : u # t)

\* The deadline of t is set, init_tick from now on.
Deadline(T, t, now) ==
    [T EXCEPT ![t].timeout_tick = (now + T[t].init_tick) % (TickMax + 1), ![t].activated = FALSE]

Activate(T, t) == [T EXCEPT ![t].activated = TRUE]

(***************************************************************************)
(* The clock interrupt: rt_tick_increase() and the loop of                 *)
(* rt_timer_check().  A round takes the head of the hard list if it is     *)
(* due; the timeout function of ThreadTimer makes the timer thread ready;  *)
(* a periodic timer that is still activated starts again.                  *)
(***************************************************************************)
Round(c) ==
    IF c.list = <<>> \/ ~Due(c.now, c.timer[Head(c.list)].timeout_tick)
    THEN c
    ELSE LET t    == Head(c.list)
             rest == Tail(c.list)
             set  == Deadline(c.timer, t, c.now)
         IN  IF t \in Periodic /\ c.timer[t].activated
             THEN [c EXCEPT !.list = Insert(rest, set, t), !.timer = Activate(set, t),
                            !.fired = @ \cup {t}]
             ELSE [c EXCEPT !.list = rest, !.timer[t] = Idle, !.fired = @ \cup {t}]

rt_timer_check(now) ==
    LET rounds[i \in 0 .. Cardinality(Timers)] ==
            IF i = 0 THEN [list |-> hard, timer |-> timer, now |-> now, fired |-> {}]
            ELSE Round(rounds[i - 1])
    IN  rounds[Cardinality(Timers)]

CountDown(t, called) ==
    IF t \in called
    THEN IF t \in Periodic THEN timer[t].init_tick ELSE -Lag
    ELSE IF left[t] > -Lag THEN left[t] - 1 ELSE -Lag

\* The timers a thread has yet to serve: the one being started and the soft ones.
Awaiting == {soft[i] : i \in 1 .. Len(soft)} \cup (IF user.at = "insert" THEN {user.of} ELSE {})

Tick ==
    LET now == (tick + 1) % (TickMax + 1)
        c   == rt_timer_check(now)
    IN  /\ \A t \in Awaiting : left[t] > -Lag
        /\ tick' = now
        /\ hard' = c.list /\ timer' = c.timer /\ fired' = c.fired
        /\ left' = [t \in Timers |-> CountDown(t, c.fired)]
        /\ server' = IF ThreadTimer \in c.fired THEN [server EXCEPT !.suspended = FALSE] ELSE server
        /\ UNCHANGED <<soft, user>>

(***************************************************************************)
(* The user.  rt_timer_control(SET_TIME) and rt_timer_start(): first the   *)
(* timer is taken off its list and its deadline computed, then it is       *)
(* inserted, then, for a soft timer, the timer thread is woken.            *)
(***************************************************************************)
Start(t, n) ==
    /\ user.at = "run"
    /\ hard' = Remove(hard, t) /\ soft' = Remove(soft, t)
    /\ timer' = Deadline([timer EXCEPT ![t].init_tick = n], t, tick)
    /\ left' = [left EXCEPT ![t] = n]
    /\ user' = [at |-> "insert", of |-> t]
    /\ fired' = {}
    /\ UNCHANGED <<tick, server>>

StartInsert ==
    /\ user.at = "insert"
    /\ hard' = IF user.of \in Hard THEN Insert(hard, timer, user.of) ELSE hard
    /\ soft' = IF user.of \in Soft THEN Insert(soft, timer, user.of) ELSE soft
    /\ timer' = Activate(timer, user.of)
    /\ user' = IF user.of \in Soft THEN [user EXCEPT !.at = "wake"] ELSE [at |-> "run", of |-> NULL]
    /\ fired' = {}
    /\ UNCHANGED <<tick, server, left>>

\* A mutant: a sleeping timer thread is trusted to wake up in time.
WakeIfNoDelay ==
    /\ user.at = "wake"
    /\ server' = IF server.suspended /\ ~timer[ThreadTimer].activated
                 THEN [server EXCEPT !.suspended = FALSE] ELSE server
    /\ user' = [at |-> "run", of |-> NULL]
    /\ fired' = {}
    /\ UNCHANGED <<tick, hard, soft, timer, left>>

\* rt_thread_resume(&timer_thread) stops its thread_timer.
StartWake ==
    /\ user.at = "wake"
    /\ IF server.suspended
       THEN /\ server' = [server EXCEPT !.suspended = FALSE]
            /\ hard' = Remove(hard, ThreadTimer)
            /\ timer' = [timer EXCEPT ![ThreadTimer] = Idle]
            /\ left' = [left EXCEPT ![ThreadTimer] = -Lag]
       ELSE UNCHANGED <<server, hard, timer, left>>
    /\ user' = [at |-> "run", of |-> NULL]
    /\ fired' = {}
    /\ UNCHANGED <<tick, soft>>

\* rt_timer_stop(): the flag is changed after interrupts are enabled again.
Stop(t) ==
    /\ user.at = "run" /\ timer[t].activated
    /\ hard' = Remove(hard, t) /\ soft' = Remove(soft, t)
    /\ user' = [at |-> "stopped", of |-> t]
    /\ fired' = {}
    /\ UNCHANGED <<tick, timer, server, left>>

StopFlag ==
    /\ user.at = "stopped"
    /\ timer' = [timer EXCEPT ![user.of] = Idle]
    /\ left' = [left EXCEPT ![user.of] = -Lag]
    /\ user' = [at |-> "run", of |-> NULL]
    /\ fired' = {}
    /\ UNCHANGED <<tick, hard, soft, server>>

UserStep ==
    /\ server.suspended
    /\ \/ StartInsert \/ StartWake \/ StopFlag
       \/ \E t \in UserTimers : Stop(t) \/ \E n \in InitTicks : (t \in Periodic => n > 0) /\ Start(t, n)

(***************************************************************************)
(* rt_thread_timer_entry().  RT_TICK_MAX stands for an empty list.         *)
(***************************************************************************)
Goto(label, v) == server' = [server EXCEPT !.at = label, !.value = v]

ServerNext ==
    /\ server.at = "next"
    /\ LET next == IF soft = <<>> THEN TickMax ELSE timer[Head(soft)].timeout_tick
       IN  Goto(IF next = TickMax THEN "suspend" ELSE "delay", next)
    /\ fired' = {}
    /\ UNCHANGED <<tick, hard, soft, timer, user, left>>

\* (value remembers a deadline that was taken for an empty list.)
ServerSuspend ==
    /\ server.at = "suspend"
    /\ server' = [at |-> "check", value |-> IF soft = <<>> THEN 0 ELSE TickMax, suspended |-> TRUE]
    /\ fired' = {}
    /\ UNCHANGED <<tick, hard, soft, timer, user, left>>

\* rt_thread_delay() of what is left, unless the deadline has passed.
ServerDelay ==
    /\ server.at = "delay"
    /\ LET delta == Minus(server.value, tick)
           set   == Deadline([timer EXCEPT ![ThreadTimer].init_tick = delta], ThreadTimer, tick)
       IN  IF delta < Half
           THEN /\ hard' = Insert(Remove(hard, ThreadTimer), set, ThreadTimer)
                /\ timer' = Activate(set, ThreadTimer)
                /\ left' = [left EXCEPT ![ThreadTimer] = delta]
                /\ server' = [at |-> "check", value |-> 0, suspended |-> TRUE]
           ELSE /\ Goto("check", 0)
                /\ UNCHANGED <<hard, timer, left>>
    /\ fired' = {}
    /\ UNCHANGED <<tick, soft, user>>

(***************************************************************************)
(* rt_soft_timer_check(), one round of its loop at a time: the tick is     *)
(* read, then re-read after each timeout function.                         *)
(***************************************************************************)
ServerCheck ==
    /\ server.at = "check"
    /\ Goto("scan", tick)
    /\ fired' = {}
    /\ UNCHANGED <<tick, hard, soft, timer, user, left>>

ServerScan ==
    /\ server.at = "scan"
    /\ IF soft = <<>> \/ ~Due(server.value, timer[Head(soft)].timeout_tick)
       THEN /\ Goto("next", 0)
            /\ fired' = {}
            /\ UNCHANGED <<soft, timer, left>>
       ELSE LET t   == Head(soft)
                set == Deadline(timer, t, tick)
            IN  /\ Goto("scan", tick)
                /\ fired' = {t}
                /\ IF t \in Periodic /\ timer[t].activated
                   THEN /\ soft' = Insert(Tail(soft), set, t)
                        /\ timer' = Activate(set, t)
                        /\ left' = [left EXCEPT ![t] = timer[t].init_tick]
                   ELSE /\ soft' = Tail(soft)
                        /\ timer' = [timer EXCEPT ![t] = Idle]
                        /\ left' = [left EXCEPT ![t] = -Lag]
    /\ UNCHANGED <<tick, hard, user>>

ServerStep ==
    /\ ~server.suspended
    /\ ServerNext \/ ServerSuspend \/ ServerDelay \/ ServerCheck \/ ServerScan

Next == Tick \/ UserStep \/ ServerStep

Spec == Init /\ [][Next]_vars

(***************************************************************************)
(* Properties.                                                             *)
(***************************************************************************)

Listed(s) == {s[i] : i \in 1 .. Len(s)}

\* The clock interrupt calls the timeout functions of exactly the hard timers
\* whose time is up: none early, none a tick late, whatever was started and
\* stopped around it and wherever the tick counter wraps.  The timer thread
\* calls none of a soft timer early.
FiresStep ==
    /\ tick' # tick => fired' = {t \in Listed(hard) : left[t] <= 1}
    /\ \A t \in fired' \cap Soft : left[t] <= 0

FiresOnTime == [][FiresStep]_vars

\* The timer thread does not sleep past the first soft deadline: its thread
\* timer ends no later than that, or at the next tick, or the user is on its
\* way to wake it.  The exception is a thread that took a deadline equal to
\* RT_TICK_MAX for an empty list.
SoftServed ==
    soft # <<>> /\ server.suspended /\ server.value # TickMax =>
        \/ user.at = "wake"
        \/ /\ timer[ThreadTimer].activated
           /\ left[ThreadTimer] <= left[Head(soft)] \/ left[ThreadTimer] <= 1

\* The comment in rt_thread_timer_entry(): when the timer thread suspends itself
\* without a timeout, "no software timer exist".
SuspendsWhenEmpty == server.at = "suspend" => soft = <<>>

\* ACTIVATED says whether a timer is on its list, but for the timer of a call
\* of rt_timer_start() or rt_timer_stop() under way.
FlagsAgree ==
    \A t \in UserTimers : t # user.of =>
        (timer[t].activated <=> t \in Listed(hard) \cup Listed(soft))

=============================================================================
