------------------------------ MODULE Timeouts ------------------------------
(***************************************************************************)
(* The timeouts of lwIP (core/timeouts.c) and the thread that serves them  *)
(* while it waits for messages (api/tcpip.c over arch/sys_arch.c).  Other  *)
(* threads enter the stack under lock_tcpip_core while the tcpip thread    *)
(* sleeps, and do not wake it.                                             *)
(*                                                                         *)
(*   now       rt_tick_get(), which is sys_now(): a tick is a millisecond  *)
(*   list      next_timeout: handler and time of each entry, in order      *)
(*   active    tcpip_tcp_timer_active                                      *)
(*   pcbs      is a pcb on tcp_active_pcbs or tcp_tw_pcbs?                 *)
(*   mbox      number of messages in tcpip_mbox                            *)
(*   thread    of the tcpip thread: pc is fetch (about to look for its     *)
(*             sleeping time), sleep (in rt_mb_recv(), without the lock),  *)
(*             handle (has a message) or check (in sys_check_timeouts());  *)
(*             left is what is left of its sleep, start the time at which  *)
(*             sys_check_timeouts() began (0 outside of them), lag how     *)
(*             long it has been ready                                      *)
(***************************************************************************)
EXTENDS Integers, Sequences, SequencesExt

CONSTANTS
    Wrap,       \* 2^32, the range of u32_t
    Tcp, Arp,   \* TCP_TMR_INTERVAL, ARP_TMR_INTERVAL
    MboxSize,   \* TCPIP_MBOX_SIZE
    Lag         \* how long the thread may be ready before it sleeps again

VARIABLES now, list, active, pcbs, mbox, thread

vars == <<now, list, active, pcbs, mbox, thread>>

FOREVER == -1   \* RT_WAITING_FOREVER

\* A mutant: the wrap-around is forgotten.
PlainLess(t, compare_to) == t < compare_to

LWIP_MAX_TIMEOUT == Wrap \div 2 - 1
TIME_LESS_THAN(t, compare_to) == (t - compare_to) % Wrap > LWIP_MAX_TIMEOUT

\* sys_timeout_abs: the new entry goes behind those that are not later.
sys_timeout_abs(s, abs_time, handler) ==
    LET later == {i \in 1 .. Len(s) : TIME_LESS_THAN(abs_time, s[i].time)}
        place == CHOOSE i \in later \cup {Len(s) + 1} : \A j \in later : i <= j
    IN  InsertAt(s, place, [h |-> handler, time |-> abs_time])

sys_timeout(s, msecs, handler) == sys_timeout_abs(s, (now + msecs) % Wrap, handler)

\* sys_timeouts_init() with the cyclic timers of this build: ARP has one that
\* always runs, TCP one that is started on demand.
Init ==
    /\ now \in 0 .. Wrap - 1
    /\ list = sys_timeout(<<>>, Arp, "arp")
    /\ active = FALSE
    /\ pcbs = FALSE
    /\ mbox = 0
    /\ thread = [pc |-> "fetch", left |-> 0, start |-> 0, lag |-> 0]

\* A mutant of TimerNeeded: the flag is not asked.
TimerNeededAlways ==
    /\ list' = sys_timeout(list, Tcp, "tcp")
    /\ active' = TRUE

\* tcp_timer_needed(), with a pcb on the lists.
TimerNeeded ==
    /\ list' = IF active THEN list ELSE sys_timeout(list, Tcp, "tcp")
    /\ active' = TRUE

\* TCP_REG, and TCP_RMV of the last pcb.
TcpReg == pcbs' = TRUE /\ TimerNeeded
TcpRmv == pcbs' = FALSE /\ UNCHANGED <<list, active>>

(***************************************************************************)
(* The tcpip thread.                                                       *)
(***************************************************************************)
sys_timeouts_sleeptime ==
    IF list = <<>> THEN FOREVER
    ELSE IF TIME_LESS_THAN(list[1].time, now) THEN 0 ELSE (list[1].time - now) % Wrap

\* tcpip_timeouts_mbox_fetch up to sys_arch_mbox_fetch(), or to
\* sys_check_timeouts() if a timeout is due.
Fetch ==
    /\ thread.pc = "fetch"
    /\ thread' = IF sys_timeouts_sleeptime = 0
                 THEN [thread EXCEPT !.pc = "check", !.start = now]
                 ELSE [thread EXCEPT !.pc = "sleep", !.left = sys_timeouts_sleeptime, !.lag = 0]
    /\ UNCHANGED <<now, list, active, pcbs, mbox>>

\* The sleep ends, by a message or by its time, and the lock is taken again.
Received ==
    /\ thread.pc = "sleep" /\ mbox > 0
    /\ mbox' = mbox - 1
    /\ thread' = [thread EXCEPT !.pc = "handle", !.left = 0]
    /\ UNCHANGED <<now, list, active, pcbs>>

TimedOut ==
    /\ thread.pc = "sleep" /\ thread.left = 0
    /\ thread' = [thread EXCEPT !.pc = "check", !.start = now]
    /\ UNCHANGED <<now, list, active, pcbs, mbox>>

\* tcpip_thread_handle_msg: a packet opens a connection, ends the last one, or
\* does neither.
Handle ==
    /\ thread.pc = "handle"
    /\ TcpReg \/ TcpRmv \/ UNCHANGED <<list, active, pcbs>>
    /\ thread' = [thread EXCEPT !.pc = "fetch"]
    /\ UNCHANGED <<now, mbox>>

\* lwip_cyclic_timer: the interval is counted from the time that was due,
\* unless that has passed as well.
CyclicTimer(entry, rest) ==
    LET next == (entry.time + Arp) % Wrap
    IN  /\ list' = IF TIME_LESS_THAN(next, now) THEN sys_timeout(rest, Arp, "arp")
                   ELSE sys_timeout_abs(rest, next, "arp")
        /\ UNCHANGED <<active, pcbs>>

\* A mutant of TcpTimer: the flag stays when the timer is not restarted.
TcpTimerKeepsFlag(rest) ==
    \E still \in {pcbs, FALSE} :
      /\ pcbs' = still
      /\ active' = active
      /\ list' = IF still THEN sys_timeout(rest, Tcp, "tcp") ELSE rest

\* tcpip_tcp_timer: tcp_tmr() may remove the last pcb.
TcpTimer(rest) ==
    \E still \in {pcbs, FALSE} :
      /\ pcbs' = still
      /\ active' = still
      /\ list' = IF still THEN sys_timeout(rest, Tcp, "tcp") ELSE rest

\* An iteration of sys_check_timeouts().
Expired == list # <<>> /\ ~TIME_LESS_THAN(thread.start, list[1].time)

CheckTimeout ==
    /\ thread.pc = "check" /\ Expired
    /\ \/ list[1].h = "arp" /\ CyclicTimer(list[1], Tail(list))
       \/ list[1].h = "tcp" /\ TcpTimer(Tail(list))
    /\ UNCHANGED <<now, mbox, thread>>

CheckDone ==
    /\ thread.pc = "check" /\ ~Expired
    /\ thread' = [thread EXCEPT !.pc = "fetch", !.start = 0]
    /\ UNCHANGED <<now, list, active, pcbs, mbox>>

(***************************************************************************)
(* Others: tcpip_inpkt() of the receive thread (which drops the packet     *)
(* when the mailbox is full), threads in connect() or close() under the    *)
(* lock, and time.                                                         *)
(***************************************************************************)
Inpkt ==
    /\ mbox < MboxSize
    /\ mbox' = mbox + 1
    /\ UNCHANGED <<now, list, active, pcbs, thread>>

ApiCall ==
    /\ thread.pc = "sleep"
    /\ TcpReg \/ TcpRmv
    /\ UNCHANGED <<now, mbox, thread>>

Ready == thread.pc # "sleep" \/ thread.left = 0 \/ mbox > 0

Tick ==
    /\ Ready => thread.lag < Lag
    /\ now' = (now + 1) % Wrap
    /\ thread' = [thread EXCEPT !.lag = IF Ready THEN @ + 1 ELSE @,
                                !.left = IF @ > 0 THEN @ - 1 ELSE @]
    /\ UNCHANGED <<list, active, pcbs, mbox>>

Next ==
    \/ Fetch \/ Received \/ TimedOut \/ Handle \/ CheckTimeout \/ CheckDone
    \/ Inpkt \/ ApiCall \/ Tick

Spec == Init /\ [][Next]_vars

(***************************************************************************)
(* Properties.                                                             *)
(***************************************************************************)
Times == 0 .. Wrap - 1

TypeOK ==
    /\ now \in Times
    /\ \A i \in 1 .. Len(list) : list[i] \in [h : {"arp", "tcp"}, time : Times]
    /\ active \in BOOLEAN /\ pcbs \in BOOLEAN
    /\ mbox \in 0 .. MboxSize
    /\ thread \in [pc : {"fetch", "sleep", "handle", "check"}, left : FOREVER .. Arp,
                   start : Times, lag : 0 .. Lag]

Entries(h) == {i \in 1 .. Len(list) : list[i].h = h}

\* The list is in order wherever the clock wraps, the ARP timer is on it once,
\* and the TCP timer once if tcpip_tcp_timer_active says so, which it does
\* while there are connections.
Scheduled ==
    /\ \A i \in 2 .. Len(list) : ~TIME_LESS_THAN(list[i].time, list[i - 1].time)
    /\ \E i \in 1 .. Len(list) : Entries("arp") = {i}
    /\ IF active THEN \E i \in 1 .. Len(list) : Entries("tcp") = {i} ELSE Entries("tcp") = {}
    /\ pcbs => active

\* No timer is forgotten: one that another thread has started while the tcpip
\* thread sleeps is served when that wakes up for ARP, and none is put off for
\* longer than its interval.
ServedInTime ==
    \A i \in 1 .. Len(list) :
      IF TIME_LESS_THAN(now, list[i].time)
        THEN (list[i].time - now) % Wrap <= (IF list[i].h = "arp" THEN Arp ELSE Tcp)
        ELSE (now - list[i].time) % Wrap <= Arp - Tcp + Lag

=============================================================================
