----------------------------- MODULE BootProofs -----------------------------
(***************************************************************************)
(* A break request that comes in time keeps rt-boot from starting Linux,   *)
(* and the console is heard while boot_break() waits, for any number of    *)
(* waits and of break packets.                                             *)
(***************************************************************************)
EXTENDS Boot, KernelProofs

\* rt_event_send() of some events of the set, when t at most is waiting, for any
\* of them and to clear them.
Sent(x, s, v, b, t) ==
    IF t \in On(s, EventList)
    THEN /\ x.k = rt_ipc_list_resume(s, EventList)
         /\ x.e = [v EXCEPT !.want[t] = v.set \cup b, !.set = {}]
    ELSE x.k = s /\ x.e = [v EXCEPT !.set = v.set \cup b]

LEMMA SendEffect ==
    ASSUME NEW s, KernelOK(s, {}), NEW v \in EventStates, NEW b \in SUBSET Bits, b # {},
           NEW t \in Threads, On(s, EventList) \subseteq {t},
           t \in On(s, EventList) => v.want[t] = Bits /\ v.info[t] = {"OR", "CLEAR"}
    PROVE  Sent(rt_event_send(s, v, b), s, v, b, t)
<1> DEFINE q == s.wait[EventList]
           a == [k |-> s, e |-> [v EXCEPT !.set = v.set \cup b]]
           F(f) == [i \in 0 .. Len(q) |-> IF i = 0 THEN a ELSE Serve(f[i - 1], q[i])]
           g == CHOOSE f : f = F(f)
<1>1. rt_event_send(s, v, b) = g[Len(q)]
  BY Zenon DEF rt_event_send
<1>2. EventList \in Lists
  BY EventAssumption, Zenon
<1>3. CASE t \notin On(s, EventList)
  <2>1. Len(q) = 0
    BY <1>2, <1>3, OneOnList, Zenon
  <2> DEFINE w == [i \in 0 .. 0 |-> a]
  <2> HIDE DEF a, q
  <2>2. w = F(w)
    BY <2>1
  <2>3. g = F(g)
    BY <2>2, Zenon
  <2> HIDE DEF g
  <2>4. F(g)[0] = a
    BY <2>1
  <2>5. g[Len(q)] = a
    BY <2>1, <2>3, <2>4, Zenon
  <2>6. QED BY <1>1, <1>3, <2>5 DEF Sent, a
<1>4. CASE t \in On(s, EventList)
  <2>1. Len(q) = 1 /\ q[1] = t /\ Head(q) = t
    BY <1>2, <1>4, OneOnList, Zenon
  <2> DEFINE w == [i \in 0 .. 1 |-> IF i = 0 THEN a ELSE Serve(a, t)]
  <2> HIDE DEF a, q
  <2>2. w = F(w)
    BY <2>1
  <2>3. g = F(g)
    BY <2>2, Zenon
  <2> HIDE DEF g
  <2>4. F(g)[0] = a /\ F(g)[1] = Serve(g[0], t)
    BY <2>1
  <2>5. g[Len(q)] = Serve(a, t)
    BY <2>1, <2>3, <2>4, Zenon
  <2>6. /\ a.k = s /\ a.e.set = v.set \cup b /\ a.e.want = v.want /\ a.e.info = v.info
        /\ a.e = [v EXCEPT !.set = v.set \cup b]
    BY Zenon DEF a, EventStates
  <2>7. a.e.want[t] \cap a.e.set = v.set \cup b /\ Satisfied(a.e.set, a.e.want[t], a.e.info[t])
    BY <1>4, <2>6 DEF EventStates, Satisfied
  <2>8. Serve(a, t).k = rt_thread_resume(s, t)
    BY <2>6, <2>7, Zenon DEF Serve
  <2>9. Serve(a, t).e = [a.e EXCEPT !.want[t] = v.set \cup b, !.set = a.e.set \ (v.set \cup b)]
    BY <1>4, <2>6, <2>7, Zenon DEF Serve
  <2>10. Serve(a, t).e = [v EXCEPT !.want[t] = v.set \cup b, !.set = {}]
    BY <2>6, <2>9, Zenon DEF EventStates
  <2>11. QED BY <1>1, <1>4, <2>1, <2>5, <2>8, <2>10, Zenon DEF Sent, rt_ipc_list_resume, q
<1>5. QED BY <1>3, <1>4, Zenon

LEMMA Facts ==
    ASSUME BootInv
    PROVE  /\ Threads = {Idle, Main, Key, Net}
           /\ Idle # Main /\ Idle # Key /\ Idle # Net /\ Main # Key /\ Main # Net /\ Key # Net
           /\ EventList \in Lists /\ Mbox \in Lists /\ Mbox # EventList /\ Bits = Sources
           /\ k \in KernelStates /\ me \in Threads /\ KernelOK(k, {}) /\ k.lock_nest = 0
           /\ pc[me] \notin AboutToSchedule => k.stat[me] = "RUNNING"
           /\ \A l \in Lists : \A t \in On(k, l) : k.stat[t] = "SUSPEND"
           /\ me = Main /\ pc[Main] \notin AboutToSchedule => ~Waits
<1>1. /\ Threads = {Idle, Main, Key, Net}
      /\ Idle # Main /\ Idle # Key /\ Idle # Net /\ Main # Key /\ Main # Net /\ Key # Net
      /\ EventList \in Lists /\ Mbox \in Lists /\ Mbox # EventList /\ Bits = Sources
  BY BootAssumption, EventAssumption, Zenon
<1>2. /\ k \in KernelStates /\ me \in Threads /\ KernelOK(k, {}) /\ k.lock_nest = 0
      /\ pc[me] \notin AboutToSchedule => k.stat[me] = "RUNNING"
  BY Zenon DEF BootInv, TypeOK, ThreadsInv, KernelStates, me
<1>3. \A l \in Lists : \A t \in On(k, l) : k.stat[t] = "SUSPEND"
  BY <1>2, Zenon DEF On, KernelOK, Linked
<1>4. me = Main /\ pc[Main] \notin AboutToSchedule => ~Waits
  BY <1>1, <1>2, <1>3, Zenon DEF Waits
<1>5. QED BY <1>1, <1>2, <1>3, <1>4, Zenon

(***************************************************************************)
(* Steps of the scheduler, the clock and the other threads that leave the  *)
(* event object alone and whether the main thread waits for it.            *)
(***************************************************************************)
LEMMA OtherStep ==
    ASSUME BootInv,
           UNCHANGED <<e, delay_count, console, image, heard>>,
           packets' \in PacketCounts, replied' \in BOOLEAN,
           KernelOK(k', {}), k'.lock_nest = 0,
           On(k', EventList) = On(k, EventList), On(k', Mbox) \subseteq {Net},
           k'.error[Main] = k.error[Main], Main \in k'.timer <=> Main \in k.timer,
           pc' \in [Threads -> MainLabels \cup KeyLabels \cup NetLabels],
           pc'[Key] \in KeyLabels, pc'[Net] \in NetLabels,
           pc'[Main] = pc[Main] \/ (pc[Main] = "wait" /\ pc'[Main] = "back"),
           pc'[k'.current] \notin AboutToSchedule => k'.stat[k'.current] = "RUNNING"
    PROVE  BootInv'
<1>1. UNCHANGED <<indicate, rx, rx_irq>> /\ (Waits' <=> Waits)
  BY Zenon DEF console, Waits
<1>2. pc'[Main] \in MainLabels
  BY Zenon DEF BootInv, TypeOK, MainLabels
<1>3. TypeOK'
  BY <1>1, <1>2, Zenon DEF BootInv, TypeOK, KernelOK, Shape
<1>4. ThreadsInv'
  BY <1>1, Zenon DEF BootInv, ThreadsInv, me
<1>5. (Honoured' <=> Honoured) /\ (TooLate' <=> TooLate)
  BY <1>1, Zenon DEF Honoured, TooLate
<1>6. RequestInv'
  BY <1>1, <1>5, Zenon DEF BootInv, RequestInv
<1>7. QED BY <1>3, <1>4, <1>6, Zenon DEF BootInv

LEMMA ScheduleInv ==
    ASSUME BootInv, Schedule
    PROVE  BootInv'
<1>1. /\ Threads = {Idle, Main, Key, Net} /\ Main # Key /\ Main # Net /\ Key # Net
      /\ KernelOK(k, {}) /\ k.lock_nest = 0 /\ EventList \in Lists /\ Mbox \in Lists /\ me \in Threads
  BY Facts, Zenon
<1>2. /\ KernelOK(k', {}) /\ Settled(k') /\ k'.lock_nest = 0 /\ k'.timer = k.timer
      /\ k'.error = k.error
      /\ On(k', EventList) = On(k, EventList) /\ On(k', Mbox) = On(k, Mbox)
  BY <1>1, SwitchEffect, Zenon DEF Schedule
<1>3. /\ pc' \in [Threads -> MainLabels \cup KeyLabels \cup NetLabels]
      /\ pc'[Key] \in KeyLabels /\ pc'[Net] \in NetLabels
      /\ pc'[Main] = pc[Main] \/ (pc[Main] = "wait" /\ pc'[Main] = "back")
  BY <1>1, Zenon DEF Schedule, AboutToSchedule, BootInv, TypeOK, MainLabels, KeyLabels, NetLabels
<1>4. On(k', Mbox) \subseteq {Net}
  BY <1>2, Zenon DEF BootInv, ThreadsInv
<1>5. QED BY <1>2, <1>3, <1>4, OtherStep, Zenon DEF Schedule, Settled, BootInv, TypeOK

LEMMA SliceInv ==
    ASSUME BootInv, Slice
    PROVE  BootInv'
<1>1. KernelOK(k, {}) /\ k.lock_nest = 0 /\ EventList \in Lists /\ Mbox \in Lists
  BY Facts, Zenon
<1>2. /\ KernelOK(k', {}) /\ Settled(k') /\ k'.lock_nest = 0 /\ k'.timer = k.timer
      /\ k'.error = k.error
      /\ On(k', EventList) = On(k, EventList) /\ On(k', Mbox) = On(k, Mbox)
  BY <1>1, SwitchEffect, Zenon DEF Slice, SliceEnd
<1>3. On(k', Mbox) \subseteq {Net}
  BY <1>2, Zenon DEF BootInv, ThreadsInv
<1>4. QED BY <1>2, <1>3, OtherStep, Zenon DEF Slice, Settled, BootInv, TypeOK

\* A timeout: nothing but its event keeps the main thread waiting, and then no
\* request has been heard.
LEMMA ExpireInv ==
    ASSUME BootInv, NEW t \in Threads, Expire(t)
    PROVE  BootInv'
<1>1. /\ KernelOK(k, {}) /\ k.lock_nest = 0 /\ EventList \in Lists /\ Mbox \in Lists
      /\ t \in k.timer /\ k' \in Expiry(k, t) /\ k.error \in [Threads -> Errors] /\ Main \in Threads
      /\ UNCHANGED <<e, pc, delay_count, console, image, packets, heard, replied>>
  BY Facts, Zenon DEF Expire, KernelStates
<1>2. /\ KernelOK(k', {}) /\ Settled(k') /\ k'.lock_nest = 0 /\ k.stat[t] = "SUSPEND"
      /\ k'.stat[t] \in {"READY", "RUNNING"}
      /\ k'.error = [k.error EXCEPT ![t] = "ETIMEOUT"] /\ k'.timer = k.timer \ {t}
      /\ On(k', EventList) = On(k, EventList) \ {t} /\ On(k', Mbox) = On(k, Mbox) \ {t}
  BY <1>1, ExpiryEffect
<1>3. On(k', Mbox) \subseteq {Net}
  BY <1>2, Zenon DEF BootInv, ThreadsInv
<1>4. CASE t # Main
  <2>1. /\ On(k', EventList) = On(k, EventList) /\ k'.error[Main] = k.error[Main]
        /\ Main \in k'.timer <=> Main \in k.timer
    BY <1>1, <1>2, <1>4 DEF BootInv, ThreadsInv
  <2>2. QED BY <1>1, <1>2, <1>3, <2>1, OtherStep, Zenon DEF Settled, BootInv, TypeOK
<1>5. CASE t = Main
  <2>1. Waits /\ pc[Main] \in {"wait", "back"}
    BY <1>1, <1>5, Zenon DEF BootInv, ThreadsInv
  <2>2. ~Waits' /\ On(k', EventList) = {} /\ Main \notin k'.timer
    BY <1>2, <1>5, Zenon DEF Waits, BootInv, ThreadsInv
  <2>3. UNCHANGED <<indicate, rx, rx_irq>> /\ ~heard /\ rx_irq
    BY <1>1, <2>1, Zenon DEF console, BootInv, RequestInv, Honoured, TooLate, TypeOK
  <2>4. TypeOK'
    BY <1>1, <1>2, <2>3, Zenon DEF BootInv, TypeOK, KernelOK, Shape
  <2>5. ThreadsInv'
    BY <1>2, <1>3, <2>2, Zenon DEF ThreadsInv, Settled, me
  <2>6. RequestInv'
    BY <1>1, <2>1, <2>3, Zenon DEF RequestInv
  <2>7. QED BY <2>4, <2>5, <2>6, Zenon DEF BootInv
<1>6. QED BY <1>4, <1>5, Zenon

LEMMA KeySleepInv ==
    ASSUME BootInv, KeySleep
    PROVE  BootInv'
<1>1. /\ KernelOK(k, {}) /\ k.lock_nest = 0 /\ EventList \in Lists /\ Mbox \in Lists
      /\ Key \in Threads /\ Main # Key /\ Key # Net
      /\ k.current = Key /\ k.stat[k.current] = "RUNNING" /\ k.current # Idle
  BY Facts, Zenon DEF KeySleep, AboutToSchedule, me
<1>2. /\ KernelOK(k', {}) /\ k'.lock_nest = 0 /\ k'.timer = k.timer \cup {Key} /\ k'.error = k.error
      /\ On(k', EventList) = On(k, EventList) /\ On(k', Mbox) = On(k, Mbox) /\ k'.current = Key
  BY <1>1, SleepEffect, Zenon DEF KeySleep
<1>3. /\ pc' \in [Threads -> MainLabels \cup KeyLabels \cup NetLabels]
      /\ pc'[Key] = "sleep" /\ pc'[Key] \in KeyLabels /\ pc'[Net] \in NetLabels
      /\ pc'[Main] = pc[Main] /\ pc'[k'.current] \in AboutToSchedule
  BY <1>1, <1>2 DEF KeySleep, BootInv, TypeOK, KeyLabels, AboutToSchedule
<1>4. On(k', Mbox) \subseteq {Net} /\ (Main \in k'.timer <=> Main \in k.timer)
  BY <1>1, <1>2, Zenon DEF BootInv, ThreadsInv
<1>5. QED BY <1>2, <1>3, <1>4, OtherStep, Zenon DEF KeySleep, BootInv, TypeOK

LEMMA NetFetchInv ==
    ASSUME BootInv, NetFetch
    PROVE  BootInv'
<1>1. /\ KernelOK(k, {}) /\ k.lock_nest = 0 /\ EventList \in Lists /\ Mbox \in Lists
      /\ Net \in Threads /\ Main \in Threads /\ Main # Net /\ Key # Net /\ Mbox # EventList
      /\ k.current = Net /\ k.stat[k.current] = "RUNNING" /\ k.current # Idle
      /\ k.error \in [Threads -> Errors]
  BY Facts, Zenon DEF NetFetch, AboutToSchedule, me, KernelStates
<1>2. k' = Waiting(k, Mbox, "FIFO", FALSE)
  BY <1>1, Zenon DEF NetFetch, rt_mb_recv, Waiting
<1>3. KernelOK(k', {}) /\ Joined(k', k, Mbox, FALSE)
  BY <1>1, <1>2, WaitEffect, Zenon
<1>4. /\ k'.current = Net /\ k'.lock_nest = 0 /\ k'.error[Main] = k.error[Main]
      /\ On(k', EventList) = On(k, EventList) /\ On(k', Mbox) = On(k, Mbox) \cup {Net}
      /\ Main \in k'.timer <=> Main \in k.timer
  BY <1>1, <1>3, Zenon DEF Joined
<1>5. /\ pc' \in [Threads -> MainLabels \cup KeyLabels \cup NetLabels]
      /\ pc'[Net] \in NetLabels /\ pc'[Key] \in KeyLabels
      /\ pc'[Main] = pc[Main] /\ pc'[k'.current] \in AboutToSchedule
  BY <1>1, <1>4 DEF NetFetch, BootInv, TypeOK, NetLabels, AboutToSchedule
<1>6. On(k', Mbox) \subseteq {Net}
  BY <1>4, Zenon DEF BootInv, ThreadsInv
<1>7. QED BY <1>3, <1>4, <1>5, <1>6, OtherStep, Zenon DEF NetFetch, BootInv, TypeOK

LEMMA NetReplyInv ==
    ASSUME BootInv, NetReply
    PROVE  BootInv'
<1>1. /\ Net \in Threads /\ Main # Net /\ Key # Net /\ k.stat[k.current] = "RUNNING" /\ KernelOK(k, {})
  BY Facts, Zenon DEF NetReply, AboutToSchedule, me
<1>2. /\ pc' \in [Threads -> MainLabels \cup KeyLabels \cup NetLabels]
      /\ pc'[Net] \in NetLabels /\ pc'[Key] \in KeyLabels /\ pc'[Main] = pc[Main]
  BY <1>1 DEF NetReply, BootInv, TypeOK, NetLabels
<1>3. On(k', Mbox) \subseteq {Net} /\ k'.lock_nest = 0
  BY Zenon DEF NetReply, BootInv, ThreadsInv
<1>4. QED BY <1>1, <1>2, <1>3, OtherStep, Zenon DEF NetReply, BootInv, TypeOK

\* A packet wakes the tcpip thread.
LEMMA PacketInv ==
    ASSUME BootInv, Packet
    PROVE  BootInv'
<1>1. /\ KernelOK(k, {}) /\ k.lock_nest = 0 /\ EventList \in Lists /\ Mbox \in Lists /\ Mbox # EventList
      /\ Main # Net /\ On(k, Mbox) \subseteq {Net} /\ On(k, EventList) \subseteq {Main}
  BY Facts, Zenon DEF BootInv, ThreadsInv
<1>2. packets' \in PacketCounts
  BY BootAssumption DEF Packet, PacketCounts, BootInv, TypeOK
<1>3. CASE k.wait[Mbox] = <<>>
  <2>1. k' = k
    BY <1>3, Zenon DEF Packet
  <2>2. QED BY <1>1, <1>2, <2>1, OtherStep, Zenon DEF Packet, BootInv, TypeOK, ThreadsInv, me
<1>4. CASE k.wait[Mbox] # <<>>
  <2> DEFINE u == rt_ipc_list_resume(k, Mbox)
             h == Head(k.wait[Mbox])
  <2>1. k' = rt_schedule(u)
    BY <1>4, Zenon DEF Packet
  <2>2. /\ KernelOK(u, {}) /\ h \in On(k, Mbox) /\ u.lock_nest = k.lock_nest
        /\ u.error = k.error /\ u.timer = k.timer \ {h}
        /\ \A m \in Lists : On(u, m) = On(k, m) \ {h}
    BY <1>1, <1>4, ResumeHeadEffect
  <2> HIDE DEF u, h
  <2>3. /\ KernelOK(k', {}) /\ Settled(k') /\ k'.lock_nest = 0 /\ k'.timer = u.timer
        /\ k'.error = u.error
        /\ On(k', EventList) = On(u, EventList) /\ On(k', Mbox) = On(u, Mbox)
    BY <1>1, <2>1, <2>2, SwitchEffect, Zenon
  <2>4. /\ On(k', EventList) = On(k, EventList) /\ On(k', Mbox) \subseteq {Net}
        /\ Main \in k'.timer <=> Main \in k.timer
    BY <1>1, <2>2, <2>3
  <2>5. QED BY <1>2, <2>2, <2>3, <2>4, OtherStep, Zenon DEF Packet, Settled, BootInv, TypeOK
<1>5. QED BY <1>3, <1>4, Zenon

LEMMA UartDataInv ==
    ASSUME BootInv, UartData
    PROVE  BootInv'
<1>1. UNCHANGED <<k, e, pc, delay_count, image, indicate, rx_irq, packets, heard, replied>>
      /\ rx' = TRUE
  BY Zenon DEF UartData
<1>2. TypeOK'
  BY <1>1, Zenon DEF BootInv, TypeOK
<1>3. ThreadsInv'
  BY <1>1, Zenon DEF BootInv, ThreadsInv, Waits, me
<1>4. RequestInv'
  BY <1>1, Zenon DEF BootInv, RequestInv, Honoured, TooLate, Waits
<1>5. QED BY <1>2, <1>3, <1>4, Zenon DEF BootInv

(***************************************************************************)
(* The main thread.                                                        *)
(***************************************************************************)

\* A step of the main thread that goes on at label l and touches neither the
\* kernel nor the event object.
LEMMA MainMoves ==
    ASSUME BootInv, me = Main, pc[Main] \notin AboutToSchedule,
           NEW l \in MainLabels \ {"start", "wait"}, pc' = [pc EXCEPT ![Main] = l],
           UNCHANGED <<k, e, delay_count, image, rx, rx_irq, packets, heard, replied>>,
           indicate' \in BOOLEAN,
           Honoured => Honoured', TooLate => Honoured' \/ TooLate'
    PROVE  BootInv'
<1>1. /\ Threads = {Idle, Main, Key, Net} /\ Main # Key /\ Main # Net
      /\ k.stat[me] = "RUNNING" /\ ~Waits
  BY Facts, Zenon
<1>2. /\ pc' \in [Threads -> MainLabels \cup KeyLabels \cup NetLabels]
      /\ pc'[Main] = l /\ pc'[Key] = pc[Key] /\ pc'[Net] = pc[Net]
  BY <1>1, Zenon DEF BootInv, TypeOK
<1>3. TypeOK'
  BY <1>2, Zenon DEF BootInv, TypeOK
<1>4. ThreadsInv'
  BY <1>1, Zenon DEF BootInv, ThreadsInv, Waits, me
<1>5. RequestInv'
  BY <1>2, Zenon DEF BootInv, RequestInv
<1>6. QED BY <1>3, <1>4, <1>5, Zenon DEF BootInv

LEMMA OpenConsoleInv ==
    ASSUME BootInv, OpenConsole
    PROVE  BootInv'
<1>1. /\ me = Main /\ pc[Main] = "start" /\ indicate' \in BOOLEAN
      /\ pc' = [pc EXCEPT ![Main] = "loop"]
      /\ UNCHANGED <<k, e, delay_count, image, rx, rx_irq, packets, heard, replied>>
  BY Zenon DEF OpenConsole
<1>2. pc'[Main] = "loop"
  BY <1>1, Facts, Zenon DEF BootInv, TypeOK
<1>3. (Honoured => Honoured') /\ ~TooLate
  BY <1>1, <1>2, Zenon DEF Honoured, TooLate
<1>4. "loop" \in MainLabels \ {"start", "wait"} /\ pc[Main] \notin AboutToSchedule
  BY <1>1, Zenon DEF MainLabels, AboutToSchedule
<1>5. QED BY <1>1, <1>3, <1>4, MainMoves, Zenon

LEMMA RecvBackInv ==
    ASSUME BootInv, RecvBack
    PROVE  BootInv'
<1> DEFINE l == IF k.error[Main] = "EOK" THEN "close" ELSE "loop"
<1>1. /\ me = Main /\ pc[Main] = "back" /\ indicate' \in BOOLEAN
      /\ pc' = [pc EXCEPT ![Main] = l]
      /\ UNCHANGED <<k, e, delay_count, image, rx, rx_irq, packets, heard, replied>>
  BY Zenon DEF RecvBack, console, BootInv, TypeOK
<1>2. pc'[Main] = l /\ l \in {"close", "loop"} /\ l \in MainLabels \ {"start", "wait"}
  BY <1>1, Facts, Zenon DEF BootInv, TypeOK, MainLabels
<1>3. pc[Main] \notin AboutToSchedule
  BY <1>1, Zenon DEF AboutToSchedule
<1>4. (Waits' <=> Waits) /\ ~Waits
  BY <1>1, <1>3, Facts, Zenon DEF Waits
<1>5. CASE k.error[Main] = "EOK"
  <2>1. Honoured'
    BY <1>2, <1>5, Zenon DEF Honoured
  <2>2. QED BY <1>1, <1>2, <1>3, <2>1, MainMoves, Zenon
<1>6. CASE k.error[Main] # "EOK"
  <2>1. pc'[Main] = "loop"
    BY <1>2, <1>6, Zenon
  <2>2. (Honoured => Honoured') /\ (TooLate => TooLate')
    BY <1>1, <1>4, <1>6, <2>1, Zenon DEF Honoured, TooLate
  <2>3. QED BY <1>1, <1>2, <1>3, <2>2, MainMoves, Zenon
<1>7. QED BY <1>5, <1>6, Zenon

LEMMA GiveUpInv ==
    ASSUME BootInv, GiveUp
    PROVE  BootInv'
<1>1. /\ me = Main /\ pc[Main] = "loop" /\ delay_count = 0 /\ indicate' \in BOOLEAN
      /\ pc' = [pc EXCEPT ![Main] = "boot"]
      /\ UNCHANGED <<k, e, delay_count, image, rx, rx_irq, packets, heard, replied>>
  BY Zenon DEF GiveUp, console, BootInv, TypeOK
<1>2. pc'[Main] = "boot" /\ "boot" \in MainLabels \ {"start", "wait"}
  BY <1>1, Facts, Zenon DEF BootInv, TypeOK, MainLabels
<1>3. ~Honoured /\ TooLate' /\ pc[Main] \notin AboutToSchedule
  BY <1>1, <1>2 DEF Honoured, TooLate, AboutToSchedule
<1>4. QED BY <1>1, <1>2, <1>3, MainMoves, Zenon

LEMMA AutobootInv ==
    ASSUME BootInv, Autoboot
    PROVE  BootInv'
<1>1. /\ me = Main /\ pc[Main] = "boot" /\ indicate' \in BOOLEAN
      /\ UNCHANGED <<k, e, delay_count, image, rx, rx_irq, packets, heard, replied>>
  BY Zenon DEF Autoboot, console, BootInv, TypeOK
<1>2. PICK l \in {"linux", "close"} : pc' = [pc EXCEPT ![Main] = l]
  BY Zenon DEF Autoboot
<1>3. pc'[Main] = l /\ l \in MainLabels \ {"start", "wait"}
  BY <1>2, Facts, Zenon DEF BootInv, TypeOK, MainLabels
<1>4. ~Honoured /\ (Honoured' \/ TooLate') /\ pc[Main] \notin AboutToSchedule
  BY <1>1, <1>3, Zenon DEF Honoured, TooLate, AboutToSchedule
<1>5. QED BY <1>1, <1>2, <1>3, <1>4, MainMoves, Zenon

LEMMA CloseInv ==
    ASSUME BootInv, Close
    PROVE  BootInv'
<1>1. /\ me = Main /\ pc[Main] \in {"close", "close2"} /\ indicate' \in BOOLEAN
      /\ UNCHANGED <<k, e, delay_count, image, rx, rx_irq, packets, heard, replied>>
  BY Zenon DEF Close, BootInv, TypeOK
<1>2. PICK l \in {"close2", "recovery"} : pc' = [pc EXCEPT ![Main] = l]
  BY Zenon DEF Close
<1>3. pc'[Main] = l /\ l \in MainLabels \ {"start", "wait"}
  BY <1>2, Facts, Zenon DEF BootInv, TypeOK, MainLabels
<1>4. Honoured' /\ pc[Main] \notin AboutToSchedule
  BY <1>1, <1>3, Zenon DEF Honoured, AboutToSchedule
<1>5. QED BY <1>1, <1>2, <1>3, <1>4, MainMoves, Zenon

\* The main thread finds a request, or waits: then none was heard before.
LEMMA RecvInv ==
    ASSUME BootInv, Recv
    PROVE  BootInv'
<1>1. /\ me = Main /\ pc[Main] = "loop" /\ delay_count > 0 /\ delay_count' = delay_count - 1
      /\ UNCHANGED <<indicate, rx, rx_irq, image, packets, heard, replied>>
  BY Zenon DEF Recv, RecvRound, console
<1>2. /\ Threads = {Idle, Main, Key, Net} /\ Main # Key /\ Main # Net /\ Main # Idle
      /\ EventList \in Lists /\ Mbox \in Lists /\ Mbox # EventList /\ Bits = Sources
      /\ KernelOK(k, {}) /\ k.lock_nest = 0 /\ k.current = Main
      /\ k.stat[Main] = "RUNNING" /\ ~Waits /\ k.error \in [Threads -> Errors]
  BY <1>1, Facts, Zenon DEF me, AboutToSchedule, KernelStates
<1>3. delay_count' \in 0 .. Delays
  BY <1>1, BootAssumption DEF BootInv, TypeOK
<1>4. e \in EventStates /\ Sources \in SUBSET Bits /\ {"OR", "CLEAR"} \in Options
  BY <1>2, Zenon DEF BootInv, TypeOK, Options
<1>5. CASE e.set # {}
  <2>1. /\ k' = k /\ e' = [e EXCEPT !.set = e.set \ Sources] /\ pc' = [pc EXCEPT ![Main] = "close"]
    BY <1>5, Zenon DEF Recv, RecvRound, Received
  <2>2. /\ pc' \in [Threads -> MainLabels \cup KeyLabels \cup NetLabels]
        /\ pc'[Main] = "close" /\ pc'[Key] = pc[Key] /\ pc'[Net] = pc[Net] /\ "close" \in MainLabels
    BY <1>2, <2>1, Zenon DEF BootInv, TypeOK, MainLabels
  <2>3. e' \in EventStates
    BY <1>4, <2>1, Zenon DEF EventStates
  <2>4. TypeOK'
    BY <1>1, <1>3, <2>1, <2>2, <2>3, Zenon DEF BootInv, TypeOK
  <2>5. ThreadsInv'
    BY <1>2, <2>1, Zenon DEF BootInv, ThreadsInv, Waits, me
  <2>6. RequestInv'
    BY <2>2, Zenon DEF RequestInv, Honoured
  <2>7. QED BY <2>4, <2>5, <2>6, Zenon DEF BootInv
<1>6. CASE e.set = {}
  <2>1. /\ k' = WaitKernel(k, Main, TRUE, "FIFO")
        /\ e' = [e EXCEPT !.want[Main] = Sources, !.info[Main] = {"OR", "CLEAR"}]
        /\ pc' = [pc EXCEPT ![Main] = "wait"]
    BY <1>6, Zenon DEF Recv, RecvRound, WaitEvent
  <2>2. k' = Waiting(k, EventList, "FIFO", TRUE)
    BY <1>2, <2>1, Zenon DEF WaitKernel, Waiting
  <2>3. KernelOK(k', {}) /\ Joined(k', k, EventList, TRUE)
    BY <1>2, <2>2, WaitEffect, Zenon
  <2>4. /\ k'.current = Main /\ k'.lock_nest = 0 /\ k'.error[Main] = "EOK" /\ Main \in k'.timer
        /\ On(k', EventList) = On(k, EventList) \cup {Main} /\ On(k', Mbox) = On(k, Mbox)
    BY <1>2, <2>3, Zenon DEF Joined
  <2>5. /\ pc' \in [Threads -> MainLabels \cup KeyLabels \cup NetLabels]
        /\ pc'[Main] = "wait" /\ pc'[Key] = pc[Key] /\ pc'[Net] = pc[Net]
        /\ "wait" \in MainLabels /\ "wait" \in AboutToSchedule
    BY <1>2, <2>1, Zenon DEF BootInv, TypeOK, MainLabels, AboutToSchedule
  <2>6. /\ e' \in EventStates /\ e'.set = {}
        /\ e'.want[Main] = Sources /\ e'.info[Main] = {"OR", "CLEAR"}
    <3>1. e.want \in [Threads -> SUBSET Bits] /\ e.info \in [Threads -> Options]
      BY <1>4, Zenon DEF EventStates
    <3>2. QED BY <1>2, <1>4, <1>6, <2>1, <3>1, Zenon DEF EventStates
  <2>7. TypeOK'
    BY <1>1, <1>3, <2>3, <2>5, <2>6, Zenon DEF BootInv, TypeOK, KernelOK, Shape
  <2>8. ThreadsInv'
    BY <2>3, <2>4, <2>5, <2>6, Zenon DEF BootInv, ThreadsInv, Waits, me
  <2>9. ~heard /\ rx_irq
    BY <1>1, <1>3, <1>6 DEF BootInv, TypeOK, RequestInv, Honoured, TooLate
  <2>10. RequestInv'
    BY <1>1, <2>5, <2>9, Zenon DEF RequestInv
  <2>11. QED BY <2>7, <2>8, <2>10, Zenon DEF BootInv
<1>7. QED BY <1>5, <1>6, Zenon

(***************************************************************************)
(* Requests.                                                               *)
(***************************************************************************)

\* boot_break_event is sent: the main thread is woken, or the request is kept.
Told(x) ==
    /\ KernelOK(x.k, {}) /\ x.k.lock_nest = 0 /\ x.k.current = k.current
    /\ On(x.k, EventList) = {} /\ On(x.k, Mbox) = On(k, Mbox) /\ Main \notin x.k.timer
    /\ x.k.error = k.error /\ \A t \in Threads \ {Main} : x.k.stat[t] = k.stat[t]
    /\ x.e \in EventStates
    /\ ~Waits => x.k = k /\ x.e.set # {}

LEMMA BreakSent ==
    ASSUME BootInv, NEW b \in Sources
    PROVE  Told(rt_event_send(k, e, {b}))
<1> DEFINE x == rt_event_send(k, e, {b})
<1>1. /\ KernelOK(k, {}) /\ k.lock_nest = 0 /\ Main \in Threads /\ Main # Net
      /\ EventList \in Lists /\ Mbox \in Lists /\ Bits = Sources
      /\ On(k, EventList) \subseteq {Main} /\ On(k, Mbox) \subseteq {Net}
      /\ Waits <=> Main \in k.timer
      /\ Main \in On(k, EventList) => e.want[Main] = Bits /\ e.info[Main] = {"OR", "CLEAR"}
  BY Facts, Zenon DEF BootInv, ThreadsInv, Waits
<1>2. e \in EventStates /\ {b} \in SUBSET Bits /\ {b} # {}
  BY <1>1, Zenon DEF BootInv, TypeOK
<1>3. Sent(x, k, e, {b}, Main)
  BY <1>1, <1>2, SendEffect, Zenon
<1> HIDE DEF x
<1>4. e.set \cup {b} \in SUBSET Bits /\ e.want \in [Threads -> SUBSET Bits]
  BY <1>2, Zenon DEF EventStates
<1>5. CASE ~Waits
  <2>1. x.k = k /\ x.e = [e EXCEPT !.set = e.set \cup {b}]
    BY <1>3, <1>5, Zenon DEF Sent, Waits
  <2>2. x.e \in EventStates /\ x.e.set # {}
    BY <1>2, <1>4, <2>1, Zenon DEF EventStates
  <2>3. On(k, EventList) = {}
    BY <1>1, <1>5, Zenon DEF Waits
  <2>4. QED BY <1>1, <1>5, <2>1, <2>2, <2>3, Zenon DEF Told, x
<1>6. CASE Waits
  <2>1. /\ x.k = rt_ipc_list_resume(k, EventList)
        /\ x.e = [e EXCEPT !.want[Main] = e.set \cup {b}, !.set = {}]
    BY <1>3, <1>6, Zenon DEF Sent, Waits
  <2>2. Head(k.wait[EventList]) = Main /\ k.wait[EventList] # <<>>
    <3>1. Len(k.wait[EventList]) = 1 /\ Head(k.wait[EventList]) = Main
      BY <1>1, <1>6, OneOnList, Zenon DEF Waits
    <3>2. QED BY <3>1
  <2>3. /\ KernelOK(x.k, {}) /\ x.k.current = k.current /\ x.k.lock_nest = k.lock_nest
        /\ \A t \in Threads \ {Main} : x.k.stat[t] = k.stat[t]
        /\ x.k.error = k.error /\ x.k.timer = k.timer \ {Main}
        /\ \A m \in Lists : On(x.k, m) = On(k, m) \ {Main}
    BY <1>1, <2>1, <2>2, ResumeHeadEffect
  <2>4. x.e \in EventStates
    <3> DEFINE w == [e.want EXCEPT ![Main] = e.set \cup {b}]
    <3>1. w \in [Threads -> SUBSET Bits]
      BY <1>4, Zenon
    <3>2. x.e = [e EXCEPT !.want = w, !.set = {}]
      BY <1>2, <2>1, Zenon DEF EventStates
    <3> HIDE DEF w
    <3>3. QED BY <1>2, <3>1, <3>2, Zenon DEF EventStates
  <2>5. On(x.k, EventList) = {} /\ On(x.k, Mbox) = On(k, Mbox)
    BY <1>1, <2>3
  <2>6. QED BY <1>1, <1>6, <2>3, <2>4, <2>5, Zenon DEF Told, x
<1>7. QED BY <1>5, <1>6, Zenon

\* A request that comes while one can still be honoured, is.
LEMMA BreakKept ==
    ASSUME BootInv, UNCHANGED <<delay_count, indicate>>,
           pc'[Main] = pc[Main], On(k', EventList) = {}, k'.error[Main] = k.error[Main],
           ~Waits => e'.set # {}, heard' = (heard \/ Listening),
           rx_irq' = rx_irq \/ (indicate /\ ~rx_irq')
    PROVE  RequestInv'
<1>1. ~Waits' /\ delay_count \in Nat
  BY DEF Waits, BootInv, TypeOK
<1>2. Waits => pc[Main] \in {"wait", "back"} /\ k.error[Main] = "EOK"
  BY Zenon DEF BootInv, ThreadsInv
<1>3. Listening => Honoured'
  <2>1. CASE Waits
    BY <1>1, <1>2, <2>1, Zenon DEF Honoured
  <2>2. CASE ~Waits
    BY <1>1, <2>2, Zenon DEF Listening, Honoured, Waits, BootInv, RequestInv
  <2>3. QED BY <2>1, <2>2, Zenon
<1>4. Honoured => Honoured'
  BY <1>1, <1>2, Zenon DEF Honoured
<1>5. Listening \/ Honoured' \/ TooLate'
  BY <1>1 DEF Listening, Honoured, TooLate, BootInv, TypeOK, MainLabels
<1>6. pc'[Main] = "start" => delay_count' > 0 /\ rx_irq' /\ ~indicate'
  BY Zenon DEF BootInv, RequestInv
<1>7. QED BY <1>3, <1>4, <1>5, <1>6, Zenon DEF BootInv, RequestInv

\* t, the gpio thread or the tcpip thread, sends event b.
LEMMA NotifyInv ==
    ASSUME BootInv, NEW t \in {Key, Net}, NEW b \in Sources, NEW l \in {"nap", "reply"},
           me = t, pc[t] = "run", Notify(t, b, l), UNCHANGED <<delay_count, console, image, replied>>,
           packets' \in PacketCounts, l \in (IF t = Key THEN KeyLabels ELSE NetLabels)
    PROVE  BootInv'
<1> DEFINE x == rt_event_send(k, e, {b})
<1>1. /\ Threads = {Idle, Main, Key, Net} /\ Main # Key /\ Main # Net /\ Key # Net
      /\ k.current = t /\ k.stat[t] = "RUNNING"
  BY Facts, Zenon DEF me, AboutToSchedule
<1>2. /\ k' = x.k /\ e' = x.e /\ heard' = (heard \/ Listening)
      /\ pc' \in {[pc EXCEPT ![t] = l], [pc EXCEPT ![t] = "sent"]}
  BY Zenon DEF Notify
<1>3. Told(x)
  BY BreakSent, Zenon
<1> HIDE DEF x
<1>4. /\ pc' \in [Threads -> MainLabels \cup KeyLabels \cup NetLabels]
      /\ pc'[Main] = pc[Main] /\ pc'[Key] \in KeyLabels /\ pc'[Net] \in NetLabels
  <2>1. "sent" \in KeyLabels /\ "sent" \in NetLabels
    BY Zenon DEF KeyLabels, NetLabels
  <2>2. PICK m \in {l, "sent"} : pc' = [pc EXCEPT ![t] = m]
    BY <1>2, Zenon
  <2>3. QED BY <1>1, <2>1, <2>2, Zenon DEF BootInv, TypeOK
<1>5. /\ KernelOK(k', {}) /\ k'.lock_nest = 0 /\ k'.current = t /\ k'.stat[t] = "RUNNING"
      /\ On(k', EventList) = {} /\ On(k', Mbox) = On(k, Mbox) /\ Main \notin k'.timer
      /\ k'.error = k.error /\ e' \in EventStates /\ (~Waits => e'.set # {})
  BY <1>1, <1>2, <1>3, Zenon DEF Told
<1>6. UNCHANGED <<indicate, rx, rx_irq, delay_count, image, replied>> /\ heard' \in BOOLEAN
  BY <1>2, Zenon DEF console
<1>7. TypeOK'
  BY <1>2, <1>4, <1>5, <1>6, Zenon DEF BootInv, TypeOK, KernelOK, Shape
<1>8. ThreadsInv'
  BY <1>5, Zenon DEF BootInv, ThreadsInv, Waits, me
<1>9. RequestInv'
  BY <1>2, <1>4, <1>5, <1>6, BreakKept, Zenon
<1>10. QED BY <1>7, <1>8, <1>9, Zenon DEF BootInv

LEMMA KeyPressedInv ==
    ASSUME BootInv, KeyPressed
    PROVE  BootInv'
<1>1. "nap" \in KeyLabels /\ "KEY" \in Sources
  BY Zenon DEF KeyLabels, Sources
<1>2. QED BY <1>1, NotifyInv, Zenon DEF KeyPressed, BootInv, TypeOK

LEMMA NetBreakInv ==
    ASSUME BootInv, NetBreak
    PROVE  BootInv'
<1>1. "reply" \in NetLabels /\ "NET" \in Sources /\ Key # Net
  BY Facts, Zenon DEF NetLabels, Sources
<1>2. packets' \in PacketCounts
  BY BootAssumption DEF NetBreak, PacketCounts, BootInv, TypeOK
<1>3. QED BY <1>1, <1>2, NotifyInv, Zenon DEF NetBreak

\* The receive interrupt, with rx_indicate or without.
LEMMA UartIsrInv ==
    ASSUME BootInv, UartIsr
    PROVE  BootInv'
<1> DEFINE x == rt_event_send(k, e, {"UART"})
<1>1. UNCHANGED <<pc, delay_count, image, indicate, packets, replied>>
  BY Zenon DEF UartIsr
<1>2. CASE ~indicate
  <2>1. UNCHANGED <<k, e, heard, rx_irq>> /\ rx' = FALSE
    BY <1>2, Zenon DEF UartIsr
  <2>2. TypeOK'
    BY <1>1, <2>1, Zenon DEF BootInv, TypeOK
  <2>3. ThreadsInv'
    BY <1>1, <2>1, Zenon DEF BootInv, ThreadsInv, Waits, me
  <2>4. RequestInv'
    BY <1>1, <2>1, Zenon DEF BootInv, RequestInv, Honoured, TooLate, Waits
  <2>5. QED BY <2>2, <2>3, <2>4, Zenon DEF BootInv
<1>3. CASE indicate
  <2>1. /\ k' = (IF x.k = k THEN k ELSE rt_schedule(x.k)) /\ e' = x.e
        /\ heard' = (heard \/ Listening) /\ rx_irq' = FALSE /\ rx' = rx
    BY <1>3, Zenon DEF UartIsr
  <2>2. Told(x)
    BY BreakSent, Zenon DEF Sources
  <2> HIDE DEF x
  <2>3. EventList \in Lists /\ Mbox \in Lists /\ Main \in Threads
    BY Facts, Zenon
  <2>4. /\ KernelOK(k', {}) /\ k'.lock_nest = 0
        /\ On(k', EventList) = {} /\ On(k', Mbox) = On(k, Mbox) /\ Main \notin k'.timer
        /\ k'.error = k.error
        /\ pc[k'.current] \notin AboutToSchedule => k'.stat[k'.current] = "RUNNING"
    <3>1. CASE x.k = k
      BY <2>1, <2>2, <3>1, Zenon DEF Told, BootInv, ThreadsInv, me
    <3>2. CASE x.k # k
      <4>1. k' = rt_schedule(x.k) /\ KernelOK(x.k, {}) /\ x.k.lock_nest = 0
        BY <2>1, <2>2, <3>2, Zenon DEF Told
      <4>2. /\ KernelOK(k', {}) /\ Settled(k') /\ k'.lock_nest = 0 /\ k'.timer = x.k.timer
            /\ k'.error = x.k.error
            /\ On(k', EventList) = On(x.k, EventList) /\ On(k', Mbox) = On(x.k, Mbox)
        BY <2>3, <4>1, SwitchEffect, Zenon
      <4>3. QED BY <2>2, <4>2, Zenon DEF Told, Settled
    <3>3. QED BY <3>1, <3>2, Zenon
  <2>5. e' \in EventStates /\ (~Waits => e'.set # {}) /\ heard' \in BOOLEAN
    BY <2>1, <2>2, Zenon DEF Told
  <2>6. TypeOK'
    BY <1>1, <2>1, <2>4, <2>5, Zenon DEF BootInv, TypeOK, KernelOK, Shape
  <2>7. ThreadsInv'
    BY <1>1, <2>4, Zenon DEF BootInv, ThreadsInv, Waits, me
  <2>8. RequestInv'
    BY <1>1, <1>3, <2>1, <2>4, <2>5, BreakKept, Zenon
  <2>9. QED BY <2>6, <2>7, <2>8, Zenon DEF BootInv
<1>4. QED BY <1>2, <1>3, Zenon DEF BootInv, TypeOK

LEMMA InitInv ==
    ASSUME Init
    PROVE  BootInv
<1> DEFINE f == [t \in Threads |-> CASE t = Key -> 0 [] t = Idle -> 2 [] OTHER -> 1]
           a == Asleep(f)
           b == rt_thread_timeout(a, Net)
           c == rt_mb_recv(b)
<1>1. /\ Threads = {Idle, Main, Key, Net}
      /\ Idle # Main /\ Idle # Key /\ Idle # Net /\ Main # Key /\ Main # Net /\ Key # Net
      /\ EventList \in Lists /\ Mbox \in Lists /\ Mbox # EventList /\ Bits = Sources
      /\ Priorities = 0 .. 2
  BY BootAssumption, EventAssumption DEF Priorities
<1>2. f \in [Threads -> Priorities] /\ f[Key] = 0 /\ f[Net] = 1 /\ f[Main] = 1 /\ f[Idle] = 2
  BY <1>1
<1> HIDE DEF f
<1>3. /\ KernelOK(a, {}) /\ a.lock_nest = 0 /\ a.priority = f /\ a.timer = Workers
      /\ a.stat = [t \in Threads |-> IF t = Idle THEN "RUNNING" ELSE "SUSPEND"]
      /\ On(a, EventList) = {} /\ On(a, Mbox) = {}
  BY <1>1, <1>2, AsleepOK, Zenon
<1> HIDE DEF a
<1>4. /\ KernelOK(b, {}) /\ Settled(b) /\ b.lock_nest = 0 /\ a.stat[Net] = "SUSPEND"
      /\ b.stat[Net] \in {"READY", "RUNNING"} /\ b.priority = a.priority
      /\ b.error = [a.error EXCEPT ![Net] = "ETIMEOUT"] /\ b.timer = a.timer \ {Net}
      /\ On(b, EventList) = On(a, EventList) \ {Net} /\ On(b, Mbox) = On(a, Mbox) \ {Net}
      /\ \A x \in Threads : b.stat[x] # a.stat[x] =>
            x = Net \/ a.stat[x] \in {"READY", "RUNNING"}
  <2>1. Net \in a.timer /\ b \in Expiry(a, Net)
    BY <1>1, <1>3, Zenon DEF Workers, Expiry
  <2> HIDE DEF b
  <2>2. QED BY <1>1, <1>3, <2>1, ExpiryEffect
<1> HIDE DEF b
<1>5. b.current = Net /\ b.stat[b.current] = "RUNNING"
  <2>1. b.priority = f /\ b.current \in Threads /\ b.stat[b.current] = "RUNNING"
    BY <1>3, <1>4, Zenon DEF KernelOK, Shape, KernelStates, Settled
  <2>2. b.stat[Main] = "SUSPEND" /\ b.stat[Key] = "SUSPEND"
    BY <1>1, <1>3, <1>4, Zenon
  <2>3. b.current \in {Idle, Net}
    BY <1>1, <2>1, <2>2, Zenon
  <2>4. CASE b.stat[Net] = "RUNNING"
    BY <1>1, <1>4, <2>1, <2>4, Zenon DEF KernelOK, Occupied
  <2>5. CASE b.stat[Net] = "READY"
    <3>1. In(b.table[1], Net)
      BY <1>1, <1>2, <1>4, <2>1, <2>5 DEF KernelOK, Linked
    <3>2. 1 \in b.group
      BY <1>1, <1>4, <3>1 DEF KernelOK, Shape, In
    <3>3. b.priority[b.current] <= 1
      BY <1>4, <3>2, Zenon DEF Settled
    <3>4. QED BY <1>1, <1>2, <2>1, <2>3, <3>3
  <2>6. QED BY <1>4, <2>1, <2>4, <2>5, Zenon
<1>6. c = Waiting(b, Mbox, "FIFO", FALSE)
  BY <1>5, Zenon DEF rt_mb_recv, Waiting
<1> HIDE DEF c
<1>7. KernelOK(c, {}) /\ Joined(c, b, Mbox, FALSE)
  BY <1>1, <1>4, <1>5, <1>6, WaitEffect, Zenon
<1>8. /\ c.lock_nest = 0 /\ Main \in c.timer
      /\ On(c, EventList) = {} /\ On(c, Mbox) = {Net}
  BY <1>1, <1>3, <1>4, <1>5, <1>7 DEF Joined, Workers
<1>9. /\ KernelOK(k, {}) /\ Settled(k) /\ k.lock_nest = 0 /\ c.stat[Main] = "SUSPEND"
      /\ k.stat[Main] \in {"READY", "RUNNING"}
      /\ k.error = [c.error EXCEPT ![Main] = "ETIMEOUT"] /\ k.timer = c.timer \ {Main}
      /\ On(k, EventList) = On(c, EventList) \ {Main} /\ On(k, Mbox) = On(c, Mbox) \ {Main}
  <2>1. k \in Expiry(c, Main)
    BY Zenon DEF Init, Expiry, a, b, c, f
  <2>2. QED BY <1>1, <1>7, <1>8, <2>1, ExpiryEffect
<1>10. e \in EventStates /\ e.set = {}
  <2> DEFINE w == [t \in Threads |-> {}]
             i == [t \in Threads |-> {"OR"}]
  <2>1. e = [set |-> {}, want |-> w, info |-> i]
    BY Zenon DEF Init, rt_event_init
  <2>2. w \in [Threads -> SUBSET Bits] /\ i \in [Threads -> Options]
    BY Zenon DEF Options
  <2> HIDE DEF w, i
  <2>3. QED BY <2>1, <2>2, Zenon DEF EventStates
<1>11. /\ pc \in [Threads -> MainLabels \cup KeyLabels \cup NetLabels] /\ pc[Main] = "start"
       /\ pc[Main] \in MainLabels /\ pc[Key] \in KeyLabels /\ pc[Net] \in NetLabels
  BY <1>1, Zenon DEF Init, MainLabels, KeyLabels, NetLabels
<1>12. /\ delay_count \in 0 .. Delays /\ delay_count > 0 /\ packets \in PacketCounts
       /\ image \in Images /\ ~indicate /\ rx_irq /\ ~heard
       /\ <<indicate, rx, rx_irq, heard, replied>> \in BOOLEAN \X BOOLEAN \X BOOLEAN \X BOOLEAN \X BOOLEAN
  <2>1. delay_count \in 0 .. Delays /\ delay_count > 0 /\ packets \in PacketCounts
    BY BootAssumption DEF Init, PacketCounts
  <2>2. image \in Images
    <3>1. PICK ok \in BOOLEAN : image = [header |-> "IH", crc |-> ok, type |-> "KERNEL",
                                         comp |-> "LZMA", inflates |-> TRUE]
      BY Zenon DEF Init
    <3>2. QED BY <3>1, Zenon DEF Images, Headers
  <2>3. /\ ~indicate /\ rx_irq /\ ~heard
        /\ <<indicate, rx, rx_irq, heard, replied>> \in BOOLEAN \X BOOLEAN \X BOOLEAN \X BOOLEAN \X BOOLEAN
    BY Zenon DEF Init
  <2>4. QED BY <2>1, <2>2, <2>3, Zenon
<1>13. TypeOK
  BY <1>9, <1>10, <1>11, <1>12, Zenon DEF TypeOK, KernelOK, Shape
<1>14. ThreadsInv
  BY <1>1, <1>8, <1>9, Zenon DEF ThreadsInv, Settled, Waits, me
<1>15. RequestInv
  BY <1>12, Zenon DEF RequestInv
<1>16. QED BY <1>13, <1>14, <1>15, Zenon DEF BootInv

LEMMA NextInv ==
    ASSUME BootInv, [Next]_vars
    PROVE  BootInv'
<1>1. CASE MainStep
  BY <1>1, OpenConsoleInv, RecvInv, RecvBackInv, GiveUpInv, AutobootInv, CloseInv, Zenon DEF MainStep
<1>2. CASE KeyPressed \/ KeySleep \/ NetFetch \/ NetBreak \/ NetReply \/ Schedule
  BY <1>2, KeyPressedInv, KeySleepInv, NetFetchInv, NetBreakInv, NetReplyInv, ScheduleInv, Zenon
<1>3. CASE UartData \/ UartIsr \/ Packet \/ Slice
  BY <1>3, UartDataInv, UartIsrInv, PacketInv, SliceInv, Zenon
<1>4. CASE \E t \in Threads : Expire(t)
  BY <1>4, ExpireInv, Zenon
<1>5. CASE UNCHANGED vars
  <2>1. UNCHANGED <<k, e, pc, delay_count, image, indicate, rx, rx_irq, packets, heard, replied>>
    BY <1>5, Zenon DEF vars
  <2>2. TypeOK'
    BY <2>1, Zenon DEF BootInv, TypeOK
  <2>3. ThreadsInv'
    BY <2>1, Zenon DEF BootInv, ThreadsInv, Waits, me
  <2>4. RequestInv'
    BY <2>1, Zenon DEF BootInv, RequestInv, Honoured, TooLate, Waits
  <2>5. QED BY <2>2, <2>3, <2>4, Zenon DEF BootInv
<1>6. QED BY <1>1, <1>2, <1>3, <1>4, <1>5, Zenon DEF Next

\* BootInv is inductive: boot_break() (main.c), the gpio thread, breakd_recv() and
\* the console's interrupt keep it in every interleaving of their steps.
THEOREM BootInvariant == Spec => []BootInv
<1>1. Init => BootInv
  BY InitInv, Zenon
<1>2. BootInv /\ [Next]_vars => BootInv'
  BY NextInv, Zenon
<1>3. QED BY <1>1, <1>2, PTL DEF Spec

\* A break request that is sent before the last rt_event_recv() of boot_break() is
\* over, by the key, a packet or the console, keeps rt-boot from starting Linux.
THEOREM RequestsHonoured == Spec => []BreakHonoured
<1>1. BootInv => BreakHonoured
  BY Zenon DEF BootInv, RequestInv, Honoured, BreakHonoured
<1>2. QED BY <1>1, BootInvariant, PTL

\* While boot_break() waits, the UART's receive interrupt is on whenever a
\* character is there: rx_indicate will be called.
THEOREM ConsoleHeard == Spec => []ConsoleIsHeard
<1>1. BootInv => ConsoleIsHeard
  BY Zenon DEF BootInv, TypeOK, ThreadsInv, RequestInv, Honoured, TooLate, Waits, ConsoleIsHeard
<1>2. QED BY <1>1, BootInvariant, PTL

=============================================================================
