-------------------------------- MODULE Boot ---------------------------------
(***************************************************************************)
(* The boot decision (common/main/main.c): the main thread waits a few     *)
(* times half a second for a break request on boot_break_event, then       *)
(* starts Linux from the flash or goes on to recovery.  Requests come from *)
(* the key, polled by the gpio thread (board/.../gpio.c), from a UDP       *)
(* packet handled by the tcpip thread (lwip-breakd/breakd.c), and from the *)
(* console's receive interrupt (board/.../console.c).                      *)
(*                                                                         *)
(*   k, e         the kernel and boot_break_event                          *)
(*   pc           Main: start, loop, wait (in rt_event_recv, suspended),   *)
(*                      back, boot, close, close2, linux, recovery         *)
(*                Key:  run, sent, nap, sleep (its two delays are one)     *)
(*                Net:  run, fetch, sent, reply                            *)
(*   delay_count  waits left                                               *)
(*   image        what the flash holds                                     *)
(*   indicate     is rx_indicate of the console boot_break_uart_notisfy?   *)
(*   rx, rx_irq   does the UART hold data, is its interrupt (ERBFI) on?    *)
(*   packets      break packets still to come (a bound), and waiting       *)
(*   heard        history: a request was sent while it could be honoured   *)
(*   replied      history: a break packet was answered                     *)
(***************************************************************************)
EXTENDS EventOps

CONSTANTS Main, Key, Net,   \* the three threads
          Mbox,             \* where the tcpip thread waits for packets
          Delays,           \* the initial delay_count
          MaxPackets        \* bound on the number of break packets

Sources == {"UART", "NET", "KEY"}

ASSUME BootAssumption ==
    /\ Threads = {Idle, Main, Key, Net}
    /\ Idle \notin {Main, Key, Net} /\ Main \notin {Key, Net} /\ Key # Net
    /\ PriorityMax = 3
    /\ Bits = Sources
    /\ Mbox \in Lists \ {EventList}
    /\ Delays \in Nat \ {0} /\ MaxPackets \in Nat

VARIABLES k, e, pc, delay_count, image, indicate, rx, rx_irq, packets, heard, replied

vars == <<k, e, pc, delay_count, image, indicate, rx, rx_irq, packets, heard, replied>>

console == <<indicate, rx, rx_irq>>

me == k.current

Headers == {"IH", "TPL_V1", "TPL_V2", "TPL_V3", "OTHER"}

\* What the loader looks at; crc: are both checksums right?
Images == [header : Headers, crc : BOOLEAN, type : {"KERNEL", "MULTI", "OTHER"},
           comp : {"LZMA", "OTHER"}, inflates : BOOLEAN]

\* tpl_to_uboot_header(): type and compression do not come from the image.
Header(i) == IF i.header = "IH" THEN i ELSE [i EXCEPT !.type = "KERNEL", !.comp = "LZMA"]

\* linux_loader(): does the image in the flash start?
linux_loader(i) ==
    /\ i.header \in {"IH", "TPL_V1", "TPL_V2"}
    /\ i.header = "IH" => i.crc
    /\ Header(i).type \in {"KERNEL", "MULTI"}
    /\ Header(i).comp = "LZMA"
    /\ i.inflates

MainLabels == {"start", "loop", "wait", "back", "boot", "close", "close2", "linux", "recovery"}
KeyLabels  == {"run", "sent", "nap", "sleep"}
NetLabels  == {"run", "fetch", "sent", "reply"}

PacketCounts ==
    {p \in [left : 0 .. MaxPackets, queued : 0 .. MaxPackets] : p.left + p.queued <= MaxPackets}

TypeOK ==
    /\ k \in KernelStates
    /\ e \in EventStates
    /\ pc \in [Threads -> MainLabels \cup KeyLabels \cup NetLabels]
    /\ pc[Main] \in MainLabels /\ pc[Key] \in KeyLabels /\ pc[Net] \in NetLabels
    /\ delay_count \in 0 .. Delays
    /\ image \in Images
    /\ <<indicate, rx, rx_irq, heard, replied>> \in BOOLEAN \X BOOLEAN \X BOOLEAN \X BOOLEAN \X BOOLEAN
    /\ packets \in PacketCounts

\* sys_arch_mbox_fetch() of the tcpip thread, that finds the mailbox empty.
rt_mb_recv(u) == rt_ipc_list_suspend([u EXCEPT !.error[Net] = "EOK"], Mbox, Net, "FIFO")

\* rt_thread_main_thread_entry() is about to call boot_break(): the gpio thread
\* sleeps, the tcpip thread waits for packets.  Two images: one starts, one not.
Init ==
    /\ k = rt_thread_timeout(rt_mb_recv(rt_thread_timeout(
               Asleep([t \in Threads |-> CASE t = Key -> 0 [] t = Idle -> 2 [] OTHER -> 1]),
               Net)), Main)
    /\ e = rt_event_init
    /\ pc = [t \in Threads |-> IF t = Main THEN "start" ELSE "run"]
    /\ delay_count = Delays
    /\ image \in {[header |-> "IH", crc |-> c, type |-> "KERNEL", comp |-> "LZMA",
                   inflates |-> TRUE] : c \in BOOLEAN}
    /\ indicate = FALSE /\ rx \in BOOLEAN /\ rx_irq = TRUE
    /\ packets = [left |-> MaxPackets, queued |-> 0]
    /\ heard = FALSE /\ replied = FALSE

\* Until the last rt_event_recv() is over, a request can still be honoured.
Listening ==
    \/ pc[Main] = "start"
    \/ pc[Main] \in {"loop", "wait", "back"} /\ delay_count > 0
    \/ Main \in On(k, EventList)

\* Linux has the machine: nothing of rt-boot runs any more.
Running == pc[Main] # "linux"

(***************************************************************************)
(* The main thread: boot_break().                                          *)
(***************************************************************************)
OpenConsole ==
    /\ me = Main /\ pc[Main] = "start"
    /\ indicate' = TRUE
    /\ pc' = [pc EXCEPT ![Main] = "loop"]
    /\ UNCHANGED <<k, e, delay_count, image, rx, rx_irq, packets, heard, replied>>

\* rt_event_recv() with `left' waits to go: a request is there, or main waits.
RecvRound(left) ==
    /\ me = Main /\ pc[Main] = "loop"
    /\ delay_count' = left
    /\ IF e.set # {}
       THEN /\ e' = Received(e, Sources, {"OR", "CLEAR"})
            /\ pc' = [pc EXCEPT ![Main] = "close"]
            /\ UNCHANGED k
       ELSE /\ k' = WaitKernel(k, Main, TRUE, "FIFO")
            /\ e' = WaitEvent(e, Main, Sources, {"OR", "CLEAR"})
            /\ pc' = [pc EXCEPT ![Main] = "wait"]
    /\ UNCHANGED <<console, image, packets, heard, replied>>

\* Mutants: delay_count is not counted, or not tested.
RecvForever    == delay_count > 0 /\ RecvRound(delay_count)
RecvUnderflows == RecvRound(delay_count - 1)

\* while (delay_count--) rt_event_recv(...)
Recv == delay_count > 0 /\ RecvRound(delay_count - 1)

\* A mutant: what the last wait received is not looked at.
RecvBackLast ==
    /\ me = Main /\ pc[Main] = "back"
    /\ pc' = [pc EXCEPT ![Main] = IF k.error[Main] = "EOK" /\ delay_count > 0
                                  THEN "close" ELSE "loop"]
    /\ UNCHANGED <<k, e, delay_count, console, image, packets, heard, replied>>

\* Back from waiting, with a request or with a timeout.
RecvBack ==
    /\ me = Main /\ pc[Main] = "back"
    /\ pc' = [pc EXCEPT ![Main] = IF k.error[Main] = "EOK" THEN "close" ELSE "loop"]
    /\ UNCHANGED <<k, e, delay_count, console, image, packets, heard, replied>>

GiveUp ==
    /\ me = Main /\ pc[Main] = "loop" /\ delay_count = 0
    /\ pc' = [pc EXCEPT ![Main] = "boot"]
    /\ UNCHANGED <<k, e, delay_count, console, image, packets, heard, replied>>

\* autoboot_linux(): does not return if the image is good.
Autoboot ==
    /\ me = Main /\ pc[Main] = "boot"
    /\ pc' = [pc EXCEPT ![Main] = IF linux_loader(image) THEN "linux" ELSE "close"]
    /\ UNCHANGED <<k, e, delay_count, console, image, packets, heard, replied>>

\* rt_device_close(), then rx_indicate is taken back.
Close ==
    /\ me = Main /\ pc[Main] \in {"close", "close2"}
    /\ indicate' = (indicate /\ pc[Main] = "close")
    /\ pc' = [pc EXCEPT ![Main] = IF @ = "close" THEN "close2" ELSE "recovery"]
    /\ UNCHANGED <<k, e, delay_count, image, rx, rx_irq, packets, heard, replied>>

(***************************************************************************)
(* Break requests from threads: t sends event b and goes on at `next',     *)
(* after rt_schedule() if somebody was woken.                              *)
(***************************************************************************)
Notify(t, b, next) ==
    LET x == rt_event_send(k, e, {b})
    IN  /\ k' = x.k /\ e' = x.e
        /\ heard' = (heard \/ Listening)
        /\ pc' = [pc EXCEPT ![t] = IF x.k = k THEN next ELSE "sent"]

\* The gpio thread finds the key pressed, or not.
KeyPressed ==
    /\ Running /\ me = Key /\ pc[Key] = "run"
    /\ Notify(Key, "KEY", "nap")
    /\ UNCHANGED <<delay_count, console, image, packets, replied>>

KeySleep ==
    /\ Running /\ me = Key /\ pc[Key] \in {"run", "nap"}
    /\ k' = rt_thread_sleep(k, Key)
    /\ pc' = [pc EXCEPT ![Key] = "sleep"]
    /\ UNCHANGED <<e, delay_count, console, image, packets, heard, replied>>

\* The tcpip thread: a break packet is handled by breakd_recv(), or it waits.
NetFetch ==
    /\ Running /\ me = Net /\ pc[Net] = "run" /\ packets.queued = 0
    /\ k' = rt_mb_recv(k)
    /\ pc' = [pc EXCEPT ![Net] = "fetch"]
    /\ UNCHANGED <<e, delay_count, console, image, packets, heard, replied>>

NetBreak ==
    /\ Running /\ me = Net /\ pc[Net] = "run" /\ packets.queued > 0
    /\ Notify(Net, "NET", "reply")
    /\ packets' = [packets EXCEPT !.queued = @ - 1]
    /\ UNCHANGED <<delay_count, console, image, replied>>

NetReply ==
    /\ Running /\ me = Net /\ pc[Net] = "reply"
    /\ replied' = TRUE
    /\ pc' = [pc EXCEPT ![Net] = "run"]
    /\ UNCHANGED <<k, e, delay_count, console, image, packets, heard>>

AboutToSchedule == {"wait", "sent", "sleep", "fetch"}

\* rt_schedule(), called by any of the threads.
Schedule ==
    /\ Running /\ pc[me] \in AboutToSchedule
    /\ k' = rt_schedule(k)
    /\ pc' = [pc EXCEPT ![me] = CASE @ = "wait" -> "back"
                                  [] @ = "sent" -> IF me = Net THEN "reply" ELSE "nap"
                                  [] OTHER      -> "run"]
    /\ UNCHANGED <<e, delay_count, console, image, packets, heard, replied>>

(***************************************************************************)
(* Interrupts.                                                             *)
(***************************************************************************)
\* A character arrives.
UartData ==
    /\ Running /\ ~rx
    /\ rx' = TRUE
    /\ UNCHANGED <<k, e, pc, delay_count, image, indicate, rx_irq, packets, heard, replied>>

\* A mutant: the interrupt is switched off before rx_indicate is looked at.
UartIsrMasks ==
    /\ Running /\ rx /\ rx_irq
    /\ rx_irq' = FALSE
    /\ IF indicate
       THEN LET x == rt_event_send(k, e, {"UART"})
            IN  /\ k' = rt_schedule(x.k) /\ e' = x.e
                /\ heard' = (heard \/ Listening)
                /\ UNCHANGED rx
       ELSE rx' = FALSE /\ UNCHANGED <<k, e, heard>>
    /\ UNCHANGED <<pc, delay_count, image, indicate, packets, replied>>

\* The receive interrupt: rx_indicate is called, with the interrupt off until
\* somebody reads, or the data is thrown away.
UartIsr ==
    /\ Running /\ rx /\ rx_irq
    /\ IF indicate
       THEN LET x == rt_event_send(k, e, {"UART"})
            IN  /\ k' = IF x.k = k THEN k ELSE rt_schedule(x.k)
                /\ e' = x.e
                /\ heard' = (heard \/ Listening)
                /\ rx_irq' = FALSE
                /\ UNCHANGED rx
       ELSE rx' = FALSE /\ UNCHANGED <<k, e, heard, rx_irq>>
    /\ UNCHANGED <<pc, delay_count, image, indicate, packets, replied>>

\* A break packet is queued for the tcpip thread.
Packet ==
    /\ Running /\ packets.left > 0
    /\ packets' = [left |-> packets.left - 1, queued |-> packets.queued + 1]
    /\ k' = IF k.wait[Mbox] = <<>> THEN k ELSE rt_schedule(rt_ipc_list_resume(k, Mbox))
    /\ UNCHANGED <<e, pc, delay_count, console, image, heard, replied>>

\* rt_tick_increase().
Slice ==
    /\ Running /\ k' = SliceEnd(k)
    /\ UNCHANGED <<e, pc, delay_count, console, image, packets, heard, replied>>

Expire(t) ==
    /\ Running /\ t \in k.timer
    /\ k' \in Expiry(k, t)
    /\ UNCHANGED <<e, pc, delay_count, console, image, packets, heard, replied>>

MainStep == OpenConsole \/ Recv \/ RecvBack \/ GiveUp \/ Autoboot \/ Close

Next ==
    \/ MainStep \/ KeyPressed \/ KeySleep \/ NetFetch \/ NetBreak \/ NetReply \/ Schedule
    \/ UartData \/ UartIsr \/ Packet \/ Slice
    \/ \E t \in Threads : Expire(t)

Spec == Init /\ [][Next]_vars

(***************************************************************************)
(* The main thread goes on when it has the processor, and the timeout of   *)
(* its wait expires.  Time is not counted here, so that the sleeps of the  *)
(* gpio thread (100 ms) and the pauses between packets take some has to be *)
(* said: again and again neither thread has the processor.                 *)
(***************************************************************************)
Fairness ==
    /\ SF_vars(MainStep \/ (me = Main /\ Schedule))
    /\ WF_vars(Schedule)
    /\ []<>(Main \notin k.timer)
    /\ []<>(k.current \notin {Key, Net})

FairSpec == Spec /\ Fairness

(***************************************************************************)
(* Properties.                                                             *)
(***************************************************************************)

\* A break request that is sent before the last wait of boot_break() is over,
\* from whatever source, keeps rt-boot from starting Linux.
BreakHonoured == heard => pc[Main] \notin {"boot", "linux"}

\* While boot_break() waits, a character in the UART is going to be noticed: its
\* interrupt is on.
ConsoleIsHeard == Main \in On(k, EventList) /\ rx => rx_irq

\* The break server answers RT-BOOT:ABORTED (lwip-breakd/breakd.c:19): then the
\* boot is aborted.
AbortedMeansNoBoot == replied => pc[Main] # "linux"

\* boot_break() comes to a decision: Linux runs, or recovery is started.
Decides == <>(pc[Main] \in {"linux", "recovery"})

(***************************************************************************)
(* The inductive invariant behind the first two.  Honoured: a request is   *)
(* certain to be found, because it was received, or lies in the event      *)
(* object and there is another wait to come.  TooLate: none will be.       *)
(***************************************************************************)
Waits == Main \in On(k, EventList)

Honoured ==
    \/ pc[Main] \in {"close", "close2", "recovery"}
    \/ pc[Main] \in {"start", "loop"} /\ delay_count > 0 /\ e.set # {}
    \/ /\ pc[Main] \in {"wait", "back"} /\ ~Waits
       /\ k.error[Main] = "EOK" \/ (delay_count > 0 /\ e.set # {})

TooLate ==
    \/ pc[Main] \in {"boot", "linux"}
    \/ pc[Main] \in {"loop", "wait", "back"} /\ ~Waits /\ delay_count = 0

ThreadsInv ==
    /\ KernelOK(k, {}) /\ k.lock_nest = 0
    /\ On(k, EventList) \subseteq {Main} /\ On(k, Mbox) \subseteq {Net}
    /\ Waits <=> Main \in k.timer
    /\ Waits => /\ pc[Main] \in {"wait", "back"} /\ k.error[Main] = "EOK" /\ e.set = {}
                /\ e.want[Main] = Sources /\ e.info[Main] = {"OR", "CLEAR"}
    /\ pc[me] \notin AboutToSchedule => k.stat[me] = "RUNNING"

RequestInv ==
    /\ pc[Main] = "start" => delay_count > 0 /\ rx_irq /\ ~indicate
    /\ heard => Honoured
    /\ ~rx_irq => Honoured \/ TooLate

BootInv == TypeOK /\ ThreadsInv /\ RequestInv

=============================================================================
