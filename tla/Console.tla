------------------------------- MODULE Console -------------------------------
(***************************************************************************)
(* The two ways into the shell: the UART of board/tl-wr810n_v2/console and *)
(* the telnet server of common/net/lwip-telnetd, the device layer          *)
(* (common/kernel/device.c) between them and the shell, and the shell's    *)
(* input loop (common/finsh/shell.c).                                      *)
(*                                                                         *)
(*   uart      characters waiting in the UART, receive interrupt enabled   *)
(*   device    shell->device                                               *)
(*   ref       ref_count of the two devices                                *)
(*   rx_ind    their rx_indicate is finsh_rx_ind                           *)
(*   rx_sem, notice   values of shell->rx_sem and telnet->read_notice      *)
(*   ring      bytes in the receive ring of telnet                         *)
(*   silent    bytes that were put there without a read_notice             *)
(*   missed    the shell's last read found the UART closed                 *)
(*   shell     place of the shell thread                                   *)
(*   tn        place of the telnet thread, its protocol state, and whether *)
(*             it is switching to telnet or back                           *)
(*                                                                         *)
(* The shell (priority 5) preempts the telnet thread (25): the latter runs *)
(* only while the shell waits, be it inside a command.                     *)
(***************************************************************************)
EXTENDS Naturals

CONSTANTS FifoMax,    \* characters the UART holds
          RingMax,    \* RX_BUFFER_SIZE
          CountMax,   \* bound on the semaphores' values
          SilentMax   \* bound on the doubled IACs received

VARIABLES uart, device, ref, rx_ind, rx_sem, notice, ring, silent, missed, shell, tn

vars == <<uart, device, ref, rx_ind, rx_sem, notice, ring, silent, missed, shell, tn>>

Devices == {"uart", "telnet"}

Other(d) == IF d = "uart" THEN "telnet" ELSE "uart"

TypeOK ==
    /\ uart \in [fifo : 0 .. FifoMax, ier : BOOLEAN]
    /\ device \in Devices
    /\ ref \in [Devices -> 0 .. 3] /\ rx_ind \in [Devices -> BOOLEAN]
    /\ rx_sem \in 0 .. CountMax /\ notice \in 0 .. CountMax
    /\ ring \in 0 .. RingMax /\ silent \in 0 .. SilentMax /\ missed \in BOOLEAN
    /\ shell \in {"read", "enable", "sem_take", "telnet_take", "telnet_get", "work"}
    /\ tn \in [at : {"accept", "con_close", "con_open", "open", "close", "mute", "switch",
                     "listen", "recv", "bytes"},
               state : {"NORMAL", "IAC", "OPT"}, to : Devices]

\* After finsh_thread_entry() has made the UART the shell's device.
Init ==
    /\ uart = [fifo |-> 0, ier |-> TRUE]
    /\ device = "uart"
    /\ ref = [d \in Devices |-> IF d = "uart" THEN 2 ELSE 0]
    /\ rx_ind = [d \in Devices |-> d = "uart"]
    /\ rx_sem = 0 /\ notice = 0 /\ ring = 0 /\ silent = 0 /\ missed = FALSE
    /\ shell = "read"
    /\ tn = [at |-> "accept", state |-> "NORMAL", to |-> "telnet"]

(***************************************************************************)
(* The UART.                                                               *)
(***************************************************************************)
Key ==
    /\ uart.fifo < FifoMax
    /\ uart' = [uart EXCEPT !.fifo = @ + 1]
    /\ UNCHANGED <<device, ref, rx_ind, rx_sem, notice, ring, silent, missed, shell, tn>>

\* The interrupt handler: it tells the shell and masks the interrupt, or
\* throws the characters away when nobody listens.
UartInterrupt ==
    /\ uart.ier /\ uart.fifo > 0
    /\ IF rx_ind["uart"]
       THEN /\ rx_sem < CountMax
            /\ uart' = [uart EXCEPT !.ier = FALSE] /\ rx_sem' = rx_sem + 1
       ELSE uart' = [uart EXCEPT !.fifo = 0] /\ UNCHANGED rx_sem
    /\ UNCHANGED <<device, ref, rx_ind, notice, ring, silent, missed, shell, tn>>

(***************************************************************************)
(* The shell: finsh_getchar() and the work on the character.               *)
(***************************************************************************)

\* rt_device_read() of one character.  The UART's read asks for interrupts
\* again only when it found no character.
Read ==
    /\ shell = "read"
    /\ IF ref[device] = 0 THEN shell' = "sem_take" /\ UNCHANGED uart
       ELSE IF device = "telnet" THEN shell' = "telnet_take" /\ UNCHANGED uart
       ELSE IF uart.fifo > 0 THEN shell' = "work" /\ uart' = [uart EXCEPT !.fifo = @ - 1]
       ELSE shell' = "enable" /\ UNCHANGED uart
    /\ missed' = (missed \/ ref[device] = 0)
    /\ UNCHANGED <<device, ref, rx_ind, rx_sem, notice, ring, silent, tn>>


Enable ==
    /\ shell = "enable" /\ shell' = "sem_take"
    /\ uart' = [uart EXCEPT !.ier = TRUE]
    /\ missed' = FALSE
    /\ UNCHANGED <<device, ref, rx_ind, rx_sem, notice, ring, silent, tn>>

SemTake ==
    /\ shell = "sem_take" /\ rx_sem > 0
    /\ rx_sem' = rx_sem - 1 /\ shell' = "read"
    /\ UNCHANGED <<uart, device, ref, rx_ind, notice, ring, silent, missed, tn>>

\* telnet_read(): the read_notice, then a byte, or '\0' if there is none.
TelnetTake ==
    /\ shell = "telnet_take" /\ notice > 0
    /\ notice' = notice - 1 /\ shell' = "telnet_get"
    /\ UNCHANGED <<uart, device, ref, rx_ind, rx_sem, ring, silent, missed, tn>>

TelnetGet ==
    /\ shell = "telnet_get"
    /\ ring' = IF ring > 0 THEN ring - 1 ELSE ring
    /\ shell' = "work"
    /\ UNCHANGED <<uart, device, ref, rx_ind, rx_sem, notice, silent, missed, tn>>

Work ==
    /\ shell = "work" /\ shell' = "read"
    /\ UNCHANGED <<uart, device, ref, rx_ind, rx_sem, notice, ring, silent, missed, tn>>

ShellStep == Read \/ Enable \/ SemTake \/ TelnetTake \/ TelnetGet \/ Work

\* The shell waits, on one of its semaphores or in a command.
ShellWaits ==
    \/ shell = "work"
    \/ shell = "sem_take" /\ rx_sem = 0
    \/ shell = "telnet_take" /\ notice = 0

(***************************************************************************)
(* The telnet thread.  rt_console_set_device() closes the console's device *)
(* and opens the new one; finsh_set_device() opens the new one, closes the *)
(* old one, mutes it, switches and listens to the new one.                 *)
(***************************************************************************)
TnGoto(label) == tn' = [tn EXCEPT !.at = label]

Accept ==
    /\ tn.at = "accept"
    /\ tn' = [at |-> "con_close", state |-> "NORMAL", to |-> "telnet"]
    /\ UNCHANGED <<uart, device, ref, rx_ind, rx_sem, notice, ring, silent, missed, shell>>

Opens == {"con_open", "open"}

After == [con_close |-> "con_open", con_open |-> "open", open |-> "close", close |-> "mute"]

SetDeviceRefs ==
    /\ tn.at \in {"con_close", "con_open", "open", "close"}
    /\ ref' = IF tn.at \in Opens THEN [ref EXCEPT ![tn.to] = @ + 1]
              ELSE [ref EXCEPT ![Other(tn.to)] = @ - 1]
    /\ TnGoto(After[tn.at])
    /\ UNCHANGED <<uart, device, rx_ind, rx_sem, notice, ring, silent, missed, shell>>

Mute ==
    /\ tn.at = "mute"
    /\ rx_ind' = [rx_ind EXCEPT ![device] = FALSE]
    /\ TnGoto("switch")
    /\ UNCHANGED <<uart, device, ref, rx_sem, notice, ring, silent, missed, shell>>

Switch ==
    /\ tn.at = "switch"
    /\ device' = tn.to
    /\ TnGoto("listen")
    /\ UNCHANGED <<uart, ref, rx_ind, rx_sem, notice, ring, silent, missed, shell>>

\* Then the session, or the end of client_close() and the next accept().
Listen ==
    /\ tn.at = "listen"
    /\ rx_ind' = [rx_ind EXCEPT ![tn.to] = TRUE]
    /\ TnGoto(IF tn.to = "telnet" THEN "recv" ELSE "accept")
    /\ UNCHANGED <<uart, device, ref, rx_sem, notice, ring, silent, missed, shell>>

RingPut == IF ring < RingMax THEN ring + 1 ELSE ring

\* One byte of process_rx(): "opt" is WILL, WONT, DO or DONT.  A doubled IAC
\* is a byte without a read_notice; a byte too many leaves a notice behind.
Byte(b) ==
    /\ tn.at \in {"recv", "bytes"}
    /\ IF tn.state = "IAC"
       THEN /\ b = "iac" => silent < SilentMax
            /\ ring' = IF b = "iac" THEN RingPut ELSE ring
            /\ silent' = IF b = "iac" THEN silent + 1 ELSE silent
            /\ tn' = [tn EXCEPT !.at = "bytes", !.state = IF b = "opt" THEN "OPT" ELSE "NORMAL"]
            /\ UNCHANGED notice
       ELSE IF tn.state = "OPT" \/ b \in {"iac", "cr"}
       THEN /\ tn' = [tn EXCEPT !.at = "bytes",
                                !.state = IF @ = "NORMAL" /\ b = "iac" THEN "IAC" ELSE "NORMAL"]
            /\ UNCHANGED <<ring, silent, notice>>
       ELSE /\ notice < CountMax
            /\ ring' = RingPut /\ notice' = notice + 1
            /\ TnGoto("bytes")
            /\ UNCHANGED silent
    /\ UNCHANGED <<uart, device, ref, rx_ind, rx_sem, missed, shell>>

\* The end of process_rx(): rx_indicate when there is data.
Indicate ==
    /\ tn.at = "bytes"
    /\ IF ring > 0 /\ rx_ind["telnet"]
       THEN rx_sem < CountMax /\ rx_sem' = rx_sem + 1
       ELSE UNCHANGED rx_sem
    /\ TnGoto("recv")
    /\ UNCHANGED <<uart, device, ref, rx_ind, notice, ring, silent, missed, shell>>

\* The connection is over: client_close().
Hangup ==
    /\ tn.at = "recv"
    /\ tn' = [at |-> "con_close", state |-> "NORMAL", to |-> "uart"]
    /\ UNCHANGED <<uart, device, ref, rx_ind, rx_sem, notice, ring, silent, missed, shell>>

TelnetStep ==
    /\ ShellWaits
    /\ \/ Accept \/ SetDeviceRefs \/ Mute \/ Switch \/ Listen \/ Indicate \/ Hangup
       \/ \E b \in {"iac", "opt", "cr", "char"} : Byte(b)

Next == Key \/ UartInterrupt \/ ShellStep \/ TelnetStep

Spec == Init /\ [][Next]_vars

(***************************************************************************)
(* Properties.                                                             *)
(***************************************************************************)

\* Between sessions, a shell that sleeps in finsh_getchar() can be woken by the
\* UART: its interrupt is on and told to call the shell, however sessions came
\* and went while the shell was reading or working.  The exception is a shell
\* that comes out of a command between the closing of the UART and the switch.
UartHeard ==
    tn.at = "accept" /\ shell = "sem_take" /\ rx_sem = 0 /\ ~missed =>
        rx_ind["uart"] /\ uart.ier

\* Every byte in telnet's ring has a read_notice that will fetch it, but for
\* the doubled IACs (telnetd.c:133), each of which leaves the shell one byte
\* behind for good.
BytesNoticed == ring <= notice + silent + (IF shell = "telnet_get" THEN 1 ELSE 0)

\* The two users of a device, console and shell, keep its count of openings
\* through every order of switching; it is never closed under the one that is
\* left, nor left open.
OpensBalanced ==
    /\ tn.at = "accept" => ref = [d \in Devices |-> IF d = "uart" THEN 2 ELSE 0]
    /\ tn.at \in {"recv", "bytes"} => ref = [d \in Devices |-> IF d = "telnet" THEN 2 ELSE 0]
    /\ shell \in {"telnet_take", "telnet_get"} /\ tn.at = "recv" => device = "telnet"

\* What client_close() prints: "telnet: resume console".  Once a session is
\* over, a waiting shell is one that the UART can wake.
ConsoleResumed ==
    tn.at = "accept" /\ ShellWaits /\ shell # "work" =>
        shell = "sem_take" /\ rx_ind["uart"] /\ uart.ier

=============================================================================
