------------------------------ MODULE Ethernet ------------------------------
(***************************************************************************)
(* The path of a frame between lwIP and the ag71xx MAC: the transmit and   *)
(* receive threads of netif/ethernetif.c, the glue of lwip-eth, the DMA    *)
(* rings of ag71xx_eth.c and its interrupt handler.                        *)
(*                                                                         *)
(* A caller of ethernetif_linkoutput mails a message that lies on its own  *)
(* stack to etx and waits for tx_ack.  Only the tcpip thread transmits, so *)
(* there is one caller at a time.  etx puts every pbuf of the chain into a *)
(* descriptor; when the ring is full it waits for the event that the       *)
(* transmit interrupt sends.  The receive interrupt mails the device to    *)
(* erx, which drains the ring.                                             *)
(*                                                                         *)
(* The threads are interleaved freely, which includes every order their    *)
(* priorities allow.  Mailboxes, the semaphore and the event are used as   *)
(* Mailbox, Semaphore and Event specify them.                              *)
(***************************************************************************)
EXTENDS Naturals, FiniteSets

CONSTANTS
    Descr,      \* CONFIG_TX_DESCR_NUM and CONFIG_RX_DESCR_NUM
    MboxSize,   \* RT_LWIP_ETHTHREAD_MBOX_SIZE
    ChainMax,   \* bound: pbufs in a chain
    FrameMax    \* bound: frames that arrive

VARIABLES
    caller,     \* the thread inside ethernetif_linkoutput: "out" or "ack"
    etx,        \* eth_tx_thread: what it does and the pbufs left to send
    txmb,       \* pbufs of the chain mailed to etx, 0 when the mailbox is empty
    tx_ack,     \* the value of the semaphore
    tx,         \* transmit ring: full descriptors, driver and DMA position
    send_event, \* board_eth_send_event
    erx,        \* eth_rx_thread: "wait", "link", "drain"
    rxmb,       \* mails in eth_rx_thread_mb
    link,       \* link_changed, link_status and the netif's link flag
    rx,         \* receive ring: frames by descriptor, positions, DMA on
    status,     \* pending causes in AG71XX_REG_INT_STATUS
    arrived,    \* frames the MAC has stored
    input,      \* the last frame taken out of the ring
    starved     \* erx stopped draining because pbuf_alloc failed

txVars == <<caller, etx, txmb, tx_ack, tx, send_event>>
rxVars == <<erx, rxmb, link, rx, arrived, input, starved>>
vars == <<txVars, rxVars, status>>

Positions == 0 .. Descr - 1
After(i) == (i + 1) % Descr
None == 0

\* eth_device_init and ag71xx_eth_start have run; the link is down until
\* eth_device_linkchange posts it.
Init ==
    /\ caller = "out"
    /\ etx = [pc |-> "recv", left |-> 0]
    /\ txmb = 0
    /\ tx_ack = 0
    /\ tx = [full |-> {}, cur |-> 0, dma |-> 0]
    /\ send_event = FALSE
    /\ erx = "wait"
    /\ rxmb = 0
    /\ link = [changed |-> FALSE, status |-> FALSE, netif |-> FALSE]
    /\ rx = [frame |-> [i \in Positions |-> None], cur |-> 0, dma |-> 0, on |-> TRUE]
    /\ status = {}
    /\ arrived = 0
    /\ input = 0
    /\ starved = FALSE

(***************************************************************************)
(* Transmission                                                            *)
(***************************************************************************)
\* ethernetif_linkoutput up to the wait: the mailbox holds at most this
\* caller's message, so rt_mb_send succeeds.
Linkoutput ==
    /\ caller = "out"
    /\ caller' = "ack"
    /\ \E n \in 1 .. ChainMax : txmb' = n
    /\ UNCHANGED <<etx, tx_ack, tx, send_event, rxVars, status>>

\* rt_sem_take(&enetif->tx_ack) succeeds and linkoutput returns.
LinkoutputReturn ==
    /\ caller = "ack"
    /\ tx_ack > 0
    /\ tx_ack' = tx_ack - 1
    /\ caller' = "out"
    /\ UNCHANGED <<etx, txmb, tx, send_event, rxVars, status>>

\* eth_tx_thread_entry: rt_mb_recv, then lwip_eth_tx starts on the chain.
TxRecv ==
    /\ etx.pc = "recv"
    /\ txmb > 0
    /\ etx' = [pc |-> "send", left |-> txmb]
    /\ txmb' = 0
    /\ UNCHANGED <<caller, tx_ack, tx, send_event, rxVars, status>>

\* ag71xx_eth_send for one pbuf; -1 sends board_eth_send to the event.
EthSend ==
    /\ etx.pc = "send"
    /\ etx.left > 0
    /\ IF tx.cur \in tx.full
       THEN /\ etx' = [etx EXCEPT !.pc = "room"]
            /\ UNCHANGED tx
       ELSE /\ etx' = [etx EXCEPT !.left = @ - 1]
            /\ tx' = [tx EXCEPT !.full = @ \cup {tx.cur}, !.cur = After(@)]
    /\ UNCHANGED <<caller, txmb, tx_ack, send_event, rxVars, status>>

\* Mutant: the event is cleared before the wait for it begins.
RoomForgets ==
    /\ \/ etx.pc = "room" /\ etx' = [etx EXCEPT !.pc = "armed"]
       \/ etx.pc = "armed" /\ send_event /\ etx' = [etx EXCEPT !.pc = "send"]
    /\ send_event' = FALSE
    /\ UNCHANGED <<caller, txmb, tx_ack, tx, rxVars, status>>

\* board_eth_send: rt_event_recv with OR and CLEAR returns, and the send is
\* tried again.
Room ==
    /\ etx.pc = "room"
    /\ send_event
    /\ send_event' = FALSE
    /\ etx' = [etx EXCEPT !.pc = "send"]
    /\ UNCHANGED <<caller, txmb, tx_ack, tx, rxVars, status>>

\* The chain is sent: eth_tx_thread_entry releases tx_ack.
TxAck ==
    /\ etx = [pc |-> "send", left |-> 0]
    /\ etx' = [pc |-> "recv", left |-> 0]
    /\ tx_ack' = tx_ack + 1
    /\ UNCHANGED <<caller, txmb, tx, send_event, rxVars, status>>

\* The MAC sends the frame at its position, gives the descriptor back and
\* raises the transmit cause.
MacSends ==
    /\ tx.dma \in tx.full
    /\ tx' = [tx EXCEPT !.full = @ \ {tx.dma}, !.dma = After(@)]
    /\ status' = status \cup {"TX"}
    /\ UNCHANGED <<caller, etx, txmb, tx_ack, send_event, rxVars>>

(***************************************************************************)
(* Reception                                                               *)
(***************************************************************************)
\* A frame reaches the MAC: it is stored when the descriptor at the DMA's
\* position is empty; otherwise it is lost and the receiver stops.
MacReceives ==
    /\ rx.on
    /\ arrived < FrameMax
    /\ IF rx.frame[rx.dma] = None
       THEN /\ arrived' = arrived + 1
            /\ rx' = [rx EXCEPT !.frame[rx.dma] = arrived + 1, !.dma = After(@)]
       ELSE /\ rx' = [rx EXCEPT !.on = FALSE]
            /\ UNCHANGED arrived
    /\ status' = status \cup {"RX"}
    /\ UNCHANGED <<txVars, erx, rxmb, link, input, starved>>

Mailed == IF rxmb < MboxSize THEN rxmb + 1 ELSE rxmb


\* ag71xx_eth_irq_handler: it acknowledges the causes, then calls
\* board_eth_send_active and eth_device_ready, whose mail is dropped when
\* the mailbox is full.
Irq ==
    /\ status # {}
    /\ status' = {}
    /\ send_event' = (send_event \/ "TX" \in status)
    /\ rxmb' = IF "RX" \in status THEN Mailed ELSE rxmb
    /\ UNCHANGED <<caller, etx, txmb, tx_ack, tx, erx, link, rx, arrived, input, starved>>

\* eth_device_linkchange.
Linkchange(up) ==
    /\ link.status # up
    /\ link' = [link EXCEPT !.changed = TRUE, !.status = up]
    /\ rxmb' = Mailed
    /\ UNCHANGED <<txVars, erx, rx, arrived, input, starved, status>>

\* eth_rx_thread_entry: rt_mb_recv and the look at link_changed.
RxRecv ==
    /\ erx = "wait"
    /\ rxmb > 0
    /\ rxmb' = rxmb - 1
    /\ erx' = IF link.changed THEN "link" ELSE "drain"
    /\ UNCHANGED <<txVars, link, rx, arrived, input, starved, status>>

\* The status is read and link_changed cleared in one critical section; the
\* netif is then told through netifapi.
RxLink ==
    /\ erx = "link"
    /\ link' = [link EXCEPT !.changed = FALSE, !.netif = link.status]
    /\ erx' = "drain"
    /\ UNCHANGED <<txVars, rxmb, rx, arrived, input, starved, status>>

\* Mutant: the descriptor is not given back.
FreeForgets(r) == [r EXCEPT !.cur = After(@), !.on = TRUE]

\* ag71xx_eth_free_pkt.
ag71xx_eth_free_pkt(r) ==
    [r EXCEPT !.frame[r.cur] = None, !.cur = After(@), !.on = TRUE]

\* lwip_eth_rx: board_eth_recv copies the frame and frees the descriptor
\* before pbuf_alloc is tried; without a pbuf the frame is lost and the
\* NULL ends the loop of eth_rx_thread_entry.  tcpip_input may refuse the
\* pbuf, which is then freed; either way the loop goes on.
Drain ==
    /\ erx = "drain"
    /\ IF rx.frame[rx.cur] = None
       THEN /\ erx' = "wait"
            /\ starved' = FALSE
            /\ UNCHANGED <<rx, input>>
       ELSE /\ input' = rx.frame[rx.cur]
            /\ rx' = ag71xx_eth_free_pkt(rx)
            /\ \/ UNCHANGED <<erx, starved>>
               \/ erx' = "wait" /\ starved' = TRUE
    /\ UNCHANGED <<txVars, rxmb, link, arrived, status>>

Next ==
    \/ Linkoutput \/ LinkoutputReturn
    \/ TxRecv \/ EthSend \/ Room \/ TxAck
    \/ MacSends \/ MacReceives \/ Irq
    \/ \E up \in BOOLEAN : Linkchange(up)
    \/ RxRecv \/ RxLink \/ Drain

\* The MAC sends what it is given, interrupts are taken, and the transmit
\* thread and its caller run when they can.
Fairness ==
    /\ WF_vars(LinkoutputReturn) /\ WF_vars(TxRecv) /\ WF_vars(EthSend)
    /\ WF_vars(Room) /\ WF_vars(TxAck) /\ WF_vars(MacSends) /\ WF_vars(Irq)

Spec == Init /\ [][Next]_vars /\ Fairness

-----------------------------------------------------------------------------
\* The ranges of the variables.
TypeOK ==
    /\ caller \in {"out", "ack"}
    /\ etx \in [pc : {"recv", "send", "room", "armed"}, left : 0 .. ChainMax]
    /\ txmb \in 0 .. ChainMax
    /\ tx_ack \in 0 .. 1
    /\ tx.full \subseteq Positions
    /\ erx \in {"wait", "link", "drain"}
    /\ rxmb \in 0 .. MboxSize
    /\ rx.frame \in [Positions -> 0 .. FrameMax]
    /\ status \subseteq {"TX", "RX"}

\* ethernetif_linkoutput returns: whatever the order of full rings,
\* interrupts, cleared events and acknowledgements, every chain is put on
\* the ring and its caller is released from the wait for tx_ack.
LinkoutputReturns == caller = "ack" ~> caller = "out"

\* The message etx works from lies on the caller's stack: as long as it is
\* in the mailbox or in use the caller is still inside ethernetif_linkoutput
\* and has no acknowledgement to take.
MessageAlive ==
    (txmb > 0 \/ etx.pc # "recv") => caller = "ack" /\ tx_ack = 0

\* When erx sleeps on an empty mailbox nothing is left for it: the frame at
\* its position, if there is one, has an interrupt pending, and a changed
\* link has been passed on.  Ending the loop without a pbuf is the
\* exception (see ReceivesAll).
FramesNoticed ==
    erx = "wait" /\ rxmb = 0 =>
        /\ rx.frame[rx.cur] # None => "RX" \in status \/ starved
        /\ ~link.changed /\ link.netif = link.status

\* The driver and the DMA agree on the ring: from the driver's position on
\* the frames lie in the order they came, without a gap, right behind the
\* last one taken.
FramesInOrder ==
    \A n \in 0 .. Descr - 1 :
        LET f == rx.frame[(rx.cur + n) % Descr]
        IN  IF n < arrived - input THEN f = input + n + 1 ELSE f = None

\* "receive all of buffer" (ethernetif.c): when erx goes back to sleep with
\* no mail and no interrupt pending, the ring is empty.
ReceivesAll ==
    erx = "wait" /\ rxmb = 0 /\ "RX" \notin status => rx.frame[rx.cur] = None
=============================================================================
