------------------------------ MODULE Network -------------------------------
(***************************************************************************)
(* The network of the boot loader: the two ethernet threads with their     *)
(* driver, the timeouts, ARP and the receiving side of TCP in the lwIP     *)
(* stack, its sockets under the web server, the parsers of its requests    *)
(* and of what is uploaded to it, the DHCP server and the TFTP client.     *)
(* Each module takes the layer below it as a medium that may lose, repeat  *)
(* or reorder, or cut into pieces, as its own text says, so that they      *)
(* share no state: each behaviour is one of one of them, chosen in the     *)
(* initial state, while the others stay in theirs.                         *)
(*                                                                         *)
(*   part      the layer in use                                            *)
(*   caller .. starved                                                     *)
(*             the variables of Ethernet                                   *)
(*   v1 .. v9  those of the other parts, as the instances name them; the   *)
(*             ones a part has no use for stay 0                           *)
(***************************************************************************)
EXTENDS Integers, Sequences, FiniteSets

CONSTANTS Clients   \* of the DHCP server

VARIABLES part,
          caller, etx, txmb, tx_ack, tx, send_event, erx, rxmb, link, rx, status, arrived,
          input, starved,
          v1, v2, v3, v4, v5, v6, v7, v8, v9

Ethernet == INSTANCE Ethernet WITH Descr <- 2, MboxSize <- 2, ChainMax <- 3, FrameMax <- 3

TcpReceive == INSTANCE TcpReceive WITH
    Stream <- 6, SegMax <- 3, Wnd <- 6, Mss <- 1, Update <- 2, Wrap <- 16, Isn <- 14,
    pcb <- v1, got <- v2, eof <- v3, unread <- v4

Timeouts == INSTANCE Timeouts WITH
    Wrap <- 24, Tcp <- 1, Arp <- 4, MboxSize <- 1, Lag <- 5,
    now <- v1, list <- v2, active <- v3, pcbs <- v4, mbox <- v5, thread <- v6

Etharp == INSTANCE Etharp WITH
    Hosts <- {"a", "b", "c"}, TableSize <- 2, QueueLen <- 2, QueuePool <- 3, MaxAge <- 4,
    MaxPending <- 2, Rerequest <- 1,
    arp_table <- v1, cached <- v2, pool <- v3, sent <- v4

Sockets == INSTANCE Sockets WITH
    Conns <- {"c1"}, Slots <- 1, MboxSize <- 2, SentMax <- 4,
    conn <- v1, sock <- v2, scb <- v3, job <- v4, web <- v5, sessions <- v6, other <- v7

Request == INSTANCE Request WITH
    Size <- 24, HeaderMax <- 3, CutHeader <- FALSE,
    stream <- v1, pos <- v2, buffer <- v3, offset <- v4, at <- v5, lines <- v6, query <- v7,
    pc <- v8, phase <- v9

Upload == INSTANCE Upload WITH
    Size <- 48, Length <- 20, CutAfterCrlf <- FALSE,
    body <- v1, pos <- v2, buf <- v3, at <- v4, up <- v5, written <- v6, pc <- v7

Dhcpd == INSTANCE Dhcpd WITH
    IpMin <- 2, IpMax <- 3, node_list <- v1, current <- v2, cpu <- v3, lease <- v4

Tftp == INSTANCE Tftp WITH
    Blocks <- 4, Repeats <- 3, Losses <- 3, Depth <- 3,
    client <- v1, fd <- v2, socket <- v3, file <- v4, toServer <- v5, toClient <- v6,
    server <- v7, repeats <- v8, losses <- v9

From1 == <<v1, v2, v3, v4, v5, v6, v7, v8, v9>>
From5 == <<v5, v6, v7, v8, v9>>
From7 == <<v7, v8, v9>>
From8 == <<v8, v9>>

EthernetVars == <<caller, etx, txmb, tx_ack, tx, send_event, erx, rxmb, link, rx, status,
                  arrived, input, starved>>

vars == <<part, EthernetVars, From1>>

Zero8 == v8 = 0 /\ v9 = 0
Zero7 == v7 = 0 /\ Zero8
Zero5 == v5 = 0 /\ v6 = 0 /\ Zero7
Zero1 == v1 = 0 /\ v2 = 0 /\ v3 = 0 /\ v4 = 0 /\ Zero5

Parts == {"ethernet", "tcp receive", "timeouts", "arp", "sockets", "request", "upload", "dhcp",
          "tftp"}

Init ==
    /\ Ethernet!Init
    /\ \/ part = "ethernet" /\ Zero1
       \/ part = "tcp receive" /\ TcpReceive!Init /\ Zero5
       \/ part = "timeouts" /\ Timeouts!Init /\ Zero7
       \/ part = "arp" /\ Etharp!Init /\ Zero5
       \/ part = "sockets" /\ Sockets!Init /\ Zero8
       \/ part = "request" /\ Request!Init
       \/ part = "upload" /\ Upload!Init /\ Zero8
       \/ part = "dhcp" /\ Dhcpd!Init /\ Zero5
       \/ part = "tftp" /\ Tftp!Init

UseEthernet == part = "ethernet" /\ Ethernet!Next /\ UNCHANGED <<part, From1>>

UseOther ==
    /\ \/ part = "tcp receive" /\ TcpReceive!Next /\ UNCHANGED From5
       \/ part = "timeouts" /\ Timeouts!Next /\ UNCHANGED From7
       \/ part = "arp" /\ Etharp!Next /\ UNCHANGED From5
       \/ part = "sockets" /\ Sockets!Next /\ UNCHANGED From8
       \/ part = "request" /\ Request!Next
       \/ part = "upload" /\ Upload!Next /\ UNCHANGED From8
       \/ part = "dhcp" /\ Dhcpd!Next /\ UNCHANGED From5
       \/ part = "tftp" /\ Tftp!Next
    /\ UNCHANGED <<part, EthernetVars>>

Next == UseEthernet \/ UseOther

Spec == Init /\ [][Next]_vars /\ Ethernet!Fairness

(***************************************************************************)
(* Properties.                                                             *)
(***************************************************************************)

TypeOK ==
    /\ part \in Parts
    /\ Ethernet!TypeOK
    /\ CASE part = "tcp receive" -> TcpReceive!TypeOK
         [] part = "timeouts" -> Timeouts!TypeOK
         [] part = "arp" -> Etharp!TypeOK
         [] part = "sockets" -> Sockets!TypeOK
         [] part = "request" -> Request!TypeOK
         [] part = "upload" -> Upload!TypeOK
         [] part = "dhcp" -> Dhcpd!TypeOK
         [] part = "tftp" -> Tftp!TypeOK
         [] OTHER -> TRUE


\* Wherever TCP cuts a request into pieces, webnet_request_parse_method(),
\* _header() and _post() find its lines and its body, no more and no less, and
\* the server does not wait for more once the request is read to its end.
RequestUnderstood ==
    part = "request" => Request!Understood /\ Request!AnsweredAtEnd

\* Wherever TCP cuts an upload into pieces, _upload_handle() writes the file
\* without the lines around it, and sees the last of them when it has come.
UploadKept ==
    part = "upload" => Upload!AllIsData /\ Upload!EndNoticed

\* Tables and queues have values of their types and keep their order: no host
\* has two ARP entries, a packet goes to the host it is meant for, no address
\* has two DHCP nodes, the out-of-order queue of TCP is sorted, without
\* overlap and inside the window, and the event counter of a socket agrees
\* with its mailbox.
TablesConsistent ==
    /\ TypeOK
    /\ part = "tcp receive" => TcpReceive!QueueOrdered
    /\ part = "arp" => Etharp!SentToItsHost /\ Etharp!TableConsistent
    /\ part = "sockets" => Sockets!EventsCounted
    /\ part = "dhcp" => Dhcpd!NodesDistinct

\* The list of lwIP's timeouts is sorted, has the ARP timer always and TCP's
\* while there are connections, although the clock wraps around; and the
\* tcpip thread does not sleep past one for longer than to the next.
TimeoutsServed ==
    part = "timeouts" => Timeouts!Scheduled /\ Timeouts!ServedInTime


\* ethernetif_linkoutput() returns, whatever the order of full rings and
\* interrupts.
CallsComplete == Ethernet!LinkoutputReturns

=============================================================================
