-------------------------------- MODULE Tftp --------------------------------
(***************************************************************************)
(* The TFTP client, tftp_start, with the server and the network it talks   *)
(* to (external).  The server sends a block at a time, takes the           *)
(* acknowledgement of that block only and, as the "timeout" option of the  *)
(* read request asks it to, sends the block again when none comes.  The    *)
(* network may lose datagrams and keeps the order of the others.           *)
(*                                                                         *)
(* The client has no timer: lwip_recvfrom waits for ever.  It writes every *)
(* DATA it gets, whatever its number, and acknowledges it.                 *)
(***************************************************************************)
EXTENDS Naturals, Sequences, SequencesExt

CONSTANTS
    Blocks,     \* blocks of the remote file; the last one is short
    Repeats,    \* bound: DATA sent again
    Losses,     \* bound: datagrams lost
    Depth       \* bound: datagrams on their way in one direction

VARIABLES
    client,     \* "off", "recv" in the loop, "ok" or "failed" after it
    fd,         \* the output file is open
    socket,     \* the socket is open
    file,       \* the numbers of the blocks written
    toServer,   \* datagrams on their way to the server
    toClient,   \* and to the client
    server,     \* the block the server waits to see acknowledged, or "idle"
    repeats, losses

vars == <<client, fd, socket, file, toServer, toClient, server, repeats, losses>>

Rrq == [op |-> "RRQ", block |-> 0]
Ack(n) == [op |-> "ACK", block |-> n]
Data(n) == [op |-> "DATA", block |-> n]
Oack == [op |-> "OACK", block |-> 0]
Error == [op |-> "ERROR", block |-> 0]

Idle == Blocks + 1

Init ==
    /\ client = "off"
    /\ fd = FALSE
    /\ socket = FALSE
    /\ file = <<>>
    /\ toServer = <<>>
    /\ toClient = <<>>
    /\ server = Idle
    /\ repeats = 0
    /\ losses = 0

\* tftp_start up to the loop.  Without a socket it returns with the file
\* still open.
Start ==
    /\ client = "off"
    /\ fd' = TRUE
    /\ \/ client' = "recv" /\ socket' = TRUE /\ toServer' = <<Rrq>>
       \/ client' = "failed" /\ UNCHANGED <<socket, toServer>>
    /\ UNCHANGED <<file, toClient, server, repeats, losses>>

\* The label OUT.
Out(result) == client' = result /\ fd' = FALSE /\ socket' = FALSE

\* Mutant: a block is taken for the last one when it is full.
IsLastFull(n) == n < Blocks

\* A DATA shorter than a whole block ends the transfer.
IsLast(n) == n = Blocks

\* write(fd, &rec_buf[4], len - 4).
Written(f, n) == Append(f, n)

\* One pass of the loop: DATA is written and acknowledged, OACK is answered
\* by an acknowledgement of block 0, ERROR ends the transfer.
Receive ==
    /\ client = "recv"
    /\ toClient # <<>>
    /\ LET msg == Head(toClient)
       IN  /\ file' = IF msg.op = "DATA" THEN Written(file, msg.block) ELSE file
           /\ toServer' = IF msg.op = "ERROR" \/ Len(toServer) = Depth
                          THEN toServer ELSE Append(toServer, Ack(msg.block))
           /\ CASE msg.op = "ERROR" -> Out("failed")
                [] msg.op = "DATA" /\ IsLast(msg.block) -> Out("ok")
                [] OTHER -> UNCHANGED <<client, fd, socket>>
    /\ toClient' = Tail(toClient)
    /\ UNCHANGED <<server, repeats, losses>>

\* External: the server takes a datagram.  A read request starts the
\* transfer with the option acknowledgement, or is refused.
ServerTakes ==
    /\ toServer # <<>>
    /\ Len(toClient) < Depth
    /\ toServer' = Tail(toServer)
    /\ LET msg == Head(toServer)
       IN  \/ /\ msg.op = "RRQ"
              /\ \/ server' = 0 /\ toClient' = Append(toClient, Oack)
                 \/ toClient' = Append(toClient, Error) /\ UNCHANGED server
           \/ /\ msg = Ack(server)
              /\ server' = server + 1
              /\ toClient' = IF server < Blocks
                             THEN Append(toClient, Data(server + 1)) ELSE toClient
           \/ /\ msg.op = "ACK" /\ msg # Ack(server)
              /\ UNCHANGED <<server, toClient>>
    /\ UNCHANGED <<client, fd, socket, file, repeats, losses>>

\* External: the server's timer runs out.
ServerRepeats ==
    /\ server # Idle
    /\ repeats < Repeats
    /\ Len(toClient) < Depth
    /\ repeats' = repeats + 1
    /\ toClient' = Append(toClient, IF server = 0 THEN Oack ELSE Data(server))
    /\ UNCHANGED <<client, fd, socket, file, toServer, server, losses>>

\* External: the network loses the next datagram of one direction.
Lose ==
    /\ losses < Losses
    /\ losses' = losses + 1
    /\ \/ toServer # <<>> /\ toServer' = Tail(toServer) /\ UNCHANGED toClient
       \/ toClient # <<>> /\ toClient' = Tail(toClient) /\ UNCHANGED toServer
    /\ UNCHANGED <<client, fd, socket, file, server, repeats>>

\* tftp_start is called again: a new socket, so that nothing on its way for
\* the old one reaches it, and an empty output file.
Again ==
    /\ client \in {"ok", "failed"}
    /\ client' = "off"
    /\ file' = <<>>
    /\ toServer' = <<>>
    /\ toClient' = <<>>
    /\ server' = Idle
    /\ UNCHANGED <<fd, socket, repeats, losses>>

\* lwip_recvfrom waits for a datagram that nobody will send.
WaitsForEver ==
    /\ client = "recv"
    /\ toServer = <<>>
    /\ toClient = <<>>
    /\ UNCHANGED vars

Next ==
    Start \/ Receive \/ ServerTakes \/ ServerRepeats \/ Lose \/ Again \/ WaitsForEver

Spec == Init /\ [][Next]_vars

-----------------------------------------------------------------------------
\* The ranges of the variables.
TypeOK ==
    /\ client \in {"off", "recv", "ok", "failed"}
    /\ file \in Seq(1 .. Blocks)
    /\ server \in 0 .. Idle

\* However datagrams are lost and repeated, the client never skips a block:
\* the blocks it has written are the first ones of the remote file, in an
\* order that never runs ahead, and a transfer that ended without an error
\* has all of them.
NoBlockSkipped ==
    /\ \A i \in DOMAIN file :
           file[i] \in 1 .. (IF i = 1 THEN 1 ELSE file[i - 1] + 1)
    /\ client = "ok" => ToSet(file) = 1 .. Blocks

\* The client asks the server to repeat what is not acknowledged in time
\* ("timeout" in the read request): the file written is still the remote
\* file.
FileIsExact ==
    client = "ok" => file = [i \in 1 .. Blocks |-> i]
=============================================================================
