------------------------------ MODULE Sockets -------------------------------
(***************************************************************************)
(* The sockets of lwIP between the stack and the web server: the mailboxes *)
(* of the netconns (api_msg.c, api_lib.c), the event counters and select() *)
(* (sockets.c) and the loop of webnet_thread() over its sessions.          *)
(*                                                                         *)
(* Three threads.  The stack posts connections, data, FINs and errors and  *)
(* then reports them with event_callback(), all under the core lock.  The  *)
(* web server selects over the listening socket and the sockets of its     *)
(* sessions for reading, accepts, reads and closes.  Another thread opens  *)
(* and closes a datagram socket, as the TFTP client does.                  *)
(*                                                                         *)
(* A step is what runs under SYS_ARCH_PROTECT or, for what the web server  *)
(* asks of the stack, one holding of the core lock.  The sockets are       *)
(* blocking, and select() has no timeout.  What the server sends, and      *)
(* select()'s write set, are left out; memory for a request is there, and  *)
(* tcp_close() finds a segment for its FIN.                                *)
(***************************************************************************)
EXTENDS Integers, Sequences, FiniteSets, SequencesExt

CONSTANTS
    Conns,      \* the netconns the stack can allocate for connections
    Slots,      \* NUM_SOCKETS less the listening socket
    MboxSize,   \* DEFAULT_ACCEPTMBOX_SIZE and DEFAULT_TCP_RECVMBOX_SIZE
    SentMax     \* bound: units of data a peer sends on a connection

VARIABLES
    conn,       \* the netconns, the listening and the datagram one included
    sock,       \* sockets[]
    scb,        \* the web server's entry of select_cb_list
    job,        \* what the holder of the core lock has left to do
    web,        \* where webnet_thread() is
    sessions,   \* sockets of _session_list
    other       \* the other thread: "out", "open" or "delete"

vars == <<conn, sock, scb, job, web, sessions, other>>

Listen == "listen"
Datagram == "datagram"
None == "none"
\* What a mailbox holds besides netconns and data: the addresses of
\* netconn_aborted, netconn_closed and netconn_reset.
Aborted == "aborted"
Fin == <<-1>>
Reset == <<-2>>

Socks == 0 .. Slots
NoCheck == [sock |-> -1, ready |-> FALSE]
Idle == job.todo = <<>> /\ job.check = NoCheck

\* netconn_alloc: no socket yet, which -1 stands for.  sent, eof and got tell
\* what the peer has sent and the web server has read.
Fresh == [used |-> TRUE, socket |-> -1, mbox |-> <<>>, pcb |-> TRUE, err |-> FALSE,
          closed |-> FALSE, fin |-> FALSE, sent |-> 0, eof |-> FALSE, got |-> 0]
Free == [Fresh EXCEPT !.used = FALSE, !.pcb = FALSE]

\* alloc_socket: the counters start from 0.  select_waiting is not touched,
\* nor is it ever left above 0.  stray counts the events that came from a
\* netconn other than the socket's own.
Allocated(c) == [conn |-> c, rcvevent |-> 0, waiting |-> 0, lastdata |-> <<>>, stray |-> 0]
Unused == Allocated(None)

\* The descriptors webnet_thread() selects for reading, in ascending order.
Fds(list) == SetToSortSeq({0} \cup ToSet(list), <)

At(pc) == [pc |-> pc, left |-> <<>>, ready |-> {}, mode |-> None, cur |-> 0, msg |-> None,
           n |-> 0, dontblock |-> FALSE]
Loop(list) == [At("scan1") EXCEPT !.left = Fds(list)]

\* The web server listens, and nobody has connected.
Init ==
    /\ conn = [c \in Conns |-> Free] @@ (Listen :> [Fresh EXCEPT !.socket = 0])
              @@ (Datagram :> Free)
    /\ sock = [s \in Socks |-> IF s = 0 THEN Allocated(Listen) ELSE Unused]
    /\ scb = [linked |-> FALSE, signalled |-> FALSE, sem |-> 0]
    /\ job = [todo |-> <<>>, check |-> NoCheck]
    /\ sessions = <<>>
    /\ web = Loop(<<>>)
    /\ other = "out"

(***************************************************************************)
(* event_callback() and select_check_waiters()                             *)
(***************************************************************************)
\* What event_callback(c, evt) leaves behind.  A netconn without a socket
\* counts what it received below -1; one whose socket is closed is ignored.
\* The waiters are checked when somebody selects the socket and the event
\* can have made it ready.
EventCallback(c, evt) ==
    LET s == conn[c].socket
        n == sock[s].rcvevent + (CASE evt = "plus" -> 1 [] evt = "minus" -> -1 [] OTHER -> 0)
        foreign == IF sock[s].conn # c THEN 1 ELSE 0
        wakes == evt = "error" \/ (evt = "plus" /\ n <= 1)
    IN  CASE s < 0 ->
               [conn |-> [conn EXCEPT ![c].socket = IF evt = "plus" THEN @ - 1 ELSE @],
                sock |-> sock, check |-> NoCheck]
          [] s >= 0 /\ sock[s].conn = None ->
               [conn |-> conn, sock |-> sock, check |-> NoCheck]
          [] OTHER ->
               [conn |-> conn,
                sock |-> [sock EXCEPT ![s].rcvevent = n, ![s].stray = @ + foreign],
                check |-> IF sock[s].waiting > 0 /\ wakes
                            THEN [sock |-> s, ready |-> n > 0] ELSE NoCheck]

\* The holder of the core lock reports its next event.
JobEvent ==
    /\ job.check = NoCheck
    /\ job.todo # <<>>
    /\ LET c == Head(job.todo)[2]  evt == Head(job.todo)[1]
       IN  /\ evt \in {"plus", "error"}
           /\ \E after \in {EventCallback(c, evt)} :
                /\ conn' = after.conn
                /\ sock' = after.sock
                /\ job' = [todo |-> Tail(job.todo), check |-> after.check]
    /\ UNCHANGED <<scb, web, sessions, other>>

\* select_check_waiters: the only waiter there can be is the web server,
\* which is signalled once.
SelectCheckWaiters ==
    /\ job.check # NoCheck
    /\ scb' = IF scb.linked /\ ~scb.signalled /\ job.check.ready
                   /\ job.check.sock \in {0} \cup ToSet(sessions)
                THEN [scb EXCEPT !.signalled = TRUE, !.sem = @ + 1]
                ELSE scb
    /\ job' = [job EXCEPT !.check = NoCheck]
    /\ UNCHANGED <<conn, sock, web, sessions, other>>

(***************************************************************************)
(* The stack                                                               *)
(***************************************************************************)
Post(c, msg) == conn' = [conn EXCEPT ![c].mbox = Append(@, msg)]
Report(events) == job' = [job EXCEPT !.todo = events]

\* accept_function: a new netconn for the connection, or the news that there
\* is none to be had.  With the mailbox full the connection is given up.
AcceptFunction ==
    /\ Idle
    /\ Len(conn[Listen].mbox) < MboxSize
    /\ \/ \E c \in Conns :
            /\ ~conn[c].used
            /\ conn' = [conn EXCEPT ![c] = Fresh, ![Listen].mbox = Append(@, c)]
       \/ Post(Listen, Aborted)
    /\ Report(<<<<"plus", Listen>>>>)
    /\ UNCHANGED <<sock, scb, web, sessions, other>>

\* recv_tcp: data, or the FIN after the last of it.  What finds the mailbox
\* full is presented again later.
RecvTcp(c) ==
    /\ Idle
    /\ conn[c].pcb /\ ~conn[c].eof
    /\ Len(conn[c].mbox) < MboxSize
    /\ \/ /\ conn[c].sent < SentMax
          /\ LET n == conn[c].sent
             IN  conn' = [conn EXCEPT ![c].mbox = Append(@, <<n + 1, n + 2>>),
                                      ![c].sent = n + 2]
       \/ conn' = [conn EXCEPT ![c].mbox = Append(@, Fin), ![c].eof = TRUE]
    /\ Report(<<<<"plus", c>>>>)
    /\ UNCHANGED <<sock, scb, web, sessions, other>>

\* A mutant of ErrTcp: the netconn is not marked as closed.
ErrTcpUnmarked(c) ==
    /\ Idle
    /\ conn[c].pcb
    /\ conn' = [conn EXCEPT ![c].pcb = FALSE]
    /\ Report(<<<<"error", c>>, <<"plus", c>>, <<"post", c>>>>)
    /\ UNCHANGED <<sock, scb, web, sessions, other>>

\* err_tcp: the connection is gone.  The netconn is marked before anybody is
\* told, and the mailbox gets the news last.
ErrTcp(c) ==
    /\ Idle
    /\ conn[c].pcb
    /\ conn' = [conn EXCEPT ![c].pcb = FALSE, ![c].err = TRUE, ![c].closed = TRUE]
    /\ Report(<<<<"error", c>>, <<"plus", c>>, <<"post", c>>>>)
    /\ UNCHANGED <<sock, scb, web, sessions, other>>

\* The end of err_tcp.
ErrPost ==
    /\ job.check = NoCheck
    /\ job.todo # <<>> /\ Head(job.todo)[1] = "post"
    /\ LET c == Head(job.todo)[2]
       IN  IF Len(conn[c].mbox) < MboxSize THEN Post(c, Reset) ELSE UNCHANGED conn
    /\ Report(Tail(job.todo))
    /\ UNCHANGED <<sock, scb, web, sessions, other>>

(***************************************************************************)
(* The web server: lwip_select()                                           *)
(***************************************************************************)
Handle(ready, list) ==
    LET todo == SelectSeq(list, LAMBDA s : s \in ready)
    IN  IF todo = <<>> THEN Loop(list) ELSE [At("read") EXCEPT !.left = todo]

Serve(ready) ==
    IF 0 \in ready THEN [At("create") EXCEPT !.ready = ready] ELSE Handle(ready, sessions)

\* Where lwip_select() goes from a scan that found ready: it returns, gets
\* into the list and scans again, or sleeps.
AfterScan(ready) ==
    CASE web.pc = "scan1" -> IF ready = {} THEN At("link") ELSE Serve(ready)
      [] web.pc = "scan2" -> IF ready = {} THEN At("wait")
                             ELSE [At("dec") EXCEPT !.left = Fds(sessions)]
      [] web.pc = "scan3" -> IF ready = {} THEN Loop(sessions) ELSE Serve(ready)

\* lwip_selscan, one socket at a time.
Selscan ==
    /\ web.pc \in {"scan1", "scan2", "scan3"}
    /\ LET s == Head(web.left)
           readable == sock[s].lastdata # <<>> \/ sock[s].rcvevent > 0
           ready == IF readable THEN web.ready \cup {s} ELSE web.ready
       IN  web' = IF Len(web.left) > 1
                    THEN [web EXCEPT !.left = Tail(@), !.ready = ready]
                    ELSE AfterScan(ready)
    /\ UNCHANGED <<conn, sock, scb, job, sessions, other>>

\* lwip_link_select_cb, with a new semaphore.
Link ==
    /\ web.pc = "link"
    /\ Idle
    /\ scb' = [linked |-> TRUE, signalled |-> FALSE, sem |-> 0]
    /\ web' = [At("inc") EXCEPT !.left = Fds(sessions)]
    /\ UNCHANGED <<conn, sock, job, sessions, other>>

\* A mutant of IncWaiting: select() sleeps without a second scan.
IncWaitingSleeps ==
    /\ web.pc = "inc"
    /\ sock' = [sock EXCEPT ![Head(web.left)].waiting = @ + 1]
    /\ web' = IF Len(web.left) > 1 THEN [web EXCEPT !.left = Tail(@)] ELSE At("wait")
    /\ UNCHANGED <<conn, scb, job, sessions, other>>

\* select_waiting++ for each socket; then the second scan.
IncWaiting ==
    /\ web.pc = "inc"
    /\ sock' = [sock EXCEPT ![Head(web.left)].waiting = @ + 1]
    /\ web' = IF Len(web.left) > 1 THEN [web EXCEPT !.left = Tail(@)]
              ELSE [At("scan2") EXCEPT !.left = Fds(sessions)]
    /\ UNCHANGED <<conn, scb, job, sessions, other>>

\* sys_arch_sem_wait returns.
Woken ==
    /\ web.pc = "wait"
    /\ scb.sem > 0
    /\ scb' = [scb EXCEPT !.sem = @ - 1]
    /\ web' = [At("dec") EXCEPT !.left = Fds(sessions)]
    /\ UNCHANGED <<conn, sock, job, sessions, other>>

\* select_waiting-- for each socket.
DecWaiting ==
    /\ web.pc = "dec"
    /\ sock' = [sock EXCEPT ![Head(web.left)].waiting = @ - 1]
    /\ web' = IF Len(web.left) > 1 THEN [web EXCEPT !.left = Tail(@)] ELSE At("unlink")
    /\ UNCHANGED <<conn, scb, job, sessions, other>>

\* lwip_unlink_select_cb and sys_sem_free; then the last scan.
Unlink ==
    /\ web.pc = "unlink"
    /\ Idle
    /\ scb' = [linked |-> FALSE, signalled |-> FALSE, sem |-> 0]
    /\ web' = [At("scan3") EXCEPT !.left = Fds(sessions)]
    /\ UNCHANGED <<conn, sock, job, sessions, other>>

(***************************************************************************)
(* The web server: lwip_accept()                                           *)
(***************************************************************************)
\* webnet_session_create: without memory for a session the connection is
\* accepted and closed.
SessionCreate ==
    /\ web.pc = "create"
    /\ \E mode \in {"session", "refuse"} : web' = [web EXCEPT !.pc = "accept", !.mode = mode]
    /\ UNCHANGED <<conn, sock, scb, job, sessions, other>>

\* After an accept that failed webnet_thread() takes it that there was no
\* memory for the session, and accepts once more.
AcceptFails ==
    IF web.mode = "session"
      THEN [At("accept") EXCEPT !.mode = "refuse", !.ready = web.ready]
      ELSE Handle(web.ready, sessions)

\* netconn_accept: sys_arch_mbox_fetch on the acceptmbox.
AcceptFetch ==
    /\ web.pc = "accept"
    /\ conn[Listen].mbox # <<>>
    /\ web' = [web EXCEPT !.pc = "accepted", !.msg = Head(conn[Listen].mbox)]
    /\ conn' = [conn EXCEPT ![Listen].mbox = Tail(@)]
    /\ UNCHANGED <<sock, scb, job, sessions, other>>

\* RCVMINUS for what was fetched, which may be an error.
Accepted ==
    /\ web.pc = "accepted"
    /\ sock' = EventCallback(Listen, "minus").sock
    /\ web' = IF web.msg = Aborted THEN AcceptFails ELSE [web EXCEPT !.pc = "alloc"]
    /\ UNCHANGED <<conn, scb, job, sessions, other>>

\* alloc_socket: the first slot that is free.  Without one the connection is
\* deleted.
AllocSocket ==
    /\ web.pc = "alloc"
    /\ LET unused == {s \in Socks : sock[s].conn = None}
       IN  IF unused = {}
             THEN web' = [web EXCEPT !.pc = "delete"] /\ UNCHANGED sock
             ELSE \E s \in unused :
                    /\ \A i \in unused : s <= i
                    /\ sock' = [sock EXCEPT ![s] = Allocated(web.msg)]
                    /\ web' = [web EXCEPT !.pc = "adopt", !.cur = s]
    /\ UNCHANGED <<conn, scb, job, sessions, other>>

\* A mutant of Adopt: the events counted before there was a socket are lost.
AdoptForgets ==
    /\ web.pc = "adopt"
    /\ web' = [web EXCEPT !.pc = "replay"]
    /\ conn' = [conn EXCEPT ![web.msg].socket = web.cur]
    /\ UNCHANGED <<sock, scb, job, sessions, other>>

\* The netconn gets its socket, and the events it had counted are kept.
Adopt ==
    /\ web.pc = "adopt"
    /\ web' = [web EXCEPT !.pc = "replay", !.n = -1 - conn[web.msg].socket]
    /\ conn' = [conn EXCEPT ![web.msg].socket = web.cur]
    /\ UNCHANGED <<sock, scb, job, sessions, other>>

\* Those events are reported now, under the core lock.  Nobody selects the
\* socket yet.
Replay ==
    /\ web.pc = "replay"
    /\ Idle
    /\ sock' = [sock EXCEPT ![web.cur].rcvevent = @ + web.n]
    /\ web' = [web EXCEPT !.pc = "peer", !.n = 0]
    /\ UNCHANGED <<conn, scb, job, sessions, other>>

\* netconn_peer: when the connection is gone by now the socket is freed.
\* Otherwise the session gets into the list, or is closed for want of memory.
Peer ==
    /\ web.pc = "peer"
    /\ Idle
    /\ LET s == web.cur
       IN  IF ~conn[web.msg].pcb
             THEN /\ sock' = [sock EXCEPT ![s] = Unused]
                  /\ web' = [web EXCEPT !.pc = "delete", !.cur = 0]
                  /\ UNCHANGED sessions
             ELSE /\ UNCHANGED sock
                  /\ IF web.mode = "session"
                       THEN /\ sessions' = <<s>> \o sessions
                            /\ web' = Handle(web.ready, sessions')
                       ELSE /\ UNCHANGED sessions
                            /\ web' = [web EXCEPT !.pc = "close", !.mode = "refused"]
    /\ UNCHANGED <<conn, scb, job, other>>

(***************************************************************************)
(* The web server: lwip_recv_tcp() and lwip_close()                        *)
(***************************************************************************)
\* webnet_sessions_handle_fds: the next session that is ready is read, into
\* what room its buffer has.
SessionRead ==
    /\ web.pc = "read"
    /\ \E room \in {1, SentMax} :
         web' = [web EXCEPT !.pc = "recv", !.cur = Head(web.left), !.n = room, !.msg = None,
                            !.mode = "empty"]
    /\ UNCHANGED <<conn, sock, scb, job, sessions, other>>

NextSession ==
    IF Len(web.left) > 1 THEN [At("read") EXCEPT !.left = Tail(web.left)] ELSE Loop(sessions)

\* recvfrom returned: nothing or an error closes the session.  Otherwise the
\* request may be complete, which closes it too.
RecvReturns ==
    \/ web' = [web EXCEPT !.pc = "close", !.mode = "served", !.n = 0, !.dontblock = FALSE]
    \/ web.mode = "some" /\ web' = NextSession

\* A mutant of Copy: what does not fit is dropped.
CopyDrops(data) ==
    LET s == web.cur
        k == IF web.n < Len(data) THEN web.n ELSE Len(data)
    IN  /\ sock' = [sock EXCEPT ![s].lastdata = <<>>,
                                ![s].rcvevent = IF web.pc = "got" THEN @ - 1 ELSE @]
        /\ conn' = [conn EXCEPT ![sock[s].conn].got = @ + k]
        /\ web' = [web EXCEPT !.pc = IF k = web.n THEN "returns" ELSE "recv", !.n = @ - k,
                              !.mode = "some", !.msg = None]

\* Copies from data into the caller's room; the rest stays with the socket.
\* Having some, the next round does not wait for more.
Copy(data) ==
    LET s == web.cur
        k == IF web.n < Len(data) THEN web.n ELSE Len(data)
    IN  /\ sock' = [sock EXCEPT ![s].lastdata = SubSeq(data, k + 1, Len(data)),
                                ![s].rcvevent = IF web.pc = "got" THEN @ - 1 ELSE @]
        /\ conn' = [conn EXCEPT ![sock[s].conn].got = @ + k]
        /\ web' = [web EXCEPT !.pc = IF k = web.n THEN "returns" ELSE "recv", !.n = @ - k,
                              !.mode = "some", !.msg = None]

\* The top of the loop: what is left from the last call goes first.  Then
\* netconn_recv_data_tcp: a FIN that was put aside, or the mailbox, on which
\* it does not block once the netconn is marked.
RecvTop ==
    /\ web.pc = "recv"
    /\ LET c == sock[web.cur].conn
       IN  IF sock[web.cur].lastdata # <<>> THEN Copy(sock[web.cur].lastdata)
           ELSE /\ web' = IF conn[c].fin THEN [web EXCEPT !.pc = "fin"]
                          ELSE [web EXCEPT !.pc = "fetch",
                                           !.dontblock = web.mode = "some" \/ conn[c].closed
                                                         \/ conn[c].err]
                /\ conn' = [conn EXCEPT ![c].fin = FALSE]
                /\ UNCHANGED sock
    /\ UNCHANGED <<scb, job, sessions, other>>

\* sys_arch_mbox_fetch or _tryfetch.  A FIN after data is put aside for the
\* next call, with its event still counted.
RecvFetch ==
    /\ web.pc = "fetch"
    /\ LET c == sock[web.cur].conn
           box == conn[c].mbox
           aside == Head(box) = Fin /\ web.mode = "some"
       IN  IF box = <<>>
             THEN /\ web.dontblock
                  /\ conn' = [conn EXCEPT ![c].err = FALSE]
                  /\ web' = [web EXCEPT !.pc = "returns"]
             ELSE /\ conn' = [conn EXCEPT ![c].mbox = Tail(@), ![c].fin = aside]
                  /\ web' = CASE Head(box) = Reset \/ aside -> [web EXCEPT !.pc = "returns"]
                              [] Head(box) = Fin /\ ~aside -> [web EXCEPT !.pc = "fin"]
                              [] OTHER -> [web EXCEPT !.pc = "got", !.msg = Head(box)]
    /\ UNCHANGED <<sock, scb, job, sessions, other>>

\* RCVMINUS for the data fetched, which is then copied.
RecvGot ==
    /\ web.pc = "got"
    /\ Copy(web.msg)
    /\ UNCHANGED <<scb, job, sessions, other>>

\* handle_fin: RCVMINUS, and the receiving side is shut down unless the
\* connection was reset; that drains the mailbox and reports RCVPLUS.
HandleFin ==
    /\ web.pc = "fin"
    /\ Idle
    /\ LET c == sock[web.cur].conn
       IN  IF conn[c].pcb THEN conn' = [conn EXCEPT ![c].mbox = <<>>] /\ UNCHANGED sock
           ELSE /\ sock' = [sock EXCEPT ![web.cur].rcvevent = @ - 1]
                /\ conn' = [conn EXCEPT ![c].err = FALSE]
    /\ web' = [web EXCEPT !.pc = "returns"]
    /\ UNCHANGED <<scb, job, sessions, other>>

Returned ==
    /\ web.pc = "returns"
    /\ RecvReturns
    /\ UNCHANGED <<conn, sock, scb, job, sessions, other>>

\* lwip_close: netconn_prepare_delete, whose events are for the socket itself,
\* then free_socket.  The session leaves the list.
Close ==
    /\ web.pc = "close"
    /\ Idle
    /\ LET c == sock[web.cur].conn
       IN  /\ conn' = [conn EXCEPT ![c].mbox = <<>>, ![c].pcb = FALSE]
           /\ web' = [web EXCEPT !.pc = "delete", !.msg = c]
    /\ sock' = [sock EXCEPT ![web.cur] = Unused]
    /\ sessions' = SelectSeq(sessions, LAMBDA s : s # web.cur)
    /\ UNCHANGED <<scb, job, other>>

\* netconn_delete: lwip_netconn_do_delconn runs, once more after lwip_close,
\* and reports RCVPLUS to the socket number the netconn still has.  Only the
\* web server selects, so there is nobody to wake.
Delete ==
    /\ web.pc = "delete"
    /\ Idle
    /\ \E after \in {EventCallback(web.msg, "plus")} :
         /\ sock' = after.sock
         /\ conn' = [after.conn EXCEPT ![web.msg] = Free]
    /\ web' = CASE web.mode \in {"session", "refuse"} -> AcceptFails
                [] web.mode = "refused" -> Handle(web.ready, sessions)
                [] web.mode = "served" -> NextSession
    /\ UNCHANGED <<scb, job, sessions, other>>

(***************************************************************************)
(* The other thread                                                        *)
(***************************************************************************)
\* socket(AF_INET, SOCK_DGRAM, 0)
OtherOpens ==
    /\ other = "out"
    /\ \E s \in Socks :
         /\ sock[s].conn = None
         /\ \A i \in 0 .. s - 1 : sock[i].conn # None
         /\ sock' = [sock EXCEPT ![s] = Allocated(Datagram)]
         /\ conn' = [conn EXCEPT ![Datagram] = [Fresh EXCEPT !.socket = s]]
    /\ other' = "open"
    /\ UNCHANGED <<scb, job, web, sessions>>

\* closesocket, up to and with free_socket.
OtherCloses ==
    /\ other = "open"
    /\ Idle
    /\ sock' = [sock EXCEPT ![conn[Datagram].socket] = Unused]
    /\ conn' = [conn EXCEPT ![Datagram].pcb = FALSE]
    /\ other' = "delete"
    /\ UNCHANGED <<scb, job, web, sessions>>

\* netconn_delete begins to report RCVPLUS, as Delete does.
OtherDeletes ==
    /\ other = "delete"
    /\ Idle
    /\ conn[Datagram].used
    /\ Report(<<<<"plus", Datagram>>, <<"free", Datagram>>>>)
    /\ UNCHANGED <<conn, sock, scb, web, sessions, other>>

\* netconn_free.
OtherFrees ==
    /\ job.check = NoCheck
    /\ job.todo # <<>> /\ Head(job.todo)[1] = "free"
    /\ conn' = [conn EXCEPT ![Datagram] = Free]
    /\ Report(<<>>)
    /\ other' = "out"
    /\ UNCHANGED <<sock, scb, web, sessions>>

Next ==
    \/ AcceptFunction \/ ErrPost \/ JobEvent \/ SelectCheckWaiters
    \/ \E c \in Conns : RecvTcp(c) \/ ErrTcp(c)
    \/ Selscan \/ Link \/ IncWaiting \/ Woken \/ DecWaiting \/ Unlink
    \/ SessionCreate \/ AcceptFetch \/ Accepted \/ AllocSocket \/ Adopt \/ Replay \/ Peer
    \/ SessionRead \/ RecvTop \/ RecvFetch \/ RecvGot \/ HandleFin \/ Returned
    \/ Close \/ Delete
    \/ OtherOpens \/ OtherCloses \/ OtherDeletes \/ OtherFrees

Spec == Init /\ [][Next]_vars

(***************************************************************************)
(* Properties                                                              *)
(***************************************************************************)
Messages == {Fin, Reset} \cup {<<n, n + 1>> : n \in 1 .. SentMax}

TypeOK ==
    /\ \A c \in Conns : /\ conn[c].socket \in -(SentMax + 4) .. Slots
                        /\ conn[c].mbox \in BoundedSeq(Messages, MboxSize)
    /\ conn[Listen].mbox \in BoundedSeq(Conns \cup {Aborted}, MboxSize)
    /\ \A s \in Socks : /\ sock[s].conn \in DOMAIN conn \cup {None}
                        /\ sock[s].waiting \in {0, 1} /\ sock[s].stray \in {0, 1}
    /\ scb.sem \in {0, 1}
    /\ IsInjective(sessions)

\* Every byte is read once and in order: what a connection has not yet given
\* to the web server is, from lastdata through a message just fetched to the
\* mailbox, what the peer has sent since.
BytesInOrder ==
    \A s \in Socks : sock[s].conn \in Conns =>
        LET c == sock[s].conn
            fetched == IF web.pc = "got" /\ web.cur = s THEN web.msg ELSE <<>>
            data == SelectSeq(conn[c].mbox, LAMBDA m : m \notin {Fin, Reset})
        IN  web.pc # "returns" =>
              sock[s].lastdata \o fetched \o FlattenSeq(data)
                = [i \in 1 .. conn[c].sent - conn[c].got |-> conn[c].got + i]

\* rcvevent counts what waits: when no event is on its way, it is the number
\* of messages in the mailbox, with a FIN put aside, one for the web server
\* to take off and one for an error that found no room.  Events that were
\* counted before the socket existed are not lost.
EventsCounted ==
    Idle => \A s \in Socks : sock[s].conn \in Conns \cup {Listen} =>
        LET c == sock[s].conn
            adopting == c \in Conns /\ web.msg = c /\ web.cur = s
            owed == CASE web.pc = "adopt" /\ adopting -> -1 - conn[c].socket
                      [] web.pc = "replay" /\ adopting -> web.n
                      [] OTHER -> 0
            taken == IF (c = Listen /\ web.pc = "accepted")
                        \/ (web.cur = s /\ web.pc \in {"got", "fin"}) THEN 1 ELSE 0
            waits == Len(conn[c].mbox) + taken + (IF conn[c].fin THEN 1 ELSE 0) + sock[s].stray
        IN  web.pc \notin {"returns", "close"} =>
              sock[s].rcvevent + owed \in waits .. waits + (IF conn[c].closed THEN 1 ELSE 0)

\* The web server sleeps in select() only when there is nothing for it to do:
\* when no event is on its way, no mailbox of its sockets holds a message and
\* no connection of its sessions has been reset.
SleepsOnlyIdle ==
    web.pc = "wait" /\ scb.sem = 0 /\ Idle =>
        \A s \in {0} \cup ToSet(sessions) :
            LET c == sock[s].conn
            IN  conn[c].mbox = <<>> /\ ~conn[c].closed /\ sock[s].lastdata = <<>>

\* What select() called readable does not block: the one thread that serves
\* all sessions waits in recv() only for a socket that a stray event made
\* ready, and in accept() only after an accept that failed.
ReadyIsReadable ==
    /\ web.pc = "fetch" /\ ~web.dontblock =>
          conn[sock[web.cur].conn].mbox # <<>> \/ sock[web.cur].stray > 0
    /\ web.pc = "accept" /\ web.mode = "session" => conn[Listen].mbox # <<>>

=============================================================================
