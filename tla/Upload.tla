------------------------------- MODULE Upload -------------------------------
(***************************************************************************)
(* How the web server takes the file out of an upload: the multipart       *)
(* parser of webnet/module/wn_module_upload.c over the buffer of a         *)
(* session.  A form arrives in pieces of any size, so that boundaries and  *)
(* headers are cut anywhere.                                               *)
(*                                                                         *)
(*   body      what the client sends: a sequence of symbols                *)
(*   pos       how much of it was read                                     *)
(*   buf       session->buffer, the buffer_offset (between calls) or       *)
(*             length (in a call) bytes that count                         *)
(*   at        upload_buffer - session->buffer                             *)
(*   up        of the upload session: file (filename and content_type are  *)
(*             set), opened (file_opened); closing: WEB_PHASE_CLOSE        *)
(*   written   what upload_write() was given                               *)
(*   pc        wait (for select), loop (in the handler), closed, fault (a  *)
(*             header was parsed of which the end had not come)            *)
(*                                                                         *)
(* "-" stands for two dashes and "-", "b" for the boundary; "F" and "N"    *)
(* stand for the header lines of a file and of another field.              *)
(***************************************************************************)
EXTENDS Integers, Sequences, FiniteSets, SequencesExt

CONSTANTS
    Size,           \* WEBNET_SESSION_BUFSZ
    Length,         \* length of the file that is uploaded
    CutAfterCrlf    \* may a piece end between the CR LF and the rest of a boundary?

VARIABLES body, pos, buf, at, up, written, pc

vars == <<body, pos, buf, at, up, written, pc>>

CrLf == <<"CR", "LF">>
Boundary == <<"-", "b">>
FIRST_BOUNDARY == Boundary \o CrLf
NORMAL_BOUNDARY == CrLf \o Boundary \o CrLf
COMMON_BOUNDARY == CrLf \o Boundary
LAST_BOUNDARY == CrLf \o Boundary \o <<"-">> \o CrLf

(***************************************************************************)
(* What clients send (external): a file, with or without a field before or *)
(* after it.  The boundary is not part of the file, pieces of it are.      *)
(***************************************************************************)
Pieces == {<<>>, <<"CR">>, CrLf, CrLf \o <<"-">>, <<"CR", "-">>, CrLf \o CrLf, <<"-", "x", "b">>}
Xs(n) == [i \in 1 .. n |-> "x"]
Files ==
    {<<>>} \cup UNION {{Xs(i) \o p \o Xs(Length - i - Len(p)) : i \in 0 .. Length - Len(p)} : p \in Pieces}
HeaderOf(line) == <<line>> \o CrLf \o CrLf
Bodies ==
    {FIRST_BOUNDARY \o HeaderOf("F") \o f \o LAST_BOUNDARY : f \in Files}
    \cup {FIRST_BOUNDARY \o HeaderOf("N") \o <<"x">> \o NORMAL_BOUNDARY \o HeaderOf("F")
            \o Xs(Length) \o LAST_BOUNDARY,
          FIRST_BOUNDARY \o HeaderOf("F") \o Xs(Length) \o NORMAL_BOUNDARY \o HeaderOf("N")
            \o <<"x">> \o LAST_BOUNDARY}

\* 1-based positions at which s occurs in t.
Occurs(s, t) == {i \in 1 .. Len(t) - Len(s) + 1 : SubSeq(t, i, i + Len(s) - 1) = s}

\* May the body be cut after its first n symbols?
MayCut(n) == CutAfterCrlf \/ n - 1 \notin Occurs(COMMON_BOUNDARY, body)

\* The request header is parsed, and what came with it is in the buffer.
Init ==
    /\ body \in Bodies
    /\ pos \in {n \in 0 .. Size - 1 : n <= Len(body) /\ MayCut(n)}
    /\ buf = SubSeq(body, 1, pos)
    /\ at = 0
    /\ up = [file |-> FALSE, opened |-> FALSE, closing |-> FALSE]
    /\ written = <<>>
    /\ pc = "wait"

(***************************************************************************)
(* _webnet_module_upload_handle()                                          *)
(***************************************************************************)
\* The handler has returned; webnet_sessions_handle_fds() closes the session
\* if it is to be, and _webnet_module_upload_close() the file.
Return(u) ==
    /\ up' = IF u.closing THEN [u EXCEPT !.opened = FALSE] ELSE u
    /\ pc' = IF u.closing THEN "closed" ELSE "wait"

\* A piece of the body is read behind what is left in the buffer.
Read ==
    /\ pc = "wait"
    /\ Occurs(LAST_BOUNDARY, buf) = {}
    /\ \E n \in 1 .. Size - Len(buf) - 1 :
         /\ pos + n <= Len(body)
         /\ MayCut(pos + n)
         /\ buf' = buf \o SubSeq(body, pos + 1, pos + n)
         /\ pos' = pos + n
    /\ at' = 0
    /\ pc' = "loop"
    /\ UNCHANGED <<body, up, written>>

\* Nothing is read when the end is in the buffer.
NoRead ==
    /\ pc = "wait"
    /\ Occurs(LAST_BOUNDARY, buf) # {}
    /\ at' = 0
    /\ pc' = "loop"
    /\ UNCHANGED <<body, pos, buf, up, written>>

\* The connection broke: what is in the buffer is parsed once more.
ReadFails ==
    /\ pc = "wait"
    /\ Occurs(LAST_BOUNDARY, buf) = {}
    /\ IF buf = <<>> THEN Return([up EXCEPT !.closing = TRUE])
       ELSE up' = [up EXCEPT !.closing = TRUE] /\ pc' = "loop"
    /\ at' = 0
    /\ UNCHANGED <<body, pos, buf, written>>

rest == SubSeq(buf, at + 1, Len(buf))

\* A mutant of NextPossibleBoundary: a boundary that is cut is not looked for.
NextWholeBoundary(s) ==
    LET whole == Occurs(COMMON_BOUNDARY, s)
    IN  IF whole # {} THEN (CHOOSE i \in whole : \A j \in whole : i <= j) - 1 ELSE Len(s)

\* _next_possible_boundary: how much of s comes before the first boundary, or
\* before what may be the beginning of one that is cut.  A CR LF at the very
\* end is not taken for one.
NextPossibleBoundary(s) ==
    LET whole == Occurs(COMMON_BOUNDARY, s)
        crs == {i \in 2 .. Len(s) : s[i] = "CR"}
        last == CHOOSE i \in crs : \A j \in crs : j <= i
        tail == SubSeq(s, last + 2, Len(s))
    IN  CASE whole # {} -> (CHOOSE i \in whole : \A j \in whole : i <= j) - 1
          [] whole = {} /\ crs # {} /\ (last = Len(s) \/ (tail # <<>> /\ IsPrefix(tail, Boundary)))
               -> last - 1
          [] OTHER -> Len(s)

\* _handle_section: the data goes to the file; the value of another field is
\* of no consequence.
HandleSection(u, from) ==
    LET s == SubSeq(buf, from + 1, Len(buf))
        n == NextPossibleBoundary(s)
    IN  /\ written' = IF u.file THEN written \o SubSeq(s, 1, n) ELSE written
        /\ at' = from + n

\* The end of the body: upload_done, and the session is to be closed.
Done ==
    /\ pc = "loop"
    /\ IsPrefix(LAST_BOUNDARY, rest)
    /\ Return([up EXCEPT !.closing = TRUE])
    /\ UNCHANGED <<body, pos, buf, at, written>>

\* Too little to go on with: it is moved to the front of the buffer.
ReadMore ==
    /\ pc = "loop"
    /\ rest # <<>>
    /\ Len(rest) < Size \div 3
    /\ Occurs(LAST_BOUNDARY, rest) = {}
    /\ buf' = rest
    /\ at' = 0
    /\ Return(up)
    /\ UNCHANGED <<body, pos, written>>

Enough == pc = "loop" /\ ~IsPrefix(LAST_BOUNDARY, rest) /\ rest # <<>>
          /\ (Len(rest) >= Size \div 3 \/ Occurs(LAST_BOUNDARY, rest) # {})

Begins(s) == IF IsPrefix(NORMAL_BOUNDARY, s) THEN Len(NORMAL_BOUNDARY)
             ELSE IF IsPrefix(FIRST_BOUNDARY, s) THEN Len(FIRST_BOUNDARY) ELSE 0

\* _webnet_module_upload_parse_header: a boundary, the header after it, and
\* the file is opened or closed as the header says.  Then the data.
Header ==
    /\ Enough
    /\ Begins(rest) > 0
    /\ LET lines == SubSeq(rest, Begins(rest) + 1, Len(rest))
           file == lines # <<>> /\ Head(lines) = "F"
           u == [up EXCEPT !.file = file, !.opened = file]
       IN  IF \E line \in {"F", "N"} : IsPrefix(HeaderOf(line), lines)
             THEN /\ HandleSection(u, at + Begins(rest) + Len(HeaderOf("F")))
                  /\ up' = u
                  /\ pc' = pc
             ELSE pc' = "fault" /\ UNCHANGED <<at, up, written>>
    /\ UNCHANGED <<body, pos, buf>>

\* No boundary: data.
Data ==
    /\ Enough
    /\ Begins(rest) = 0
    /\ HandleSection(up, at)
    /\ UNCHANGED <<body, pos, buf, up, pc>>

\* The buffer is used up.
EndOfBuffer ==
    /\ pc = "loop"
    /\ rest = <<>>
    /\ buf' = <<>>
    /\ at' = 0
    /\ Return(up)
    /\ UNCHANGED <<body, pos, written>>

Next == Read \/ NoRead \/ ReadFails \/ Done \/ ReadMore \/ Header \/ Data \/ EndOfBuffer

Spec == Init /\ [][Next]_vars

(***************************************************************************)
(* Properties                                                              *)
(***************************************************************************)
TypeOK ==
    /\ pos \in 0 .. Len(body)
    /\ Len(buf) < Size /\ at \in 0 .. Len(buf)
    /\ up \in [file : BOOLEAN, opened : BOOLEAN, closing : BOOLEAN]
    /\ pc \in {"wait", "loop", "closed"}

\* The file in the body.
File ==
    LET start == (CHOOSE i \in 1 .. Len(body) : body[i] = "F") + 5
        after == CHOOSE i \in Occurs(COMMON_BOUNDARY, body) :
                   i >= start /\ \A j \in Occurs(COMMON_BOUNDARY, body) : j >= start => i <= j
    IN  SubSeq(body, start, after - 1)

\* What upload_write() is given is the file that is uploaded, from its
\* beginning on, and nothing of the boundaries, however the body is cut into
\* pieces: what the handler calls "all are the data section" is data.
AllIsData == IsPrefix(written, File)

\* A body that was read to its end has been noticed to end: the handler does
\* not wait for more of it, and nothing of the file is missing.
EndNoticed ==
    /\ pc = "wait" => pos < Len(body) \/ Occurs(LAST_BOUNDARY, buf) # {}
    /\ pc = "closed" /\ pos = Len(body) => written = File

=============================================================================
