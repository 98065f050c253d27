------------------------------ MODULE Request -------------------------------
(***************************************************************************)
(* How the web server reads a request: _webnet_session_handle_read() of    *)
(* webnet/wn_session.c with the parsers of webnet/wn_request.c, which work *)
(* on the session's buffer as on a C string.  The buffer is not terminated *)
(* behind what was read; there the symbols of earlier lines are left.      *)
(*                                                                         *)
(*   stream    what the client sends                                       *)
(*   pos       how much of it was read                                     *)
(*   buffer    session->buffer, all of it                                  *)
(*   offset    session->buffer_offset                                      *)
(*   at        request_buffer - buffer + 1 in webnet_request_parse_header()*)
(*   lines     the lines that were understood                              *)
(*   query     request->query, the first query_offset of it                *)
(*   pc        read (waits in select), or the session_phase whose parser   *)
(*             runs next: method, header, query; response                  *)
(*   phase     session_phase                                               *)
(*                                                                         *)
(* "M", " " and "H" stand for method and path, the blank and the protocol, *)
(* "h", "i" for a header line of no consequence, "L", "2" for the one that *)
(* announces a body of two symbols.                                        *)
(***************************************************************************)
EXTENDS Integers, Sequences, FiniteSets, SequencesExt

CONSTANTS Size,         \* WEBNET_SESSION_BUFSZ
          HeaderMax,    \* number of header lines of a request
          CutHeader     \* may the rest of the header be cut where the first
                        \* line was read with a part of it?

VARIABLES stream, pos, buffer, offset, at, lines, query, pc, phase

vars == <<stream, pos, buffer, offset, at, lines, query, pc, phase>>

CrLf == <<"CR", "LF">>
NUL == "NUL"
RequestLine == <<"M", " ", "H">>
ContentLength == <<"L", "2">>
HeaderLines == {<<"h", "i">>, ContentLength}
BodyLen == 2
Bodies == {<<"d", "d">>, CrLf}

(***************************************************************************)
(* What clients send (external).                                           *)
(***************************************************************************)
Announces(hs) == \E i \in 1 .. Len(hs) : hs[i] = ContentLength

Join[n \in 0 .. HeaderMax] ==
    [hs \in [1 .. n -> HeaderLines] |->
        IF n = 0 THEN <<>> ELSE Join[n - 1][SubSeq(hs, 1, n - 1)] \o hs[n] \o CrLf]

Requests ==
    UNION {{[lines |-> <<RequestLine>> \o hs,
             head |-> RequestLine \o CrLf \o Join[n][hs] \o CrLf,
             body |-> b] :
              hs \in [1 .. n -> HeaderLines], b \in Bodies \cup {<<>>}} : n \in 0 .. HeaderMax}

Sent == {r \in Requests : Announces(r.lines) <=> r.body # <<>>}

Init ==
    /\ stream \in Sent
    /\ pos = 0
    /\ buffer = [i \in 1 .. Size |-> NUL]
    /\ offset = 0
    /\ at = 1
    /\ lines = <<>>
    /\ query = <<>>
    /\ pc = "read"
    /\ phase = "method"

(***************************************************************************)
(* The buffer as a string.                                                 *)
(***************************************************************************)
First(S) == CHOOSE i \in S : \A j \in S : i <= j

\* The string that begins at i ends before the next NUL.
EndOfString(i) == First({j \in i .. Size : buffer[j] = NUL} \cup {Size + 1})

\* rt_strstr(&buffer[i], "\r\n")
LineEnds(i) == {j \in i .. EndOfString(i) - 2 : buffer[j] = "CR" /\ buffer[j + 1] = "LF"}

\* A mutant: the line is copied, and its end left as it is.
NotTerminated(j) == buffer

\* A line is made a string: its CR LF at j is overwritten.
Terminated(j) == [buffer EXCEPT ![j] = NUL, ![j + 1] = NUL]

\* The rest of the buffer moves to its beginning after n were consumed.
Consume(b, n) ==
    IF n > 0 /\ n < offset
      THEN /\ offset' = offset - n
           /\ buffer' = [i \in 1 .. Size |-> IF i <= offset - n THEN b[i + n] ELSE b[i]]
      ELSE /\ offset' = IF n = 0 THEN offset ELSE 0
           /\ buffer' = b

Stream == stream.head \o stream.body

\* Where a read may end.  What the parser of the first line leaves behind the
\* rest of the header is not terminated, and is taken for more of a header that
\* is cut (see the README): unless CutHeader says so, the read that brings the
\* end of the first line brings nothing more, or the whole header.
MayEnd(p) ==
    CutHeader \/ phase # "method" \/ p <= Len(RequestLine) + 2 \/ p >= Len(stream.head)

\* webnet_session_read()
Read ==
    /\ pc = "read"
    /\ \E n \in 1 .. Size - offset :
         /\ pos + n <= Len(Stream) /\ MayEnd(pos + n)
         /\ pos' = pos + n
         /\ offset' = offset + n
         /\ buffer' = [i \in 1 .. Size |-> IF i \in offset + 1 .. offset + n
                                             THEN Stream[pos + i - offset] ELSE buffer[i]]
    /\ pc' = phase
    /\ at' = 1
    /\ UNCHANGED <<stream, lines, query, phase>>

\* webnet_request_parse_method
ParseMethod ==
    /\ pc = "method"
    /\ IF LineEnds(1) = {}
         THEN pc' = "read" /\ UNCHANGED <<buffer, offset, lines, phase>>
         ELSE LET j == First(LineEnds(1))
                  blank == First({i \in 1 .. j : buffer[i] = " "})
              IN  /\ lines' = Append(lines, SubSeq(buffer, 1, j - 1))
                  /\ Consume([Terminated(j) EXCEPT ![blank] = NUL], j + 1)
                  /\ phase' = "header" /\ pc' = "header"
    /\ UNCHANGED <<stream, pos, at, query>>

(***************************************************************************)
(* webnet_request_parse_header: an iteration finds the empty line, nothing *)
(* whole, or a line.                                                       *)
(***************************************************************************)
HeaderEnds ==
    /\ pc = "header"
    /\ at \in LineEnds(at)
    /\ Consume(buffer, at + 1)
    /\ phase' = IF Announces(lines) THEN "query" ELSE "response"
    /\ pc' = phase'
    /\ at' = 1
    /\ UNCHANGED <<stream, pos, lines, query>>

HeaderCut ==
    /\ pc = "header"
    /\ LineEnds(at) = {}
    /\ Consume(buffer, at - 1)
    /\ pc' = "read"
    /\ at' = 1
    /\ UNCHANGED <<stream, pos, lines, query, phase>>

HeaderLine ==
    /\ pc = "header"
    /\ LineEnds(at) # {} /\ at \notin LineEnds(at)
    /\ LET j == First(LineEnds(at))
       IN  /\ lines' = Append(lines, SubSeq(buffer, at, j - 1))
           /\ buffer' = Terminated(j)
           /\ at' = j + 2
    /\ UNCHANGED <<stream, pos, offset, query, pc, phase>>

\* webnet_request_parse_post: the body goes to request->query; the buffer is
\* terminated when it is complete.
ParsePost ==
    /\ pc = "query"
    /\ LET n == IF Len(query) + offset > BodyLen THEN BodyLen - Len(query) ELSE offset
           done == offset > 0 /\ Len(query) + n = BodyLen
       IN  /\ query' = query \o SubSeq(buffer, 1, n)
           /\ Consume(IF done THEN [buffer EXCEPT ![BodyLen + 1] = NUL] ELSE buffer, n)
           /\ phase' = IF done THEN "response" ELSE phase
           /\ pc' = IF done THEN "response" ELSE "read"
    /\ UNCHANGED <<stream, pos, at, lines>>

Next == Read \/ ParseMethod \/ HeaderEnds \/ HeaderCut \/ HeaderLine \/ ParsePost

Spec == Init /\ [][Next]_vars

(***************************************************************************)
(* Properties.                                                             *)
(***************************************************************************)
TypeOK ==
    /\ pos \in 0 .. Len(Stream)
    /\ offset \in 0 .. Size /\ at \in 1 .. Size
    /\ pc \in {"read", "method", "header", "query", "response"}
    /\ phase \in {"method", "header", "query", "response"}

\* The request is understood as it was sent, wherever it is cut into pieces:
\* its lines one by one and its body, and nothing that is left in the buffer
\* from earlier lines is taken for a part of it.
Understood ==
    /\ IsPrefix(lines, stream.lines)
    /\ IsPrefix(query, stream.body)
    /\ pc = "response" => lines = stream.lines /\ query = stream.body

\* The server does not wait for more of a request that was read to its end.
AnsweredAtEnd == pc = "read" => pos < Len(Stream)

=============================================================================
