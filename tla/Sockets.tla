------------------------------- MODULE Sockets -------------------------------
(***************************************************************************)
(* The TCP client of hw5-sockets (client.c) with its peer: the exercise's  *)
(* own echo server (server.c), or an HTTP server as in questions 14 and    *)
(* 15, which answers and closes.  The client copies its input to the       *)
(* socket, then the socket to its output; it never closes its writing side *)
(* before it exits.  A byte of the input is its number.  What is sent has   *)
(* no zero byte, at which printf would stop.                               *)
(***************************************************************************)
EXTENDS Integers, SequencesExt

CONSTANTS
    Settings,       \* what to run with: [peer, length, garbage, short, dirty],
                    \* the peer "echo" or "http", the length of the client's
                    \* input, what nread holds before it is set, whether a write
                    \* may take less than it is given, and whether outBuf holds
                    \* something before it is cleared
    FreadSize,      \* 4096, what one fread takes at most
    BUF_SIZE,       \* of server.c: what one recv takes at most
    Page            \* what the HTTP server answers

VARIABLES
    setting, input,
    cl,             \* where the client is
    buf, nread, len,
    up, down,       \* bytes on their way to the peer and back
    upEnds, downEnds, \* end of stream, behind those bytes
    sv, held,       \* where the peer is, and what its buffer holds
    received, printed,
    outBuf          \* what stands behind the bytes read, up to a zero

vars == <<setting, input, cl, buf, nread, len, up, down, upEnds, downEnds, sv, held, received, printed, outBuf>>
clientVars == <<cl, buf, nread, len>>
wireVars == <<up, down, upEnds, downEnds>>

Garbage == -1

TypeOK ==
    /\ setting \in Settings /\ cl \in {"fread", "write", "read", "exited"}
    /\ sv \in {"recv", "send", "exited"} /\ upEnds \in BOOLEAN /\ downEnds \in BOOLEAN
    /\ nread \in Nat /\ len \in Nat /\ Len(held) <= BUF_SIZE + Len(Page)

Init ==
    /\ setting \in Settings /\ input = [k \in 1 .. setting.length |-> k]
    /\ cl = "fread" /\ buf = << >> /\ nread = setting.garbage /\ len = 0
    /\ up = << >> /\ down = << >> /\ upEnds = FALSE /\ downEnds = FALSE
    /\ sv = "recv" /\ held = << >> /\ received = << >> /\ printed = << >>
    /\ outBuf = IF setting.dirty THEN <<Garbage>> ELSE << >>

\* fread waits for FreadSize bytes or the end; every call starts at buf.
Fread ==
    /\ cl = "fread"
    /\ LET n == Min({FreadSize, Len(input)})
       IN  IF n = 0 THEN cl' = "write" /\ UNCHANGED <<buf, nread, input>>
           ELSE /\ buf' = SubSeq(input, 1, n) \o SubSeq(buf, n + 1, Len(buf))
                /\ nread' = nread + n
                /\ input' = SubSeq(input, n + 1, Len(input))
                /\ UNCHANGED cl
    /\ UNCHANGED <<setting, len, wireVars, sv, held, received, printed, outBuf>>

\* One write(sfd, buf, nread) of the loop: always the whole buffer again.  What
\* buf does not hold is garbage, 0 here.
Bytes(n) == [k \in 1 .. n |-> IF k <= Len(buf) THEN buf[k] ELSE 0]

\* Mutant: what was asked for is counted, not what was written.
Write_Asked ==
    /\ cl = "write" /\ len < nread
    /\ \E n \in (IF setting.short THEN 1 .. nread ELSE {nread}) :
          up' = up \o Bytes(n) /\ len' = len + nread
    /\ UNCHANGED <<setting, input, cl, buf, nread, down, upEnds, downEnds, sv, held, received, printed, outBuf>>

Write ==
    /\ cl = "write" /\ len < nread
    /\ \E n \in (IF setting.short THEN 1 .. nread ELSE {nread}) :
          up' = up \o Bytes(n) /\ len' = len + n
    /\ UNCHANGED <<setting, input, cl, buf, nread, down, upEnds, downEnds, sv, held, received, printed, outBuf>>

WriteEnds ==
    /\ cl = "write" /\ ~ len < nread /\ cl' = "read"
    /\ UNCHANGED <<setting, input, buf, nread, len, wireVars, sv, held, received, printed, outBuf>>

\* Mutant: the client stops at the first read.
Read_Once ==
    /\ cl = "read" /\ down # << >>
    /\ \E n \in 1 .. Len(down) : /\ printed' = printed \o SubSeq(down, 1, n) \o outBuf
                                 /\ down' = SubSeq(down, n + 1, Len(down))
    /\ outBuf' = << >>
    /\ cl' = "exited" /\ upEnds' = TRUE
    /\ UNCHANGED <<setting, input, buf, nread, len, up, downEnds, sv, held, received>>

\* The read loop prints what came, up to the end of the stream.
Read ==
    /\ cl = "read" /\ down # << >>
    /\ \E n \in 1 .. Len(down) : /\ printed' = printed \o SubSeq(down, 1, n) \o outBuf
                                 /\ down' = SubSeq(down, n + 1, Len(down))
    /\ outBuf' = << >>
    /\ UNCHANGED <<setting, input, clientVars, up, upEnds, downEnds, sv, held, received>>

ReadEnds ==
    /\ cl = "read" /\ down = << >> /\ downEnds
    /\ cl' = "exited" /\ upEnds' = TRUE
    /\ UNCHANGED <<setting, input, buf, nread, len, up, down, downEnds, sv, held, received, printed, outBuf>>

\* server.c: recv, and after two seconds send; 0 ends it.
Recv ==
    /\ sv = "recv" /\ up # << >> /\ setting.peer = "echo"
    /\ LET n == Min({BUF_SIZE, Len(up)})
       IN  held' = SubSeq(up, 1, n) /\ up' = SubSeq(up, n + 1, Len(up))
    /\ received' = received \o held' /\ sv' = "send"
    /\ UNCHANGED <<setting, input, clientVars, down, upEnds, downEnds, printed, outBuf>>

\* Mutant: the buffer is sent in full, with what it held before.
Send_Full ==
    /\ sv = "send" /\ setting.peer = "echo"
    /\ down' = down \o held \o [b \in 1 .. BUF_SIZE - Len(held) |-> 0]
    /\ held' = << >> /\ sv' = "recv"
    /\ UNCHANGED <<setting, input, clientVars, up, upEnds, downEnds, received, printed, outBuf>>

Send ==
    /\ sv = "send" /\ setting.peer = "echo" /\ down' = down \o held
    /\ held' = << >> /\ sv' = "recv"
    /\ UNCHANGED <<setting, input, clientVars, up, upEnds, downEnds, received, printed, outBuf>>

RecvEnds ==
    /\ sv = "recv" /\ setting.peer = "echo" /\ up = << >> /\ upEnds
    /\ sv' = "exited" /\ downEnds' = TRUE
    /\ UNCHANGED <<setting, input, clientVars, up, down, upEnds, held, received, printed, outBuf>>

\* The HTTP server, external: when the request is complete it answers and closes.
Serve ==
    /\ sv = "recv" /\ setting.peer = "http" /\ up # << >> /\ cl # "write"
    /\ received' = received \o up /\ up' = << >>
    /\ down' = down \o Page /\ downEnds' = TRUE /\ sv' = "exited"
    /\ UNCHANGED <<setting, input, clientVars, upEnds, held, printed, outBuf>>

Client == Fread \/ Write \/ WriteEnds \/ Read \/ ReadEnds
Server == Recv \/ Send \/ RecvEnds \/ Serve
Next == Client \/ Server
Spec == Init /\ [][Next]_vars
FairSpec == Spec /\ WF_vars(Client) /\ WF_vars(Server)

\* What fread leaves: buf is filled from its start again at every call, so of an
\* input longer than FreadSize it holds the last FreadSize bytes, those of the
\* last call (from the q-th multiple of FreadSize on) first; and nread has grown
\* by all of the input, from what it held at first.
BufHoldsInput ==
    cl # "fread" =>
        /\ nread = setting.garbage + setting.length
        /\ Len(buf) = Min({FreadSize, setting.length})
        /\ \E q \in 0 .. setting.length :
              /\ q * FreadSize <= setting.length /\ setting.length <= q * FreadSize + FreadSize
              /\ \A k \in 1 .. Len(buf) :
                    buf[k] = IF q * FreadSize + k <= setting.length THEN q * FreadSize + k
                             ELSE q * FreadSize + k - FreadSize

\* Each byte of s is the first of what write is given, or follows there the one
\* before it in s: s is made of beginnings of the buffer.
MadeOfBeginnings(s) ==
    \A k \in 1 .. Len(s) :
        \/ s[k] = Bytes(nread)[1]
        \/ k > 1 /\ \E m \in 1 .. nread - 1 : s[k - 1] = Bytes(nread)[m] /\ s[k] = Bytes(nread)[m + 1]

\* What the peer has received and what is on its way to it are the len bytes that
\* the client counts, at least nread of them when it turns to reading.  If no
\* write is short, they are the nread bytes that write is given, once; if one is,
\* its rest is lost, and what follows it begins the buffer again.  With
\* BufHoldsInput: the peer gets the input, once, as hw5-spec.md asks of the write
\* loop, if one fread takes all of it, nread happens to start at 0 and no write is
\* short; and in no other case more than this.
SentFromBuf ==
    LET stream == received \o up
    IN  /\ Len(stream) = len
        /\ cl \in {"read", "exited"} => len >= nread
        /\ MadeOfBeginnings(stream)
        /\ ~ setting.short => stream \in {<< >>, Bytes(nread)}

\* What the client prints is what its peer got from it, or the answer, in that
\* order and nothing else, whatever it sends and however the pieces are cut,
\* but for what outBuf holds before it is first cleared, which comes once.
Printed == RemoveFirst(printed, Garbage)
PrintedInOrder == IsPrefix(Printed, IF setting.peer = "echo" THEN received ELSE Page)

\* With a peer that closes, a client that sends anything gets the whole answer
\* and ends.
HttpAsked == setting.peer = "http" /\ cl = "write" /\ nread > 0
HttpDone  == cl = "exited" /\ Printed = Page
HttpEnds  == HttpAsked ~> HttpDone
=============================================================================
