-------------------------------- MODULE Tiny --------------------------------
(***************************************************************************)
(* The Tiny web server (tiny.c) and its CGI programs.  main forks a child  *)
(* for each connection, the child reads a request, line by line, and       *)
(* answers it, for dynamic content with a program that inherits the        *)
(* connection as its standard output.  A name or a URI is a sequence of    *)
(* tokens, and what is written to a connection a sequence of pieces:       *)
(* <<"status", code>>, <<"length", n>>, <<"blank">>, <<"body", n>>, and    *)
(* <<"field">> for any other header field.  The header of a static answer, *)
(* which is one write, is split in the same way.                           *)
(***************************************************************************)
EXTENDS Integers, SequencesExt, Functions

CONSTANTS
    Conns,          \* the connections
    Scenarios,      \* who asks for what: functions from connections to
                    \* requests [method, uri, query, headers]
    NoQuery,        \* the query of a URI without '?'
    Stat(_),        \* [kind, read, execute, size] of a file name
    ErrorSize       \* length of clienterror's body

VARIABLES
    request,                \* the scenario
    main, connfd, backlog,  \* main's loop
    open,                   \* who holds each connection: "main", "child", "cgi"
    at, unread,             \* each connection's child and its rio_t
    toWrite,                \* what it still writes
    then,                   \* where it goes on when that is written
    cgi, sent,              \* its CGI program, and that program's i
    resp,                   \* what the connection has carried to the client
    toSend, arriving, finished, gone    \* the client

clientVars == <<toSend, arriving, finished, gone>>
mainVars == <<main, connfd, backlog>>
childVars == <<at, unread, toWrite, then>>
cgiVars == <<cgi, sent>>
vars == <<request, mainVars, open, childVars, cgiVars, resp, clientVars>>

Lines(r) == <<"request">> \o [i \in 1 .. r.headers |-> "header"] \o <<"blank">>

TypeOK ==
    /\ request \in Scenarios
    /\ main \in {"accept", "fork", "close"} /\ connfd \in Conns \cup {NoQuery}
    /\ backlog \in Seq(Conns)
    /\ open \in [Conns -> SUBSET {"main", "child", "cgi"}]
    /\ at \in [Conns -> {"none", "request", "headers", "serve", "write", "fork", "wait",
                         "close", "exited", "spins"}]
    /\ cgi \in [Conns -> {"none", "start", "loop", "exited", "crashed"}]
    /\ sent \in [Conns -> Nat]

Init ==
    /\ request \in Scenarios
    /\ main = "accept" /\ connfd = NoQuery /\ backlog = << >>
    /\ open = [c \in Conns |-> {}] /\ at = [c \in Conns |-> "none"]
    /\ unread = [c \in Conns |-> << >>]
    /\ toWrite = [c \in Conns |-> << >>] /\ then = [c \in Conns |-> "close"]
    /\ cgi = [c \in Conns |-> "none"] /\ sent = [c \in Conns |-> 0]
    /\ resp = [c \in Conns |-> << >>]
    /\ toSend = [c \in Conns |-> IF c \in DOMAIN request THEN Lines(request[c]) ELSE << >>]
    /\ arriving = [c \in Conns |-> << >>]
    /\ finished = [c \in Conns |-> FALSE] /\ gone = [c \in Conns |-> FALSE]

----------------------------------------------------------------------------
\* A client sends its request, may close its side at any time (finished) and
\* may disappear (gone).
Connected(c) == c \in ToSet(backlog) \/ open[c] # {}

Connect(c) ==
    /\ c \in DOMAIN request /\ at[c] = "none" /\ ~ Connected(c)
    /\ backlog' = Append(backlog, c)
    /\ UNCHANGED <<request, main, connfd, open, childVars, cgiVars, resp, clientVars>>

ClientSends(c) ==
    /\ Connected(c) /\ ~ finished[c] /\ ~ gone[c] /\ toSend[c] # << >>
    /\ arriving' = [arriving EXCEPT ![c] = Append(@, Head(toSend[c]))]
    /\ toSend' = [toSend EXCEPT ![c] = Tail(@)]
    /\ UNCHANGED <<request, mainVars, open, childVars, cgiVars, resp, finished, gone>>

ClientFinishes(c) ==
    /\ Connected(c) /\ ~ finished[c] /\ ~ gone[c]
    /\ finished' = [finished EXCEPT ![c] = TRUE]
    /\ UNCHANGED <<request, mainVars, open, childVars, cgiVars, resp, toSend, arriving, gone>>

ClientGone(c) ==
    /\ Connected(c) /\ ~ gone[c]
    /\ gone' = [gone EXCEPT ![c] = TRUE]
    /\ UNCHANGED <<request, mainVars, open, childVars, cgiVars, resp, toSend, arriving, finished>>

----------------------------------------------------------------------------
\* main: Accept, Fork, Close.  It never waits for its children.
Accept ==
    /\ main = "accept" /\ backlog # << >>
    /\ connfd' = Head(backlog) /\ backlog' = Tail(backlog)
    /\ open' = [open EXCEPT ![Head(backlog)] = {"main"}]
    /\ main' = "fork"
    /\ UNCHANGED <<request, childVars, cgiVars, resp, clientVars>>

Fork ==
    /\ main = "fork"
    /\ open' = [open EXCEPT ![connfd] = @ \cup {"child"}]
    /\ at' = [at EXCEPT ![connfd] = "request"]
    /\ main' = "close"
    /\ UNCHANGED <<request, connfd, backlog, unread, toWrite, then, cgiVars, resp, clientVars>>

\* Mutant: main keeps its descriptor.
MainCloses_Not ==
    /\ main = "close" /\ main' = "accept" /\ connfd' = NoQuery
    /\ UNCHANGED <<request, backlog, open, childVars, cgiVars, resp, clientVars>>

MainCloses ==
    /\ main = "close" /\ main' = "accept"
    /\ open' = [open EXCEPT ![connfd] = @ \ {"main"}]
    /\ connfd' = NoQuery
    /\ UNCHANGED <<request, backlog, childVars, cgiVars, resp, clientVars>>

----------------------------------------------------------------------------
\* parse_uri: [name, args, static].
parse_uri(uri, query) ==
    LET static == "cgi-bin" \notin ToSet(uri)
    IN  [name   |-> <<".">> \o uri \o (IF static /\ Last(uri) = "/" THEN <<"home.html">> ELSE << >>),
         args   |-> IF query = NoQuery THEN << >> ELSE query,
         static |-> static]

Target(c) == parse_uri(request[c].uri, request[c].query)

\* clienterror: its body comes last, and its length is in the header.
clienterror(code) ==
    <<<<"status", code>>, <<"field">>, <<"length", ErrorSize>>, <<"blank">>, <<"body", ErrorSize>>>>

\* serve_static: the header and the mapped file.
serve_static(size) ==
    <<<<"status", 200>>, <<"field">>, <<"field">>, <<"length", size>>, <<"field">>, <<"blank">>,
      <<"body", size>>>>

\* serve_dynamic before its fork.
DynamicHead == <<<<"status", 200>>, <<"field">>>>

Goes(c, pieces, next) ==
    /\ at' = [at EXCEPT ![c] = "write"]
    /\ toWrite' = [toWrite EXCEPT ![c] = pieces] /\ then' = [then EXCEPT ![c] = next]

\* Rio_readlineb, a line a step; its rio_t is refilled with all that has come.
NextLine(c) == Head(unread[c] \o arriving[c])
HasLine(c)  == unread[c] \o arriving[c] # << >>
TakesLine(c) ==
    IF unread[c] # << >>
    THEN unread' = [unread EXCEPT ![c] = Tail(@)] /\ UNCHANGED arriving
    ELSE /\ unread' = [unread EXCEPT ![c] = Tail(arriving[c])]
         /\ arriving' = [arriving EXCEPT ![c] = << >>]
AtEof(c) == ~ HasLine(c) /\ (finished[c] \/ gone[c])

ReadRequest(c) ==
    /\ at[c] = "request" /\ HasLine(c) /\ TakesLine(c)
    /\ \/ /\ request[c].method # "GET"
          /\ Goes(c, clienterror(501), "close")
       \/ /\ request[c].method = "GET"
          /\ at' = [at EXCEPT ![c] = "headers"] /\ UNCHANGED <<toWrite, then>>
    /\ UNCHANGED <<request, mainVars, open, cgiVars, resp, toSend, finished, gone>>

NoRequest(c) ==
    /\ at[c] = "request" /\ AtEof(c)
    /\ at' = [at EXCEPT ![c] = "close"]
    /\ UNCHANGED <<request, mainVars, open, unread, toWrite, then, cgiVars, resp, clientVars>>

\* Mutant: the first header line is taken for the last.
read_requesthdrs_One(c) ==
    /\ at[c] = "headers" /\ HasLine(c) /\ TakesLine(c)
    /\ at' = [at EXCEPT ![c] = "serve"]
    /\ UNCHANGED <<request, mainVars, open, toWrite, then, cgiVars, resp, toSend, finished, gone>>

\* read_requesthdrs reads up to the empty line.
read_requesthdrs(c) ==
    /\ at[c] = "headers" /\ HasLine(c) /\ TakesLine(c)
    /\ at' = [at EXCEPT ![c] = IF NextLine(c) = "blank" THEN "serve" ELSE @]
    /\ UNCHANGED <<request, mainVars, open, toWrite, then, cgiVars, resp, toSend, finished, gone>>

\* At end of file it compares the line it already has, again and again.
HeadersSpin(c) ==
    /\ at[c] = "headers" /\ AtEof(c)
    /\ at' = [at EXCEPT ![c] = "spins"]
    /\ UNCHANGED <<request, mainVars, open, unread, toWrite, then, cgiVars, resp, clientVars>>

\* The rest of doit, up to its writes.
doit(c) ==
    LET t == Target(c)
        s == Stat(t.name)
    IN  /\ at[c] = "serve"
        /\ \/ s.kind = "missing" /\ Goes(c, clienterror(404), "close")
           \/ /\ s.kind # "missing"
              /\ s.kind # "regular" \/ ~ (IF t.static THEN s.read ELSE s.execute)
              /\ Goes(c, clienterror(403), "close")
           \/ s.kind = "regular" /\ t.static /\ s.read /\ Goes(c, serve_static(s.size), "close")
           \/ s.kind = "regular" /\ ~ t.static /\ s.execute /\ Goes(c, DynamicHead, "fork")
        /\ UNCHANGED <<request, mainVars, open, unread, cgiVars, resp, clientVars>>

Write(c) ==
    /\ at[c] = "write"
    /\ resp' = [resp EXCEPT ![c] = Append(@, Head(toWrite[c]))]
    /\ toWrite' = [toWrite EXCEPT ![c] = Tail(@)]
    /\ at' = [at EXCEPT ![c] = IF Len(toWrite[c]) = 1 THEN then[c] ELSE @]
    /\ UNCHANGED <<request, mainVars, open, unread, then, cgiVars, clientVars>>

\* A read or write of a connection whose client is gone may end the child.
Dies(c) ==
    /\ at[c] \in {"request", "headers", "write"} /\ gone[c]
    /\ at' = [at EXCEPT ![c] = "exited"]
    /\ open' = [open EXCEPT ![c] = @ \ {"child"}]
    /\ toWrite' = [toWrite EXCEPT ![c] = << >>]
    /\ UNCHANGED <<request, mainVars, unread, then, cgiVars, resp, clientVars>>

\* serve_dynamic: Fork, Dup2, Execve in the child, and Wait.
ForkCgi(c) ==
    /\ at[c] = "fork"
    /\ open' = [open EXCEPT ![c] = @ \cup {"cgi"}]
    /\ cgi' = [cgi EXCEPT ![c] = "start"]
    /\ at' = [at EXCEPT ![c] = "wait"]
    /\ UNCHANGED <<request, mainVars, unread, toWrite, then, sent, resp, clientVars>>

Wait(c) ==
    /\ at[c] = "wait" /\ cgi[c] \in {"exited", "crashed"}
    /\ at' = [at EXCEPT ![c] = "close"]
    /\ UNCHANGED <<request, mainVars, open, unread, toWrite, then, cgiVars, resp, clientVars>>

Close(c) ==
    /\ at[c] = "close"
    /\ at' = [at EXCEPT ![c] = "exited"]
    /\ open' = [open EXCEPT ![c] = @ \ {"child"}]
    /\ UNCHANGED <<request, mainVars, unread, toWrite, then, cgiVars, resp, clientVars>>

----------------------------------------------------------------------------
\* The CGI programs.  QUERY_STRING is always set; it is a sequence of
\* name-value pairs, separated by '&'.
Program(c) == Last(Target(c).name)
Args(c)    == Target(c).args

CgiWrites(c, pieces, next) ==
    /\ resp' = [resp EXCEPT ![c] = @ \o pieces]
    /\ cgi' = [cgi EXCEPT ![c] = next]
    /\ open' = [open EXCEPT ![c] = IF next = "loop" THEN @ ELSE @ \ {"cgi"}]
    /\ UNCHANGED <<request, mainVars, childVars, clientVars>>

\* adder: without an '&' it writes through a null pointer, before any output;
\* its output is one flush.
adder(c) ==
    /\ cgi[c] = "start" /\ Program(c) = "adder"
    /\ IF Len(Args(c)) < 2 THEN CgiWrites(c, << >>, "crashed")
       ELSE CgiWrites(c, <<<<"field">>, <<"length", ErrorSize>>, <<"field">>, <<"blank">>,
                           <<"body", ErrorSize>>>>, "exited")
    /\ UNCHANGED sent

\* hello: a header without a length.
hello(c) ==
    /\ cgi[c] = "start" /\ Program(c) = "hello"
    /\ CgiWrites(c, <<<<"field">>, <<"blank">>, <<"body", ErrorSize>>>>, "exited")
    /\ UNCHANGED sent

\* slow: the last value of each name counts; it writes size bytes in chunks.
Value(c, name) ==
    LET S == {i \in 1 .. Len(Args(c)) : Args(c)[i][1] = name}
    IN  IF S = {} THEN 0 ELSE Args(c)[Max(S)][2]
Size(c)      == Value(c, "size")
ChunkSize(c) == IF Value(c, "chunksize") <= 1 THEN Size(c) \div 2 ELSE Value(c, "chunksize")

SlowStarts(c) ==
    /\ cgi[c] = "start" /\ Program(c) = "slow"
    /\ CgiWrites(c, <<<<"field">>, <<"length", Size(c)>>, <<"field">>, <<"blank">>>>, "loop")
    /\ UNCHANGED sent

\* Mutant: the last chunk is a whole one.
ChunkEnd_Past(c) == sent[c] + ChunkSize(c)

ChunkEnd(c) == Min({sent[c] + ChunkSize(c), Size(c)})
SlowChunk(c) ==
    /\ cgi[c] = "loop" /\ sent[c] < Size(c)
    /\ sent' = [sent EXCEPT ![c] = ChunkEnd(c)]
    /\ CgiWrites(c, IF ChunkEnd(c) > sent[c] THEN <<<<"body", ChunkEnd(c) - sent[c]>>>> ELSE << >>, "loop")

SlowEnds(c) ==
    /\ cgi[c] = "loop" /\ ~ sent[c] < Size(c)
    /\ CgiWrites(c, << >>, "exited")
    /\ UNCHANGED sent

\* SIGPIPE.
CgiDies(c) ==
    /\ cgi[c] \in {"start", "loop"} /\ gone[c]
    /\ CgiWrites(c, << >>, "crashed")
    /\ UNCHANGED sent

----------------------------------------------------------------------------
Main == Accept \/ Fork \/ MainCloses
Child(c) == ReadRequest(c) \/ NoRequest(c) \/ read_requesthdrs(c) \/ HeadersSpin(c) \/ doit(c)
            \/ Write(c) \/ ForkCgi(c) \/ Wait(c) \/ Close(c)
Cgi(c) == adder(c) \/ hello(c) \/ SlowStarts(c) \/ SlowChunk(c) \/ SlowEnds(c)

Next ==
    \/ Main
    \/ \E c \in Conns : Child(c) \/ Dies(c) \/ Cgi(c) \/ CgiDies(c)
    \/ \E c \in Conns : Connect(c) \/ ClientSends(c) \/ ClientFinishes(c) \/ ClientGone(c)

Spec == Init /\ [][Next]_vars

\* Every process runs on.
FairSpec ==
    Spec /\ WF_vars(Main) /\ \A c \in Conns : WF_vars(Child(c)) /\ WF_vars(Cgi(c))

----------------------------------------------------------------------------
Places(c, kind) == {i \in DOMAIN resp[c] : resp[c][i][1] = kind}
Bytes(c) == SumFunction([i \in Places(c, "body") |-> resp[c][i][2]])

\* What the server, its child and the CGI program write to one connection is a
\* single HTTP response: one status line, which comes first, then the header,
\* then the body, never longer than the length the header gives, and as long
\* once everyone has closed it, whatever way the parts were written.
Framed ==
    \A c \in Conns :
        /\ Places(c, "status") \subseteq {1}
        /\ \A i \in DOMAIN resp[c], j \in Places(c, "blank") :
              resp[c][i][1] = "body" <=> i > j
        /\ Places(c, "body") # {} => Places(c, "blank") # {}
        /\ \A i \in Places(c, "length") :
              /\ Bytes(c) <= resp[c][i][2]
              /\ at[c] = "exited" /\ open[c] = {} /\ ~ gone[c] => Bytes(c) = resp[c][i][2]

\* A GET has been read to its empty line when it is answered and closed: the
\* kernel has no unread input for which it would reset the connection and throw
\* the answer away.  (clienterror(501) does not wait for the header.)
ClosedClean ==
    \A c \in Conns : at[c] = "exited" /\ ~ gone[c] /\ resp[c] # << >> /\ request[c].method = "GET" =>
        toSend[c] = << >> /\ arriving[c] = << >>

\* A client that connects and whose request arrives complete gets an answer and
\* sees the end of the stream, which needs all three processes to close it.
\* (size=1 makes slow's chunks empty: it never ends.)
Asks(c) == c \in DOMAIN request /\ Connected(c) /\ toSend[c] = << >>
Served(c) ==
    \/ resp[c] # << >> /\ open[c] = {}
    \/ gone[c]
    \/ cgi[c] = "loop" /\ Size(c) = 1
Answered == \A c \in Conns : Asks(c) ~> Served(c)
=============================================================================
