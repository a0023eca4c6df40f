----------------------------- MODULE MCPrograms -----------------------------
(***************************************************************************)
(* The small programs of the repository, and parts of the larger ones that *)
(* work alone, checked in one run.  The initial state chooses one; it runs *)
(* by itself over the common variables v1 to v16, each of which is in turn *)
(* what the INSTANCE of that program says (None where the program has no   *)
(* use for it).  Nothing is composed here: every property is a module's    *)
(* own, of the behaviours of its program.                                  *)
(***************************************************************************)
EXTENDS Integers, SequencesExt

CONSTANTS NoQuery, NoProgram, NoFile, None

VARIABLES program, v1, v2, v3, v4, v5, v6, v7, v8, v9, v10, v11, v12, v13, v14, v15, v16

vars == <<program, v1, v2, v3, v4, v5, v6, v7, v8, v9, v10, v11, v12, v13, v14, v15, v16>>

----------------------------------------------------------------------------
\* Tiny: a request of each kind, each outcome of doit, each CGI program, and
\* two clients at once.
Conns12 == {1, 2}
Get(uri, query, headers) == [method |-> "GET", uri |-> uri, query |-> query, headers |-> headers]
Cgi(name, query) == Get(<<"/", "cgi-bin", "/", name>>, query, 0)
Home == Get(<<"/">>, NoQuery, 1)
Alone == {Home, Get(<<"/", "secret">>, NoQuery, 0), Cgi("none", NoQuery), [Home EXCEPT !.method = "POST"],
          Get(<<"/", "cgi-bin", "/">>, NoQuery, 0), Cgi("hello", NoQuery),
          Cgi("slow", <<<<"size", 3>>>>), Cgi("slow", <<<<"size", 1>>>>),
          Cgi("slow", <<<<"size", 1>>, <<"chunksize", 2>>, <<"size", 3>>>>),
          Cgi("adder", <<<<"1", 0>>>>), Cgi("adder", <<<<"1", 0>>, <<"2", 0>>>>)}
Requests == {<<r>> : r \in Alone} \cup {<<[Home EXCEPT !.method = "PUT", !.headers = 0], Cgi("none", NoQuery)>>}
FileStat(name) ==
    CASE Last(name) \in {"slow", "hello", "adder", "home.html"} ->
           [kind |-> "regular", read |-> TRUE, execute |-> TRUE, size |-> 5]
      [] Last(name) = "secret" -> [kind |-> "regular", read |-> FALSE, execute |-> FALSE, size |-> 5]
      [] Last(name) = "/" -> [kind |-> "directory", read |-> TRUE, execute |-> TRUE, size |-> 5]
      [] OTHER -> [kind |-> "missing"]

\* Pipeline: a reader that stops early, an unknown command, redirections in the
\* middle of a pipeline, a missing file, one that cannot be written, trailing
\* operators, and the builtins.
Files4 == {"f", "g", "o", "w"}
FilesAtFirst ==
    [n \in Files4 |-> CASE n = "f" -> <<"x", "y">> [] n \in {"o", "w"} -> <<"old">> [] n = "g" -> NoFile]
Programs(name) ==
    CASE name = "gen" -> [own |-> <<"a", "b">>, reads |-> 0]
      [] name = "cat" -> [own |-> << >>, reads |-> 9]
      [] name = "head" -> [own |-> << >>, reads |-> 1]
      [] OTHER -> NoProgram
Sessions7 ==
    {<<<<"jobs">>, <<"gen", "|", "cat", "|", "head">>, <<"quit">>>>,
     <<<<"gen", "|", "cat">>, << >>, <<"cat", "<", "f">>>>,
     <<<<"gen", "|", "cat", "<", "f", "|", "cat", ">", "o">>>>,
     <<<<"nosuch", "|", "cat", "|">>>>,
     <<<<"gen", ">", "o", "|", "cat">>>>,
     <<<<"gen", "|", "cat", "<", "f", ">", "w", "|", "cat">>>>,
     <<<<"cat", "<", "g", "|", "head", ">">>>>}

\* Dns: no answer, addresses, aliases whose names are compressed or not, labels
\* as long as a character's code less one and as long as it, an alias as the last
\* answer, a type the resolver does not know, the root, a trailing and a doubled
\* dot.  Behind the response: zeros, bytes that are pointers to themselves, an
\* address of an earlier response, an alias and an address of one.
A(owner, data) == [type |-> 1, owner |-> owner, data |-> data]
Cname(owner, labels, suffix) ==
    [type |-> 5, owner |-> owner, data |-> [labels |-> labels, suffix |-> suffix]]
Other(owner) == [type |-> 28, owner |-> owner, data |-> [b \in 1 .. 16 |-> b]]
Name == <<<<97, 66>>, <<99>>>>
LongLabel(n) == [k \in 1 .. n |-> 120]
Queries9 ==
    {[name |-> Name, answers |-> << >>],
     [name |-> Name \o <<<< >>>>, answers |-> <<A(0, <<10, 0, 0, 1>>), A(0, <<10, 0, 0, 2>>)>>],
     [name |-> Name, answers |-> <<Cname(0, <<<<120>>>>, 2), A(1, <<1, 5, 0, 2>>)>>],
     [name |-> Name,
      answers |-> <<Cname(0, <<<<120>>, <<121, 122>>>>, 0), Cname(1, <<<<119>>>>, 1),
                    A(2, <<1, 5, 0, 2>>), Other(2), A(2, <<1, 1, 1, 1>>)>>],
     [name |-> <<<< >>, << >>>>, answers |-> <<A(0, <<10, 0, 0, 1>>)>>],
     [name |-> <<<<97>>, << >>, <<65, 90>>>>, answers |-> <<Other(0)>>],
     [name |-> <<<<98>>>>, answers |-> <<A(0, <<10, 0, 0, 1>>), Cname(0, <<<<120>>>>, 1)>>],
     [name |-> <<<<99>>>>, answers |-> <<Cname(0, <<LongLabel(44), <<122>>>>, 0), A(1, <<10, 0, 0, 1>>)>>],
     [name |-> <<<<100>>>>, answers |-> <<Cname(0, <<<<122>>, LongLabel(45)>>, 0), A(1, <<10, 0, 0, 1>>)>>]}
StaleAddress == <<192, 12, 0, 1, 0, 1, 0, 0, 0, 60, 0, 4, 9, 9, 9, 9>>
StaleAlias == <<192, 12, 0, 5, 0, 1, 0, 0, 0, 60, 0, 3, 1, 122, 0>>
Tails == {<< >>, [k \in 1 .. 180 |-> 192], StaleAddress, StaleAlias \o StaleAddress}

\* OpenFd: lists of up to three addresses, each failing in any way.
AddressLists == UNION {[1 .. n -> {"nosocket", "refused", "ok"}] : n \in 1 .. 3}

\* Sockets: inputs below, at and above what one fread and one recv take.
Exchanges ==
    [peer : {"echo", "http"}, length : {0, 2, 3}, garbage : {0, 1}, short : BOOLEAN, dirty : BOOLEAN]

\* Signals: the handlers no scenario of killer.c reaches, a wait for a child that
\* has not exited and is interrupted, and signals sent without a sleep between them.
ExtraScripts ==
    {<<<<"kill", "USR2">>, <<"sleep", 1>>, <<"kill", "TERM">>>>,
     <<<<"kill", "USR1">>, <<"kill", "STKFLT">>, <<"kill", "CHLD">>>>,
     <<<<"kill", "TERM">>, <<"kill", "PWR">>>>}

\* Mandelbrot: one thread on six points, two on a row each.
EscapeAfter(col, row) == IF col = row THEN 5 ELSE 1
Jobs2 == {[nthreads |-> 1, xres |-> 2, yres |-> 3], [nthreads |-> 2, xres |-> 1, yres |-> 2]}

\* Csapp: a positive, a single-digit and a negative number; a stream that is
\* shorter than, as long as and longer than what is wanted.
Longs6 == {0, 7, 40, 123, -3, -45}

\* CommandLine: up to two words of every kind on a line, spaced in any way; two
\* lines; a line and a rest that do not fit into the buffer; each option.
Words == {<<"a">>, <<"b", "'", "c">>, <<"a", " ", "b">>, << >>, <<"&">>, <<"&", "a">>}
Plain == [options |-> <<"p">>, words |-> << >>, gaps |-> << >>, rest |-> << >>]
OneLine(words, gaps) == [Plain EXCEPT !.words = <<words>>, !.gaps = <<gaps>>]
Long == [k \in 1 .. 14 |-> "a"]
Typings ==
    {OneLine(<< >>, <<n>>) : n \in {0, 2}}
    \cup {OneLine(<<w>>, <<n, m>>) : w \in Words, n \in {0, 2}, m \in {0, 1}}
    \cup {OneLine(pair, <<0, n, m>>) : pair \in Words \X Words, n \in {1, 2}, m \in {0, 1}}
    \cup {[Plain EXCEPT !.words = <<<<<<"a">>, <<"&">>>>, <<<<"b">>>>>>, !.gaps = <<<<0, 1, 1>>, <<1, 0>>>>,
                        !.rest = rest] : rest \in {<< >>, <<"c">>, Long}}
    \cup {OneLine(<<Long>>, <<0, 0>>)}
    \cup {[Plain EXCEPT !.options = o] : o \in {<< >>, <<"v", "p">>, <<"v", "h">>, <<"x">>}}

\* HttpParser: every form of request after every form of a complete one.
HttpRequests(complete, host, path) ==
    [complete : complete, method : {"GET"}, host : {host}, port : {None, "8080"}, path : {None, path}]
HttpInputs == {<<r, s>> : r \in HttpRequests({TRUE}, "h", "p"), s \in HttpRequests(BOOLEAN, "i", "q")}

----------------------------------------------------------------------------
T == INSTANCE Tiny WITH
    Conns <- Conns12, Scenarios <- Requests, NoQuery <- NoQuery, Stat <- FileStat, ErrorSize <- 9,
    request <- v1, main <- v2, connfd <- v3, backlog <- v4, open <- v5, at <- v6,
    unread <- v7, toWrite <- v8, then <- v9, cgi <- v10, sent <- v11, resp <- v12, toSend <- v13, arriving <- v14, finished <- v15, gone <- v16

P == INSTANCE Pipeline WITH
    Sessions <- Sessions7, MaxCmds <- 3, Program <- Programs, NoProgram <- NoProgram,
    Files <- Files4, Content <- FilesAtFirst, NoFile <- NoFile, Unwritable <- {"w"}, PipeSize <- 1,
    todo <- v1, argv <- v2, parsed <- v3, ran <- v4, sh <- v5, i <- v6, at <- v7,
    ends <- v8, in <- v9, out <- v10, pipe <- v11, file <- v12, pos <- v13, left <- v14,
    shown <- v15

D == INSTANCE Dns WITH
    Queries <- Queries9, MAX_SIZE <- 300, Beyond <- Tails, Overruns <- {0, 2}, Elsewhere <- {4, 255},
    query <- v1, stage <- v2, flight <- v3, requestLen <- v4, wire <- v5, indexp <- v6,
    over <- v7, count <- v8, i <- v9, cursor <- v10, dots <- v11, line <- v12, out <- v13

O == INSTANCE OpenFd WITH
    Lists <- AddressLists,
    walk <- v1, list <- v2, at <- v3, p <- v4, fds <- v5, held <- v6, result <- v7

K == INSTANCE Sockets WITH
    Settings <- Exchanges, FreadSize <- 2, BUF_SIZE <- 2, Page <- <<7, 8>>,
    setting <- v1, input <- v2, cl <- v3, buf <- v4, nread <- v5, len <- v6, up <- v7,
    down <- v8, upEnds <- v9, downEnds <- v10, sv <- v11, held <- v12, received <- v13,
    printed <- v14, outBuf <- v15

S == INSTANCE Signals WITH
    Extra <- ExtraScripts, SaMasks <- {{}}, Iterations <- 14, Garbage <- 0,
    script <- v1, k <- v2, wakes <- v3, now <- v4, sa_mask <- v5, stack <- v6,
    pending <- v7, mask <- v8, i <- v9, foo <- v10, block <- v11, termDefault <- v12, running <- v13, zombies <- v14, out <- v15, missed <- v16

F == INSTANCE ForkPipe WITH
    Args <- {"none", "runs", "fails"}, Terminals <- BOOLEAN,
    arg <- v1, tty <- v2, at <- v3, file <- v4, held <- v5, term <- v6, redirected <- v7, pipeOut <- v8, pipe <- v9, writers <- v10, buf <- v11

M == INSTANCE Mandelbrot WITH
    Jobs <- Jobs2, MaxIter <- 3, Escape <- EscapeAfter,
    job <- v1, x <- v2, y <- v3, k <- v4, offset <- v5, at <- v6, i <- v7, j <- v8,
    todo <- v9, iterated <- v10, mixed <- v11, loaded <- v12, colour <- v13, pixels <- v14

L == INSTANCE Csapp WITH
    Longs <- Longs6, Stream <- <<1, 2, 3, 4>>, Wanted <- 3, RIO_BUFSIZE <- 2,
    at <- v1, call <- v2, errno <- v3, handler <- v4, status <- v5, cause <- v6,
    stream <- v7, internal <- v8, got <- v9, put <- v10

C == INSTANCE CommandLine WITH
    Settings <- Typings, MAXLINE <- 12,
    setting <- v1, options <- v2, emit_prompt <- v3, stdin <- v4, eof <- v5, cmdline <- v6,
    evaluated <- v7, prompts <- v8, at <- v9

H == INSTANCE HttpParser WITH
    Inputs <- HttpInputs, Missing <- None, DefaultPort <- "80",
    input <- v1, todo <- v2, result <- v3, method <- v4, hostname <- v5, port <- v6, uri <- v7

----------------------------------------------------------------------------
\* The variables from the (k+1)-st on are not used, and stay so.
Unused15 == v16 = None
Unused14 == v15 = None /\ Unused15
Unused13 == v14 = None /\ Unused14
Unused11 == v12 = None /\ v13 = None /\ Unused13
Unused10 == v11 = None /\ Unused11
Unused9 == v10 = None /\ Unused10
Unused7 == v8 = None /\ v9 = None /\ Unused9

Init ==
    \/ program = "Tiny" /\ T!Init
    \/ program = "Pipeline" /\ P!Init /\ Unused15
    \/ program = "Dns" /\ D!Init /\ Unused13
    \/ program = "OpenFd" /\ O!Init /\ Unused7
    \/ program = "Sockets" /\ K!Init /\ Unused15
    \/ program = "Signals" /\ S!Init
    \/ program = "ForkPipe" /\ F!Init /\ Unused11
    \/ program = "Mandelbrot" /\ M!Init /\ Unused14
    \/ program = "Csapp" /\ L!Init /\ Unused10
    \/ program = "CommandLine" /\ C!Init /\ Unused9
    \/ program = "HttpParser" /\ H!Init /\ Unused7

RunsTiny == program = "Tiny" /\ UNCHANGED program
RunsPipeline == program = "Pipeline" /\ UNCHANGED <<program, v16>>
RunsDns == program = "Dns" /\ UNCHANGED <<program, v14, v15, v16>>
RunsOpenFd == program = "OpenFd" /\ UNCHANGED <<program, v8, v9, v10, v11, v12, v13, v14, v15, v16>>
RunsSockets == program = "Sockets" /\ UNCHANGED <<program, v16>>
RunsSignals == program = "Signals" /\ UNCHANGED program
RunsForkPipe == program = "ForkPipe" /\ UNCHANGED <<program, v12, v13, v14, v15, v16>>
RunsMandelbrot == program = "Mandelbrot" /\ UNCHANGED <<program, v15, v16>>
RunsCsapp == program = "Csapp" /\ UNCHANGED <<program, v11, v12, v13, v14, v15, v16>>
RunsCommandLine == program = "CommandLine" /\ UNCHANGED <<program, v10, v11, v12, v13, v14, v15, v16>>
RunsHttpParser == program = "HttpParser" /\ UNCHANGED <<program, v8, v9, v10, v11, v12, v13, v14, v15, v16>>

Next ==
    \/ RunsTiny /\ T!Next
    \/ RunsPipeline /\ P!Next
    \/ RunsDns /\ D!Next
    \/ RunsOpenFd /\ O!Next
    \/ RunsSockets /\ K!Next
    \/ RunsSignals /\ S!Next
    \/ RunsForkPipe /\ F!Next
    \/ RunsMandelbrot /\ M!Next
    \/ RunsCsapp /\ L!Next
    \/ RunsCommandLine /\ C!Next
    \/ RunsHttpParser /\ H!Next

Spec == Init /\ [][Next]_vars

\* The fairness of each module's FairSpec.  As only one program runs, the
\* processes that different programs have may share one condition.
Process1 ==
    \/ RunsTiny /\ T!Main
    \/ RunsPipeline /\ P!Shell
    \/ RunsDns /\ D!Resolver
    \/ RunsOpenFd /\ O!Next
    \/ RunsSockets /\ K!Client
    \/ RunsSignals /\ S!Next
    \/ RunsForkPipe /\ F!Parent
    \/ RunsMandelbrot /\ M!Thread(1)
Process2 ==
    \/ RunsTiny /\ T!Child(1)
    \/ RunsPipeline /\ P!Child(1)
    \/ RunsSockets /\ K!Server
    \/ RunsForkPipe /\ F!Child
    \/ RunsMandelbrot /\ M!Thread(2)
Process3 == (RunsTiny /\ T!Child(2)) \/ (RunsPipeline /\ P!Child(2))
Process4 == (RunsTiny /\ T!Cgi(1)) \/ (RunsPipeline /\ P!Child(3))
Process5 == RunsTiny /\ T!Cgi(2)
Fairness ==
    WF_vars(Process1) /\ WF_vars(Process2) /\ WF_vars(Process3) /\ WF_vars(Process4) /\ WF_vars(Process5)
FairSpec == Spec /\ Fairness

----------------------------------------------------------------------------
\* Every module's type invariant.  In Mandelbrot and Tiny it also keeps the
\* offset inside the picture's buffer and the processes in known places.
TypeOK ==
    /\ program = "Tiny" => T!TypeOK
    /\ program = "Pipeline" => P!TypeOK
    /\ program = "Dns" => D!TypeOK
    /\ program = "OpenFd" => O!TypeOK
    /\ program = "Sockets" => K!TypeOK
    /\ program = "Signals" => S!TypeOK
    /\ program = "ForkPipe" => F!TypeOK
    /\ program = "Mandelbrot" => M!TypeOK
    /\ program = "Csapp" => L!TypeOK
    /\ program = "CommandLine" => C!TypeOK
    /\ program = "HttpParser" => H!TypeOK

\* tiny.c and its CGI programs together write one well-formed response: Tiny's
\* Framed.
Framed == program = "Tiny" => T!Framed

\* tiny.c answers a GET when it has read all of it: Tiny's ClosedClean.
ClosedClean == program = "Tiny" => T!ClosedClean

\* A pipeline means the composition of its commands: Pipeline's Composed.
Composed == program = "Pipeline" => P!Composed

\* After a line the shell holds no descriptor and no child: Pipeline's
\* NothingLeft.
NothingLeft == program = "Pipeline" => P!NothingLeft

\* The query on the wire asks for the canonical name: Dns's QuestionRight.
QuestionRight == program = "Dns" => D!QuestionRight

\* The resolver prints at each line what the server's answer says: Dns's
\* AnswersInOrder, with what is excepted there.
AnswersInOrder == program = "Dns" => D!AnswersInOrder

\* csapp.c's wrappers end the process for the failures of their functions, with
\* the failure's own cause, and for nothing else (Csapp's LibraryRight); opening
\* a socket leaves exactly one open, of the first address that works (OpenFd's
\* WalkRight).
LibraryRight ==
    /\ program = "Csapp" => L!LibraryRight
    /\ program = "OpenFd" => O!WalkRight

\* What the shell evaluates, and what http_parser.c returns, is what the line or
\* the request at hand means, not one before it: CommandLine's LinesMeant and
\* HttpParser's StringsOwn.
ParsedRight ==
    /\ program = "CommandLine" => C!LinesMeant
    /\ program = "HttpParser" => H!StringsOwn

\* The client of hw5-sockets sends what its buffer holds, and prints what comes
\* back in order, for inputs of any length and writes of any size: Sockets'
\* BufHoldsInput, SentFromBuf (which says when that is the input, once) and
\* PrintedInOrder.
InOrder == program = "Sockets" => K!BufHoldsInput /\ K!SentFromBuf /\ K!PrintedInOrder

\* killer.c's scenarios give the output hw4-spec.md desires: Signals'
\* DesiredOutput.
DesiredOutput == program = "Signals" => S!DesiredOutput

\* fork.c's file is a merge of what both processes write, and the line reaches
\* the parent: ForkPipe's FileMerged and HelloArrives.
HandedOver == program = "ForkPipe" => F!FileMerged /\ F!HelloArrives

\* The picture of mandelbrot.c, if its threads take turns at the rows, however
\* many they are: Mandelbrot's PictureRight.
PictureRight ==
    [](program = "Mandelbrot" => M!TakeTurns) => [](program = "Mandelbrot" /\ M!Ended => M!Drawn)

\* A client of tiny.c whose request is complete is answered and sees the end of
\* the stream: Tiny's Answered.
Answered ==
    \A c \in Conns12 : (program = "Tiny" /\ T!Asks(c)) ~> (program = "Tiny" => T!Served(c))

\* No pipeline hangs: Pipeline's LineEnds.
LineEnds == []<>(program = "Pipeline" => P!Idle)

\* Who asks and is answered comes to an end: the walk over the answers of the DNS
\* response (Dns's Resolves), and the client of hw5-sockets, which gets all of an answer
\* that the server ends with a close (Sockets' HttpEnds).
AnswersEnd ==
    /\ (program = "Dns" /\ D!Answered) ~> (program = "Dns" => D!WorkedOff \/ D!Astray)
    /\ (program = "Sockets" /\ K!HttpAsked) ~> (program = "Sockets" => K!HttpDone)

\* The programs that should simply end do, whatever fails and however they are
\* scheduled: the walk over the addresses, the target of the signals, both
\* processes of fork.c, the threads of mandelbrot.c.
EachEnds ==
    <>( /\ program = "OpenFd" => O!Ended
        /\ program = "Signals" => S!Ended
        /\ program = "ForkPipe" => F!Ended
        /\ program = "Mandelbrot" => M!Ended )
=============================================================================
