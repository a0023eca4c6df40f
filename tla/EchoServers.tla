----------------------------- MODULE EchoServers -----------------------------
(***************************************************************************)
(* The four echo servers of hw6-concurrency.  They differ in who runs      *)
(* echo(connfd): main itself (echoserveri), a child process for each       *)
(* connection (echoserverp), a thread for each (echoservert), or a pool of *)
(* threads fed through the buffer of sbuf.c (echoservert_pre), which also  *)
(* count the bytes they receive.  An agent is whoever runs echo.  Lines    *)
(* are read with csapp.c's rio_readlineb and written with rio_writen; a    *)
(* failed call of a Rio_ wrapper, or a SIGPIPE, ends the process.          *)
(***************************************************************************)
EXTENDS Rio

CONSTANTS
    Clients,        \* the connections
    Script,         \* Script[c]: the characters client c has to send
    NAgents,        \* processes or threads at most; NTHREADS of echoservert_pre
    SBUFSIZE,
    Kinds,          \* the servers to run, of the four below
    None

Agents == 1 .. NAgents
Parent == 0
AllKinds == {"iterative", "process", "thread", "prethreaded"}

\* What the clients' texts are made of.
Chars == UNION {ToSet(Script[c]) : c \in Clients}

ASSUME EchoAssumption ==
    /\ IsFiniteSet(Clients) /\ None \notin Clients
    /\ Script \in [Clients -> Seq(Chars)]
    /\ NAgents \in Nat \ {0} /\ SBUFSIZE \in Nat \ {0}
    /\ Kinds \subseteq AllKinds

VARIABLES
    kind,       \* which server this is
    alive,      \* its (first) process runs
    main,       \* where main is in its loop
    connfd,     \* main's variable of that name: a connection or None
    backlog,    \* connections not accepted yet
    open,       \* who holds a descriptor of each connection: the first process or agents
    at,         \* where each agent is
    cell,       \* the malloc'ed int that a thread of echoservert is given
    conn,       \* the connection it serves
    unread,     \* its rio_t
    line,       \* its buf, as far as it is filled
    left,       \* what rio_writen has still to write
    queue,      \* the shared buffer of echoservert_pre
    once, mutex, byte_cnt, loaded,   \* the counter of echo_cnt.c
    pending, handling, zombies,      \* the children of echoserverp
    toSend, arriving, finished, gone, got  \* the clients and their streams

clientVars == <<toSend, arriving, finished, gone, got>>
childVars  == <<pending, handling, zombies>>
countVars  == <<once, mutex, byte_cnt, loaded>>
echoVars   == <<at, cell, conn, unread, line, left>>
mainVars   == <<main, connfd, backlog>>
vars == <<kind, alive, mainVars, open, echoVars, queue, countVars, childVars, clientVars>>

Sbuf == INSTANCE Fifo WITH
    Threads <- Agents, Items <- Clients, NoItem <- None, N <- SBUFSIZE,
    q <- queue, result <- conn

TypeOK ==
    /\ kind \in Kinds /\ alive \in BOOLEAN
    /\ main \in {"accept", "start", "close"} /\ connfd \in Clients \cup {None}
    /\ backlog \in Seq(Clients) /\ queue \in Seq(Clients)
    /\ open \in [Clients -> SUBSET (Agents \cup {Parent})]
    /\ at \in [Agents -> {"idle", "created", "once", "initialising", "read", "lock", "load", "store",
                          "unlock", "write", "close", "exited"}]
    /\ conn \in [Agents -> Clients \cup {None}] /\ cell \in [Agents -> Clients \cup {None}]
    /\ once \in {"new", "running", "done"} /\ mutex \in 0 .. 1
    /\ byte_cnt \in Nat /\ loaded \in [Agents -> Nat]
    /\ pending \in BOOLEAN /\ handling \in BOOLEAN /\ zombies \subseteq Agents
    /\ finished \in [Clients -> BOOLEAN] /\ gone \in [Clients -> BOOLEAN]

Init ==
    /\ kind \in Kinds /\ alive = TRUE
    /\ main = "accept" /\ connfd = None /\ backlog = << >> /\ queue = << >>
    /\ open = [c \in Clients |-> {}]
    /\ at = [a \in Agents |-> "idle"] /\ conn = [a \in Agents |-> None]
    /\ cell = [a \in Agents |-> None]
    /\ unread = [a \in Agents |-> rio_readinitb]
    /\ line = [a \in Agents |-> << >>] /\ left = [a \in Agents |-> << >>]
    /\ once = "new" /\ mutex = 0 /\ byte_cnt = 0 /\ loaded = [a \in Agents |-> 0]
    /\ pending = FALSE /\ handling = FALSE /\ zombies = {}
    /\ toSend = Script /\ arriving = [c \in Clients |-> << >>]
    /\ finished = [c \in Clients |-> FALSE] /\ gone = [c \in Clients |-> FALSE]
    /\ got = [c \in Clients |-> << >>]

----------------------------------------------------------------------------
\* The clients: connect, send in pieces of any size, end their side, or
\* disappear in the middle (ctrl-c in nc).
Connected(c) == c \in ToSet(backlog) \/ open[c] # {}

Connect(c) ==
    /\ alive /\ ~ Connected(c)
    /\ toSend[c] = Script[c] /\ ~ finished[c] /\ ~ gone[c]
    /\ backlog' = Append(backlog, c)
    /\ UNCHANGED <<kind, alive, main, connfd, open, echoVars, queue, countVars, childVars, clientVars>>

ClientSends(c) ==
    /\ Connected(c) /\ ~ gone[c] /\ toSend[c] # << >>
    /\ arriving' = [arriving EXCEPT ![c] = Append(@, Head(toSend[c]))]
    /\ toSend' = [toSend EXCEPT ![c] = Tail(@)]
    /\ UNCHANGED <<kind, alive, mainVars, open, echoVars, queue, countVars, childVars, finished, gone, got>>

ClientFinishes(c) ==
    /\ Connected(c) /\ ~ gone[c] /\ ~ finished[c] /\ toSend[c] = << >>
    /\ finished' = [finished EXCEPT ![c] = TRUE]
    /\ UNCHANGED <<kind, alive, mainVars, open, echoVars, queue, countVars, childVars, toSend, arriving, gone, got>>

ClientGone(c) ==
    /\ Connected(c) /\ ~ gone[c]
    /\ gone' = [gone EXCEPT ![c] = TRUE]
    /\ UNCHANGED <<kind, alive, mainVars, open, echoVars, queue, countVars, childVars, toSend, arriving, finished, got>>

----------------------------------------------------------------------------
\* main.  The signal handler of echoserverp runs between any two of its steps.
MainRuns == alive /\ ~ handling

Accept ==
    /\ MainRuns /\ main = "accept" /\ backlog # << >>
    /\ kind = "iterative" => at[1] = "idle"
    /\ connfd' = Head(backlog) /\ backlog' = Tail(backlog)
    /\ open' = [open EXCEPT ![Head(backlog)] = {Parent}]
    /\ main' = "start"
    /\ UNCHANGED <<kind, alive, echoVars, queue, countVars, childVars, clientVars>>

\* Agent a begins echo(c): Rio_readinitb.
Begins(a, c) ==
    /\ at' = [at EXCEPT ![a] = "read"]
    /\ conn' = [conn EXCEPT ![a] = c]
    /\ unread' = [unread EXCEPT ![a] = rio_readinitb]
    /\ UNCHANGED <<cell, line, left>>

\* The child or thread created for the next connection.
NewAgent(a) == at[a] = "idle" /\ \A b \in 1 .. a - 1 : at[b] # "idle"

\* echoserveri: main calls echo itself and is back at accept when it returns.
StartIterative ==
    /\ MainRuns /\ kind = "iterative" /\ main = "start"
    /\ Begins(1, connfd)
    /\ main' = "accept"
    /\ UNCHANGED <<kind, alive, connfd, backlog, open, queue, countVars, childVars, clientVars>>

\* echoserverp: fork.  The child has a copy of every descriptor of main.
StartProcess(a) ==
    /\ MainRuns /\ kind = "process" /\ main = "start" /\ NewAgent(a)
    /\ Begins(a, connfd)
    /\ open' = [c \in Clients |-> IF Parent \in open[c] THEN open[c] \cup {a} ELSE open[c]]
    /\ main' = "close"
    /\ UNCHANGED <<kind, alive, connfd, backlog, queue, countVars, childVars, clientVars>>

\* Mutant: the parent keeps the connected socket open.
ParentCloses_Not ==
    /\ MainRuns /\ main = "close"
    /\ connfd' = None /\ main' = "accept"
    /\ UNCHANGED <<kind, alive, backlog, open, echoVars, queue, countVars, childVars, clientVars>>

\* close(connfd) of the parent.
ParentCloses ==
    /\ MainRuns /\ main = "close"
    /\ open' = [open EXCEPT ![connfd] = @ \ {Parent}]
    /\ connfd' = None /\ main' = "accept"
    /\ UNCHANGED <<kind, alive, backlog, echoVars, queue, countVars, childVars, clientVars>>

\* echoservert: pthread_create with a cell of its own for the descriptor,
\* which the thread reads and frees when it starts.
StartThread(a) ==
    /\ MainRuns /\ kind = "thread" /\ main = "start" /\ NewAgent(a)
    /\ at' = [at EXCEPT ![a] = "created"]
    /\ cell' = [cell EXCEPT ![a] = connfd]
    /\ main' = "accept"
    /\ UNCHANGED <<kind, alive, connfd, backlog, open, conn, unread, line, left, queue, countVars, childVars, clientVars>>

\* Mutant: the thread is given the address of main's connfd.
ThreadStarts_Shared(a) ==
    /\ alive /\ at[a] = "created"
    /\ at' = [at EXCEPT ![a] = "read"]
    /\ conn' = [conn EXCEPT ![a] = connfd]
    /\ cell' = [cell EXCEPT ![a] = None]
    /\ unread' = [unread EXCEPT ![a] = rio_readinitb]
    /\ UNCHANGED <<kind, alive, mainVars, open, line, left, queue, countVars, childVars, clientVars>>

ThreadStarts(a) ==
    /\ alive /\ at[a] = "created"
    /\ at' = [at EXCEPT ![a] = "read"]
    /\ conn' = [conn EXCEPT ![a] = cell[a]]
    /\ cell' = [cell EXCEPT ![a] = None]
    /\ unread' = [unread EXCEPT ![a] = rio_readinitb]
    /\ UNCHANGED <<kind, alive, mainVars, open, line, left, queue, countVars, childVars, clientVars>>

\* echoservert_pre: sbuf_insert, and sbuf_remove of a worker.
InsertConnfd ==
    /\ MainRuns /\ kind = "prethreaded" /\ main = "start"
    /\ Sbuf!Put(connfd)
    /\ main' = "accept"
    /\ UNCHANGED <<kind, alive, connfd, backlog, open, at, cell, unread, line, left, countVars, childVars, clientVars>>

RemoveConnfd(a) ==
    /\ alive /\ kind = "prethreaded" /\ at[a] = "idle"
    /\ Sbuf!Take(a)
    /\ at' = [at EXCEPT ![a] = "once"]
    /\ UNCHANGED <<kind, alive, mainVars, open, cell, unread, line, left, countVars, childVars, clientVars>>

\* Mutant: every call runs init_echo_cnt.
OnceBegins_Each(a) ==
    /\ alive /\ at[a] = "once"
    /\ once' = "running" /\ at' = [at EXCEPT ![a] = "initialising"]
    /\ UNCHANGED <<kind, alive, mainVars, open, cell, conn, unread, line, left, queue, mutex, byte_cnt, loaded, childVars, clientVars>>

\* Pthread_once(&once, init_echo_cnt): the first to come runs it, the others
\* wait until it is done; then Rio_readinitb.
OnceBegins(a) ==
    /\ alive /\ at[a] = "once" /\ once = "new"
    /\ once' = "running" /\ at' = [at EXCEPT ![a] = "initialising"]
    /\ UNCHANGED <<kind, alive, mainVars, open, cell, conn, unread, line, left, queue, mutex, byte_cnt, loaded, childVars, clientVars>>

init_echo_cnt(a) ==
    /\ alive /\ at[a] = "initialising"
    /\ mutex' = 1 /\ byte_cnt' = 0 /\ once' = "done"
    /\ at' = [at EXCEPT ![a] = "once"]
    /\ UNCHANGED <<kind, alive, mainVars, open, cell, conn, unread, line, left, queue, loaded, childVars, clientVars>>

OnceDone(a) ==
    /\ alive /\ at[a] = "once" /\ once = "done"
    /\ at' = [at EXCEPT ![a] = "read"]
    /\ unread' = [unread EXCEPT ![a] = rio_readinitb]
    /\ UNCHANGED <<kind, alive, mainVars, open, cell, conn, line, left, queue, countVars, childVars, clientVars>>

----------------------------------------------------------------------------
\* echo and echo_cnt: the loop of a running agent.
Runs(a) == alive /\ at[a] \notin {"idle", "exited"}

\* What the line does when it is complete, and what happens at end of file.
Counts == kind = "prethreaded"
LineRead == IF Counts THEN "lock" ELSE "write"

\* Rio_readlineb as far as the bytes in stream, the unread part of the rio_t, lead.
Reads(a, stream) ==
    LET text == LineWith(stream, line[a])
    IN  /\ line' = [line EXCEPT ![a] = text]
        /\ unread' = [unread EXCEPT ![a] = UnreadAfter(stream, line[a])]
        /\ IF LineEnds(text)
           THEN at' = [at EXCEPT ![a] = LineRead] /\ left' = [left EXCEPT ![a] = text]
           ELSE UNCHANGED <<at, left>>
        /\ UNCHANGED <<cell, conn>>

TakeBuffered(a) ==
    /\ alive /\ at[a] = "read" /\ unread[a] # << >>
    /\ Reads(a, unread[a])
    /\ UNCHANGED <<kind, alive, mainVars, open, queue, countVars, childVars, clientVars>>

Refill(a) ==
    /\ alive /\ at[a] = "read" /\ unread[a] = << >> /\ Arrived(arriving[conn[a]])
    /\ Reads(a, ReadNow(arriving[conn[a]]))
    /\ arriving' = [arriving EXCEPT ![conn[a]] = LeftBy(@)]
    /\ UNCHANGED <<kind, alive, mainVars, open, queue, countVars, childVars, toSend, finished, gone, got>>

\* read returns 0: a line without its newline is still echoed.
EndOfFile(a) ==
    /\ alive /\ at[a] = "read" /\ unread[a] = << >>
    /\ finished[conn[a]] \/ gone[conn[a]]
    /\ ~ Arrived(arriving[conn[a]])
    /\ at' = [at EXCEPT ![a] = IF line[a] = << >> THEN "close" ELSE LineRead]
    /\ left' = [left EXCEPT ![a] = line[a]]
    /\ UNCHANGED <<kind, alive, mainVars, open, cell, conn, unread, line, queue, countVars, childVars, clientVars>>

\* Mutant: the counter is not locked.
Lock_Not(a) ==
    /\ alive /\ at[a] = "lock"
    /\ at' = [at EXCEPT ![a] = "load"]
    /\ UNCHANGED <<kind, alive, mainVars, open, cell, conn, unread, line, left, queue, countVars, childVars, clientVars>>

\* P(&mutex); byte_cnt += n; V(&mutex).
Lock(a) ==
    /\ alive /\ at[a] = "lock" /\ mutex > 0
    /\ mutex' = mutex - 1 /\ at' = [at EXCEPT ![a] = "load"]
    /\ UNCHANGED <<kind, alive, mainVars, open, cell, conn, unread, line, left, queue, once, byte_cnt, loaded, childVars, clientVars>>

Load(a) ==
    /\ alive /\ at[a] = "load"
    /\ loaded' = [loaded EXCEPT ![a] = byte_cnt] /\ at' = [at EXCEPT ![a] = "store"]
    /\ UNCHANGED <<kind, alive, mainVars, open, cell, conn, unread, line, left, queue, once, mutex, byte_cnt, childVars, clientVars>>

Store(a) ==
    /\ alive /\ at[a] = "store"
    /\ byte_cnt' = loaded[a] + Len(line[a]) /\ at' = [at EXCEPT ![a] = "unlock"]
    /\ loaded' = [loaded EXCEPT ![a] = 0]
    /\ UNCHANGED <<kind, alive, mainVars, open, cell, conn, unread, line, left, queue, once, mutex, childVars, clientVars>>

Unlock(a) ==
    /\ alive /\ at[a] = "unlock"
    /\ mutex' = mutex + 1 /\ at' = [at EXCEPT ![a] = "write"]
    /\ UNCHANGED <<kind, alive, mainVars, open, cell, conn, unread, line, left, queue, once, byte_cnt, loaded, childVars, clientVars>>

\* One write of rio_writen, which may take less than it is given; the next
\* continues behind it.
rio_writen(a) == \E k \in 1 .. Len(left[a]) :
    /\ got' = [got EXCEPT ![conn[a]] = @ \o SubSeq(left[a], 1, k)]
    /\ left' = [left EXCEPT ![a] = SubSeq(@, k + 1, Len(@))]

Write(a) ==
    /\ alive /\ at[a] = "write" /\ rio_writen(a)
    /\ IF left'[a] = << >>
       THEN /\ at' = [at EXCEPT ![a] = "read"]
            /\ line' = [line EXCEPT ![a] = << >>]
       ELSE UNCHANGED <<at, line>>
    /\ UNCHANGED <<kind, alive, mainVars, open, cell, conn, unread, queue, countVars, childVars, toSend, arriving, finished, gone>>

\* close(connfd) after echo.  The child of echoserverp exits, which its parent
\* is told with SIGCHLD; the thread of echoservert ends; the others serve on.
ChildExits(a) ==
    /\ open' = [c \in Clients |-> open[c] \ {a}]
    /\ zombies' = zombies \cup {a} /\ pending' = TRUE
    /\ UNCHANGED <<alive, handling>>

Leaves(a) ==
    /\ at' = [at EXCEPT ![a] = IF kind \in {"process", "thread"} THEN "exited" ELSE "idle"]
    /\ conn' = [conn EXCEPT ![a] = None]
    /\ line' = [line EXCEPT ![a] = << >>] /\ left' = [left EXCEPT ![a] = << >>]
    /\ UNCHANGED <<cell, unread>>

Close(a) ==
    /\ alive /\ at[a] = "close" /\ Leaves(a)
    /\ \/ kind = "process" /\ ChildExits(a)
       \/ /\ kind # "process"
          /\ open' = [open EXCEPT ![conn[a]] = {}]
          /\ UNCHANGED <<alive, childVars>>
    /\ UNCHANGED <<kind, mainVars, queue, countVars, clientVars>>

\* A read or a write of a connection whose client is gone may fail: unix_error
\* or SIGPIPE ends the whole process, and with it every connection it holds.
IoFails(a) ==
    /\ alive /\ at[a] \in {"read", "write"} /\ gone[conn[a]]
    /\ Leaves(a)
    /\ \/ kind = "process" /\ ChildExits(a)
       \/ /\ kind # "process"
          /\ alive' = FALSE /\ open' = [c \in Clients |-> {}]
          /\ UNCHANGED childVars
    /\ UNCHANGED <<kind, mainVars, queue, countVars, clientVars>>

----------------------------------------------------------------------------
\* SIGCHLD of echoserverp: one signal may stand for several children.
Deliver ==
    /\ pending /\ ~ handling
    /\ pending' = FALSE /\ handling' = TRUE
    /\ UNCHANGED <<kind, alive, mainVars, open, echoVars, queue, countVars, zombies, clientVars>>

\* Mutant: one waitpid for each signal.
sigchld_handler_One ==
    /\ handling /\ handling' = FALSE
    /\ \/ zombies = {} /\ UNCHANGED zombies
       \/ \E z \in zombies : zombies' = zombies \ {z}
    /\ UNCHANGED <<kind, alive, mainVars, open, echoVars, queue, countVars, pending, clientVars>>

\* while (waitpid(-1, 0, WNOHANG) > 0) ;
sigchld_handler ==
    /\ handling
    /\ IF zombies # {}
       THEN (\E z \in zombies : zombies' = zombies \ {z}) /\ UNCHANGED handling
       ELSE handling' = FALSE /\ UNCHANGED zombies
    /\ UNCHANGED <<kind, alive, mainVars, open, echoVars, queue, countVars, pending, clientVars>>

----------------------------------------------------------------------------
Main == Accept \/ StartIterative \/ ParentCloses \/ InsertConnfd
        \/ \E a \in Agents : StartProcess(a) \/ StartThread(a)

Agent(a) == ThreadStarts(a) \/ RemoveConnfd(a) \/ OnceBegins(a) \/ init_echo_cnt(a) \/ OnceDone(a)
            \/ TakeBuffered(a) \/ Refill(a) \/ EndOfFile(a) \/ Lock(a) \/ Load(a) \/ Store(a)
            \/ Unlock(a) \/ Write(a) \/ Close(a)

Client(c) == ClientSends(c) \/ ClientFinishes(c)

Next ==
    \/ Main \/ Deliver \/ sigchld_handler
    \/ \E a \in Agents : Agent(a) \/ IoFails(a)
    \/ \E c \in Clients : Client(c) \/ Connect(c) \/ ClientGone(c)

Spec == Init /\ [][Next]_vars

\* Every process and thread runs on, and a client that has connected sends
\* everything and then closes, unless it disappears.
FairSpec ==
    /\ Spec /\ WF_vars(Main) /\ WF_vars(Deliver) /\ WF_vars(sigchld_handler)
    /\ \A a \in Agents : WF_vars(Agent(a))
    /\ \A c \in Clients : WF_vars(Client(c))

----------------------------------------------------------------------------
\* However the bytes arrive, and whoever used the thread's reader before, a
\* complete line is the next line of the stream, cut where the unbuffered
\* definition cuts it: the refills lose, repeat and mix nothing.
HasLine(a) == at[a] \in {"lock", "load", "store", "unlock", "write"}
EchoedBefore(a) == Len(got[conn[a]]) - (Len(line[a]) - Len(left[a]))
LinesIntact ==
    \A a \in Agents : HasLine(a) /\ ~ gone[conn[a]] =>
        line[a] = FirstLine(SubSeq(Script[conn[a]], EchoedBefore(a) + 1, Len(Script[conn[a]])))

\* What a client gets back is the beginning of what it sends, whoever else is
\* served and however short the writes are.
EchoedInOrder == \A c \in Clients : IsPrefix(got[c], Script[c])

\* echo_cnt.c counts every byte once: whenever the mutex is free the counter is
\* the sum of all that was echoed and is being written.
CountIsSum ==
    kind = "prethreaded" /\ once = "done" /\ mutex = 1 /\ alive =>
        byte_cnt = SumFunction([c \in Clients |-> Len(got[c])])
                   + SumFunction([a \in Agents |-> IF at[a] = "write" THEN Len(left[a]) ELSE 0])

\* A child that has ended is reaped: its SIGCHLD is pending or the handler runs.
ZombieSignalled == zombies # {} => pending \/ handling

\* A client that has sent all and closed its side gets all of it back, and its
\* connection is closed by everyone, unless it disappears or, where one process
\* serves all, another one's disappearance ends that process.
Echoed ==
    \A c \in Clients : finished[c] ~>
        \/ got[c] = Script[c] /\ open[c] = {}
        \/ gone[c]
        \/ kind # "process" /\ ~ alive
=============================================================================
