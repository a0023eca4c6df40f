# Verification of the cs324 programs

The repository is a semester of systems programming in C: two shells, two HTTP
proxies, a DNS resolver, echo servers and a number of small exercises. This
directory holds TLA+ models of its programs, the TLC runs that check
them and TLAPS proofs of what matters most about the job-control shell,
the thread-pool proxy with its buffer, the epoll proxy, the echo servers, the tiny web
server, the pipeline shell, the parsers of text and the socket and Mandelbrot exercises.
`PROJECT.json` lists the runs, maps every definition to the lines it models and
records findings, hazards and theorems.

## 1. Inventory

| Component | State it keeps | Operations | What is hard | Modelled in |
|---|---|---|---|---|
| job-control shell (`shell-lab2/tsh.c`) | `jobs[16]`, `nextjid`, signal mask; the kernel's pending signal and processes | `eval`, `quit`/`jobs`/`fg`/`bg`, `waitfg`, `sigchld_handler`, `sigint_handler`, `sigtstp_handler`, `sigquit_handler` | handlers run between any two steps and share the list; SIGCHLDs merge; races of the parent and the child | `JobList`, `Tsh`, `JobControl` |
| bounded buffer (`sbuf.c`, in `proxy-lab1` and `hw6-concurrency`) | array, two indices, three semaphores | `sbuf_init`, `sbuf_insert`, `sbuf_remove` | interleaving of semaphore operations and unguarded mistakes | `Sbuf`, `Fifo` |
| thread-pool proxy (`proxy-lab1/.../proxy.c`) | the buffer, the descriptors, each worker's progress | `main`'s accept loop, `thread`, `act_as_server_and_client` and its parts | descriptors that travel between threads and whose numbers are reused; leaks; one failed call ends the process | `Proxy1` |
| epoll proxy (`proxy-lab2/.../proxy.c`) | `conn_states[100]`, `conn_state_idx`, epoll registrations | `connect_to_client`, `read_request`, `connect_to_server`, `send_request`, `read_response`, `send_response`, `init_conn_state` | edge-triggered readiness, partial reads and writes, stale events in a batch, reuse of slots and descriptors | `EpollProxy` |
| pipeline shell (`shell-lab1/tsh.c`) | pipes, redirections, a process group per line | `eval`, `parseargs`, `builtin_cmd` | every copy of every pipe end must be closed; the parent's `Setpgid` races with the child's `execve` | `Pipeline` |
| text in front of the shells and in `http_parser.c` | one static buffer, the strings for the results | `main`'s loop, `parseline`, `parse_request` | ends of lines and buffers, quotes, results left from before | `CommandLine`, `HttpParser` |
| DNS resolver (`dns-lab/resolver.c`) | the datagram and a cursor into it | encoding of names, decoding of names and records, `resolve` | compression pointers, widths of fields, an uninitialised index, a lost datagram | `Dns`, `OpenFd` |
| signal exercise (`hw4-signals`) | flags and masks of one process, the script of another | nine handlers, seven scenarios | nesting, masks, time | `Signals` |
| echo servers (`hw6-concurrency`) | connections, byte count, buffer | `echo`, `echo_cnt`, four servers | who closes what, the shared count, merged SIGCHLDs, a client that disappears | `EchoServers`, `Rio` |
| CS:APP library (`csapp.c`, five copies) | a read buffer; `errno` | `rio_*`, `sio_*`, `open_clientfd`, `open_listenfd`, a wrapper for each of some 70 functions | short counts, interrupted calls, stale `errno`, lists of addresses that fail in part | `Rio`, `OpenFd`, `Csapp` |
| socket exercise (`hw5-sockets`) | the client's buffer and uninitialised counters | `client.c`, `server.c` | short reads and writes, two ends that wait for each other | `Sockets` |
| fork and exec exercise (`hw3-forkexec`) | a shared file, a pipe, two stdio buffers | `fork.c`, `exec.c` | buffers that `execve` throws away, the shared offset | `ForkPipe` |
| Mandelbrot exercise (`hw7-openmp`) | the picture | the parallel loop | `x`, `y`, `k` and `offset` are shared | `Mandelbrot` |
| tiny web server (`tiny.c`, `cgi-bin`) | a connection per child | `doit`, `serve_static`, `serve_dynamic`, `clienterror`, `adder`, `hello`, `slow` | a connection held by three processes, closes that reset, a length announced by one program and sent by another | `Tiny` |
| `catmatch`, `bandit`, drivers (`driver.py`, `sdriver.pl`, `checktsh.pl`, ...) | none | one page of sequential code; tests | none | no |

How they interact: the shell and its children only through signals, `waitpid`
and process groups; the accepting thread and the workers of the first proxy only
through the buffer and the descriptor table; the epoll proxy with its peers only
through sockets and epoll. The prethreaded
echo server uses the buffer of the first proxy. All servers read and write through
`csapp.c`; the web server and its CGI programs share a connection. Otherwise the
programs do not call each other. The drivers
start them and compare output.

Correctness, component by component. The shell: no child is left unreaped, the
list tells the truth about children, at most one job is in the foreground,
terminal signals reach the foreground job only, the prompt comes back. The
buffer: a bounded FIFO for any interleaving. The thread-pool proxy: each
connection has one owner and reaches a worker; descriptors are returned. The
epoll proxy: nobody gets another's bytes, every client that does its part is
answered, nothing is lost with an edge. The pipeline shell: a line means the
composition of its commands, no line hangs, no descriptor or child is left. The echo
servers: every client gets its own lines back in order, and the count is the
sum. Tiny: one well-formed answer per request, whoever writes it. The resolver: the
question is the one asked, and each line printed is what the server's answer says. The
library: a process ends for the failures of its own calls only. `PROJECT.json` lists the hazards behind
these at their lines.

## 2. Modules

### `JobList`: the job list of tsh.c

`jobs` maps slots `0 .. MaxJobs - 1` to records of pid, job id and state. The
operators `addjob`, `deletejob`, `maxjid`, `fgpid`, `getjobpid`, `getjobjid` and
`pid2jid` carry the source's names. The scans are functions of the list, one step
each: while the main program scans, a handler can only clear a slot or set it to
`ST`, so a scan agrees with one at a single instant. `ListSpec` drives the list alone.
The command line's text is left out. A process group holds one process.

### `Tsh`: the shell, its handlers, children and the kernel

The shell is one thread: `stack` holds the active handlers, the main program
moves only when it is empty, and a handler may start between any two steps.
`pc` places the main program between two of its system calls or writes:
`EvalFork` (block and `fork`; nothing can observe the gap between the two),
`EvalSetpgid`, `EvalAddjob`, `EvalAnnounce`, `WaitfgReturns`, and for `do_bgfg`
one path per kind of argument, because the two do their steps in a different
order (`JidReadPid`, `JidSetState`, `JidKill` against `PidKill`, `PidSetState`), and
`CallWait`, which reads `job->pid` through the pointer into the list.
`sigchld_handler` is its loop: `ChldWaitpid`, then `ChldStopped` or
`ChldTerminated`, and `ChldNoMore`; the terminal handlers read `fgpid` in
`TtyCaught` and signal it in `TtyForwarded`. Children fork, exec or fail to,
stop and end. Linux's semantics: a SIGCHLD for a stop, an end and a
continuation; a stop not reported yet is forgotten when the child continues;
`setpgid` on a child that has called `execve` fails. A program may obey or
ignore ctrl-c and ctrl-z. Pids are compared and never computed with, so they
are model values.

### `JobControl`: what a job list promises

The abstract specification: a job is absent, in the foreground, in the background or
stopped, and moves only along the transitions of the comment that begins tsh.c.
`Tsh` implements it with `Shown`, the state the list shows of each pid.

### `Sbuf` and `Fifo`

`Sbuf` makes a step of each `sem_wait`, `sem_post`, index increment and array
access; `at` says where each thread is. `Fifo` is the promise of the first
comment of sbuf.c, with the item a thread has taken and not returned yet
observable. `Queue` and `Result` are the refinement mapping: an item is in from
the store on and out from the load on, though the indices move one step
earlier.

### `Proxy1`: the thread-pool proxy

Extends `Sbuf`. The accepting thread inserts what `accept` returned, also `-1`.
A worker goes through `GetRequest`, `Socket`, `Connect` or `ConnectFails` (the
next address), `SendRequest`, `ReceiveResponse`, `SendResponse`, `Close`. `fd` is the
descriptor table; the kernel opens the lowest free number, so numbers are
reused as soon as they are closed. `Fails` is any failed call: csapp's wrappers
end the process. What travels over the connections is abstracted.

### `EpollProxy`: the epoll proxy

A handler is one step: it only meets the peers through the kernel, and what
arrives while it runs might as well have arrived before. Between the steps of
one batch the peers move freely. A stream is a sequence of pieces tagged with
the client they belong to, so crossed exchanges can be seen. `Due` and `ready`
are edge-triggered epoll: an edge enters `ready` when something arrives, a full
socket drains, or a registration is added or changed while the socket is ready;
`EpollWait` moves all edges into `batch` with the slot of the registration. The
order within a batch is arbitrary. A write takes at least one piece unless the
socket is full. Reads take everything there is, up to the buffer's end, where
`read` returns 0. Changing a registration also sets its slot anew, and ends the process
when the socket is not registered. Descriptor 0 is the standard input until `close(0)`, which the
code can do. `Faults` names what peers may do beside their part.
Where the process exits or gets stuck in a call, the model ends. A request fits into the buffer.

### `Rio` and `EchoServers`

`Rio` is `rio_t` as operators: a reader is the unread part of its buffer, and since only
the refill is a system call, all that `rio_readlineb` moves between two refills is
one step of the thread. `EchoServers` runs the four servers, which differ in who runs
`echo`: an agent is main, a child process or a thread. `Accept`, `StartProcess`,
`ParentCloses`, `ThreadStarts`, `InsertConnfd`, `RemoveConnfd`, `Refill`, `Write`, `Lock`,
`Load`, `Store`, `Close` are its system calls and shared accesses. The pool's buffer is
`Fifo`, which `Sbuf` is checked to implement, with the semaphores' blocking. The
descriptor that main passes to a new thread is on the heap, as in the code. `IoFails` is
any failed `Rio_` wrapper or SIGPIPE: it ends a process, and with a threaded server
everybody's connection.

### `Tiny`

`main` forks a child for each connection; the child reads the request, calls `doit` and
either answers, in a queue of writes, or becomes a CGI program with the connection as its
output. `open` is who holds a connection, and the client sees its end when
nobody does. A header is a sequence of pieces, of which the properties tell apart the
status, the length, the blank line and the body. A close with data unread resets
the connection (`gone`), which is why `read_requesthdrs` matters.

### `Pipeline`

Process 0 is the shell, process c the c-th child. `ends` is the set of pipe ends each holds,
`in` and `out` its standard streams; a pipe is at its end for a reader when no
process holds its writing end. A redirection may fail, when a file is not there or cannot be written. The children run while the shell still forks, as
`Setpgid` is called after the fork; programs write some items and then copy
some. `Composed` defines what a line means without processes.

### `Dns`

The bytes of the query and of the response are the state: `requestLen`, `wire`, `indexp` are
the source's variables. The server is given as a list of answers and encodes
them itself. Three things that the code reads are not set by anybody, and each is any of a set of values:
the bytes behind the datagram (`Beyond`, among them whole records of an earlier
response), the byte behind the name that `name_ascii_from_wire` copies without its end, so that
`strlen` counts too much and the record is read at the wrong place (`Overruns`, of which `over` keeps
one for each record), and the index of the number of answers (the header's bytes or `Elsewhere`).
`AnswersInOrder` says line by line what is printed nevertheless, and names what it cannot promise: records
that were misplaced, the name of an alias that is the last answer or is followed by another's
record, as the code prints the owner of the next record, and labels of 45 characters, whose length the code takes for
a character. `Lose` drops either datagram.

### `OpenFd`, `Csapp`

`OpenFd` is the walk over the addresses in its three forms (client, server, the resolver's own).
`Csapp` is the rest of the library: tables give each wrapper the test it makes,
the part marked external gives each function the results it may have, and the
properties compare the two for every result and every earlier `errno`. Its
other actions are the loops of `rio_readn`, `rio_readnb` and `sio_ltoa`.

### `CommandLine`, `HttpParser`

`CommandLine` is main's options, `fgets` with its buffer, and `parseline` on a sequence
of characters, kept because quotes, spaces and the overwritten last character are
what it is about; `LinesMeant` compares it with the words the line was typed
from. `HttpParser` keeps the control of `parse_request`, which strings it assigns when,
on requests cut into their parts.

### `Sockets`, `Signals`, `ForkPipe`, `Mandelbrot`

`Sockets` has both loops of the client and the server's, with sockets that take and give
any part. `BufHoldsInput` says what the buffer holds after inputs of any length, `SentFromBuf` what is sent of it, with
short writes and an `nread` that starts at any value, and when this is the input, once.
`Signals` is a stack of frames, one per active handler, a clock that
advances when nobody can move, and the seven scenarios of `killer.c`; the handlers are scripts of
operations, and a signal ends the sleep or the `waitpid` that it interrupts. `ForkPipe` has the file's shared offset, the pipe and the two
processes' stdio buffers, of which `execve` and `exit` do different things. `Mandelbrot` makes a
step of each access to the shared variables, each read of `k` for the colour included; each thread's rows follow OpenMP's static
schedule. hw7-spec.md forbids optimisation, so the accesses are the source's. The program
races, and its pictures can be wrong. `PictureRight` says that they are right, with any number of threads,
in every behaviour in which no two threads are inside a row at once (`TakeTurns`).

### `MCPrograms`

Instances of eleven of these modules over the same sixteen variables. The initial
state chooses one, which then runs alone. It saves ten runs and composes nothing.

## 3. Runs

| Run | Bounds | What it shows |
|---|---|---|
| `tsh_safety` | 3 pids, 2 slots, job ids to 2, symmetry of pids | `ListedJobsUnreaped`, `NoLostChildSignal`, `AtMostOneFg`, `BackgroundUntouched`, and that the shell implements `JobControl` |
| `tsh_live` | 2 pids, 1 slot | `ChildrenReaped`, `PromptComesBack`; the second child finds the list full |
| `tsh_fg_hangs` (violation) | 1 pid | `fg` of a job that ends meanwhile waits for ever for pid 0 |
| `tsh_state_stale` (violation) | 1 pid | `do_bgfg` overwrites the handler's `ST` |
| `joblist_jid` (violation) | 4 slots, list alone | two jobs get one job id |
| `proxy1` | 2 workers, 2 slots, 4 descriptors, 5 accepts | `OneHolder`, `ImplementsFifo`, `ConnectionsServed` |
| `epoll_faults` | 2 clients, 2 slots, 3 descriptors beside the standard input, all faults, symmetry of clients | `AnswerIsOwn`, `NoLostEdge`, until a stream is reset |
| `epoll_serves` | 2 clients, 2 slots, no fault | `NoneForgotten`, `Answered` |
| `epoll_burst` (violation) | 2 clients that connect together | one `conn_state` for both |
| `epoll_slow_client` (violation) | a client whose socket fills | `init_conn_state` in the middle of a response |
| `echo` | 2 clients, 2 agents, `SBUFSIZE` 1, `RIO_BUFSIZE` 2, `MAXLINE` 3, each of the four servers | `LinesIntact`, `EchoedInOrder`, `CountIsSum`, `ZombieSignalled`, `Echoed` |
| `programs` | per program, below | `Framed`, `ClosedClean`, `Answered` (Tiny), `Composed`, `NothingLeft`, `LineEnds` (Pipeline), `QuestionRight`, `AnswersInOrder` (Dns), `LibraryRight` (Csapp, OpenFd), `ParsedRight` (CommandLine, HttpParser), `InOrder` (Sockets), `DesiredOutput` (Signals), `HandedOver` (ForkPipe), `PictureRight` (Mandelbrot), `AnswersEnd` (Dns, Sockets), `EachEnds` (OpenFd, Signals, ForkPipe, Mandelbrot) |

Why these bounds. Each hazard of the shell takes two jobs and a third
process for whatever happens in between; two slots let the third find the list
full; job ids above `MaxJid` cannot occur in the run because a fork that would need one
is not taken, which is the run's only bound on behaviour. Two workers, an
accepting thread and two slots give every contention of the buffer (several at a
semaphore, full, empty, and wrapped: five insertions go twice around). Four
descriptors are used up by leaked ones, so `accept` and `socket` fail within the
run. Two clients share everything that clients of the epoll proxy can share; two
pieces are the shortest stream that can be cut, three free descriptors are one fewer than two
clients and their servers need.

`epoll_faults` has as many slots as clients, that is, at most `MAX_STATES` connections
since the start. Beyond that the code gives a slot away while it may be in use;
with one slot for two clients `AnswerIsOwn` fails even without any fault. It is
a hazard in `PROJECT.json`. Both properties speak of the time before the first reset (`Unreset`). A
failed read or write closes both descriptors and leaves them, and the state, in the slot; an event of that
slot further on in the batch then works on whatever was accepted on these numbers in between. That takes
three clients: with two the properties hold after a reset as well, with three clients and three slots TLC
finds, within a minute, one client's query written to another client, and a lost edge. `epoll_serves` assumes the absence of exactly those
behaviours under which the code does not serve: two violation runs show two of
them, the others (an early end of the request, a reset, a refused connection)
stop the proxy or leave a slot behind, which the model contains and `epoll_faults` explores.

`echo`: lines of one character, of two, which `MAXLINE` cuts, and without a newline; a
reader's buffer of two is refilled in the middle of a line and holds the start of
the next. Two agents for two clients, so that main waits for a pool whose buffer is
full, and one process's failure meets the other's work.

`programs`: Tiny gets each kind of request alone (static, forbidden, missing, a wrong method,
each CGI program with sizes at, below and above a chunk and with an adder that has too
few arguments), and two clients at once, one of them with a PUT. Pipeline runs seven sessions of
at most three commands, with readers that stop early, unknown commands, redirections inside a
line, from a file that is not there and to one that cannot be written, trailing operators; a pipe holds one item.
Dns answers nine queries, with no, some or only
unknown records, aliases whose names are compressed or not, an alias as the last answer, an empty label, labels of
44 and of 45 characters, and the root; `MAX_SIZE` is 300, which is more than any response. Behind it stand zeros, bytes that are
pointers to themselves, an address, or an alias and an address, complete records that a count too high makes the walk
reach; `strlen` counts 0 or 2 bytes too many at each record; the count is any of what the header's
bytes give, 4 or 255. Sockets sends inputs of 0, 2 and 3 bytes, that is
none, a full buffer and more; `garbage`, `short` and `dirty` choose the uninitialised values and the
short counts. Signals runs 14 turns of the main loop in place of 30, longer than
every scenario, and three scripts beside those of `killer.c`, one of which interrupts the wait for a child. OpenFd takes all lists of one to three
addresses with three outcomes each. Csapp calls each wrapper with each result, with and without a
handler installed before. CommandLine types every pair of six kinds of words with different
spacing, into a buffer of 12. Mandelbrot draws six points with one thread and two with
two, in every interleaving of their rows, at most 3 iterations.

Deadlock is not checked: the shell and the proxies end on purpose (`quit`, exits
on errors), and the bounds end the other behaviours.

Fairness. `Tsh`: strong fairness of the main program, of the delivery of SIGCHLD and of the
steps of the handlers. The thread runs, the kernel delivers a pending signal that
is not blocked, but handlers may interrupt again and again, so each of
these steps is enabled again and again rather than continuously. Users and children are under no obligation.
`Proxy1`: weak fairness of each thread's own steps; no fairness of peers, which is why
`ConnectionsServed` allows for all workers to wait for theirs. `EpollProxy`: weak fairness of the
thread, and for `Answered` that a server answers the request it got and closes, and a full
socket drains; that is all the property asks of peers. `EchoServers`: weak fairness of
every process and thread, of the delivery of SIGCHLD, and of clients that send what they have, read what
comes and close, without which no server can end a connection; `Echoed` speaks of clients
that stay. `programs`: weak fairness of each process of the program that
runs; a stage of the network that may lose a datagram need not deliver it.

Every property of a passing run has a mutant: a plausible slip in the code
(a missing block of SIGCHLD, a handler that reaps once, an unlocked buffer, a forgotten
`EPOLL_CTL_MOD`, ...) under which the property fails.

## 4. Proofs

`Lemmas` has the facts about numbers, sequences and sums that several of the proofs cite: minima,
cutting and joining sequences, and what a sum over a function is without computing its fold.

`TshProofs` begins with the lemmas on the list's operators: what `addjob`, `deletejob`,
`getjobpid`, `fgpid` and `maxjid` return and change. Then it proves for any
number of slots, pids and job ids, from `JobListAssumption` alone:

- `TypeCorrect`. The strengthening `TypeInv` adds `HandlersActive` (a handler with a
  pid in hand is on the stack) and `Control` (SIGCHLD is blocked, and its handler
  idle, exactly from the fork to `addjob`).
- `NoSignalLost`: `NoLostChildSignal`. Given the types it is inductive: each step
  that gives a child news sets `pending`, and the handler leaves its loop only
  when there is none.
- `JobsUnreaped`: `ListedJobsUnreaped`, as a part of `ListInv`. A pid may be listed
  only once (`UniquePids`), or reaping would remove one entry of two; and the child that
  `eval` is about to add exists and is not listed (`NewChild`), which rests on
  `Control`.
- `OneForeground`: `AtMostOneFg`. A count of foreground jobs is not inductive;
  `ForegroundAwaited` is: the main program waits for each foreground job, or is
  on its way to do so, and as it waits for one thing only, there is one.
- `BackgroundSafe`: `BackgroundUntouched`. Only the main program puts a job in
  the background, and it cannot run while a terminal handler holds a pid; the
  exception, a new job with an old pid, is ruled out by `ListInv`.
- `JobControlImplemented`: the refinement of `JobControl`. Each write to the list
  (set a state, add, delete) is a step of it, every other action a stutter.

`Proxy1Proofs` is first about the buffer alone, from `SbufAssumption` (finitely many threads, at
least one slot). The invariant `BufInv` is three balances: each slot is free, holds an announced
item or is in the hands of one thread (`SlotsBalance`); the two indices are as far apart as the
items in, on their way in, and promised to a thread that has not counted `front` up
(`IndicesBalance`); one thread at most is between the lock and the unlock (`MutexBalance`). They
need each other only in the refinement: the first bounds the queue by `N`, the second says that the
queue is as long as its announced, added and promised items, so it has one to load and room to
store, and the third makes the thread that stores or loads the only one to touch its index. Positions less than `N` apart
are different slots (`SlotsDiffer`), so a store overwrites nothing that is still queued.

Then it proves for any number of workers, descriptors and slots, also from `Proxy1Assumption`:

- `TypeCorrect`: with the types, that no semaphore exceeds its capacity.
- `OneHolderSafe`: `OneHolder`. Its strengthening adds `Roles` (only main inserts, workers only
  remove, and a hand that waits for an item is empty) and `Servers` (a worker's
  server socket is no other worker's and no client's, so closing it closes no client).
- `FifoImplemented`: `ImplementsFifo`. The store is `Put`, the load is `Take`, giving back the slot
  is `Return`, every other step a stutter.

`EchoProofs` begins with the lemmas on `Rio`'s operators, from `RioAssumption`: what one move takes from the
buffer and what it leaves (`MoveSplits`, `ReadSplits`), and that a line collected piece by piece is the one
that `FirstLine` cuts from the whole text (`FirstLineFound`). Then it proves for each of the four
servers and any number of clients, agents and slots, any texts and buffer sizes, from `EchoAssumption`:

- `TypeCorrect`: `TypeOK`, and that the mutex of `echo_cnt.c` never exceeds one.
- `EchoInOrder`: `EchoedInOrder`. It needs to know of every character where it is: `Streams` says that what a
  client got, the part in hand, the reader's buffer, the network and what it has not sent yet make up its
  text, in this order. This is kept only if no two agents have one connection (`OnePlace`: it is in the
  backlog, in the pool's buffer, with main or with one agent) and if nobody sees an end of the stream that
  somebody else has caused (`HeldOpen`). After a client's disappearance only `Begun` is left.
- `LinesAreCut`: `LinesIntact`. `Lines` says that no proper beginning of the line in hand is a line, that it
  ends where a line ends or the text does, and that its written part is the end of what was echoed.
- `CounterIsSum`: `CountIsSum`. `CountHolds` holds the sums also while the mutex is taken, and that a thread
  about to store has loaded the present value, which `OnceAndMutex` keeps. The fold that
  defines `SumFunction` is not an operator the provers can compute with, and induction over it is out of
  reach, so a sum is shown to be the number of pairs `<<x, i>>` with `i <= f[x]` (`FoldIsUnique` and the
  lemmas after it, from the library's facts on cardinalities).
- `ZombiesSignalled`: `ZombieSignalled`, inductive given the types.

`EpollProofs` proves for any number of clients, slots and descriptors and any sizes, from `EpollAssumption`:

- `TypeCorrect`: `TypeOK`, with no further hypothesis: whatever peers do, and though slots are reused.
- `BytesAreOwn` and `EdgesAreKept`: `AnswerIsOwn` and `NoLostEdge`, all faults included, if no more clients
  connect than `MAX_STATES`. Without this hypothesis both are false (see section 3). `EpollInv` is what holds until
  a stream is reset; a stream stays reset (`EndedMoves`), so the induction is on `Unreset => EpollInv`. Its parts:
  `Quiet`, nothing fails and the standard input stays open; for each client, `EdgesOf` (only registered
  sockets have edges, and events name the slot of the registration), `NewOnes` (nothing was done for a client not
  accepted yet) and `Streams` (only its own pieces); for each slot, that it is erased or serves one client
  whose exchange is as far as the slot's state says (`Serving`, `Phase`), and `EdgeHolds`; for the table,
  `Turns`: the index has moved once for each event of the listening socket, of which a client causes one at most,
  so every slot from there on is unused. A handler concerns one client, and the lemmas `ClientSpared`
  and `ServingSpared` keep what holds of the others, so each action is proved for its own client and slot only.
- `NoneIsForgotten`: `NoneForgotten`, if moreover nothing is reset, clients connect one by one and read at once,
  the three faults under which it is false; requests that break off and refused connections are allowed.
  `Lonely` says that the slot for which main accepts is erased or nobody else waits, `Kept` which of a slot's two
  descriptors counts in which state.

`TinyProofs` proves for any connections, requests, files and sizes, from `TinyAssumption` (of each request, a
number of header lines and a query of names and numbers; of each regular file, a size):

- `TinyFramed`: `Framed`. The invariant `TinyInv` says of each connection who may still write to it and what
  exactly has been written so far, from the status line to the last byte of the body, in each place
  of the server's child and of the CGI program. The body's length is a sum over its pieces, of
  which the lemmas on sums say what a further piece adds.
- `TinyClosedClean`: `ClosedClean`, from the part of the invariant that relates what the child has read to where it is.

`ExerciseProofs` proves about the pipeline shell, the parsers, the library's loops and two exercises:

- `PromptHoldsNothing`: `NothingLeft` of `Pipeline`, for any sessions, programs, files and sizes of pipes, from
  `PipelineAssumption`: a line has fewer bars than a pipeline may have commands, as `MAXARGS` bounds both in the source.
  `PipelineInv` has the types, which children exist when the shell is where (`Forked`), and what a child
  may hold where it is (`Held`). That the commands of a line have places is induction over `parseargs`
  (`ParsesExist`, `OneArgument`, `CommandsAndBars`): the least argument at which it would fail does not exist.
- `LineComposes`: `Composed` of `Pipeline`, from `ItemsAssumption` as well: programs and files consist of items, the names
  behind `<` and `>` are files, and no line names a file that it writes a second time (`NamesFiles`); there its commands would
  race for the file. `LineInv` says of each command where its input and output go (`Place`), how much of its meaning it has in hand
  (`Works`) and has written (`Written`), that the pipe in front of it holds exactly what is written and not read yet
  (`Flowing`), and that the file it reads is as it was (`Kept`). What a killed writer has not written any more, nobody was going to read.
- `RaceStaysInside` and `PictureIsRight`: of `Mandelbrot` with any number of threads, from `MandelbrotAssumption`, for any
  picture and any points that escape or not. `PictureInv` is what no interleaving can spoil: the rows of two threads are different, and
  the shared offset is in the picture. `TurnsInv` is what holds under `TakeTurns`: the
  shared variables are those of the thread inside a row, `k` follows the iterations done (`Coherent`), and every point before
  the present ones has its colour (`DrawnBy`). Only the second needs the turns, so `PictureRight` follows with `TakeTurns` as its
  only hypothesis.
- `SentAndPrinted`: `BufHoldsInput`, `SentFromBuf` and `PrintedInOrder` of `Sockets`, from `SocketsAssumption`, for any inputs and
  answers, any first value of `nread`, any short writes and however the network cuts the stream. `ReadSoFar` says
  what the calls of `fread` so far have left in the buffer: that of a long input it is the last `FreadSize` bytes rests on all calls but
  the last being full. `SentSoFar` says that the stream is made of beginnings of the buffer, and `PrintedSoFar`
  where each byte is on its way back to the standard output;
  what the output buffer held before it was first cleared is printed once, behind the first piece read (`Dirty`).
- `WalkLeavesOne` and `ReadsAll`: `WalkRight` of `OpenFd` for any lists of addresses (`WalkInv`: the addresses before the
  present one do not work, and only the present one's socket may be open), and `AllRead` of `Csapp` for any stream and sizes (`ReadInv`:
  what is read, in the buffer and to come make up the beginning of the stream).
- `LinesAreMeant` and `RequestsOwnStrings`: `LinesMeant` of `CommandLine`, from `TypingAssumption`, for any number of lines that fit into the buffer, of any words that
  can be typed (one that is empty or has a blank is quoted and has no apostrophe, another does not begin with one) and any spacing, and `StringsOwn` of `HttpParser` for any requests. `LinesInv` keeps the place in what
  is typed; the lemmas before it follow `parseline` from word to word.

`ProgramsProofs` carries these over to the instance that the run `programs` checks: the constants of `MCPrograms` satisfy the
assumptions, a program's operators are those of the proofs' instance, and as long as it runs, the
others change nothing. So `Framed`, `ClosedClean`, `NothingLeft`, `Composed`, `ParsedRight`, `InOrder` and `PictureRight` of
`MCPrograms` are theorems of its `Spec`, as `ResponseFramed`, `GetsAreRead`, `PromptIsClean`, `LinesCompose`,
`ParsedAsMeant`, `ExchangesInOrder` and `PictureAlwaysRight`.

The invariants were checked by TLC before they were proved: `TypeInv`, `ListInv` and
`ForegroundInv` on the instance of `tsh_safety`, `ProxyInv` on that of `proxy1`, `EchoInv` on that
of `echo`, `EpollInv`, `Lonely` and `Kept` on that of `epoll_serves` with the faults their theorems allow,
and `TinyInv` and `PipelineInv` on that of `programs`. The other invariants of `ExerciseProofs` speak of sequences and numbers without a
bound, which TLC cannot enumerate; there the run `programs` checks the properties that they imply.

Only model-checked:

- All liveness (`Echoed`, `Answered`, `ConnectionsServed`, `PromptComesBack` and the others): TLAPS does not treat
  fairness; and `ListSpec`.
- `QuestionRight`, `AnswersInOrder`, and of `LibraryRight` all but `ReadsAll` and `WalkLeavesOne`: what recursive definitions compute (names and
  digits of any length), and `Dns`, whose fields are joined bit by bit.
- `DesiredOutput` and `HandedOver`: `Signals` and `ForkPipe` have fixed scripts and no
  parameters, so TLC covers every case there is.
- `TypeOK` of `MCPrograms`, the conjunction of the types of all its programs.

Neither proved nor checked: what the epoll proxy does to streams after a reset, where its properties fail.

## 5. Not modelled

- Wording and layout of what is printed; HTTP beyond the parts named above;
  `cgiprog.c`, which prints its environment; `catmatch`, `bandit` and the drivers.
- Memory errors as such: string copies without bounds (500 characters in
  `http_parser.c`, `MAXARGS` words in `parseline`, the resolver's array of 4 bytes for a
  printed address), uninitialised buffers of the first proxy. Uninitialised
  counters, indices and bytes whose value steers the program are modelled as any of a set of values.
- The width of the buffer's indices (it takes 2^31 connections).
- In hw4-signals: a standard output that is no terminal, whose buffer the handlers
  would share, and `sa_mask`, which main does not initialise and which is taken as empty.
- In hw5-sockets: calls that fail with -1, and zero bytes in the data, at which `printf` stops.
- In hw7-openmp: the arithmetic of the iteration, replaced by a table of the
  iterations a point takes.
- In `Tiny`: an `execve` or `open` that fails after `stat` succeeded, sizes `atoi`
  does not read. main never reaps its children; nothing in the model depends on it.
- SIGCONT from outside, several processes in one job's group; failures of `fork`
  outside the shell, `pthread_create`, `sem_wait`, `epoll_ctl` and `fcntl` in a program
  (`Csapp` has those of the wrappers on their own).

`PROJECT.json` gives a note for each hazard no property covers.

## 6. Plan

1. (done) `JobList`, `Tsh`, `JobControl`; runs; `TshProofs`.
2. (done) `Sbuf`, `Fifo`, `Proxy1`; `EpollProxy`.
3. (done) The other programs and the library: `EchoServers`, `Rio`, and the
   modules of `MCPrograms`.
4. (done) `Proxy1Proofs`, with the buffer's proofs.
5. (done) `EchoProofs`, `EpollProofs`.
6. (done) `TinyProofs`, `ExerciseProofs` (with the pipelines' composition, the parsers, the library's loops, and the
   exercises without premises on threads and writes), and `ProgramsProofs`, which brings their theorems to `MCPrograms`.
7. Remaining: `TypeOK` of `MCPrograms`, and of `Dns` what does not need bits.
