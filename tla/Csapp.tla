------------------------------- MODULE Csapp -------------------------------
(***************************************************************************)
(* The library of hw6-concurrency/csapp.c as its callers see it: a wrapper *)
(* returns what the library function returned, or ends the process.  Which *)
(* of the two is decided by a test that has to fit the way the function    *)
(* reports its failures, and what is printed must be the cause of this     *)
(* failure: errno keeps the value of an earlier one.  The tables below are *)
(* the wrappers of one section of the file each, with the test each makes; *)
(* a pointer is its value, NULL 0 and MAP_FAILED -1, and 1 stands for any  *)
(* other value.  The sio and the unbuffered and buffered rio functions     *)
(* are modelled with their loops.                                          *)
(***************************************************************************)
EXTENDS Integers, SequencesExt, TLC

CONSTANTS
    Longs,          \* what sio_putl is called with
    Stream,         \* what can be read: a sequence of items
    Wanted,         \* how many of them are asked for
    RIO_BUFSIZE

VARIABLES
    at,             \* "main", "called", "readn", "readnb", "returned", "exited"
    call,           \* the wrapper called, and what its library function returns
    errno,          \* 0, or one of those below
    handler,        \* whether Signal has installed one, and with which sa_flags
    status, cause,  \* of a process that has exited: its status, what it printed
    stream,         \* rio: what has not been read from the descriptor,
    internal,       \*   the unread part of rio_buf,
    got,            \*   and what the caller's buffer contains
    put             \* sio: the characters written

EINTR == 4
Earlier == 10       \* errno of a call before
Failed == 14        \* errno of the call at hand
Code == 3           \* an error code that is returned
Untouched == -1     \* where the call does not set errno

process == <<handler, status, cause>>
rio == <<stream, internal, got>>
vars == <<at, call, errno, process, rio, put>>

----------------------------------------------------------------------------
ProcessControl ==
    [Fork |-> "negative", Execve |-> "negative", Wait |-> "negative", Waitpid |-> "negative",
     Kill |-> "negative", Pause |-> "none", Sleep |-> "unsigned", Alarm |-> "none",
     Setpgid |-> "negative", Getpgrp |-> "none"]
SignalFunctions ==
    [Signal |-> "negative", Sigprocmask |-> "negative", Sigemptyset |-> "negative",
     Sigfillset |-> "negative", Sigaddset |-> "negative", Sigdelset |-> "negative",
     Sigismember |-> "negative", Sigsuspend |-> "errno"]
SioWrappers == [Sio_puts |-> "sio"]
UnixIO ==
    [Open |-> "negative", Read |-> "negative", Write |-> "negative", Lseek |-> "negative",
     Close |-> "negative", Select |-> "negative", Dup2 |-> "negative", Stat |-> "negative",
     Fstat |-> "negative"]
Directories == [Opendir |-> "null", Readdir |-> "null, errno", Closedir |-> "negative"]
MemoryMapping == [Mmap |-> "negative", Munmap |-> "negative"]
Storage == [Malloc |-> "null", Realloc |-> "null", Calloc |-> "null", Free |-> "none"]
StandardIO ==
    [Fclose |-> "nonzero", Fdopen |-> "null", Fgets |-> "null, ferror", Fopen |-> "null",
     Fputs |-> "negative", Fread |-> "short, ferror", Fwrite |-> "short"]
SocketsInterface ==
    [Socket |-> "negative", Setsockopt |-> "negative", Bind |-> "negative", Listen |-> "negative",
     Accept |-> "negative", Connect |-> "negative"]
ProtocolIndependent ==
    [Getaddrinfo |-> "code", Getnameinfo |-> "code", Freeaddrinfo |-> "none",
     Inet_ntop |-> "null", Inet_pton |-> "pton"]
DnsInterface == [Gethostbyname |-> "null, dns", Gethostbyaddr |-> "null, dns"]
Threads ==
    [Pthread_create |-> "code", Pthread_cancel |-> "code", Pthread_join |-> "code",
     Pthread_detach |-> "code", Pthread_exit |-> "none", Pthread_self |-> "none",
     Pthread_once |-> "none"]
Semaphores == [Sem_init |-> "negative", P |-> "negative", V |-> "negative"]
RioWrappers ==
    [Rio_readn |-> "negative", Rio_writen |-> "short", Rio_readnb |-> "negative",
     Rio_readlineb |-> "negative"]
OpenWrappers == [Open_clientfd |-> "negative", Open_listenfd |-> "negative"]

Tests == ProcessControl @@ SignalFunctions @@ SioWrappers @@ UnixIO @@ Directories @@ MemoryMapping
         @@ Storage @@ StandardIO @@ SocketsInterface @@ ProtocolIndependent @@ DnsInterface
         @@ Threads @@ Semaphores @@ RioWrappers @@ OpenWrappers
Wrappers == DOMAIN Tests

\* The error functions: what is printed as the cause, and the exit status.
unix_error      == [cause |-> errno, status |-> 0]
posix_error(rc) == [cause |-> rc, status |-> 0]     \* and gai_error
app_error       == [cause |-> 0, status |-> 0] \* and dns_error
sio_error       == [cause |-> 0, status |-> 1]

\* The error function that wrapper w calls: none or one.
Errors(w, rc, ferror) ==
    CASE Tests[w] = "negative"      -> IF rc < 0 THEN {unix_error} ELSE {}
      [] Tests[w] = "nonzero"       -> IF rc # 0 THEN {unix_error} ELSE {}
      [] Tests[w] = "null"          -> IF rc = 0 THEN {unix_error} ELSE {}
      [] Tests[w] = "null, errno"   -> IF rc = 0 /\ errno # 0 THEN {unix_error} ELSE {}
      [] Tests[w] = "null, ferror"  -> IF rc = 0 /\ ferror THEN {app_error} ELSE {}
      [] Tests[w] = "null, dns"     -> IF rc = 0 THEN {app_error} ELSE {}
      [] Tests[w] = "short"         -> IF rc < 1 THEN {unix_error} ELSE {}
      [] Tests[w] = "short, ferror" -> IF rc < 1 /\ ferror THEN {unix_error} ELSE {}
      [] Tests[w] = "code"          -> IF rc # 0 THEN {posix_error(rc)} ELSE {}
      [] Tests[w] = "pton"          -> IF rc = 0 THEN {app_error} ELSE IF rc < 0 THEN {unix_error} ELSE {}
      [] Tests[w] = "errno"         -> IF errno # EINTR THEN {unix_error} ELSE {}
      [] Tests[w] = "sio"           -> IF rc < 0 THEN {sio_error} ELSE {}
      [] Tests[w] \in {"none", "unsigned"} -> {}    \* an unsigned is never < 0

----------------------------------------------------------------------------
(* What the library functions return, from their documentation: the value,  *)
(* the errno they set, and the error indicator of the stream.               *)
Ret(rc, e, ferror) == [rc |-> rc, errno |-> e, ferror |-> ferror]
Gives(rcs) == {Ret(rc, Untouched, FALSE) : rc \in rcs}
Fails(rc)  == {Ret(rc, Failed, FALSE)}

Infallible == {"Pause", "Sleep", "Alarm", "Getpgrp", "Free", "Freeaddrinfo", "Pthread_exit",
               "Pthread_self", "Pthread_once"}
ReturnNull == {"Opendir", "Malloc", "Realloc", "Calloc", "Fdopen", "Fopen", "Inet_ntop"}
ReturnCode == {"Getaddrinfo", "Getnameinfo", "Pthread_create", "Pthread_cancel", "Pthread_join",
               "Pthread_detach"}

Failing(w) ==
    CASE w \in Infallible -> {}
      [] w \in ReturnNull \cup {"Readdir"} -> Fails(0)
      [] w \in ReturnCode -> Gives({Code})
      [] w \in {"Gethostbyname", "Gethostbyaddr"} -> Gives({0})
      [] w \in {"Fgets", "Fread", "Fwrite"} -> {Ret(0, Failed, TRUE)}
      [] w = "Inet_pton"  -> Gives({0}) \cup Fails(-1)
      [] w \in {"Open_clientfd", "Open_listenfd"} -> Gives({-2}) \cup Fails(-1)
      [] OTHER            -> Fails(-1)
Succeeding(w) ==
    CASE w \in ReturnNull \cup {"Gethostbyname", "Gethostbyaddr", "Fwrite", "Rio_writen", "Inet_pton"}
          -> Gives({1})
      [] w \in ReturnCode \cup {"Fclose"} -> Gives({0})
      [] w \in {"Readdir", "Fgets", "Fread"} -> Gives({0, 1})   \* 0 at the end
      [] w = "Execve"     -> {}                                 \* does not return
      [] w = "Sigsuspend" -> {Ret(-1, EINTR, FALSE)}
      [] OTHER            -> Gives({0, 1})

\* A caught signal makes these return; SA_RESTART helps all but select.
Interruptible == {"Wait", "Waitpid", "Open", "Read", "Write", "Sio_puts", "Select", "Accept", "Connect", "P"}
Interrupted(w) ==
    IF (w = "Select" /\ handler = "restart") \/ (w \in Interruptible /\ handler = "no restart")
    THEN {Ret(-1, EINTR, FALSE)} ELSE {}

Returned(w) == Failing(w) \cup Succeeding(w) \cup Interrupted(w)

----------------------------------------------------------------------------
TypeOK ==
    /\ at \in {"main", "called", "readn", "readnb", "returned", "exited"}
    /\ errno \in {0, Earlier, Failed, EINTR}
    /\ handler \in {"none", "restart", "no restart"}
    /\ Len(got) <= Wanted /\ Len(internal) <= RIO_BUFSIZE

NoCall == [name |-> "", rc |-> 0, set |-> Untouched, ferror |-> FALSE]
Init ==
    /\ at = "main" /\ call = NoCall
    /\ errno \in {0, Earlier} /\ handler = "none" /\ status = 0 /\ cause = 0
    /\ stream = << >> /\ internal = << >> /\ got = << >> /\ put = << >>

\* A wrapper calls its function.  Readdir has cleared errno.
Before(w) == IF w = "Readdir" THEN 0 ELSE errno
Call(w) ==
    /\ at = "main" /\ at' = "called"
    /\ \E r \in Returned(w) :
           /\ call' = [name |-> w, rc |-> r.rc, set |-> r.errno, ferror |-> r.ferror]
           /\ errno' = IF r.errno = Untouched THEN Before(w) ELSE r.errno
    /\ UNCHANGED <<process, rio, put>>

Ends == Errors(call.name, call.rc, call.ferror)
Exit ==
    /\ at = "called" /\ at' = "exited"
    /\ \E e \in Ends : status' = e.status /\ cause' = e.cause
    /\ UNCHANGED <<call, errno, handler, rio, put>>

Return ==
    /\ at = "called" /\ Ends = {} /\ call.name # "Signal" /\ at' = "returned"
    /\ UNCHANGED <<call, errno, process, rio, put>>

\* Mutant: action.sa_flags stays 0.
Signal_NoRestart ==
    /\ at = "called" /\ Ends = {} /\ call.name = "Signal"
    /\ handler' = "no restart" /\ at' = "main" /\ call' = NoCall
    /\ UNCHANGED <<errno, status, cause, rio, put>>

\* Signal returns to main, which goes on with the handler installed.
Signal ==
    /\ at = "called" /\ Ends = {} /\ call.name = "Signal"
    /\ handler' = "restart" /\ at' = "main" /\ call' = NoCall
    /\ UNCHANGED <<errno, status, cause, rio, put>>

----------------------------------------------------------------------------
(* sio_ltoa writes the digits from the last to the first, at least one; a   *)
(* digit is v % b, which in C has the sign of v, so a negative v gives one  *)
(* character before '0'.                                                    *)
CQuot(v) == IF v >= 0 THEN v \div 10 ELSE -((-v) \div 10)
Digit(v) == v - 10 * CQuot(v)
Digits(v) ==
    LET upto[n \in Nat] == IF n > 0 THEN <<Digit(n)>> \o upto[n \div 10] ELSE << >>
    IN  <<Digit(v)>> \o IF CQuot(v) > 0 THEN upto[CQuot(v)] ELSE << >>

\* The two ends of s are exchanged until i and j meet.
sio_reverse(s) ==
    LET Swapped(t, i) == [t EXCEPT ![i] = t[Len(s) + 1 - i], ![Len(s) + 1 - i] = t[i]]
    IN  FoldLeft(Swapped, s, [i \in 1 .. Len(s) \div 2 |-> i])
sio_ltoa(v) == sio_reverse(Digits(v))
Sio_putl(v) ==
    /\ at = "main" /\ put' = sio_ltoa(v) /\ at' = "returned"
    /\ call' = [NoCall EXCEPT !.name = "Sio_putl", !.rc = v]
    /\ UNCHANGED <<errno, process, rio>>

----------------------------------------------------------------------------
(* rio_readn and rio_readnb: read is called until Wanted items have come or *)
(* the stream has ended; it returns any part of what is there.              *)
Begin(name) ==
    /\ at = "main" /\ at' = name /\ call' = [NoCall EXCEPT !.name = name]
    /\ stream' \in {SubSeq(Stream, 1, k) : k \in 0 .. Len(Stream)}
    /\ UNCHANGED <<errno, process, internal, got, put>>

Left == Wanted - Len(got)
Done(rc) == at' = "returned" /\ call' = [call EXCEPT !.rc = rc]

ReadsPart ==
    /\ at = "readn" /\ Left > 0
    /\ \E k \in 1 .. Min({Left, Len(stream)}) :
           got' = got \o SubSeq(stream, 1, k) /\ stream' = SubSeq(stream, k + 1, Len(stream))
    /\ UNCHANGED <<at, call, errno, process, internal, put>>

\* The handlers of Signal restart it; another one may make read fail.
ReadInterrupted ==
    /\ at \in {"readn", "readnb"} /\ Left > 0 /\ internal = << >>
    /\ errno' = EINTR
    /\ UNCHANGED <<at, call, process, rio, put>>

ReadFails ==
    /\ at \in {"readn", "readnb"} /\ Left > 0 /\ internal = << >>
    /\ errno' = Failed /\ Done(-1)
    /\ UNCHANGED <<process, rio, put>>

\* All wanted, or read has returned 0.
ReadEnds ==
    /\ at \in {"readn", "readnb"} /\ (Left = 0 \/ (stream = << >> /\ internal = << >>))
    /\ Done(Len(got))
    /\ UNCHANGED <<errno, process, rio, put>>

\* rio_read fills the empty buffer, and then copies what is wanted of it.
Refills ==
    /\ at = "readnb" /\ Left > 0 /\ internal = << >>
    /\ \E k \in 1 .. Min({RIO_BUFSIZE, Len(stream)}) :
           internal' = SubSeq(stream, 1, k) /\ stream' = SubSeq(stream, k + 1, Len(stream))
    /\ UNCHANGED <<at, call, errno, process, got, put>>

Copies ==
    /\ at = "readnb" /\ Left > 0 /\ internal # << >>
    /\ LET cnt == Min({Left, Len(internal)})
       IN  /\ got' = got \o SubSeq(internal, 1, cnt)
           /\ internal' = SubSeq(internal, cnt + 1, Len(internal))
    /\ UNCHANGED <<at, call, errno, process, stream, put>>

rio_readn == Begin("readn") \/ ReadsPart
rio_readnb == Begin("readnb") \/ Refills \/ Copies

Next ==
    \/ \E w \in Wrappers : Call(w)
    \/ Exit \/ Return \/ Signal
    \/ \E v \in Longs : Sio_putl(v)
    \/ rio_readn \/ rio_readnb \/ ReadInterrupted \/ ReadFails \/ ReadEnds
Spec == Init /\ [][Next]_vars

----------------------------------------------------------------------------
\* A wrapper ends the process exactly if its function failed.
FailureEnds ==
    call.name \in Wrappers =>
        LET result == Ret(call.rc, call.set, call.ferror)
            failed == result \in Failing(call.name) \cup Interrupted(call.name)
        IN  (at = "exited" => failed) /\ (at = "returned" => ~ failed)

\* What it prints is the cause of this failure, never what an earlier call left
\* in errno, except when open_clientfd or open_listenfd have found no address.
CauseIsOwn ==
    at = "exited" /\ call.rc # -2 => cause \in {0, call.set} \cup (IF call.name \in ReturnCode THEN {Code} ELSE {})

\* A signal whose handler Signal has installed ends nobody, except in Select.
SignalsEndNobody ==
    at = "exited" /\ cause = EINTR => call.name = "Select"

\* The digits that Sio_putl writes are those of its argument, unless that is
\* negative.
DigitsRight ==
    at = "returned" /\ call.name = "Sio_putl" /\ call.rc >= 0 =>
        /\ FoldLeft(LAMBDA n, d : 10 * n + d, 0, put) = call.rc
        /\ call.rc > 0 => put[1] # 0

\* However the stream is cut, and after any number of interruptions, rio_readn
\* and rio_readnb return its next items, all that are wanted or all there are.
AllRead ==
    at = "returned" /\ call.name \in {"readn", "readnb"} /\ call.rc >= 0 =>
        /\ call.rc = Len(got) /\ got = SubSeq(Stream, 1, Len(got))
        /\ Len(got) = Wanted \/ (stream = << >> /\ internal = << >>)

LibraryRight == FailureEnds /\ CauseIsOwn /\ SignalsEndNobody /\ DigitsRight /\ AllRead
=============================================================================
