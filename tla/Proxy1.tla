------------------------------- MODULE Proxy1 -------------------------------
(***************************************************************************)
(* The prethreaded proxy of proxy-lab1 (proxy.c): the main thread accepts  *)
(* connections and inserts their descriptors into the buffer, workers      *)
(* remove them and carry each request to its server and the response back. *)
(* Every wrapper of a system call (Read, Write, Getaddrinfo) ends the      *)
(* whole process when the call fails.                                      *)
(***************************************************************************)
EXTENDS Sbuf

CONSTANTS
    Main,       \* the thread that runs main
    Workers,    \* NTHREADS threads
    Fds,        \* the descriptors left to the process beside the listening one
    Failed,     \* accept's -1
    MaxAccepts  \* bound of the model: calls of accept

ASSUME Proxy1Assumption ==
    /\ Main \notin Workers
    /\ Threads = Workers \cup {Main}
    /\ Fds \subseteq Nat
    /\ Items = Fds \cup {Failed} /\ Failed \notin Fds
    /\ MaxAccepts \in Nat

VARIABLES
    up,         \* the process runs
    fd,         \* what each descriptor is open for
    pc,         \* where each worker is in its loop
    sfd,        \* the server's descriptor of each worker
    accepts     \* calls of accept so far

\* A worker's connfd is held[w], what sbuf_remove returned.
proxyVars == <<up, fd, pc, sfd, accepts>>
vars == <<sbufVars, proxyVars>>

TypeOK ==
    /\ SbufTypeOK
    /\ up \in BOOLEAN
    /\ fd \in [Fds -> {"free", "client", "server"}]
    /\ pc \in [Workers -> {"loop", "request", "socket", "connect", "send",
                           "receive", "reply", "close"}]
    /\ sfd \in [Workers -> Fds \cup {NoItem}]
    /\ accepts \in 0 .. MaxAccepts

Init ==
    /\ sbuf_init
    /\ up = TRUE
    /\ fd = [f \in Fds |-> "free"]
    /\ pc = [w \in Workers |-> "loop"]
    /\ sfd = [w \in Workers |-> NoItem]
    /\ accepts = 0

\* The kernel opens the lowest free descriptor.
Free == {f \in Fds : fd[f] = "free"}
Lowest == CHOOSE f \in Free : \A g \in Free : f <= g
Opened(use) == Free # {} /\ fd' = [fd EXCEPT ![Lowest] = use]
Closed(f)   == fd' = [fd EXCEPT ![f] = "free"]

Goes(w, from, to) ==
    /\ up
    /\ at[w] = "out"
    /\ pc[w] = from
    /\ pc' = [pc EXCEPT ![w] = to]

----------------------------------------------------------------------------
(* The main thread inserts what accept returned without looking at it. *)

Accept ==
    /\ up
    /\ accepts < MaxAccepts /\ accepts' = accepts + 1
    /\ \/ Opened("client") /\ InsertCall(Main, Lowest)
       \/ Free = {} /\ UNCHANGED fd /\ InsertCall(Main, Failed)
    /\ UNCHANGED <<up, pc, sfd>>

Inserting ==
    /\ up
    /\ sbuf_insert(Main)
    /\ UNCHANGED proxyVars

----------------------------------------------------------------------------
(* A worker. *)

Remove(w) ==
    /\ Goes(w, "loop", "request")
    /\ RemoveCall(w)
    /\ UNCHANGED <<up, fd, sfd, accepts>>

Removing(w) ==
    /\ up
    /\ sbuf_remove(w)
    /\ UNCHANGED proxyVars

\* get_client_request, when a complete request arrives.
GetRequest(w) ==
    /\ Goes(w, "request", "socket")
    /\ held[w] # Failed
    /\ UNCHANGED <<sbufVars, up, fd, sfd, accepts>>

\* send_request_to_server opens a socket for an address of the server, ...
Socket(w) ==
    /\ Goes(w, "socket", "connect")
    /\ Opened("server")
    /\ sfd' = [sfd EXCEPT ![w] = Lowest]
    /\ UNCHANGED <<sbufVars, up, accepts>>

\* ... closes it and tries the next address, ...
ConnectFails(w) ==
    /\ Goes(w, "connect", "socket")
    /\ Closed(sfd[w])
    /\ sfd' = [sfd EXCEPT ![w] = NoItem]
    /\ UNCHANGED <<sbufVars, up, accepts>>

\* ... or connects ...
Connect(w) ==
    /\ Goes(w, "connect", "send")
    /\ UNCHANGED <<sbufVars, up, fd, sfd, accepts>>

\* ... and writes the request.
SendRequest(w) ==
    /\ Goes(w, "send", "receive")
    /\ UNCHANGED <<sbufVars, up, fd, sfd, accepts>>

\* receive_server_response: up to the end of the stream.
ReceiveResponse(w) ==
    /\ Goes(w, "receive", "reply")
    /\ UNCHANGED <<sbufVars, up, fd, sfd, accepts>>

\* Mutant: the client is closed where the server should be.
SendResponse_Close(w) ==
    /\ Goes(w, "reply", "close")
    /\ Closed(held[w])
    /\ sfd' = [sfd EXCEPT ![w] = NoItem]
    /\ UNCHANGED <<sbufVars, up, accepts>>

\* send_response_to_client, after which act_as_server_and_client returns:
\* sfd goes out of scope and is still open.
SendResponse(w) ==
    /\ Goes(w, "reply", "close")
    /\ sfd' = [sfd EXCEPT ![w] = NoItem]
    /\ UNCHANGED <<sbufVars, up, fd, accepts>>

\* thread: close(connfd).
Close(w) ==
    /\ Goes(w, "close", "loop")
    /\ Closed(held[w])
    /\ held' = [held EXCEPT ![w] = NoItem]
    /\ UNCHANGED <<buf, front, rear, mutex, slots, items, at, up, sfd, accepts>>

(* A call on the way fails (the descriptor is accept's -1, the client left  *)
(* an incomplete request, the name does not resolve, no descriptor is free, *)
(* no address answers, a peer resets): the process ends, with all workers.  *)
Fails(w) ==
    /\ up /\ up' = FALSE
    /\ at[w] = "out"
    /\ pc[w] \in {"request", "socket", "send", "receive", "reply"}
    /\ UNCHANGED <<sbufVars, fd, pc, sfd, accepts>>

----------------------------------------------------------------------------
\* The steps that wait for no peer.
ThreadStep(t) ==
    \/ t = Main /\ Inserting
    \/ t \in Workers /\ (Remove(t) \/ Removing(t) \/ Close(t))

PeerStep(w) ==
    \/ GetRequest(w)
    \/ Socket(w) \/ ConnectFails(w) \/ Connect(w)
    \/ SendRequest(w) \/ ReceiveResponse(w) \/ SendResponse(w)
    \/ Fails(w)

Next ==
    \/ Accept
    \/ \E t \in Threads : ThreadStep(t)
    \/ \E w \in Workers : PeerStep(w)

Spec == Init /\ [][Next]_vars

(* Threads that can run do run; clients and servers are under no obligation.*)
FairSpec == Spec /\ \A t \in Threads : WF_vars(ThreadStep(t))

----------------------------------------------------------------------------
Unstored(f) == {t \in Threads : held[t] = f /\ at[t] \notin {"unlock_ins", "post_item"}}
Queued(f)   == {i \in DOMAIN Queue : Queue[i] = f}
Serving(w)  == at[w] = "out" /\ pc[w] # "loop"

(* Every client's descriptor is in exactly one place: in the hand of the    *)
(* accepting thread, in the buffer, or with one worker.  None is lost on    *)
(* the way or served twice, and none is closed while somebody will still    *)
(* use it, when accept could give its number to another client.             *)
OneHolder ==
    \A f \in Fds :
        Cardinality(Unstored(f)) + Cardinality(Queued(f)) = IF fd[f] = "client" THEN 1 ELSE 0

(* A connection that was accepted reaches a worker, as long as the process  *)
(* lives and the workers do not all wait for their peers: no wake-up of     *)
(* the semaphores is lost.                                                  *)
Reaches(f) == \E w \in Workers : held[w] = f /\ Serving(w)
ConnectionsServed ==
    \A f \in Fds :
        fd[f] = "client" ~> (Reaches(f) \/ ~ up \/ \A w \in Workers : Serving(w))
=============================================================================
