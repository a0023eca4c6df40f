----------------------------- MODULE EpollProxy -----------------------------
(***************************************************************************)
(* The event-driven proxy of proxy-lab2 (proxy.c): one thread, sockets     *)
(* that do not block, edge-triggered epoll, and a conn_state_t per client  *)
(* that says how far its request is.  A handler runs to its end in one     *)
(* step; the peers move between the steps, also between epoll_wait and the *)
(* handling of the events it reported.                                     *)
(***************************************************************************)
EXTENDS Naturals, Sequences, FiniteSets

CONSTANTS
    Clients,
    MaxStates,   \* MAX_STATES
    MaxObject,   \* MAX_OBJECT_SIZE, in pieces of a response
    ResLen,      \* pieces of a response
    Fds,         \* descriptors, 0 (the standard input) among them
    Unused, Stdin, Listen,
    Faults       \* what peers may do beside their part, of AllFaults

(* burst: connect while another connection waits to be accepted; slow: be   *)
(* late to read the response; refuse: not accept the proxy's connection;    *)
(* eof: end the stream in the middle of the request; reset: reset a stream. *)
AllFaults == {"burst", "slow", "refuse", "eof", "reset"}

Sockets == {"client", "server"} \X Clients

ASSUME EpollAssumption ==
    /\ IsFiniteSet(Clients)
    /\ MaxStates \in Nat \ {0} /\ MaxObject \in Nat \ {0} /\ ResLen \in Nat \ {0}
    /\ Fds \subseteq Nat /\ 0 \in Fds
    /\ Faults \subseteq AllFaults
    /\ {Unused, Stdin, Listen} \cap Sockets = {} /\ Unused # Stdin

Slots   == 0 .. MaxStates - 1
NoSlot  == MaxStates
ReqLen  == 2   \* pieces of a request

\* What streams are made of: the beginning and the end of a client's request,
\* the rewritten request, and the response to it.
Pieces == {"part", "end", "query", "answer"} \X Clients

VARIABLES
    up,        \* "up", "stuck" in a read, or "down"
    file,      \* what each descriptor is open for
    conn,      \* conn_states
    idx,       \* conn_state_idx
    accepting, \* the slot for which connect_to_client runs, or NoSlot
    batch,     \* the events of the last epoll_wait not handled yet
    watch,     \* what epoll watches each socket for: "no", "in", "out"
    ptr,       \* data.ptr of each socket's registration
    ready,     \* sockets with an edge that was not reported yet
    backlog,   \* clients that connected and were not accepted yet
    sent,      \* pieces that were sent to the proxy on each socket
    inbox,     \* pieces that came on each socket and were not read
    ended,     \* each socket's stream: "none" yet, "open", "eof", "reset"
    full,      \* sockets that take no more pieces for now
    got        \* pieces that were written to each socket

vars == <<up, file, conn, idx, accepting, batch, watch, ptr, ready,
          backlog, sent, inbox, ended, full, got>>

peers == <<backlog, sent, ended>>

TypeOK ==
    /\ up \in {"up", "stuck", "down"}
    /\ file \in [Fds -> Sockets \cup {Unused, Stdin}]
    /\ \A s \in Slots :
           /\ {conn[s].client, conn[s].server} \subseteq Fds
           /\ conn[s].state \in {"READ_REQ", "SEND_REQ", "READ_RES", "SEND_RES"}
           /\ conn[s].req \in Seq(Pieces) /\ conn[s].res \in Seq(Pieces)
           /\ Len(conn[s].res) <= MaxObject
           /\ conn[s].wroteServer \in 0 .. ReqLen /\ conn[s].wroteClient \in 0 .. MaxObject
    /\ idx \in Slots /\ accepting \in Slots \cup {NoSlot}
    /\ watch \in [Sockets -> {"no", "in", "out"}] /\ ptr \in [Sockets -> Slots]
    /\ ready \subseteq Sockets \cup {Listen} /\ full \subseteq Sockets
    /\ inbox \in [Sockets -> Seq(Pieces)] /\ got \in [Sockets -> Seq(Pieces)]

\* init_conn_state
Fresh == [client |-> 0, server |-> 0, req |-> <<>>, res |-> <<>>,
          state |-> "READ_REQ", wroteServer |-> 0, wroteClient |-> 0]

Init ==
    /\ up = "up"
    /\ file = [f \in Fds |-> IF f = 0 THEN Stdin ELSE Unused]
    /\ conn = [s \in Slots |-> Fresh]
    /\ idx = 0 /\ accepting = NoSlot /\ batch = {}
    /\ watch = [k \in Sockets |-> "no"] /\ ptr = [k \in Sockets |-> 0]
    /\ ready = {} /\ backlog = {}
    /\ sent = [k \in Sockets |-> 0]
    /\ inbox = [k \in Sockets |-> <<>>] /\ ended = [k \in Sockets |-> "none"]
    /\ full = {} /\ got = [k \in Sockets |-> <<>>]

----------------------------------------------------------------------------
(* Descriptors and epoll. *)

Open(k) == \E f \in Fds : file[f] = k
Free    == {f \in Fds : file[f] = Unused}
Lowest  == CHOOSE f \in Free : \A g \in Free : f <= g

Readable(k) == inbox[k] # <<>> \/ ended[k] \in {"eof", "reset"}
Due(k) ==
    \/ watch[k] = "in" /\ Readable(k)
    \/ watch[k] = "out" /\ k \notin full
    \/ watch[k] # "no" /\ ended[k] = "reset"

\* close: the socket leaves epoll with its last descriptor.
Close(fds) ==
    LET gone == {file[f] : f \in fds} IN
    /\ file'  = [f \in Fds |-> IF f \in fds THEN Unused ELSE file[f]]
    /\ watch' = [k \in Sockets |-> IF k \in gone THEN "no" ELSE watch[k]]
    /\ ready' = ready \ gone

Becomes(result) ==
    /\ up' = result
    /\ UNCHANGED <<file, conn, idx, accepting, watch, ptr, ready, inbox, full, got, peers>>

----------------------------------------------------------------------------
(* main's loop. *)

EpollWait ==
    /\ up = "up" /\ accepting = NoSlot /\ batch = {} /\ ready # {}
    /\ batch' = {[sock |-> k, slot |-> ptr[k], bad |-> ended[k] = "reset"] :
                     k \in {j \in ready \ {Listen} : Due(j)}}
                \cup {[sock |-> k, slot |-> NoSlot, bad |-> FALSE] : k \in ready \cap {Listen}}
    /\ ready' = {}
    /\ UNCHANGED <<up, file, conn, idx, accepting, watch, ptr, inbox, full, got, peers>>

\* The handling of an event begins.
Takes(e) ==
    /\ up = "up" /\ accepting = NoSlot
    /\ e \in batch /\ batch' = batch \ {e}

Skip(e) ==
    /\ Takes(e) /\ e.bad
    /\ UNCHANGED <<up, file, conn, idx, accepting, watch, ptr, ready, inbox, full, got, peers>>

\* Mutant: the index does not return to 0.
NewClient_NoWrap(e) ==
    /\ Takes(e) /\ e.sock = Listen
    /\ accepting' = idx
    /\ idx' = idx + 1
    /\ UNCHANGED <<up, file, conn, watch, ptr, ready, inbox, full, got, peers>>

\* One slot is chosen for the event, then connect_to_client accepts for it.
NewClient(e) ==
    /\ Takes(e) /\ e.sock = Listen
    /\ accepting' = idx
    /\ idx' = (idx + 1) % MaxStates
    /\ UNCHANGED <<up, file, conn, watch, ptr, ready, inbox, full, got, peers>>

AcceptOne(c) ==
    /\ up = "up" /\ accepting # NoSlot
    /\ c \in backlog /\ backlog' = backlog \ {c}
    /\ Free # {} /\ Lowest > 0
    /\ file'  = [file EXCEPT ![Lowest] = <<"client", c>>]
    /\ conn'  = [conn EXCEPT ![accepting].client = Lowest]
    /\ watch' = [watch EXCEPT ![<<"client", c>>] = "in"]
    /\ ptr'   = [ptr EXCEPT ![<<"client", c>>] = accepting]
    /\ ready' = IF Readable(<<"client", c>>) THEN ready \cup {<<"client", c>>} ELSE ready
    /\ UNCHANGED <<up, idx, accepting, batch, sent, ended, inbox, full, got>>

\* accept returned 0: the loop takes the new connection for an error.
AcceptZero(c) ==
    /\ up = "up" /\ accepting # NoSlot
    /\ c \in backlog /\ backlog' = backlog \ {c}
    /\ 0 \in Free
    /\ file' = [file EXCEPT ![0] = <<"client", c>>]
    /\ accepting' = NoSlot
    /\ UNCHANGED <<up, conn, idx, batch, watch, ptr, ready, sent, ended, inbox, full, got>>

AcceptNoMore ==
    /\ up = "up" /\ accepting # NoSlot
    /\ backlog = {} \/ Free = {}
    /\ accepting' = NoSlot
    /\ UNCHANGED <<up, file, conn, idx, batch, watch, ptr, ready, inbox, full, got, peers>>

\* An event of a connection is dispatched on the state of its slot.
Dispatch(e, state) ==
    /\ Takes(e) /\ ~ e.bad /\ e.sock # Listen
    /\ conn[e.slot].state = state

\* What the descriptor of the slot's next read or write names.
Awaited(s) ==
    file[IF conn[s].state \in {"READ_REQ", "SEND_RES"} THEN conn[s].client ELSE conn[s].server]

Broken(k) == k = Unused \/ (k \in Sockets /\ ended[k] = "reset")

\* A read or write of the first three handlers fails.
Cancel(e) ==
    /\ \E state \in {"READ_REQ", "SEND_REQ", "READ_RES"} : Dispatch(e, state)
    /\ Broken(Awaited(e.slot))
    /\ Close({conn[e.slot].client, conn[e.slot].server})
    /\ UNCHANGED <<up, conn, idx, accepting, ptr, inbox, full, got, peers>>

----------------------------------------------------------------------------
(* read_request *)

Complete(req) == \E i \in DOMAIN req : req[i][1] = "end"

ReadRequest(e) ==
    LET s   == e.slot
        in  == Awaited(s)
        req == conn[s].req \o inbox[in] IN
    /\ Dispatch(e, "READ_REQ")
    /\ in \in Sockets /\ ~ Broken(in)
    /\ ~ Complete(req) /\ ended[in] = "open"
    /\ conn' = [conn EXCEPT ![s].req = req]
    /\ inbox' = [inbox EXCEPT ![in] = <<>>]
    /\ UNCHANGED <<up, file, idx, accepting, watch, ptr, ready, full, got, peers>>

\* read of the standard input blocks; after the end of the stream it is
\* called for ever.
ReadRequestStuck(e) ==
    LET in == Awaited(e.slot) IN
    /\ Dispatch(e, "READ_REQ")
    /\ \/ in = Stdin
       \/ /\ in \in Sockets /\ ended[in] = "eof"
          /\ ~ Complete(conn[e.slot].req \o inbox[in])
    /\ Becomes("stuck")

\* The request is complete: connect_to_server and EPOLL_CTL_ADD.
RequestComplete(e) ==
    LET in == Awaited(e.slot) IN
    /\ Dispatch(e, "READ_REQ")
    /\ in \in Sockets /\ ~ Broken(in)
    /\ Complete(conn[e.slot].req \o inbox[in])

\* The stream to a client's server is opened once, as its request is complete once.
Connect(e) ==
    LET s   == e.slot
        in  == Awaited(s)
        req == conn[s].req \o inbox[in]
        out == <<"server", Head(req)[2]>> IN
    /\ RequestComplete(e)
    /\ Free # {}
    /\ inbox' = [inbox EXCEPT ![in] = <<>>]
    /\ file' = [file EXCEPT ![Lowest] = out]
    /\ conn' = [conn EXCEPT ![s].req = req, ![s].server = Lowest, ![s].state = "SEND_REQ"]
    /\ watch' = [watch EXCEPT ![out] = "out"]
    /\ ptr' = [ptr EXCEPT ![out] = s]
    /\ ready' = ready \cup {out}
    /\ ended' = [ended EXCEPT ![out] = IF @ = "none" THEN "open" ELSE @]
    /\ UNCHANGED <<up, idx, accepting, full, got, backlog, sent>>

\* The name does not resolve, no address answers, or no descriptor is left.
ConnectFails(e) ==
    /\ RequestComplete(e)
    /\ "refuse" \in Faults \/ Free = {}
    /\ Becomes("down")

----------------------------------------------------------------------------
(* Writing.  A socket that is not full takes at least one piece; when it    *)
(* does not take them all it is full, and the next write says EAGAIN.       *)

Query(c)    == [i \in 1 .. ReqLen |-> <<"query", c>>]
Response(c) == [i \in 1 .. ResLen |-> <<"answer", c>>]

\* Mutant: what was written already is written again.
From_Start(data, n) == data

From(data, n) == SubSeq(data, n + 1, Len(data))

Write(k, data, n) ==
    /\ k \in Sockets /\ ~ Broken(k)
    /\ n = 0 <=> k \in full \/ data = <<>>
    /\ n < Len(data) => k[1] = "server" \/ "slow" \in Faults
    /\ got' = [got EXCEPT ![k] = @ \o SubSeq(data, 1, n)]
    /\ full' = IF n < Len(data) THEN full \cup {k} ELSE full

(* send_request *)

SendRequestSome(e) ==
    LET s == e.slot
        data == From(Query(Head(conn[s].req)[2]), conn[s].wroteServer) IN
    /\ Dispatch(e, "SEND_REQ")
    /\ \E n \in 0 .. Len(data) - 1 :
           /\ Write(Awaited(s), data, n)
           /\ conn' = [conn EXCEPT ![s].wroteServer = @ + n]
    /\ UNCHANGED <<up, file, idx, accepting, watch, ptr, ready, inbox, peers>>

\* Mutant: the server's socket is still watched for writing.
SendRequestAll_NoMod(e) ==
    LET s == e.slot
        data == From(Query(Head(conn[s].req)[2]), conn[s].wroteServer) IN
    /\ Dispatch(e, "SEND_REQ")
    /\ Write(Awaited(s), data, Len(data))
    /\ conn' = [conn EXCEPT ![s].wroteServer = ReqLen, ![s].state = "READ_RES"]
    /\ UNCHANGED <<up, file, idx, accepting, watch, ptr, ready, inbox, peers>>

SendRequestAll(e) ==
    LET s == e.slot
        out == Awaited(s)
        data == From(Query(Head(conn[s].req)[2]), conn[s].wroteServer) IN
    /\ Dispatch(e, "SEND_REQ")
    /\ Write(out, data, Len(data))
    /\ up' = IF watch[out] # "no" THEN up ELSE "down"
    /\ watch' = [watch EXCEPT ![out] = "in"]
    /\ ptr' = [ptr EXCEPT ![out] = s]
    /\ ready' = IF Readable(out) THEN ready \cup {out} ELSE ready
    /\ conn' = [conn EXCEPT ![s].wroteServer = ReqLen, ![s].state = "READ_RES"]
    /\ UNCHANGED <<file, idx, accepting, inbox, peers>>

(* read_response: what fits into the buffer; when it is full, read returns  *)
(* 0 as at the end of the stream.                                           *)

Fits(s) ==
    LET in == Awaited(s)
        room == MaxObject - Len(conn[s].res) IN
    SubSeq(inbox[in], 1, IF Len(inbox[in]) < room THEN Len(inbox[in]) ELSE room)

ReadAll(s) ==
    LET in == Awaited(s) IN
    \/ Len(conn[s].res) + Len(Fits(s)) = MaxObject
    \/ Fits(s) = inbox[in] /\ ended[in] = "eof"

Receive(e) ==
    LET s == e.slot
        in == Awaited(s) IN
    /\ Dispatch(e, "READ_RES")
    /\ in \in Sockets /\ ~ Broken(in)
    /\ inbox' = [inbox EXCEPT ![in] = From(@, Len(Fits(s)))]

ReadResponseSome(e) ==
    LET s == e.slot IN
    /\ Receive(e)
    /\ ~ ReadAll(s)
    /\ conn' = [conn EXCEPT ![s].res = @ \o Fits(s)]
    /\ UNCHANGED <<up, file, idx, accepting, watch, ptr, ready, full, got, peers>>

\* The process exits when the client's descriptor is not registered any more.
ReadResponseAll(e) ==
    LET s == e.slot
        in == Awaited(s)
        client == file[conn[s].client] IN
    /\ Receive(e)
    /\ ReadAll(s)
    /\ up' = IF client \in Sockets /\ watch[client] # "no" THEN up ELSE "down"
    /\ file' = [file EXCEPT ![conn[s].server] = Unused]
    /\ watch' = [k \in Sockets |-> IF k = in THEN "no" ELSE IF k = client THEN "out" ELSE watch[k]]
    /\ ready' = (ready \ {in}) \cup ({client} \cap (Sockets \ full))
    /\ ptr' = [ptr EXCEPT ![client] = s]
    /\ conn' = [conn EXCEPT ![s].res = @ \o Fits(s), ![s].state = "SEND_RES"]
    /\ UNCHANGED <<idx, accepting, full, got, peers>>

(* send_response.  Whatever became of it, main then runs init_conn_state.   *)

SendResponseSome(e) ==
    LET s == e.slot
        data == From(conn[s].res, conn[s].wroteClient) IN
    /\ Dispatch(e, "SEND_RES")
    /\ \E n \in 0 .. Len(data) - 1 : Write(Awaited(s), data, n)
    /\ conn' = [conn EXCEPT ![s] = Fresh]
    /\ UNCHANGED <<up, file, idx, accepting, watch, ptr, ready, inbox, peers>>

\* Mutant: the client's connection is not closed.
SendResponseAll_NoClose(e) ==
    LET s == e.slot
        data == From(conn[s].res, conn[s].wroteClient) IN
    /\ Dispatch(e, "SEND_RES")
    /\ Write(Awaited(s), data, Len(data))
    /\ conn' = [conn EXCEPT ![s] = Fresh]
    /\ UNCHANGED <<up, file, watch, ready, idx, accepting, ptr, inbox, peers>>

SendResponseAll(e) ==
    LET s == e.slot
        data == From(conn[s].res, conn[s].wroteClient) IN
    /\ Dispatch(e, "SEND_RES")
    /\ Write(Awaited(s), data, Len(data))
    /\ Close({conn[s].client})
    /\ conn' = [conn EXCEPT ![s] = Fresh]
    /\ UNCHANGED <<up, idx, accepting, ptr, inbox, peers>>

SendResponseFails(e) ==
    LET s == e.slot IN
    /\ Dispatch(e, "SEND_RES")
    /\ Broken(Awaited(s))
    /\ Close({conn[s].client})
    /\ conn' = [conn EXCEPT ![s] = Fresh]
    /\ UNCHANGED <<up, idx, accepting, ptr, inbox, full, got, peers>>

\* A write to a stream that was reset may raise SIGPIPE instead.
WriteKills(e) ==
    /\ \E state \in {"SEND_REQ", "SEND_RES"} : Dispatch(e, state)
    /\ Awaited(e.slot) \in Sockets /\ Broken(Awaited(e.slot))
    /\ Becomes("down")

----------------------------------------------------------------------------
(* The peers.  The model ends with the process, or where it is stuck.       *)

Comes(k) == ready' = IF watch[k] = "in" THEN ready \cup {k} ELSE ready

Connects(c) ==
    /\ up = "up"
    /\ ended[<<"client", c>>] = "none"
    /\ "burst" \in Faults \/ (backlog = {} /\ accepting = NoSlot)
    /\ ended' = [ended EXCEPT ![<<"client", c>>] = "open"]
    /\ backlog' = backlog \cup {c}
    /\ ready' = ready \cup {Listen}
    /\ UNCHANGED <<up, file, conn, idx, accepting, batch, watch, ptr, sent, inbox, full, got>>

\* A client sends its request, a server answers a request that it got.
Size(k) == IF k[1] = "client" THEN ReqLen ELSE ResLen

Sends(k) ==
    LET kind == IF k[1] = "server" THEN "answer" ELSE IF sent'[k] = ReqLen THEN "end" ELSE "part" IN
    /\ up = "up" /\ ended[k] = "open"
    /\ Open(k) \/ (k[1] = "client" /\ k[2] \in backlog)
    /\ k[1] = "server" => Len(got[k]) = ReqLen
    /\ sent[k] < Size(k) /\ sent' = [sent EXCEPT ![k] = @ + 1]
    /\ inbox' = [inbox EXCEPT ![k] = Append(@, <<kind, k[2]>>)]
    /\ Comes(k)
    /\ UNCHANGED <<up, file, conn, idx, accepting, batch, watch, ptr, backlog, ended, full, got>>

\* A peer ends its stream: a server after the response, a client after the request.
Ends(k) ==
    /\ up = "up" /\ Open(k) /\ ended[k] = "open"
    /\ sent[k] = Size(k) \/ (k[1] = "client" /\ "eof" \in Faults)
    /\ ended' = [ended EXCEPT ![k] = "eof"]
    /\ Comes(k)
    /\ UNCHANGED <<up, file, conn, idx, accepting, batch, watch, ptr, backlog, sent, inbox, full, got>>

Drains(k) ==
    /\ up = "up" /\ Open(k) /\ k \in full
    /\ full' = full \ {k}
    /\ ready' = IF watch[k] = "out" THEN ready \cup {k} ELSE ready
    /\ UNCHANGED <<up, file, conn, idx, accepting, batch, watch, ptr, inbox, got, peers>>

Resets(k) ==
    /\ "reset" \in Faults
    /\ up = "up" /\ Open(k) /\ ended[k] # "reset"
    /\ ended' = [ended EXCEPT ![k] = "reset"]
    /\ inbox' = [inbox EXCEPT ![k] = <<>>]
    /\ ready' = IF watch[k] # "no" THEN ready \cup {k} ELSE ready
    /\ UNCHANGED <<up, file, conn, idx, accepting, batch, watch, ptr, backlog, sent, full, got>>

----------------------------------------------------------------------------
HandleEvent(e) ==
    \/ Skip(e) \/ NewClient(e)
    \/ ReadRequest(e) \/ ReadRequestStuck(e) \/ Connect(e) \/ ConnectFails(e)
    \/ SendRequestSome(e) \/ SendRequestAll(e)
    \/ ReadResponseSome(e) \/ ReadResponseAll(e)
    \/ Cancel(e)
    \/ SendResponseSome(e) \/ SendResponseAll(e) \/ SendResponseFails(e)
    \/ WriteKills(e)

Proxy ==
    \/ EpollWait
    \/ \E e \in batch : HandleEvent(e)
    \/ \E c \in Clients : AcceptOne(c) \/ AcceptZero(c)
    \/ AcceptNoMore

Peer(k) == Sends(k) \/ Ends(k) \/ Drains(k) \/ Resets(k)

Next ==
    \/ Proxy
    \/ \E c \in Clients : Connects(c)
    \/ \E k \in Sockets : Peer(k)

Spec == Init /\ [][Next]_vars

(* The thread runs.  Of the peers only this is asked: a server that got a   *)
(* request answers it and closes, and a full socket takes pieces again.     *)
FairSpec ==
    /\ Spec
    /\ WF_vars(Proxy)
    /\ \A c \in Clients : WF_vars(Sends(<<"server", c>>)) /\ WF_vars(Ends(<<"server", c>>))
    /\ \A k \in Sockets : WF_vars(Drains(k))

----------------------------------------------------------------------------
(* A stream that is reset makes a handler cancel its request: it closes    *)
(* both descriptors and leaves them in the slot, so that an event of that   *)
(* slot further on in the batch works on whatever was accepted in between   *)
(* on the same descriptors.  With three clients this ends in another's      *)
(* bytes; what follows is only promised where no stream is reset.           *)
Unreset == \A k \in Sockets : ended[k] # "reset"

(* Whatever is written to a socket belongs to its client's request: the     *)
(* query to the server, the response to the client, once and in full order. *)
AnswerIsOwn ==
    Unreset =>
        \A c \in Clients :
            /\ \E n \in 0 .. ResLen : got[<<"client", c>>] = SubSeq(Response(c), 1, n)
            /\ \E n \in 0 .. ReqLen : got[<<"server", c>>] = SubSeq(Query(c), 1, n)

(* With edge-triggered events an edge that is consumed is not reported      *)
(* again: as long as the socket a slot waits for has something for it, an   *)
(* edge of that socket is ready or in the batch.                            *)
NoLostEdge ==
    Unreset =>
        \A s \in Slots :
            up = "up" /\ Awaited(s) \in Sockets /\ ~ Broken(Awaited(s)) /\ Due(Awaited(s))
                => Awaited(s) \in ready \/ \E e \in batch : e.sock = Awaited(s)

(* Every open socket is the client's or the server's of some slot.          *)
NoneForgotten ==
    \A f \in Fds : file[f] \in Sockets => \E s \in Slots : f \in {conn[s].client, conn[s].server}

(* The spec of the lab: when a write says EAGAIN, "don't change state; you   *)
(* will continue writing when you are notified by epoll".                   *)
SendsToTheEnd ==
    [][\A s \in Slots :
           LET client == file[conn[s].client] IN
           conn[s].state = "SEND_RES" /\ conn'[s].state # "SEND_RES"
               => Broken(client) \/ Len(got'[client]) = Len(conn[s].res)]_vars

(* A client whose request is complete gets the whole response, and then its *)
(* connection is closed.                                                    *)
Answered ==
    \A c \in Clients :
        sent[<<"client", c>>] = ReqLen ~> (got[<<"client", c>>] = Response(c) /\ ~ Open(<<"client", c>>))
=============================================================================
