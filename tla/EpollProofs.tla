---------------------------- MODULE EpollProofs -----------------------------
(***************************************************************************)
(* Proofs about the epoll proxy, for any number of clients, of slots and   *)
(* of descriptors and any sizes: its types whatever the peers do, and, if  *)
(* no more clients connect than there are slots, that until a stream is    *)
(* reset nobody is given another's bytes and no edge is lost.              *)
(***************************************************************************)
EXTENDS EpollProxy, SequenceTheorems, FiniteSetTheorems, NaturalsInduction, WellFoundedInduction, TLAPS

ClientSock(c) == <<"client", c>>
ServerSock(c) == <<"server", c>>

States == {"READ_REQ", "SEND_REQ", "READ_RES", "SEND_RES"}
Events == [sock : Sockets, slot : Slots, bad : BOOLEAN]
          \cup [sock : {Listen}, slot : {NoSlot}, bad : {FALSE}]

(* A conn_state_t.  What was written to a client is never counted for long: *)
(* main erases the state after the first write.                             *)
ConnState ==
    [client : Fds, server : Fds, req : Seq(Pieces), res : Seq(Pieces), state : States,
     wroteServer : 0 .. ReqLen, wroteClient : {0}]

EpollTypes ==
    /\ up \in {"up", "stuck", "down"}
    /\ file \in [Fds -> Sockets \cup {Unused, Stdin}]
    /\ conn \in [Slots -> ConnState]
    /\ \A s \in Slots : Len(conn[s].res) <= MaxObject
    /\ \A s \in Slots : conn[s].state # "READ_REQ" => conn[s].req # << >>
    /\ idx \in Slots /\ accepting \in Slots \cup {NoSlot}
    /\ batch \subseteq Events
    /\ watch \in [Sockets -> {"no", "in", "out"}] /\ ptr \in [Sockets -> Slots]
    /\ ready \subseteq Sockets \cup {Listen} /\ backlog \subseteq Clients
    /\ sent \in [Sockets -> Nat]
    /\ inbox \in [Sockets -> Seq(Pieces)]
    /\ ended \in [Sockets -> {"none", "open", "eof", "reset"}]
    /\ full \subseteq Sockets /\ got \in [Sockets -> Seq(Pieces)]

----------------------------------------------------------------------------
(* Sequences of pieces. *)

Uniform(p, x) == \A i \in DOMAIN p : p[i] = x
Tagged(p, c) == \A i \in DOMAIN p : p[i][2] = c

(* A part of a sequence consists of elements of the sequence.               *)
LEMMA PartOf ==
    ASSUME NEW S, NEW p \in Seq(S), NEW m \in Nat, NEW n \in Nat, 1 <= m, n <= Len(p)
    PROVE  /\ SubSeq(p, m, n) \in Seq(S)
           /\ Len(SubSeq(p, m, n)) = IF m <= n THEN n - m + 1 ELSE 0
           /\ \A i \in DOMAIN SubSeq(p, m, n) : SubSeq(p, m, n)[i] = p[m + i - 1] /\ m + i - 1 \in DOMAIN p
<1>1. Len(p) \in Nat /\ DOMAIN p = 1 .. Len(p) /\ \A i \in m .. n : p[i] \in S
  BY LenProperties
<1>2. m \in Int /\ n \in Int
  OBVIOUS
<1>3. /\ SubSeq(p, m, n) \in Seq(S)
      /\ Len(SubSeq(p, m, n)) = IF m <= n THEN n - m + 1 ELSE 0
      /\ \A i \in 1 .. n - m + 1 : SubSeq(p, m, n)[i] = p[m + i - 1]
  BY <1>1, <1>2, SubSeqProperties
<1>4. DOMAIN SubSeq(p, m, n) = 1 .. Len(SubSeq(p, m, n))
  BY <1>3, LenProperties
<1>5. DOMAIN SubSeq(p, m, n) = 1 .. n - m + 1
  BY <1>3, <1>4
<1> QED
  BY <1>1, <1>3, <1>5

(* What is left of data behind the first n pieces.                          *)
LEMMA FromDoes ==
    ASSUME NEW data \in Seq(Pieces), NEW n \in 0 .. Len(data)
    PROVE  /\ From(data, n) \in Seq(Pieces) /\ Len(From(data, n)) = Len(data) - n
           /\ \A x : Uniform(data, x) => Uniform(From(data, n), x)
           /\ \A c : Tagged(data, c) => Tagged(From(data, n), c)
<1> DEFINE m == n + 1
           l == Len(data)
           part == SubSeq(data, m, l)
<1>1. m \in Nat /\ 1 <= m /\ l \in Nat /\ l <= Len(data) /\ n \in 0 .. l
  BY LenProperties
<1>2. /\ part \in Seq(Pieces) /\ Len(part) = IF m <= l THEN l - m + 1 ELSE 0
      /\ \A i \in DOMAIN part : part[i] = data[m + i - 1] /\ m + i - 1 \in DOMAIN data
  <2> HIDE DEF m, l
  <2> QED
    BY <1>1, PartOf
<1>3. Len(part) = l - n
  <2> HIDE DEF part, l
  <2> QED
    BY <1>1, <1>2
<1>4. From(data, n) = part
  BY DEF From
<1> HIDE DEF part, m
<1> QED
  BY <1>2, <1>3, <1>4 DEF Uniform, Tagged

(* The first n pieces of data.                                              *)
LEMMA StartDoes ==
    ASSUME NEW data \in Seq(Pieces), NEW n \in 0 .. Len(data)
    PROVE  /\ SubSeq(data, 1, n) \in Seq(Pieces) /\ Len(SubSeq(data, 1, n)) = n
           /\ \A x : Uniform(data, x) => Uniform(SubSeq(data, 1, n), x)
<1> DEFINE part == SubSeq(data, 1, n)
<1>1. n \in Nat /\ n <= Len(data) /\ 1 \in Nat /\ 1 <= 1
  BY LenProperties
<1>2. /\ part \in Seq(Pieces) /\ Len(part) = IF 1 <= n THEN n - 1 + 1 ELSE 0
      /\ \A i \in DOMAIN part : part[i] = data[1 + i - 1] /\ 1 + i - 1 \in DOMAIN data
  BY <1>1, PartOf
<1>3. Len(part) = n
  <2> HIDE DEF part
  <2> QED
    BY <1>1, <1>2
<1> HIDE DEF part
<1>4. \A x : Uniform(data, x) => Uniform(part, x)
  BY <1>2 DEF Uniform
<1> QED
  BY <1>2, <1>3, <1>4 DEF part

(* Joining keeps what all elements have in common.                          *)
LEMMA JoinDoes ==
    ASSUME NEW p \in Seq(Pieces), NEW q \in Seq(Pieces)
    PROVE  /\ p \o q \in Seq(Pieces) /\ Len(p \o q) = Len(p) + Len(q)
           /\ \A x : Uniform(p, x) /\ Uniform(q, x) => Uniform(p \o q, x)
           /\ \A c : Tagged(p, c) /\ Tagged(q, c) => Tagged(p \o q, c)
<1> DEFINE j == p \o q
<1>1. /\ j \in Seq(Pieces) /\ Len(j) = Len(p) + Len(q)
      /\ \A i \in 1 .. Len(p) + Len(q) : j[i] = IF i <= Len(p) THEN p[i] ELSE q[i - Len(p)]
  BY ConcatProperties
<1>2. /\ Len(p) \in Nat /\ Len(q) \in Nat /\ DOMAIN p = 1 .. Len(p) /\ DOMAIN q = 1 .. Len(q)
  BY LenProperties
<1>3. DOMAIN j = 1 .. Len(j)
  BY <1>1, LenProperties
<1> HIDE DEF j
<1>4. ASSUME NEW i \in DOMAIN j
      PROVE  (i \in DOMAIN p /\ j[i] = p[i]) \/ (i - Len(p) \in DOMAIN q /\ j[i] = q[i - Len(p)])
  BY <1>1, <1>2, <1>3
<1>5. ASSUME NEW x, Uniform(p, x), Uniform(q, x) PROVE Uniform(j, x)
  BY <1>4, <1>5 DEF Uniform
<1>6. ASSUME NEW c, Tagged(p, c), Tagged(q, c) PROVE Tagged(j, c)
  BY <1>4, <1>6 DEF Tagged
<1> QED
  BY <1>1, <1>5, <1>6 DEF j

(* One piece more.                                                          *)
LEMMA AppendDoes ==
    ASSUME NEW p \in Seq(Pieces), NEW x \in Pieces
    PROVE  /\ Append(p, x) \in Seq(Pieces) /\ Len(Append(p, x)) = Len(p) + 1
           /\ Uniform(p, x) => Uniform(Append(p, x), x)
           /\ Tagged(p, x[2]) => Tagged(Append(p, x), x[2])
<1> DEFINE a == Append(p, x)
<1>1. Len(p) \in Nat /\ DOMAIN p = 1 .. Len(p)
  BY LenProperties
<1>2. /\ a \in Seq(Pieces) /\ Len(a) = Len(p) + 1 /\ DOMAIN a = 1 .. Len(p) + 1
      /\ \A i \in 1 .. Len(p) : a[i] = p[i]
      /\ a[Len(p) + 1] = x
  BY <1>1
<1> HIDE DEF a
<1>3. \A i \in DOMAIN a : (i \in DOMAIN p /\ a[i] = p[i]) \/ a[i] = x
  BY <1>1, <1>2
<1> QED
  BY <1>2, <1>3 DEF Uniform, Tagged, a

(* A sequence of equal pieces is a beginning of a longer one.               *)
LEMMA UniformIsPrefix ==
    ASSUME NEW x \in Pieces, NEW m \in Nat, NEW p \in Seq(Pieces), Uniform(p, x), Len(p) <= m
    PROVE  \E n \in 0 .. m : p = SubSeq([i \in 1 .. m |-> x], 1, n)
<1> DEFINE s == [i \in 1 .. m |-> x]
           n == Len(p)
<1>1. s \in Seq(Pieces) /\ Len(s) = m /\ Uniform(s, x)
  BY DEF Uniform
<1>2. n \in 0 .. m /\ n \in 0 .. Len(s)
  BY <1>1, LenProperties
<1>3. p = SubSeq(s, 1, n)
  <2> DEFINE t == SubSeq(s, 1, n)
  <2> HIDE DEF s
  <2>1. t \in Seq(Pieces) /\ Len(t) = n /\ Uniform(t, x)
    BY <1>1, <1>2, StartDoes
  <2>2. DOMAIN p = 1 .. Len(p) /\ DOMAIN t = 1 .. n
    BY <2>1, LenProperties
  <2> HIDE DEF t
  <2>3. \A i \in 1 .. Len(p) : p[i] = t[i]
    BY <2>1, <2>2 DEF Uniform
  <2>4. p = t
    BY <2>1, <2>3, SeqEqual
  <2> QED
    BY <2>4 DEF t
<1> QED
  BY <1>2, <1>3

----------------------------------------------------------------------------
(* Sockets, descriptors, slots. *)

(* Every socket is a client's or a server's.                                *)
LEMMA SocketKinds ==
    /\ \A c \in Clients : ClientSock(c) \in Sockets /\ ServerSock(c) \in Sockets
    /\ \A c \in Clients : ClientSock(c)[1] = "client" /\ ClientSock(c)[2] = c
    /\ \A c \in Clients : ServerSock(c)[1] = "server" /\ ServerSock(c)[2] = c
    /\ \A c, d \in Clients : ClientSock(c) # ServerSock(d)
    /\ \A c, d \in Clients : ClientSock(c) = ClientSock(d) \/ ServerSock(c) = ServerSock(d) => c = d
    /\ \A k \in Sockets : k[2] \in Clients /\ (k = ClientSock(k[2]) \/ k = ServerSock(k[2]))
    /\ Unused \notin Sockets /\ Stdin \notin Sockets /\ Listen \notin Sockets /\ Unused # Stdin
<1>1. /\ \A c \in Clients : ClientSock(c) \in Sockets /\ ServerSock(c) \in Sockets
      /\ \A c \in Clients : ClientSock(c)[1] = "client" /\ ClientSock(c)[2] = c
      /\ \A c \in Clients : ServerSock(c)[1] = "server" /\ ServerSock(c)[2] = c
  BY DEF Sockets, ClientSock, ServerSock
<1>2. \A k \in Sockets : k[2] \in Clients /\ (k = ClientSock(k[2]) \/ k = ServerSock(k[2]))
  BY DEF Sockets, ClientSock, ServerSock
<1>3. Unused \notin Sockets /\ Stdin \notin Sockets /\ Listen \notin Sockets /\ Unused # Stdin
  <2>1. {Unused, Stdin, Listen} \cap Sockets = {} /\ Unused # Stdin
    BY EpollAssumption
  <2> QED
    BY <2>1, Zenon
<1>4. \A c, d \in Clients : ClientSock(c) # ServerSock(d)
  BY DEF ClientSock, ServerSock
<1> QED
  BY <1>1, <1>2, <1>3, <1>4

Less == {p \in Nat \X Nat : p[1] < p[2]}

(* When a descriptor is free, the lowest free one exists.                   *)
LEMMA LowestFree ==
    ASSUME Free # {}
    PROVE  Lowest \in Fds /\ file[Lowest] = Unused
<1>1. Free \subseteq Nat /\ Free \subseteq Fds
  BY EpollAssumption DEF Free
<1>2. IsWellFoundedOn(Less, Nat)
  BY NatLessThanWellFounded DEF OpToRel, Less
<1>3. PICK f \in Free : \A g \in Free : <<g, f>> \notin Less
  BY <1>1, <1>2, WFMin
<1>4. \A g \in Free : f <= g
  <2> SUFFICES ASSUME NEW g \in Free PROVE f <= g
    OBVIOUS
  <2>1. f \in Nat /\ g \in Nat /\ <<g, f>> \notin Less
    BY <1>1, <1>3
  <2> QED
    BY <2>1 DEF Less
<1>5. Lowest \in Free
  BY <1>3, <1>4 DEF Lowest
<1> QED
  BY <1>5 DEF Free

(* The handling of an event knows its slot.                                 *)
LEMMA TakesDoes ==
    ASSUME EpollTypes, NEW e, Takes(e)
    PROVE  /\ up = "up" /\ accepting = NoSlot /\ e \in batch /\ batch' = batch \ {e} /\ batch' \subseteq Events
           /\ e.sock # Listen => e.sock \in Sockets /\ e.slot \in Slots
           /\ e.sock = Listen => e.slot = NoSlot
<1>1. up = "up" /\ accepting = NoSlot /\ e \in batch /\ batch' = batch \ {e} /\ batch \subseteq Events
  BY DEF EpollTypes, Takes
<1>2. e \in Events
  BY <1>1
<1>3. \/ e.sock \in Sockets /\ e.slot \in Slots
      \/ e.sock = Listen /\ e.slot = NoSlot
  BY <1>2 DEF Events
<1> QED
  BY <1>1, <1>3, SocketKinds

(* The record of a slot.                                                    *)
LEMMA SlotTypes ==
    ASSUME EpollTypes, NEW s \in Slots
    PROVE  /\ conn[s].client \in Fds /\ conn[s].server \in Fds
           /\ conn[s].req \in Seq(Pieces) /\ conn[s].res \in Seq(Pieces)
           /\ conn[s].state \in States /\ conn[s].wroteServer \in 0 .. ReqLen /\ conn[s].wroteClient = 0
           /\ Len(conn[s].res) \in Nat /\ Len(conn[s].res) <= MaxObject
           /\ conn[s].state # "READ_REQ" => conn[s].req # << >>
           /\ Awaited(s) \in Sockets \cup {Unused, Stdin}
<1>1. conn[s] \in ConnState
  BY DEF EpollTypes
<1>2. /\ conn[s].client \in Fds /\ conn[s].server \in Fds
      /\ conn[s].req \in Seq(Pieces) /\ conn[s].res \in Seq(Pieces)
      /\ conn[s].state \in States /\ conn[s].wroteServer \in 0 .. ReqLen /\ conn[s].wroteClient = 0
  BY <1>1 DEF ConnState
<1>3. Awaited(s) \in Sockets \cup {Unused, Stdin}
  BY <1>2 DEF Awaited, EpollTypes
<1> QED
  BY <1>2, <1>3, LenProperties DEF EpollTypes

(* The types of the slots when one of them changes.                         *)
LEMMA SlotChanges ==
    ASSUME EpollTypes, NEW s \in Slots, NEW r \in ConnState, conn' = [conn EXCEPT ![s] = r],
           Len(r.res) <= MaxObject, r.state # "READ_REQ" => r.req # << >>
    PROVE  /\ conn' \in [Slots -> ConnState]
           /\ \A t \in Slots : Len(conn'[t].res) <= MaxObject
           /\ \A t \in Slots : conn'[t].state # "READ_REQ" => conn'[t].req # << >>
           /\ conn'[s] = r /\ \A t \in Slots : t # s => conn'[t] = conn[t]
<1>1. conn \in [Slots -> ConnState]
  BY DEF EpollTypes
<1>2. conn' \in [Slots -> ConnState] /\ conn'[s] = r /\ \A t \in Slots : t # s => conn'[t] = conn[t]
  BY <1>1
<1> QED
  BY <1>2 DEF EpollTypes

(* An erased state.                                                         *)
LEMMA FreshTypes ==
    Fresh \in ConnState /\ Fresh.res = << >> /\ Len(Fresh.res) <= MaxObject /\ Fresh.state = "READ_REQ"
<1>1. << >> \in Seq(Pieces) /\ Len(<< >>) = 0
  BY EmptySeq
<1> QED
  BY <1>1, EpollAssumption DEF Fresh, ConnState, States, ReqLen

----------------------------------------------------------------------------
(* What the handlers do. *)

(* The rewritten request consists of so many equal pieces.                  *)
LEMMA QueryIs ==
    ASSUME NEW c \in Clients
    PROVE  /\ Query(c) \in Seq(Pieces) /\ Len(Query(c)) = ReqLen
           /\ <<"query", c>> \in Pieces /\ Uniform(Query(c), <<"query", c>>)
<1>1. <<"query", c>> \in Pieces
  BY DEF Pieces
<1> DEFINE x == <<"query", c>>
<1> HIDE DEF x
<1>2. [i \in 1 .. ReqLen |-> x] \in Seq(Pieces) /\ Len([i \in 1 .. ReqLen |-> x]) = ReqLen
  BY <1>1 DEF ReqLen, x
<1> QED
  BY <1>1, <1>2 DEF Query, Uniform, x

(* One write appends a beginning of what it is given.                       *)
LEMMA WriteDoes ==
    ASSUME EpollTypes, NEW k, NEW data \in Seq(Pieces), NEW n \in 0 .. Len(data), Write(k, data, n)
    PROVE  /\ k \in Sockets /\ ended[k] # "reset"
           /\ \E part \in Seq(Pieces) :
                 /\ Len(part) = n /\ \A x : Uniform(data, x) => Uniform(part, x)
                 /\ got' = [got EXCEPT ![k] = got[k] \o part]
                 /\ got[k] \in Seq(Pieces) /\ got[k] \o part \in Seq(Pieces)
           /\ got' \in [Sockets -> Seq(Pieces)] /\ full' \subseteq Sockets
           /\ full' = IF n < Len(data) THEN full \cup {k} ELSE full
           /\ n < Len(data) => k[1] = "server" \/ "slow" \in Faults
<1> DEFINE part == SubSeq(data, 1, n)
<1>1. part \in Seq(Pieces) /\ Len(part) = n /\ \A x : Uniform(data, x) => Uniform(part, x)
  BY StartDoes
<1>2. /\ k \in Sockets /\ ended[k] # "reset"
      /\ got' = [got EXCEPT ![k] = got[k] \o part]
      /\ full' = IF n < Len(data) THEN full \cup {k} ELSE full
      /\ n < Len(data) => k[1] = "server" \/ "slow" \in Faults
  BY DEF Write, Broken
<1>3. got \in [Sockets -> Seq(Pieces)] /\ full \subseteq Sockets
  BY DEF EpollTypes
<1> HIDE DEF part
<1>4. got[k] \in Seq(Pieces) /\ got[k] \o part \in Seq(Pieces)
  BY <1>1, <1>2, <1>3, JoinDoes
<1>5. got' \in [Sockets -> Seq(Pieces)]
  BY <1>2, <1>3, <1>4
<1>6. full' \subseteq Sockets
  BY <1>2, <1>3
<1> QED
  BY <1>1, <1>2, <1>4, <1>5, <1>6

(* What every handler of a connection's event begins with.                  *)
LEMMA DispatchDoes ==
    ASSUME EpollTypes, NEW e, NEW state, Dispatch(e, state)
    PROVE  /\ up = "up" /\ accepting = NoSlot /\ e \in batch /\ batch' = batch \ {e} /\ batch' \subseteq Events
           /\ e.sock \in Sockets /\ e.slot \in Slots /\ ~ e.bad /\ conn[e.slot].state = state
<1>1. Takes(e) /\ ~ e.bad /\ e.sock # Listen /\ conn[e.slot].state = state
  BY DEF Dispatch
<1> QED
  BY <1>1, TakesDoes

(* read_request with a request that is not complete.                        *)
LEMMA ReadRequestDoes ==
    ASSUME EpollTypes, NEW e, ReadRequest(e)
    PROVE  /\ Dispatch(e, "READ_REQ") /\ Awaited(e.slot) \in Sockets /\ ended[Awaited(e.slot)] = "open"
           /\ inbox' = [inbox EXCEPT ![Awaited(e.slot)] = << >>]
           /\ \E r \in ConnState :
                 /\ conn' = [conn EXCEPT ![e.slot] = r]
                 /\ r = [conn[e.slot] EXCEPT !.req = conn[e.slot].req \o inbox[Awaited(e.slot)]]
           /\ UNCHANGED <<up, file, idx, accepting, watch, ptr, ready, full, got, peers>>
<1> DEFINE s == e.slot
           in == Awaited(s)
           req == conn[s].req \o inbox[in]
           r == [conn[s] EXCEPT !.req = req]
<1>1. Dispatch(e, "READ_REQ") /\ in \in Sockets /\ ended[in] = "open"
  BY DEF ReadRequest
<1>2. s \in Slots
  BY <1>1, DispatchDoes
<1>3. conn[s] \in ConnState /\ inbox[in] \in Seq(Pieces)
  BY <1>1, <1>2 DEF EpollTypes
<1>4. req \in Seq(Pieces)
  BY <1>2, <1>3, SlotTypes, JoinDoes
<1>5. r \in ConnState
  <2> HIDE DEF req, s
  <2> QED
    BY <1>3, <1>4 DEF ConnState
<1>6. conn' = [conn EXCEPT ![s] = r]
  BY DEF ReadRequest
<1> QED
  BY <1>1, <1>5, <1>6 DEF ReadRequest

(* read_request with the rest of the request, and connect_to_server.        *)
LEMMA ConnectDoes ==
    ASSUME EpollTypes, NEW e, Connect(e)
    PROVE  LET s == e.slot
               in == Awaited(s)
               req == conn[s].req \o inbox[in]
               c == Head(req)[2]
           IN  /\ Dispatch(e, "READ_REQ") /\ in \in Sockets /\ ended[in] # "reset"
               /\ inbox' = [inbox EXCEPT ![in] = << >>]
               /\ req \in Seq(Pieces) /\ req # << >> /\ 1 \in DOMAIN req /\ Head(req) = req[1]
               /\ c \in Clients /\ ServerSock(c) \in Sockets
               /\ Lowest \in Fds /\ file[Lowest] = Unused
               /\ file' = [file EXCEPT ![Lowest] = ServerSock(c)]
               /\ \E r \in ConnState :
                     /\ conn' = [conn EXCEPT ![s] = r]
                     /\ r = [conn[s] EXCEPT !.req = req, !.server = Lowest, !.state = "SEND_REQ"]
               /\ watch' = [watch EXCEPT ![ServerSock(c)] = "out"]
               /\ ptr' = [ptr EXCEPT ![ServerSock(c)] = s]
               /\ ready' = ready \cup {ServerSock(c)}
               /\ ended' = [ended EXCEPT ![ServerSock(c)] =
                               IF ended[ServerSock(c)] = "none" THEN "open" ELSE ended[ServerSock(c)]]
               /\ UNCHANGED <<up, idx, accepting, full, got, backlog, sent>>
<1> DEFINE s == e.slot
           in == Awaited(s)
           req == conn[s].req \o inbox[in]
           c == Head(req)[2]
           r == [conn[s] EXCEPT !.req = req, !.server = Lowest, !.state = "SEND_REQ"]
<1>1. Dispatch(e, "READ_REQ") /\ in \in Sockets /\ ended[in] # "reset" /\ Complete(req) /\ Free # {}
  BY DEF Connect, RequestComplete, Broken
<1>2. s \in Slots
  BY <1>1, DispatchDoes
<1>3. conn[s] \in ConnState /\ inbox[in] \in Seq(Pieces)
  BY <1>1, <1>2 DEF EpollTypes
<1>4. req \in Seq(Pieces)
  BY <1>2, <1>3, SlotTypes, JoinDoes
<1>5. DOMAIN req # {}
  BY <1>1 DEF Complete
<1>6. req # << >> /\ 1 \in DOMAIN req /\ Head(req) = req[1] /\ Head(req) \in Pieces
  <2> HIDE DEF req
  <2>1. DOMAIN req = 1 .. Len(req) /\ Len(req) \in Nat
    BY <1>4, LenProperties
  <2>2. Len(req) >= 1
    BY <1>5, <2>1
  <2>3. req # << >>
    BY <2>2, EmptySeq
  <2> QED
    BY <1>4, <2>1, <2>2, <2>3, HeadTailProperties
<1>7. c \in Clients
  <2> HIDE DEF req
  <2> QED
    BY <1>6 DEF Pieces
<1>8. Lowest \in Fds /\ file[Lowest] = Unused
  BY <1>1, LowestFree
<1>9. r \in ConnState
  <2> HIDE DEF req, s
  <2> QED
    BY <1>3, <1>4, <1>8 DEF ConnState, States
<1>10. conn' = [conn EXCEPT ![s] = r]
  BY DEF Connect
<1>11. ServerSock(c) = <<"server", Head(req)[2]>> /\ ServerSock(c) \in Sockets
  BY <1>7, SocketKinds DEF ServerSock
<1> QED
  BY <1>1, <1>4, <1>6, <1>7, <1>8, <1>9, <1>10, <1>11 DEF Connect

(* What send_request has still to write.                                    *)
Rest(s) == From(Query(Head(conn[s].req)[2]), conn[s].wroteServer)

(* It is of the query of the client whose request was read.                 *)
LEMMA RestIs ==
    ASSUME EpollTypes, NEW s \in Slots, conn[s].state = "SEND_REQ"
    PROVE  /\ Head(conn[s].req)[2] \in Clients /\ Head(conn[s].req) = conn[s].req[1] /\ 1 \in DOMAIN conn[s].req
           /\ Rest(s) \in Seq(Pieces) /\ Len(Rest(s)) = ReqLen - conn[s].wroteServer
           /\ Uniform(Rest(s), <<"query", Head(conn[s].req)[2]>>)
<1> DEFINE req == conn[s].req
           n == conn[s].wroteServer
<1>1. req \in Seq(Pieces) /\ req # << >> /\ n \in 0 .. ReqLen
  BY SlotTypes
<1> HIDE DEF req, n
<1>2. Head(req) \in Pieces /\ Head(req) = req[1] /\ 1 \in DOMAIN req
  <2>1. Len(req) \in Nat \ {0} /\ DOMAIN req = 1 .. Len(req)
    BY <1>1, EmptySeq, LenProperties
  <2> QED
    BY <1>1, <2>1, HeadTailProperties
<1>3. Head(req)[2] \in Clients
  BY <1>2 DEF Pieces
<1> DEFINE c == Head(req)[2]
<1> HIDE DEF c
<1>4. c \in Clients
  BY <1>3 DEF c
<1>5. /\ Query(c) \in Seq(Pieces) /\ Len(Query(c)) = ReqLen /\ Uniform(Query(c), <<"query", c>>)
  BY <1>4, QueryIs
<1>6. /\ From(Query(c), n) \in Seq(Pieces) /\ Len(From(Query(c), n)) = ReqLen - n
      /\ Uniform(From(Query(c), n), <<"query", c>>)
  BY <1>1, <1>5, FromDoes
<1> QED
  BY <1>2, <1>4, <1>6 DEF Rest, c, req, n

(* send_request that meets a full socket.                                   *)
LEMMA SendRequestSomeDoes ==
    ASSUME EpollTypes, NEW e, SendRequestSome(e)
    PROVE  LET s == e.slot
               out == Awaited(s)
               c == Head(conn[s].req)[2]
           IN  /\ Dispatch(e, "SEND_REQ") /\ out \in Sockets /\ ended[out] # "reset"
               /\ c \in Clients /\ c = conn[s].req[1][2] /\ 1 \in DOMAIN conn[s].req
               /\ \E part \in Seq(Pieces), r \in ConnState :
                     /\ conn[s].wroteServer + Len(part) \in 0 .. ReqLen
                     /\ Uniform(part, <<"query", c>>)
                     /\ got' = [got EXCEPT ![out] = got[out] \o part]
                     /\ conn' = [conn EXCEPT ![s] = r]
                     /\ r = [conn[s] EXCEPT !.wroteServer = conn[s].wroteServer + Len(part)]
               /\ got' \in [Sockets -> Seq(Pieces)]
               /\ full' = full \cup {out}
               /\ UNCHANGED <<up, file, idx, accepting, watch, ptr, ready, inbox, peers>>
<1> DEFINE s == e.slot
           out == Awaited(s)
           c == Head(conn[s].req)[2]
<1>1. Dispatch(e, "SEND_REQ")
  BY DEF SendRequestSome
<1>2. s \in Slots /\ conn[s].state = "SEND_REQ"
  BY <1>1, DispatchDoes
<1>3. PICK n \in 0 .. Len(Rest(s)) - 1 :
          Write(out, Rest(s), n) /\ conn' = [conn EXCEPT ![s].wroteServer = @ + n]
  BY DEF SendRequestSome, Rest
<1>4. /\ c \in Clients /\ c = conn[s].req[1][2] /\ 1 \in DOMAIN conn[s].req
      /\ Rest(s) \in Seq(Pieces) /\ Len(Rest(s)) = ReqLen - conn[s].wroteServer
      /\ Uniform(Rest(s), <<"query", c>>)
  BY <1>2, RestIs
<1>5. conn[s].wroteServer \in 0 .. ReqLen /\ conn[s] \in ConnState
  BY <1>2, SlotTypes DEF EpollTypes
<1>6. n \in 0 .. Len(Rest(s)) /\ n < Len(Rest(s)) /\ conn[s].wroteServer + n \in 0 .. ReqLen
  <2> DEFINE w == conn[s].wroteServer
             l == Len(Rest(s))
  <2>1. w \in 0 .. ReqLen /\ l = ReqLen - w /\ n \in 0 .. l - 1
    BY <1>3, <1>4, <1>5
  <2> HIDE DEF w, l
  <2>2. n \in 0 .. l /\ n < l /\ w + n \in 0 .. ReqLen
    BY <2>1 DEF ReqLen
  <2> QED
    BY <2>2 DEF w, l
<1> DEFINE r == [conn[s] EXCEPT !.wroteServer = conn[s].wroteServer + n]
<1>7. r \in ConnState
  <2> HIDE DEF s
  <2> QED
    BY <1>5, <1>6 DEF ConnState
<1>8. conn' = [conn EXCEPT ![s] = r]
  BY <1>3
<1>9. /\ out \in Sockets /\ ended[out] # "reset"
      /\ \E part \in Seq(Pieces) :
             /\ Len(part) = n /\ \A x : Uniform(Rest(s), x) => Uniform(part, x)
             /\ got' = [got EXCEPT ![out] = got[out] \o part]
      /\ got' \in [Sockets -> Seq(Pieces)] /\ full' = full \cup {out}
  <2> HIDE DEF out, s
  <2> QED
    BY <1>3, <1>4, <1>6, WriteDoes
<1> HIDE DEF out
<1>10. PICK part \in Seq(Pieces) :
             /\ Len(part) = n /\ Uniform(part, <<"query", c>>)
             /\ got' = [got EXCEPT ![out] = got[out] \o part]
  BY <1>4, <1>9
<1>11. UNCHANGED <<up, file, idx, accepting, watch, ptr, ready, inbox, peers>>
  BY DEF SendRequestSome
<1>12. r = [conn[s] EXCEPT !.wroteServer = conn[s].wroteServer + Len(part)]
       /\ conn[s].wroteServer + Len(part) \in 0 .. ReqLen
  BY <1>6, <1>10
<1> HIDE DEF r, s, c
<1> QED
  BY <1>1, <1>4, <1>7, <1>8, <1>9, <1>10, <1>11, <1>12 DEF out, s, c

(* send_request that writes the rest: the registration is changed.          *)
LEMMA SendRequestAllDoes ==
    ASSUME EpollTypes, NEW e, SendRequestAll(e)
    PROVE  LET s == e.slot
               out == Awaited(s)
               c == Head(conn[s].req)[2]
           IN  /\ Dispatch(e, "SEND_REQ") /\ out \in Sockets /\ ended[out] # "reset"
               /\ c \in Clients /\ c = conn[s].req[1][2] /\ 1 \in DOMAIN conn[s].req
               /\ \E part \in Seq(Pieces), r \in ConnState :
                     /\ conn[s].wroteServer + Len(part) = ReqLen
                     /\ Uniform(part, <<"query", c>>)
                     /\ got' = [got EXCEPT ![out] = got[out] \o part]
                     /\ conn' = [conn EXCEPT ![s] = r]
                     /\ r = [conn[s] EXCEPT !.wroteServer = ReqLen, !.state = "READ_RES"]
               /\ got' \in [Sockets -> Seq(Pieces)]
               /\ up' \in {"up", "down"}
               /\ watch' = [watch EXCEPT ![out] = "in"]
               /\ ptr' = [ptr EXCEPT ![out] = s]
               /\ ready' = IF Readable(out) THEN ready \cup {out} ELSE ready
               /\ UNCHANGED <<file, idx, accepting, full, inbox, peers>>
<1> DEFINE s == e.slot
           out == Awaited(s)
           c == Head(conn[s].req)[2]
           r == [conn[s] EXCEPT !.wroteServer = ReqLen, !.state = "READ_RES"]
           n == Len(Rest(s))
<1>1. Dispatch(e, "SEND_REQ") /\ Write(out, Rest(s), n)
  BY DEF SendRequestAll, Rest
<1>2. s \in Slots /\ conn[s].state = "SEND_REQ" /\ up = "up"
  BY <1>1, DispatchDoes
<1>4. /\ c \in Clients /\ c = conn[s].req[1][2] /\ 1 \in DOMAIN conn[s].req
      /\ Rest(s) \in Seq(Pieces) /\ n = ReqLen - conn[s].wroteServer
      /\ Uniform(Rest(s), <<"query", c>>)
  BY <1>2, RestIs
<1>5. conn[s].wroteServer \in 0 .. ReqLen /\ conn[s] \in ConnState
  BY <1>2, SlotTypes DEF EpollTypes
<1>6. r \in ConnState
  <2>1. ReqLen \in 0 .. ReqLen /\ "READ_RES" \in States
    BY DEF ReqLen, States
  <2> HIDE DEF s
  <2> QED
    BY <1>5, <2>1 DEF ConnState
<1>7. n \in 0 .. Len(Rest(s)) /\ ~ (n < Len(Rest(s)))
  BY <1>4, LenProperties
<1>9. /\ out \in Sockets /\ ended[out] # "reset"
      /\ \E part \in Seq(Pieces) :
             /\ Len(part) = n /\ \A x : Uniform(Rest(s), x) => Uniform(part, x)
             /\ got' = [got EXCEPT ![out] = got[out] \o part]
      /\ got' \in [Sockets -> Seq(Pieces)] /\ full' = full
  <2> DEFINE rest == Rest(s)
  <2>1. rest \in Seq(Pieces) /\ n \in 0 .. Len(rest) /\ ~ (n < Len(rest)) /\ Write(out, rest, n)
    BY <1>1, <1>4, <1>7
  <2> HIDE DEF out, s, n, rest
  <2>2. /\ out \in Sockets /\ ended[out] # "reset"
        /\ \E part \in Seq(Pieces) :
               /\ Len(part) = n /\ \A x : Uniform(rest, x) => Uniform(part, x)
               /\ got' = [got EXCEPT ![out] = got[out] \o part]
        /\ got' \in [Sockets -> Seq(Pieces)] /\ full' = IF n < Len(rest) THEN full \cup {out} ELSE full
    BY <2>1, WriteDoes
  <2> QED
    BY <2>1, <2>2 DEF rest
<1> HIDE DEF out
<1>10. PICK part \in Seq(Pieces) :
             /\ Len(part) = n /\ Uniform(part, <<"query", c>>)
             /\ got' = [got EXCEPT ![out] = got[out] \o part]
  BY <1>4, <1>9
<1>11. /\ UNCHANGED <<file, idx, accepting, inbox, peers>>
       /\ up' = IF watch[out] # "no" THEN up ELSE "down"
       /\ watch' = [watch EXCEPT ![out] = "in"]
       /\ ptr' = [ptr EXCEPT ![out] = s]
       /\ ready' = IF Readable(out) THEN ready \cup {out} ELSE ready
       /\ conn' = [conn EXCEPT ![s] = r]
  BY DEF SendRequestAll, out
<1>12. conn[s].wroteServer + Len(part) = ReqLen
  <2> DEFINE w == conn[s].wroteServer
             l == Len(part)
  <2>1. w \in 0 .. ReqLen /\ l = ReqLen - w
    BY <1>4, <1>5, <1>10
  <2> HIDE DEF w, l
  <2>2. w + l = ReqLen
    BY <2>1 DEF ReqLen
  <2> QED
    BY <2>2 DEF w, l
<1>13. up' \in {"up", "down"}
  BY <1>2, <1>11
<1> DEFINE rr == r
<1>14. rr = [conn[s] EXCEPT !.wroteServer = ReqLen, !.state = "READ_RES"]
  OBVIOUS
<1> HIDE DEF rr, s, c, n
<1> QED
  BY <1>1, <1>4, <1>6, <1>9, <1>10, <1>11, <1>12, <1>13, <1>14 DEF out, s, c, rr

(* What read_response takes of the stream and leaves.  It leaves nothing    *)
(* when it does not end.                                                    *)
LEMMA FitsDoes ==
    ASSUME EpollTypes, NEW s \in Slots, Awaited(s) \in Sockets
    PROVE  LET in == Awaited(s)
               rest == From(inbox[in], Len(Fits(s)))
           IN  /\ Fits(s) \in Seq(Pieces) /\ rest \in Seq(Pieces)
               /\ Len(Fits(s)) + Len(rest) = Len(inbox[in])
               /\ Len(conn[s].res) + Len(Fits(s)) <= MaxObject
               /\ \A x : Uniform(inbox[in], x) => Uniform(Fits(s), x) /\ Uniform(rest, x)
               /\ ~ ReadAll(s) => rest = << >> /\ ended[in] # "eof"
<1> DEFINE in == Awaited(s)
           box == inbox[in]
           room == MaxObject - Len(conn[s].res)
           n == IF Len(box) < room THEN Len(box) ELSE room
<1>1. box \in Seq(Pieces) /\ Len(box) \in Nat
  <2>1. box \in Seq(Pieces)
    BY DEF EpollTypes
  <2> QED
    BY <2>1, LenProperties
<1>2. Len(conn[s].res) \in Nat /\ Len(conn[s].res) <= MaxObject /\ MaxObject \in Nat
  BY SlotTypes, EpollAssumption
<1>3. room \in Nat /\ Len(conn[s].res) + room = MaxObject
  BY <1>2
<1>4. Fits(s) = SubSeq(box, 1, n)
  BY DEF Fits
<1>5. n \in 0 .. Len(box) /\ n <= room
  <2> HIDE DEF box, room
  <2> QED
    BY <1>1, <1>3
<1> HIDE DEF n
<1>6. Fits(s) \in Seq(Pieces) /\ Len(Fits(s)) = n /\ \A x : Uniform(box, x) => Uniform(Fits(s), x)
  <2> HIDE DEF box
  <2> QED
    BY <1>1, <1>4, <1>5, StartDoes
<1> DEFINE rest == From(box, n)
<1>7. rest \in Seq(Pieces) /\ Len(rest) = Len(box) - n /\ \A x : Uniform(box, x) => Uniform(rest, x)
  <2> HIDE DEF box
  <2> QED
    BY <1>1, <1>5, FromDoes
<1>8. Len(Fits(s)) + Len(rest) = Len(box) /\ Len(conn[s].res) + Len(Fits(s)) <= MaxObject
  <2> HIDE DEF rest, box
  <2>1. n + Len(rest) = Len(box)
    BY <1>1, <1>5, <1>7
  <2>2. Len(conn[s].res) + n <= MaxObject
    <3> HIDE DEF room
    <3> QED
      BY <1>2, <1>3, <1>5, <1>1
  <2> QED
    BY <1>6, <2>1, <2>2
<1>9. ASSUME ~ ReadAll(s) PROVE rest = << >> /\ ended[in] # "eof"
  <2>1. Len(conn[s].res) + n # MaxObject /\ (Fits(s) # box \/ ended[in] # "eof")
    BY <1>6, <1>9 DEF ReadAll
  <2>2. n # room
    BY <1>3, <2>1
  <2>3. n = Len(box)
    BY <2>2 DEF n
  <2>4. Fits(s) = box
    <3> HIDE DEF box
    <3> QED
      BY <1>1, <1>4, <2>3, SubSeqFull
  <2>5. Len(rest) = 0
    <3> HIDE DEF rest, box
    <3> QED
      BY <1>1, <1>7, <2>3
  <2>6. rest = << >>
    <3> HIDE DEF rest
    <3> QED
      BY <1>7, <2>5, EmptySeq
  <2> QED
    BY <2>1, <2>4, <2>6
<1>10. From(inbox[in], Len(Fits(s))) = rest
  BY <1>6
<1> HIDE DEF rest, box
<1> QED
  BY <1>6, <1>7, <1>8, <1>9, <1>10 DEF box

(* read_response when more is to come.                                      *)
LEMMA ReadResponseSomeDoes ==
    ASSUME EpollTypes, NEW e, ReadResponseSome(e)
    PROVE  LET s == e.slot
               in == Awaited(s)
           IN  /\ Dispatch(e, "READ_RES") /\ in \in Sockets /\ ended[in] \notin {"reset", "eof"}
               /\ \E part \in Seq(Pieces), r \in ConnState :
                     /\ Len(part) = Len(inbox[in]) /\ \A x : Uniform(inbox[in], x) => Uniform(part, x)
                     /\ conn[s].res \o part \in Seq(Pieces) /\ Len(conn[s].res \o part) <= MaxObject
                     /\ conn' = [conn EXCEPT ![s] = r]
                     /\ r = [conn[s] EXCEPT !.res = conn[s].res \o part]
               /\ inbox' = [inbox EXCEPT ![in] = << >>]
               /\ UNCHANGED <<up, file, idx, accepting, watch, ptr, ready, full, got, peers>>
<1> DEFINE s == e.slot
           in == Awaited(s)
           part == Fits(s)
           rest == From(inbox[in], Len(part))
           r == [conn[s] EXCEPT !.res = conn[s].res \o part]
<1>1. /\ Dispatch(e, "READ_RES") /\ in \in Sockets /\ ended[in] # "reset" /\ ~ ReadAll(s)
      /\ inbox' = [inbox EXCEPT ![in] = rest] /\ conn' = [conn EXCEPT ![s] = r]
      /\ UNCHANGED <<up, file, idx, accepting, watch, ptr, ready, full, got, peers>>
  BY DEF ReadResponseSome, Receive, Broken
<1>2. s \in Slots
  BY <1>1, DispatchDoes
<1>3. /\ part \in Seq(Pieces) /\ rest = << >> /\ ended[in] # "eof" /\ Len(part) + Len(rest) = Len(inbox[in])
      /\ Len(conn[s].res) + Len(part) <= MaxObject
      /\ \A x : Uniform(inbox[in], x) => Uniform(part, x)
  BY <1>1, <1>2, FitsDoes
<1>4. conn[s] \in ConnState /\ conn[s].res \in Seq(Pieces)
  BY <1>2, SlotTypes DEF EpollTypes
<1>5. Len(part) = Len(inbox[in])
  BY <1>3, EmptySeq, LenProperties
<1> HIDE DEF part
<1>6. conn[s].res \o part \in Seq(Pieces) /\ Len(conn[s].res \o part) <= MaxObject
  BY <1>3, <1>4, JoinDoes
<1>7. r \in ConnState
  <2> HIDE DEF s
  <2> QED
    BY <1>4, <1>6 DEF ConnState
<1>8. inbox' = [inbox EXCEPT ![in] = << >>]
  BY <1>1, <1>3
<1>9. r = [conn[s] EXCEPT !.res = conn[s].res \o part]
  OBVIOUS
<1> HIDE DEF r, in, s, rest
<1> QED
  BY <1>1, <1>3, <1>5, <1>6, <1>7, <1>8, <1>9 DEF in, s

(* read_response at the end of the stream or of the buffer.                 *)
LEMMA ReadResponseAllDoes ==
    ASSUME EpollTypes, NEW e, ReadResponseAll(e)
    PROVE  LET s == e.slot
               in == Awaited(s)
               client == file[conn[s].client]
           IN  /\ Dispatch(e, "READ_RES") /\ in \in Sockets /\ ended[in] # "reset"
               /\ \E part \in Seq(Pieces), rest \in Seq(Pieces), r \in ConnState :
                     /\ Len(part) + Len(rest) = Len(inbox[in])
                     /\ \A x : Uniform(inbox[in], x) => Uniform(part, x) /\ Uniform(rest, x)
                     /\ conn[s].res \o part \in Seq(Pieces) /\ Len(conn[s].res \o part) <= MaxObject
                     /\ inbox' = [inbox EXCEPT ![in] = rest]
                     /\ conn' = [conn EXCEPT ![s] = r]
                     /\ r = [conn[s] EXCEPT !.res = conn[s].res \o part, !.state = "SEND_RES"]
               /\ up' \in {"up", "down"}
               /\ file' = [file EXCEPT ![conn[s].server] = Unused]
               /\ watch' = [k \in Sockets |-> IF k = in THEN "no" ELSE IF k = client THEN "out" ELSE watch[k]]
               /\ ready' = (ready \ {in}) \cup ({client} \cap (Sockets \ full))
               /\ ptr' = [ptr EXCEPT ![client] = s]
               /\ UNCHANGED <<idx, accepting, full, got, peers>>
<1> DEFINE s == e.slot
           in == Awaited(s)
           part == Fits(s)
           rest == From(inbox[in], Len(part))
           r == [conn[s] EXCEPT !.res = conn[s].res \o part, !.state = "SEND_RES"]
<1>1. /\ Dispatch(e, "READ_RES") /\ in \in Sockets /\ ended[in] # "reset"
      /\ inbox' = [inbox EXCEPT ![in] = rest] /\ conn' = [conn EXCEPT ![s] = r]
      /\ UNCHANGED <<idx, accepting, full, got, peers>>
  BY DEF ReadResponseAll, Receive, Broken
<1>2. s \in Slots /\ up = "up"
  BY <1>1, DispatchDoes
<1>3. /\ part \in Seq(Pieces) /\ rest \in Seq(Pieces) /\ Len(part) + Len(rest) = Len(inbox[in])
      /\ Len(conn[s].res) + Len(part) <= MaxObject
      /\ \A x : Uniform(inbox[in], x) => Uniform(part, x) /\ Uniform(rest, x)
  BY <1>1, <1>2, FitsDoes
<1>4. conn[s] \in ConnState /\ conn[s].res \in Seq(Pieces)
  BY <1>2, SlotTypes DEF EpollTypes
<1> HIDE DEF part
<1>6. conn[s].res \o part \in Seq(Pieces) /\ Len(conn[s].res \o part) <= MaxObject
  BY <1>3, <1>4, JoinDoes
<1>7. r \in ConnState
  <2> HIDE DEF s
  <2> QED
    BY <1>4, <1>6 DEF ConnState, States
<1>9. r = [conn[s] EXCEPT !.res = conn[s].res \o part, !.state = "SEND_RES"]
  OBVIOUS
<1>10. up' \in {"up", "down"}
  BY <1>2 DEF ReadResponseAll
<1>11. /\ file' = [file EXCEPT ![conn[s].server] = Unused]
       /\ watch' = [k \in Sockets |-> IF k = in THEN "no"
                                      ELSE IF k = file[conn[s].client] THEN "out" ELSE watch[k]]
       /\ ready' = (ready \ {in}) \cup ({file[conn[s].client]} \cap (Sockets \ full))
       /\ ptr' = [ptr EXCEPT ![file[conn[s].client]] = s]
  BY DEF ReadResponseAll
<1> HIDE DEF r, in, s, rest
<1> QED
  BY <1>1, <1>3, <1>6, <1>7, <1>9, <1>10, <1>11 DEF in, s

(* send_response, whatever it could write: main erases the state.           *)
LEMMA SendResponseDoes ==
    ASSUME EpollTypes, NEW e, SendResponseSome(e) \/ SendResponseAll(e)
    PROVE  LET s == e.slot
               out == Awaited(s)
           IN  /\ Dispatch(e, "SEND_RES") /\ out \in Sockets /\ ended[out] # "reset"
               /\ \E part \in Seq(Pieces) :
                     /\ Len(part) <= Len(conn[s].res) /\ \A x : Uniform(conn[s].res, x) => Uniform(part, x)
                     /\ got' = [got EXCEPT ![out] = got[out] \o part]
               /\ got' \in [Sockets -> Seq(Pieces)] /\ full' \subseteq Sockets
               /\ full' \in {full, full \cup {out}}
               /\ conn' = [conn EXCEPT ![s] = Fresh]
               /\ \/ /\ out[1] = "server" \/ "slow" \in Faults
                     /\ UNCHANGED <<file, watch, ready>>
                  \/ Close({conn[s].client})
               /\ UNCHANGED <<up, idx, accepting, ptr, inbox, peers>>
<1> DEFINE s == e.slot
           out == Awaited(s)
           data == From(conn[s].res, conn[s].wroteClient)
<1>1. /\ Dispatch(e, "SEND_RES") /\ conn' = [conn EXCEPT ![s] = Fresh]
      /\ UNCHANGED <<up, idx, accepting, ptr, inbox, peers>>
  BY DEF SendResponseSome, SendResponseAll
<1>2. s \in Slots
  BY <1>1, DispatchDoes
<1>3. conn[s].res \in Seq(Pieces) /\ conn[s].wroteClient = 0 /\ Len(conn[s].res) \in Nat
  BY <1>2, SlotTypes
<1>4. /\ data \in Seq(Pieces) /\ Len(data) = Len(conn[s].res)
      /\ \A x : Uniform(conn[s].res, x) => Uniform(data, x)
  <2> DEFINE res == conn[s].res
             z == conn[s].wroteClient
  <2>1. res \in Seq(Pieces) /\ z = 0 /\ z \in 0 .. Len(res) /\ Len(res) - z = Len(res)
    BY <1>3
  <2> HIDE DEF res, z
  <2>2. /\ From(res, z) \in Seq(Pieces) /\ Len(From(res, z)) = Len(res) - z
        /\ \A x : Uniform(res, x) => Uniform(From(res, z), x)
    BY <2>1, FromDoes
  <2> QED
    BY <2>1, <2>2 DEF res, z
<1>5. PICK n \in 0 .. Len(data) :
          /\ Write(out, data, n)
          /\ \/ n < Len(data) /\ UNCHANGED <<file, watch, ready>>
             \/ Close({conn[s].client})
  <2>1. CASE SendResponseSome(e)
    <3>1. PICK n \in 0 .. Len(data) - 1 : Write(out, data, n)
      BY <2>1 DEF SendResponseSome
    <3>2. n \in 0 .. Len(data) /\ n < Len(data)
      <4>1. Len(data) \in Nat
        BY <1>3, <1>4
      <4> HIDE DEF data
      <4> QED
        BY <3>1, <4>1
    <3>3. UNCHANGED <<file, watch, ready>>
      BY <2>1 DEF SendResponseSome
    <3> QED
      BY <3>1, <3>2, <3>3
  <2>2. CASE SendResponseAll(e)
    <3>1. Write(out, data, Len(data)) /\ Close({conn[s].client})
      BY <2>2 DEF SendResponseAll
    <3>2. Len(data) \in 0 .. Len(data)
      BY <1>3, <1>4
    <3> QED
      BY <3>1, <3>2
  <2> QED
    BY <2>1, <2>2
<1>6. /\ out \in Sockets /\ ended[out] # "reset"
      /\ \E part \in Seq(Pieces) :
             /\ Len(part) = n /\ \A x : Uniform(data, x) => Uniform(part, x)
             /\ got' = [got EXCEPT ![out] = got[out] \o part]
      /\ got' \in [Sockets -> Seq(Pieces)] /\ full' \subseteq Sockets
      /\ full' \in {full, full \cup {out}}
      /\ n < Len(data) => out[1] = "server" \/ "slow" \in Faults
  <2>1. data \in Seq(Pieces) /\ n \in 0 .. Len(data) /\ Write(out, data, n)
    BY <1>4, <1>5
  <2> HIDE DEF data, out
  <2>2. /\ out \in Sockets /\ ended[out] # "reset"
        /\ \E part \in Seq(Pieces) :
             /\ Len(part) = n /\ \A x : Uniform(data, x) => Uniform(part, x)
             /\ got' = [got EXCEPT ![out] = got[out] \o part]
        /\ got' \in [Sockets -> Seq(Pieces)] /\ full' \subseteq Sockets
        /\ full' = IF n < Len(data) THEN full \cup {out} ELSE full
        /\ n < Len(data) => out[1] = "server" \/ "slow" \in Faults
    BY <2>1, WriteDoes
  <2> QED
    BY <2>2
<1>7. n <= Len(conn[s].res)
  <2>1. Len(data) \in Nat
    BY <1>3, <1>4
  <2> HIDE DEF data
  <2> QED
    BY <1>3, <1>4, <1>5, <2>1
<1> HIDE DEF data, out, s
<1>8. \/ /\ out[1] = "server" \/ "slow" \in Faults
         /\ UNCHANGED <<file, watch, ready>>
      \/ Close({conn[s].client})
  BY <1>5, <1>6
<1>9. PICK part \in Seq(Pieces) :
             /\ Len(part) = n /\ \A x : Uniform(data, x) => Uniform(part, x)
             /\ got' = [got EXCEPT ![out] = got[out] \o part]
  BY <1>6
<1>10. Len(part) <= Len(conn[s].res) /\ \A x : Uniform(conn[s].res, x) => Uniform(part, x)
  BY <1>4, <1>7, <1>9
<1> QED
  BY <1>1, <1>6, <1>8, <1>9, <1>10 DEF out, s

----------------------------------------------------------------------------
(* The types. *)

(* close frees descriptors, and takes their sockets out of epoll.           *)
LEMMA CloseTypes ==
    ASSUME EpollTypes, NEW fds, Close(fds)
    PROVE  /\ file' \in [Fds -> Sockets \cup {Unused, Stdin}]
           /\ watch' \in [Sockets -> {"no", "in", "out"}]
           /\ ready' \subseteq Sockets \cup {Listen}
BY DEF EpollTypes, Close

(* The types hold at the start.                                             *)
LEMMA TypesInit == Init => EpollTypes
<1> SUFFICES ASSUME Init PROVE EpollTypes
  OBVIOUS
<1>1. << >> \in Seq(Pieces)
  BY EmptySeq
<1>2. 0 \in Slots /\ NoSlot \in Slots \cup {NoSlot}
  BY EpollAssumption DEF Slots
<1>3. file \in [Fds -> Sockets \cup {Unused, Stdin}]
  BY DEF Init
<1>4. conn \in [Slots -> ConnState] /\ \A s \in Slots : conn[s] = Fresh
  BY FreshTypes DEF Init
<1>5. \A s \in Slots : Len(conn[s].res) <= MaxObject /\ conn[s].state = "READ_REQ"
  BY <1>4, FreshTypes
<1> QED
  BY <1>1, <1>2, <1>3, <1>4, <1>5 DEF EpollTypes, Init

(* Whatever the peers do, every variable keeps its type.                    *)
LEMMA TypesKept ==
    ASSUME EpollTypes, [Next]_vars
    PROVE  EpollTypes'
<1> USE EpollAssumption
<1>1. CASE EpollWait
  <2>1. /\ UNCHANGED <<up, file, conn, idx, accepting, watch, ptr, inbox, full, got, backlog, sent, ended>>
        /\ ready' = {}
    BY <1>1 DEF EpollWait, peers
  <2>2. batch' \subseteq Events
    <3> SUFFICES ASSUME NEW e \in batch' PROVE e \in Events
      OBVIOUS
    <3>1. \/ \E k \in ready \ {Listen} : e = [sock |-> k, slot |-> ptr[k], bad |-> ended[k] = "reset"]
          \/ e = [sock |-> Listen, slot |-> NoSlot, bad |-> FALSE]
      BY <1>1 DEF EpollWait
    <3>2. \A k \in ready \ {Listen} : k \in Sockets /\ ptr[k] \in Slots
      BY DEF EpollTypes
    <3>3. ASSUME NEW k \in ready \ {Listen}, e = [sock |-> k, slot |-> ptr[k], bad |-> ended[k] = "reset"]
          PROVE  e \in Events
      <4> DEFINE bad == ended[k] = "reset"
      <4>1. bad \in BOOLEAN /\ e = [sock |-> k, slot |-> ptr[k], bad |-> bad]
        BY <3>3
      <4> HIDE DEF bad
      <4> QED
        BY <3>2, <4>1 DEF Events
    <3>4. ASSUME e = [sock |-> Listen, slot |-> NoSlot, bad |-> FALSE] PROVE e \in Events
      BY <3>4 DEF Events
    <3> QED
      BY <3>1, <3>3, <3>4
  <2> QED
    BY <2>1, <2>2 DEF EpollTypes
<1>2. ASSUME NEW e, Skip(e) \/ ReadRequestStuck(e) \/ ConnectFails(e) \/ WriteKills(e) PROVE EpollTypes'
  <2>1. /\ UNCHANGED <<file, conn, idx, accepting, watch, ptr, ready, inbox, full, got, backlog, sent, ended>>
        /\ Takes(e) /\ up' \in {"up", "stuck", "down"}
    BY <1>2 DEF Skip, ReadRequestStuck, ConnectFails, WriteKills, Becomes, Dispatch, RequestComplete, peers,
       EpollTypes
  <2>2. batch' \subseteq Events
    BY <2>1, TakesDoes
  <2> QED
    BY <2>1, <2>2 DEF EpollTypes
<1>3. ASSUME NEW e, NewClient(e) PROVE EpollTypes'
  <2>1. /\ UNCHANGED <<up, file, conn, watch, ptr, ready, inbox, full, got, backlog, sent, ended>>
        /\ Takes(e) /\ accepting' = idx /\ idx' = (idx + 1) % MaxStates
    BY <1>3 DEF NewClient, peers
  <2>2. batch' \subseteq Events
    BY <2>1, TakesDoes
  <2>3. idx' \in Slots /\ accepting' \in Slots \cup {NoSlot}
    BY <2>1 DEF EpollTypes, Slots
  <2> QED
    BY <2>1, <2>2, <2>3 DEF EpollTypes
<1>4. ASSUME NEW c \in Clients, AcceptOne(c) PROVE EpollTypes'
  <2> DEFINE r == [conn[accepting] EXCEPT !.client = Lowest]
  <2>1. /\ UNCHANGED <<up, idx, accepting, batch, sent, ended, inbox, full, got>>
        /\ accepting # NoSlot /\ backlog' = backlog \ {c} /\ Free # {}
        /\ file' = [file EXCEPT ![Lowest] = ClientSock(c)]
        /\ conn' = [conn EXCEPT ![accepting] = r]
        /\ watch' = [watch EXCEPT ![ClientSock(c)] = "in"]
        /\ ptr' = [ptr EXCEPT ![ClientSock(c)] = accepting]
        /\ ready' = ready \/ ready' = ready \cup {ClientSock(c)}
    BY <1>4 DEF AcceptOne, ClientSock
  <2>2. Lowest \in Fds /\ ClientSock(c) \in Sockets /\ accepting \in Slots
    BY <2>1, LowestFree, SocketKinds DEF EpollTypes
  <2>3. conn[accepting] \in ConnState
    BY <2>2 DEF EpollTypes
  <2>4. r \in ConnState /\ r.res = conn[accepting].res /\ r.req = conn[accepting].req
        /\ r.state = conn[accepting].state
    BY <2>2, <2>3 DEF ConnState
  <2>5. Len(r.res) <= MaxObject /\ (r.state # "READ_REQ" => r.req # << >>)
    <3> HIDE DEF r
    <3> QED
      BY <2>2, <2>4, SlotTypes
  <2>6. /\ conn' \in [Slots -> ConnState]
        /\ \A t \in Slots : Len(conn'[t].res) <= MaxObject
        /\ \A t \in Slots : conn'[t].state # "READ_REQ" => conn'[t].req # << >>
    <3> HIDE DEF r
    <3> QED
      BY <2>1, <2>2, <2>4, <2>5, SlotChanges
  <2>7. /\ file' \in [Fds -> Sockets \cup {Unused, Stdin}] /\ watch' \in [Sockets -> {"no", "in", "out"}]
        /\ ptr' \in [Sockets -> Slots] /\ ready' \subseteq Sockets \cup {Listen} /\ backlog' \subseteq Clients
    BY <2>1, <2>2 DEF EpollTypes
  <2> QED
    BY <2>1, <2>6, <2>7 DEF EpollTypes
<1>5. ASSUME NEW c \in Clients, AcceptZero(c) PROVE EpollTypes'
  <2>1. /\ UNCHANGED <<up, conn, idx, batch, watch, ptr, ready, sent, ended, inbox, full, got>>
        /\ accepting' = NoSlot /\ backlog' = backlog \ {c}
        /\ file' = [file EXCEPT ![0] = ClientSock(c)]
    BY <1>5 DEF AcceptZero, ClientSock
  <2> QED
    BY <2>1, SocketKinds DEF EpollTypes
<1>6. CASE AcceptNoMore
  BY <1>6 DEF AcceptNoMore, peers, EpollTypes
<1>7. ASSUME NEW e, Cancel(e) PROVE EpollTypes'
  <2>1. /\ UNCHANGED <<up, conn, idx, accepting, ptr, inbox, full, got, backlog, sent, ended>>
        /\ Takes(e) /\ Close({conn[e.slot].client, conn[e.slot].server})
    BY <1>7 DEF Cancel, Dispatch, peers
  <2>2. batch' \subseteq Events
    BY <2>1, TakesDoes
  <2> QED
    BY <2>1, <2>2, CloseTypes DEF EpollTypes
<1>8. ASSUME NEW e, SendResponseFails(e) PROVE EpollTypes'
  <2>1. /\ UNCHANGED <<up, idx, accepting, ptr, inbox, full, got, backlog, sent, ended>>
        /\ Dispatch(e, "SEND_RES") /\ Close({conn[e.slot].client}) /\ conn' = [conn EXCEPT ![e.slot] = Fresh]
    BY <1>8 DEF SendResponseFails, peers
  <2>2. batch' \subseteq Events /\ e.slot \in Slots
    BY <2>1, DispatchDoes
  <2>3. /\ conn' \in [Slots -> ConnState]
        /\ \A t \in Slots : Len(conn'[t].res) <= MaxObject
        /\ \A t \in Slots : conn'[t].state # "READ_REQ" => conn'[t].req # << >>
    BY <2>1, <2>2, FreshTypes, SlotChanges
  <2> QED
    BY <2>1, <2>2, <2>3, CloseTypes DEF EpollTypes
<1>9. ASSUME NEW e, SendResponseSome(e) \/ SendResponseAll(e) PROVE EpollTypes'
  <2>1. /\ UNCHANGED <<up, idx, accepting, ptr, inbox, backlog, sent, ended>>
        /\ Dispatch(e, "SEND_RES") /\ conn' = [conn EXCEPT ![e.slot] = Fresh]
        /\ got' \in [Sockets -> Seq(Pieces)] /\ full' \subseteq Sockets
        /\ UNCHANGED <<file, watch, ready>> \/ Close({conn[e.slot].client})
    BY <1>9, SendResponseDoes DEF peers
  <2>2. batch' \subseteq Events /\ e.slot \in Slots
    BY <2>1, DispatchDoes
  <2>3. /\ conn' \in [Slots -> ConnState]
        /\ \A t \in Slots : Len(conn'[t].res) <= MaxObject
        /\ \A t \in Slots : conn'[t].state # "READ_REQ" => conn'[t].req # << >>
    BY <2>1, <2>2, FreshTypes, SlotChanges
  <2>4. /\ file' \in [Fds -> Sockets \cup {Unused, Stdin}]
        /\ watch' \in [Sockets -> {"no", "in", "out"}]
        /\ ready' \subseteq Sockets \cup {Listen}
    BY <2>1, CloseTypes DEF EpollTypes
  <2> QED
    BY <2>1, <2>2, <2>3, <2>4 DEF EpollTypes
<1>10. ASSUME NEW e, ReadRequest(e) PROVE EpollTypes'
  <2>1. /\ Dispatch(e, "READ_REQ")
        /\ inbox' = [inbox EXCEPT ![Awaited(e.slot)] = << >>]
        /\ UNCHANGED <<up, file, idx, accepting, watch, ptr, ready, full, got, backlog, sent, ended>>
    BY <1>10, ReadRequestDoes DEF peers
  <2>2. batch' \subseteq Events /\ e.slot \in Slots /\ conn[e.slot].state = "READ_REQ"
    BY <2>1, DispatchDoes
  <2>3. PICK r \in ConnState :
          /\ conn' = [conn EXCEPT ![e.slot] = r]
          /\ r = [conn[e.slot] EXCEPT !.req = conn[e.slot].req \o inbox[Awaited(e.slot)]]
    BY <1>10, ReadRequestDoes
  <2>4. conn[e.slot] \in ConnState
    BY <2>2 DEF EpollTypes
  <2>5. r.res = conn[e.slot].res /\ r.state = "READ_REQ"
    BY <2>2, <2>3, <2>4 DEF ConnState
  <2>6. Len(r.res) <= MaxObject /\ (r.state # "READ_REQ" => r.req # << >>)
    BY <2>2, <2>5, SlotTypes
  <2>7. /\ conn' \in [Slots -> ConnState]
        /\ \A t \in Slots : Len(conn'[t].res) <= MaxObject
        /\ \A t \in Slots : conn'[t].state # "READ_REQ" => conn'[t].req # << >>
    BY <2>2, <2>3, <2>6, SlotChanges
  <2>8. inbox' \in [Sockets -> Seq(Pieces)]
    BY <2>1, EmptySeq DEF EpollTypes
  <2> QED
    BY <2>1, <2>2, <2>7, <2>8 DEF EpollTypes
<1>11. ASSUME NEW e, Connect(e) PROVE EpollTypes'
  <2> DEFINE s == e.slot
             in == Awaited(s)
             req == conn[s].req \o inbox[in]
             k == ServerSock(Head(req)[2])
  <2>1. /\ Dispatch(e, "READ_REQ") /\ req # << >> /\ k \in Sockets /\ Lowest \in Fds
        /\ inbox' = [inbox EXCEPT ![in] = << >>]
        /\ file' = [file EXCEPT ![Lowest] = k]
        /\ \E r \in ConnState :
              /\ conn' = [conn EXCEPT ![s] = r]
              /\ r = [conn[s] EXCEPT !.req = req, !.server = Lowest, !.state = "SEND_REQ"]
        /\ watch' = [watch EXCEPT ![k] = "out"]
        /\ ptr' = [ptr EXCEPT ![k] = s]
        /\ ready' = ready \cup {k}
        /\ ended' = [ended EXCEPT ![k] = IF ended[k] = "none" THEN "open" ELSE ended[k]]
        /\ UNCHANGED <<up, idx, accepting, full, got, backlog, sent>>
    BY <1>11, ConnectDoes
  <2> HIDE DEF req, k, in
  <2>2. batch' \subseteq Events /\ s \in Slots
    BY <2>1, DispatchDoes
  <2>3. PICK r \in ConnState :
              /\ conn' = [conn EXCEPT ![s] = r]
              /\ r = [conn[s] EXCEPT !.req = req, !.server = Lowest, !.state = "SEND_REQ"]
    BY <2>1
  <2>4. conn[s] \in ConnState
    BY <2>2 DEF EpollTypes
  <2>5. r.res = conn[s].res /\ r.req = req
    BY <2>3, <2>4 DEF ConnState
  <2>6. Len(r.res) <= MaxObject /\ (r.state # "READ_REQ" => r.req # << >>)
    BY <2>1, <2>2, <2>5, SlotTypes
  <2>7. /\ conn' \in [Slots -> ConnState]
        /\ \A t \in Slots : Len(conn'[t].res) <= MaxObject
        /\ \A t \in Slots : conn'[t].state # "READ_REQ" => conn'[t].req # << >>
    BY <2>2, <2>3, <2>6, SlotChanges
  <2>8. inbox' \in [Sockets -> Seq(Pieces)]
    BY <2>1, EmptySeq DEF EpollTypes
  <2>9. /\ file' \in [Fds -> Sockets \cup {Unused, Stdin}] /\ watch' \in [Sockets -> {"no", "in", "out"}]
        /\ ptr' \in [Sockets -> Slots] /\ ready' \subseteq Sockets \cup {Listen}
        /\ ended' \in [Sockets -> {"none", "open", "eof", "reset"}]
    <3> HIDE DEF s
    <3> QED
      BY <2>1, <2>2 DEF EpollTypes
  <2> QED
    BY <2>1, <2>2, <2>7, <2>8, <2>9 DEF EpollTypes
<1>12. ASSUME NEW e, SendRequestSome(e) PROVE EpollTypes'
  <2> DEFINE s == e.slot
             out == Awaited(s)
  <2>1. /\ Dispatch(e, "SEND_REQ") /\ out \in Sockets
        /\ got' \in [Sockets -> Seq(Pieces)]
        /\ full' = full \cup {out}
        /\ UNCHANGED <<up, file, idx, accepting, watch, ptr, ready, inbox, backlog, sent, ended>>
    BY <1>12, SendRequestSomeDoes DEF peers
  <2>2. PICK part \in Seq(Pieces), r \in ConnState :
              /\ conn' = [conn EXCEPT ![s] = r]
              /\ r = [conn[s] EXCEPT !.wroteServer = conn[s].wroteServer + Len(part)]
    BY <1>12, SendRequestSomeDoes
  <2>3. batch' \subseteq Events /\ s \in Slots
    BY <2>1, DispatchDoes
  <2>4. conn[s] \in ConnState
    BY <2>3 DEF EpollTypes
  <2>5. r.res = conn[s].res /\ r.req = conn[s].req /\ r.state = conn[s].state
    BY <2>2, <2>4 DEF ConnState
  <2>6. Len(r.res) <= MaxObject /\ (r.state # "READ_REQ" => r.req # << >>)
    BY <2>3, <2>5, SlotTypes
  <2>7. /\ conn' \in [Slots -> ConnState]
        /\ \A t \in Slots : Len(conn'[t].res) <= MaxObject
        /\ \A t \in Slots : conn'[t].state # "READ_REQ" => conn'[t].req # << >>
    BY <2>2, <2>3, <2>6, SlotChanges
  <2>8. full' \subseteq Sockets
    BY <2>1 DEF EpollTypes
  <2> QED
    BY <2>1, <2>3, <2>7, <2>8 DEF EpollTypes
<1>13. ASSUME NEW e, SendRequestAll(e) PROVE EpollTypes'
  <2> DEFINE s == e.slot
             out == Awaited(s)
  <2>1. /\ Dispatch(e, "SEND_REQ") /\ out \in Sockets
        /\ got' \in [Sockets -> Seq(Pieces)]
        /\ up' \in {"up", "down"}
        /\ watch' = [watch EXCEPT ![out] = "in"]
        /\ ptr' = [ptr EXCEPT ![out] = s]
        /\ ready' = IF Readable(out) THEN ready \cup {out} ELSE ready
        /\ UNCHANGED <<file, idx, accepting, full, inbox, backlog, sent, ended>>
    BY <1>13, SendRequestAllDoes DEF peers
  <2>2. PICK r \in ConnState :
              /\ conn' = [conn EXCEPT ![s] = r]
              /\ r = [conn[s] EXCEPT !.wroteServer = ReqLen, !.state = "READ_RES"]
    BY <1>13, SendRequestAllDoes
  <2>3. batch' \subseteq Events /\ s \in Slots /\ conn[s].state = "SEND_REQ"
    BY <2>1, DispatchDoes
  <2>4. conn[s] \in ConnState
    BY <2>3 DEF EpollTypes
  <2>5. r.res = conn[s].res /\ r.req = conn[s].req
    BY <2>2, <2>4 DEF ConnState
  <2>6. Len(r.res) <= MaxObject /\ (r.state # "READ_REQ" => r.req # << >>)
    BY <2>3, <2>5, SlotTypes
  <2>7. /\ conn' \in [Slots -> ConnState]
        /\ \A t \in Slots : Len(conn'[t].res) <= MaxObject
        /\ \A t \in Slots : conn'[t].state # "READ_REQ" => conn'[t].req # << >>
    BY <2>2, <2>3, <2>6, SlotChanges
  <2>8. /\ watch' \in [Sockets -> {"no", "in", "out"}] /\ ptr' \in [Sockets -> Slots]
        /\ ready' \subseteq Sockets \cup {Listen} /\ up' \in {"up", "stuck", "down"}
    <3> HIDE DEF s, out
    <3> QED
      BY <2>1, <2>3 DEF EpollTypes
  <2> QED
    BY <2>1, <2>3, <2>7, <2>8 DEF EpollTypes
<1>14. ASSUME NEW e, ReadResponseSome(e) PROVE EpollTypes'
  <2> DEFINE s == e.slot
             in == Awaited(s)
  <2>1. /\ Dispatch(e, "READ_RES")
        /\ inbox' = [inbox EXCEPT ![in] = << >>]
        /\ UNCHANGED <<up, file, idx, accepting, watch, ptr, ready, full, got, backlog, sent, ended>>
    BY <1>14, ReadResponseSomeDoes DEF peers
  <2>2. PICK part \in Seq(Pieces), r \in ConnState :
              /\ Len(conn[s].res \o part) <= MaxObject
              /\ conn' = [conn EXCEPT ![s] = r]
              /\ r = [conn[s] EXCEPT !.res = conn[s].res \o part]
    BY <1>14, ReadResponseSomeDoes
  <2>3. batch' \subseteq Events /\ s \in Slots /\ conn[s].state = "READ_RES"
    BY <2>1, DispatchDoes
  <2>4. conn[s] \in ConnState
    BY <2>3 DEF EpollTypes
  <2>5. r.res = conn[s].res \o part /\ r.req = conn[s].req
    BY <2>2, <2>4 DEF ConnState
  <2>6. Len(r.res) <= MaxObject /\ (r.state # "READ_REQ" => r.req # << >>)
    BY <2>2, <2>3, <2>5, SlotTypes
  <2>7. /\ conn' \in [Slots -> ConnState]
        /\ \A t \in Slots : Len(conn'[t].res) <= MaxObject
        /\ \A t \in Slots : conn'[t].state # "READ_REQ" => conn'[t].req # << >>
    BY <2>2, <2>3, <2>6, SlotChanges
  <2>8. inbox' \in [Sockets -> Seq(Pieces)]
    BY <2>1, EmptySeq DEF EpollTypes
  <2> QED
    BY <2>1, <2>3, <2>7, <2>8 DEF EpollTypes
<1>15. ASSUME NEW e, ReadResponseAll(e) PROVE EpollTypes'
  <2> DEFINE s == e.slot
             in == Awaited(s)
             client == file[conn[s].client]
  <2>1. /\ Dispatch(e, "READ_RES")
        /\ up' \in {"up", "down"}
        /\ file' = [file EXCEPT ![conn[s].server] = Unused]
        /\ watch' = [k \in Sockets |-> IF k = in THEN "no" ELSE IF k = client THEN "out" ELSE watch[k]]
        /\ ready' = (ready \ {in}) \cup ({client} \cap (Sockets \ full))
        /\ ptr' = [ptr EXCEPT ![client] = s]
        /\ UNCHANGED <<idx, accepting, full, got, backlog, sent, ended>>
    BY <1>15, ReadResponseAllDoes DEF peers
  <2>2. PICK part \in Seq(Pieces), rest \in Seq(Pieces), r \in ConnState :
              /\ Len(part) + Len(rest) = Len(inbox[in])
              /\ \A x : Uniform(inbox[in], x) => Uniform(part, x) /\ Uniform(rest, x)
              /\ conn[s].res \o part \in Seq(Pieces) /\ Len(conn[s].res \o part) <= MaxObject
              /\ inbox' = [inbox EXCEPT ![in] = rest]
              /\ conn' = [conn EXCEPT ![s] = r]
              /\ r = [conn[s] EXCEPT !.res = conn[s].res \o part, !.state = "SEND_RES"]
    BY <1>15, ReadResponseAllDoes
  <2>3. batch' \subseteq Events /\ s \in Slots /\ conn[s].state = "READ_RES"
    BY <2>1, DispatchDoes
  <2>4. conn[s] \in ConnState
    BY <2>3 DEF EpollTypes
  <2>5. r.res = conn[s].res \o part /\ r.req = conn[s].req
    BY <2>2, <2>4 DEF ConnState
  <2>6. Len(r.res) <= MaxObject /\ (r.state # "READ_REQ" => r.req # << >>)
    BY <2>2, <2>3, <2>5, SlotTypes
  <2>7. /\ conn' \in [Slots -> ConnState]
        /\ \A t \in Slots : Len(conn'[t].res) <= MaxObject
        /\ \A t \in Slots : conn'[t].state # "READ_REQ" => conn'[t].req # << >>
    BY <2>2, <2>3, <2>6, SlotChanges
  <2> HIDE DEF in, client, s
  <2>8. inbox' \in [Sockets -> Seq(Pieces)]
    BY <2>2 DEF EpollTypes
  <2>9. /\ file' \in [Fds -> Sockets \cup {Unused, Stdin}]
        /\ ptr' \in [Sockets -> Slots] /\ up' \in {"up", "stuck", "down"}
    BY <2>1, <2>3 DEF EpollTypes
  <2>10. ready' \subseteq Sockets \cup {Listen} /\ watch' \in [Sockets -> {"no", "in", "out"}]
    BY <2>1 DEF EpollTypes
  <2> QED
    BY <2>1, <2>3, <2>7, <2>8, <2>9, <2>10 DEF EpollTypes
<1>16. ASSUME NEW c \in Clients, Connects(c) PROVE EpollTypes'
  <2>1. /\ UNCHANGED <<up, file, conn, idx, accepting, batch, watch, ptr, sent, inbox, full, got>>
        /\ ended' = [ended EXCEPT ![ClientSock(c)] = "open"]
        /\ backlog' = backlog \cup {c} /\ ready' = ready \cup {Listen}
    BY <1>16 DEF Connects, ClientSock
  <2> QED
    BY <2>1, SocketKinds DEF EpollTypes
<1>17. ASSUME NEW k \in Sockets, Peer(k) PROVE EpollTypes'
  <2>1. CASE Sends(k)
    <3> DEFINE x == <<IF k[1] = "server" THEN "answer" ELSE IF sent'[k] = ReqLen THEN "end" ELSE "part", k[2]>>
    <3>1. /\ UNCHANGED <<up, file, conn, idx, accepting, batch, watch, ptr, backlog, ended, full, got>>
          /\ sent' = [sent EXCEPT ![k] = sent[k] + 1]
          /\ inbox' = [inbox EXCEPT ![k] = Append(inbox[k], x)]
          /\ ready' = ready \/ ready' = ready \cup {k}
      BY <2>1 DEF Sends, Comes
    <3>2. x \in Pieces
      BY SocketKinds DEF Pieces
    <3> HIDE DEF x
    <3>3. inbox[k] \in Seq(Pieces) /\ sent[k] \in Nat
      BY DEF EpollTypes
    <3>4. Append(inbox[k], x) \in Seq(Pieces)
      BY <3>2, <3>3, AppendDoes
    <3>5. inbox' \in [Sockets -> Seq(Pieces)] /\ sent' \in [Sockets -> Nat] /\ ready' \subseteq Sockets \cup {Listen}
      BY <3>1, <3>3, <3>4 DEF EpollTypes
    <3> QED
      BY <3>1, <3>5 DEF EpollTypes
  <2>2. CASE Ends(k) \/ Drains(k)
    BY <2>2 DEF Ends, Drains, Comes, EpollTypes, peers
  <2>3. CASE Resets(k)
    <3>1. /\ UNCHANGED <<up, file, conn, idx, accepting, batch, watch, ptr, backlog, sent, full, got>>
          /\ ended' = [ended EXCEPT ![k] = "reset"]
          /\ inbox' = [inbox EXCEPT ![k] = << >>]
          /\ ready' = ready \/ ready' = ready \cup {k}
      BY <2>3 DEF Resets
    <3>2. << >> \in Seq(Pieces)
      BY EmptySeq
    <3> QED
      BY <3>1, <3>2 DEF EpollTypes
  <2> QED
    BY <1>17, <2>1, <2>2, <2>3 DEF Peer
<1>18. CASE UNCHANGED vars
  BY <1>18 DEF vars, EpollTypes
<1> QED
  BY <1>1, <1>2, <1>3, <1>4, <1>5, <1>6, <1>7, <1>8, <1>9, <1>10, <1>11, <1>12, <1>13, <1>14, <1>15,
     <1>16, <1>17, <1>18 DEF Next, Proxy, HandleEvent

----------------------------------------------------------------------------
(* The invariant. *)

(* Until a stream is reset nothing fails: no event is skipped, and the      *)
(* standard input is never closed.                                          *)
Quiet ==
    /\ file[0] = Stdin
    /\ \A k \in Sockets : ended[k] # "reset"
    /\ \A e \in batch : ~ e.bad

(* A socket that epoll may know of.                                         *)
Registered(k) == ended[k] # "none" /\ (k[1] = "client" => k[2] \notin backlog)

ServerUntouched(c) ==
    LET k == ServerSock(c)
    IN  ended[k] = "none" /\ sent[k] = 0 /\ inbox[k] = << >> /\ got[k] = << >>

(* What holds of a client and its server, whoever serves them: only         *)
(* registered sockets have edges and events, and the events name the slot   *)
(* of the registration; a client not accepted yet has nothing open; and the *)
(* streams carry what belongs to the client.                                *)
EdgesOf(k) ==
    /\ watch[k] # "no" \/ k \in ready => Registered(k)
    /\ \A e \in batch : e.sock = k => Registered(k) /\ e.slot = ptr[k]

NewOnes(c) ==
    /\ c \in backlog => ended[ClientSock(c)] # "none"
    /\ ~ Registered(ClientSock(c)) =>
           ~ Open(ClientSock(c)) /\ ServerUntouched(c) /\ got[ClientSock(c)] = << >>

Streams(c) ==
    /\ Tagged(inbox[ClientSock(c)], c)
    /\ Uniform(inbox[ServerSock(c)], <<"answer", c>>) /\ sent[ServerSock(c)] <= ResLen
    /\ Uniform(got[ClientSock(c)], <<"answer", c>>) /\ Len(got[ClientSock(c)]) <= ResLen
    /\ Uniform(got[ServerSock(c)], <<"query", c>>) /\ Len(got[ServerSock(c)]) <= ReqLen

ClientHolds(c) == EdgesOf(ClientSock(c)) /\ EdgesOf(ServerSock(c)) /\ NewOnes(c) /\ Streams(c)

(* A slot is erased, or serves one client, whose exchange is as far as the  *)
(* slot's state says.                                                       *)
WithServer(s, c) ==
    /\ file[conn[s].server] = ServerSock(c) /\ ptr[ServerSock(c)] = s
    /\ watch[ServerSock(c)] = IF conn[s].state = "SEND_REQ" THEN "out" ELSE "in"
    /\ conn[s].state = "SEND_REQ" => Len(got[ServerSock(c)]) = conn[s].wroteServer
    /\ Len(conn[s].res) + Len(inbox[ServerSock(c)]) = sent[ServerSock(c)]

Phase(s, c) ==
    \/ /\ conn[s].state = "READ_REQ" /\ conn[s].res = << >> /\ conn[s].wroteServer = 0
       /\ watch[ClientSock(c)] = "in" /\ ServerUntouched(c)
    \/ conn[s].state \in {"SEND_REQ", "READ_RES"} /\ WithServer(s, c)
    \/ conn[s].state = "SEND_RES" /\ Len(conn[s].res) <= ResLen

Serving(s, c) ==
    /\ file[conn[s].client] = ClientSock(c) /\ ptr[ClientSock(c)] = s
    /\ Registered(ClientSock(c)) /\ got[ClientSock(c)] = << >>
    /\ Tagged(conn[s].req, c) /\ Uniform(conn[s].res, <<"answer", c>>)
    /\ Phase(s, c)

SlotHolds(s) == conn[s] = Fresh \/ \E c \in Clients : Serving(s, c)

(* No edge of the socket that a slot waits for is lost.                     *)
EdgeHolds(s) ==
    up = "up" /\ Awaited(s) \in Sockets /\ Due(Awaited(s)) =>
        Awaited(s) \in ready \/ \E e \in batch : e.sock = Awaited(s)

(* A slot is taken for each event of the listening socket, of which there   *)
(* is at most one for each client: the index does not come back to a slot   *)
(* that was used.                                                           *)
Asking == (IF Listen \in ready THEN 1 ELSE 0) + (IF \E e \in batch : e.sock = Listen THEN 1 ELSE 0)
Begun == {c \in Clients : ended[ClientSock(c)] # "none"}
TurnIs(n) ==
    /\ idx = n % MaxStates /\ n + Asking <= Cardinality(Begun)
    /\ \A s \in Slots : s >= n => conn[s] = Fresh
    /\ accepting # NoSlot => /\ accepting = n - 1
                             /\ \E f \in Fds : conn[accepting] = [Fresh EXCEPT !.client = f]
Turns == \E n \in 0 .. MaxStates : TurnIs(n)

EpollInv ==
    /\ EpollTypes /\ Quiet
    /\ \A c \in Clients : ClientHolds(c)
    /\ \A s \in Slots : SlotHolds(s) /\ EdgeHolds(s)
    /\ Turns

(* Nothing that concerns the client d or its server is changed.             *)
SocketSpared(k) ==
    /\ ptr'[k] = ptr[k] /\ inbox'[k] = inbox[k] /\ got'[k] = got[k] /\ watch'[k] = watch[k]
    /\ ended'[k] = ended[k] /\ sent'[k] = sent[k]
    /\ k \in ready' <=> k \in ready
    /\ k \in full' <=> k \in full
    /\ \A f \in Fds : file'[f] = k <=> file[f] = k
Spared(d) ==
    /\ SocketSpared(ClientSock(d)) /\ SocketSpared(ServerSock(d))
    /\ d \in backlog' <=> d \in backlog

(* A step that spares a client keeps what holds of it.                      *)
LEMMA ClientSpared ==
    ASSUME NEW d \in Clients, ClientHolds(d), Spared(d), batch' \subseteq batch
    PROVE  ClientHolds(d)'
<1> DEFINE C == ClientSock(d)
           S == ServerSock(d)
<1>1. SocketSpared(C) /\ SocketSpared(S) /\ (d \in backlog' <=> d \in backlog)
  BY DEF Spared
<1>2. C[1] = "client" /\ C[2] = d /\ S[1] = "server" /\ S[2] = d
  BY SocketKinds
<1> HIDE DEF C, S
<1>3. (Registered(C) <=> Registered(C)') /\ (Registered(S) <=> Registered(S)')
  BY <1>1, <1>2 DEF Registered, SocketSpared
<1>4. EdgesOf(C) => EdgesOf(C)'
  BY <1>1, <1>3 DEF EdgesOf, SocketSpared
<1>5. EdgesOf(S) => EdgesOf(S)'
  BY <1>1, <1>3 DEF EdgesOf, SocketSpared
<1>6. Open(C)' <=> Open(C)
  BY <1>1 DEF Open, SocketSpared
<1>7. ServerUntouched(d)' <=> ServerUntouched(d)
  BY <1>1 DEF ServerUntouched, SocketSpared, S
<1>8. NewOnes(d) => NewOnes(d)'
  BY <1>1, <1>3, <1>6, <1>7 DEF NewOnes, SocketSpared, C
<1>9. Streams(d) => Streams(d)'
  BY <1>1 DEF Streams, SocketSpared, Tagged, Uniform, C, S
<1> QED
  BY <1>4, <1>5, <1>8, <1>9 DEF ClientHolds, C, S

(* And the exchange with it in a slot that is not changed.                  *)
LEMMA ServingSpared ==
    ASSUME NEW d \in Clients, EpollTypes, Spared(d), NEW t \in Slots, conn'[t] = conn[t], Serving(t, d)
    PROVE  Serving(t, d)'
<1> DEFINE C == ClientSock(d)
           S == ServerSock(d)
<1>1. SocketSpared(C) /\ SocketSpared(S) /\ (d \in backlog' <=> d \in backlog)
  BY DEF Spared
<1>2. C[1] = "client" /\ C[2] = d
  BY SocketKinds
<1>3. conn[t].client \in Fds /\ conn[t].server \in Fds
  BY SlotTypes
<1> HIDE DEF C, S
<1>4. Registered(C) => Registered(C)'
  BY <1>1, <1>2 DEF Registered, SocketSpared
<1>5. ServerUntouched(d) => ServerUntouched(d)'
  BY <1>1 DEF ServerUntouched, SocketSpared, S
<1>6. WithServer(t, d) => WithServer(t, d)'
  BY <1>1, <1>3 DEF WithServer, SocketSpared, S
<1>7. Phase(t, d) => Phase(t, d)'
  BY <1>1, <1>5, <1>6 DEF Phase, SocketSpared, C
<1>8. file'[conn'[t].client] = C /\ ptr'[C] = t /\ got'[C] = << >>
  BY <1>1, <1>3 DEF Serving, SocketSpared, C
<1> QED
  BY <1>4, <1>7, <1>8 DEF Serving, C

(* What a slot waits for.                                                   *)
LEMMA AwaitedIs ==
    ASSUME EpollTypes, NEW s \in Slots
    PROVE  /\ conn[s] = Fresh /\ file[0] = Stdin => Awaited(s) = Stdin
           /\ \A c \in Clients : Serving(s, c) =>
                 /\ conn[s].state \in {"READ_REQ", "SEND_RES"} => Awaited(s) = ClientSock(c)
                 /\ conn[s].state \in {"SEND_REQ", "READ_RES"} => Awaited(s) = ServerSock(c)
                 /\ ptr[Awaited(s)] = s /\ Awaited(s) \in {ClientSock(c), ServerSock(c)}
                 /\ Awaited(s) \in Sockets
                 /\ file[0] = Stdin => conn[s] # Fresh
<1>1. ASSUME conn[s] = Fresh, file[0] = Stdin PROVE Awaited(s) = Stdin
  BY <1>1 DEF Awaited, Fresh
<1>2. ASSUME NEW c \in Clients, Serving(s, c)
      PROVE  /\ conn[s].state \in {"READ_REQ", "SEND_RES"} => Awaited(s) = ClientSock(c)
             /\ conn[s].state \in {"SEND_REQ", "READ_RES"} => Awaited(s) = ServerSock(c)
             /\ ptr[Awaited(s)] = s /\ Awaited(s) \in {ClientSock(c), ServerSock(c)}
             /\ Awaited(s) \in Sockets
             /\ file[0] = Stdin => conn[s] # Fresh
  <2>1. file[conn[s].client] = ClientSock(c) /\ ptr[ClientSock(c)] = s /\ Phase(s, c)
    BY <1>2 DEF Serving
  <2>2. conn[s].state \in {"SEND_REQ", "READ_RES"} => file[conn[s].server] = ServerSock(c) /\ ptr[ServerSock(c)] = s
    BY <2>1 DEF Phase, WithServer
  <2>3. conn[s].state \in States
    BY SlotTypes
  <2>4. file[0] = Stdin => conn[s] # Fresh
    BY <2>1, SocketKinds DEF Fresh
  <2> QED
    BY <2>1, <2>2, <2>3, <2>4, SocketKinds DEF Awaited, States
<1> QED
  BY <1>1, <1>2

(* And its edge, unless the event of this edge is the one handled.          *)
LEMMA EdgeSpared ==
    ASSUME NEW d \in Clients, EpollTypes, EpollTypes', Spared(d), NEW t \in Slots, conn'[t] = conn[t], Serving(t, d),
           EdgeHolds(t), up' = "up" => up = "up",
           \A e \in batch \ batch' : e.sock # Awaited(t)
    PROVE  EdgeHolds(t)'
<1>1. SocketSpared(Awaited(t))
  BY AwaitedIs DEF Spared
<1>2. Serving(t, d)'
  BY ServingSpared
<1>3. conn[t].state \in States /\ conn[t].client \in Fds /\ conn[t].server \in Fds
  BY SlotTypes
<1>4. Awaited(t)' = Awaited(t)
  BY <1>1, <1>3 DEF Awaited, SocketSpared
<1>5. Due(Awaited(t))' => Due(Awaited(t))
  BY <1>1, <1>4 DEF Due, Readable, SocketSpared
<1> DEFINE k == Awaited(t)
<1>6. ASSUME up' = "up", k \in Sockets, Due(k) PROVE k \in ready' \/ \E e \in batch' : e.sock = k
  <2>1. k \in ready \/ \E e \in batch : e.sock = k
    BY <1>6 DEF EdgeHolds
  <2> HIDE DEF k
  <2> QED
    BY <1>1, <2>1 DEF SocketSpared, k
<1> QED
  BY <1>4, <1>5, <1>6 DEF EdgeHolds

(* A step that concerns one client: the others are spared, and each slot is *)
(* erased, or goes on serving the client, or is neither changed nor handled.*)
LEMMA StepKeeps ==
    ASSUME NEW c \in Clients, EpollTypes, EpollTypes',
           \A d \in Clients : ClientHolds(d),
           \A s \in Slots : SlotHolds(s) /\ EdgeHolds(s),
           file'[0] = Stdin, up' = "up" => up = "up", batch' \subseteq batch,
           \A d \in Clients \ {c} : Spared(d),
           ClientHolds(c)',
           \A s \in Slots : \/ conn'[s] = Fresh
                            \/ Serving(s, c)' /\ EdgeHolds(s)'
                            \/ /\ conn'[s] = conn[s] /\ ~ Serving(s, c)
                               /\ \A e \in batch \ batch' : e.slot # s
    PROVE  /\ \A d \in Clients : ClientHolds(d)'
           /\ \A s \in Slots : SlotHolds(s)' /\ EdgeHolds(s)'
<1>1. \A d \in Clients : ClientHolds(d)'
  <2> SUFFICES ASSUME NEW d \in Clients, d # c PROVE ClientHolds(d)'
    OBVIOUS
  <2> QED
    BY ClientSpared
<1>2. ASSUME NEW s \in Slots, conn'[s] = Fresh PROVE SlotHolds(s)' /\ EdgeHolds(s)'
  <2>1. Awaited(s)' = Stdin
    BY <1>2 DEF Awaited, Fresh
  <2>2. SlotHolds(s)'
    BY <1>2 DEF SlotHolds
  <2> QED
    BY <2>1, <2>2, SocketKinds DEF EdgeHolds
<1>3. ASSUME NEW s \in Slots, Serving(s, c)', EdgeHolds(s)' PROVE SlotHolds(s)' /\ EdgeHolds(s)'
  BY <1>3 DEF SlotHolds
<1>4. ASSUME NEW s \in Slots, conn'[s] = conn[s], conn'[s] # Fresh, ~ Serving(s, c),
             \A e \in batch \ batch' : e.slot # s
      PROVE  SlotHolds(s)' /\ EdgeHolds(s)'
  <2>1. PICK d \in Clients : Serving(s, d)
    BY <1>4 DEF SlotHolds
  <2>2. d # c /\ Spared(d)
    BY <1>4, <2>1
  <2>3. Serving(s, d)'
    BY <1>4, <2>1, <2>2, ServingSpared
  <2>4. /\ ptr[Awaited(s)] = s /\ Awaited(s) \in {ClientSock(d), ServerSock(d)}
    BY <2>1, AwaitedIs
  <2>5. EdgesOf(ClientSock(d)) /\ EdgesOf(ServerSock(d))
    BY DEF ClientHolds
  <2>6. \A e \in batch \ batch' : e.sock # Awaited(s)
    BY <1>4, <2>4, <2>5 DEF EdgesOf
  <2>7. EdgeHolds(s)
    OBVIOUS
  <2>8. EdgeHolds(s)'
    BY <1>4, <2>1, <2>2, <2>6, <2>7, EdgeSpared
  <2> QED
    BY <2>3, <2>8 DEF SlotHolds
<1> QED
  BY <1>1, <1>2, <1>3, <1>4

(* A step of a connection asks for no slot and uses none but a used one.    *)
LEMMA TurnsStay ==
    ASSUME EpollTypes, Turns, idx' = idx, accepting' \in {accepting, NoSlot}, batch' \subseteq batch,
           Listen \in ready' => Listen \in ready,
           \A c \in Clients : ended'[ClientSock(c)] # "none" <=> ended[ClientSock(c)] # "none",
           \A s \in Slots : conn'[s] = conn[s] \/ (conn[s] # Fresh /\ accepting = NoSlot)
    PROVE  Turns'
<1>1. PICK n \in 0 .. MaxStates : TurnIs(n)
  BY DEF Turns
<1>2. Begun' = Begun
  BY DEF Begun
<1>3. Asking' <= Asking /\ Asking \in Nat /\ Asking' \in Nat
  BY DEF Asking
<1>4. IsFiniteSet(Begun)
  BY EpollAssumption, FS_Subset DEF Begun
<1>5. Cardinality(Begun) \in Nat
  BY <1>4, FS_CardinalityType
<1>6. n + Asking' <= Cardinality(Begun')
  BY <1>1, <1>2, <1>3, <1>5 DEF TurnIs
<1>7. \A s \in Slots : s >= n => conn'[s] = Fresh
  BY <1>1 DEF TurnIs
<1>8. accepting' # NoSlot => /\ accepting' = n - 1
                             /\ \E f \in Fds : conn'[accepting'] = [Fresh EXCEPT !.client = f]
  BY <1>1 DEF TurnIs, EpollTypes
<1>9. TurnIs(n)'
  BY <1>1, <1>6, <1>7, <1>8 DEF TurnIs
<1> QED
  BY <1>9 DEF Turns

(* The slot of an event that a handler can work on serves a client.         *)
LEMMA HandledSlot ==
    ASSUME EpollInv, NEW e, NEW state, Dispatch(e, state), Awaited(e.slot) \in Sockets
    PROVE  \E c \in Clients : Serving(e.slot, c)
<1>1. EpollTypes /\ e.slot \in Slots /\ file[0] = Stdin /\ SlotHolds(e.slot)
  BY DispatchDoes DEF EpollInv, Quiet
<1>2. conn[e.slot] # Fresh
  BY <1>1, AwaitedIs, SocketKinds
<1> QED
  BY <1>1, <1>2 DEF SlotHolds

(* What a handler that works for the client c has to keep.                  *)
LEMMA HandlerKeeps ==
    ASSUME NEW c \in Clients, EpollInv, EpollTypes', NEW e, NEW state, Dispatch(e, state), Serving(e.slot, c),
           UNCHANGED <<idx, accepting>>, file'[0] = Stdin,
           Listen \in ready' => Listen \in ready,
           \A k \in Sockets : ended'[k] # "reset",
           ended'[ClientSock(c)] = ended[ClientSock(c)],
           \A s \in Slots \ {e.slot} : conn'[s] = conn[s],
           \A d \in Clients \ {c} : Spared(d),
           ClientHolds(c)',
           conn'[e.slot] = Fresh \/ (Serving(e.slot, c)' /\ EdgeHolds(e.slot)')
    PROVE  EpollInv'
<1>1. /\ up = "up" /\ accepting = NoSlot /\ e \in batch /\ batch' = batch \ {e} /\ e.slot \in Slots
      /\ EpollTypes
  BY DispatchDoes DEF EpollInv
<1>2. conn[e.slot] # Fresh /\ ptr[ClientSock(c)] = e.slot
  BY <1>1, AwaitedIs DEF Serving, EpollInv, Quiet
<1>3. \A s \in Slots \ {e.slot} : ~ Serving(s, c)
  BY <1>2 DEF Serving
<1>4. \A s \in Slots : \/ conn'[s] = Fresh
                       \/ Serving(s, c)' /\ EdgeHolds(s)'
                       \/ /\ conn'[s] = conn[s] /\ ~ Serving(s, c)
                          /\ \A x \in batch \ batch' : x.slot # s
  BY <1>1, <1>3
<1>5. /\ \A d \in Clients : ClientHolds(d)'
      /\ \A s \in Slots : SlotHolds(s)' /\ EdgeHolds(s)'
  BY <1>1, <1>4, StepKeeps DEF EpollInv
<1>6. \A d \in Clients : ended'[ClientSock(d)] # "none" <=> ended[ClientSock(d)] # "none"
  BY DEF Spared, SocketSpared
<1>7. Turns'
  BY <1>1, <1>2, <1>6, TurnsStay DEF EpollInv
<1>8. Quiet'
  BY <1>1 DEF Quiet, EpollInv
<1> QED
  BY <1>5, <1>7, <1>8 DEF EpollInv

(* The edges of a client that is served stay those of its slot.             *)
LEMMA ServedHolds ==
    ASSUME NEW c \in Clients, ClientHolds(c), Registered(ClientSock(c)), batch' \subseteq batch, backlog' = backlog,
           ended'[ClientSock(c)] = ended[ClientSock(c)], ptr'[ClientSock(c)] = ptr[ClientSock(c)],
           \/ SocketSpared(ServerSock(c))
           \/ /\ ended'[ServerSock(c)] # "none"
              /\ ptr'[ServerSock(c)] = ptr[ServerSock(c)] \/ ended[ServerSock(c)] = "none",
           Streams(c)'
    PROVE  ClientHolds(c)'
<1> DEFINE C == ClientSock(c)
           S == ServerSock(c)
<1>1. C[1] = "client" /\ C[2] = c /\ S[1] = "server" /\ S[2] = c
  BY SocketKinds
<1> HIDE DEF C, S
<1>2. EdgesOf(C) /\ EdgesOf(S)
  BY DEF ClientHolds, C, S
<1>3. Registered(C)'
  BY <1>1 DEF Registered, C
<1>4. EdgesOf(C)'
  BY <1>2, <1>3 DEF EdgesOf, C
<1>5. EdgesOf(S)'
  <2>1. CASE SocketSpared(S)
    BY <1>1, <1>2, <2>1 DEF EdgesOf, Registered, SocketSpared
  <2>2. CASE ended'[S] # "none" /\ (ptr'[S] = ptr[S] \/ ended[S] = "none")
    <3>1. Registered(S)'
      BY <1>1, <2>2 DEF Registered
    <3>2. Registered(S) => ended[S] # "none"
      BY DEF Registered
    <3>3. \A e \in batch' : e.sock = S => e.slot = ptr'[S]
      BY <1>2, <2>2, <3>2 DEF EdgesOf
    <3> QED
      BY <3>1, <3>3 DEF EdgesOf
  <2> QED
    BY <2>1, <2>2 DEF S
<1>6. NewOnes(c)'
  BY <1>3 DEF NewOnes, Registered, C
<1> QED
  BY <1>4, <1>5, <1>6 DEF ClientHolds, C, S

(* What is known when a handler works on the socket that the slot waits for.*)
LEMMA ServedClient ==
    ASSUME EpollInv, NEW e, NEW state, Dispatch(e, state), NEW c \in Clients, Serving(e.slot, c)
    PROVE  LET s == e.slot
               C == ClientSock(c)
               S == ServerSock(c)
           IN  /\ s \in Slots /\ conn[s] \in ConnState /\ conn[s].state = state
               /\ Awaited(s) = IF state \in {"READ_REQ", "SEND_RES"} THEN C ELSE S
               /\ ClientHolds(c) /\ Registered(C) /\ c \notin backlog /\ ended[C] # "none" /\ ptr[C] = s
               /\ got[C] = << >> /\ Tagged(conn[s].req, c) /\ Uniform(conn[s].res, <<"answer", c>>)
               /\ Streams(c) /\ Phase(s, c)
               /\ file[conn[s].client] = C /\ conn[s].client # 0
               /\ state \in {"SEND_REQ", "READ_RES"} => WithServer(s, c) /\ ended[S] # "none"
               /\ inbox[C] \in Seq(Pieces) /\ inbox[S] \in Seq(Pieces)
               /\ got[C] \in Seq(Pieces) /\ got[S] \in Seq(Pieces)
               /\ batch' \subseteq batch /\ up = "up" /\ accepting = NoSlot
               /\ \A k \in Sockets : ended[k] # "reset"
<1> DEFINE s == e.slot
           C == ClientSock(c)
           S == ServerSock(c)
<1>1. /\ EpollTypes /\ s \in Slots /\ conn[s].state = state /\ batch' \subseteq batch /\ state \in States
      /\ up = "up" /\ accepting = NoSlot
  BY DispatchDoes, SlotTypes DEF EpollInv
<1>2. C \in Sockets /\ S \in Sockets /\ C[1] = "client" /\ C[2] = c /\ S[1] = "server" /\ S[2] = c
  BY SocketKinds
<1>3. Awaited(s) = IF state \in {"READ_REQ", "SEND_RES"} THEN C ELSE S
  BY <1>1, AwaitedIs DEF States
<1>4. /\ file[conn[s].client] = C /\ ptr[C] = s /\ Registered(C) /\ got[C] = << >>
      /\ Tagged(conn[s].req, c) /\ Uniform(conn[s].res, <<"answer", c>>) /\ Phase(s, c)
  BY DEF Serving
<1>5. ClientHolds(c) /\ Streams(c) /\ EdgesOf(S) /\ file[0] = Stdin /\ \A k \in Sockets : ended[k] # "reset"
  BY DEF EpollInv, ClientHolds, Quiet
<1>6. conn[s].client # 0
  BY <1>2, <1>4, <1>5, SocketKinds
<1>7. state \in {"SEND_REQ", "READ_RES"} => WithServer(s, c)
  BY <1>1, <1>4 DEF Phase
<1>8. WithServer(s, c) => ended[S] # "none"
  BY <1>1, <1>5 DEF WithServer, EdgesOf, Registered
<1>9. c \notin backlog /\ ended[C] # "none"
  BY <1>2, <1>4 DEF Registered
<1>10. /\ inbox[C] \in Seq(Pieces) /\ inbox[S] \in Seq(Pieces) /\ conn[s] \in ConnState
       /\ got[C] \in Seq(Pieces) /\ got[S] \in Seq(Pieces)
  BY <1>1, <1>2 DEF EpollTypes
<1> QED
  BY <1>1, <1>3, <1>4, <1>5, <1>6, <1>7, <1>8, <1>9, <1>10

(* read_request that has read a part.                                       *)
LEMMA ReadRequestKeeps ==
    ASSUME EpollInv, EpollTypes', NEW e, ReadRequest(e)
    PROVE  EpollInv'
<1> DEFINE s == e.slot
           in == Awaited(s)
<1>1. /\ Dispatch(e, "READ_REQ") /\ in \in Sockets /\ ended[in] = "open"
      /\ inbox' = [inbox EXCEPT ![in] = << >>]
      /\ UNCHANGED <<up, file, idx, accepting, watch, ptr, ready, full, got, backlog, sent, ended>>
  BY ReadRequestDoes DEF EpollInv, peers
<1>2. PICK r \in ConnState :
        /\ conn' = [conn EXCEPT ![s] = r]
        /\ r = [conn[s] EXCEPT !.req = conn[s].req \o inbox[in]]
  BY ReadRequestDoes DEF EpollInv
<1>3. PICK c \in Clients : Serving(s, c)
  BY <1>1, HandledSlot
<1> DEFINE C == ClientSock(c)
           S == ServerSock(c)
<1>4. /\ s \in Slots /\ conn[s] \in ConnState /\ conn[s].state = "READ_REQ" /\ in = C
      /\ ClientHolds(c) /\ Registered(C) /\ c \notin backlog /\ ended[C] # "none" /\ ptr[C] = s
      /\ got[C] = << >> /\ Tagged(conn[s].req, c) /\ Uniform(conn[s].res, <<"answer", c>>)
      /\ Streams(c) /\ Phase(s, c)
      /\ file[conn[s].client] = C /\ conn[s].client # 0
      /\ inbox[C] \in Seq(Pieces) /\ batch' \subseteq batch /\ up = "up"
      /\ \A k \in Sockets : ended[k] # "reset"
  BY <1>1, <1>3, ServedClient
<1>5. /\ C \in Sockets /\ S \in Sockets /\ C # S /\ C[1] = "client" /\ C[2] = c
      /\ \A d \in Clients \ {c} : ClientSock(d) # C /\ ServerSock(d) # C
  BY SocketKinds
<1>6. EpollTypes /\ conn \in [Slots -> ConnState] /\ inbox \in [Sockets -> Seq(Pieces)]
  BY DEF EpollInv, EpollTypes
<1>7. /\ r.client = conn[s].client /\ r.server = conn[s].server /\ r.res = conn[s].res /\ r.state = "READ_REQ"
      /\ r.wroteServer = conn[s].wroteServer /\ r.req = conn[s].req \o inbox[C]
  BY <1>2, <1>4 DEF ConnState
<1>8. conn'[s] = r /\ \A t \in Slots \ {s} : conn'[t] = conn[t]
  BY <1>2, <1>4, <1>6
<1>9. inbox'[C] = << >> /\ \A k \in Sockets \ {C} : inbox'[k] = inbox[k]
  BY <1>1, <1>4, <1>5, <1>6
<1> HIDE DEF C, S, s, in
<1>10. \A d \in Clients \ {c} : Spared(d)
  BY <1>1, <1>5, <1>9, SocketKinds DEF Spared, SocketSpared
<1>11. SocketSpared(S)
  BY <1>1, <1>5, <1>9 DEF SocketSpared
<1>12. Streams(c)'
  BY <1>1, <1>4, <1>5, <1>9 DEF Streams, Tagged, C, S
<1>13. ClientHolds(c)'
  BY <1>1, <1>4, <1>11, <1>12, ServedHolds DEF C, S
<1>14. Tagged(r.req, c)
  <2>1. conn[s].req \in Seq(Pieces) /\ Tagged(inbox[C], c)
    BY <1>4 DEF ConnState, Streams, C
  <2> QED
    BY <1>4, <1>7, <2>1, JoinDoes
<1>15. Phase(s, c)'
  BY <1>1, <1>4, <1>5, <1>7, <1>8, <1>9 DEF Phase, ServerUntouched, C, S
<1>16. Registered(C)'
  BY <1>1, <1>4 DEF Registered
<1>17. Serving(s, c)'
  BY <1>1, <1>4, <1>7, <1>8, <1>14, <1>15, <1>16 DEF Serving, C
<1>18. Awaited(s)' = C
  BY <1>1, <1>4, <1>7, <1>8 DEF Awaited
<1>19. watch[C] = "in"
  BY <1>4 DEF Phase, C
<1>20. ~ Due(C)'
  BY <1>1, <1>4, <1>9, <1>19 DEF Due, Readable
<1>21. EdgeHolds(s)'
  BY <1>18, <1>20 DEF EdgeHolds
<1> QED
  <2>1. file'[0] = Stdin
    BY <1>1 DEF EpollInv, Quiet
  <2> QED
    BY <1>1, <1>3, <1>4, <1>8, <1>10, <1>13, <1>17, <1>21, <2>1, HandlerKeeps DEF s, C

(* read_request with the rest of the request, and connect_to_server.        *)
LEMMA ConnectKeeps ==
    ASSUME EpollInv, EpollTypes', NEW e, Connect(e)
    PROVE  EpollInv'
<1> DEFINE s == e.slot
           in == Awaited(s)
           req == conn[s].req \o inbox[in]
           k == ServerSock(Head(req)[2])
<1>1. /\ Dispatch(e, "READ_REQ") /\ in \in Sockets
      /\ inbox' = [inbox EXCEPT ![in] = << >>]
      /\ 1 \in DOMAIN req /\ Head(req) = req[1]
      /\ Lowest \in Fds /\ file[Lowest] = Unused
      /\ file' = [file EXCEPT ![Lowest] = k]
      /\ watch' = [watch EXCEPT ![k] = "out"]
      /\ ptr' = [ptr EXCEPT ![k] = s]
      /\ ready' = ready \cup {k}
      /\ ended' = [ended EXCEPT ![k] = IF ended[k] = "none" THEN "open" ELSE ended[k]]
      /\ UNCHANGED <<up, idx, accepting, full, got, backlog, sent>>
  BY ConnectDoes DEF EpollInv
<1>2. PICK r \in ConnState :
        /\ conn' = [conn EXCEPT ![s] = r]
        /\ r = [conn[s] EXCEPT !.req = req, !.server = Lowest, !.state = "SEND_REQ"]
  BY ConnectDoes DEF EpollInv
<1>3. PICK c \in Clients : Serving(s, c)
  BY <1>1, HandledSlot
<1> DEFINE C == ClientSock(c)
           S == ServerSock(c)
<1>4. /\ s \in Slots /\ conn[s] \in ConnState /\ conn[s].state = "READ_REQ" /\ in = C
      /\ ClientHolds(c) /\ Registered(C) /\ c \notin backlog /\ ended[C] # "none" /\ ptr[C] = s
      /\ got[C] = << >> /\ Tagged(conn[s].req, c) /\ Uniform(conn[s].res, <<"answer", c>>)
      /\ Streams(c) /\ Phase(s, c)
      /\ file[conn[s].client] = C /\ conn[s].client # 0
      /\ inbox[C] \in Seq(Pieces) /\ batch' \subseteq batch /\ up = "up"
      /\ \A j \in Sockets : ended[j] # "reset"
  BY <1>1, <1>3, ServedClient
<1>5. /\ C \in Sockets /\ S \in Sockets /\ C # S /\ C[1] = "client" /\ C[2] = c
      /\ \A d \in Clients \ {c} : ClientSock(d) \notin {C, S} /\ ServerSock(d) \notin {C, S}
      /\ Unused \notin Sockets /\ Unused # Stdin /\ Listen \notin Sockets
  BY SocketKinds
<1>6. /\ EpollTypes /\ conn \in [Slots -> ConnState] /\ inbox \in [Sockets -> Seq(Pieces)]
      /\ file \in [Fds -> Sockets \cup {Unused, Stdin}] /\ watch \in [Sockets -> {"no", "in", "out"}]
      /\ ptr \in [Sockets -> Slots] /\ ended \in [Sockets -> {"none", "open", "eof", "reset"}]
      /\ file[0] = Stdin
  BY DEF EpollInv, EpollTypes, Quiet
<1>7. Tagged(req, c)
  <2>1. conn[s].req \in Seq(Pieces) /\ Tagged(inbox[C], c)
    BY <1>4 DEF ConnState, Streams, C
  <2> QED
    BY <1>4, <2>1, JoinDoes
<1>8. k = S
  BY <1>1, <1>7 DEF Tagged
<1>9. /\ conn[s].res = << >> /\ conn[s].wroteServer = 0 /\ watch[C] = "in"
      /\ ended[S] = "none" /\ sent[S] = 0 /\ inbox[S] = << >> /\ got[S] = << >>
  BY <1>4 DEF Phase, ServerUntouched, C, S
<1> HIDE DEF k, req
<1>10. /\ r.client = conn[s].client /\ r.server = Lowest /\ r.res = << >> /\ r.state = "SEND_REQ"
       /\ r.wroteServer = 0 /\ r.req = req
  BY <1>2, <1>4, <1>9 DEF ConnState
<1>11. conn'[s] = r /\ \A t \in Slots \ {s} : conn'[t] = conn[t]
  BY <1>2, <1>4, <1>6
<1>12. inbox'[C] = << >> /\ \A j \in Sockets \ {C} : inbox'[j] = inbox[j]
  BY <1>1, <1>4, <1>5, <1>6
<1> HIDE DEF C, S, s, in
<1>13. /\ file'[Lowest] = S /\ \A f \in Fds : f # Lowest => file'[f] = file[f]
       /\ watch'[S] = "out" /\ \A j \in Sockets \ {S} : watch'[j] = watch[j]
       /\ ptr'[S] = s /\ \A j \in Sockets \ {S} : ptr'[j] = ptr[j]
       /\ ended'[S] = "open" /\ \A j \in Sockets \ {S} : ended'[j] = ended[j]
  BY <1>1, <1>5, <1>6, <1>8, <1>9
<1>14. conn[s].client \in Fds /\ conn[s].client # Lowest /\ Lowest # 0 /\ 0 \in Fds
  BY <1>1, <1>4, <1>5, <1>6, EpollAssumption DEF ConnState
<1>15. ASSUME NEW d \in Clients \ {c}, NEW j \in {ClientSock(d), ServerSock(d)} PROVE SocketSpared(j)
  <2>1. j \in Sockets /\ j # C /\ j # S
    BY <1>5, SocketKinds
  <2>2. \A f \in Fds : file'[f] = j <=> file[f] = j
    BY <1>1, <1>5, <1>13, <2>1
  <2>3. j \in ready' <=> j \in ready
    BY <1>1, <1>8, <2>1
  <2> QED
    BY <1>1, <1>12, <1>13, <2>1, <2>2, <2>3 DEF SocketSpared
<1>16. \A d \in Clients \ {c} : Spared(d)
  BY <1>1, <1>15 DEF Spared
<1>17. Streams(c)'
  BY <1>1, <1>4, <1>5, <1>12 DEF Streams, Tagged, C, S
<1>18. ClientHolds(c)'
  <2>1. ended'[C] = ended[C] /\ ptr'[C] = ptr[C] /\ backlog' = backlog /\ ended'[S] # "none" /\ ended[S] = "none"
    BY <1>1, <1>5, <1>9, <1>13
  <2> QED
    BY <1>4, <1>17, <2>1, ServedHolds DEF C, S
<1>19. Len(<< >>) = 0 /\ Uniform(<< >>, <<"answer", c>>)
  BY DEF Uniform
<1>20. WithServer(s, c)'
  <2>1. file'[conn'[s].server] = S /\ ptr'[S] = s /\ watch'[S] = "out" /\ conn'[s].state = "SEND_REQ"
    BY <1>10, <1>11, <1>13
  <2>2. got'[S] = << >> /\ conn'[s].wroteServer = 0 /\ conn'[s].res = << >> /\ inbox'[S] = << >> /\ sent'[S] = 0
    BY <1>1, <1>5, <1>9, <1>10, <1>11, <1>12
  <2>3. Len(got'[S]) = conn'[s].wroteServer /\ Len(conn'[s].res) + Len(inbox'[S]) = sent'[S]
    BY <1>19, <2>2
  <2> QED
    BY <2>1, <2>3 DEF WithServer, S
<1>21. Phase(s, c)'
  BY <1>10, <1>11, <1>20 DEF Phase
<1>22. Registered(C)'
  BY <1>1, <1>4, <1>5, <1>13 DEF Registered
<1>23. Serving(s, c)'
  <2>1. file'[r.client] = C /\ ptr'[C] = s /\ got'[C] = << >>
    BY <1>1, <1>4, <1>5, <1>10, <1>13, <1>14
  <2> QED
    BY <1>7, <1>10, <1>11, <1>19, <1>21, <1>22, <2>1 DEF Serving, C
<1>24. Awaited(s)' = S
  BY <1>10, <1>11, <1>13 DEF Awaited
<1>25. EdgeHolds(s)'
  BY <1>1, <1>8, <1>24 DEF EdgeHolds
<1>26. file'[0] = Stdin
  BY <1>6, <1>13, <1>14
<1>27. \A j \in Sockets : ended'[j] # "reset"
  BY <1>4, <1>13
<1>28. Listen \in ready' => Listen \in ready
  BY <1>1, <1>5, <1>8
<1>29. ended'[C] = ended[C]
  BY <1>5, <1>13
<1> QED
  BY <1>1, <1>3, <1>11, <1>16, <1>18, <1>23, <1>25, <1>26, <1>27, <1>28, <1>29, HandlerKeeps DEF s, C

(* send_request that meets a full socket.                                   *)
LEMMA SendRequestSomeKeeps ==
    ASSUME EpollInv, EpollTypes', NEW e, SendRequestSome(e)
    PROVE  EpollInv'
<1> DEFINE s == e.slot
           out == Awaited(s)
<1>1. /\ Dispatch(e, "SEND_REQ") /\ out \in Sockets
      /\ 1 \in DOMAIN conn[s].req
      /\ full' = full \cup {out}
      /\ UNCHANGED <<up, file, idx, accepting, watch, ptr, ready, inbox, backlog, sent, ended>>
  BY SendRequestSomeDoes DEF EpollInv, peers
<1>2. PICK part \in Seq(Pieces), r \in ConnState :
        /\ conn[s].wroteServer + Len(part) \in 0 .. ReqLen
        /\ Uniform(part, <<"query", conn[s].req[1][2]>>)
        /\ got' = [got EXCEPT ![out] = got[out] \o part]
        /\ conn' = [conn EXCEPT ![s] = r]
        /\ r = [conn[s] EXCEPT !.wroteServer = conn[s].wroteServer + Len(part)]
  BY SendRequestSomeDoes DEF EpollInv
<1>3. PICK c \in Clients : Serving(s, c)
  BY <1>1, HandledSlot
<1> DEFINE C == ClientSock(c)
           S == ServerSock(c)
<1>4. /\ s \in Slots /\ conn[s] \in ConnState /\ conn[s].state = "SEND_REQ" /\ out = S
      /\ ClientHolds(c) /\ Registered(C) /\ c \notin backlog /\ ended[C] # "none" /\ ptr[C] = s
      /\ got[C] = << >> /\ Tagged(conn[s].req, c) /\ Uniform(conn[s].res, <<"answer", c>>)
      /\ Streams(c) /\ WithServer(s, c) /\ ended[S] # "none"
      /\ file[conn[s].client] = C
      /\ got[S] \in Seq(Pieces) /\ batch' \subseteq batch /\ up = "up"
      /\ \A k \in Sockets : ended[k] # "reset"
  BY <1>1, <1>3, ServedClient
<1>5. /\ C \in Sockets /\ S \in Sockets /\ C # S /\ C[1] = "client" /\ C[2] = c
      /\ \A d \in Clients \ {c} : ClientSock(d) \notin {C, S} /\ ServerSock(d) \notin {C, S}
  BY SocketKinds
<1>6. EpollTypes /\ conn \in [Slots -> ConnState] /\ got \in [Sockets -> Seq(Pieces)]
  BY DEF EpollInv, EpollTypes
<1>7. /\ r.client = conn[s].client /\ r.server = conn[s].server /\ r.res = conn[s].res /\ r.state = "SEND_REQ"
      /\ r.wroteServer = conn[s].wroteServer + Len(part) /\ r.req = conn[s].req
  BY <1>2, <1>4 DEF ConnState
<1>8. conn'[s] = r /\ \A t \in Slots \ {s} : conn'[t] = conn[t]
  BY <1>2, <1>4, <1>6
<1>9. got'[S] = got[S] \o part /\ \A k \in Sockets \ {S} : got'[k] = got[k]
  BY <1>2, <1>4, <1>5, <1>6
<1>10. Uniform(part, <<"query", c>>)
  BY <1>1, <1>2, <1>4 DEF Tagged
<1> HIDE DEF C, S, s, out
<1>11. \A d \in Clients \ {c} : Spared(d)
  BY <1>1, <1>4, <1>5, <1>9, SocketKinds DEF Spared, SocketSpared
<1>12. Uniform(got[S], <<"query", c>>) /\ Len(got[S]) = conn[s].wroteServer
  BY <1>4 DEF Streams, WithServer, S
<1>13. Uniform(got'[S], <<"query", c>>) /\ Len(got'[S]) = conn[s].wroteServer + Len(part)
  BY <1>4, <1>9, <1>10, <1>12, JoinDoes
<1>14. Len(got'[S]) <= ReqLen
  BY <1>2, <1>13 DEF ReqLen
<1>15. Streams(c)'
  BY <1>1, <1>4, <1>5, <1>9, <1>13, <1>14 DEF Streams, C, S
<1>16. ClientHolds(c)'
  BY <1>1, <1>4, <1>15, ServedHolds DEF C, S
<1>17. WithServer(s, c)'
  BY <1>1, <1>4, <1>7, <1>8, <1>13 DEF WithServer, S
<1>18. Phase(s, c)'
  BY <1>7, <1>8, <1>17 DEF Phase
<1>19. Registered(C)'
  BY <1>1, <1>4 DEF Registered
<1>20. Serving(s, c)'
  BY <1>1, <1>4, <1>5, <1>7, <1>8, <1>9, <1>18, <1>19 DEF Serving, C
<1>21. Awaited(s)' = S
  BY <1>1, <1>4, <1>7, <1>8 DEF Awaited, WithServer, S
<1>22. watch[S] = "out"
  BY <1>4 DEF WithServer, S
<1>23. ~ Due(S)'
  BY <1>1, <1>4, <1>5, <1>22 DEF Due
<1>24. EdgeHolds(s)'
  BY <1>21, <1>23 DEF EdgeHolds
<1>25. file'[0] = Stdin
  BY <1>1 DEF EpollInv, Quiet
<1> QED
  BY <1>1, <1>3, <1>4, <1>8, <1>11, <1>16, <1>20, <1>24, <1>25, HandlerKeeps DEF s, C

(* send_request that writes the rest.                                       *)
LEMMA SendRequestAllKeeps ==
    ASSUME EpollInv, EpollTypes', NEW e, SendRequestAll(e)
    PROVE  EpollInv'
<1> DEFINE s == e.slot
           out == Awaited(s)
<1>1. /\ Dispatch(e, "SEND_REQ") /\ out \in Sockets
      /\ 1 \in DOMAIN conn[s].req
      /\ watch' = [watch EXCEPT ![out] = "in"]
      /\ ptr' = [ptr EXCEPT ![out] = s]
      /\ ready' = IF Readable(out) THEN ready \cup {out} ELSE ready
      /\ UNCHANGED <<file, idx, accepting, inbox, full, backlog, sent, ended>>
  BY SendRequestAllDoes DEF EpollInv, peers
<1>2. PICK part \in Seq(Pieces), r \in ConnState :
        /\ conn[s].wroteServer + Len(part) = ReqLen
        /\ Uniform(part, <<"query", conn[s].req[1][2]>>)
        /\ got' = [got EXCEPT ![out] = got[out] \o part]
        /\ conn' = [conn EXCEPT ![s] = r]
        /\ r = [conn[s] EXCEPT !.wroteServer = ReqLen, !.state = "READ_RES"]
  <2>1. EpollTypes
    BY DEF EpollInv
  <2>2. conn[s].req[1][2] = Head(conn[s].req)[2]
    BY <2>1, SendRequestAllDoes
  <2>3. \E part \in Seq(Pieces), r \in ConnState :
          /\ conn[s].wroteServer + Len(part) = ReqLen
          /\ Uniform(part, <<"query", Head(conn[s].req)[2]>>)
          /\ got' = [got EXCEPT ![out] = got[out] \o part]
          /\ conn' = [conn EXCEPT ![s] = r]
          /\ r = [conn[s] EXCEPT !.wroteServer = ReqLen, !.state = "READ_RES"]
    BY <2>1, SendRequestAllDoes
  <2> QED
    BY <2>2, <2>3
<1>3. PICK c \in Clients : Serving(s, c)
  BY <1>1, HandledSlot
<1> DEFINE C == ClientSock(c)
           S == ServerSock(c)
<1>4. /\ s \in Slots /\ conn[s] \in ConnState /\ conn[s].state = "SEND_REQ" /\ out = S
      /\ ClientHolds(c) /\ Registered(C) /\ c \notin backlog /\ ended[C] # "none" /\ ptr[C] = s
      /\ got[C] = << >> /\ Tagged(conn[s].req, c) /\ Uniform(conn[s].res, <<"answer", c>>)
      /\ Streams(c) /\ WithServer(s, c) /\ ended[S] # "none"
      /\ file[conn[s].client] = C
      /\ got[S] \in Seq(Pieces) /\ batch' \subseteq batch /\ up = "up"
      /\ \A k \in Sockets : ended[k] # "reset"
  BY <1>1, <1>3, ServedClient
<1>5. /\ C \in Sockets /\ S \in Sockets /\ C # S /\ C[1] = "client" /\ C[2] = c /\ Listen \notin Sockets
      /\ \A d \in Clients \ {c} : ClientSock(d) \notin {C, S} /\ ServerSock(d) \notin {C, S}
  BY SocketKinds
<1>6. /\ EpollTypes /\ conn \in [Slots -> ConnState] /\ got \in [Sockets -> Seq(Pieces)]
      /\ watch \in [Sockets -> {"no", "in", "out"}] /\ ptr \in [Sockets -> Slots]
  BY DEF EpollInv, EpollTypes
<1>7. /\ r.client = conn[s].client /\ r.server = conn[s].server /\ r.res = conn[s].res /\ r.state = "READ_RES"
      /\ r.req = conn[s].req
  BY <1>2, <1>4 DEF ConnState
<1>8. conn'[s] = r /\ \A t \in Slots \ {s} : conn'[t] = conn[t]
  BY <1>2, <1>4, <1>6
<1>9. got'[S] = got[S] \o part /\ \A k \in Sockets \ {S} : got'[k] = got[k]
  BY <1>2, <1>4, <1>5, <1>6
<1>10. Uniform(part, <<"query", c>>)
  BY <1>1, <1>2, <1>4 DEF Tagged
<1>11. /\ watch'[S] = "in" /\ \A k \in Sockets \ {S} : watch'[k] = watch[k]
       /\ ptr'[S] = s /\ \A k \in Sockets \ {S} : ptr'[k] = ptr[k]
  BY <1>1, <1>4, <1>5, <1>6
<1>12. /\ Uniform(got[S], <<"query", c>>) /\ Len(got[S]) = conn[s].wroteServer
       /\ file[conn[s].server] = S /\ ptr[S] = s
       /\ Len(conn[s].res) + Len(inbox[S]) = sent[S]
  BY <1>4 DEF Streams, WithServer, S
<1> HIDE DEF C, S, s, out
<1>13. \A d \in Clients \ {c} : Spared(d)
  BY <1>1, <1>4, <1>5, <1>9, <1>11, SocketKinds DEF Spared, SocketSpared
<1>14. Uniform(got'[S], <<"query", c>>) /\ Len(got'[S]) = conn[s].wroteServer + Len(part)
  <2>1. /\ Len(got[S] \o part) = Len(got[S]) + Len(part)
        /\ \A x : Uniform(got[S], x) /\ Uniform(part, x) => Uniform(got[S] \o part, x)
    BY <1>4, JoinDoes
  <2> QED
    BY <1>9, <1>10, <1>12, <2>1
<1>15. Len(got'[S]) <= ReqLen
  BY <1>2, <1>14 DEF ReqLen
<1>16. Streams(c)'
  BY <1>1, <1>4, <1>5, <1>9, <1>14, <1>15 DEF Streams, C, S
<1>17. ClientHolds(c)'
  BY <1>1, <1>4, <1>5, <1>11, <1>12, <1>16, ServedHolds DEF C, S
<1>18. WithServer(s, c)'
  BY <1>1, <1>7, <1>8, <1>11, <1>12 DEF WithServer, S
<1>19. Phase(s, c)'
  BY <1>7, <1>8, <1>18 DEF Phase
<1>20. Registered(C)'
  BY <1>1, <1>4 DEF Registered
<1>21. Serving(s, c)'
  BY <1>1, <1>4, <1>5, <1>7, <1>8, <1>9, <1>11, <1>19, <1>20 DEF Serving, C
<1>22. Awaited(s)' = S
  BY <1>1, <1>7, <1>8, <1>12 DEF Awaited
<1>23. Due(S)' => S \in ready'
  BY <1>1, <1>4, <1>5, <1>11 DEF Due, Readable
<1>24. EdgeHolds(s)'
  BY <1>22, <1>23 DEF EdgeHolds
<1>25. file'[0] = Stdin
  BY <1>1 DEF EpollInv, Quiet
<1>26. Listen \in ready' => Listen \in ready
  BY <1>1, <1>4, <1>5
<1> QED
  BY <1>1, <1>3, <1>4, <1>8, <1>13, <1>17, <1>21, <1>24, <1>25, <1>26, HandlerKeeps DEF s, C

(* read_response when more is to come.                                      *)
LEMMA ReadResponseSomeKeeps ==
    ASSUME EpollInv, EpollTypes', NEW e, ReadResponseSome(e)
    PROVE  EpollInv'
<1> DEFINE s == e.slot
           in == Awaited(s)
<1>1. /\ Dispatch(e, "READ_RES") /\ in \in Sockets /\ ended[in] \notin {"reset", "eof"}
      /\ inbox' = [inbox EXCEPT ![in] = << >>]
      /\ UNCHANGED <<up, file, idx, accepting, watch, ptr, ready, full, got, backlog, sent, ended>>
  BY ReadResponseSomeDoes DEF EpollInv, peers
<1>2. PICK part \in Seq(Pieces), r \in ConnState :
        /\ Len(part) = Len(inbox[in]) /\ \A x : Uniform(inbox[in], x) => Uniform(part, x)
        /\ conn' = [conn EXCEPT ![s] = r]
        /\ r = [conn[s] EXCEPT !.res = conn[s].res \o part]
  BY ReadResponseSomeDoes DEF EpollInv
<1>3. PICK c \in Clients : Serving(s, c)
  BY <1>1, HandledSlot
<1> DEFINE C == ClientSock(c)
           S == ServerSock(c)
<1>4. /\ s \in Slots /\ conn[s] \in ConnState /\ conn[s].state = "READ_RES" /\ in = S
      /\ ClientHolds(c) /\ Registered(C) /\ c \notin backlog /\ ended[C] # "none" /\ ptr[C] = s
      /\ got[C] = << >> /\ Tagged(conn[s].req, c) /\ Uniform(conn[s].res, <<"answer", c>>)
      /\ Streams(c) /\ WithServer(s, c) /\ ended[S] # "none"
      /\ file[conn[s].client] = C
      /\ batch' \subseteq batch /\ up = "up"
      /\ \A k \in Sockets : ended[k] # "reset"
  BY <1>1, <1>3, ServedClient
<1>5. /\ C \in Sockets /\ S \in Sockets /\ C # S /\ C[1] = "client" /\ C[2] = c
      /\ \A d \in Clients \ {c} : ClientSock(d) \notin {C, S} /\ ServerSock(d) \notin {C, S}
  BY SocketKinds
<1>6. EpollTypes /\ conn \in [Slots -> ConnState] /\ inbox \in [Sockets -> Seq(Pieces)]
  BY DEF EpollInv, EpollTypes
<1>7. /\ r.client = conn[s].client /\ r.server = conn[s].server /\ r.res = conn[s].res \o part
      /\ r.state = "READ_RES" /\ r.req = conn[s].req /\ conn[s].res \in Seq(Pieces)
  BY <1>2, <1>4 DEF ConnState
<1>8. conn'[s] = r /\ \A t \in Slots \ {s} : conn'[t] = conn[t]
  BY <1>2, <1>4, <1>6
<1>9. inbox'[S] = << >> /\ \A k \in Sockets \ {S} : inbox'[k] = inbox[k]
  BY <1>1, <1>4, <1>5, <1>6
<1>10. /\ file[conn[s].server] = S /\ ptr[S] = s /\ watch[S] = "in"
       /\ Len(conn[s].res) + Len(inbox[S]) = sent[S] /\ Uniform(inbox[S], <<"answer", c>>)
  BY <1>4 DEF Streams, WithServer, S
<1> HIDE DEF C, S, s, in
<1>11. \A d \in Clients \ {c} : Spared(d)
  BY <1>1, <1>4, <1>5, <1>9, SocketKinds DEF Spared, SocketSpared
<1>12. Streams(c)'
  BY <1>1, <1>4, <1>5, <1>9 DEF Streams, Tagged, Uniform, C, S
<1>13. ClientHolds(c)'
  BY <1>1, <1>4, <1>12, ServedHolds DEF C, S
<1>14. Uniform(r.res, <<"answer", c>>) /\ Len(r.res) = Len(conn[s].res) + Len(inbox[S])
  <2>1. /\ Len(conn[s].res \o part) = Len(conn[s].res) + Len(part)
        /\ \A x : Uniform(conn[s].res, x) /\ Uniform(part, x) => Uniform(conn[s].res \o part, x)
    BY <1>7, JoinDoes
  <2> QED
    BY <1>2, <1>4, <1>7, <1>10, <2>1
<1>15. Len(r.res) + Len(<< >>) = sent[S]
  <2>1. Len(r.res) \in Nat /\ Len(<< >>) = 0
    BY LenProperties DEF ConnState
  <2> DEFINE x == Len(r.res)
             y == Len(<< >>)
             z == Len(conn[s].res) + Len(inbox[S])
  <2>2. x \in Nat /\ y = 0 /\ x = z /\ z = sent[S]
    BY <1>10, <1>14, <2>1
  <2> HIDE DEF x, y, z
  <2>3. x + y = sent[S]
    BY <2>2
  <2> QED
    BY <2>3 DEF x, y
<1>16. WithServer(s, c)'
  BY <1>1, <1>7, <1>8, <1>9, <1>10, <1>15 DEF WithServer, S
<1>17. Phase(s, c)'
  BY <1>7, <1>8, <1>16 DEF Phase
<1>18. Registered(C)'
  BY <1>1, <1>4 DEF Registered
<1>19. Serving(s, c)'
  BY <1>1, <1>4, <1>7, <1>8, <1>14, <1>17, <1>18 DEF Serving, C
<1>20. Awaited(s)' = S
  BY <1>1, <1>7, <1>8, <1>10 DEF Awaited
<1>21. ~ Due(S)'
  BY <1>1, <1>4, <1>9, <1>10 DEF Due, Readable
<1>22. EdgeHolds(s)'
  BY <1>20, <1>21 DEF EdgeHolds
<1>23. file'[0] = Stdin
  BY <1>1 DEF EpollInv, Quiet
<1> QED
  BY <1>1, <1>3, <1>4, <1>8, <1>11, <1>13, <1>19, <1>22, <1>23, HandlerKeeps DEF s, C

(* read_response at the end: the registrations are changed.                 *)
LEMMA ReadResponseAllKeeps ==
    ASSUME EpollInv, EpollTypes', NEW e, ReadResponseAll(e)
    PROVE  EpollInv'
<1> DEFINE s == e.slot
           in == Awaited(s)
           client == file[conn[s].client]
<1>1. /\ Dispatch(e, "READ_RES") /\ in \in Sockets
      /\ file' = [file EXCEPT ![conn[s].server] = Unused]
      /\ watch' = [k \in Sockets |-> IF k = in THEN "no" ELSE IF k = client THEN "out" ELSE watch[k]]
      /\ ready' = (ready \ {in}) \cup ({client} \cap (Sockets \ full))
      /\ ptr' = [ptr EXCEPT ![client] = s]
      /\ UNCHANGED <<idx, accepting, full, got, backlog, sent, ended>>
  BY ReadResponseAllDoes DEF EpollInv, peers
<1>2. PICK part \in Seq(Pieces), rest \in Seq(Pieces), r \in ConnState :
        /\ Len(part) + Len(rest) = Len(inbox[in])
        /\ \A x : Uniform(inbox[in], x) => Uniform(part, x) /\ Uniform(rest, x)
        /\ inbox' = [inbox EXCEPT ![in] = rest]
        /\ conn' = [conn EXCEPT ![s] = r]
        /\ r = [conn[s] EXCEPT !.res = conn[s].res \o part, !.state = "SEND_RES"]
  <2>1. EpollTypes
    BY DEF EpollInv
  <2>2. \E part \in Seq(Pieces), rest \in Seq(Pieces), r \in ConnState :
          /\ Len(part) + Len(rest) = Len(inbox[in])
          /\ \A x : Uniform(inbox[in], x) => Uniform(part, x) /\ Uniform(rest, x)
          /\ conn[s].res \o part \in Seq(Pieces) /\ Len(conn[s].res \o part) <= MaxObject
          /\ inbox' = [inbox EXCEPT ![in] = rest]
          /\ conn' = [conn EXCEPT ![s] = r]
          /\ r = [conn[s] EXCEPT !.res = conn[s].res \o part, !.state = "SEND_RES"]
    BY <2>1, ReadResponseAllDoes
  <2> QED
    BY <2>2
<1>3. PICK c \in Clients : Serving(s, c)
  BY <1>1, HandledSlot
<1> DEFINE C == ClientSock(c)
           S == ServerSock(c)
<1>4. /\ s \in Slots /\ conn[s] \in ConnState /\ conn[s].state = "READ_RES" /\ in = S
      /\ ClientHolds(c) /\ Registered(C) /\ c \notin backlog /\ ended[C] # "none" /\ ptr[C] = s
      /\ got[C] = << >> /\ Tagged(conn[s].req, c) /\ Uniform(conn[s].res, <<"answer", c>>)
      /\ Streams(c) /\ WithServer(s, c) /\ ended[S] # "none"
      /\ file[conn[s].client] = C
      /\ batch' \subseteq batch /\ up = "up"
      /\ \A k \in Sockets : ended[k] # "reset"
  BY <1>1, <1>3, ServedClient
<1>5. /\ C \in Sockets /\ S \in Sockets /\ C # S /\ C[1] = "client" /\ C[2] = c
      /\ \A d \in Clients \ {c} : ClientSock(d) \notin {C, S} /\ ServerSock(d) \notin {C, S}
      /\ Unused \notin Sockets /\ Stdin \notin Sockets /\ Listen \notin Sockets
  BY SocketKinds
<1>6. /\ EpollTypes /\ conn \in [Slots -> ConnState] /\ inbox \in [Sockets -> Seq(Pieces)]
      /\ file \in [Fds -> Sockets \cup {Unused, Stdin}] /\ watch \in [Sockets -> {"no", "in", "out"}]
      /\ ptr \in [Sockets -> Slots]
      /\ file[0] = Stdin
  BY DEF EpollInv, EpollTypes, Quiet
<1>7. /\ r.client = conn[s].client /\ r.res = conn[s].res \o part
      /\ r.state = "SEND_RES" /\ r.req = conn[s].req /\ conn[s].res \in Seq(Pieces)
      /\ conn[s].client \in Fds /\ conn[s].server \in Fds
  BY <1>2, <1>4 DEF ConnState
<1>8. conn'[s] = r /\ \A t \in Slots \ {s} : conn'[t] = conn[t]
  BY <1>2, <1>4, <1>6
<1>9. inbox'[S] = rest /\ \A k \in Sockets \ {S} : inbox'[k] = inbox[k]
  BY <1>2, <1>4, <1>5, <1>6
<1>10. /\ file[conn[s].server] = S
       /\ Len(conn[s].res) + Len(inbox[S]) = sent[S] /\ Uniform(inbox[S], <<"answer", c>>)
       /\ sent[S] <= ResLen
  BY <1>4 DEF Streams, WithServer, S
<1>11. client = C
  BY <1>4
<1> HIDE DEF C, S, s, in, client
<1>12. /\ file'[conn[s].server] = Unused /\ \A f \in Fds : f # conn[s].server => file'[f] = file[f]
       /\ watch'[S] = "no" /\ watch'[C] = "out" /\ \A k \in Sockets \ {C, S} : watch'[k] = watch[k]
       /\ ptr'[C] = s /\ \A k \in Sockets \ {C} : ptr'[k] = ptr[k]
  BY <1>1, <1>4, <1>5, <1>6, <1>7, <1>11
<1>13. conn[s].server # 0 /\ conn[s].client # conn[s].server /\ 0 \in Fds
  BY <1>4, <1>5, <1>6, <1>10, EpollAssumption
<1>14. ASSUME NEW d \in Clients \ {c}, NEW j \in {ClientSock(d), ServerSock(d)} PROVE SocketSpared(j)
  <2>1. j \in Sockets /\ j # C /\ j # S
    BY <1>5, SocketKinds
  <2>2. \A f \in Fds : file'[f] = j <=> file[f] = j
    BY <1>5, <1>10, <1>12, <2>1
  <2>3. j \in ready' <=> j \in ready
    BY <1>1, <1>4, <1>11, <2>1
  <2> QED
    BY <1>1, <1>9, <1>12, <2>1, <2>2, <2>3 DEF SocketSpared
<1>15. \A d \in Clients \ {c} : Spared(d)
  BY <1>1, <1>14 DEF Spared
<1>16. Uniform(rest, <<"answer", c>>) /\ Uniform(part, <<"answer", c>>)
  BY <1>2, <1>4, <1>10
<1>17. Streams(c)'
  BY <1>1, <1>4, <1>5, <1>9, <1>16 DEF Streams, Tagged, C, S
<1>18. ClientHolds(c)'
  <2>1. ptr'[C] = ptr[C] /\ ptr'[S] = ptr[S] /\ ended'[S] # "none"
    BY <1>1, <1>4, <1>5, <1>12
  <2> QED
    BY <1>1, <1>4, <1>17, <2>1, ServedHolds DEF C, S
<1>19. Uniform(r.res, <<"answer", c>>) /\ Len(r.res) = Len(conn[s].res) + Len(part)
  <2>1. /\ Len(conn[s].res \o part) = Len(conn[s].res) + Len(part)
        /\ \A x : Uniform(conn[s].res, x) /\ Uniform(part, x) => Uniform(conn[s].res \o part, x)
    BY <1>7, JoinDoes
  <2> QED
    BY <1>4, <1>7, <1>16, <2>1
<1>20. Len(r.res) <= ResLen
  <2>1. Len(conn[s].res) \in Nat /\ Len(part) \in Nat /\ Len(rest) \in Nat /\ ResLen \in Nat
    BY <1>7, LenProperties, EpollAssumption
  <2>2. Len(conn[s].res) + (Len(part) + Len(rest)) = sent[S]
    BY <1>2, <1>4, <1>10
  <2> DEFINE x == Len(conn[s].res)
             y == Len(part)
             z == Len(rest)
             w == sent[S]
             l == Len(r.res)
  <2>3. x \in Nat /\ y \in Nat /\ z \in Nat /\ x + (y + z) = w /\ l = x + y /\ w <= ResLen /\ ResLen \in Nat
    BY <1>10, <1>19, <2>1, <2>2
  <2> HIDE DEF x, y, z, w, l
  <2>4. l <= ResLen
    BY ONLY <2>3
  <2> QED
    BY <2>4 DEF l
<1>21. Phase(s, c)'
  BY <1>7, <1>8, <1>20 DEF Phase
<1>22. Registered(C)'
  BY <1>1, <1>4 DEF Registered
<1>23. file'[r.client] = C
  BY <1>4, <1>7, <1>12, <1>13
<1>24. Serving(s, c)'
  BY <1>1, <1>4, <1>7, <1>8, <1>12, <1>19, <1>21, <1>22, <1>23 DEF Serving, C
<1>25. Awaited(s)' = C
  BY <1>7, <1>8, <1>23 DEF Awaited
<1>26. Due(C)' => C \in ready'
  BY <1>1, <1>4, <1>5, <1>11, <1>12 DEF Due
<1>27. EdgeHolds(s)'
  BY <1>25, <1>26 DEF EdgeHolds
<1>28. file'[0] = Stdin
  BY <1>6, <1>12, <1>13
<1>29. Listen \in ready' => Listen \in ready
  BY <1>1, <1>5
<1> QED
  BY <1>1, <1>3, <1>4, <1>8, <1>15, <1>18, <1>24, <1>27, <1>28, <1>29, HandlerKeeps DEF s, C

(* send_response: the slot is erased, whatever was written.                 *)
LEMMA SendResponseKeeps ==
    ASSUME EpollInv, EpollTypes', NEW e, SendResponseSome(e) \/ SendResponseAll(e)
    PROVE  EpollInv'
<1> DEFINE s == e.slot
           out == Awaited(s)
<1>1. /\ Dispatch(e, "SEND_RES") /\ out \in Sockets
      /\ full' \in {full, full \cup {out}}
      /\ conn' = [conn EXCEPT ![s] = Fresh]
      /\ UNCHANGED <<file, watch, ready>> \/ Close({conn[s].client})
      /\ UNCHANGED <<up, idx, accepting, ptr, inbox, backlog, sent, ended>>
  BY SendResponseDoes DEF EpollInv, peers
<1>2. PICK part \in Seq(Pieces) :
        /\ Len(part) <= Len(conn[s].res) /\ \A x : Uniform(conn[s].res, x) => Uniform(part, x)
        /\ got' = [got EXCEPT ![out] = got[out] \o part]
  BY SendResponseDoes DEF EpollInv
<1>3. PICK c \in Clients : Serving(s, c)
  BY <1>1, HandledSlot
<1> DEFINE C == ClientSock(c)
           S == ServerSock(c)
<1>4. /\ s \in Slots /\ conn[s] \in ConnState /\ conn[s].state = "SEND_RES" /\ out = C
      /\ ClientHolds(c) /\ Registered(C) /\ c \notin backlog /\ ended[C] # "none" /\ ptr[C] = s
      /\ got[C] = << >> /\ Uniform(conn[s].res, <<"answer", c>>)
      /\ Streams(c) /\ Phase(s, c)
      /\ file[conn[s].client] = C /\ conn[s].client # 0
      /\ batch' \subseteq batch /\ up = "up"
      /\ \A k \in Sockets : ended[k] # "reset"
  BY <1>1, <1>3, ServedClient
<1>5. /\ C \in Sockets /\ S \in Sockets /\ C # S /\ C[1] = "client" /\ C[2] = c
      /\ \A d \in Clients \ {c} : ClientSock(d) \notin {C, S} /\ ServerSock(d) \notin {C, S}
      /\ Unused \notin Sockets /\ Listen \notin Sockets
  BY SocketKinds
<1>6. /\ EpollTypes /\ conn \in [Slots -> ConnState] /\ got \in [Sockets -> Seq(Pieces)]
      /\ file \in [Fds -> Sockets \cup {Unused, Stdin}] /\ watch \in [Sockets -> {"no", "in", "out"}]
      /\ file[0] = Stdin /\ 0 \in Fds
  BY EpollAssumption DEF EpollInv, EpollTypes, Quiet
<1>7. conn[s].client \in Fds /\ conn[s].res \in Seq(Pieces) /\ Len(conn[s].res) <= ResLen
  BY <1>4 DEF ConnState, Phase
<1>8. conn'[s] = Fresh /\ \A t \in Slots \ {s} : conn'[t] = conn[t]
  BY <1>1, <1>4, <1>6
<1>9. got'[C] = << >> \o part /\ \A k \in Sockets \ {C} : got'[k] = got[k]
  BY <1>2, <1>4, <1>5, <1>6
<1>10. << >> \o part = part
  BY ConcatEmptySeq
<1>11. Uniform(part, <<"answer", c>>) /\ Len(part) <= ResLen
  <2>1. Len(part) \in Nat /\ Len(conn[s].res) \in Nat /\ ResLen \in Nat
    BY <1>7, LenProperties, EpollAssumption
  <2> QED
    BY <1>2, <1>4, <1>7, <2>1
<1> HIDE DEF C, S, s, out
<1>12. /\ \A f \in Fds : file'[f] = file[f] \/ (file[f] = C /\ file'[f] = Unused)
       /\ \A k \in Sockets \ {C} : watch'[k] = watch[k]
       /\ ready' = ready \/ ready' = ready \ {C}
       /\ file'[0] = Stdin
  BY <1>1, <1>4, <1>5, <1>6, <1>7 DEF Close
<1>13. ASSUME NEW d \in Clients, NEW j \in {ClientSock(d), ServerSock(d)}, j # C PROVE SocketSpared(j)
  <2>1. j \in Sockets
    BY SocketKinds
  <2>2. \A f \in Fds : file'[f] = j <=> file[f] = j
    BY <1>5, <1>12, <1>13, <2>1
  <2>3. (j \in ready' <=> j \in ready) /\ (j \in full' <=> j \in full)
    BY <1>1, <1>4, <1>12, <1>13
  <2> QED
    BY <1>1, <1>9, <1>12, <1>13, <2>1, <2>2, <2>3 DEF SocketSpared
<1>14. \A d \in Clients \ {c} : Spared(d)
  BY <1>1, <1>5, <1>13 DEF Spared
<1>15. SocketSpared(S)
  BY <1>5, <1>13 DEF S
<1>16. Streams(c)'
  BY <1>1, <1>4, <1>5, <1>9, <1>10, <1>11 DEF Streams, Tagged, C, S
<1>17. ClientHolds(c)'
  BY <1>1, <1>4, <1>15, <1>16, ServedHolds DEF C, S
<1>18. Listen \in ready' => Listen \in ready
  BY <1>12
<1> QED
  BY <1>1, <1>3, <1>4, <1>8, <1>12, <1>14, <1>17, <1>18, HandlerKeeps DEF s, C

(* A step that only takes events of the listening socket, ends the loop of  *)
(* accept, or ends the process.                                             *)
LEMMA Unmoved ==
    ASSUME EpollInv, EpollTypes', batch' \subseteq batch,
           UNCHANGED <<file, conn, watch, ptr, ready, backlog, sent, inbox, ended, full, got>>,
           up' = "up" => up = "up" /\ \A e \in batch \ batch' : e.sock \notin Sockets
    PROVE  /\ Quiet'
           /\ \A d \in Clients : ClientHolds(d)'
           /\ \A s \in Slots : SlotHolds(s)' /\ EdgeHolds(s)'
<1>1. /\ EpollTypes /\ Quiet
      /\ \A d \in Clients : ClientHolds(d)
      /\ \A s \in Slots : SlotHolds(s) /\ EdgeHolds(s)
  BY DEF EpollInv
<1>2. \A d \in Clients : Spared(d)
  BY DEF Spared, SocketSpared
<1>3. \A d \in Clients : ClientHolds(d)'
  BY <1>1, <1>2, ClientSpared
<1>4. Quiet'
  BY <1>1 DEF Quiet
<1>5. ASSUME NEW s \in Slots PROVE SlotHolds(s)' /\ EdgeHolds(s)'
  <2>1. CASE conn[s] = Fresh
    <3>1. Awaited(s)' = Stdin
      BY <1>4, <2>1 DEF Awaited, Fresh, Quiet
    <3>2. SlotHolds(s)'
      BY <2>1 DEF SlotHolds
    <3> QED
      BY <3>1, <3>2, SocketKinds DEF EdgeHolds
  <2>2. ASSUME NEW d \in Clients, Serving(s, d) PROVE SlotHolds(s)' /\ EdgeHolds(s)'
    <3>1. Serving(s, d)'
      BY <1>1, <1>2, <2>2, ServingSpared
    <3>2. Awaited(s) \in Sockets /\ EdgeHolds(s)
      BY <1>1, <2>2, AwaitedIs
    <3>3. EdgeHolds(s)'
      <4>1. CASE up' = "up"
        BY <1>1, <1>2, <2>2, <3>2, <4>1, EdgeSpared
      <4>2. CASE up' # "up"
        BY <4>2 DEF EdgeHolds
      <4> QED
        BY <4>1, <4>2
    <3> QED
      BY <3>1, <3>3 DEF SlotHolds
  <2> QED
    BY <1>1, <2>1, <2>2 DEF SlotHolds
<1> QED
  BY <1>3, <1>4, <1>5

(* The process ends or is stuck.                                            *)
LEMMA StopKeeps ==
    ASSUME EpollInv, EpollTypes', NEW e, ReadRequestStuck(e) \/ ConnectFails(e)
    PROVE  EpollInv'
<1>1. /\ Takes(e) /\ up' \in {"stuck", "down"}
      /\ UNCHANGED <<file, conn, idx, accepting, watch, ptr, ready, inbox, full, got, backlog, sent, ended>>
  BY DEF ReadRequestStuck, ConnectFails, RequestComplete, Dispatch, Becomes, peers
<1>2. EpollTypes /\ Turns /\ batch' \subseteq batch
  BY <1>1, TakesDoes DEF EpollInv
<1>3. /\ Quiet'
      /\ \A d \in Clients : ClientHolds(d)'
      /\ \A s \in Slots : SlotHolds(s)' /\ EdgeHolds(s)'
  BY <1>1, <1>2, Unmoved
<1>4. Turns'
  BY <1>1, <1>2, TurnsStay
<1> QED
  BY <1>3, <1>4 DEF EpollInv

(* accept has nothing more.                                                 *)
LEMMA AcceptNoMoreKeeps ==
    ASSUME EpollInv, EpollTypes', AcceptNoMore
    PROVE  EpollInv'
<1>1. /\ accepting' = NoSlot
      /\ UNCHANGED <<up, file, conn, idx, batch, watch, ptr, ready, inbox, full, got, backlog, sent, ended>>
  BY DEF AcceptNoMore, peers
<1>2. EpollTypes /\ Turns
  BY DEF EpollInv
<1>3. /\ Quiet'
      /\ \A d \in Clients : ClientHolds(d)'
      /\ \A s \in Slots : SlotHolds(s)' /\ EdgeHolds(s)'
  BY <1>1, Unmoved
<1>4. Turns'
  BY <1>1, <1>2, TurnsStay
<1> QED
  BY <1>3, <1>4 DEF EpollInv

(* A slot is taken: there is one that was not used yet, since no more       *)
(* clients have connected than there are slots.                             *)
LEMMA NewClientKeeps ==
    ASSUME Cardinality(Clients) <= MaxStates, EpollInv, EpollTypes', NEW e, NewClient(e)
    PROVE  EpollInv'
<1>1. /\ Takes(e) /\ e.sock = Listen /\ accepting' = idx /\ idx' = (idx + 1) % MaxStates
      /\ UNCHANGED <<up, file, conn, watch, ptr, ready, inbox, full, got, backlog, sent, ended>>
  BY DEF NewClient, peers
<1>2. EpollTypes /\ Turns
  BY DEF EpollInv
<1>3. e \in batch /\ batch' = batch \ {e} /\ batch \subseteq Events
  BY <1>1, <1>2, TakesDoes DEF EpollTypes
<1>4. \A x \in batch : x.sock = Listen => x = e
  <2>1. \A x \in Events : x.sock = Listen => x = [sock |-> Listen, slot |-> NoSlot, bad |-> FALSE]
    <3> SUFFICES ASSUME NEW x \in Events, x.sock = Listen
                 PROVE  x = [sock |-> Listen, slot |-> NoSlot, bad |-> FALSE]
      OBVIOUS
    <3>1. x \in [sock : Sockets, slot : Slots, bad : BOOLEAN] => x.sock \in Sockets
      OBVIOUS
    <3>2. x \in [sock : {Listen}, slot : {NoSlot}, bad : {FALSE}]
      BY <3>1, SocketKinds DEF Events
    <3>3. x = [sock |-> x.sock, slot |-> x.slot, bad |-> x.bad] /\ x.slot = NoSlot /\ x.bad = FALSE
      BY <3>2
    <3> QED
      BY <3>3
  <2> QED
    BY <1>1, <1>3, <2>1
<1>5. /\ Quiet'
      /\ \A d \in Clients : ClientHolds(d)'
      /\ \A s \in Slots : SlotHolds(s)' /\ EdgeHolds(s)'
  <2>1. batch' \subseteq batch /\ \A x \in batch \ batch' : x.sock \notin Sockets
    BY <1>1, <1>3, SocketKinds
  <2> QED
    BY <1>1, <2>1, Unmoved
<1>6. PICK n \in 0 .. MaxStates : TurnIs(n)
  BY <1>2 DEF Turns
<1>7. Asking' + 1 = Asking /\ Asking \in Nat /\ Asking' \in Nat
  <2>1. (\E x \in batch : x.sock = Listen) /\ ~ (\E x \in batch' : x.sock = Listen)
    BY <1>1, <1>3, <1>4
  <2> QED
    BY <1>1, <2>1 DEF Asking
<1>8. Begun' = Begun
  BY <1>1 DEF Begun
<1>9. Cardinality(Begun) \in Nat /\ Cardinality(Begun) <= MaxStates
  <2>1. IsFiniteSet(Clients) /\ Begun \subseteq Clients
    BY EpollAssumption DEF Begun
  <2>2. IsFiniteSet(Begun) /\ Cardinality(Begun) <= Cardinality(Clients)
    BY <2>1, FS_Subset
  <2>3. Cardinality(Begun) \in Nat /\ Cardinality(Clients) \in Nat /\ MaxStates \in Nat
    BY <2>1, <2>2, FS_CardinalityType, EpollAssumption
  <2> QED
    BY <2>2, <2>3
<1>10. n < MaxStates /\ n \in Nat /\ MaxStates \in Nat /\ n + 1 + Asking' <= Cardinality(Begun')
  BY <1>6, <1>7, <1>8, <1>9, EpollAssumption DEF TurnIs
<1>11. idx = n /\ idx' = (n + 1) % MaxStates /\ accepting' = n
  BY <1>1, <1>6, <1>10 DEF TurnIs
<1>12. n \in Slots /\ conn[n] = Fresh
  BY <1>6, <1>10 DEF TurnIs, Slots
<1>13. 0 \in Fds /\ Fresh = [Fresh EXCEPT !.client = 0]
  BY EpollAssumption DEF Fresh
<1>14. conn'[accepting'] = [Fresh EXCEPT !.client = 0]
  BY <1>1, <1>11, <1>12, <1>13
<1>15. n + 1 \in 0 .. MaxStates /\ accepting' = (n + 1) - 1
  BY <1>10, <1>11
<1>16. \A s \in Slots : s >= n + 1 => conn'[s] = Fresh
  BY <1>1, <1>6, <1>10 DEF TurnIs, Slots
<1>17. TurnIs(n + 1)'
  BY <1>10, <1>11, <1>13, <1>14, <1>15, <1>16 DEF TurnIs
<1>18. Turns'
  BY <1>15, <1>17 DEF Turns
<1> QED
  BY <1>5, <1>18 DEF EpollInv

(* epoll_wait: every due edge becomes an event, which names the slot of the *)
(* registration.                                                            *)
LEMMA EpollWaitKeeps ==
    ASSUME EpollInv, EpollTypes', EpollWait
    PROVE  EpollInv'
<1>1. /\ up = "up" /\ accepting = NoSlot /\ batch = {} /\ ready' = {}
      /\ batch' = {[sock |-> k, slot |-> ptr[k], bad |-> ended[k] = "reset"] :
                       k \in {j \in ready \ {Listen} : Due(j)}}
                  \cup {[sock |-> k, slot |-> NoSlot, bad |-> FALSE] : k \in ready \cap {Listen}}
      /\ UNCHANGED <<up, file, conn, idx, accepting, watch, ptr, inbox, full, got, backlog, sent, ended>>
  BY DEF EpollWait, peers
<1>2. /\ EpollTypes /\ Quiet /\ Turns
      /\ \A d \in Clients : ClientHolds(d)
      /\ \A s \in Slots : SlotHolds(s) /\ EdgeHolds(s)
  BY DEF EpollInv
<1>3. ready \ {Listen} \subseteq Sockets
  BY <1>2 DEF EpollTypes
<1>4. ASSUME NEW e \in batch'
      PROVE  \/ e.sock \in ready \ {Listen} /\ e.slot = ptr[e.sock] /\ ~ e.bad
             \/ e.sock = Listen /\ Listen \in ready /\ ~ e.bad
  <2>1. ASSUME NEW k \in ready \ {Listen}, e = [sock |-> k, slot |-> ptr[k], bad |-> ended[k] = "reset"]
        PROVE  e.sock \in ready \ {Listen} /\ e.slot = ptr[e.sock] /\ ~ e.bad
    <3> DEFINE bad == ended[k] = "reset"
    <3>1. ~ bad
      BY <1>2, <1>3, <2>1 DEF Quiet
    <3>2. e = [sock |-> k, slot |-> ptr[k], bad |-> bad]
      BY <2>1
    <3> HIDE DEF bad
    <3> QED
      BY <2>1, <3>1, <3>2
  <2>2. ASSUME e = [sock |-> Listen, slot |-> NoSlot, bad |-> FALSE] PROVE e.sock = Listen /\ ~ e.bad
    BY <2>2
  <2>3. \/ \E k \in ready \ {Listen} : e = [sock |-> k, slot |-> ptr[k], bad |-> ended[k] = "reset"]
        \/ Listen \in ready /\ e = [sock |-> Listen, slot |-> NoSlot, bad |-> FALSE]
    BY <1>1
  <2> QED
    BY <2>1, <2>2, <2>3
<1>5. Quiet'
  BY <1>1, <1>2, <1>4 DEF Quiet
<1>6. ASSUME NEW k \in Sockets, EdgesOf(k) PROVE EdgesOf(k)'
  <2>1. Registered(k) <=> Registered(k)'
    BY <1>1 DEF Registered
  <2>2. ASSUME NEW e \in batch', e.sock = k PROVE Registered(k)' /\ e.slot = ptr'[k]
    <3>1. k \in ready /\ e.slot = ptr[k]
      BY <1>4, <2>2, SocketKinds
    <3> QED
      BY <1>1, <1>6, <2>1, <3>1 DEF EdgesOf
  <2>3. watch'[k] # "no" => Registered(k)'
    BY <1>1, <1>6, <2>1 DEF EdgesOf
  <2> QED
    BY <1>1, <2>2, <2>3 DEF EdgesOf
<1>7. ASSUME NEW d \in Clients PROVE ClientHolds(d)'
  <2>1. EdgesOf(ClientSock(d))' /\ EdgesOf(ServerSock(d))'
    BY <1>2, <1>6, SocketKinds DEF ClientHolds
  <2>2. NewOnes(d)
    BY <1>2 DEF ClientHolds
  <2>3. NewOnes(d)'
    BY <1>1, <2>2 DEF NewOnes, Registered, Open, ServerUntouched
  <2>4. Streams(d)
    BY <1>2 DEF ClientHolds
  <2>5. Streams(d)'
    BY <1>1, <2>4 DEF Streams, Tagged, Uniform
  <2> QED
    BY <2>1, <2>3, <2>5 DEF ClientHolds
<1>8. ASSUME NEW s \in Slots, NEW d \in Clients, Serving(s, d) PROVE Serving(s, d)'
  BY <1>1, <1>8 DEF Serving, Registered, Phase, WithServer, ServerUntouched, Tagged, Uniform
<1>9. \A s \in Slots : SlotHolds(s)'
  BY <1>1, <1>2, <1>8 DEF SlotHolds
<1>10. ASSUME NEW s \in Slots PROVE EdgeHolds(s)'
  <2> DEFINE k == Awaited(s)
  <2>1. Awaited(s)' = k
    BY <1>1 DEF Awaited
  <2>2. Due(Awaited(s))' => Due(k)
    BY <1>1, <2>1 DEF Due, Readable
  <2>3. EdgeHolds(s)
    BY <1>2
  <2> HIDE DEF k
  <2>4. ASSUME k \in Sockets, Due(k) PROVE \E e \in batch' : e.sock = k
    <3>1. k \in ready \ {Listen}
      BY <1>1, <2>3, <2>4, SocketKinds DEF EdgeHolds, k
    <3>2. [sock |-> k, slot |-> ptr[k], bad |-> ended[k] = "reset"] \in batch'
      BY <1>1, <2>4, <3>1
    <3> QED
      BY <3>2
  <2> QED
    BY <2>1, <2>2, <2>4 DEF EdgeHolds
<1>11. PICK n \in 0 .. MaxStates : TurnIs(n)
  BY <1>2 DEF Turns
<1>12. Asking' <= Asking /\ Asking \in Nat /\ Asking' \in Nat
  <2>1. (\E e \in batch' : e.sock = Listen) => Listen \in ready
    BY <1>4
  <2> QED
    BY <1>1, <2>1 DEF Asking
<1>13. Begun' = Begun /\ Cardinality(Begun) \in Nat
  BY <1>1, EpollAssumption, FS_Subset, FS_CardinalityType DEF Begun
<1>14. n + Asking' <= Cardinality(Begun')
  BY <1>11, <1>12, <1>13 DEF TurnIs
<1>15. TurnIs(n)'
  BY <1>1, <1>11, <1>14 DEF TurnIs
<1>16. Turns'
  BY <1>15 DEF Turns
<1> QED
  BY <1>5, <1>7, <1>9, <1>10, <1>16 DEF EpollInv

(* accept: the slot that was taken serves the new client, and nobody else.  *)
LEMMA AcceptOneKeeps ==
    ASSUME EpollInv, EpollTypes', NEW c \in Clients, AcceptOne(c)
    PROVE  EpollInv'
<1> DEFINE C == ClientSock(c)
           S == ServerSock(c)
<1>0. PICK s \in Slots : s = accepting
  BY DEF EpollInv, EpollTypes, AcceptOne
<1>1. /\ up = "up" /\ s = accepting /\ s # NoSlot /\ c \in backlog /\ backlog' = backlog \ {c}
      /\ Free # {} /\ Lowest > 0
      /\ file' = [file EXCEPT ![Lowest] = C]
      /\ conn' = [conn EXCEPT ![s].client = Lowest]
      /\ watch' = [watch EXCEPT ![C] = "in"]
      /\ ptr' = [ptr EXCEPT ![C] = s]
      /\ ready' = IF Readable(C) THEN ready \cup {C} ELSE ready
      /\ UNCHANGED <<up, idx, accepting, batch, sent, ended, inbox, full, got>>
  BY <1>0 DEF AcceptOne, ClientSock
<1>2. /\ EpollTypes /\ Quiet /\ Turns
      /\ \A d \in Clients : ClientHolds(d)
      /\ \A t \in Slots : SlotHolds(t) /\ EdgeHolds(t)
  BY DEF EpollInv
<1>3. Lowest \in Fds /\ file[Lowest] = Unused /\ Lowest # 0
  <2>1. Lowest \in Fds /\ file[Lowest] = Unused
    BY <1>1, LowestFree
  <2> QED
    BY <1>2, <2>1, SocketKinds DEF Quiet
<1>4. /\ C \in Sockets /\ S \in Sockets /\ C # S /\ C[1] = "client" /\ C[2] = c /\ S[1] = "server"
      /\ \A d \in Clients \ {c} : ClientSock(d) \notin {C, S} /\ ServerSock(d) \notin {C, S}
      /\ Unused \notin Sockets /\ Listen \notin Sockets
  BY SocketKinds
<1>5. /\ conn \in [Slots -> ConnState] /\ s \in Slots /\ 0 \in Fds
      /\ file \in [Fds -> Sockets \cup {Unused, Stdin}] /\ watch \in [Sockets -> {"no", "in", "out"}]
      /\ ptr \in [Sockets -> Slots]
  BY <1>1, <1>2, EpollAssumption DEF EpollTypes
<1>6. ~ Registered(C) /\ ended[C] # "none" /\ ServerUntouched(c) /\ got[C] = << >> /\ ~ Open(C)
      /\ EdgesOf(C) /\ EdgesOf(S) /\ Streams(c)
  BY <1>1, <1>2, <1>4 DEF Registered, NewOnes, ClientHolds
<1>7. PICK n \in 0 .. MaxStates : TurnIs(n)
  BY <1>2 DEF Turns
<1>8. PICK f \in Fds : conn[s] = [Fresh EXCEPT !.client = f]
  BY <1>1, <1>7 DEF TurnIs
<1>9. conn[s] \in ConnState /\ conn'[s] = [conn[s] EXCEPT !.client = Lowest] /\ \A t \in Slots \ {s} : conn'[t] = conn[t]
  BY <1>1, <1>5
<1>10. conn'[s] = [Fresh EXCEPT !.client = Lowest]
  BY <1>8, <1>9 DEF Fresh
<1>11. /\ conn'[s].client = Lowest /\ conn'[s].req = << >> /\ conn'[s].res = << >>
       /\ conn'[s].state = "READ_REQ" /\ conn'[s].wroteServer = 0
  BY <1>10 DEF Fresh
<1> HIDE DEF C, S
<1>12. /\ file'[Lowest] = C /\ \A g \in Fds : g # Lowest => file'[g] = file[g]
       /\ watch'[C] = "in" /\ \A k \in Sockets \ {C} : watch'[k] = watch[k]
       /\ ptr'[C] = s /\ \A k \in Sockets \ {C} : ptr'[k] = ptr[k]
  BY <1>1, <1>3, <1>4, <1>5
<1>13. ASSUME NEW d \in Clients, NEW j \in {ClientSock(d), ServerSock(d)}, j # C PROVE SocketSpared(j)
  <2>1. j \in Sockets
    BY SocketKinds
  <2>2. \A g \in Fds : file'[g] = j <=> file[g] = j
    BY <1>3, <1>4, <1>12, <1>13, <2>1
  <2>3. j \in ready' <=> j \in ready
    BY <1>1, <1>13
  <2> QED
    BY <1>1, <1>12, <1>13, <2>1, <2>2, <2>3 DEF SocketSpared
<1>14. \A d \in Clients \ {c} : Spared(d)
  BY <1>1, <1>4, <1>13 DEF Spared
<1>15. Registered(C)'
  BY <1>1, <1>4, <1>6 DEF Registered
<1>16. EdgesOf(C)'
  BY <1>1, <1>6, <1>15 DEF EdgesOf
<1>17. EdgesOf(S)'
  <2>1. SocketSpared(S)
    BY <1>4, <1>13 DEF S
  <2>2. Registered(S) <=> Registered(S)'
    BY <1>4, <2>1 DEF Registered, SocketSpared
  <2> QED
    BY <1>1, <1>6, <2>1, <2>2 DEF EdgesOf, SocketSpared
<1>18. NewOnes(c)'
  BY <1>1, <1>6, <1>15 DEF NewOnes, C
<1>19. Streams(c)'
  BY <1>1, <1>6 DEF Streams, Tagged, Uniform
<1>20. ClientHolds(c)'
  BY <1>16, <1>17, <1>18, <1>19 DEF ClientHolds, C, S
<1>21. Phase(s, c)'
  BY <1>1, <1>6, <1>11, <1>12 DEF Phase, ServerUntouched, C, S
<1>22. Serving(s, c)'
  BY <1>1, <1>6, <1>11, <1>12, <1>15, <1>21 DEF Serving, Tagged, Uniform, C
<1>23. Awaited(s)' = C
  BY <1>11, <1>12 DEF Awaited
<1>24. EdgeHolds(s)'
  <2>1. Due(C)' => C \in ready'
    BY <1>1, <1>2, <1>4, <1>12 DEF Due, Readable, Quiet
  <2> QED
    BY <1>23, <2>1 DEF EdgeHolds
<1>25. \A t \in Slots : ~ Serving(t, c)
  BY <1>6 DEF Serving, C
<1>26. file'[0] = Stdin
  BY <1>2, <1>3, <1>5, <1>12 DEF Quiet
<1>27. \A t \in Slots : \/ conn'[t] = Fresh
                        \/ Serving(t, c)' /\ EdgeHolds(t)'
                        \/ /\ conn'[t] = conn[t] /\ ~ Serving(t, c)
                           /\ \A e \in batch \ batch' : e.slot # t
  BY <1>1, <1>9, <1>22, <1>24, <1>25
<1>28. /\ \A d \in Clients : ClientHolds(d)'
       /\ \A t \in Slots : SlotHolds(t)' /\ EdgeHolds(t)'
  BY <1>1, <1>2, <1>14, <1>20, <1>26, <1>27, StepKeeps
<1>29. Quiet'
  BY <1>1, <1>2, <1>26 DEF Quiet
<1>30. Asking' = Asking /\ Begun' = Begun
  <2>1. Listen \in ready' <=> Listen \in ready
    BY <1>1, <1>4
  <2> QED
    BY <1>1, <2>1 DEF Asking, Begun
<1>31. TurnIs(n)'
  <2>1. s = n - 1 /\ n \in Nat
    BY <1>1, <1>7 DEF TurnIs
  <2>2. \A t \in Slots : t >= n => t # s
    BY <2>1
  <2>3. \A t \in Slots : t >= n => conn'[t] = Fresh
    BY <1>7, <1>9, <2>2 DEF TurnIs
  <2>4. idx' = n % MaxStates /\ n + Asking' <= Cardinality(Begun')
    BY <1>1, <1>7, <1>30 DEF TurnIs
  <2>5. accepting' = s
    BY <1>1
  <2> QED
    BY <1>3, <1>10, <2>1, <2>3, <2>4, <2>5 DEF TurnIs
<1>32. Turns'
  BY <1>31 DEF Turns
<1> QED
  BY <1>28, <1>29, <1>32 DEF EpollInv

(* A client connects: it is one more that may ask for a slot.               *)
LEMMA ConnectsKeeps ==
    ASSUME EpollInv, EpollTypes', NEW c \in Clients, Connects(c)
    PROVE  EpollInv'
<1> DEFINE C == ClientSock(c)
           S == ServerSock(c)
<1>1. /\ up = "up" /\ ended[C] = "none"
      /\ ended' = [ended EXCEPT ![C] = "open"]
      /\ backlog' = backlog \cup {c} /\ ready' = ready \cup {Listen}
      /\ UNCHANGED <<up, file, conn, idx, accepting, batch, watch, ptr, sent, inbox, full, got>>
  BY DEF Connects, ClientSock
<1>2. /\ EpollTypes /\ Quiet /\ Turns
      /\ \A d \in Clients : ClientHolds(d)
      /\ \A t \in Slots : SlotHolds(t) /\ EdgeHolds(t)
  BY DEF EpollInv
<1>3. /\ C \in Sockets /\ S \in Sockets /\ C # S /\ C[1] = "client" /\ C[2] = c /\ S[1] = "server"
      /\ \A d \in Clients \ {c} : ClientSock(d) \notin {C, S} /\ ServerSock(d) \notin {C, S}
      /\ Listen \notin Sockets
      /\ \A d \in Clients : ClientSock(d) # Listen /\ ServerSock(d) # Listen
  BY SocketKinds
<1>4. ended \in [Sockets -> {"none", "open", "eof", "reset"}]
  BY <1>2 DEF EpollTypes
<1>5. ended'[C] = "open" /\ \A j \in Sockets \ {C} : ended'[j] = ended[j]
  BY <1>1, <1>3, <1>4
<1>6. ~ Registered(C) /\ EdgesOf(C) /\ EdgesOf(S) /\ NewOnes(c) /\ Streams(c)
  BY <1>1, <1>2 DEF Registered, ClientHolds
<1> HIDE DEF C, S
<1>7. ASSUME NEW d \in Clients, NEW j \in {ClientSock(d), ServerSock(d)}, j # C PROVE SocketSpared(j)
  <2>1. j \in Sockets /\ j # Listen
    BY <1>3, SocketKinds
  <2> QED
    BY <1>1, <1>5, <1>7, <2>1 DEF SocketSpared
<1>8. \A d \in Clients \ {c} : Spared(d)
  BY <1>1, <1>3, <1>7 DEF Spared
<1>9. ~ Registered(C)'
  BY <1>1, <1>3 DEF Registered
<1>10. EdgesOf(C)'
  BY <1>1, <1>3, <1>6 DEF EdgesOf
<1>11. EdgesOf(S)'
  <2>1. SocketSpared(S)
    BY <1>3, <1>7 DEF S
  <2>2. Registered(S) <=> Registered(S)'
    BY <1>3, <2>1 DEF Registered, SocketSpared
  <2> QED
    BY <1>1, <1>6, <2>1, <2>2 DEF EdgesOf, SocketSpared
<1>12. NewOnes(c)'
  <2>1. ~ Open(C) /\ ServerUntouched(c) /\ got[C] = << >>
    BY <1>6 DEF NewOnes, C
  <2>2. ServerUntouched(c)'
    BY <1>1, <1>3, <1>5, <2>1 DEF ServerUntouched, S
  <2>3. ~ Open(C)' /\ got'[C] = << >>
    BY <1>1, <2>1 DEF Open
  <2> QED
    BY <1>5, <2>2, <2>3 DEF NewOnes, C
<1>13. Streams(c)'
  BY <1>1, <1>6 DEF Streams, Tagged, Uniform
<1>14. ClientHolds(c)'
  BY <1>10, <1>11, <1>12, <1>13 DEF ClientHolds, C, S
<1>15. \A t \in Slots : ~ Serving(t, c)
  BY <1>6 DEF Serving, C
<1>16. \A t \in Slots : conn'[t] = conn[t] /\ ~ Serving(t, c) /\ \A e \in batch \ batch' : e.slot # t
  BY <1>1, <1>15
<1>17. file'[0] = Stdin
  BY <1>1, <1>2 DEF Quiet
<1>18. /\ \A d \in Clients : ClientHolds(d)'
       /\ \A t \in Slots : SlotHolds(t)' /\ EdgeHolds(t)'
  BY <1>1, <1>2, <1>8, <1>14, <1>16, <1>17, StepKeeps
<1>19. Quiet'
  BY <1>1, <1>2, <1>5 DEF Quiet
<1>20. PICK n \in 0 .. MaxStates : TurnIs(n)
  BY <1>2 DEF Turns
<1>21. Asking' <= Asking + 1 /\ Asking \in Nat /\ Asking' \in Nat
  BY <1>1 DEF Asking
<1>22. Cardinality(Begun') = Cardinality(Begun) + 1 /\ Cardinality(Begun) \in Nat
  <2>1. Begun' = Begun \cup {c} /\ c \notin Begun
    BY <1>1, <1>3, <1>5, SocketKinds DEF Begun, C
  <2>2. IsFiniteSet(Begun)
    BY EpollAssumption, FS_Subset DEF Begun
  <2> QED
    BY <2>1, <2>2, FS_AddElement, FS_CardinalityType
<1>23. n + Asking' <= Cardinality(Begun')
  BY <1>20, <1>21, <1>22 DEF TurnIs
<1>24. TurnIs(n)'
  BY <1>1, <1>20, <1>23 DEF TurnIs
<1>25. Turns'
  BY <1>24 DEF Turns
<1> QED
  BY <1>18, <1>19, <1>25 DEF EpollInv

(* What the peers may do without harm: send to, end or drain their streams. *)
LEMMA PeerKeeps ==
    ASSUME EpollInv, EpollTypes',
           UNCHANGED <<up, file, conn, idx, accepting, batch, watch, ptr, backlog, got>>,
           ready \subseteq ready', \A j \in ready' \ ready : j \in Sockets /\ watch[j] # "no",
           \A j \in Sockets : Due(j)' => Due(j) \/ j \in ready',
           \A j \in Sockets : (ended'[j] = "none" <=> ended[j] = "none") /\ ended'[j] # "reset",
           \A d \in Clients : ServerUntouched(d) => ServerUntouched(d)',
           \A d \in Clients : Streams(d)',
           \A s \in Slots, d \in Clients : WithServer(s, d) => WithServer(s, d)'
    PROVE  EpollInv'
<1>1. /\ EpollTypes /\ Quiet /\ Turns
      /\ \A d \in Clients : ClientHolds(d)
      /\ \A t \in Slots : SlotHolds(t) /\ EdgeHolds(t)
  BY DEF EpollInv
<1>2. Quiet'
  BY <1>1 DEF Quiet
<1>3. \A k \in Sockets : Registered(k)' <=> Registered(k)
  BY DEF Registered
<1>4. ASSUME NEW k \in Sockets, EdgesOf(k) PROVE EdgesOf(k)'
  BY <1>3, <1>4 DEF EdgesOf
<1>5. ASSUME NEW d \in Clients PROVE ClientHolds(d)'
  <2> DEFINE C == ClientSock(d)
  <2>1. /\ EdgesOf(C) /\ EdgesOf(ServerSock(d)) /\ NewOnes(d)
        /\ C \in Sockets /\ ServerSock(d) \in Sockets
    BY <1>1, SocketKinds DEF ClientHolds
  <2>2. EdgesOf(C)' /\ EdgesOf(ServerSock(d))'
    BY <1>4, <2>1
  <2>3. NewOnes(d)'
    BY <1>3, <2>1 DEF NewOnes, Open
  <2> QED
    BY <2>2, <2>3 DEF ClientHolds
<1>6. ASSUME NEW s \in Slots, NEW d \in Clients, Serving(s, d) PROVE Serving(s, d)'
  <2>1. Registered(ClientSock(d))'
    BY <1>3, <1>6, SocketKinds DEF Serving
  <2>2. Phase(s, d)'
    BY <1>6 DEF Phase, Serving
  <2> QED
    BY <1>6, <2>1, <2>2 DEF Serving, Tagged, Uniform
<1>7. \A s \in Slots : SlotHolds(s)'
  BY <1>1, <1>6 DEF SlotHolds
<1>8. ASSUME NEW s \in Slots PROVE EdgeHolds(s)'
  <2>1. Awaited(s)' = Awaited(s) /\ EdgeHolds(s)
    BY <1>1 DEF Awaited
  <2>2. Awaited(s) \in Sockets /\ Due(Awaited(s))' => Due(Awaited(s)) \/ Awaited(s) \in ready'
    BY <2>1
  <2> QED
    BY <2>1, <2>2 DEF EdgeHolds
<1>9. Listen \in ready' => Listen \in ready
  BY SocketKinds
<1>10. Turns'
  <2>1. \A d \in Clients : ended'[ClientSock(d)] # "none" <=> ended[ClientSock(d)] # "none"
    BY SocketKinds
  <2> QED
    BY <1>1, <1>9, <2>1, TurnsStay
<1> QED
  BY <1>1, <1>2, <1>5, <1>7, <1>8, <1>10 DEF EpollInv

(* A peer sends a piece: it belongs to the client.                          *)
LEMMA SendsKeeps ==
    ASSUME EpollInv, EpollTypes', NEW k \in Sockets, Sends(k)
    PROVE  EpollInv'
<1> DEFINE kind == IF k[1] = "server" THEN "answer" ELSE IF sent'[k] = ReqLen THEN "end" ELSE "part"
           x == <<kind, k[2]>>
<1>1. /\ ended[k] = "open" /\ sent[k] < Size(k)
      /\ sent' = [sent EXCEPT ![k] = sent[k] + 1]
      /\ inbox' = [inbox EXCEPT ![k] = Append(inbox[k], x)]
      /\ ready' = IF watch[k] = "in" THEN ready \cup {k} ELSE ready
      /\ UNCHANGED <<up, file, conn, idx, accepting, batch, watch, ptr, backlog, ended, full, got>>
  BY DEF Sends, Comes
<1>2. /\ EpollTypes /\ Quiet
      /\ \A d \in Clients : Streams(d)
      /\ inbox \in [Sockets -> Seq(Pieces)] /\ sent \in [Sockets -> Nat] /\ conn \in [Slots -> ConnState]
  BY DEF EpollInv, ClientHolds, EpollTypes
<1>3. x \in Pieces /\ x[2] = k[2] /\ (k[1] = "server" => x = <<"answer", k[2]>>)
  BY SocketKinds DEF Pieces
<1> HIDE DEF kind, x
<1>4. /\ inbox'[k] = Append(inbox[k], x) /\ sent'[k] = sent[k] + 1
      /\ \A j \in Sockets \ {k} : inbox'[j] = inbox[j] /\ sent'[j] = sent[j]
      /\ inbox[k] \in Seq(Pieces) /\ sent[k] \in Nat
  BY <1>1, <1>2
<1>5. /\ Len(inbox'[k]) = Len(inbox[k]) + 1 /\ Len(inbox[k]) \in Nat
      /\ Uniform(inbox[k], x) => Uniform(inbox'[k], x)
      /\ Tagged(inbox[k], x[2]) => Tagged(inbox'[k], x[2])
  <2>1. /\ Len(Append(inbox[k], x)) = Len(inbox[k]) + 1
        /\ Uniform(inbox[k], x) => Uniform(Append(inbox[k], x), x)
        /\ Tagged(inbox[k], x[2]) => Tagged(Append(inbox[k], x), x[2])
    BY <1>3, <1>4, AppendDoes
  <2> QED
    BY <1>4, <2>1, LenProperties
<1>6. \A j \in Sockets : Due(j)' => Due(j) \/ j \in ready'
  <2> SUFFICES ASSUME NEW j \in Sockets, Due(j)' PROVE Due(j) \/ j \in ready'
    OBVIOUS
  <2>1. CASE j # k
    BY <1>1, <1>4, <2>1 DEF Due, Readable
  <2>2. CASE j = k
    BY <1>1, <2>2 DEF Due, Readable
  <2> QED
    BY <2>1, <2>2
<1>7. ASSUME NEW d \in Clients PROVE ServerUntouched(d) => ServerUntouched(d)'
  <2>1. ServerUntouched(d) => ServerSock(d) # k
    BY <1>1 DEF ServerUntouched
  <2> QED
    BY <1>1, <1>4, <2>1, SocketKinds DEF ServerUntouched
<1>8. ASSUME NEW d \in Clients PROVE Streams(d)'
  <2> DEFINE C == ClientSock(d)
             S == ServerSock(d)
  <2>1. C \in Sockets /\ S \in Sockets /\ C[2] = d /\ S[2] = d /\ S[1] = "server"
    BY SocketKinds
  <2>2. /\ Tagged(inbox[C], d) /\ Uniform(inbox[S], <<"answer", d>>) /\ sent[S] <= ResLen
        /\ Uniform(got[C], <<"answer", d>>) /\ Len(got[C]) <= ResLen
        /\ Uniform(got[S], <<"query", d>>) /\ Len(got[S]) <= ReqLen
    BY <1>2 DEF Streams
  <2> HIDE DEF C, S
  <2>3. Tagged(inbox'[C], d)
    BY <1>3, <1>4, <1>5, <2>1, <2>2
  <2>4. Uniform(inbox'[S], <<"answer", d>>)
    BY <1>3, <1>4, <1>5, <2>1, <2>2
  <2>5. sent'[S] <= ResLen
    <3>1. CASE S = k
      BY <1>1, <1>4, <2>1, <3>1, EpollAssumption DEF Size
    <3>2. CASE S # k
      BY <1>4, <2>1, <2>2, <3>2
    <3> QED
      BY <3>1, <3>2
  <2> QED
    BY <1>1, <2>2, <2>3, <2>4, <2>5 DEF Streams, Tagged, Uniform, C, S
<1>9. ASSUME NEW s \in Slots, NEW d \in Clients, WithServer(s, d) PROVE WithServer(s, d)'
  <2> DEFINE S == ServerSock(d)
             l == Len(conn[s].res)
             m == Len(inbox[S])
             p == Len(inbox'[S])
             w == sent[S]
             v == sent'[S]
  <2>1. S \in Sockets /\ l + m = w
    BY <1>9, SocketKinds DEF WithServer
  <2>2. l \in Nat /\ m \in Nat
    <3>1. inbox[S] \in Seq(Pieces) /\ conn[s].res \in Seq(Pieces)
      BY <1>2, <2>1, SlotTypes
    <3> QED
      BY <3>1, LenProperties
  <2>3. (p = m + 1 /\ v = w + 1) \/ (p = m /\ v = w)
    BY <1>4, <1>5, <2>1
  <2> HIDE DEF l, m, p, w, v
  <2>4. l + p = v
    BY <2>1, <2>2, <2>3
  <2> QED
    BY <1>1, <1>9, <2>4 DEF WithServer, l, p, v
<1>10. \A j \in Sockets : ended[j] # "reset"
  BY <1>2 DEF Quiet
<1> QED
  BY <1>1, <1>6, <1>7, <1>8, <1>9, <1>10, PeerKeeps

(* A peer ends its stream, or takes what it was sent.                       *)
LEMMA EndsKeeps ==
    ASSUME EpollInv, EpollTypes', NEW k \in Sockets, Ends(k)
    PROVE  EpollInv'
<1>1. /\ ended[k] = "open"
      /\ ended' = [ended EXCEPT ![k] = "eof"]
      /\ ready' = IF watch[k] = "in" THEN ready \cup {k} ELSE ready
      /\ UNCHANGED <<up, file, conn, idx, accepting, batch, watch, ptr, backlog, sent, inbox, full, got>>
  BY DEF Ends, Comes
<1>2. /\ EpollTypes /\ Quiet
      /\ \A d \in Clients : Streams(d)
      /\ ended \in [Sockets -> {"none", "open", "eof", "reset"}]
  BY DEF EpollInv, ClientHolds, EpollTypes
<1>3. ended'[k] = "eof" /\ \A j \in Sockets \ {k} : ended'[j] = ended[j]
  BY <1>1, <1>2
<1>4. \A j \in Sockets : Due(j)' => Due(j) \/ j \in ready'
  BY <1>1, <1>3 DEF Due, Readable
<1>5. ASSUME NEW d \in Clients PROVE ServerUntouched(d) => ServerUntouched(d)'
  BY <1>1, <1>3, SocketKinds DEF ServerUntouched
<1>6. ASSUME NEW d \in Clients PROVE Streams(d)'
  BY <1>1, <1>2 DEF Streams, Tagged, Uniform
<1>7. ASSUME NEW s \in Slots, NEW d \in Clients, WithServer(s, d) PROVE WithServer(s, d)'
  BY <1>1, <1>7 DEF WithServer
<1>8. \A j \in Sockets : (ended'[j] = "none" <=> ended[j] = "none") /\ ended'[j] # "reset"
  BY <1>1, <1>2, <1>3 DEF Quiet
<1> QED
  BY <1>1, <1>4, <1>5, <1>6, <1>7, <1>8, PeerKeeps

(* A full socket takes pieces again: an edge for the slot that writes to it.*)
LEMMA DrainsKeeps ==
    ASSUME EpollInv, EpollTypes', NEW k \in Sockets, Drains(k)
    PROVE  EpollInv'
<1>1. /\ full' = full \ {k}
      /\ ready' = IF watch[k] = "out" THEN ready \cup {k} ELSE ready
      /\ UNCHANGED <<up, file, conn, idx, accepting, batch, watch, ptr, backlog, sent, inbox, ended, got>>
  BY DEF Drains, peers
<1>2. Quiet /\ \A d \in Clients : Streams(d)
  BY DEF EpollInv, ClientHolds
<1>3. \A j \in Sockets : Due(j)' => Due(j) \/ j \in ready'
  BY <1>1 DEF Due, Readable
<1>4. ASSUME NEW d \in Clients PROVE ServerUntouched(d) => ServerUntouched(d)'
  BY <1>1 DEF ServerUntouched
<1>5. ASSUME NEW d \in Clients PROVE Streams(d)'
  BY <1>1, <1>2 DEF Streams, Tagged, Uniform
<1>6. ASSUME NEW s \in Slots, NEW d \in Clients, WithServer(s, d) PROVE WithServer(s, d)'
  BY <1>1, <1>6 DEF WithServer
<1>7. \A j \in Sockets : ended[j] # "reset"
  BY <1>2 DEF Quiet
<1> QED
  BY <1>1, <1>3, <1>4, <1>5, <1>6, <1>7, PeerKeeps

(* No slot waits for a descriptor that is not open, or for a reset stream.  *)
LEMMA NothingBreaks ==
    ASSUME EpollInv, NEW s \in Slots
    PROVE  ~ Broken(Awaited(s))
<1>1. /\ EpollTypes /\ file[0] = Stdin /\ \A k \in Sockets : ended[k] # "reset"
      /\ SlotHolds(s)
  BY DEF EpollInv, Quiet
<1>2. Awaited(s) \in Sockets \/ Awaited(s) = Stdin
  BY <1>1, AwaitedIs DEF SlotHolds
<1> QED
  BY <1>1, <1>2, SocketKinds DEF Broken

(* The invariant holds before anybody connects.                             *)
LEMMA InvInit == Init => EpollInv
<1> SUFFICES ASSUME Init PROVE EpollInv
  OBVIOUS
<1>1. EpollTypes
  BY TypesInit
<1>2. file[0] = Stdin /\ (\A s \in Slots : conn[s] = Fresh) /\ 0 \in Fds
  BY EpollAssumption DEF Init
<1>3. Quiet
  BY <1>2 DEF Init, Quiet
<1>4. \A f \in Fds : file[f] \notin Sockets
  BY SocketKinds DEF Init
<1>5. ASSUME NEW d \in Clients PROVE ClientHolds(d)
  <2> DEFINE C == ClientSock(d)
             S == ServerSock(d)
  <2>1. C \in Sockets /\ S \in Sockets
    BY SocketKinds
  <2>2. \A k \in {C, S} : ended[k] = "none" /\ watch[k] = "no" /\ sent[k] = 0 /\ inbox[k] = << >> /\ got[k] = << >>
    BY <2>1 DEF Init
  <2>3. ready = {} /\ batch = {} /\ backlog = {}
    BY DEF Init
  <2>4. ~ Open(C) /\ ServerUntouched(d)
    BY <1>4, <2>1, <2>2 DEF Open, ServerUntouched
  <2>5. Len(<< >>) = 0 /\ ResLen \in Nat /\ DOMAIN << >> = {}
    BY EpollAssumption
  <2>6. Streams(d)
    BY <2>2, <2>5 DEF Streams, Tagged, Uniform, ReqLen
  <2> QED
    BY <2>2, <2>3, <2>4, <2>6 DEF ClientHolds, EdgesOf, NewOnes
<1>6. ASSUME NEW s \in Slots PROVE SlotHolds(s) /\ EdgeHolds(s)
  <2>1. Awaited(s) = Stdin
    BY <1>1, <1>2, AwaitedIs
  <2> QED
    BY <1>2, <2>1, SocketKinds DEF SlotHolds, EdgeHolds
<1>7. Turns
  <2>1. Asking = 0
    BY DEF Init, Asking
  <2>2. Cardinality(Begun) \in Nat
    BY EpollAssumption, FS_Subset, FS_CardinalityType DEF Begun
  <2>3. idx = 0 % MaxStates /\ accepting = NoSlot /\ 0 \in 0 .. MaxStates
    BY EpollAssumption DEF Init
  <2>4. TurnIs(0)
    BY <1>2, <2>1, <2>2, <2>3 DEF TurnIs
  <2> QED
    BY <2>3, <2>4 DEF Turns
<1> QED
  BY <1>1, <1>3, <1>5, <1>6, <1>7 DEF EpollInv

(* Each stream goes its way once, and resets are a fault of the peers.      *)
LEMMA EndedMoves ==
    ASSUME EpollTypes, [Next]_vars, NEW k \in Sockets
    PROVE  \/ ended'[k] = ended[k]
           \/ ended[k] = "none" /\ ended'[k] = "open"
           \/ ended[k] = "open" /\ ended'[k] = "eof"
           \/ "reset" \in Faults /\ ended'[k] = "reset"
<1> DEFINE Moves ==
        \/ ended'[k] = ended[k]
        \/ ended[k] = "none" /\ ended'[k] = "open"
        \/ ended[k] = "open" /\ ended'[k] = "eof"
        \/ "reset" \in Faults /\ ended'[k] = "reset"
<1>1. ended \in [Sockets -> {"none", "open", "eof", "reset"}]
  BY DEF EpollTypes
<1>2. UNCHANGED ended => Moves
  OBVIOUS
<1>3. ASSUME NEW e, Connect(e) PROVE Moves
  <2> DEFINE j == <<"server", Head(conn[e.slot].req \o inbox[Awaited(e.slot)])[2]>>
  <2>1. ended' = [ended EXCEPT ![j] = IF @ = "none" THEN "open" ELSE @]
    BY <1>3 DEF Connect
  <2> HIDE DEF j
  <2> QED
    BY <1>1, <2>1
<1>4. ASSUME NEW c \in Clients, Connects(c) PROVE Moves
  <2>1. ended[<<"client", c>>] = "none" /\ ended' = [ended EXCEPT ![<<"client", c>>] = "open"]
    BY <1>4 DEF Connects
  <2> QED
    BY <1>1, <2>1
<1>5. ASSUME NEW j \in Sockets, Peer(j) PROVE Moves
  <2>1. \/ UNCHANGED ended
        \/ ended[j] = "open" /\ ended' = [ended EXCEPT ![j] = "eof"]
        \/ "reset" \in Faults /\ ended' = [ended EXCEPT ![j] = "reset"]
    BY <1>5 DEF Peer, Sends, Ends, Drains, Resets, peers
  <2> QED
    BY <1>1, <2>1
<1> HIDE DEF Moves
<1>6. ASSUME NEW e, HandleEvent(e) PROVE Moves
  <2>1. CASE Connect(e)
    BY <1>3, <2>1
  <2>2. CASE ~ Connect(e)
    <3>1. UNCHANGED ended
      BY <1>6, <2>2
         DEF HandleEvent, Skip, NewClient, ReadRequest, ReadRequestStuck, ConnectFails, SendRequestSome,
             SendRequestAll, Receive, ReadResponseSome, ReadResponseAll, Cancel, SendResponseSome,
             SendResponseAll, SendResponseFails, WriteKills, Becomes, peers
    <3> QED
      BY <1>2, <3>1
  <2> QED
    BY <2>1, <2>2
<1>7. ASSUME Proxy PROVE Moves
  <2>1. CASE EpollWait \/ AcceptNoMore \/ \E c \in Clients : AcceptOne(c) \/ AcceptZero(c)
    BY <1>2, <2>1 DEF EpollWait, AcceptNoMore, AcceptOne, AcceptZero, peers
  <2> QED
    BY <1>6, <1>7, <2>1 DEF Proxy
<1>8. ASSUME UNCHANGED vars PROVE Moves
  BY <1>2, <1>8 DEF vars
<1>9. Moves
  BY <1>4, <1>5, <1>7, <1>8 DEF Next
<1> QED
  BY <1>9 DEF Moves

(* So the time without a reset is over for good with the first one.         *)
LEMMA ResetStays ==
    ASSUME EpollTypes, [Next]_vars
    PROVE  /\ Unreset' => Unreset
           /\ Unreset /\ "reset" \notin Faults => Unreset'
BY EndedMoves DEF Unreset

(* A step that resets no stream keeps the invariant.                        *)
LEMMA InvKept ==
    ASSUME Cardinality(Clients) <= MaxStates, EpollInv, [Next]_vars, Unreset'
    PROVE  EpollInv'
<1>1. EpollTypes /\ Quiet /\ Turns
  BY DEF EpollInv
<1>2. EpollTypes'
  BY <1>1, TypesKept
<1>3. ASSUME NEW e, Skip(e) \/ Cancel(e) \/ SendResponseFails(e) \/ WriteKills(e) PROVE FALSE
  <2>1. ~ Skip(e)
    BY <1>1 DEF Skip, Takes, Quiet
  <2>2. (\E state \in States : Dispatch(e, state)) /\ Broken(Awaited(e.slot))
    BY <1>3, <2>1 DEF Cancel, SendResponseFails, WriteKills, States
  <2>3. e.slot \in Slots
    BY <1>1, <2>2, DispatchDoes
  <2> QED
    BY <2>2, <2>3, NothingBreaks
<1>4. ASSUME NEW c \in Clients, AcceptZero(c) PROVE FALSE
  BY <1>1, <1>4, SocketKinds DEF AcceptZero, Free, Quiet
<1>5. CASE EpollWait
  BY <1>2, <1>5, EpollWaitKeeps
<1>6. ASSUME NEW e, HandleEvent(e) PROVE EpollInv'
  <2>1. CASE NewClient(e)
    BY <1>2, <2>1, NewClientKeeps
  <2>2. CASE ReadRequest(e)
    BY <1>2, <2>2, ReadRequestKeeps
  <2>3. CASE ReadRequestStuck(e) \/ ConnectFails(e)
    BY <1>2, <2>3, StopKeeps
  <2>4. CASE Connect(e)
    BY <1>2, <2>4, ConnectKeeps
  <2>5. CASE SendRequestSome(e)
    BY <1>2, <2>5, SendRequestSomeKeeps
  <2>6. CASE SendRequestAll(e)
    BY <1>2, <2>6, SendRequestAllKeeps
  <2>7. CASE ReadResponseSome(e)
    BY <1>2, <2>7, ReadResponseSomeKeeps
  <2>8. CASE ReadResponseAll(e)
    BY <1>2, <2>8, ReadResponseAllKeeps
  <2>9. CASE SendResponseSome(e) \/ SendResponseAll(e)
    BY <1>2, <2>9, SendResponseKeeps
  <2> QED
    BY <1>3, <1>6, <2>1, <2>2, <2>3, <2>4, <2>5, <2>6, <2>7, <2>8, <2>9 DEF HandleEvent
<1>7. ASSUME NEW c \in Clients, AcceptOne(c) PROVE EpollInv'
  BY <1>2, <1>7, AcceptOneKeeps
<1>8. CASE AcceptNoMore
  BY <1>2, <1>8, AcceptNoMoreKeeps
<1>9. ASSUME NEW c \in Clients, Connects(c) PROVE EpollInv'
  BY <1>2, <1>9, ConnectsKeeps
<1>10. ASSUME NEW k \in Sockets, Peer(k) PROVE EpollInv'
  <2>1. ~ Resets(k)
    BY <1>1 DEF Resets, Unreset, EpollTypes
  <2> QED
    BY <1>2, <1>10, <2>1, SendsKeeps, EndsKeeps, DrainsKeeps DEF Peer
<1>11. CASE UNCHANGED vars
  <2>1. /\ UNCHANGED <<up, file, conn, idx, accepting, batch, watch, ptr, ready,
                       backlog, sent, inbox, ended, full, got>>
    BY <1>11 DEF vars
  <2>2. /\ Quiet'
        /\ \A d \in Clients : ClientHolds(d)'
        /\ \A s \in Slots : SlotHolds(s)' /\ EdgeHolds(s)'
    BY <1>2, <2>1, Unmoved
  <2>3. Turns'
    BY <1>1, <2>1, TurnsStay
  <2> QED
    BY <1>2, <2>2, <2>3 DEF EpollInv
<1> QED
  BY <1>4, <1>5, <1>6, <1>7, <1>8, <1>9, <1>10, <1>11 DEF Next, Proxy

----------------------------------------------------------------------------
(* The theorems. *)

(* Whatever the peers do, descriptors, slots, registrations and streams keep*)
(* their types; a response never outgrows its buffer, and no slot but one of*)
(* conn_states is ever used.                                                *)
THEOREM TypeCorrect == Spec => []TypeOK
<1>1. Init => EpollTypes
  BY TypesInit
<1>2. EpollTypes /\ [Next]_vars => EpollTypes'
  BY TypesKept
<1>3. EpollTypes => TypeOK
  <2> SUFFICES ASSUME EpollTypes PROVE TypeOK
    OBVIOUS
  <2>1. \A s \in Slots : /\ {conn[s].client, conn[s].server} \subseteq Fds
                         /\ conn[s].state \in {"READ_REQ", "SEND_REQ", "READ_RES", "SEND_RES"}
                         /\ conn[s].req \in Seq(Pieces) /\ conn[s].res \in Seq(Pieces)
                         /\ Len(conn[s].res) <= MaxObject
                         /\ conn[s].wroteServer \in 0 .. ReqLen /\ conn[s].wroteClient = 0
    BY SlotTypes DEF States
  <2>2. 0 \in 0 .. MaxObject
    BY EpollAssumption
  <2> QED
    BY <2>1, <2>2 DEF TypeOK, EpollTypes
<1> QED
  BY <1>1, <1>2, <1>3, PTL DEF Spec

(* The invariant of the epoll proxy, until a stream is reset.               *)
THEOREM EpollInvariance ==
    ASSUME Cardinality(Clients) <= MaxStates
    PROVE  Spec => [](EpollTypes /\ (Unreset => EpollInv))
<1> DEFINE I == EpollTypes /\ (Unreset => EpollInv)
<1>1. Init => I
  BY InvInit, TypesInit
<1>2. I /\ [Next]_vars => I'
  <2> SUFFICES ASSUME I, [Next]_vars PROVE I'
    OBVIOUS
  <2>1. EpollTypes'
    BY TypesKept
  <2>2. ASSUME Unreset' PROVE EpollInv'
    BY <2>2, ResetStays, InvKept
  <2> QED
    BY <2>1, <2>2
<1> QED
  BY <1>1, <1>2, PTL DEF Spec

(* With a slot for every client and until a stream is reset: what a client  *)
(* is sent is its own response, once and in order, and a server gets its    *)
(* client's query, however the handlers of several clients interleave and   *)
(* however often a write stops in the middle.                               *)
THEOREM BytesAreOwn ==
    ASSUME Cardinality(Clients) <= MaxStates
    PROVE  Spec => []AnswerIsOwn
<1>1. (Unreset => EpollInv) => AnswerIsOwn
  <2> SUFFICES ASSUME EpollInv, NEW c \in Clients
               PROVE  /\ \E n \in 0 .. ResLen : got[ClientSock(c)] = SubSeq(Response(c), 1, n)
                      /\ \E n \in 0 .. ReqLen : got[ServerSock(c)] = SubSeq(Query(c), 1, n)
    BY DEF AnswerIsOwn, ClientSock, ServerSock
  <2> DEFINE C == ClientSock(c)
             S == ServerSock(c)
             a == <<"answer", c>>
             q == <<"query", c>>
  <2>1. /\ Uniform(got[C], a) /\ Len(got[C]) <= ResLen
        /\ Uniform(got[S], q) /\ Len(got[S]) <= ReqLen
    BY DEF EpollInv, ClientHolds, Streams
  <2>2. got[C] \in Seq(Pieces) /\ got[S] \in Seq(Pieces)
    BY SocketKinds DEF EpollInv, EpollTypes
  <2>3. a \in Pieces /\ q \in Pieces
    BY DEF Pieces
  <2>4. ResLen \in Nat /\ ReqLen \in Nat
    BY EpollAssumption DEF ReqLen
  <2>5. Response(c) = [i \in 1 .. ResLen |-> a] /\ Query(c) = [i \in 1 .. ReqLen |-> q]
    BY DEF Response, Query
  <2> HIDE DEF C, S, a, q
  <2>6. \E n \in 0 .. ResLen : got[C] = SubSeq([i \in 1 .. ResLen |-> a], 1, n)
    BY <2>1, <2>2, <2>3, <2>4, UniformIsPrefix
  <2>7. \E n \in 0 .. ReqLen : got[S] = SubSeq([i \in 1 .. ReqLen |-> q], 1, n)
    BY <2>1, <2>2, <2>3, <2>4, UniformIsPrefix
  <2> QED
    BY <2>5, <2>6, <2>7 DEF C, S
<1> QED
  BY <1>1, EpollInvariance, PTL

(* Under the same conditions no edge of a socket that a slot waits for is   *)
(* lost: it is still to be reported, or was reported and is not handled yet.*)
THEOREM EdgesAreKept ==
    ASSUME Cardinality(Clients) <= MaxStates
    PROVE  Spec => []NoLostEdge
<1>1. (Unreset => EpollInv) => NoLostEdge
  BY DEF EpollInv, EdgeHolds, NoLostEdge
<1> QED
  BY <1>1, EpollInvariance, PTL

----------------------------------------------------------------------------
(* The slots and the open sockets. *)

(* One client waits at a time, and none while a slot was given its client.  *)
Lonely ==
    /\ \A c, d \in backlog : c = d
    /\ accepting # NoSlot => conn[accepting] = Fresh \/ backlog = {}

(* Every open socket is the one or, while the server is asked, the other of *)
(* some slot.                                                               *)
KeptBy(f, s) ==
    \/ f = conn[s].client
    \/ f = conn[s].server /\ conn[s].state \in {"SEND_REQ", "READ_RES"}
Kept == \A f \in Fds : file[f] \in Sockets => \E s \in Slots : KeptBy(f, s)

KeptInv == EpollInv /\ Lonely /\ Kept

(* When the listening socket has an event, the slot at the index is erased. *)
LEMMA SlotLeft ==
    ASSUME Cardinality(Clients) <= MaxStates, EpollInv, NEW e \in batch, e.sock = Listen
    PROVE  idx \in Slots /\ conn[idx] = Fresh
<1>1. PICK n \in 0 .. MaxStates : TurnIs(n)
  BY DEF EpollInv, Turns
<1>2. Asking >= 1 /\ Asking \in Nat
  BY DEF Asking
<1>3. Cardinality(Begun) \in Nat /\ Cardinality(Begun) <= MaxStates
  <2>1. IsFiniteSet(Clients) /\ Begun \subseteq Clients
    BY EpollAssumption DEF Begun
  <2>2. IsFiniteSet(Begun) /\ Cardinality(Begun) <= Cardinality(Clients)
    BY <2>1, FS_Subset
  <2>3. Cardinality(Begun) \in Nat /\ Cardinality(Clients) \in Nat /\ MaxStates \in Nat
    BY <2>1, <2>2, FS_CardinalityType, EpollAssumption
  <2> QED
    BY <2>2, <2>3
<1>4. n < MaxStates /\ n \in Nat /\ MaxStates \in Nat
  BY <1>1, <1>2, <1>3, EpollAssumption DEF TurnIs
<1>5. idx = n /\ n \in Slots
  BY <1>1, <1>4 DEF TurnIs, Slots
<1> QED
  BY <1>1, <1>4, <1>5 DEF TurnIs

(* What a handler that changes its own slot only has to keep.               *)
LEMMA HandlerKeepsOpen ==
    ASSUME KeptInv, NEW e, NEW state, Dispatch(e, state),
           backlog' = backlog, accepting' = accepting,
           \A t \in Slots \ {e.slot} : conn'[t] = conn[t],
           \A f \in Fds : file'[f] \in Sockets =>
               \/ KeptBy(f, e.slot)'
               \/ file[f] \in Sockets /\ ~ KeptBy(f, e.slot)
    PROVE  Lonely' /\ Kept'
<1>1. accepting = NoSlot /\ e.slot \in Slots
  BY DispatchDoes DEF KeptInv, EpollInv
<1>2. Lonely'
  BY <1>1 DEF KeptInv, Lonely
<1>3. ASSUME NEW f \in Fds, file'[f] \in Sockets PROVE \E s \in Slots : KeptBy(f, s)'
  <2>1. CASE KeptBy(f, e.slot)'
    BY <1>1, <2>1
  <2>2. CASE file[f] \in Sockets /\ ~ KeptBy(f, e.slot)
    <3>1. PICK s \in Slots : KeptBy(f, s)
      BY <2>2 DEF KeptInv, Kept
    <3>2. conn'[s] = conn[s]
      BY <2>2, <3>1
    <3>3. KeptBy(f, s)'
      BY <3>1, <3>2 DEF KeptBy
    <3> QED
      BY <3>3
  <2> QED
    BY <1>3, <2>1, <2>2
<1> QED
  BY <1>2, <1>3 DEF Kept

(* The handlers: a descriptor leaves its slot only when it is closed.       *)
LEMMA HandlersKeepOpen ==
    ASSUME "slow" \notin Faults, KeptInv, NEW e,
           \/ ReadRequest(e) \/ Connect(e) \/ SendRequestSome(e) \/ SendRequestAll(e)
           \/ ReadResponseSome(e) \/ ReadResponseAll(e) \/ SendResponseSome(e) \/ SendResponseAll(e)
    PROVE  Lonely' /\ Kept'
<1> DEFINE s == e.slot
<1>1. EpollTypes /\ EpollInv
  BY DEF KeptInv, EpollInv
<1>2. ASSUME NEW r \in ConnState, conn' = [conn EXCEPT ![s] = r], s \in Slots
      PROVE  conn'[s] = r /\ \A t \in Slots \ {s} : conn'[t] = conn[t]
  BY <1>1, <1>2 DEF EpollTypes
<1>3. ASSUME s \in Slots PROVE conn[s] \in ConnState
  BY <1>1, <1>3 DEF EpollTypes
<1>4. CASE ReadRequest(e)
  <2>1. Dispatch(e, "READ_REQ") /\ UNCHANGED <<file, accepting, backlog>>
    BY <1>1, <1>4, ReadRequestDoes DEF peers
  <2>2. s \in Slots /\ conn[s].state = "READ_REQ"
    BY <1>1, <2>1, DispatchDoes
  <2>3. PICK r \in ConnState :
          /\ conn' = [conn EXCEPT ![s] = r]
          /\ r = [conn[s] EXCEPT !.req = conn[s].req \o inbox[Awaited(s)]]
    BY <1>1, <1>4, ReadRequestDoes
  <2>4. r.client = conn[s].client /\ r.server = conn[s].server /\ r.state = conn[s].state
    BY <1>3, <2>2, <2>3 DEF ConnState
  <2>5. conn'[s] = r /\ \A t \in Slots \ {s} : conn'[t] = conn[t]
    BY <1>2, <2>2, <2>3
  <2>6. \A f \in Fds : KeptBy(f, s) => KeptBy(f, s)'
    BY <2>1, <2>4, <2>5 DEF KeptBy
  <2> QED
    BY <2>1, <2>5, <2>6, HandlerKeepsOpen
<1>5. CASE Connect(e)
  <2>1. /\ Dispatch(e, "READ_REQ") /\ UNCHANGED <<accepting, backlog>> /\ Lowest \in Fds
        /\ file' = [file EXCEPT ![Lowest] = ServerSock(Head(conn[s].req \o inbox[Awaited(s)])[2])]
    BY <1>1, <1>5, ConnectDoes
  <2>2. s \in Slots /\ conn[s].state = "READ_REQ"
    BY <1>1, <2>1, DispatchDoes
  <2>3. PICK r \in ConnState :
          /\ conn' = [conn EXCEPT ![s] = r]
          /\ r = [conn[s] EXCEPT !.req = conn[s].req \o inbox[Awaited(s)], !.server = Lowest, !.state = "SEND_REQ"]
    BY <1>1, <1>5, ConnectDoes
  <2>4. r.client = conn[s].client /\ r.server = Lowest /\ r.state = "SEND_REQ"
    BY <1>3, <2>2, <2>3 DEF ConnState
  <2>5. conn'[s] = r /\ \A t \in Slots \ {s} : conn'[t] = conn[t]
    BY <1>2, <2>2, <2>3
  <2>6. \A f \in Fds : f = Lowest \/ file'[f] = file[f]
    BY <1>1, <2>1 DEF EpollTypes
  <2>7. ASSUME NEW f \in Fds, f = Lowest \/ KeptBy(f, s) PROVE KeptBy(f, s)'
    BY <2>1, <2>2, <2>4, <2>5, <2>7 DEF KeptBy
  <2> QED
    BY <2>1, <2>5, <2>6, <2>7, HandlerKeepsOpen
<1>6. CASE SendRequestSome(e)
  <2>1. Dispatch(e, "SEND_REQ") /\ UNCHANGED <<file, accepting, backlog>>
    BY <1>1, <1>6, SendRequestSomeDoes DEF peers
  <2>2. s \in Slots /\ conn[s].state = "SEND_REQ"
    BY <1>1, <2>1, DispatchDoes
  <2>3. PICK part \in Seq(Pieces), r \in ConnState :
          /\ conn' = [conn EXCEPT ![s] = r]
          /\ r = [conn[s] EXCEPT !.wroteServer = conn[s].wroteServer + Len(part)]
    BY <1>1, <1>6, SendRequestSomeDoes
  <2>4. r.client = conn[s].client /\ r.server = conn[s].server /\ r.state = conn[s].state
    BY <1>3, <2>2, <2>3 DEF ConnState
  <2>5. conn'[s] = r /\ \A t \in Slots \ {s} : conn'[t] = conn[t]
    BY <1>2, <2>2, <2>3
  <2>6. \A f \in Fds : KeptBy(f, s) => KeptBy(f, s)'
    BY <2>1, <2>4, <2>5 DEF KeptBy
  <2> QED
    BY <2>1, <2>5, <2>6, HandlerKeepsOpen
<1>7. CASE SendRequestAll(e)
  <2>1. Dispatch(e, "SEND_REQ") /\ UNCHANGED <<file, accepting, backlog>>
    BY <1>1, <1>7, SendRequestAllDoes DEF peers
  <2>2. s \in Slots /\ conn[s].state = "SEND_REQ"
    BY <1>1, <2>1, DispatchDoes
  <2>3. PICK r \in ConnState :
          /\ conn' = [conn EXCEPT ![s] = r]
          /\ r = [conn[s] EXCEPT !.wroteServer = ReqLen, !.state = "READ_RES"]
    BY <1>1, <1>7, SendRequestAllDoes
  <2>4. r.client = conn[s].client /\ r.server = conn[s].server /\ r.state = "READ_RES"
    BY <1>3, <2>2, <2>3 DEF ConnState
  <2>5. conn'[s] = r /\ \A t \in Slots \ {s} : conn'[t] = conn[t]
    BY <1>2, <2>2, <2>3
  <2>6. \A f \in Fds : KeptBy(f, s) => KeptBy(f, s)'
    BY <2>1, <2>2, <2>4, <2>5 DEF KeptBy
  <2> QED
    BY <2>1, <2>5, <2>6, HandlerKeepsOpen
<1>8. CASE ReadResponseSome(e)
  <2>1. Dispatch(e, "READ_RES") /\ UNCHANGED <<file, accepting, backlog>>
    BY <1>1, <1>8, ReadResponseSomeDoes DEF peers
  <2>2. s \in Slots /\ conn[s].state = "READ_RES"
    BY <1>1, <2>1, DispatchDoes
  <2>3. PICK part \in Seq(Pieces), r \in ConnState :
          /\ conn' = [conn EXCEPT ![s] = r]
          /\ r = [conn[s] EXCEPT !.res = conn[s].res \o part]
    BY <1>1, <1>8, ReadResponseSomeDoes
  <2>4. r.client = conn[s].client /\ r.server = conn[s].server /\ r.state = conn[s].state
    BY <1>3, <2>2, <2>3 DEF ConnState
  <2>5. conn'[s] = r /\ \A t \in Slots \ {s} : conn'[t] = conn[t]
    BY <1>2, <2>2, <2>3
  <2>6. \A f \in Fds : KeptBy(f, s) => KeptBy(f, s)'
    BY <2>1, <2>4, <2>5 DEF KeptBy
  <2> QED
    BY <2>1, <2>5, <2>6, HandlerKeepsOpen
<1>9. CASE ReadResponseAll(e)
  <2>1. /\ Dispatch(e, "READ_RES") /\ UNCHANGED <<accepting, backlog>>
        /\ file' = [file EXCEPT ![conn[s].server] = Unused]
    BY <1>1, <1>9, ReadResponseAllDoes DEF peers
  <2>2. s \in Slots /\ conn[s].state = "READ_RES"
    BY <1>1, <2>1, DispatchDoes
  <2>3. PICK part \in Seq(Pieces), rest \in Seq(Pieces), r \in ConnState :
          /\ conn' = [conn EXCEPT ![s] = r]
          /\ r = [conn[s] EXCEPT !.res = conn[s].res \o part, !.state = "SEND_RES"]
    <3> DEFINE in == Awaited(s)
    <3>1. \E part \in Seq(Pieces), rest \in Seq(Pieces), r \in ConnState :
            /\ Len(part) + Len(rest) = Len(inbox[in])
            /\ \A x : Uniform(inbox[in], x) => Uniform(part, x) /\ Uniform(rest, x)
            /\ conn[s].res \o part \in Seq(Pieces) /\ Len(conn[s].res \o part) <= MaxObject
            /\ inbox' = [inbox EXCEPT ![in] = rest]
            /\ conn' = [conn EXCEPT ![s] = r]
            /\ r = [conn[s] EXCEPT !.res = conn[s].res \o part, !.state = "SEND_RES"]
      BY <1>1, <1>9, ReadResponseAllDoes
    <3> QED
      BY <3>1
  <2>4. r.client = conn[s].client /\ r.server = conn[s].server /\ r.state = "SEND_RES"
    BY <1>3, <2>2, <2>3 DEF ConnState
  <2>5. conn'[s] = r /\ \A t \in Slots \ {s} : conn'[t] = conn[t]
    BY <1>2, <2>2, <2>3
  <2>6. \A f \in Fds : (f = conn[s].server /\ file'[f] = Unused) \/ (f # conn[s].server /\ file'[f] = file[f])
    BY <1>1, <2>1 DEF EpollTypes
  <2>7. \A f \in Fds \ {conn[s].server} : KeptBy(f, s) => KeptBy(f, s)'
    BY <2>1, <2>4, <2>5 DEF KeptBy
  <2> QED
    BY <2>1, <2>5, <2>6, <2>7, SocketKinds, HandlerKeepsOpen
<1>10. CASE SendResponseSome(e) \/ SendResponseAll(e)
  <2>1. /\ Dispatch(e, "SEND_RES") /\ UNCHANGED <<accepting, backlog>>
        /\ conn' = [conn EXCEPT ![s] = Fresh] /\ Awaited(s) \in Sockets
        /\ Awaited(s)[1] = "server" \/ Close({conn[s].client})
    BY <1>1, <1>10, SendResponseDoes DEF peers
  <2>2. s \in Slots /\ conn[s].state = "SEND_RES"
    BY <1>1, <2>1, DispatchDoes
  <2>3. PICK c \in Clients : Serving(s, c)
    BY <1>1, <2>1, HandledSlot
  <2>4. Awaited(s) = ClientSock(c)
    BY <1>1, <2>2, <2>3, AwaitedIs
  <2>5. Close({conn[s].client})
    BY <2>1, <2>4, SocketKinds
  <2>6. conn'[s] = Fresh /\ \A t \in Slots \ {s} : conn'[t] = conn[t]
    BY <1>2, <2>1, <2>2, FreshTypes
  <2>7. \A f \in Fds : file'[f] = IF f = conn[s].client THEN Unused ELSE file[f]
    BY <2>5 DEF Close
  <2>8. \A f \in Fds : file'[f] \in Sockets => file[f] \in Sockets /\ ~ KeptBy(f, s)
    BY <2>2, <2>7, SocketKinds DEF KeptBy
  <2> QED
    BY <2>1, <2>6, <2>8, HandlerKeepsOpen
<1> QED
  BY <1>4, <1>5, <1>6, <1>7, <1>8, <1>9, <1>10

(* Nothing is open at first but the standard input.                         *)
LEMMA KeptInit == Init => KeptInv
<1>1. Init => EpollInv
  BY InvInit
<1>2. Init => Lonely /\ Kept
  BY SocketKinds DEF Init, Lonely, Kept
<1> QED
  BY <1>1, <1>2 DEF KeptInv

(* Who accepts, connects or closes a socket enters or erases it in a slot.  *)
LEMMA KeptKept ==
    ASSUME {"burst", "slow", "reset"} \cap Faults = {}, Cardinality(Clients) <= MaxStates, KeptInv, [Next]_vars
    PROVE  KeptInv'
<1>1. EpollInv /\ EpollTypes /\ Quiet /\ Lonely /\ Kept
  BY DEF KeptInv, EpollInv
<1>2. EpollInv'
  <2>1. Unreset'
    BY <1>1, ResetStays DEF Quiet, Unreset
  <2> QED
    BY <1>1, <2>1, InvKept
<1>3. ASSUME UNCHANGED <<file, conn>> PROVE Kept'
  BY <1>1, <1>3 DEF Kept, KeptBy
<1>4. ASSUME UNCHANGED <<conn, backlog>>, accepting' \in {accepting, NoSlot} PROVE Lonely'
  BY <1>1, <1>4 DEF Lonely
<1>5. ASSUME EpollWait PROVE Lonely' /\ Kept'
  <2>1. UNCHANGED <<file, conn, backlog>> /\ accepting' \in {accepting, NoSlot}
    BY <1>5 DEF EpollWait, peers
  <2> QED
    BY <1>3, <1>4, <2>1
<1>6. ASSUME NEW e, HandleEvent(e) PROVE Lonely' /\ Kept'
  <2>1. CASE NewClient(e)
    <3>1. /\ Takes(e) /\ e.sock = Listen /\ accepting' = idx
          /\ UNCHANGED <<file, conn, backlog>>
      BY <2>1 DEF NewClient, peers
    <3>2. conn'[accepting'] = Fresh
      BY <1>1, <3>1, SlotLeft DEF Takes
    <3> QED
      BY <1>1, <1>3, <3>1, <3>2 DEF Lonely
  <2>2. CASE ReadRequestStuck(e) \/ ConnectFails(e)
    <3>1. UNCHANGED <<file, conn, accepting, backlog>>
      BY <2>2 DEF ReadRequestStuck, ConnectFails, Becomes, peers
    <3> QED
      BY <1>3, <1>4, <3>1
  <2>3. ~ (Skip(e) \/ Cancel(e) \/ SendResponseFails(e) \/ WriteKills(e))
    <3>1. ~ Skip(e)
      BY <1>1 DEF Skip, Takes, Quiet
    <3>2. ASSUME NEW state \in States, Dispatch(e, state), Broken(Awaited(e.slot)) PROVE FALSE
      BY <1>1, <3>2, DispatchDoes, NothingBreaks
    <3> QED
      BY <3>1, <3>2 DEF Cancel, SendResponseFails, WriteKills, States
  <2> QED
    BY <1>6, <2>1, <2>2, <2>3, HandlersKeepOpen DEF HandleEvent
<1>7. ASSUME NEW c \in Clients, AcceptOne(c) PROVE Lonely' /\ Kept'
  <2>1. /\ accepting # NoSlot /\ c \in backlog /\ backlog' = backlog \ {c} /\ accepting' = accepting
        /\ Free # {} /\ file' = [file EXCEPT ![Lowest] = ClientSock(c)]
        /\ conn' = [conn EXCEPT ![accepting].client = Lowest]
    BY <1>7 DEF AcceptOne, ClientSock
  <2>2. backlog' = {} /\ conn[accepting] = Fresh /\ accepting \in Slots
    BY <1>1, <2>1 DEF Lonely, EpollTypes
  <2>3. Lonely'
    BY <2>2 DEF Lonely
  <2>4. /\ conn'[accepting].client = Lowest
        /\ \A t \in Slots \ {accepting} : conn'[t] = conn[t]
    <3>1. conn \in [Slots -> ConnState] /\ conn[accepting] \in ConnState
      BY <1>1, <2>2 DEF EpollTypes
    <3>2. conn'[accepting] = [conn[accepting] EXCEPT !.client = Lowest]
      BY <2>1, <2>2, <3>1
    <3>3. conn'[accepting].client = Lowest
      BY <3>1, <3>2 DEF ConnState
    <3> QED
      BY <2>1, <3>1, <3>3
  <2>5. ASSUME NEW f \in Fds, file'[f] \in Sockets PROVE \E s \in Slots : KeptBy(f, s)'
    <3>1. CASE f = Lowest
      BY <2>2, <2>4, <3>1 DEF KeptBy
    <3>2. CASE f # Lowest
      <4>1. file[f] \in Sockets
        BY <1>1, <2>1, <2>5, <3>2 DEF EpollTypes
      <4>2. PICK s \in Slots : KeptBy(f, s)
        BY <1>1, <4>1 DEF Kept
      <4>3. s # accepting
        BY <1>1, <2>2, <4>1, <4>2, SocketKinds DEF KeptBy, Fresh, Quiet
      <4>4. KeptBy(f, s)'
        BY <2>4, <4>2, <4>3 DEF KeptBy
      <4> QED
        BY <4>4
    <3> QED
      BY <3>1, <3>2
  <2> QED
    BY <2>3, <2>5 DEF Kept
<1>8. ASSUME NEW c \in Clients, AcceptZero(c) PROVE FALSE
  BY <1>1, <1>8, SocketKinds DEF AcceptZero, Free, Quiet
<1>9. ASSUME AcceptNoMore PROVE Lonely' /\ Kept'
  <2>1. UNCHANGED <<file, conn, backlog>> /\ accepting' \in {accepting, NoSlot}
    BY <1>9 DEF AcceptNoMore, peers
  <2> QED
    BY <1>3, <1>4, <2>1
<1>10. ASSUME NEW c \in Clients, Connects(c) PROVE Lonely' /\ Kept'
  <2>1. /\ backlog = {} /\ accepting = NoSlot /\ backlog' = backlog \cup {c}
        /\ UNCHANGED <<file, conn, accepting>>
    BY <1>10 DEF Connects
  <2>2. Lonely'
    BY <2>1 DEF Lonely
  <2> QED
    BY <1>3, <2>1, <2>2
<1>11. ASSUME NEW k \in Sockets, Peer(k) PROVE Lonely' /\ Kept'
  <2>1. UNCHANGED <<file, conn, accepting, backlog>>
    BY <1>11 DEF Peer, Sends, Ends, Drains, Resets, peers
  <2> QED
    BY <1>3, <1>4, <2>1
<1>12. ASSUME UNCHANGED vars PROVE Lonely' /\ Kept'
  <2>1. UNCHANGED <<file, conn, backlog>> /\ accepting' \in {accepting, NoSlot}
    BY <1>12 DEF vars
  <2> QED
    BY <1>3, <1>4, <2>1
<1>13. Lonely' /\ Kept'
  <2>1. CASE Proxy
    BY <1>5, <1>6, <1>7, <1>8, <1>9, <2>1 DEF Proxy
  <2> QED
    BY <1>10, <1>11, <1>12, <2>1 DEF Next
<1> QED
  BY <1>2, <1>13 DEF KeptInv

(* When, besides, clients connect one at a time and take a response as it   *)
(* is written, every open socket is always that of some slot: none is left  *)
(* open that no handler can close any more.                                 *)
THEOREM NoneIsForgotten ==
    ASSUME {"burst", "slow", "reset"} \cap Faults = {}, Cardinality(Clients) <= MaxStates
    PROVE  Spec => []NoneForgotten
<1>1. KeptInv /\ [Next]_vars => KeptInv'
  BY KeptKept
<1>2. KeptInv => NoneForgotten
  BY DEF KeptInv, Kept, KeptBy, NoneForgotten
<1> QED
  BY <1>1, <1>2, KeptInit, PTL DEF Spec
=============================================================================
