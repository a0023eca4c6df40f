------------------------------- MODULE OpenFd -------------------------------
(***************************************************************************)
(* How a socket is opened, everywhere in this repository: walk the list of *)
(* getaddrinfo until an address works, closing what did not.  csapp.c does *)
(* it for clients (open_clientfd) and servers (open_listenfd), and the     *)
(* clients of dns-lab and hw5-sockets have the loop in their own code.     *)
(***************************************************************************)
EXTENDS Integers, Sequences, FiniteSetsExt

CONSTANT
    Lists           \* what getaddrinfo may return: sequences of outcomes, see Init

\* What they differ in: whether a failed close is noticed, whether the socket is
\* made a listening one, and what they do instead of returning -1.
open_clientfd     == [name |-> "open_clientfd", checksClose |-> TRUE, listens |-> FALSE, exits |-> FALSE]
open_listenfd     == [name |-> "open_listenfd", checksClose |-> TRUE, listens |-> TRUE, exits |-> FALSE]
send_recv_message == [name |-> "send_recv_message", checksClose |-> FALSE, listens |-> FALSE, exits |-> TRUE]
dns_client        == [name |-> "dns_client", checksClose |-> FALSE, listens |-> FALSE, exits |-> TRUE]
hw5_client        == [name |-> "hw5_client", checksClose |-> FALSE, listens |-> FALSE, exits |-> TRUE]

Walks == {open_clientfd, open_listenfd, send_recv_message, dns_client, hw5_client}

VARIABLES
    walk,           \* the function
    list,           \* the addresses: "nosocket", "refused" (or in use), "ok"
    at,             \* where it is
    p,              \* the address it is at
    fds,            \* the addresses an open socket belongs to
    held,           \* the list is allocated
    result          \* 0 while running; an address, -1, -2, or -3 for exit

vars == <<walk, list, at, p, fds, held, result>>

TypeOK ==
    /\ at \in {"resolve", "socket", "connect", "close", "free", "listen", "done"}
    /\ p \in Nat /\ fds \subseteq Nat /\ held \in BOOLEAN /\ result \in -3 .. Len(list)

Init ==
    /\ walk \in Walks /\ list \in Lists
    /\ at = "resolve" /\ p = 1 /\ fds = {} /\ held = FALSE /\ result = 0

Returns(r) == at' = "done" /\ result' = IF walk.exits /\ r < 0 THEN -3 ELSE r

getaddrinfo ==
    /\ at = "resolve"
    /\ \/ at' = "socket" /\ held' = TRUE /\ UNCHANGED result
       \/ Returns(-2) /\ UNCHANGED held
    /\ UNCHANGED <<walk, list, p, fds>>

\* socket: its failure goes on to the next address.
Socket ==
    /\ at = "socket" /\ p <= Len(list)
    /\ IF list[p] = "nosocket" THEN p' = p + 1 /\ UNCHANGED <<at, fds>>
       ELSE at' = "connect" /\ fds' = fds \cup {p} /\ UNCHANGED p
    /\ UNCHANGED <<walk, list, held, result>>
NoMore ==
    /\ at = "socket" /\ p > Len(list) /\ at' = "free"
    /\ UNCHANGED <<walk, list, p, fds, held, result>>

\* connect or bind.
Connect ==
    /\ at = "connect"
    /\ at' = IF list[p] = "ok" THEN "free" ELSE "close"
    /\ UNCHANGED <<walk, list, p, fds, held, result>>

\* Mutant: the socket that could not be connected stays open.
Close_Not ==
    /\ at = "close" /\ at' = "socket" /\ p' = p + 1
    /\ UNCHANGED <<walk, list, fds, held, result>>

\* Mutant: after a failed attempt the same address is tried again.
Close_Again ==
    /\ at = "close" /\ at' = "socket" /\ fds' = fds \ {p}
    /\ UNCHANGED <<walk, list, p, held, result>>

\* close: it releases the descriptor even when it reports an error, which two
\* of the functions return with, without freeing the list.
Close ==
    /\ at = "close" /\ fds' = fds \ {p}
    /\ \/ at' = "socket" /\ p' = p + 1 /\ UNCHANGED result
       \/ walk.checksClose /\ Returns(-1) /\ UNCHANGED p
    /\ UNCHANGED <<walk, list, held>>

\* freeaddrinfo and the return; dns-lab and hw5 look first whether they have
\* reached the end, and exit.
FreeList ==
    /\ at = "free"
    /\ held' = (walk.exits /\ p > Len(list))
    /\ IF p > Len(list) THEN Returns(-1)
       ELSE IF walk.listens THEN at' = "listen" /\ UNCHANGED result
       ELSE Returns(p)
    /\ UNCHANGED <<walk, list, p, fds>>

Listen ==
    /\ at = "listen"
    /\ \/ Returns(p) /\ UNCHANGED fds
       \/ Returns(-1) /\ fds' = fds \ {p}
    /\ UNCHANGED <<walk, list, p, held>>

Step == getaddrinfo \/ Socket \/ NoMore \/ Connect \/ Close \/ FreeList \/ Listen
Next == Step
Spec == Init /\ [][Next]_vars
FairSpec == Spec /\ WF_vars(Step)

\* Whatever fails on the way, nothing stays open but the socket returned, and
\* that is the first address of the list that works.  The list is freed, unless
\* the process ends or a close has failed.
WalkRight ==
    at = "done" =>
        /\ fds = IF result > 0 THEN {result} ELSE {}
        /\ result > 0 => /\ list[result] = "ok" /\ ~ held
                         /\ \A q \in 1 .. result - 1 : list[q] # "ok"
        /\ result = -1 /\ (\A q \in DOMAIN list : list[q] # "ok") /\ p > Len(list) => ~ held

\* The walk ends, whichever addresses fail.
Ended == at = "done"
WalkEnds == <>Ended
=============================================================================
