---------------------------- MODULE HttpParser ----------------------------
(***************************************************************************)
(* http_parser.c of hw6-concurrency: main calls parse_request for one      *)
(* request after another with the same strings for the results.  A request *)
(* is [complete, method, host, port, path]: its request line is            *)
(* "method http://host:port/path version", where the port with its colon   *)
(* and the path with its slash may be missing, and complete says whether   *)
(* the blank line is in it.                                                *)
(***************************************************************************)
EXTENDS Integers, Sequences

CONSTANTS
    Inputs,         \* sequences of requests
    Missing,        \* a port or path that is not there
    DefaultPort     \* "80"

VARIABLES input, todo, result, method, hostname, port, uri
strings == <<method, hostname, port, uri>>
vars == <<input, todo, result, strings>>

TypeOK == input \in Inputs /\ result \in {0, 1}

\* The strings are not initialised.
Init ==
    /\ input \in Inputs /\ todo = input /\ result = 0
    /\ method = "?" /\ hostname = "?" /\ port = "?" /\ uri = "?"

is_complete_request(r) == r.complete

Incomplete ==
    /\ todo # << >> /\ ~ is_complete_request(Head(todo))
    /\ todo' = Tail(todo) /\ result' = 0
    /\ UNCHANGED <<input, strings>>

\* Mutant: without a colon the port is left alone.
PortOf_Kept(r) == IF r.port = Missing THEN port ELSE r.port

PortOf(r) == IF r.port = Missing THEN DefaultPort ELSE r.port

\* uri is assigned only if there is a slash.
parse_request ==
    /\ todo # << >> /\ is_complete_request(Head(todo))
    /\ todo' = Tail(todo) /\ result' = 1 /\ UNCHANGED input
    /\ LET r == Head(todo)
       IN  /\ method' = r.method /\ hostname' = r.host /\ port' = PortOf(r)
           /\ uri' = IF r.path = Missing THEN uri ELSE r.path

Next == Incomplete \/ parse_request
Spec == Init /\ [][Next]_vars

----------------------------------------------------------------------------
\* After a request that is complete the strings are this request's, not one's
\* before it: all but the uri of a request without a path.
StringsOwn ==
    result = 1 =>
        LET r == input[Len(input) - Len(todo)]
        IN  /\ method = r.method /\ hostname = r.host
            /\ port = IF r.port = Missing THEN DefaultPort ELSE r.port
            /\ r.path # Missing => uri = r.path
=============================================================================
