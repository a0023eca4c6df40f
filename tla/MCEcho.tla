---- MODULE MCEcho ----
EXTENDS EchoServers

\* Client 1's text has an empty line and one that MAXLINE cuts; client 2's has
\* no newline.  "n" is the newline.
Client12 == {1, 2}
Script12 == [c \in Client12 |-> IF c = 1 THEN <<"n", "x", "y">> ELSE <<"z">>]
Newline(ch) == ch = "n"
====
