-------------------------------- MODULE Rio --------------------------------
(***************************************************************************)
(* The buffered reader of csapp.c (rio_t), which the echo servers and tiny *)
(* read their clients with.  A reader is the unread part of its internal   *)
(* buffer; rio_fd is the connection of the thread that owns it.  Only the  *)
(* refill is a system call: what lies between two refills is local to the  *)
(* thread, so each operator here is one step of it.                        *)
(***************************************************************************)
EXTENDS Integers, SequencesExt

CONSTANTS
    RIO_BUFSIZE,      \* size of the internal buffer
    MAXLINE,          \* size of the caller's line, the terminator included
    IsNewline(_)      \* is this character '\n'?

ASSUME RioAssumption == RIO_BUFSIZE \in Nat \ {0} /\ MAXLINE \in Nat \ {0, 1}

\* rio_readinitb: nothing is unread.
rio_readinitb == << >>

\* read() of what has arrived on a stream, which is not empty.
Arrived(stream) == Len(stream) > 0
ReadNow(stream) == SubSeq(stream, 1, Min({Len(stream), RIO_BUFSIZE}))
LeftBy(stream)  == SubSeq(stream, Min({Len(stream), RIO_BUFSIZE}) + 1, Len(stream))

\* rio_readlineb stops at a newline, or when its n has reached maxlen.
LineEnds(line) ==
    line # << >> /\ (IsNewline(Last(line)) \/ Len(line) = MAXLINE - 1)

(* The calls of rio_read(rp, &c, 1) that rio_readlineb makes until its line *)
(* ends or the internal buffer is empty: how many characters they move.     *)
Moved(unread, line) ==
    LET Cut(k) == line \o SubSeq(unread, 1, k)
        Ends   == {k \in 1 .. Len(unread) : LineEnds(Cut(k))}
    IN  IF Ends = {} THEN Len(unread) ELSE Min(Ends)

LineWith(unread, line)   == line \o SubSeq(unread, 1, Moved(unread, line))
\* Mutant: what follows the line in the internal buffer is dropped.
UnreadAfter_None(unread, line) == << >>

UnreadAfter(unread, line) == SubSeq(unread, Moved(unread, line) + 1, Len(unread))

----------------------------------------------------------------------------
(* What a caller who only ever calls rio_readlineb should get: the lines of *)
(* the whole stream, defined without the internal buffer.                   *)
LineEndsAt(s, from) ==
    {k \in from .. Len(s) : LineEnds(SubSeq(s, from, k))}
FirstLine(s) ==
    IF s = << >> THEN << >>
    ELSE SubSeq(s, 1, IF LineEndsAt(s, 1) = {} THEN Len(s) ELSE Min(LineEndsAt(s, 1)))
=============================================================================
