----------------------------- MODULE EchoProofs -----------------------------
(***************************************************************************)
(* The buffered reader, for any characters, buffer sizes and lines: a      *)
(* refill and a move of characters only shift the border between what is   *)
(* read and what is to be read, and a line that ends is the first line of  *)
(* the stream it was taken from.  The echo servers on top of it, for any   *)
(* number of clients, agents and slots, and any texts: every client's      *)
(* characters stay in order between its hands, the network, the reader's   *)
(* buffer, the line and what is echoed.                                    *)
(***************************************************************************)
EXTENDS EchoServers, Lemmas

----------------------------------------------------------------------------
(* What a read takes of the arrived bytes and what it leaves are a cut of   *)
(* them, and it takes something when something has arrived.                 *)
LEMMA ReadSplits ==
    ASSUME NEW S, NEW stream \in Seq(S)
    PROVE  /\ ReadNow(stream) \in Seq(S) /\ LeftBy(stream) \in Seq(S)
           /\ stream = ReadNow(stream) \o LeftBy(stream)
           /\ Arrived(stream) => ReadNow(stream) # << >>
<1> DEFINE k == Min({Len(stream), RIO_BUFSIZE})
<1>1. Len(stream) \in Nat /\ RIO_BUFSIZE \in Nat \ {0}
  BY LenProperties, RioAssumption
<1>2. k \in {Len(stream), RIO_BUFSIZE} /\ k <= Len(stream)
  BY <1>1, MinOfNats
<1> HIDE DEF k
<1>3. k \in 0 .. Len(stream) /\ (Len(stream) > 0 => k # 0)
  BY <1>1, <1>2
<1>4. /\ SubSeq(stream, 1, k) \in Seq(S) /\ Len(SubSeq(stream, 1, k)) = k
      /\ SubSeq(stream, k + 1, Len(stream)) \in Seq(S)
      /\ stream = SubSeq(stream, 1, k) \o SubSeq(stream, k + 1, Len(stream))
  BY <1>3, CutJoin
<1>5. Len(stream) > 0 => SubSeq(stream, 1, k) # << >>
  BY <1>3, <1>4, EmptySeq
<1> QED
  BY <1>4, <1>5 DEF ReadNow, LeftBy, Arrived, k

(* No part ends in the first n characters of s.                             *)
NoEnd(s, n) == \A k \in 1 .. n : ~ LineEnds(SubSeq(s, 1, k))

(* The calls of rio_read move some of the unread characters, at least one   *)
(* when there are any, all of them unless the line ends; and the line does  *)
(* not end before its last character.                                       *)
LEMMA MoveSplits ==
    ASSUME NEW S, NEW have \in Seq(S), NEW part \in Seq(S)
    PROVE  /\ LineWith(have, part) \in Seq(S) /\ UnreadAfter(have, part) \in Seq(S)
           /\ part \o have = LineWith(have, part) \o UnreadAfter(have, part)
           /\ have # << >> => LineWith(have, part) # << >>
           /\ ~ LineEnds(LineWith(have, part)) => UnreadAfter(have, part) = << >>
           /\ NoEnd(part, Len(part)) =>
                  NoEnd(LineWith(have, part), Len(LineWith(have, part)) - 1)
<1> DEFINE Cut(k) == part \o SubSeq(have, 1, k)
           Ends   == {k \in 1 .. Len(have) : LineEnds(Cut(k))}
           m == Moved(have, part)
           moved == SubSeq(have, 1, m)
           rest == SubSeq(have, m + 1, Len(have))
<1>1. Len(have) \in Nat /\ Len(part) \in Nat
  BY LenProperties
<1>2. m = IF Ends = {} THEN Len(have) ELSE Min(Ends)
  BY DEF Moved
<1>3. /\ m \in 0 .. Len(have) /\ (Len(have) # 0 => m # 0)
      /\ m # Len(have) => LineEnds(Cut(m))
      /\ \A j \in 1 .. m - 1 : ~ LineEnds(Cut(j))
  <2> HIDE DEF m
  <2>1. CASE Ends = {}
    <3>1. m = Len(have)
      BY <1>2, <2>1
    <3>2. \A j \in 1 .. Len(have) : ~ LineEnds(Cut(j))
      BY <2>1
    <3> HIDE DEF Cut, Ends
    <3> QED
      BY <1>1, <3>1, <3>2
  <2>2. CASE Ends # {}
    <3>1. Ends \subseteq 1 .. Len(have) /\ Ends \subseteq Nat
      BY <1>1
    <3>2. m \in Ends /\ \A y \in Ends : m <= y
      BY <1>2, <2>2, <3>1, MinOfNats
    <3>3. \A j \in 1 .. Len(have) : LineEnds(Cut(j)) <=> j \in Ends
      OBVIOUS
    <3> HIDE DEF Cut, Ends
    <3> QED
      BY <1>1, <3>1, <3>2, <3>3
  <2> QED
    BY <2>1, <2>2
<1>4. /\ moved \in Seq(S) /\ Len(moved) = m /\ rest \in Seq(S) /\ Len(rest) = Len(have) - m
      /\ have = moved \o rest
  <2>1. m \in 0 .. Len(have)
    BY <1>3
  <2> HIDE DEF m, Cut, Ends
  <2> QED
    BY <2>1, CutJoin
<1>5. LineWith(have, part) = part \o moved /\ UnreadAfter(have, part) = rest
  BY DEF LineWith, UnreadAfter
<1>6. /\ Cut(m) = part \o moved
      /\ \A j \in 1 .. m - 1 : Cut(j) = part \o SubSeq(moved, 1, j)
  <2>1. \A j \in 1 .. m - 1 : j \in 0 .. Len(moved)
    BY <1>1, <1>3, <1>4
  <2> HIDE DEF moved, rest, m
  <2>2. \A j \in 1 .. m - 1 : SubSeq(have, 1, j) = SubSeq(moved, 1, j)
    <3>1. \A j \in 1 .. m - 1 : SubSeq(moved \o rest, 1, j) = SubSeq(moved, 1, j)
      BY <1>4, <2>1, PrefixOfJoin
    <3> QED
      BY <1>4, <3>1
  <2> QED
    BY <2>2 DEF moved
<1> HIDE DEF moved, rest, m, Cut, Ends
<1>7. part \o moved \in Seq(S) /\ Len(part \o moved) = Len(part) + m
  BY <1>4, ConcatProperties
<1>8. part \o have = (part \o moved) \o rest
  <2>1. moved \in Seq(S) /\ rest \in Seq(S)
    BY <1>4
  <2>2. (part \o moved) \o rest = part \o (moved \o rest)
    BY <2>1, ConcatAssociative
  <2> QED
    BY <1>4, <2>2
<1>9. have # << >> => part \o moved # << >>
  <2>1. have # << >> => Len(part \o moved) # 0
    BY <1>1, <1>3, <1>7, EmptySeq
  <2> QED
    BY <2>1, EmptySeq
<1>10. ~ LineEnds(part \o moved) => rest = << >>
  BY <1>1, <1>3, <1>4, <1>6, EmptySeq
<1>11. NoEnd(part, Len(part)) => \A k \in 1 .. Len(part \o moved) - 1 : ~ LineEnds(SubSeq(part \o moved, 1, k))
  <2> SUFFICES ASSUME NoEnd(part, Len(part)), NEW k \in 1 .. Len(part \o moved) - 1
               PROVE  ~ LineEnds(SubSeq(part \o moved, 1, k))
    OBVIOUS
  <2>1. CASE k \in 1 .. Len(part)
    <3>1. SubSeq(part \o moved, 1, k) = SubSeq(part, 1, k)
      BY <1>1, <1>4, <2>1, PrefixOfJoin
    <3> QED
      BY <2>1, <3>1 DEF NoEnd
  <2>2. CASE k \notin 1 .. Len(part)
    <3> DEFINE j == k - Len(part)
    <3>1. j \in 1 .. m - 1 /\ j \in 0 .. Len(moved) /\ k = Len(part) + j
      BY <1>1, <1>3, <1>4, <1>7, <2>2
    <3> HIDE DEF j
    <3>2. SubSeq(part \o moved, 1, Len(part) + j) = part \o SubSeq(moved, 1, j)
      BY <1>4, <3>1, LongPrefixOfJoin
    <3> QED
      BY <1>3, <1>6, <3>1, <3>2
  <2> QED
    BY <2>1, <2>2
<1> QED
  BY <1>4, <1>5, <1>7, <1>8, <1>9, <1>10, <1>11 DEF NoEnd

(* A line that no earlier line end cuts and that ends, or has all of the    *)
(* stream, is the first line of the stream.                                 *)
LEMMA FirstLineFound ==
    ASSUME NEW S, NEW part \in Seq(S), NEW rest \in Seq(S), part # << >>,
           NoEnd(part, Len(part) - 1), LineEnds(part) \/ rest = << >>
    PROVE  FirstLine(part \o rest) = part
<1> DEFINE s == part \o rest
           n == Len(part)
           At == LineEndsAt(s, 1)
<1>1. s \in Seq(S) /\ Len(s) = n + Len(rest) /\ Len(rest) \in Nat
      /\ n \in Nat \ {0} /\ s # << >>
  BY ConcatProperties, LenProperties, EmptySeq
<1>2. \A k \in 0 .. n : SubSeq(s, 1, k) = SubSeq(part, 1, k)
  BY PrefixOfJoin
<1>3. SubSeq(part, 1, n) = part /\ SubSeq(s, 1, n) = part
  BY <1>1, <1>2, SubSeqFull
<1>4. \A k : k \in At <=> k \in 1 .. Len(s) /\ LineEnds(SubSeq(s, 1, k))
  BY DEF LineEndsAt
<1>5. FirstLine(s) = SubSeq(s, 1, IF At = {} THEN Len(s) ELSE Min(At))
  BY <1>1 DEF FirstLine
<1>6. \A k \in 1 .. n - 1 : ~ LineEnds(SubSeq(part, 1, k))
  BY DEF NoEnd
<1> SUFFICES FirstLine(s) = part
  OBVIOUS
<1> HIDE DEF s, n, At
<1>7. CASE LineEnds(part)
  <2>1. n \in At /\ At \subseteq 1 .. Len(s) /\ At \subseteq Nat
    <3>1. n \in 1 .. Len(s) /\ 1 .. Len(s) \subseteq Nat
      BY <1>1
    <3>2. LineEnds(SubSeq(s, 1, n))
      BY <1>3, <1>7
    <3> QED
      BY <1>4, <3>1, <3>2
  <2>2. Min(At) \in At /\ Min(At) <= n
    BY <2>1, MinOfNats
  <2>3. Min(At) \in 1 .. Len(s) /\ Min(At) \notin 1 .. n - 1
    <3>1. Min(At) \in 1 .. Len(s) /\ LineEnds(SubSeq(s, 1, Min(At)))
      BY <1>4, <2>2
    <3>2. Min(At) \in 0 .. n
      BY <1>1, <2>2, <3>1
    <3>3. LineEnds(SubSeq(part, 1, Min(At)))
      BY <1>2, <3>1, <3>2
    <3> QED
      BY <1>6, <3>1, <3>3
  <2>4. Min(At) = n
    BY <1>1, <2>2, <2>3
  <2> QED
    BY <1>3, <1>5, <2>1, <2>4
<1>8. CASE ~ LineEnds(part)
  <2>1. rest = << >> /\ Len(s) = n
    BY <1>1, <1>8, EmptySeq DEF n
  <2>2. \A k \in 1 .. n : ~ LineEnds(SubSeq(s, 1, k))
    <3> SUFFICES ASSUME NEW k \in 1 .. n PROVE ~ LineEnds(SubSeq(s, 1, k))
      OBVIOUS
    <3>1. CASE k = n
      BY <1>3, <1>8, <3>1
    <3>2. CASE k # n
      <4>1. k \in 1 .. n - 1 /\ k \in 0 .. n
        BY <1>1, <3>2
      <4> QED
        BY <1>2, <1>6, <4>1
    <3> QED
      BY <3>1, <3>2
  <2>3. At = {}
    BY <1>4, <2>1, <2>2
  <2> QED
    BY <1>3, <1>5, <2>1, <2>3
<1> QED
  BY <1>7, <1>8

----------------------------------------------------------------------------
(* The invariant of the servers. *)

\* Where an agent has a connection, where it runs echo, where it holds a line.
CountSteps == {"lock", "load", "store", "unlock"}
EchoSteps  == {"read", "write", "close"} \cup CountSteps
OnceSteps  == {"once", "initialising"}
Labels     == {"idle", "created", "exited"} \cup OnceSteps \cup EchoSteps

Echoes(a) == at[a] \in EchoSteps
Serves(a) == at[a] \in EchoSteps \cup OnceSteps
Has(a)    == at[a] \notin {"idle", "exited"}
Taken(a)  == IF at[a] = "created" THEN cell[a] ELSE conn[a]

EchoTypes ==
    /\ kind \in Kinds /\ alive \in BOOLEAN
    /\ main \in {"accept", "start", "close"} /\ connfd \in Clients \cup {None}
    /\ backlog \in Seq(Clients) /\ queue \in Seq(Clients)
    /\ open \in [Clients -> SUBSET (Agents \cup {Parent})]
    /\ at \in [Agents -> Labels]
    /\ conn \in [Agents -> Clients \cup {None}] /\ cell \in [Agents -> Clients \cup {None}]
    /\ unread \in [Agents -> Seq(Chars)]
    /\ line \in [Agents -> Seq(Chars)] /\ left \in [Agents -> Seq(Chars)]
    /\ once \in {"new", "running", "done"} /\ mutex \in Nat
    /\ byte_cnt \in Nat /\ loaded \in [Agents -> Nat]
    /\ pending \in BOOLEAN /\ handling \in BOOLEAN /\ zombies \subseteq Agents
    /\ toSend \in [Clients -> Seq(Chars)] /\ arriving \in [Clients -> Seq(Chars)]
    /\ finished \in [Clients -> BOOLEAN] /\ gone \in [Clients -> BOOLEAN]
    /\ got \in [Clients -> Seq(Chars)]

(* What main and an agent hold where they are.                              *)
MainHolds ==
    /\ main \in {"start", "close"} => connfd \in Clients
    /\ main = "close" => kind = "process"
    /\ kind # "prethreaded" => queue = << >>
    /\ kind = "iterative" /\ main = "start" => at[1] = "idle"

AgentHolds(a) ==
    /\ at[a] = "created" => kind = "thread" /\ cell[a] \in Clients
    /\ Serves(a) => conn[a] \in Clients
    /\ at[a] \in OnceSteps \cup CountSteps => kind = "prethreaded"
    /\ ~ HasLine(a) => left[a] = << >>
    /\ at[a] \in CountSteps => left[a] = line[a]
    /\ ~ HasLine(a) /\ at[a] # "read" => line[a] = << >>

Holds == MainHolds /\ \A a \in Agents : AgentHolds(a)

(* The mutex of echo_cnt.c: it is set once, and one thread at most is       *)
(* between P and V.                                                         *)
Counting(a) == at[a] \in {"load", "store", "unlock"}
OnceAndMutex ==
    /\ once # "done" => \A a \in Agents : at[a] \notin EchoSteps \/ kind # "prethreaded"
    /\ \A a \in Agents : at[a] = "initialising" => once = "running"
    /\ \A a, b \in Agents : at[a] = "initialising" /\ at[b] = "initialising" => a = b
    /\ once # "done" => mutex = 0
    /\ mutex <= 1
    /\ \A a \in Agents : Counting(a) => mutex = 0
    /\ \A a, b \in Agents : Counting(a) /\ Counting(b) => a = b

(* Every connection is in one place.                                        *)
Waiting == ToSet(backlog) \cup ToSet(queue) \cup (IF main = "start" THEN {connfd} ELSE {})
Distinct(s) == \A i, j \in DOMAIN s : s[i] = s[j] => i = j
OnePlace ==
    /\ Distinct(backlog) /\ Distinct(queue)
    /\ ToSet(backlog) \cap ToSet(queue) = {}
    /\ main = "start" => connfd \notin ToSet(backlog) \cup ToSet(queue)
    /\ \A a \in Agents : Has(a) => Taken(a) \notin Waiting
    /\ \A a, b \in Agents : Has(a) /\ Has(b) /\ Taken(a) = Taken(b) => a = b

(* Whoever has a connection keeps it open.                                  *)
Holder(a) == IF kind = "process" THEN a ELSE Parent
HeldOpen ==
    alive =>
      /\ \A c \in ToSet(queue) : Parent \in open[c]
      /\ main \in {"start", "close"} => Parent \in open[connfd]
      /\ \A a \in Agents : Has(a) => Holder(a) \in open[Taken(a)]

(* The stream of a connection: nothing is read before it is served, and     *)
(* then what is echoed, in the line, in the buffer, on its way and not sent *)
(* is the client's text.                                                    *)
Coming(c) == arriving[c] \o toSend[c]
InHand(a) == IF at[a] = "read" THEN line[a] ELSE left[a]
Untouched(c) == got[c] = << >> /\ Coming(c) = Script[c]
Streams ==
    /\ \A c \in Clients :
           alive /\ ~ finished[c] /\ ~ gone[c] /\ (\A a \in Agents : Echoes(a) => conn[a] # c)
               => Untouched(c)
    /\ \A c \in Waiting : Untouched(c)
    /\ \A a \in Agents : at[a] = "created" => Untouched(cell[a])
    /\ \A a \in Agents : at[a] \in OnceSteps => Untouched(conn[a])
    /\ \A a \in Agents : Echoes(a) =>
           Script[conn[a]] = got[conn[a]] \o (InHand(a) \o (unread[a] \o Coming(conn[a])))
    /\ \A a \in Agents : at[a] = "close" => finished[conn[a]] \/ gone[conn[a]]
    /\ \A c \in Clients : finished[c] => toSend[c] = << >>

(* A line is cut where the unbuffered definition cuts it, and what is       *)
(* written of it is the end of what the client has got.                     *)
AtEnd(a) == unread[a] = << >> /\ Coming(conn[a]) = << >>
LineOf(a) ==
    /\ at[a] = "read" => NoEnd(line[a], Len(line[a]))
    /\ HasLine(a) =>
         /\ line[a] # << >>
         /\ NoEnd(line[a], Len(line[a]) - 1)
         /\ LineEnds(line[a]) \/ gone[conn[a]] \/ AtEnd(a)
         /\ \E before, written \in Seq(Chars) :
                got[conn[a]] = before \o written /\ line[a] = written \o left[a]
Lines == \A a \in Agents : LineOf(a)

(* What a client has got, served or not, is the beginning of its text.      *)
Begun == \A c \in Clients : \E rest \in Seq(Chars) : Script[c] = got[c] \o rest

----------------------------------------------------------------------------
(* What the operations do to their types. *)

(* What Rio's operators return are sequences of the same characters.        *)
LEMMA RioTypes ==
    ASSUME NEW s \in Seq(Chars), NEW t \in Seq(Chars)
    PROVE  /\ LineWith(s, t) \in Seq(Chars) /\ UnreadAfter(s, t) \in Seq(Chars)
           /\ ReadNow(s) \in Seq(Chars) /\ LeftBy(s) \in Seq(Chars)
BY ReadSplits, MoveSplits

(* A write takes some characters of what is left, and leaves the others.    *)
LEMMA WriteSplits ==
    ASSUME EchoTypes, NEW a \in Agents, conn[a] \in Clients, rio_writen(a)
    PROVE  \E new, rest \in Seq(Chars) :
               /\ left[a] = new \o rest /\ new # << >>
               /\ got' = [got EXCEPT ![conn[a]] = @ \o new]
               /\ left' = [left EXCEPT ![a] = rest]
<1>1. PICK k \in 1 .. Len(left[a]) :
          /\ got' = [got EXCEPT ![conn[a]] = @ \o SubSeq(left[a], 1, k)]
          /\ left' = [left EXCEPT ![a] = SubSeq(@, k + 1, Len(@))]
  BY DEF rio_writen
<1> DEFINE new == SubSeq(left[a], 1, k)
           rest == SubSeq(left[a], k + 1, Len(left[a]))
<1>2. left[a] \in Seq(Chars) /\ k \in 0 .. Len(left[a]) /\ k # 0
  BY LenProperties DEF EchoTypes
<1>3. new \in Seq(Chars) /\ Len(new) = k /\ rest \in Seq(Chars) /\ left[a] = new \o rest
  BY <1>2, CutJoin
<1>4. new # << >>
  BY <1>2, <1>3, EmptySeq
<1>5. got' = [got EXCEPT ![conn[a]] = @ \o new] /\ left' = [left EXCEPT ![a] = rest]
  BY <1>1, <1>2 DEF EchoTypes
<1> QED
  BY <1>3, <1>4, <1>5

(* What an agent has is unchanged.                                          *)
Stays(b) ==
    /\ at'[b] = at[b] /\ conn'[b] = conn[b] /\ cell'[b] = cell[b]
    /\ unread'[b] = unread[b] /\ line'[b] = line[b] /\ left'[b] = left[b]

(* A read moves characters into the line of its agent, and ends it or not.  *)
LEMMA ReadsDoes ==
    ASSUME EchoTypes, NEW a \in Agents, NEW stream, Reads(a, stream)
    PROVE  /\ line'[a] = LineWith(stream, line[a]) /\ unread'[a] = UnreadAfter(stream, line[a])
           /\ conn'[a] = conn[a] /\ cell'[a] = cell[a]
           /\ \/ LineEnds(line'[a]) /\ at'[a] = LineRead /\ left'[a] = line'[a]
              \/ ~ LineEnds(line'[a]) /\ at'[a] = at[a] /\ left'[a] = left[a]
           /\ \A b \in Agents \ {a} : Stays(b)
<1> DEFINE text == LineWith(stream, line[a])
           after == UnreadAfter(stream, line[a])
<1>1. /\ line' = [line EXCEPT ![a] = text] /\ unread' = [unread EXCEPT ![a] = after]
      /\ conn' = conn /\ cell' = cell
      /\ \/ LineEnds(text) /\ at' = [at EXCEPT ![a] = LineRead] /\ left' = [left EXCEPT ![a] = text]
         \/ ~ LineEnds(text) /\ at' = at /\ left' = left
  BY DEF Reads
<1> HIDE DEF text, after
<1>2. line'[a] = text /\ unread'[a] = after
  BY <1>1 DEF EchoTypes
<1>3. /\ \/ LineEnds(text) /\ at'[a] = LineRead /\ left'[a] = text
         \/ ~ LineEnds(text) /\ at'[a] = at[a] /\ left'[a] = left[a]
      /\ \A b \in Agents \ {a} : at'[b] = at[b] /\ left'[b] = left[b]
  BY <1>1 DEF EchoTypes
<1>4. \A b \in Agents \ {a} : line'[b] = line[b] /\ unread'[b] = unread[b]
  BY <1>1 DEF EchoTypes
<1> QED
  BY <1>1, <1>2, <1>3, <1>4 DEF Stays, text, after

(* A write gives its client some of what is left, and the next line begins  *)
(* when nothing is.                                                         *)
LEMMA WriteDoes ==
    ASSUME EchoTypes, Holds, NEW a \in Agents, Write(a)
    PROVE  \E new, rest \in Seq(Chars) :
               /\ left[a] = new \o rest /\ new # << >> /\ left'[a] = rest
               /\ got' = [got EXCEPT ![conn[a]] = @ \o new]
               /\ \/ rest = << >> /\ at'[a] = "read" /\ line'[a] = << >>
                  \/ rest # << >> /\ at'[a] = "write" /\ line'[a] = line[a]
               /\ \A b \in Agents \ {a} : Stays(b)
<1>1. conn[a] \in Clients /\ at[a] = "write"
  BY DEF Write, Holds, AgentHolds, Serves, EchoSteps
<1>2. PICK new \in Seq(Chars), rest \in Seq(Chars) :
          /\ left[a] = new \o rest /\ new # << >>
          /\ got' = [got EXCEPT ![conn[a]] = @ \o new] /\ left' = [left EXCEPT ![a] = rest]
  BY <1>1, WriteSplits DEF Write
<1>3. left'[a] = rest /\ \A b \in Agents \ {a} : left'[b] = left[b]
  BY <1>2 DEF EchoTypes
<1>4. (rest = << >>) = (left'[a] = << >>)
  BY <1>3
<1>5. /\ \/ rest = << >> /\ at'[a] = "read" /\ line'[a] = << >>
         \/ rest # << >> /\ at'[a] = "write" /\ line'[a] = line[a]
      /\ \A b \in Agents \ {a} : at'[b] = at[b] /\ line'[b] = line[b]
  BY <1>1, <1>4 DEF EchoTypes, Write
<1>6. conn' = conn /\ cell' = cell /\ unread' = unread
  BY DEF Write
<1> QED
  BY <1>2, <1>3, <1>5, <1>6 DEF Stays

(* After its close or a failed call an agent has nothing.                   *)
LEMMA LeavesDoes ==
    ASSUME EchoTypes, NEW a \in Agents, Leaves(a)
    PROVE  /\ at'[a] \in {"idle", "exited"} /\ line'[a] = << >> /\ left'[a] = << >>
           /\ conn' = [conn EXCEPT ![a] = None] /\ cell' = cell /\ unread' = unread
           /\ \A b \in Agents \ {a} : Stays(b)
BY DEF Leaves, EchoTypes, Stays

(* Every operation keeps the types.                                         *)
LEMMA TypesKept ==
    ASSUME EchoTypes, Holds, [Next]_vars
    PROVE  EchoTypes'
<1> USE EchoAssumption DEF vars, mainVars, echoVars, countVars, childVars, clientVars, EchoTypes,
        Labels, OnceSteps, EchoSteps, CountSteps, Agents, Parent
<1>1. CASE Accept
  BY <1>1, HeadTailProperties DEF Accept, MainRuns
<1>2. CASE StartIterative
  BY <1>2, EmptySeq DEF StartIterative, MainRuns, Begins, rio_readinitb
<1>3. CASE ParentCloses
  BY <1>3 DEF ParentCloses, MainRuns
<1>4. CASE InsertConnfd
  BY <1>4, AppendProperties DEF InsertConnfd, MainRuns, Sbuf!Put, Holds, MainHolds
<1>5. ASSUME NEW a \in Agents, StartProcess(a) PROVE EchoTypes'
  BY <1>5, EmptySeq DEF StartProcess, MainRuns, Begins, rio_readinitb
<1>6. ASSUME NEW a \in Agents, StartThread(a) PROVE EchoTypes'
  BY <1>6 DEF StartThread, MainRuns
<1>7. ASSUME NEW a \in Agents, ThreadStarts(a) PROVE EchoTypes'
  BY <1>7, EmptySeq DEF ThreadStarts, rio_readinitb
<1>8. ASSUME NEW a \in Agents, RemoveConnfd(a) PROVE EchoTypes'
  BY <1>8, HeadTailProperties DEF RemoveConnfd, Sbuf!Take
<1>9. ASSUME NEW a \in Agents, OnceBegins(a) \/ init_echo_cnt(a) \/ OnceDone(a) PROVE EchoTypes'
  <2>1. CASE OnceBegins(a)
    BY <2>1 DEF OnceBegins
  <2>2. CASE init_echo_cnt(a)
    BY <2>2 DEF init_echo_cnt
  <2>3. CASE OnceDone(a)
    BY <2>3, EmptySeq DEF OnceDone, rio_readinitb
  <2> QED
    BY <1>9, <2>1, <2>2, <2>3
<1>10. ASSUME NEW a \in Agents, TakeBuffered(a) PROVE EchoTypes'
  <2>1. /\ LineWith(unread[a], line[a]) \in Seq(Chars)
        /\ UnreadAfter(unread[a], line[a]) \in Seq(Chars)
    BY RioTypes
  <2>2. line' \in [Agents -> Seq(Chars)] /\ unread' \in [Agents -> Seq(Chars)]
    BY <1>10, <2>1 DEF TakeBuffered, Reads
  <2>3. at' \in [Agents -> Labels]
    <3>1. at' = at \/ at' = [at EXCEPT ![a] = LineRead]
      BY <1>10 DEF TakeBuffered, Reads
    <3>2. LineRead \in Labels
      BY DEF LineRead
    <3>3. at \in [Agents -> Labels]
      OBVIOUS
    <3> HIDE DEF EchoTypes, Labels
    <3> QED
      BY <3>1, <3>2, <3>3
  <2>4. left' \in [Agents -> Seq(Chars)]
    BY <1>10, <2>1 DEF TakeBuffered, Reads
  <2> QED
    BY <1>10, <2>2, <2>3, <2>4 DEF TakeBuffered, Reads
<1>11. ASSUME NEW a \in Agents, Refill(a) PROVE EchoTypes'
  <2> DEFINE c == conn[a]
             now == ReadNow(arriving[c])
  <2>1. c \in Clients /\ arriving[c] \in Seq(Chars)
    BY <1>11 DEF Refill, Holds, AgentHolds, Serves
  <2> HIDE DEF c
  <2>2. now \in Seq(Chars) /\ LeftBy(arriving[c]) \in Seq(Chars)
    BY <2>1, RioTypes
  <2>3. LineWith(now, line[a]) \in Seq(Chars) /\ UnreadAfter(now, line[a]) \in Seq(Chars)
    BY <2>2, RioTypes
  <2>4. line' \in [Agents -> Seq(Chars)] /\ unread' \in [Agents -> Seq(Chars)]
    BY <1>11, <2>3 DEF Refill, Reads, c
  <2>5. at' \in [Agents -> Labels]
    <3>1. at' = at \/ at' = [at EXCEPT ![a] = LineRead]
      BY <1>11 DEF Refill, Reads
    <3>2. LineRead \in Labels
      BY DEF LineRead
    <3>3. at \in [Agents -> Labels]
      OBVIOUS
    <3> HIDE DEF EchoTypes, Labels
    <3> QED
      BY <3>1, <3>2, <3>3
  <2>6. left' \in [Agents -> Seq(Chars)]
    BY <1>11, <2>3 DEF Refill, Reads, c
  <2>7. arriving' \in [Clients -> Seq(Chars)]
    BY <1>11, <2>1, <2>2 DEF Refill, c
  <2> QED
    BY <1>11, <2>4, <2>5, <2>6, <2>7 DEF Refill, Reads
<1>12. ASSUME NEW a \in Agents, EndOfFile(a) PROVE EchoTypes'
  BY <1>12 DEF EndOfFile, LineRead
<1>13. ASSUME NEW a \in Agents, Lock(a) \/ Load(a) \/ Unlock(a) PROVE EchoTypes'
  <2>0. mutex \in Nat => mutex + 1 \in Nat /\ (mutex > 0 => mutex - 1 \in Nat)
    OBVIOUS
  <2>1. CASE Lock(a)
    <3>1. mutex' \in Nat
      BY <2>0, <2>1 DEF Lock
    <3> QED
      BY <2>1, <3>1 DEF Lock
  <2>2. CASE Load(a)
    BY <2>2 DEF Load
  <2>3. CASE Unlock(a)
    <3>1. mutex' \in Nat
      BY <2>0, <2>3 DEF Unlock
    <3> QED
      BY <2>3, <3>1 DEF Unlock
  <2> QED
    BY <1>13, <2>1, <2>2, <2>3
<1>14. ASSUME NEW a \in Agents, Store(a) PROVE EchoTypes'
  <2>1. loaded[a] \in Nat /\ Len(line[a]) \in Nat
    BY LenProperties
  <2>2. loaded[a] + Len(line[a]) \in Nat
    <3> HIDE DEF EchoTypes
    <3> QED
      BY <2>1
  <2> QED
    BY <1>14, <2>2 DEF Store
<1>15. ASSUME NEW a \in Agents, Write(a) PROVE EchoTypes'
  <2>1. conn[a] \in Clients
    BY <1>15 DEF Write, Holds, AgentHolds, Serves
  <2>2. PICK new \in Seq(Chars), rest \in Seq(Chars) :
            got' = [got EXCEPT ![conn[a]] = @ \o new] /\ left' = [left EXCEPT ![a] = rest]
    BY <1>15, <2>1, WriteSplits DEF Write
  <2>3. got[conn[a]] \o new \in Seq(Chars)
    BY <2>1, ConcatProperties
  <2>4. got' \in [Clients -> Seq(Chars)] /\ left' \in [Agents -> Seq(Chars)]
    BY <2>1, <2>2, <2>3
  <2>5. \/ at' = at /\ line' = line
        \/ at' = [at EXCEPT ![a] = "read"] /\ line' = [line EXCEPT ![a] = << >>]
    BY <1>15 DEF Write
  <2>6. at' \in [Agents -> Labels]
    BY <2>5
  <2>7. line' \in [Agents -> Seq(Chars)]
    <3>1. << >> \in Seq(Chars) /\ line \in [Agents -> Seq(Chars)]
      BY EmptySeq
    <3> HIDE DEF EchoTypes
    <3> QED
      BY <2>5, <3>1
  <2> QED
    BY <1>15, <2>4, <2>6, <2>7 DEF Write
<1>16. ASSUME NEW a \in Agents, Close(a) PROVE EchoTypes'
  <2>1. /\ at' \in [Agents -> Labels] /\ conn' \in [Agents -> Clients \cup {None}]
        /\ line' \in [Agents -> Seq(Chars)] /\ left' \in [Agents -> Seq(Chars)]
        /\ UNCHANGED <<cell, unread>>
    BY <1>16, EmptySeq DEF Close, Leaves
  <2>2. open' \in [Clients -> SUBSET (Agents \cup {Parent})]
    <3>1. \/ open' = [c \in Clients |-> open[c] \ {a}]
          \/ open' = [open EXCEPT ![conn[a]] = {}]
      BY <1>16 DEF Close, ChildExits
    <3>2. open \in [Clients -> SUBSET (Agents \cup {Parent})]
      OBVIOUS
    <3> HIDE DEF EchoTypes, Agents, Parent
    <3> QED
      BY <3>1, <3>2
  <2>3. zombies' \subseteq Agents /\ pending' \in BOOLEAN /\ UNCHANGED <<alive, handling>>
    BY <1>16 DEF Close, ChildExits
  <2> QED
    BY <1>16, <2>1, <2>2, <2>3 DEF Close
<1>17. ASSUME NEW a \in Agents, IoFails(a) PROVE EchoTypes'
  <2>1. /\ at' \in [Agents -> Labels] /\ conn' \in [Agents -> Clients \cup {None}]
        /\ line' \in [Agents -> Seq(Chars)] /\ left' \in [Agents -> Seq(Chars)]
        /\ UNCHANGED <<cell, unread>>
    BY <1>17, EmptySeq DEF IoFails, Leaves
  <2>2. open' \in [Clients -> SUBSET (Agents \cup {Parent})]
    <3>1. \/ open' = [c \in Clients |-> open[c] \ {a}]
          \/ open' = [c \in Clients |-> {}]
      BY <1>17 DEF IoFails, ChildExits
    <3>2. open \in [Clients -> SUBSET (Agents \cup {Parent})]
      OBVIOUS
    <3> HIDE DEF EchoTypes, Agents, Parent
    <3> QED
      BY <3>1, <3>2
  <2>3. zombies' \subseteq Agents /\ pending' \in BOOLEAN /\ alive' \in BOOLEAN /\ UNCHANGED handling
    BY <1>17 DEF IoFails, ChildExits
  <2> QED
    BY <1>17, <2>1, <2>2, <2>3 DEF IoFails
<1>18. ASSUME NEW c \in Clients, Connect(c) PROVE EchoTypes'
  BY <1>18, AppendProperties DEF Connect
<1>19. ASSUME NEW c \in Clients, ClientSends(c) PROVE EchoTypes'
  BY <1>19, AppendProperties, HeadTailProperties DEF ClientSends
<1>20. ASSUME NEW c \in Clients, ClientFinishes(c) \/ ClientGone(c) PROVE EchoTypes'
  BY <1>20 DEF ClientFinishes, ClientGone
<1>21. CASE Deliver \/ sigchld_handler
  BY <1>21 DEF Deliver, sigchld_handler
<1>22. CASE UNCHANGED vars
  BY <1>22
<1> QED
  BY <1>1, <1>2, <1>3, <1>4, <1>5, <1>6, <1>7, <1>8, <1>9, <1>10, <1>11, <1>12, <1>13, <1>14, <1>15,
     <1>16, <1>17, <1>18, <1>19, <1>20, <1>21, <1>22 DEF Next, Main, Agent, Client

----------------------------------------------------------------------------
(* What main and the agents hold. *)

(* Every operation leaves main and the agents with what their places need.  *)
LEMMA HoldsKept ==
    ASSUME EchoTypes, Holds, [Next]_vars
    PROVE  Holds'
<1> USE EchoAssumption DEF vars, mainVars, echoVars, countVars, childVars, clientVars,
        OnceSteps, EchoSteps, CountSteps, Agents, Holds, MainHolds, AgentHolds, Serves, HasLine
<1>0. \A b \in Agents : kind' = kind /\ Stays(b) => AgentHolds(b)'
  BY DEF Stays
<1>1. CASE Accept
  BY <1>1, HeadTailProperties DEF Accept, MainRuns, EchoTypes
<1>2. CASE StartIterative
  BY <1>2 DEF StartIterative, MainRuns, Begins, EchoTypes
<1>3. CASE ParentCloses
  BY <1>3 DEF ParentCloses, MainRuns
<1>4. CASE InsertConnfd
  BY <1>4 DEF InsertConnfd, MainRuns, Sbuf!Put
<1>5. ASSUME NEW a \in Agents, StartProcess(a) PROVE Holds'
  BY <1>5 DEF StartProcess, MainRuns, Begins, NewAgent, EchoTypes
<1>6. ASSUME NEW a \in Agents, StartThread(a) PROVE Holds'
  BY <1>6 DEF StartThread, MainRuns, NewAgent, EchoTypes
<1>7. ASSUME NEW a \in Agents, ThreadStarts(a) PROVE Holds'
  BY <1>7 DEF ThreadStarts, EchoTypes
<1>8. ASSUME NEW a \in Agents, RemoveConnfd(a) PROVE Holds'
  <2>1. Head(queue) \in Clients
    BY <1>8, HeadTailProperties DEF RemoveConnfd, Sbuf!Take, EchoTypes
  <2> QED
    BY <1>8, <2>1 DEF RemoveConnfd, Sbuf!Take, EchoTypes
<1>9. ASSUME NEW a \in Agents, OnceBegins(a) \/ init_echo_cnt(a) \/ OnceDone(a) PROVE Holds'
  <2>1. CASE OnceBegins(a)
    BY <2>1 DEF OnceBegins, EchoTypes
  <2>2. CASE init_echo_cnt(a)
    BY <2>2 DEF init_echo_cnt, EchoTypes
  <2>3. CASE OnceDone(a)
    BY <2>3 DEF OnceDone, EchoTypes
  <2> QED
    BY <1>9, <2>1, <2>2, <2>3
<1>10. ASSUME NEW a \in Agents, TakeBuffered(a) \/ Refill(a) PROVE Holds'
  <2>1. PICK stream : Reads(a, stream)
    BY <1>10 DEF TakeBuffered, Refill
  <2>2. /\ at[a] = "read" /\ kind' = kind /\ main' = main /\ connfd' = connfd /\ queue' = queue
    BY <1>10 DEF TakeBuffered, Refill
  <2>3. /\ \/ at'[a] = LineRead /\ left'[a] = line'[a]
           \/ at'[a] = at[a] /\ left'[a] = left[a]
        /\ conn'[a] = conn[a]
        /\ \A b \in Agents \ {a} : Stays(b)
    BY <2>1, ReadsDoes
  <2>4. AgentHolds(a)'
    BY <2>2, <2>3 DEF LineRead, Counts
  <2>5. MainHolds'
    BY <2>2, <2>3 DEF LineRead, Counts, Stays
  <2> QED
    BY <1>0, <2>2, <2>3, <2>4, <2>5
<1>12. ASSUME NEW a \in Agents, EndOfFile(a) PROVE Holds'
  <2>1. /\ at[a] = "read" /\ kind' = kind /\ main' = main /\ connfd' = connfd /\ queue' = queue
        /\ at' = [at EXCEPT ![a] = IF line[a] = << >> THEN "close" ELSE LineRead]
        /\ left' = [left EXCEPT ![a] = line[a]] /\ conn' = conn /\ cell' = cell
        /\ unread' = unread /\ line' = line
    BY <1>12 DEF EndOfFile
  <2>2. /\ at'[a] = (IF line[a] = << >> THEN "close" ELSE LineRead) /\ left'[a] = line[a]
        /\ \A b \in Agents \ {a} : Stays(b)
    BY <2>1 DEF EchoTypes, Stays
  <2>3. AgentHolds(a)'
    BY <2>1, <2>2 DEF LineRead, Counts
  <2>4. MainHolds'
    BY <2>1, <2>2 DEF LineRead, Counts, Stays
  <2> QED
    BY <1>0, <2>1, <2>2, <2>3, <2>4
<1>13. ASSUME NEW a \in Agents, Lock(a) \/ Load(a) \/ Store(a) \/ Unlock(a) PROVE Holds'
  <2>1. /\ at[a] \in CountSteps /\ \E next \in CountSteps \cup {"write"} : at' = [at EXCEPT ![a] = next]
        /\ kind' = kind /\ main' = main /\ connfd' = connfd /\ queue' = queue
        /\ conn' = conn /\ cell' = cell /\ unread' = unread /\ line' = line /\ left' = left
    BY <1>13 DEF Lock, Load, Store, Unlock
  <2>2. at'[a] \in CountSteps \cup {"write"} /\ \A b \in Agents \ {a} : Stays(b)
    BY <2>1 DEF EchoTypes, Stays
  <2>3. AgentHolds(a)'
    BY <2>1, <2>2
  <2>4. MainHolds'
    BY <2>1, <2>2 DEF Stays
  <2> QED
    BY <1>0, <2>1, <2>2, <2>3, <2>4
<1>15. ASSUME NEW a \in Agents, Write(a) PROVE Holds'
  <2>1. /\ \/ left'[a] = << >> /\ at'[a] = "read" /\ line'[a] = << >>
           \/ at'[a] = "write" /\ line'[a] = line[a]
        /\ \A b \in Agents \ {a} : Stays(b)
    BY <1>15, WriteDoes
  <2>2. /\ at[a] = "write" /\ kind' = kind /\ main' = main /\ connfd' = connfd /\ queue' = queue
        /\ conn' = conn
    BY <1>15 DEF Write
  <2>3. AgentHolds(a)'
    BY <2>1, <2>2
  <2>4. MainHolds'
    BY <2>1, <2>2 DEF Stays
  <2> QED
    BY <1>0, <2>1, <2>2, <2>3, <2>4
<1>16. ASSUME NEW a \in Agents, Close(a) \/ IoFails(a) PROVE Holds'
  <2>1. /\ at'[a] \in {"idle", "exited"} /\ line'[a] = << >> /\ left'[a] = << >>
        /\ \A b \in Agents \ {a} : Stays(b)
    BY <1>16, LeavesDoes DEF Close, IoFails
  <2>2. kind' = kind /\ main' = main /\ connfd' = connfd /\ queue' = queue /\ at[a] # "idle"
    BY <1>16 DEF Close, IoFails
  <2>3. AgentHolds(a)'
    BY <2>1, <2>2
  <2>4. MainHolds'
    <3>1. kind = "iterative" => at'[a] = "idle"
      BY <1>16 DEF Close, IoFails, Leaves, EchoTypes
    <3> QED
      BY <2>1, <2>2, <3>1 DEF Stays
  <2> QED
    BY <1>0, <2>1, <2>2, <2>3, <2>4
<1>17. ASSUME NEW c \in Clients, Connect(c) \/ Client(c) \/ ClientGone(c) PROVE Holds'
  BY <1>17 DEF Connect, Client, ClientSends, ClientFinishes, ClientGone
<1>18. CASE Deliver \/ sigchld_handler \/ UNCHANGED vars
  BY <1>18 DEF Deliver, sigchld_handler
<1> QED
  BY <1>1, <1>2, <1>3, <1>4, <1>5, <1>6, <1>7, <1>8, <1>9, <1>10, <1>12, <1>13, <1>15,
     <1>16, <1>17, <1>18 DEF Next, Main, Agent

----------------------------------------------------------------------------
(* The mutex is set once, by the thread that runs init_echo_cnt while the   *)
(* others wait, and then P and V let one thread in at a time.               *)
LEMMA OnceAndMutexKept ==
    ASSUME EchoTypes, Holds, OnceAndMutex, [Next]_vars
    PROVE  OnceAndMutex'
<1> USE EchoAssumption DEF OnceAndMutex, Counting
<1>0. mutex \in Nat /\ at \in [Agents -> Labels]
  BY DEF EchoTypes
<1>1. ASSUME kind' = kind, once' = once, mutex' = mutex, NEW a \in Agents, NEW next,
             at' = [at EXCEPT ![a] = next],
             next \notin {"initialising", "load", "store", "unlock"},
             next \in EchoSteps => at[a] \in EchoSteps \/ kind # "prethreaded" \/ once = "done"
      PROVE  OnceAndMutex'
  BY <1>0, <1>1
<1>2. ASSUME kind' = kind, once' = once, mutex' = mutex, at' = at PROVE OnceAndMutex'
  BY <1>2
<1>3. CASE Accept \/ ParentCloses \/ InsertConnfd
  BY <1>2, <1>3 DEF Accept, ParentCloses, InsertConnfd, echoVars, countVars
<1>4. CASE StartIterative
  BY <1>0, <1>1, <1>4 DEF StartIterative, Begins, countVars, Agents
<1>5. ASSUME NEW a \in Agents, StartProcess(a) \/ StartThread(a) \/ ThreadStarts(a) PROVE OnceAndMutex'
  <2>1. \E next \in {"read", "created"} : at' = [at EXCEPT ![a] = next]
    BY <1>5 DEF StartProcess, StartThread, ThreadStarts, Begins
  <2>2. kind # "prethreaded" /\ kind' = kind /\ once' = once /\ mutex' = mutex
    BY <1>5 DEF StartProcess, StartThread, ThreadStarts, countVars, Holds, AgentHolds
  <2> QED
    BY <1>1, <2>1, <2>2
<1>6. ASSUME NEW a \in Agents, RemoveConnfd(a) PROVE OnceAndMutex'
  BY <1>1, <1>6 DEF RemoveConnfd, countVars, EchoSteps, CountSteps
<1>7. ASSUME NEW a \in Agents, OnceBegins(a) PROVE OnceAndMutex'
  BY <1>0, <1>7 DEF OnceBegins, EchoSteps, CountSteps
<1>8. ASSUME NEW a \in Agents, init_echo_cnt(a) PROVE OnceAndMutex'
  <2>1. once = "running" /\ kind = "prethreaded"
    BY <1>8 DEF init_echo_cnt, Holds, AgentHolds, OnceSteps
  <2>2. \A b \in Agents : b # a => at'[b] = at[b] /\ at[b] # "initialising"
    BY <1>0, <1>8 DEF init_echo_cnt
  <2>3. at'[a] = "once" /\ once' = "done" /\ mutex' = 1
    BY <1>0, <1>8 DEF init_echo_cnt
  <2>4. \A b \in Agents : ~ Counting(b)'
    BY <2>1, <2>2, <2>3 DEF EchoSteps, CountSteps
  <2>5. \A b \in Agents : at'[b] # "initialising"
    BY <2>2, <2>3
  <2> QED
    BY <2>3, <2>4, <2>5
<1>9. ASSUME NEW a \in Agents, OnceDone(a) PROVE OnceAndMutex'
  BY <1>1, <1>9 DEF OnceDone, countVars
<1>10. ASSUME NEW a \in Agents, TakeBuffered(a) \/ Refill(a) \/ EndOfFile(a) PROVE OnceAndMutex'
  <2>1. at' = at \/ \E next \in {"lock", "write", "close"} : at' = [at EXCEPT ![a] = next]
    BY <1>10 DEF TakeBuffered, Refill, EndOfFile, Reads, LineRead
  <2>2. at[a] = "read" /\ kind' = kind /\ once' = once /\ mutex' = mutex
    BY <1>10 DEF TakeBuffered, Refill, EndOfFile, countVars
  <2> QED
    BY <1>1, <1>2, <2>1, <2>2 DEF EchoSteps
<1>11. ASSUME NEW a \in Agents, Lock(a) PROVE OnceAndMutex'
  <2>1. mutex = 1 /\ mutex' = 0 /\ once' = once /\ kind' = kind
    BY <1>0, <1>11 DEF Lock
  <2>2. once = "done" /\ \A b \in Agents : ~ Counting(b)
    BY <2>1
  <2>3. \A b \in Agents : b # a => at'[b] = at[b]
    BY <1>0, <1>11 DEF Lock
  <2>4. at'[a] = "load"
    BY <1>0, <1>11 DEF Lock
  <2> QED
    BY <2>1, <2>2, <2>3, <2>4
<1>12. ASSUME NEW a \in Agents, Load(a) \/ Store(a) PROVE OnceAndMutex'
  <2>1. Counting(a) /\ at[a] \in EchoSteps /\ kind' = kind /\ once' = once /\ mutex' = mutex
    BY <1>12 DEF Load, Store, EchoSteps, CountSteps
  <2>2. at'[a] \in {"store", "unlock"} /\ \A b \in Agents : b # a => at'[b] = at[b]
    BY <1>0, <1>12 DEF Load, Store
  <2>3. \A b \in Agents : Counting(b)' <=> Counting(b)
    BY <2>1, <2>2
  <2>4. \A b \in Agents : at'[b] = "initialising" => at[b] = "initialising"
    BY <2>2
  <2>5. kind = "prethreaded" /\ once = "done"
    BY <2>1 DEF Holds, AgentHolds, CountSteps
  <2> QED
    BY <2>1, <2>3, <2>4, <2>5
<1>13. ASSUME NEW a \in Agents, Unlock(a) PROVE OnceAndMutex'
  <2>1. Counting(a) /\ at[a] \in EchoSteps /\ kind' = kind /\ once' = once
    BY <1>13 DEF Unlock, EchoSteps, CountSteps
  <2>2. mutex = 0 /\ mutex' = 1
    BY <1>13, <2>1 DEF Unlock
  <2>3. at'[a] = "write" /\ \A b \in Agents : b # a => at'[b] = at[b]
    BY <1>0, <1>13 DEF Unlock
  <2>4. \A b \in Agents : ~ Counting(b)'
    BY <2>1, <2>3
  <2>5. \A b \in Agents : at'[b] = "initialising" => at[b] = "initialising"
    BY <2>3
  <2>6. once = "done"
    BY <2>1 DEF Holds, AgentHolds, CountSteps
  <2> QED
    BY <2>1, <2>2, <2>4, <2>5, <2>6
<1>14. ASSUME NEW a \in Agents, Write(a) PROVE OnceAndMutex'
  BY <1>1, <1>2, <1>14 DEF Write, countVars, EchoSteps
<1>15. ASSUME NEW a \in Agents, Close(a) \/ IoFails(a) PROVE OnceAndMutex'
  <2>1. \E next \in {"idle", "exited"} : at' = [at EXCEPT ![a] = next]
    BY <1>15 DEF Close, IoFails, Leaves
  <2> QED
    BY <1>1, <1>15, <2>1 DEF Close, IoFails, countVars, EchoSteps, CountSteps
<1>16. ASSUME NEW c \in Clients, Connect(c) \/ Client(c) \/ ClientGone(c) PROVE OnceAndMutex'
  BY <1>2, <1>16 DEF Connect, Client, ClientSends, ClientFinishes, ClientGone, echoVars, countVars
<1>17. CASE Deliver \/ sigchld_handler \/ UNCHANGED vars
  BY <1>2, <1>17 DEF Deliver, sigchld_handler, vars, echoVars, countVars
<1> QED
  BY <1>3, <1>4, <1>5, <1>6, <1>7, <1>8, <1>9, <1>10, <1>11, <1>12, <1>13, <1>14, <1>15, <1>16,
     <1>17 DEF Next, Main, Agent

----------------------------------------------------------------------------
(* Every connection is in one place. *)

(* What a queue holds after an insertion at its end.                        *)
LEMMA AppendHolds ==
    ASSUME NEW S, NEW s \in Seq(S), NEW x \in S
    PROVE  /\ ToSet(Append(s, x)) = ToSet(s) \cup {x}
           /\ Distinct(s) /\ x \notin ToSet(s) => Distinct(Append(s, x))
<1>1. Len(s) \in Nat /\ Append(s, x) \in Seq(S) /\ Len(Append(s, x)) = Len(s) + 1
  BY AppendProperties, LenProperties
<1>2. DOMAIN s = 1 .. Len(s) /\ DOMAIN Append(s, x) = 1 .. Len(s) + 1
  BY <1>1, LenProperties
<1>3. /\ Append(s, x)[Len(s) + 1] = x
      /\ \A i \in 1 .. Len(s) : Append(s, x)[i] = s[i]
  BY AppendProperties
<1>4. 1 .. Len(s) + 1 = (1 .. Len(s)) \cup {Len(s) + 1}
  BY <1>1
<1> DEFINE t == Append(s, x)
<1> HIDE DEF t
<1>5. ToSet(t) = ToSet(s) \cup {x}
  BY <1>2, <1>3, <1>4 DEF ToSet, t
<1>6. ASSUME Distinct(s), x \notin ToSet(s) PROVE Distinct(t)
  <2>1. \A i \in 1 .. Len(s) : s[i] # x
    BY <1>2, <1>6 DEF ToSet
  <2>2. \A i, j \in 1 .. Len(s) : s[i] = s[j] => i = j
    BY <1>2, <1>6 DEF Distinct
  <2> QED
    BY <1>2, <1>3, <1>4, <2>1, <2>2 DEF Distinct, t
<1> QED
  BY <1>5, <1>6 DEF t

(* What a queue holds after the removal of its first element.               *)
LEMMA TailHolds ==
    ASSUME NEW S, NEW s \in Seq(S), s # << >>
    PROVE  /\ Head(s) \in S /\ Tail(s) \in Seq(S)
           /\ ToSet(s) = {Head(s)} \cup ToSet(Tail(s))
           /\ Distinct(s) => Distinct(Tail(s)) /\ Head(s) \notin ToSet(Tail(s))
<1>1. /\ Head(s) \in S /\ Tail(s) \in Seq(S) /\ Len(s) \in Nat /\ Len(s) # 0
      /\ Head(s) = s[1] /\ Len(Tail(s)) = Len(s) - 1
      /\ \A i \in 1 .. Len(Tail(s)) : Tail(s)[i] = s[i + 1]
  BY HeadTailProperties, LenProperties, EmptySeq
<1>2. DOMAIN s = 1 .. Len(s) /\ DOMAIN Tail(s) = 1 .. Len(s) - 1
  BY <1>1, LenProperties
<1> DEFINE t == Tail(s)
<1> HIDE DEF t
<1>3. /\ DOMAIN t = 1 .. Len(s) - 1
      /\ \A i \in 1 .. Len(s) - 1 : t[i] = s[i + 1] /\ i + 1 \in 1 .. Len(s) /\ i + 1 # 1
  BY <1>1, <1>2 DEF t
<1>4. \A i \in 1 .. Len(s) : i = 1 \/ (i - 1 \in 1 .. Len(s) - 1 /\ i = (i - 1) + 1)
  BY <1>1
<1>5. ToSet(s) = {Head(s)} \cup ToSet(t)
  <2>1. ToSet(s) = {s[i] : i \in 1 .. Len(s)} /\ ToSet(t) = {t[i] : i \in 1 .. Len(s) - 1}
    BY <1>2, <1>3 DEF ToSet
  <2>2. 1 \in 1 .. Len(s)
    BY <1>1
  <2>3. ToSet(t) \subseteq ToSet(s)
    BY <1>3, <2>1
  <2>4. ASSUME NEW i \in 1 .. Len(s) PROVE s[i] \in {Head(s)} \cup ToSet(t)
    <3>1. CASE i = 1
      BY <1>1, <3>1
    <3>2. CASE i # 1
      <4>1. i - 1 \in 1 .. Len(s) - 1 /\ i = (i - 1) + 1
        BY <1>4, <3>2
      <4>2. t[i - 1] = s[i]
        BY <1>3, <4>1
      <4> QED
        BY <2>1, <4>1, <4>2
    <3> QED
      BY <3>1, <3>2
  <2>5. Head(s) \in ToSet(s)
    BY <1>1, <2>1, <2>2
  <2>6. ToSet(s) \subseteq {Head(s)} \cup ToSet(t)
    BY <2>1, <2>4
  <2> QED
    BY <2>3, <2>5, <2>6
<1>6. ASSUME Distinct(s) PROVE Distinct(t) /\ Head(s) \notin ToSet(t)
  <2>1. \A i, j \in 1 .. Len(s) : s[i] = s[j] => i = j
    BY <1>2, <1>6 DEF Distinct
  <2>2. 1 \in 1 .. Len(s)
    BY <1>1
  <2>3. \A i \in 1 .. Len(s) - 1 : t[i] # s[1]
    BY <1>3, <2>1, <2>2
  <2>4. \A i, j \in 1 .. Len(s) - 1 : t[i] = t[j] => i = j
    BY <1>3, <2>1
  <2> QED
    BY <1>1, <1>3, <2>3, <2>4 DEF Distinct, ToSet
<1> QED
  BY <1>1, <1>5, <1>6 DEF t

(* A connection moves from the backlog to main, and from main, over the     *)
(* queue or not, to an agent; one that closes may come back only when       *)
(* nobody has it open.                                                      *)
LEMMA OnePlaceKept ==
    ASSUME EchoTypes, Holds, HeldOpen, OnePlace, [Next]_vars
    PROVE  OnePlace'
<1> USE EchoAssumption DEF OnePlace, Waiting
<1>0. /\ at \in [Agents -> Labels] /\ conn \in [Agents -> Clients \cup {None}]
      /\ cell \in [Agents -> Clients \cup {None}]
      /\ backlog \in Seq(Clients) /\ queue \in Seq(Clients)
  BY DEF EchoTypes
<1> USE DEF Has, Taken
<1>1. ASSUME UNCHANGED <<main, connfd, backlog, queue>>,
             \A a \in Agents : Has(a)' => Has(a) /\ Taken(a)' = Taken(a)
      PROVE  OnePlace'
  BY <1>1
<1>2. ASSUME backlog' = backlog, queue' = queue, main = "start", main' # "start", NEW a \in Agents,
             at[a] = "idle", Has(a)', Taken(a)' = connfd,
             \A b \in Agents \ {a} : Has(b)' <=> Has(b), \A b \in Agents \ {a} : Taken(b)' = Taken(b)
      PROVE  OnePlace'
  BY <1>2
<1>3. CASE Accept
  <2>1. UNCHANGED <<queue, at, conn, cell>> /\ main = "accept" /\ main' = "start"
    BY <1>3 DEF Accept, echoVars
  <2>2. backlog # << >> /\ connfd' = Head(backlog) /\ backlog' = Tail(backlog)
    BY <1>3 DEF Accept
  <2>3. /\ ToSet(backlog) = {connfd'} \cup ToSet(backlog') /\ Distinct(backlog')
        /\ connfd' \notin ToSet(backlog')
    BY <1>0, <2>2, TailHolds
  <2> HIDE DEF Has, Taken
  <2>4. \A a \in Agents : (Has(a)' <=> Has(a)) /\ Taken(a)' = Taken(a)
    BY <2>1 DEF Has, Taken
  <2> QED
    BY <2>1, <2>3, <2>4
<1>4. CASE StartIterative
  <2>1. 1 \in Agents /\ at[1] = "idle"
    BY <1>4 DEF Agents, StartIterative, Holds, MainHolds
  <2>2. at'[1] = "read" /\ conn'[1] = connfd
    BY <1>0, <1>4, <2>1 DEF StartIterative, Begins
  <2>3. \A b \in Agents \ {1} : at'[b] = at[b] /\ conn'[b] = conn[b] /\ cell'[b] = cell[b]
    BY <1>0, <1>4 DEF StartIterative, Begins
  <2> QED
    BY <1>2, <1>4, <2>1, <2>2, <2>3 DEF StartIterative
<1>5. ASSUME NEW a \in Agents, StartProcess(a) PROVE OnePlace'
  <2>1. at'[a] = "read" /\ conn'[a] = connfd
    BY <1>0, <1>5 DEF StartProcess, Begins
  <2>2. \A b \in Agents \ {a} : at'[b] = at[b] /\ conn'[b] = conn[b] /\ cell'[b] = cell[b]
    BY <1>0, <1>5 DEF StartProcess, Begins
  <2> QED
    BY <1>2, <1>5, <2>1, <2>2 DEF StartProcess, NewAgent
<1>6. ASSUME NEW a \in Agents, StartThread(a) PROVE OnePlace'
  <2>1. at'[a] = "created" /\ cell'[a] = connfd
    BY <1>0, <1>6 DEF StartThread
  <2>2. \A b \in Agents \ {a} : at'[b] = at[b] /\ conn'[b] = conn[b] /\ cell'[b] = cell[b]
    BY <1>0, <1>6 DEF StartThread
  <2> QED
    BY <1>2, <1>6, <2>1, <2>2 DEF StartThread, NewAgent
<1>7. ASSUME NEW a \in Agents, ThreadStarts(a) PROVE OnePlace'
  <2>1. at[a] = "created" /\ at'[a] = "read" /\ conn'[a] = cell[a]
    BY <1>0, <1>7 DEF ThreadStarts
  <2>2. \A b \in Agents \ {a} : at'[b] = at[b] /\ conn'[b] = conn[b] /\ cell'[b] = cell[b]
    BY <1>0, <1>7 DEF ThreadStarts
  <2>3. \A b \in Agents : Has(b)' => Has(b) /\ Taken(b)' = Taken(b)
    BY <2>1, <2>2
  <2> QED
    BY <1>1, <1>7, <2>3 DEF ThreadStarts, mainVars
<1>8. CASE InsertConnfd
  <2>1. UNCHANGED <<backlog, connfd, at, conn, cell>> /\ main = "start" /\ main' = "accept"
    BY <1>8 DEF InsertConnfd, Sbuf!Put
  <2>2. queue' = Append(queue, connfd) /\ connfd \in Clients
    BY <1>8, <2>1 DEF InsertConnfd, Sbuf!Put, Holds, MainHolds
  <2>3. ToSet(queue') = ToSet(queue) \cup {connfd} /\ Distinct(queue')
    BY <1>0, <2>1, <2>2, AppendHolds
  <2> HIDE DEF Has, Taken
  <2>4. \A a \in Agents : (Has(a)' <=> Has(a)) /\ Taken(a)' = Taken(a)
    BY <2>1 DEF Has, Taken
  <2> QED
    BY <2>1, <2>3, <2>4
<1>9. ASSUME NEW a \in Agents, RemoveConnfd(a) PROVE OnePlace'
  <2>1. UNCHANGED <<backlog, connfd, main>> /\ at[a] = "idle"
    BY <1>9 DEF RemoveConnfd, mainVars
  <2>2. queue # << >> /\ queue' = Tail(queue) /\ conn' = [conn EXCEPT ![a] = Head(queue)]
    BY <1>9 DEF RemoveConnfd, Sbuf!Take
  <2>3. /\ ToSet(queue) = {Head(queue)} \cup ToSet(queue') /\ Distinct(queue')
        /\ Head(queue) \notin ToSet(queue')
    BY <1>0, <2>2, TailHolds
  <2>4. at'[a] = "once" /\ conn'[a] = Head(queue)
    BY <1>0, <1>9, <2>2 DEF RemoveConnfd
  <2>5. \A b \in Agents \ {a} : at'[b] = at[b] /\ conn'[b] = conn[b] /\ cell'[b] = cell[b]
    BY <1>0, <1>9, <2>2 DEF RemoveConnfd
  <2>6. Has(a)' /\ Taken(a)' = Head(queue)
    BY <2>4
  <2>7. \A b \in Agents \ {a} : (Has(b)' <=> Has(b)) /\ Taken(b)' = Taken(b)
    BY <2>5
  <2> HIDE DEF Has, Taken
  <2> QED
    BY <2>1, <2>3, <2>6, <2>7
<1>10. ASSUME NEW c \in Clients, Connect(c) PROVE OnePlace'
  <2>1. UNCHANGED <<queue, main, connfd, at, conn, cell>>
    BY <1>10 DEF Connect, echoVars
  <2>2. alive /\ c \notin ToSet(backlog) /\ open[c] = {} /\ backlog' = Append(backlog, c)
    BY <1>10 DEF Connect, Connected
  <2>3. ToSet(backlog') = ToSet(backlog) \cup {c} /\ Distinct(backlog')
    BY <1>0, <2>2, AppendHolds
  <2>4. c \notin ToSet(queue) /\ (main = "start" => connfd # c) /\ \A a \in Agents : Has(a) => Taken(a) # c
    BY <2>2 DEF HeldOpen
  <2> HIDE DEF Has, Taken
  <2>5. \A a \in Agents : (Has(a)' <=> Has(a)) /\ Taken(a)' = Taken(a)
    BY <2>1 DEF Has, Taken
  <2> QED
    BY <2>1, <2>2, <2>3, <2>4, <2>5
<1>11. CASE ParentCloses
  BY <1>11 DEF ParentCloses, echoVars
<1>12. ASSUME NEW a \in Agents,
              \/ OnceBegins(a) \/ init_echo_cnt(a) \/ OnceDone(a) \/ EndOfFile(a)
              \/ Lock(a) \/ Load(a) \/ Store(a) \/ Unlock(a)
       PROVE  OnePlace'
  <2>1. /\ at[a] \notin {"idle", "created", "exited"} /\ UNCHANGED <<conn, cell, main, connfd, backlog, queue>>
        /\ \E next \in OnceSteps \cup EchoSteps : at' = [at EXCEPT ![a] = next]
    BY <1>12 DEF OnceBegins, init_echo_cnt, OnceDone, EndOfFile, Lock, Load, Store, Unlock, mainVars,
        OnceSteps, EchoSteps, CountSteps, LineRead
  <2>2. at'[a] \notin {"idle", "created", "exited"} /\ \A b \in Agents \ {a} : at'[b] = at[b]
    BY <1>0, <2>1 DEF OnceSteps, EchoSteps, CountSteps
  <2> QED
    BY <1>1, <2>1, <2>2
<1>13. ASSUME NEW a \in Agents, TakeBuffered(a) \/ Refill(a) \/ Write(a) PROVE OnePlace'
  <2>1. /\ at[a] \in {"read", "write"} /\ UNCHANGED <<conn, cell, main, connfd, backlog, queue>>
        /\ at' = at \/ \E next \in {"lock", "write", "read"} : at' = [at EXCEPT ![a] = next]
    BY <1>13 DEF TakeBuffered, Refill, Write, Reads, mainVars, LineRead
  <2>2. at'[a] \notin {"idle", "created", "exited"} /\ \A b \in Agents \ {a} : at'[b] = at[b]
    BY <1>0, <2>1
  <2> QED
    BY <1>1, <2>1, <2>2
<1>14. ASSUME NEW a \in Agents, Close(a) \/ IoFails(a) PROVE OnePlace'
  <2>1. at'[a] \in {"idle", "exited"} /\ \A b \in Agents \ {a} : Stays(b)
    BY <1>14, LeavesDoes DEF Close, IoFails
  <2> QED
    BY <1>1, <1>14, <2>1 DEF Close, IoFails, mainVars, Stays
<1>15. ASSUME NEW c \in Clients, Client(c) \/ ClientGone(c) PROVE OnePlace'
  BY <1>1, <1>15 DEF Client, ClientSends, ClientFinishes, ClientGone, echoVars, mainVars
<1>16. CASE Deliver \/ sigchld_handler \/ UNCHANGED vars
  BY <1>1, <1>16 DEF Deliver, sigchld_handler, vars, echoVars, mainVars
<1> QED
  BY <1>3, <1>4, <1>5, <1>6, <1>7, <1>8, <1>9, <1>10, <1>11, <1>12, <1>13, <1>14, <1>15, <1>16
     DEF Next, Main, Agent

----------------------------------------------------------------------------
(* Whoever has a connection keeps it open: a close, of the parent or of an  *)
(* agent, never hits a connection that another one has.                     *)
LEMMA HeldOpenKept ==
    ASSUME EchoTypes, Holds, OnePlace, HeldOpen, [Next]_vars
    PROVE  HeldOpen'
<1> USE EchoAssumption DEF HeldOpen
<1>0. /\ at \in [Agents -> Labels] /\ conn \in [Agents -> Clients \cup {None}]
      /\ cell \in [Agents -> Clients \cup {None}]
      /\ open \in [Clients -> SUBSET (Agents \cup {Parent})]
      /\ backlog \in Seq(Clients) /\ queue \in Seq(Clients)
  BY DEF EchoTypes
<1>1. /\ \A a \in Agents : Has(a) => Taken(a) \in Clients
      /\ ToSet(queue) \subseteq Clients /\ ToSet(backlog) \subseteq Clients
      /\ \A a \in Agents : a # Parent
  <2>1. \A a \in Agents : Has(a) => Taken(a) \in Clients
    BY <1>0 DEF Holds, AgentHolds, Has, Taken, Serves, Labels, OnceSteps, EchoSteps, CountSteps
  <2>2. ToSet(queue) \subseteq Clients /\ ToSet(backlog) \subseteq Clients
    BY <1>0 DEF ToSet
  <2> QED
    BY <2>1, <2>2 DEF Agents, Parent
<1>2. ASSUME UNCHANGED <<kind, open, queue>>, alive' => alive,
             (main' = main /\ connfd' = connfd) \/ main' = "accept",
             \A a \in Agents : Has(a)' => Has(a) /\ Taken(a)' = Taken(a)
      PROVE  HeldOpen'
  BY <1>2 DEF Holder
<1>3. CASE Accept
  <2> DEFINE c == Head(backlog)
  <2>1. c \in Clients /\ c \in ToSet(backlog)
    BY <1>0, <1>3, TailHolds DEF Accept
  <2>2. connfd' = c /\ open' = [open EXCEPT ![c] = {Parent}] /\ alive' = alive
    BY <1>3 DEF Accept
  <2>3. UNCHANGED <<kind, queue, at, conn, cell>>
    BY <1>3 DEF Accept, echoVars
  <2> HIDE DEF c
  <2>4. \A b \in Agents : (Has(b)' <=> Has(b)) /\ Taken(b)' = Taken(b) /\ Holder(b)' = Holder(b)
    BY <2>3 DEF Has, Taken, Holder
  <2>5. c \notin ToSet(queue) /\ \A b \in Agents : Has(b) => Taken(b) # c
    BY <2>1 DEF OnePlace, Waiting
  <2>6. Parent \in open'[c] /\ \A d \in Clients \ {c} : open'[d] = open[d]
    BY <1>0, <2>1, <2>2
  <2> QED
    BY <1>1, <2>2, <2>3, <2>4, <2>5, <2>6
<1>4. CASE StartIterative
  <2>1. /\ main = "start" /\ main' = "accept" /\ UNCHANGED <<kind, open, queue, alive>>
        /\ kind = "iterative" /\ 1 \in Agents
    BY <1>4 DEF StartIterative, Agents
  <2>2. at'[1] = "read" /\ conn'[1] = connfd
    BY <1>0, <1>4, <2>1 DEF StartIterative, Begins
  <2>3. \A b \in Agents \ {1} : at'[b] = at[b] /\ conn'[b] = conn[b] /\ cell'[b] = cell[b]
    BY <1>0, <1>4 DEF StartIterative, Begins
  <2> QED
    BY <2>1, <2>2, <2>3 DEF Has, Taken, Holder
<1>5. ASSUME NEW a \in Agents, StartProcess(a) PROVE HeldOpen'
  <2>1. /\ main = "start" /\ main' = "close" /\ UNCHANGED <<kind, queue, connfd, alive>>
        /\ kind = "process" /\ connfd \in Clients /\ alive
    BY <1>5 DEF StartProcess, MainRuns, Holds, MainHolds
  <2>2. at'[a] = "read" /\ conn'[a] = connfd
    BY <1>0, <1>5 DEF StartProcess, Begins
  <2>3. \A b \in Agents \ {a} : at'[b] = at[b] /\ conn'[b] = conn[b] /\ cell'[b] = cell[b]
    BY <1>0, <1>5 DEF StartProcess, Begins
  <2>4. open' = [c \in Clients |-> IF Parent \in open[c] THEN open[c] \cup {a} ELSE open[c]]
    BY <1>5 DEF StartProcess
  <2>5. (\A c \in Clients : open[c] \subseteq open'[c]) /\ a \in open'[connfd]
    BY <2>1, <2>4
  <2>6. \A b \in Agents : Has(b)' => Holder(b)' \in open'[Taken(b)']
    <3>1. Taken(a)' = connfd /\ Holder(a)' = a
      BY <2>1, <2>2 DEF Taken, Holder
    <3>2. \A b \in Agents \ {a} : (Has(b)' <=> Has(b)) /\ Taken(b)' = Taken(b) /\ Holder(b)' = Holder(b)
      BY <2>1, <2>3 DEF Has, Taken, Holder
    <3> QED
      BY <1>1, <2>1, <2>5, <3>1, <3>2
  <2> QED
    BY <1>1, <2>1, <2>5, <2>6
<1>6. ASSUME NEW a \in Agents, StartThread(a) PROVE HeldOpen'
  <2>1. /\ main = "start" /\ main' = "accept" /\ UNCHANGED <<kind, open, queue, alive>>
        /\ kind = "thread"
    BY <1>6 DEF StartThread
  <2>2. at'[a] = "created" /\ cell'[a] = connfd
    BY <1>0, <1>6 DEF StartThread
  <2>3. \A b \in Agents \ {a} : at'[b] = at[b] /\ conn'[b] = conn[b] /\ cell'[b] = cell[b]
    BY <1>0, <1>6 DEF StartThread
  <2> QED
    BY <2>1, <2>2, <2>3 DEF Has, Taken, Holder
<1>7. ASSUME NEW a \in Agents, ThreadStarts(a) PROVE HeldOpen'
  <2>1. at[a] = "created" /\ at'[a] = "read" /\ conn'[a] = cell[a]
    BY <1>0, <1>7 DEF ThreadStarts
  <2>2. \A b \in Agents \ {a} : at'[b] = at[b] /\ conn'[b] = conn[b] /\ cell'[b] = cell[b]
    BY <1>0, <1>7 DEF ThreadStarts
  <2>3. \A b \in Agents : Has(b)' => Has(b) /\ Taken(b)' = Taken(b)
    BY <2>1, <2>2 DEF Has, Taken
  <2> QED
    BY <1>2, <1>7, <2>3 DEF ThreadStarts, mainVars
<1>8. CASE InsertConnfd
  <2>1. UNCHANGED <<kind, alive, open, at, conn, cell>> /\ main = "start" /\ main' = "accept"
    BY <1>8 DEF InsertConnfd, Sbuf!Put
  <2>2. queue' = Append(queue, connfd) /\ connfd \in Clients
    BY <1>8, <2>1 DEF InsertConnfd, Sbuf!Put, Holds, MainHolds
  <2>3. ToSet(queue') = ToSet(queue) \cup {connfd}
    BY <1>0, <2>2, AppendHolds
  <2>4. \A a \in Agents : (Has(a)' <=> Has(a)) /\ Taken(a)' = Taken(a) /\ Holder(a)' = Holder(a)
    BY <2>1 DEF Has, Taken, Holder
  <2> QED
    BY <2>1, <2>3, <2>4
<1>9. ASSUME NEW a \in Agents, RemoveConnfd(a) PROVE HeldOpen'
  <2>1. UNCHANGED <<kind, alive, open, connfd, main>> /\ at[a] = "idle" /\ kind = "prethreaded"
    BY <1>9 DEF RemoveConnfd, mainVars
  <2>2. queue # << >> /\ queue' = Tail(queue) /\ conn' = [conn EXCEPT ![a] = Head(queue)]
    BY <1>9 DEF RemoveConnfd, Sbuf!Take
  <2>3. ToSet(queue) = {Head(queue)} \cup ToSet(queue')
    BY <1>0, <2>2, TailHolds
  <2>4. at'[a] = "once" /\ conn'[a] = Head(queue)
    BY <1>0, <1>9, <2>2 DEF RemoveConnfd
  <2>5. \A b \in Agents \ {a} : at'[b] = at[b] /\ conn'[b] = conn[b] /\ cell'[b] = cell[b]
    BY <1>0, <1>9, <2>2 DEF RemoveConnfd
  <2>6. Taken(a)' = Head(queue) /\ Holder(a)' = Parent
    BY <2>1, <2>4 DEF Taken, Holder
  <2>7. \A b \in Agents \ {a} : (Has(b)' <=> Has(b)) /\ Taken(b)' = Taken(b) /\ Holder(b)' = Holder(b)
    BY <2>1, <2>5 DEF Has, Taken, Holder
  <2> QED
    BY <2>1, <2>3, <2>6, <2>7
<1>10. ASSUME NEW c \in Clients, Connect(c) PROVE HeldOpen'
  <2>1. UNCHANGED <<kind, alive, open, queue, main, connfd, at, conn, cell>>
    BY <1>10 DEF Connect, echoVars
  <2>2. \A a \in Agents : (Has(a)' <=> Has(a)) /\ Taken(a)' = Taken(a)
    BY <2>1 DEF Has, Taken
  <2> QED
    BY <1>2, <2>1, <2>2
<1>11. CASE ParentCloses
  <2>1. /\ UNCHANGED <<kind, alive, queue, at, conn, cell>> /\ main = "close" /\ main' = "accept"
        /\ open' = [open EXCEPT ![connfd] = @ \ {Parent}]
    BY <1>11 DEF ParentCloses, echoVars
  <2>2. kind = "process" /\ connfd \in Clients /\ queue = << >> /\ ToSet(queue) = {}
    BY <2>1 DEF Holds, MainHolds, ToSet
  <2>3. \A c \in Clients : \A b \in Agents : b \in open[c] => b \in open'[c]
    BY <1>0, <1>1, <2>1, <2>2
  <2>4. \A b \in Agents : (Has(b)' <=> Has(b)) /\ Taken(b)' = Taken(b) /\ Holder(b) = b /\ Holder(b)' = b
    BY <2>1, <2>2 DEF Has, Taken, Holder
  <2> QED
    BY <1>1, <2>1, <2>2, <2>3, <2>4
<1>12. ASSUME NEW a \in Agents,
              \/ OnceBegins(a) \/ init_echo_cnt(a) \/ OnceDone(a) \/ EndOfFile(a)
              \/ Lock(a) \/ Load(a) \/ Store(a) \/ Unlock(a)
       PROVE  HeldOpen'
  <2>1. /\ at[a] \notin {"idle", "created", "exited"}
        /\ UNCHANGED <<kind, alive, open, conn, cell, main, connfd, queue>>
        /\ \E next \in OnceSteps \cup EchoSteps : at' = [at EXCEPT ![a] = next]
    BY <1>12 DEF OnceBegins, init_echo_cnt, OnceDone, EndOfFile, Lock, Load, Store, Unlock, mainVars,
        OnceSteps, EchoSteps, CountSteps, LineRead
  <2>2. at'[a] \notin {"idle", "created", "exited"} /\ \A b \in Agents \ {a} : at'[b] = at[b]
    BY <1>0, <2>1 DEF OnceSteps, EchoSteps, CountSteps
  <2>3. \A b \in Agents : Has(b)' => Has(b) /\ Taken(b)' = Taken(b)
    BY <2>1, <2>2 DEF Has, Taken
  <2> QED
    BY <1>2, <2>1, <2>3
<1>13. ASSUME NEW a \in Agents, TakeBuffered(a) \/ Refill(a) \/ Write(a) PROVE HeldOpen'
  <2>1. /\ at[a] \in {"read", "write"} /\ UNCHANGED <<kind, alive, open, conn, cell, main, connfd, queue>>
        /\ at' = at \/ \E next \in {"lock", "write", "read"} : at' = [at EXCEPT ![a] = next]
    BY <1>13 DEF TakeBuffered, Refill, Write, Reads, mainVars, LineRead
  <2>2. at'[a] \notin {"idle", "created", "exited"} /\ \A b \in Agents \ {a} : at'[b] = at[b]
    BY <1>0, <2>1
  <2>3. \A b \in Agents : Has(b)' => Has(b) /\ Taken(b)' = Taken(b)
    BY <2>1, <2>2 DEF Has, Taken
  <2> QED
    BY <1>2, <2>1, <2>3
<1>14. ASSUME NEW a \in Agents, Close(a) \/ IoFails(a) PROVE HeldOpen'
  <2>1. at'[a] \in {"idle", "exited"} /\ \A b \in Agents \ {a} : Stays(b)
    BY <1>14, LeavesDoes DEF Close, IoFails
  <2>2. UNCHANGED <<kind, main, connfd, queue>>
    BY <1>14 DEF Close, IoFails, mainVars
  <2>3. ~ Has(a)' /\ \A b \in Agents \ {a} : (Has(b)' <=> Has(b)) /\ Taken(b)' = Taken(b) /\ Holder(b)' = Holder(b)
    BY <2>1, <2>2 DEF Stays, Has, Taken, Holder
  <2>4. CASE kind = "process"
    <3>1. open' = [c \in Clients |-> open[c] \ {a}] /\ alive' = alive
      BY <1>14, <2>4 DEF Close, IoFails, ChildExits
    <3>2. \A c \in Clients : \A b : b \in open[c] /\ b # a => b \in open'[c]
      BY <3>1
    <3>3. \A b \in Agents : Has(b)' => Holder(b)' \in open'[Taken(b)']
      <4>1. \A b \in Agents \ {a} : Holder(b) = b
        BY <2>4 DEF Holder
      <4> QED
        BY <1>1, <2>3, <3>1, <3>2, <4>1, <1>14 DEF Close, IoFails
    <3>4. main \in {"start", "close"} => connfd \in Clients
      BY DEF Holds, MainHolds
    <3> QED
      BY <1>1, <2>2, <3>1, <3>2, <3>3, <3>4
  <2>5. CASE kind # "process" /\ Close(a)
    <3>1. open' = [open EXCEPT ![conn[a]] = {}] /\ alive' = alive
      BY <2>5 DEF Close
    <3>2. Has(a) /\ Taken(a) = conn[a] /\ main # "close"
      BY <2>5 DEF Close, Has, Taken, Holds, MainHolds
    <3>3. conn[a] \notin Waiting /\ \A b \in Agents \ {a} : Has(b) => Taken(b) # conn[a]
      BY <3>2 DEF OnePlace
    <3>4. \A c \in Clients : c # conn[a] => open'[c] = open[c]
      BY <1>0, <3>1
    <3>5. main = "start" => connfd \in Clients
      BY DEF Holds, MainHolds
    <3>6. (\A c \in ToSet(queue) : c # conn[a]) /\ (main = "start" => connfd # conn[a])
      BY <3>3 DEF Waiting
    <3> QED
      BY <1>1, <2>2, <2>3, <3>1, <3>2, <3>3, <3>4, <3>5, <3>6
  <2>6. CASE kind # "process" /\ IoFails(a)
    BY <2>6 DEF IoFails
  <2> QED
    BY <1>14, <2>4, <2>5, <2>6
<1>15. ASSUME NEW c \in Clients, Client(c) \/ ClientGone(c) PROVE HeldOpen'
  <2>1. UNCHANGED <<kind, alive, open, queue, main, connfd, at, conn, cell>>
    BY <1>15 DEF Client, ClientSends, ClientFinishes, ClientGone, echoVars, mainVars
  <2>2. \A a \in Agents : (Has(a)' <=> Has(a)) /\ Taken(a)' = Taken(a)
    BY <2>1 DEF Has, Taken
  <2> QED
    BY <1>2, <2>1, <2>2
<1>16. CASE Deliver \/ sigchld_handler \/ UNCHANGED vars
  <2>1. UNCHANGED <<kind, alive, open, queue, main, connfd, at, conn, cell>>
    BY <1>16 DEF Deliver, sigchld_handler, vars, echoVars, mainVars
  <2>2. \A a \in Agents : (Has(a)' <=> Has(a)) /\ Taken(a)' = Taken(a)
    BY <2>1 DEF Has, Taken
  <2> QED
    BY <1>2, <2>1, <2>2
<1> QED
  BY <1>3, <1>4, <1>5, <1>6, <1>7, <1>8, <1>9, <1>10, <1>11, <1>12, <1>13, <1>14, <1>15, <1>16
     DEF Next, Main, Agent

----------------------------------------------------------------------------
(* The streams. *)

(* Sending a character leaves what is coming as it is.                      *)
LEMMA SendingMoves ==
    ASSUME NEW S, NEW r \in Seq(S), NEW s \in Seq(S), s # << >>
    PROVE  Append(r, Head(s)) \o Tail(s) = r \o s
<1>1. Head(s) \in S /\ Tail(s) \in Seq(S) /\ s = << Head(s) >> \o Tail(s)
  <2>1. Head(s) \in S /\ Tail(s) \in Seq(S) /\ Len(s) \in Nat /\ Len(s) # 0
    BY HeadTailProperties, LenProperties, EmptySeq
  <2>2. 1 \in 0 .. Len(s) /\ Tail(s) = SubSeq(s, 2, Len(s)) /\ 1 + 1 = 2
    BY <2>1, TailIsSubSeq
  <2>3. s = SubSeq(s, 1, 1) \o SubSeq(s, 2, Len(s)) /\ SubSeq(s, 1, 1) \in Seq(S) /\ Len(SubSeq(s, 1, 1)) = 1
    BY <2>2, CutJoin
  <2>4. SubSeq(s, 1, 1) = << Head(s) >>
    <3>1. 1 \in 1 .. Len(s) + 1 /\ 1 \in Int /\ (\A i \in 1 .. 1 : s[i] \in S) /\ s[1] = Head(s)
      BY <2>1, ElementOfSeq
    <3>2. SubSeq(s, 1, 1)[1] = Head(s)
      BY <2>1, <3>1, SubSeqProperties
    <3>3. << Head(s) >> \in Seq(S) /\ Len(<< Head(s) >>) = 1 /\ << Head(s) >>[1] = Head(s)
      BY <2>1
    <3>4. \A i \in 1 .. 1 : i = 1
      OBVIOUS
    <3> QED
      BY <2>3, <3>2, <3>3, <3>4, SeqEqual
  <2> QED
    BY <2>1, <2>2, <2>3, <2>4
<1> DEFINE x == Head(s)
           t == Tail(s)
<1> HIDE DEF x, t
<1>2. x \in S /\ t \in Seq(S) /\ s = << x >> \o t
  BY <1>1 DEF x, t
<1>3. << x >> \in Seq(S) /\ Append(r, x) = r \o << x >>
  BY <1>2, AppendIsConcat
<1>4. (r \o << x >>) \o t = r \o (<< x >> \o t)
  BY <1>2, <1>3, ConcatAssociative
<1> QED
  BY <1>2, <1>3, <1>4 DEF x, t

(* The stream of the connection that an agent serves.                       *)
StreamOf(a) == Script[conn[a]] = got[conn[a]] \o (InHand(a) \o (unread[a] \o Coming(conn[a])))

(* What a move of characters from the buffer to the line does to them.      *)
LEMMA ReadsStream ==
    ASSUME EchoTypes, Holds, NEW a \in Agents, NEW stream \in Seq(Chars), NEW rest \in Seq(Chars),
           at[a] = "read", Reads(a, stream)
    PROVE  /\ line[a] \o (stream \o rest) = InHand(a)' \o (unread'[a] \o rest)
           /\ Echoes(a)' /\ at'[a] # "close" /\ conn'[a] = conn[a]
<1>1. /\ line'[a] = LineWith(stream, line[a]) /\ unread'[a] = UnreadAfter(stream, line[a])
      /\ \/ at'[a] = LineRead /\ left'[a] = line'[a]
         \/ at'[a] = at[a] /\ left'[a] = left[a]
      /\ conn'[a] = conn[a]
  BY ReadsDoes
<1>2. line[a] \in Seq(Chars)
  BY DEF EchoTypes
<1> DEFINE text == LineWith(stream, line[a])
           after == UnreadAfter(stream, line[a])
<1>3. text \in Seq(Chars) /\ after \in Seq(Chars) /\ line[a] \o stream = text \o after
  BY <1>2, MoveSplits
<1>4. InHand(a)' = line'[a] /\ Echoes(a)' /\ at'[a] # "close"
  BY <1>1 DEF InHand, LineRead, Echoes, EchoSteps, CountSteps
<1> HIDE DEF text, after
<1>5. line[a] \o (stream \o rest) = (line[a] \o stream) \o rest
  <2> DEFINE l == line[a]
  <2>1. l \in Seq(Chars) /\ stream \in Seq(Chars) /\ rest \in Seq(Chars)
    BY <1>2
  <2> HIDE DEF l
  <2>2. l \o (stream \o rest) = (l \o stream) \o rest
    BY ONLY <2>1, ConcatAssociative
  <2> QED
    BY <2>2 DEF l
<1>6. (text \o after) \o rest = text \o (after \o rest)
  <2>1. text \in Seq(Chars) /\ after \in Seq(Chars)
    BY <1>3
  <2> QED
    BY <2>1, ConcatAssociative
<1> QED
  BY <1>1, <1>3, <1>4, <1>5, <1>6 DEF text, after

(* Every operation keeps every client's characters in their order.          *)
LEMMA StreamsKept ==
    ASSUME EchoTypes, Holds, OnePlace, HeldOpen, Streams, [Next]_vars
    PROVE  Streams'
<1> USE EchoAssumption
<1>0. /\ at \in [Agents -> Labels] /\ conn \in [Agents -> Clients \cup {None}]
      /\ cell \in [Agents -> Clients \cup {None}]
      /\ unread \in [Agents -> Seq(Chars)] /\ line \in [Agents -> Seq(Chars)]
      /\ left \in [Agents -> Seq(Chars)]
      /\ toSend \in [Clients -> Seq(Chars)] /\ arriving \in [Clients -> Seq(Chars)]
      /\ got \in [Clients -> Seq(Chars)]
      /\ backlog \in Seq(Clients) /\ queue \in Seq(Clients)
  BY DEF EchoTypes
<1>00. /\ \A a \in Agents : Echoes(a) => conn[a] \in Clients /\ Has(a) /\ Taken(a) = conn[a]
       /\ \A a \in Agents : at[a] = "created" => cell[a] \in Clients /\ Has(a) /\ Taken(a) = cell[a]
       /\ \A a \in Agents : at[a] \in OnceSteps => conn[a] \in Clients /\ Has(a) /\ Taken(a) = conn[a]
       /\ Waiting \subseteq Clients
  <2>1. Waiting \subseteq Clients
    <3>1. ToSet(backlog) \subseteq Clients /\ ToSet(queue) \subseteq Clients
      BY <1>0 DEF ToSet
    <3> QED
      BY <3>1 DEF Waiting, Holds, MainHolds
  <2> QED
    BY <2>1 DEF Holds, AgentHolds, Serves, Echoes, Has, Taken, EchoSteps, CountSteps, OnceSteps
<1>1. ASSUME UNCHANGED clientVars, alive' => alive, Waiting' \subseteq Waiting,
             NEW a \in Agents, \A b \in Agents \ {a} : Stays(b),
             Echoes(a)' => StreamOf(a)',
             at'[a] = "created" => Untouched(cell'[a]),
             at'[a] \in OnceSteps => Untouched(conn'[a]),
             at'[a] = "close" => finished[conn'[a]] \/ gone[conn'[a]],
             \/ ~ Echoes(a)
             \/ Echoes(a)' /\ conn'[a] = conn[a]
             \/ finished[conn[a]] \/ gone[conn[a]]
      PROVE  Streams'
  <2>1. /\ UNCHANGED <<toSend, arriving, finished, gone, got>>
        /\ \A c : Untouched(c)' <=> Untouched(c)
    BY <1>1 DEF clientVars, Untouched, Coming
  <2>2. \A b \in Agents \ {a} : (Echoes(b)' <=> Echoes(b)) /\ (StreamOf(b)' <=> StreamOf(b))
    BY <1>1, <2>1 DEF Stays, Echoes, StreamOf, InHand, Coming
  <2>3. \A b \in Agents : Echoes(b)' => StreamOf(b)'
    BY <1>1, <2>2 DEF Streams, StreamOf
  <2>4. \A b \in Agents : at'[b] = "created" => Untouched(cell'[b])
    BY <1>1 DEF Streams, Stays
  <2>5. \A b \in Agents : at'[b] \in OnceSteps => Untouched(conn'[b])
    BY <1>1 DEF Streams, Stays
  <2>6. \A b \in Agents : at'[b] = "close" => finished[conn'[b]] \/ gone[conn'[b]]
    BY <1>1 DEF Streams, Stays
  <2>7. ASSUME NEW c \in Clients, alive', ~ finished[c], ~ gone[c],
               \A b \in Agents : Echoes(b)' => conn'[b] # c
        PROVE  Untouched(c)
    <3>1. \A b \in Agents : Echoes(b) => conn[b] # c
      BY <1>1, <2>2, <2>7 DEF Stays
    <3> QED
      BY <1>1, <2>7, <3>1 DEF Streams
  <2>8. (\A c \in Waiting' : Untouched(c)) /\ \A c \in Clients : finished[c] => toSend[c] = << >>
    BY <1>1 DEF Streams
  <2> QED
    BY <2>1, <2>3, <2>4, <2>5, <2>6, <2>7, <2>8 DEF Streams, StreamOf, Untouched, Coming
<1>2. ASSUME UNCHANGED clientVars, alive' => alive, Waiting' \subseteq Waiting, UNCHANGED echoVars
      PROVE  Streams'
  <2>1. 1 \in Agents /\ \A b \in Agents : Stays(b)
    BY <1>2 DEF echoVars, Stays, Agents
  <2>2. /\ Echoes(1)' => Echoes(1) /\ StreamOf(1)'
        /\ Echoes(1) => Echoes(1)' /\ conn'[1] = conn[1]
    BY <1>2, <2>1 DEF Streams, StreamOf, InHand, Coming, Echoes, echoVars, clientVars
  <2> QED
    BY <1>1, <1>2, <2>1, <2>2 DEF Streams, Stays
<1>3. ASSUME UNCHANGED <<toSend, finished, gone, alive>>, Waiting' \subseteq Waiting,
             NEW a \in Agents, Echoes(a), \A b \in Agents \ {a} : Stays(b),
             \A c \in Clients \ {conn[a]} : arriving'[c] = arriving[c] /\ got'[c] = got[c],
             Echoes(a)', conn'[a] = conn[a], at'[a] # "close", StreamOf(a)'
      PROVE  Streams'
  <2>1. /\ conn[a] \notin Waiting
        /\ \A b \in Agents \ {a} : at[b] = "created" => cell[b] \in Clients \ {conn[a]}
        /\ \A b \in Agents \ {a} : Echoes(b) \/ at[b] \in OnceSteps => conn[b] \in Clients \ {conn[a]}
    BY <1>00, <1>3 DEF OnePlace
  <2>2. \A c \in Clients \ {conn[a]} : Untouched(c)' <=> Untouched(c)
    BY <1>3 DEF Untouched, Coming
  <2>3. \A b \in Agents \ {a} : Echoes(b)' => Echoes(b) /\ StreamOf(b)'
    <3>1. \A b \in Agents \ {a} : Echoes(b)' => Echoes(b)
      BY <1>3 DEF Stays, Echoes
    <3>2. ASSUME NEW b \in Agents \ {a}, Echoes(b) PROVE StreamOf(b) <=> StreamOf(b)'
      <4>1. Stays(b) /\ conn[b] \in Clients \ {conn[a]} /\ toSend' = toSend
        BY <1>3, <2>1, <3>2
      <4>2. got'[conn[b]] = got[conn[b]] /\ arriving'[conn[b]] = arriving[conn[b]]
        BY <1>3, <4>1
      <4> QED
        BY <4>1, <4>2 DEF Stays, StreamOf, InHand, Coming
    <3> QED
      BY <3>1, <3>2 DEF Streams, StreamOf
  <2>4. \A b \in Agents : Echoes(b)' => StreamOf(b)'
    BY <1>3, <2>3
  <2>5. at'[a] # "created" /\ at'[a] \notin OnceSteps
    BY <1>3 DEF Echoes, EchoSteps, CountSteps, OnceSteps
  <2>6. \A b \in Agents : at'[b] = "created" => Untouched(cell[b])'
    BY <1>3, <2>1, <2>2, <2>5 DEF Streams, Stays
  <2>7. \A b \in Agents : at'[b] \in OnceSteps => Untouched(conn[b])'
    BY <1>3, <2>1, <2>2, <2>5 DEF Streams, Stays
  <2>8. \A b \in Agents : at'[b] = "close" => finished'[conn'[b]] \/ gone'[conn'[b]]
    BY <1>3 DEF Streams, Stays
  <2>9. \A c \in Waiting' : Untouched(c)'
    BY <1>00, <1>3, <2>1, <2>2 DEF Streams
  <2>10. ASSUME NEW c \in Clients, alive', ~ finished'[c], ~ gone'[c],
                \A b \in Agents : Echoes(b)' => conn'[b] # c
         PROVE  Untouched(c)'
    <3>1. c # conn[a] /\ \A b \in Agents : Echoes(b) => conn[b] # c
      BY <1>3, <2>10 DEF Stays, Echoes
    <3> QED
      BY <1>3, <2>2, <2>10, <3>1 DEF Streams
  <2>11. \A c \in Clients : finished'[c] => toSend'[c] = << >>
    BY <1>3 DEF Streams
  <2> QED
    BY <2>4, <2>6, <2>7, <2>8, <2>9, <2>10, <2>11 DEF Streams, StreamOf
<1>4. ASSUME UNCHANGED <<alive, echoVars, mainVars, queue, got>>,
             \A c \in Clients : Coming(c)' = Coming(c),
             \A c \in Clients : finished[c] => finished'[c], \A c \in Clients : gone[c] => gone'[c],
             \A c \in Clients : finished'[c] => toSend'[c] = << >>
      PROVE  Streams'
  <2>1. UNCHANGED <<at, cell, conn, unread, line, left, got, main, connfd, backlog, queue, alive>>
    BY <1>4 DEF echoVars, mainVars
  <2>2. \A c \in Clients : Untouched(c)' <=> Untouched(c)
    BY <1>4 DEF Untouched
  <2>3. \A a \in Agents : (Echoes(a)' <=> Echoes(a)) /\ (Echoes(a) => (StreamOf(a)' <=> StreamOf(a)))
    BY <1>00, <1>4, <2>1 DEF Echoes, StreamOf, InHand
  <2>4. \A a \in Agents : Echoes(a)' => StreamOf(a)'
    BY <2>3 DEF Streams, StreamOf
  <2>5. /\ \A a \in Agents : at'[a] = "created" => Untouched(cell[a])'
        /\ \A a \in Agents : at'[a] \in OnceSteps => Untouched(conn[a])'
    BY <1>00, <2>1, <2>2 DEF Streams
  <2>6. \A a \in Agents : at'[a] = "close" => finished'[conn'[a]] \/ gone'[conn'[a]]
    <3>1. \A a \in Agents : at[a] = "close" => conn[a] \in Clients
      BY <1>00 DEF Echoes, EchoSteps
    <3> QED
      BY <1>4, <2>1, <3>1 DEF Streams
  <2>7. \A c \in Waiting' : Untouched(c)'
    BY <1>00, <2>1, <2>2 DEF Streams, Waiting
  <2>8. ASSUME NEW c \in Clients, alive', ~ finished'[c], ~ gone'[c],
               \A b \in Agents : Echoes(b)' => conn'[b] # c
        PROVE  Untouched(c)'
    BY <1>4, <2>1, <2>2, <2>3, <2>8 DEF Streams
  <2> QED
    BY <1>4, <2>4, <2>5, <2>6, <2>7, <2>8 DEF Streams, StreamOf
<1>5. ASSUME NEW a \in Agents, at'[a] = "read", conn'[a] \in Clients, Untouched(conn'[a]),
             unread'[a] = << >>, line'[a] = << >>, UNCHANGED clientVars
      PROVE  Echoes(a)' /\ StreamOf(a)'
  <2> DEFINE c == conn'[a]
  <2>1. got[c] = << >> /\ Coming(c) = Script[c] /\ UNCHANGED <<got, arriving, toSend>>
    BY <1>5 DEF Untouched, clientVars
  <2>2. Coming(c) \in Seq(Chars)
    BY <1>0, <1>5, ConcatProperties DEF Coming
  <2>3. << >> \o Coming(c) = Coming(c)
    BY <2>2, ConcatEmptySeq
  <2> QED
    BY <1>5, <2>1, <2>3 DEF Echoes, EchoSteps, StreamOf, InHand, Coming
<1>6. CASE Accept \/ ParentCloses \/ InsertConnfd
  <2>1. UNCHANGED <<clientVars, alive, echoVars>>
    BY <1>6 DEF Accept, ParentCloses, InsertConnfd, Sbuf!Put, echoVars
  <2>2. CASE Accept
    <3>1. ToSet(backlog) = {connfd'} \cup ToSet(backlog') /\ queue' = queue
      BY <1>0, <2>2, TailHolds DEF Accept
    <3> QED
      BY <1>2, <2>1, <2>2, <3>1 DEF Waiting, Accept
  <2>3. CASE ParentCloses
    BY <1>2, <2>1, <2>3 DEF Waiting, ParentCloses
  <2>4. CASE InsertConnfd
    <3>1. connfd \in Clients /\ queue' = Append(queue, connfd)
      BY <2>4 DEF InsertConnfd, Sbuf!Put, Holds, MainHolds
    <3>2. ToSet(queue') = ToSet(queue) \cup {connfd}
      BY <1>0, <3>1, AppendHolds
    <3> QED
      BY <1>2, <2>1, <2>4, <3>2 DEF Waiting, InsertConnfd
  <2> QED
    BY <1>6, <2>2, <2>3, <2>4
<1>7. ASSUME NEW a \in Agents, (a = 1 /\ StartIterative) \/ StartProcess(a) PROVE Streams'
  <2>1. /\ at[a] = "idle" /\ main = "start" /\ Begins(a, connfd) /\ connfd \in Clients
        /\ UNCHANGED <<clientVars, alive, backlog, queue, connfd>> /\ main' \in {"accept", "close"}
    BY <1>7 DEF StartIterative, StartProcess, NewAgent, Holds, MainHolds
  <2>2. /\ at'[a] = "read" /\ conn'[a] = connfd /\ unread'[a] = << >> /\ line'[a] = line[a]
        /\ \A b \in Agents \ {a} : Stays(b)
    BY <1>0, <2>1 DEF Begins, rio_readinitb, Stays
  <2>3. line[a] = << >>
    BY <2>1 DEF Holds, AgentHolds, HasLine
  <2>4. Untouched(connfd)
    BY <2>1 DEF Streams, Waiting
  <2>5. StreamOf(a)'
    BY <1>5, <2>1, <2>2, <2>3, <2>4
  <2>6. ~ Echoes(a) /\ Waiting' \subseteq Waiting
    BY <2>1 DEF Echoes, EchoSteps, CountSteps, Waiting
  <2> QED
    BY <1>1, <2>1, <2>2, <2>5, <2>6 DEF OnceSteps
<1>8. ASSUME NEW a \in Agents, StartThread(a) PROVE Streams'
  <2>1. /\ at[a] = "idle" /\ main = "start" /\ main' = "accept" /\ connfd \in Clients
        /\ UNCHANGED <<clientVars, alive, backlog, queue, connfd>>
    BY <1>8 DEF StartThread, NewAgent, Holds, MainHolds
  <2>2. /\ at'[a] = "created" /\ cell'[a] = connfd
        /\ \A b \in Agents \ {a} : Stays(b)
    BY <1>0, <1>8 DEF StartThread, Stays
  <2>3. Untouched(connfd)
    BY <2>1 DEF Streams, Waiting
  <2>4. ~ Echoes(a) /\ ~ Echoes(a)' /\ Waiting' \subseteq Waiting
    BY <2>1, <2>2 DEF Echoes, EchoSteps, CountSteps, Waiting
  <2> QED
    BY <1>1, <2>1, <2>2, <2>3, <2>4 DEF OnceSteps
<1>9. ASSUME NEW a \in Agents, ThreadStarts(a) \/ OnceDone(a) PROVE Streams'
  <2> DEFINE c == IF at[a] = "created" THEN cell[a] ELSE conn[a]
  <2>1. /\ at[a] \in {"created", "once"} /\ UNCHANGED <<clientVars, alive, mainVars, queue, line>>
        /\ at' = [at EXCEPT ![a] = "read"] /\ unread' = [unread EXCEPT ![a] = << >>]
    BY <1>9 DEF ThreadStarts, OnceDone, rio_readinitb
  <2>2. /\ at'[a] = "read" /\ conn'[a] = c /\ unread'[a] = << >> /\ line'[a] = line[a]
        /\ \A b \in Agents \ {a} : Stays(b)
    BY <1>0, <1>9, <2>1 DEF ThreadStarts, OnceDone, Stays
  <2>3. line[a] = << >> /\ c \in Clients /\ Untouched(c)
    BY <1>00, <2>1 DEF Holds, AgentHolds, HasLine, Streams, OnceSteps
  <2> HIDE DEF c
  <2>4. StreamOf(a)'
    BY <1>5, <2>1, <2>2, <2>3
  <2>5. ~ Echoes(a) /\ Waiting' \subseteq Waiting
    BY <2>1 DEF Echoes, EchoSteps, CountSteps, Waiting, mainVars
  <2> QED
    BY <1>1, <2>1, <2>2, <2>4, <2>5 DEF OnceSteps
<1>10. ASSUME NEW a \in Agents, RemoveConnfd(a) PROVE Streams'
  <2>1. /\ at[a] = "idle" /\ UNCHANGED <<clientVars, alive, mainVars>>
        /\ queue # << >> /\ queue' = Tail(queue)
    BY <1>10 DEF RemoveConnfd, Sbuf!Take
  <2>2. at'[a] = "once" /\ conn'[a] = Head(queue) /\ \A b \in Agents \ {a} : Stays(b)
    BY <1>0, <1>10 DEF RemoveConnfd, Sbuf!Take, Stays
  <2>3. ToSet(queue) = {Head(queue)} \cup ToSet(queue')
    BY <1>0, <2>1, TailHolds
  <2>4. Untouched(Head(queue))
    BY <2>3 DEF Streams, Waiting
  <2>5. ~ Echoes(a) /\ ~ Echoes(a)' /\ Waiting' \subseteq Waiting
    BY <2>1, <2>2, <2>3 DEF Echoes, EchoSteps, CountSteps, Waiting, mainVars
  <2> QED
    BY <1>1, <2>1, <2>2, <2>4, <2>5
<1>11. ASSUME NEW a \in Agents, OnceBegins(a) \/ init_echo_cnt(a) PROVE Streams'
  <2>1. /\ at[a] \in OnceSteps /\ UNCHANGED <<clientVars, alive, mainVars, queue>>
        /\ UNCHANGED <<cell, conn, unread, line, left>>
        /\ \E next \in OnceSteps : at' = [at EXCEPT ![a] = next]
    BY <1>11 DEF OnceBegins, init_echo_cnt, OnceSteps
  <2>2. at'[a] \in OnceSteps /\ conn'[a] = conn[a] /\ \A b \in Agents \ {a} : Stays(b)
    BY <1>0, <2>1 DEF Stays
  <2>3. /\ ~ Echoes(a) /\ ~ Echoes(a)' /\ Waiting' \subseteq Waiting
        /\ at'[a] # "created" /\ at'[a] # "close"
    BY <2>1, <2>2 DEF Echoes, EchoSteps, CountSteps, OnceSteps, Waiting, mainVars
  <2>4. Untouched(conn[a])
    BY <2>1 DEF Streams
  <2> QED
    BY <1>1, <2>1, <2>2, <2>3, <2>4
<1>12. ASSUME NEW a \in Agents, TakeBuffered(a) PROVE Streams'
  <2> DEFINE rest == Coming(conn[a])
  <2>1. /\ at[a] = "read" /\ Reads(a, unread[a]) /\ UNCHANGED <<clientVars, alive, mainVars, queue>>
    BY <1>12 DEF TakeBuffered
  <2>2. Echoes(a) /\ conn[a] \in Clients /\ InHand(a) = line[a]
    BY <1>00, <2>1 DEF Echoes, EchoSteps, InHand
  <2>3. rest \in Seq(Chars) /\ unread[a] \in Seq(Chars)
    BY <1>0, <2>2, ConcatProperties DEF Coming
  <2>4. Coming(conn[a])' = Coming(conn'[a]) \/ TRUE
    OBVIOUS
  <2> HIDE DEF rest
  <2>5. /\ line[a] \o (unread[a] \o rest) = InHand(a)' \o (unread'[a] \o rest)
        /\ Echoes(a)' /\ at'[a] # "close" /\ conn'[a] = conn[a]
    BY <2>1, <2>3, ReadsStream
  <2>6. StreamOf(a)'
    <3>1. StreamOf(a)
      BY <2>2 DEF Streams, StreamOf
    <3> QED
      BY <2>1, <2>2, <2>5, <3>1 DEF StreamOf, Coming, rest, clientVars
  <2>7. (\A b \in Agents \ {a} : Stays(b)) /\ Waiting' \subseteq Waiting
    BY <2>1, ReadsDoes DEF Waiting, mainVars
  <2>8. at'[a] # "created" /\ at'[a] \notin OnceSteps
    BY <2>5 DEF Echoes, EchoSteps, CountSteps, OnceSteps
  <2> QED
    BY <1>1, <2>1, <2>5, <2>6, <2>7, <2>8
<1>13. ASSUME NEW a \in Agents, Refill(a) PROVE Streams'
  <2> DEFINE c == conn[a]
             now == ReadNow(arriving[c])
             later == LeftBy(arriving[c])
             rest == later \o toSend[c]
  <2>1. /\ at[a] = "read" /\ unread[a] = << >> /\ Reads(a, now)
        /\ arriving' = [arriving EXCEPT ![c] = later]
        /\ UNCHANGED <<toSend, finished, gone, got, alive, mainVars, queue>>
    BY <1>13 DEF Refill
  <2>2. Echoes(a) /\ c \in Clients /\ InHand(a) = line[a] /\ got[c] \in Seq(Chars)
    BY <1>0, <1>00, <2>1 DEF Echoes, EchoSteps, InHand
  <2>3. /\ arriving[c] \in Seq(Chars) /\ toSend[c] \in Seq(Chars)
        /\ now \in Seq(Chars) /\ later \in Seq(Chars) /\ arriving[c] = now \o later
    <3>1. arriving[c] \in Seq(Chars) /\ toSend[c] \in Seq(Chars)
      BY <1>0, <2>2
    <3> QED
      BY <3>1, ReadSplits
  <2>4. StreamOf(a)
    BY <2>2 DEF Streams, StreamOf
  <2>5. arriving'[c] = later /\ \A d \in Clients \ {c} : arriving'[d] = arriving[d]
    BY <1>0, <2>1, <2>2
  <2>6. Coming(c) = (now \o later) \o toSend[c]
    BY <2>3 DEF Coming
  <2> HIDE DEF now, later
  <2>7. rest \in Seq(Chars) /\ (now \o later) \o toSend[c] = now \o rest
    <3> DEFINE last == toSend[c]
    <3>1. now \in Seq(Chars) /\ later \in Seq(Chars) /\ last \in Seq(Chars)
      BY <2>3
    <3> HIDE DEF c, last
    <3>2. later \o last \in Seq(Chars)
      BY ONLY <3>1, ConcatProperties
    <3>3. (now \o later) \o last = now \o (later \o last)
      BY ONLY <3>1, ConcatAssociative
    <3> QED
      BY <3>2, <3>3 DEF last
  <2>8. Coming(c) \in Seq(Chars) /\ << >> \o Coming(c) = Coming(c)
    <3>1. now \in Seq(Chars)
      BY <2>3
    <3>2. now \o rest \in Seq(Chars)
      BY <2>7, <3>1, ConcatProperties
    <3> QED
      BY <2>6, <2>7, <3>2, ConcatEmptySeq
  <2> HIDE DEF rest
  <2>9. /\ line[a] \o (now \o rest) = InHand(a)' \o (unread'[a] \o rest)
        /\ Echoes(a)' /\ at'[a] # "close" /\ conn'[a] = c
    BY <2>1, <2>3, <2>7, ReadsStream
  <2>10. Coming(conn[a])' = rest
    BY <2>1, <2>5, <2>9 DEF Coming, rest
  <2>11. StreamOf(a)'
    <3>1. Script[c] = got[c] \o (line[a] \o (now \o rest))
      BY <2>1, <2>2, <2>4, <2>6, <2>7, <2>8 DEF StreamOf
    <3>2. Script[c] = got'[c] \o (InHand(a)' \o (unread'[a] \o rest))
      BY <2>1, <2>9, <3>1
    <3> QED
      BY <2>9, <2>10, <3>2 DEF StreamOf
  <2>12. (\A b \in Agents \ {a} : Stays(b)) /\ Waiting' \subseteq Waiting
    BY <2>1, ReadsDoes DEF Waiting, mainVars
  <2> QED
    BY <1>3, <2>1, <2>2, <2>5, <2>9, <2>11, <2>12
<1>14. ASSUME NEW a \in Agents, EndOfFile(a) PROVE Streams'
  <2>1. /\ at[a] = "read" /\ UNCHANGED <<clientVars, alive, mainVars, queue, cell, conn, unread, line>>
        /\ at' = [at EXCEPT ![a] = IF line[a] = << >> THEN "close" ELSE LineRead]
        /\ left' = [left EXCEPT ![a] = line[a]]
        /\ finished[conn[a]] \/ gone[conn[a]]
    BY <1>14 DEF EndOfFile
  <2>2. /\ at'[a] \in {"close", "lock", "write"} /\ left'[a] = line[a] /\ \A b \in Agents \ {a} : Stays(b)
    BY <1>0, <2>1 DEF Stays, LineRead
  <2>3. Echoes(a) /\ Echoes(a)' /\ InHand(a) = line[a] /\ InHand(a)' = line[a]
    BY <2>1, <2>2 DEF Echoes, EchoSteps, CountSteps, InHand
  <2>4. StreamOf(a)'
    BY <2>1, <2>3 DEF Streams, StreamOf, Coming, clientVars
  <2>5. Waiting' \subseteq Waiting
    BY <2>1 DEF Waiting, mainVars
  <2> QED
    BY <1>1, <2>1, <2>2, <2>3, <2>4, <2>5 DEF OnceSteps
<1>15. ASSUME NEW a \in Agents, Lock(a) \/ Load(a) \/ Store(a) \/ Unlock(a) PROVE Streams'
  <2>1. /\ at[a] \in CountSteps /\ UNCHANGED <<clientVars, alive, mainVars, queue, cell, conn, unread, line, left>>
        /\ \E next \in CountSteps \cup {"write"} : at' = [at EXCEPT ![a] = next]
    BY <1>15 DEF Lock, Load, Store, Unlock, CountSteps
  <2>2. at'[a] \in CountSteps \cup {"write"} /\ \A b \in Agents \ {a} : Stays(b)
    BY <1>0, <2>1 DEF Stays
  <2>3. Echoes(a) /\ Echoes(a)' /\ InHand(a) = left[a] /\ InHand(a)' = left[a]
    BY <2>1, <2>2 DEF Echoes, EchoSteps, CountSteps, InHand
  <2>4. StreamOf(a)'
    BY <2>1, <2>3 DEF Streams, StreamOf, Coming, clientVars
  <2>5. Waiting' \subseteq Waiting
    BY <2>1 DEF Waiting, mainVars
  <2> QED
    BY <1>1, <2>1, <2>2, <2>3, <2>4, <2>5 DEF OnceSteps, CountSteps
<1>16. ASSUME NEW a \in Agents, Write(a) PROVE Streams'
  <2> DEFINE c == conn[a]
             rest == unread[a] \o Coming(c)
  <2>1. /\ at[a] = "write" /\ UNCHANGED <<toSend, arriving, finished, gone, alive, mainVars, queue, conn, unread>>
    BY <1>16 DEF Write
  <2>2. PICK new \in Seq(Chars), after \in Seq(Chars) :
            /\ left[a] = new \o after /\ left'[a] = after
            /\ got' = [got EXCEPT ![c] = @ \o new]
            /\ \/ after = << >> /\ at'[a] = "read" /\ line'[a] = << >>
               \/ at'[a] = "write"
            /\ \A b \in Agents \ {a} : Stays(b)
    BY <1>16, WriteDoes
  <2>3. Echoes(a) /\ c \in Clients /\ InHand(a) = left[a]
    BY <1>00, <2>1 DEF Echoes, EchoSteps, InHand
  <2>4. Echoes(a)' /\ InHand(a)' = after /\ at'[a] # "close"
    BY <2>2 DEF Echoes, EchoSteps, InHand
  <2>5. got'[c] = got[c] \o new /\ \A d \in Clients \ {c} : got'[d] = got[d]
    BY <1>0, <2>2, <2>3
  <2>6. rest \in Seq(Chars) /\ got[c] \in Seq(Chars)
    <3>1. unread[a] \in Seq(Chars) /\ toSend[c] \in Seq(Chars) /\ arriving[c] \in Seq(Chars)
      BY <1>0, <2>3
    <3>2. Coming(c) \in Seq(Chars)
      BY <3>1, ConcatProperties DEF Coming
    <3> QED
      BY <1>0, <2>3, <3>1, <3>2, ConcatProperties
  <2>7. StreamOf(a)
    BY <2>3 DEF Streams, StreamOf
  <2>8. Coming(c)' = Coming(c) /\ rest = unread'[a] \o Coming(c)
    BY <2>1 DEF Coming
  <2>9. Script[c] = got[c] \o ((new \o after) \o rest)
    BY <2>2, <2>3, <2>7 DEF StreamOf
  <2> HIDE DEF rest
  <2>10. got[c] \o ((new \o after) \o rest) = (got[c] \o new) \o (after \o rest)
    <3> DEFINE last == after \o rest
    <3>1. last \in Seq(Chars) /\ (new \o after) \o rest = new \o last
      BY <2>6, ConcatProperties, ConcatAssociative
    <3> HIDE DEF last
    <3>2. got[c] \o (new \o last) = (got[c] \o new) \o last
      <4> DEFINE g == got[c]
      <4>1. g \in Seq(Chars) /\ new \in Seq(Chars) /\ last \in Seq(Chars)
        BY <2>6, <3>1
      <4> HIDE DEF g
      <4>2. (g \o new) \o last = g \o (new \o last)
        BY ONLY <4>1, ConcatAssociative
      <4> QED
        BY <4>2 DEF g
    <3> QED
      BY <3>1, <3>2 DEF last
  <2>11. Script[c] = got'[c] \o (InHand(a)' \o (unread'[a] \o Coming(c)))
    BY <2>4, <2>5, <2>8, <2>9, <2>10
  <2>12. StreamOf(a)'
    BY <2>1, <2>8, <2>11 DEF StreamOf, Coming
  <2>13. Waiting' \subseteq Waiting
    BY <2>1 DEF Waiting, mainVars
  <2> QED
    BY <1>3, <2>1, <2>2, <2>3, <2>4, <2>5, <2>12, <2>13
<1>17. ASSUME NEW a \in Agents, Close(a) \/ IoFails(a) PROVE Streams'
  <2>1. at'[a] \in {"idle", "exited"} /\ \A b \in Agents \ {a} : Stays(b)
    BY <1>17, LeavesDoes DEF Close, IoFails
  <2>2. UNCHANGED <<clientVars, mainVars, queue>> /\ (alive' => alive)
    BY <1>17 DEF Close, IoFails
  <2>3. finished[conn[a]] \/ gone[conn[a]]
    BY <1>17 DEF Close, IoFails, Streams
  <2>4. Waiting' \subseteq Waiting
    BY <2>2 DEF Waiting, mainVars
  <2>5. ~ Echoes(a)'
    BY <2>1 DEF Echoes, EchoSteps, CountSteps
  <2> QED
    BY <1>1, <2>1, <2>2, <2>3, <2>4, <2>5 DEF OnceSteps
<1>18. ASSUME NEW c \in Clients, Connect(c) PROVE Streams'
  <2>1. /\ alive /\ open[c] = {} /\ ~ finished[c] /\ ~ gone[c] /\ backlog' = Append(backlog, c)
        /\ UNCHANGED <<clientVars, alive, echoVars, queue, main, connfd>>
    BY <1>18 DEF Connect, Connected
  <2>2. ToSet(backlog') = ToSet(backlog) \cup {c}
    BY <1>0, <2>1, AppendHolds
  <2>3. \A a \in Agents : Echoes(a) => conn[a] # c
    BY <1>00, <2>1 DEF HeldOpen
  <2>4. Untouched(c)
    BY <2>1, <2>3 DEF Streams
  <2>5. UNCHANGED <<toSend, arriving, finished, gone, got, at, cell, conn, unread, line, left>>
    BY <2>1 DEF clientVars, echoVars
  <2>6. Waiting' = Waiting \cup {c}
    BY <2>1, <2>2 DEF Waiting
  <2> QED
    BY <2>1, <2>4, <2>5, <2>6 DEF Streams, Untouched, Coming, Echoes, InHand
<1>19. ASSUME NEW c \in Clients, ClientSends(c) PROVE Streams'
  <2>1. /\ toSend[c] # << >> /\ arriving' = [arriving EXCEPT ![c] = Append(@, Head(toSend[c]))]
        /\ toSend' = [toSend EXCEPT ![c] = Tail(@)]
        /\ UNCHANGED <<alive, echoVars, mainVars, queue, got, finished, gone>>
    BY <1>19 DEF ClientSends
  <2>2. toSend[c] \in Seq(Chars) /\ arriving[c] \in Seq(Chars)
    BY <1>0
  <2>3. /\ arriving'[c] = Append(arriving[c], Head(toSend[c])) /\ toSend'[c] = Tail(toSend[c])
        /\ \A d \in Clients \ {c} : arriving'[d] = arriving[d] /\ toSend'[d] = toSend[d]
    BY <1>0, <2>1
  <2>4. Coming(c)' = Coming(c)
    BY <2>1, <2>2, <2>3, SendingMoves DEF Coming
  <2>5. \A d \in Clients \ {c} : Coming(d)' = Coming(d)
    BY <2>3 DEF Coming
  <2>6. \A d \in Clients : finished'[d] => toSend'[d] = << >>
    BY <2>1, <2>3 DEF Streams
  <2> QED
    BY <1>4, <2>1, <2>4, <2>5, <2>6
<1>20. ASSUME NEW c \in Clients, ClientFinishes(c) \/ ClientGone(c) PROVE Streams'
  <2>1. UNCHANGED <<alive, echoVars, mainVars, queue, got, arriving, toSend>>
    BY <1>20 DEF ClientFinishes, ClientGone
  <2>2. \A d \in Clients : Coming(d)' = Coming(d)
    BY <2>1 DEF Coming
  <2>3. finished \in [Clients -> BOOLEAN] /\ gone \in [Clients -> BOOLEAN]
    BY DEF EchoTypes
  <2>4. /\ \A d \in Clients : finished'[d] => finished[d] \/ toSend[d] = << >>
        /\ \A d \in Clients : finished[d] => finished'[d]
        /\ \A d \in Clients : gone[d] => gone'[d]
    BY <1>20, <2>3 DEF ClientFinishes, ClientGone
  <2> QED
    BY <1>4, <2>1, <2>2, <2>4 DEF Streams
<1>21. CASE Deliver \/ sigchld_handler \/ UNCHANGED vars
  BY <1>2, <1>21 DEF Deliver, sigchld_handler, vars, Waiting, mainVars
<1> QED
  <2>1. 1 \in Agents
    BY DEF Agents
  <2> QED
    BY <2>1, <1>6, <1>7, <1>8, <1>9, <1>10, <1>11, <1>12, <1>13, <1>14, <1>15, <1>16, <1>17, <1>18,
       <1>19, <1>20, <1>21 DEF Next, Main, Agent, Client

----------------------------------------------------------------------------
(* The lines. *)

(* An empty line has no end in it, and neither has a line that ends nowhere *)
(* before its last character and not there.                                 *)
LEMMA NoEndYet ==
    ASSUME NEW S, NEW s \in Seq(S)
    PROVE  /\ s = << >> => NoEnd(s, Len(s))
           /\ NoEnd(s, Len(s) - 1) /\ ~ LineEnds(s) => NoEnd(s, Len(s))
           /\ NoEnd(s, Len(s)) => NoEnd(s, Len(s) - 1)
<1>1. Len(s) \in Nat /\ SubSeq(s, 1, Len(s)) = s
  BY LenProperties, SubSeqFull
<1>2. ASSUME s = << >> PROVE NoEnd(s, Len(s))
  <2>1. Len(s) = 0
    BY <1>2, EmptySeq
  <2> QED
    BY <2>1 DEF NoEnd
<1>3. \A k \in 1 .. Len(s) : k = Len(s) \/ k \in 1 .. Len(s) - 1
  <2>1. Len(s) \in Nat
    BY <1>1
  <2> QED
    BY <2>1
<1>4. \A k \in 1 .. Len(s) - 1 : k \in 1 .. Len(s)
  BY <1>1
<1> QED
  BY <1>1, <1>2, <1>3, <1>4 DEF NoEnd

(* An agent keeps its line while others work: nothing it knows of its own   *)
(* connection changes.                                                      *)
LEMMA LineStays ==
    ASSUME NEW b \in Agents, Stays(b), LineOf(b),
           HasLine(b) => got'[conn[b]] = got[conn[b]],
           HasLine(b) => (gone[conn[b]] => gone'[conn[b]]),
           HasLine(b) => (Coming(conn[b]) = << >> => arriving'[conn[b]] \o toSend'[conn[b]] = << >>)
    PROVE  LineOf(b)'
BY DEF Stays, LineOf, HasLine, AtEnd, Coming

(* Every operation leaves a line cut at its first end.                      *)
LEMMA LinesKept ==
    ASSUME EchoTypes, Holds, OnePlace, Streams, Lines, [Next]_vars
    PROVE  Lines'
<1> USE EchoAssumption
<1>0. /\ at \in [Agents -> Labels] /\ conn \in [Agents -> Clients \cup {None}]
      /\ cell \in [Agents -> Clients \cup {None}]
      /\ unread \in [Agents -> Seq(Chars)] /\ line \in [Agents -> Seq(Chars)]
      /\ left \in [Agents -> Seq(Chars)]
      /\ toSend \in [Clients -> Seq(Chars)] /\ arriving \in [Clients -> Seq(Chars)]
      /\ got \in [Clients -> Seq(Chars)]
  BY DEF EchoTypes
<1>00. /\ \A a \in Agents : HasLine(a) => conn[a] \in Clients /\ Has(a) /\ Taken(a) = conn[a]
       /\ \A a \in Agents : Echoes(a) => conn[a] \in Clients /\ Has(a) /\ Taken(a) = conn[a]
  BY DEF Holds, AgentHolds, Serves, HasLine, Echoes, Has, Taken, EchoSteps, CountSteps
<1>1. ASSUME UNCHANGED clientVars, NEW a \in Agents, \A b \in Agents \ {a} : Stays(b), LineOf(a)'
      PROVE  Lines'
  <2>1. \A b \in Agents \ {a} : LineOf(b)'
    BY <1>1, LineStays DEF Lines, clientVars, Coming
  <2> QED
    BY <1>1, <2>1 DEF Lines
<1>2. ASSUME UNCHANGED <<got, gone>>, UNCHANGED echoVars,
             \A c \in Clients : Coming(c) = << >> => arriving'[c] \o toSend'[c] = << >>
      PROVE  Lines'
  <2>1. \A b \in Agents : Stays(b)
    BY <1>2 DEF Stays, echoVars
  <2>2. \A b \in Agents : LineOf(b)'
    BY <1>00, <1>2, <2>1, LineStays DEF Lines
  <2> QED
    BY <2>2 DEF Lines
<1>3. ASSUME NEW a \in Agents, at'[a] \in {"idle", "created", "exited", "close"} \cup OnceSteps PROVE LineOf(a)'
  BY <1>3 DEF LineOf, HasLine, OnceSteps
<1>4. ASSUME NEW a \in Agents, at'[a] = "read", line'[a] = << >> PROVE LineOf(a)'
  <2>1. NoEnd(<< >>, Len(<< >>))
    BY EmptySeq, NoEndYet
  <2> QED
    BY <1>4, <2>1 DEF LineOf, HasLine
<1>5. CASE Accept \/ ParentCloses \/ InsertConnfd
  <2>1. UNCHANGED <<clientVars, echoVars>>
    BY <1>5 DEF Accept, ParentCloses, InsertConnfd, Sbuf!Put, echoVars
  <2> QED
    BY <1>2, <2>1 DEF clientVars, Coming
<1>6. ASSUME NEW a \in Agents,
             (a = 1 /\ StartIterative) \/ StartProcess(a) \/ ThreadStarts(a) \/ OnceDone(a)
      PROVE  Lines'
  <2>1. UNCHANGED <<clientVars, line, left>> /\ at' = [at EXCEPT ![a] = "read"]
    BY <1>6 DEF StartIterative, StartProcess, ThreadStarts, OnceDone, Begins
  <2>2. at[a] \in {"idle", "created", "once"}
    BY <1>6 DEF StartIterative, StartProcess, ThreadStarts, OnceDone, NewAgent, Holds, MainHolds
  <2>3. at'[a] = "read" /\ line'[a] = << >>
    BY <1>0, <2>1, <2>2 DEF Holds, AgentHolds, HasLine
  <2>4. \A b \in Agents \ {a} : Stays(b)
    BY <1>0, <1>6 DEF StartIterative, StartProcess, ThreadStarts, OnceDone, Begins, Stays
  <2> QED
    BY <1>1, <1>4, <2>1, <2>3, <2>4
<1>7. ASSUME NEW a \in Agents, StartThread(a) \/ RemoveConnfd(a) \/ OnceBegins(a) \/ init_echo_cnt(a)
      PROVE  Lines'
  <2>1. at'[a] \in {"created"} \cup OnceSteps /\ UNCHANGED clientVars
    BY <1>0, <1>7 DEF StartThread, RemoveConnfd, OnceBegins, init_echo_cnt, OnceSteps
  <2>2. \A b \in Agents \ {a} : Stays(b)
    BY <1>0, <1>7 DEF StartThread, RemoveConnfd, Sbuf!Take, OnceBegins, init_echo_cnt, Stays
  <2> QED
    BY <1>1, <1>3, <2>1, <2>2
<1>8. ASSUME NEW a \in Agents, NEW stream \in Seq(Chars), at[a] = "read", Reads(a, stream), stream # << >>,
             got' = got
      PROVE  LineOf(a)'
  <2>1. /\ line'[a] = LineWith(stream, line[a]) /\ conn'[a] = conn[a]
        /\ \/ LineEnds(line'[a]) /\ at'[a] = LineRead /\ left'[a] = line'[a]
           \/ ~ LineEnds(line'[a]) /\ at'[a] = at[a] /\ left'[a] = left[a]
    BY <1>8, ReadsDoes
  <2>2. line[a] \in Seq(Chars) /\ NoEnd(line[a], Len(line[a]))
    BY <1>0, <1>8 DEF Lines, LineOf
  <2>3. line'[a] \in Seq(Chars) /\ line'[a] # << >> /\ NoEnd(line'[a], Len(line'[a]) - 1)
    BY <1>8, <2>1, <2>2, MoveSplits
  <2>4. CASE LineEnds(line'[a])
    <3>1. conn[a] \in Clients /\ got[conn[a]] \in Seq(Chars)
      BY <1>0, <1>00, <1>8 DEF Echoes, EchoSteps
    <3>2. << >> \in Seq(Chars) /\ got'[conn'[a]] = got[conn[a]] \o << >> /\ line'[a] = << >> \o left'[a]
      BY <1>8, <2>1, <2>3, <2>4, <3>1, EmptySeq, ConcatEmptySeq
    <3>3. \E before, written \in Seq(Chars) :
              got'[conn'[a]] = before \o written /\ line'[a] = written \o left'[a]
      BY <3>1, <3>2
    <3>4. at'[a] # "read"
      BY <2>1, <2>4 DEF LineRead
    <3> QED
      BY <2>3, <2>4, <3>3, <3>4 DEF LineOf
  <2>5. CASE ~ LineEnds(line'[a])
    <3>1. at'[a] = "read" /\ NoEnd(line'[a], Len(line'[a]))
      BY <1>8, <2>1, <2>3, <2>5, NoEndYet
    <3> QED
      BY <3>1 DEF LineOf, HasLine
  <2> QED
    BY <2>4, <2>5
<1>9. ASSUME NEW a \in Agents, TakeBuffered(a) PROVE Lines'
  <2>1. /\ at[a] = "read" /\ Reads(a, unread[a]) /\ unread[a] # << >> /\ unread[a] \in Seq(Chars)
        /\ UNCHANGED clientVars
    BY <1>0, <1>9 DEF TakeBuffered
  <2>2. \A b \in Agents \ {a} : Stays(b)
    BY <2>1, ReadsDoes
  <2>3. LineOf(a)'
    BY <1>8, <2>1 DEF clientVars
  <2> QED
    BY <1>1, <2>1, <2>2, <2>3
<1>10. ASSUME NEW a \in Agents, Refill(a) PROVE Lines'
  <2> DEFINE c == conn[a]
             now == ReadNow(arriving[c])
  <2>1. /\ at[a] = "read" /\ Reads(a, now) /\ Arrived(arriving[c])
        /\ arriving' = [arriving EXCEPT ![c] = LeftBy(@)]
        /\ UNCHANGED <<toSend, finished, gone, got>>
    BY <1>10 DEF Refill
  <2>2. c \in Clients /\ Has(a) /\ Taken(a) = c
    BY <1>00, <2>1 DEF Echoes, EchoSteps
  <2>3. now \in Seq(Chars) /\ now # << >>
    <3>1. arriving[c] \in Seq(Chars)
      BY <1>0, <2>2
    <3> QED
      BY <2>1, <3>1, ReadSplits
  <2> HIDE DEF now, c
  <2>4. LineOf(a)'
    BY <1>8, <2>1, <2>3
  <2>5. \A b \in Agents \ {a} : Stays(b)
    BY <2>1, ReadsDoes
  <2>6. ASSUME NEW b \in Agents \ {a} PROVE LineOf(b)'
    <3>1. HasLine(b) => conn[b] \in Clients \ {c}
      BY <1>00, <2>2 DEF OnePlace
    <3>2. HasLine(b) => arriving'[conn[b]] = arriving[conn[b]]
      BY <1>0, <2>1, <3>1
    <3> QED
      BY <2>1, <2>5, <3>2, LineStays DEF Lines, Coming
  <2> QED
    BY <2>4, <2>6 DEF Lines
<1>11. ASSUME NEW a \in Agents, EndOfFile(a) PROVE Lines'
  <2> DEFINE c == conn[a]
  <2>1. /\ at[a] = "read" /\ unread[a] = << >> /\ ~ Arrived(arriving[c])
        /\ finished[c] \/ gone[c]
        /\ at' = [at EXCEPT ![a] = IF line[a] = << >> THEN "close" ELSE LineRead]
        /\ left' = [left EXCEPT ![a] = line[a]]
        /\ UNCHANGED <<cell, conn, unread, line, clientVars>>
    BY <1>11 DEF EndOfFile
  <2>2. c \in Clients
    BY <1>00, <2>1 DEF Echoes, EchoSteps
  <2>3. \A b \in Agents \ {a} : Stays(b)
    BY <1>0, <2>1 DEF Stays
  <2>4. line[a] \in Seq(Chars) /\ NoEnd(line[a], Len(line[a])) /\ got[c] \in Seq(Chars)
    BY <1>0, <2>1, <2>2 DEF Lines, LineOf
  <2>5. LineOf(a)'
    <3>1. CASE line[a] = << >>
      <4>1. at'[a] = "close"
        BY <1>0, <2>1, <3>1
      <4> QED
        BY <1>3, <4>1
    <3>2. CASE line[a] # << >>
      <4>1. at'[a] = LineRead /\ left'[a] = line[a] /\ line'[a] = line[a] /\ conn'[a] = c
        BY <1>0, <2>1, <3>2
      <4>2. at'[a] # "read"
        BY <4>1 DEF LineRead
      <4>3. NoEnd(line[a], Len(line[a]) - 1)
        BY <2>4, NoEndYet
      <4>4. gone[c] \/ (arriving[c] = << >> /\ toSend[c] = << >>)
        <5>1. arriving[c] \in Seq(Chars)
          BY <1>0, <2>2
        <5>2. Len(arriving[c]) \in Nat /\ ~ (Len(arriving[c]) > 0)
          BY <2>1, <5>1, LenProperties DEF Arrived
        <5>3. arriving[c] = << >>
          BY <5>1, <5>2, EmptySeq
        <5> QED
          BY <2>1, <2>2, <5>3 DEF Streams
      <4>5. gone'[c] \/ (unread'[a] = << >> /\ arriving'[c] \o toSend'[c] = << >>)
        BY <2>1, <4>4, EmptySeq, ConcatEmptySeq DEF clientVars
      <4>6. gone'[conn'[a]] \/ AtEnd(a)'
        BY <4>1, <4>5 DEF AtEnd, Coming
      <4>7. << >> \in Seq(Chars) /\ got'[conn'[a]] = got[c] \o << >> /\ line'[a] = << >> \o left'[a]
        BY <2>1, <2>4, <4>1, EmptySeq, ConcatEmptySeq DEF clientVars
      <4>8. \E before, written \in Seq(Chars) :
                got'[conn'[a]] = before \o written /\ line'[a] = written \o left'[a]
        BY <2>4, <4>7
      <4> QED
        BY <3>2, <4>1, <4>2, <4>3, <4>6, <4>8 DEF LineOf
    <3> QED
      BY <3>1, <3>2
  <2> QED
    BY <1>1, <2>1, <2>3, <2>5
<1>12. ASSUME NEW a \in Agents, Lock(a) \/ Load(a) \/ Store(a) \/ Unlock(a) PROVE Lines'
  <2>1. /\ at[a] \in CountSteps /\ UNCHANGED <<clientVars, cell, conn, unread, line, left>>
        /\ \E next \in CountSteps \cup {"write"} : at' = [at EXCEPT ![a] = next]
    BY <1>12 DEF Lock, Load, Store, Unlock, CountSteps
  <2>2. at'[a] \in CountSteps \cup {"write"} /\ \A b \in Agents \ {a} : Stays(b)
    BY <1>0, <2>1 DEF Stays
  <2>3. HasLine(a) /\ HasLine(a)' /\ at'[a] # "read"
    BY <2>1, <2>2 DEF HasLine, CountSteps
  <2>4. LineOf(a)'
    BY <2>1, <2>3 DEF Lines, LineOf, AtEnd, Coming, clientVars
  <2> QED
    BY <1>1, <2>1, <2>2, <2>4
<1>13. ASSUME NEW a \in Agents, Write(a) PROVE Lines'
  <2> DEFINE c == conn[a]
  <2>1. at[a] = "write" /\ UNCHANGED <<toSend, arriving, finished, gone, conn, unread>>
    BY <1>13 DEF Write
  <2>2. PICK new \in Seq(Chars), after \in Seq(Chars) :
            /\ left[a] = new \o after /\ left'[a] = after
            /\ got' = [got EXCEPT ![c] = @ \o new]
            /\ \/ after = << >> /\ at'[a] = "read" /\ line'[a] = << >>
               \/ after # << >> /\ at'[a] = "write" /\ line'[a] = line[a]
            /\ \A b \in Agents \ {a} : Stays(b)
    BY <1>13, WriteDoes
  <2>3. HasLine(a) /\ c \in Clients /\ Has(a) /\ Taken(a) = c
    BY <1>00, <2>1 DEF HasLine
  <2>4. got'[c] = got[c] \o new /\ \A d \in Clients \ {c} : got'[d] = got[d]
    BY <1>0, <2>2, <2>3
  <2>5. ASSUME NEW b \in Agents \ {a} PROVE LineOf(b)'
    <3>1. HasLine(b) => conn[b] \in Clients \ {c}
      BY <1>00, <2>3 DEF OnePlace
    <3> QED
      BY <2>1, <2>2, <2>4, <3>1, LineStays DEF Lines, Coming
  <2>6. CASE after = << >>
    BY <1>4, <2>2, <2>5, <2>6 DEF Lines
  <2>7. CASE after # << >>
    <3>1. /\ line[a] # << >> /\ NoEnd(line[a], Len(line[a]) - 1)
          /\ LineEnds(line[a]) \/ gone[c] \/ AtEnd(a)
      BY <2>3 DEF Lines, LineOf
    <3>2. PICK before \in Seq(Chars), written \in Seq(Chars) :
              got[c] = before \o written /\ line[a] = written \o left[a]
      BY <2>3 DEF Lines, LineOf
    <3>3. written \o new \in Seq(Chars)
      BY ConcatProperties
    <3>4. (before \o written) \o new = before \o (written \o new)
      <4>1. before \in Seq(Chars) /\ written \in Seq(Chars) /\ new \in Seq(Chars)
        OBVIOUS
      <4> QED
        BY ONLY <4>1, ConcatAssociative
    <3>5. (written \o new) \o after = written \o (new \o after)
      BY ConcatAssociative
    <3>6. got'[conn'[a]] = before \o (written \o new) /\ line'[a] = (written \o new) \o left'[a]
      BY <2>1, <2>2, <2>4, <2>7, <3>2, <3>4, <3>5
    <3>7. \E b, w \in Seq(Chars) : got'[conn'[a]] = b \o w /\ line'[a] = w \o left'[a]
      BY <3>3, <3>6
    <3>8. AtEnd(a) => AtEnd(a)'
      BY <2>1 DEF AtEnd, Coming
    <3>9. LineOf(a)'
      BY <2>1, <2>2, <2>7, <3>1, <3>7, <3>8 DEF LineOf
    <3> QED
      BY <2>5, <3>9 DEF Lines
  <2> QED
    BY <2>6, <2>7
<1>14. ASSUME NEW a \in Agents, Close(a) \/ IoFails(a) PROVE Lines'
  <2>1. at'[a] \in {"idle", "exited"} /\ (\A b \in Agents \ {a} : Stays(b)) /\ UNCHANGED clientVars
    BY <1>14, LeavesDoes DEF Close, IoFails
  <2> QED
    BY <1>1, <1>3, <2>1
<1>15. ASSUME NEW c \in Clients, Connect(c) \/ ClientFinishes(c) PROVE Lines'
  <2>1. UNCHANGED <<echoVars, got, gone, arriving, toSend>>
    BY <1>15 DEF Connect, ClientFinishes, clientVars
  <2> QED
    BY <1>2, <2>1 DEF Coming
<1>16. ASSUME NEW c \in Clients, ClientSends(c) PROVE Lines'
  <2>1. /\ toSend[c] # << >> /\ UNCHANGED <<echoVars, got, gone>>
        /\ arriving' = [arriving EXCEPT ![c] = Append(@, Head(toSend[c]))]
        /\ toSend' = [toSend EXCEPT ![c] = Tail(@)]
    BY <1>16 DEF ClientSends
  <2>2. Coming(c) # << >>
    <3>1. toSend[c] \in Seq(Chars) /\ arriving[c] \in Seq(Chars)
      BY <1>0
    <3> QED
      BY <2>1, <3>1, ConcatSimplifications!concIsEmpty DEF Coming
  <2>3. \A d \in Clients \ {c} : arriving'[d] = arriving[d] /\ toSend'[d] = toSend[d]
    BY <1>0, <2>1
  <2> QED
    BY <1>2, <2>1, <2>2, <2>3 DEF Coming
<1>17. ASSUME NEW c \in Clients, ClientGone(c) PROVE Lines'
  <2>1. UNCHANGED <<echoVars, got, arriving, toSend>> /\ gone' = [gone EXCEPT ![c] = TRUE]
    BY <1>17 DEF ClientGone
  <2>2. \A d \in Clients : gone[d] => gone'[d]
    BY <2>1 DEF EchoTypes
  <2>3. \A b \in Agents : Stays(b)
    BY <2>1 DEF Stays, echoVars
  <2>4. \A b \in Agents : LineOf(b)'
    BY <1>00, <2>1, <2>2, <2>3, LineStays DEF Lines, Coming
  <2> QED
    BY <2>4 DEF Lines
<1>18. CASE Deliver \/ sigchld_handler \/ UNCHANGED vars
  <2>1. UNCHANGED <<echoVars, clientVars>>
    BY <1>18 DEF Deliver, sigchld_handler, vars
  <2> QED
    BY <1>2, <2>1 DEF clientVars, Coming
<1> QED
  <2>1. 1 \in Agents
    BY DEF Agents
  <2> QED
    BY <2>1, <1>5, <1>6, <1>7, <1>9, <1>10, <1>11, <1>12, <1>13, <1>14, <1>15, <1>16, <1>17, <1>18
       DEF Next, Main, Agent, Client

(* What a client has got grows only by what its agent writes, which is the  *)
(* next piece of its text.                                                  *)
LEMMA BegunKept ==
    ASSUME EchoTypes, Holds, OnePlace, HeldOpen, Streams, Begun, [Next]_vars
    PROVE  Begun'
<1>1. CASE got' = got
  BY <1>1 DEF Begun
<1>2. ASSUME NEW a \in Agents, Write(a) PROVE Begun'
  <2> DEFINE c == conn[a]
  <2>1. at[a] = "write" /\ c \in Clients /\ Echoes(a) /\ Has(a) /\ Taken(a) = c
    BY <1>2 DEF Write, Holds, AgentHolds, Serves, Echoes, EchoSteps, Has, Taken
  <2>2. \A d \in Clients \ {c} : got'[d] = got[d]
    BY <1>2, <2>1, WriteDoes DEF EchoTypes
  <2>3. StreamOf(a)' /\ conn' = conn /\ Echoes(a)' 
    <3>1. Streams'
      BY StreamsKept
    <3>2. Echoes(a)' /\ conn' = conn
      BY <1>2, WriteDoes DEF Write, Echoes, EchoSteps
    <3> QED
      BY <3>1, <3>2 DEF Streams, StreamOf
  <2>4. EchoTypes'
    BY TypesKept
  <2>5. InHand(a)' \in Seq(Chars) /\ unread'[a] \in Seq(Chars) /\ arriving'[c] \in Seq(Chars) /\ toSend'[c] \in Seq(Chars)
    BY <2>1, <2>4 DEF EchoTypes, InHand
  <2>6. Coming(c)' \in Seq(Chars)
    BY <2>3, <2>5, ConcatProperties DEF Coming
  <2>7. unread'[a] \o Coming(c)' \in Seq(Chars)
    BY <2>5, <2>6, ConcatProperties
  <2>8. InHand(a)' \o (unread'[a] \o Coming(c)') \in Seq(Chars)
    BY <2>5, <2>7, ConcatProperties
  <2>9. Script[c] = got'[c] \o (InHand(a)' \o (unread'[a] \o Coming(c)'))
    BY <2>3 DEF StreamOf
  <2> QED
    BY <2>2, <2>8, <2>9 DEF Begun
<1> QED
  BY <1>1, <1>2 DEF Next, vars, clientVars, Main, Agent, Client, Accept, StartIterative, ParentCloses,
     InsertConnfd, StartProcess, StartThread, ThreadStarts, RemoveConnfd, OnceBegins, init_echo_cnt,
     OnceDone, TakeBuffered, Refill, EndOfFile, Lock, Load, Store, Unlock, Close, IoFails, Connect,
     ClientSends, ClientFinishes, ClientGone, Deliver, sigchld_handler

----------------------------------------------------------------------------
(* The counter. *)

(* The counter is the sum of what was echoed and of what the agents between *)
(* their store and the end of their write still owe; before it is set,      *)
(* nothing was echoed.                                                      *)
GotSizes == [c \in Clients |-> Len(got[c])]
OwedBy(a) == IF at[a] \in {"unlock", "write"} THEN Len(left[a]) ELSE 0
Owed == [a \in Agents |-> OwedBy(a)]
CountHolds ==
    /\ kind = "prethreaded" /\ alive =>
           \/ once = "done" /\ byte_cnt = SumFunction(GotSizes) + SumFunction(Owed)
           \/ once # "done" /\ byte_cnt = 0 /\ \A c \in Clients : got[c] = << >>
    /\ \A a \in Agents : at[a] = "store" => loaded[a] = byte_cnt

(* Every operation keeps the counter right: a store cannot overwrite that   *)
(* of another thread, because both would be between P and V.                *)
LEMMA CountKept ==
    ASSUME EchoTypes, Holds, OnceAndMutex, CountHolds, [Next]_vars
    PROVE  CountHolds'
<1> USE EchoAssumption
<1>0. /\ at \in [Agents -> Labels] /\ left \in [Agents -> Seq(Chars)] /\ got \in [Clients -> Seq(Chars)]
      /\ loaded \in [Agents -> Nat] /\ byte_cnt \in Nat /\ IsFiniteSet(Agents) /\ IsFiniteSet(Clients)
  <2>1. 1 \in Int /\ NAgents \in Int
    OBVIOUS
  <2>2. IsFiniteSet(Agents)
    BY <2>1, FS_Interval DEF Agents
  <2> QED
    BY <2>2 DEF EchoTypes
<1>1. /\ GotSizes \in [Clients -> Nat] /\ Owed \in [Agents -> Nat]
      /\ GotSizes' \in [Clients -> Nat] /\ Owed' \in [Agents -> Nat]
  <2>1. EchoTypes'
    BY TypesKept
  <2>2. /\ \A c \in Clients : Len(got[c]) \in Nat /\ Len(got'[c]) \in Nat
        /\ \A a \in Agents : Len(left[a]) \in Nat /\ Len(left'[a]) \in Nat
    BY <1>0, <2>1, LenProperties DEF EchoTypes
  <2> QED
    BY <2>2 DEF GotSizes, Owed, OwedBy
<1>2. ASSUME UNCHANGED <<kind, got, once, byte_cnt, loaded>>, alive' => alive,
             kind = "prethreaded" /\ alive' => \A a \in Agents : OwedBy(a)' = OwedBy(a),
             \A a \in Agents : at'[a] = "store" => at[a] = "store"
      PROVE  CountHolds'
  <2>1. CASE kind = "prethreaded" /\ alive'
    <3>1. Owed' = Owed /\ GotSizes' = GotSizes
      BY <1>2, <2>1 DEF Owed, GotSizes
    <3> QED
      BY <1>2, <2>1, <3>1 DEF CountHolds
  <2>2. CASE ~ (kind = "prethreaded" /\ alive')
    BY <1>2, <2>2 DEF CountHolds
  <2> QED
    BY <2>1, <2>2
<1>3. ASSUME UNCHANGED <<kind, got, once, byte_cnt, loaded>>, alive' => alive,
             NEW a \in Agents, at'[a] # "store",
             kind = "prethreaded" /\ alive' => OwedBy(a)' = OwedBy(a),
             \A b \in Agents \ {a} : at'[b] = at[b] /\ left'[b] = left[b]
      PROVE  CountHolds'
  BY <1>2, <1>3 DEF OwedBy
<1>4. CASE Accept \/ ParentCloses \/ InsertConnfd
  <2>1. UNCHANGED <<kind, alive, got, once, byte_cnt, loaded, at, left>>
    BY <1>4 DEF Accept, ParentCloses, InsertConnfd, echoVars, countVars, clientVars
  <2> QED
    BY <1>2, <2>1 DEF OwedBy
<1>5. ASSUME NEW a \in Agents, (a = 1 /\ StartIterative) \/ StartProcess(a) \/ StartThread(a) \/ ThreadStarts(a)
      PROVE  CountHolds'
  <2>1. UNCHANGED <<kind, alive, got, once, byte_cnt, loaded, left>> /\ kind # "prethreaded"
    BY <1>5 DEF StartIterative, StartProcess, StartThread, ThreadStarts, Begins, countVars, clientVars,
       Holds, AgentHolds
  <2>2. \E next \in {"read", "created"} : at' = [at EXCEPT ![a] = next]
    BY <1>5 DEF StartIterative, StartProcess, StartThread, ThreadStarts, Begins
  <2> QED
    BY <1>0, <1>3, <2>1, <2>2
<1>6. ASSUME NEW a \in Agents, RemoveConnfd(a) \/ OnceBegins(a) \/ OnceDone(a) PROVE CountHolds'
  <2>1. /\ UNCHANGED <<kind, alive, got, byte_cnt, loaded, left>> /\ at[a] \in {"idle", "once"}
        /\ once' = once \/ (once = "new" /\ once' = "running")
    BY <1>6 DEF RemoveConnfd, OnceBegins, OnceDone, countVars, clientVars
  <2>2. \E next \in {"once", "initialising", "read"} : at' = [at EXCEPT ![a] = next]
    BY <1>6 DEF RemoveConnfd, OnceBegins, OnceDone
  <2>3. at'[a] \in {"once", "initialising", "read"} /\ \A b \in Agents \ {a} : at'[b] = at[b]
    BY <1>0, <2>2
  <2>4. \A b \in Agents : OwedBy(b)' = OwedBy(b)
    BY <2>1, <2>3 DEF OwedBy
  <2>5. Owed' = Owed /\ GotSizes' = GotSizes
    BY <2>1, <2>4 DEF Owed, GotSizes
  <2>6. \A b \in Agents : at'[b] = "store" => at[b] = "store"
    BY <2>3
  <2>7. (once' = "done") <=> (once = "done")
    BY <2>1
  <2> QED
    BY <2>1, <2>5, <2>6, <2>7 DEF CountHolds
<1>7. ASSUME NEW a \in Agents, init_echo_cnt(a) PROVE CountHolds'
  <2>1. /\ UNCHANGED <<kind, alive, got, loaded, left>> /\ at[a] = "initialising" /\ alive
        /\ byte_cnt' = 0 /\ once' = "done" /\ at' = [at EXCEPT ![a] = "once"]
    BY <1>7 DEF init_echo_cnt, clientVars
  <2>2. once # "done" /\ kind = "prethreaded" /\ \A b \in Agents : at[b] \notin EchoSteps
    BY <2>1 DEF OnceAndMutex, Holds, AgentHolds, OnceSteps
  <2>3. \A b \in Agents : at'[b] \notin {"unlock", "write", "store"}
    BY <1>0, <2>1, <2>2 DEF EchoSteps, CountSteps
  <2>4. \A c \in Clients : got'[c] = << >>
    BY <2>1, <2>2 DEF CountHolds
  <2>5. \A b \in Agents : Owed'[b] = 0
    BY <2>3 DEF Owed, OwedBy
  <2>6. \A c \in Clients : GotSizes'[c] = 0
    BY <2>4, EmptySeq DEF GotSizes
  <2>7. SumFunction(Owed') = 0 /\ SumFunction(GotSizes') = 0
    BY <1>0, <1>1, <2>5, <2>6, SumOfZeros
  <2>8. 0 = SumFunction(GotSizes') + SumFunction(Owed')
    BY <2>7
  <2> QED
    BY <2>1, <2>3, <2>8 DEF CountHolds
<1>8. ASSUME NEW a \in Agents, TakeBuffered(a) \/ Refill(a) PROVE CountHolds'
  <2>1. UNCHANGED <<kind, alive, got, once, byte_cnt, loaded>> /\ at[a] = "read"
    BY <1>8 DEF TakeBuffered, Refill, countVars, clientVars
  <2>2. PICK stream : Reads(a, stream)
    BY <1>8 DEF TakeBuffered, Refill
  <2>3. at'[a] \in {"read", LineRead} /\ \A b \in Agents \ {a} : Stays(b)
    BY <2>1, <2>2, ReadsDoes
  <2>4. kind = "prethreaded" => OwedBy(a)' = OwedBy(a)
    BY <2>1, <2>3 DEF OwedBy, LineRead, Counts
  <2> QED
    BY <1>3, <2>1, <2>3, <2>4 DEF Stays, LineRead
<1>9. ASSUME NEW a \in Agents, EndOfFile(a) PROVE CountHolds'
  <2>1. /\ UNCHANGED <<kind, alive, got, once, byte_cnt, loaded>> /\ at[a] = "read"
        /\ at' = [at EXCEPT ![a] = IF line[a] = << >> THEN "close" ELSE LineRead]
        /\ left' = [left EXCEPT ![a] = line[a]]
    BY <1>9 DEF EndOfFile, countVars, clientVars
  <2>2. at'[a] \in {"close", LineRead} /\ \A b \in Agents \ {a} : at'[b] = at[b] /\ left'[b] = left[b]
    BY <1>0, <2>1
  <2>3. kind = "prethreaded" => OwedBy(a)' = OwedBy(a)
    BY <2>1, <2>2 DEF OwedBy, LineRead, Counts
  <2> QED
    BY <1>3, <2>1, <2>2, <2>3 DEF LineRead
<1>10. ASSUME NEW a \in Agents, Lock(a) \/ Unlock(a) PROVE CountHolds'
  <2>1. UNCHANGED <<kind, alive, got, once, byte_cnt, loaded, left>>
    BY <1>10 DEF Lock, Unlock, clientVars
  <2>2. \/ at[a] = "lock" /\ at' = [at EXCEPT ![a] = "load"]
        \/ at[a] = "unlock" /\ at' = [at EXCEPT ![a] = "write"]
    BY <1>10 DEF Lock, Unlock
  <2> QED
    BY <1>0, <1>3, <2>1, <2>2 DEF OwedBy
<1>11. ASSUME NEW a \in Agents, Load(a) PROVE CountHolds'
  <2>1. /\ UNCHANGED <<kind, alive, got, once, byte_cnt, left>> /\ at[a] = "load"
        /\ at' = [at EXCEPT ![a] = "store"] /\ loaded' = [loaded EXCEPT ![a] = byte_cnt]
    BY <1>11 DEF Load, clientVars
  <2>2. \A b \in Agents : OwedBy(b)' = OwedBy(b)
    BY <1>0, <2>1 DEF OwedBy
  <2>3. Owed' = Owed /\ GotSizes' = GotSizes
    BY <2>1, <2>2 DEF Owed, GotSizes
  <2>4. \A b \in Agents : at'[b] = "store" => loaded'[b] = byte_cnt
    BY <1>0, <2>1 DEF CountHolds
  <2> QED
    BY <2>1, <2>3, <2>4 DEF CountHolds
<1>12. ASSUME NEW a \in Agents, Store(a) PROVE CountHolds'
  <2>1. /\ UNCHANGED <<kind, alive, got, once, line, left>> /\ alive /\ at[a] = "store"
        /\ at' = [at EXCEPT ![a] = "unlock"] /\ byte_cnt' = loaded[a] + Len(line[a])
    BY <1>12 DEF Store, clientVars
  <2>2. /\ loaded[a] = byte_cnt /\ left[a] = line[a] /\ kind = "prethreaded"
        /\ once = "done" /\ \A b \in Agents \ {a} : at[b] # "store"
    BY <2>1 DEF CountHolds, Holds, AgentHolds, CountSteps, OnceAndMutex, EchoSteps, Counting
  <2>3. /\ Owed[a] = 0 /\ Owed'[a] = Len(left[a]) /\ \A b \in Agents \ {a} : Owed'[b] = Owed[b]
    BY <1>0, <2>1 DEF Owed, OwedBy
  <2>4. /\ SumFunction(Owed) \in Nat /\ SumFunction(Owed') \in Nat
        /\ SumFunction(Owed') + Owed[a] = SumFunction(Owed) + Owed'[a]
    <3> DEFINE f == Owed
               g == Owed'
    <3>1. /\ IsFiniteSet(Agents) /\ f \in [Agents -> Nat] /\ g \in [Agents -> Nat] /\ a \in Agents
          /\ \A b \in Agents \ {a} : g[b] = f[b]
      BY <1>0, <1>1, <2>3
    <3> HIDE DEF f, g
    <3>2. /\ SumFunction(f) \in Nat /\ SumFunction(g) \in Nat
          /\ SumFunction(g) + f[a] = SumFunction(f) + g[a]
      BY ONLY <3>1, SumChanges
    <3> QED
      BY <3>2 DEF f, g
  <2>5. GotSizes' = GotSizes
    BY <2>1 DEF GotSizes
  <2>6. \A b \in Agents : at'[b] # "store"
    BY <1>0, <2>1, <2>2
  <2>7. byte_cnt = SumFunction(GotSizes) + SumFunction(Owed)
    BY <2>1, <2>2 DEF CountHolds
  <2>8. Len(left[a]) \in Nat
    BY <1>0, LenProperties
  <2>9. SumFunction(GotSizes) \in Nat
    BY <1>0, <1>1, SumIsCount, PairsFinite, FS_CardinalityType
  <2>10. byte_cnt' = SumFunction(GotSizes') + SumFunction(Owed')
    <3>1. byte_cnt' = byte_cnt + Len(left[a]) /\ SumFunction(Owed') = SumFunction(Owed) + Len(left[a])
      BY <2>1, <2>2, <2>3, <2>4, <2>8
    <3> QED
      BY <2>4, <2>5, <2>7, <2>8, <2>9, <3>1
  <2> QED
    BY <2>1, <2>2, <2>6, <2>10 DEF CountHolds
<1>13. ASSUME NEW a \in Agents, Write(a) PROVE CountHolds'
  <2> DEFINE c == conn[a]
  <2>1. /\ UNCHANGED <<kind, alive, once, byte_cnt, loaded>> /\ alive /\ at[a] = "write" /\ c \in Clients
    BY <1>13 DEF Write, countVars, Holds, AgentHolds, Serves, EchoSteps
  <2>2. PICK new \in Seq(Chars), rest \in Seq(Chars) :
            /\ left[a] = new \o rest /\ left'[a] = rest
            /\ got' = [got EXCEPT ![c] = @ \o new]
            /\ \/ rest = << >> /\ at'[a] = "read"
               \/ at'[a] = "write"
            /\ \A b \in Agents \ {a} : Stays(b)
    BY <1>13, WriteDoes
  <2>3. CASE kind = "prethreaded"
    <3>1. once = "done" /\ byte_cnt = SumFunction(GotSizes) + SumFunction(Owed)
      BY <2>1, <2>3 DEF OnceAndMutex, EchoSteps, CountHolds
    <3>2. Owed[a] = Len(left[a]) /\ Owed'[a] = Len(rest) /\ \A b \in Agents \ {a} : Owed'[b] = Owed[b]
      BY <2>1, <2>2, EmptySeq DEF Owed, OwedBy, Stays
    <3>3. /\ GotSizes[c] = Len(got[c]) /\ GotSizes'[c] = Len(got[c] \o new)
          /\ \A d \in Clients \ {c} : GotSizes'[d] = GotSizes[d]
      BY <1>0, <2>1, <2>2 DEF GotSizes
    <3>4. /\ SumFunction(Owed) \in Nat /\ SumFunction(Owed') \in Nat
          /\ SumFunction(Owed') + Owed[a] = SumFunction(Owed) + Owed'[a]
      <4> DEFINE f == Owed
                 g == Owed'
      <4>1. /\ IsFiniteSet(Agents) /\ f \in [Agents -> Nat] /\ g \in [Agents -> Nat] /\ a \in Agents
            /\ \A b \in Agents \ {a} : g[b] = f[b]
        BY <1>0, <1>1, <3>2
      <4> HIDE DEF f, g
      <4>2. /\ SumFunction(f) \in Nat /\ SumFunction(g) \in Nat
            /\ SumFunction(g) + f[a] = SumFunction(f) + g[a]
        BY ONLY <4>1, SumChanges
      <4> QED
        BY <4>2 DEF f, g
    <3>5. /\ SumFunction(GotSizes) \in Nat /\ SumFunction(GotSizes') \in Nat
          /\ SumFunction(GotSizes') + GotSizes[c] = SumFunction(GotSizes) + GotSizes'[c]
      <4> DEFINE f == GotSizes
                 g == GotSizes'
      <4>1. /\ IsFiniteSet(Clients) /\ f \in [Clients -> Nat] /\ g \in [Clients -> Nat] /\ c \in Clients
            /\ \A d \in Clients \ {c} : g[d] = f[d]
        BY <1>0, <1>1, <2>1, <3>3
      <4> HIDE DEF f, g, c
      <4>2. /\ SumFunction(f) \in Nat /\ SumFunction(g) \in Nat
            /\ SumFunction(g) + f[c] = SumFunction(f) + g[c]
        BY ONLY <4>1, SumChanges
      <4> QED
        BY <4>2 DEF f, g
    <3>6. /\ Len(got[c] \o new) = Len(got[c]) + Len(new) /\ Len(left[a]) = Len(new) + Len(rest)
          /\ Len(got[c]) \in Nat /\ Len(new) \in Nat /\ Len(rest) \in Nat
      BY <1>0, <2>1, <2>2, ConcatProperties, LenProperties
    <3>7. SumFunction(GotSizes') + SumFunction(Owed') = SumFunction(GotSizes) + SumFunction(Owed)
      <4> DEFINE o0 == SumFunction(Owed)
                 o1 == SumFunction(Owed')
                 g0 == SumFunction(GotSizes)
                 g1 == SumFunction(GotSizes')
                 k == Len(new)
      <4>1. /\ o0 \in Nat /\ o1 \in Nat /\ o1 + Len(left[a]) = o0 + Len(rest)
            /\ Len(left[a]) = k + Len(rest) /\ Len(rest) \in Nat
        BY <3>2, <3>4, <3>6
      <4>2. /\ g0 \in Nat /\ g1 \in Nat /\ g1 + Len(got[c]) = g0 + Len(got[c] \o new)
            /\ Len(got[c] \o new) = Len(got[c]) + k /\ Len(got[c]) \in Nat /\ k \in Nat
        BY <3>3, <3>5, <3>6
      <4> HIDE DEF o0, o1, g0, g1, k
      <4>3. o1 + k = o0
        BY ONLY <4>1, <4>2
      <4>4. g1 = g0 + k
        BY ONLY <4>2
      <4>5. g1 + o1 = g0 + o0
        BY ONLY <4>1, <4>2, <4>3, <4>4
      <4> QED
        BY <4>5 DEF o0, o1, g0, g1
    <3>8. \A b \in Agents : at'[b] = "store" => at[b] = "store"
      BY <2>2 DEF Stays
    <3> QED
      BY <2>1, <3>1, <3>7, <3>8 DEF CountHolds
  <2>4. CASE kind # "prethreaded"
    <3>1. \A b \in Agents : at'[b] = "store" => at[b] = "store"
      BY <2>2 DEF Stays
    <3> QED
      BY <2>1, <2>4, <3>1 DEF CountHolds
  <2> QED
    BY <2>3, <2>4
<1>14. ASSUME NEW a \in Agents, Close(a) \/ IoFails(a) PROVE CountHolds'
  <2>1. at'[a] \in {"idle", "exited"} /\ \A b \in Agents \ {a} : Stays(b)
    BY <1>14, LeavesDoes DEF Close, IoFails
  <2>2. UNCHANGED <<kind, got, once, byte_cnt, loaded>> /\ (alive' => alive)
    BY <1>14 DEF Close, IoFails, countVars, clientVars
  <2>3. kind = "prethreaded" /\ alive' => OwedBy(a)' = OwedBy(a)
    BY <1>14, <2>1 DEF Close, IoFails, OwedBy
  <2> QED
    BY <1>3, <2>1, <2>2, <2>3 DEF Stays
<1>15. ASSUME NEW c \in Clients, Connect(c) \/ Client(c) \/ ClientGone(c) PROVE CountHolds'
  <2>1. UNCHANGED <<kind, alive, got, once, byte_cnt, loaded, at, left>>
    BY <1>15 DEF Connect, Client, ClientSends, ClientFinishes, ClientGone, echoVars, countVars, clientVars
  <2> QED
    BY <1>2, <2>1 DEF OwedBy
<1>16. CASE Deliver \/ sigchld_handler \/ UNCHANGED vars
  <2>1. UNCHANGED <<kind, alive, got, once, byte_cnt, loaded, at, left>>
    BY <1>16 DEF Deliver, sigchld_handler, vars, echoVars, countVars, clientVars
  <2> QED
    BY <1>2, <2>1 DEF OwedBy
<1> QED
  <2>1. 1 \in Agents
    BY DEF Agents
  <2> QED
    BY <2>1, <1>4, <1>5, <1>6, <1>7, <1>8, <1>9, <1>10, <1>11, <1>12, <1>13, <1>14, <1>15, <1>16
       DEF Next, Main, Agent

----------------------------------------------------------------------------
(* The theorems. *)

EchoInv ==
    /\ EchoTypes /\ Holds /\ OnceAndMutex /\ OnePlace /\ HeldOpen
    /\ Streams /\ Lines /\ Begun /\ CountHolds

(* Nothing is accepted, read or written at first.                           *)
LEMMA InvInit == Init => EchoInv
<1> SUFFICES ASSUME Init PROVE EchoInv
  OBVIOUS
<1> USE EchoAssumption DEF Init, rio_readinitb
<1>0. << >> \in Seq(Chars) /\ << >> \in Seq(Clients) /\ DOMAIN << >> = {}
  BY EmptySeq
<1>1. EchoTypes
  BY <1>0 DEF EchoTypes, Labels
<1>2. \A a \in Agents : at[a] = "idle" /\ line[a] = << >> /\ left[a] = << >>
  OBVIOUS
<1>3. Holds
  <2>1. 1 \in Agents
    BY DEF Agents
  <2> QED
    BY <1>2, <2>1 DEF Holds, MainHolds, AgentHolds, Serves, OnceSteps, EchoSteps, CountSteps
<1>4. OnceAndMutex
  BY <1>2 DEF OnceAndMutex, Counting, EchoSteps, CountSteps
<1>5. ToSet(backlog) = {} /\ ToSet(queue) = {} /\ Waiting = {}
  BY <1>0 DEF ToSet, Waiting
<1>6. OnePlace
  BY <1>0, <1>2, <1>5 DEF OnePlace, Distinct, Has
<1>7. HeldOpen
  BY <1>2, <1>5 DEF HeldOpen, Has
<1>8. \A c \in Clients : Untouched(c)
  <2>1. \A c \in Clients : << >> \o Script[c] = Script[c]
    BY ConcatEmptySeq
  <2> QED
    BY <2>1 DEF Untouched, Coming
<1>9. Streams
  BY <1>2, <1>5, <1>8 DEF Streams, Echoes, EchoSteps, CountSteps, OnceSteps
<1>10. Lines
  BY <1>2 DEF Lines, LineOf, HasLine
<1>11. Begun
  <2>1. \A c \in Clients : Script[c] = << >> \o Script[c] /\ Script[c] \in Seq(Chars)
    BY ConcatEmptySeq
  <2> QED
    BY <2>1 DEF Begun
<1>12. CountHolds
  BY <1>2 DEF CountHolds
<1> QED
  BY <1>1, <1>3, <1>4, <1>6, <1>7, <1>9, <1>10, <1>11, <1>12 DEF EchoInv

(* The invariant of the echo servers.                                       *)
THEOREM EchoInvariance == Spec => []EchoInv
<1>1. EchoInv /\ [Next]_vars => EchoInv'
  BY TypesKept, HoldsKept, OnceAndMutexKept, OnePlaceKept, HeldOpenKept, StreamsKept, LinesKept, BegunKept,
     CountKept DEF EchoInv
<1> QED
  BY <1>1, InvInit, PTL DEF Spec

(* Every variable of the echo servers keeps its type, whichever server it   *)
(* is: the semaphore of echo_cnt.c, too, is never above one.                *)
THEOREM TypeCorrect == Spec => []TypeOK
<1>1. EchoInv => TypeOK
  <2>1. ASSUME mutex \in Nat, mutex <= 1 PROVE mutex \in 0 .. 1
    BY <2>1
  <2> QED
    BY <2>1 DEF EchoInv, EchoTypes, OnceAndMutex, TypeOK, Labels, OnceSteps, EchoSteps, CountSteps
<1> QED
  BY <1>1, EchoInvariance, PTL

(* Whoever is served, however the bytes arrive and however short the writes *)
(* are, what a client gets back is the beginning of what it sends.          *)
THEOREM EchoInOrder == Spec => []EchoedInOrder
<1>1. EchoInv => EchoedInOrder
  <2> SUFFICES ASSUME EchoInv, NEW c \in Clients PROVE IsPrefix(got[c], Script[c])
    BY DEF EchoedInOrder
  <2>1. got[c] \in Seq(Chars)
    BY DEF EchoInv, EchoTypes
  <2>2. PICK rest \in Seq(Chars) : Script[c] = got[c] \o rest
    BY DEF EchoInv, Begun
  <2>3. Len(got[c]) \in Nat /\ Len(rest) \in Nat /\ Len(Script[c]) = Len(got[c]) + Len(rest)
    BY <2>1, <2>2, ConcatProperties, LenProperties
  <2>4. Len(got[c]) <= Len(Script[c])
    BY <2>3
  <2>5. SubSeq(Script[c], 1, Len(got[c])) = got[c]
    <3>1. Len(got[c]) \in 0 .. Len(got[c])
      BY <2>3
    <3>2. SubSeq(got[c] \o rest, 1, Len(got[c])) = SubSeq(got[c], 1, Len(got[c]))
      BY <2>1, <3>1, PrefixOfJoin
    <3> QED
      BY <2>1, <2>2, <3>2, SubSeqFull
  <2> QED
    BY <2>4, <2>5 DEF IsPrefix
<1> QED
  BY <1>1, EchoInvariance, PTL

(* A complete line, wherever the refills of the reader fell, is the next    *)
(* line of the client's text, as if it had been read without a buffer.      *)
THEOREM LinesAreCut == Spec => []LinesIntact
<1>1. EchoInv => LinesIntact
  <2> SUFFICES ASSUME EchoInv, NEW a \in Agents, HasLine(a), ~ gone[conn[a]]
               PROVE  line[a] = FirstLine(SubSeq(Script[conn[a]], EchoedBefore(a) + 1, Len(Script[conn[a]])))
    BY DEF LinesIntact
  <2> DEFINE c == conn[a]
             rest == unread[a] \o Coming(c)
  <2>1. c \in Clients /\ Echoes(a) /\ InHand(a) = left[a]
    BY DEF EchoInv, Holds, AgentHolds, Serves, Echoes, HasLine, EchoSteps, CountSteps, InHand
  <2>2. Script[c] = got[c] \o (left[a] \o rest)
    BY <2>1 DEF EchoInv, Streams
  <2>3. /\ line[a] \in Seq(Chars) /\ left[a] \in Seq(Chars) /\ unread[a] \in Seq(Chars)
        /\ got[c] \in Seq(Chars) /\ arriving[c] \in Seq(Chars) /\ toSend[c] \in Seq(Chars)
    BY <2>1 DEF EchoInv, EchoTypes
  <2>4. rest \in Seq(Chars)
    <3>1. Coming(c) \in Seq(Chars)
      BY <2>3, ConcatProperties DEF Coming
    <3> QED
      BY <2>3, <3>1, ConcatProperties
  <2>5. /\ line[a] # << >> /\ NoEnd(line[a], Len(line[a]) - 1)
        /\ LineEnds(line[a]) \/ AtEnd(a)
    BY DEF EchoInv, Lines, LineOf
  <2>6. PICK before \in Seq(Chars), written \in Seq(Chars) :
            got[c] = before \o written /\ line[a] = written \o left[a]
    BY DEF EchoInv, Lines, LineOf
  <2>7. LineEnds(line[a]) \/ rest = << >>
    BY <2>5, EmptySeq, ConcatEmptySeq DEF AtEnd
  <2> HIDE DEF rest, c
  <2> DEFINE l == left[a]
             text == line[a] \o rest
  <2>8. Script[c] = before \o text
    <3>1. l \in Seq(Chars) /\ rest \in Seq(Chars) /\ before \in Seq(Chars) /\ written \in Seq(Chars)
      BY <2>3, <2>4
    <3> HIDE DEF l
    <3> DEFINE tail == l \o rest
    <3>2. tail \in Seq(Chars)
      BY <3>1, ConcatProperties
    <3>3. (written \o l) \o rest = written \o tail
      BY ONLY <3>1, ConcatAssociative
    <3> HIDE DEF tail
    <3>4. (before \o written) \o tail = before \o (written \o tail)
      <4>1. before \in Seq(Chars) /\ written \in Seq(Chars) /\ tail \in Seq(Chars)
        BY <3>1, <3>2
      <4> QED
        BY ONLY <4>1, ConcatAssociative
    <3> QED
      BY <2>2, <2>6, <3>3, <3>4 DEF tail, l
  <2>9. text \in Seq(Chars) /\ Len(text) \in Nat /\ Len(before) \in Nat
    BY <2>3, <2>4, ConcatProperties, LenProperties
  <2>10. EchoedBefore(a) = Len(before)
    <3>1. /\ Len(got[c]) = Len(before) + Len(written) /\ Len(line[a]) = Len(written) + Len(left[a])
          /\ Len(written) \in Nat /\ Len(left[a]) \in Nat
      BY <2>3, <2>6, ConcatProperties, LenProperties
    <3>2. EchoedBefore(a) = Len(got[c]) - (Len(line[a]) - Len(left[a]))
      BY DEF EchoedBefore, c
    <3> QED
      BY <2>9, <3>1, <3>2
  <2> HIDE DEF text
  <2>11. SubSeq(before \o text, Len(before) + 1, Len(before \o text)) = text
    BY <2>9, DropOfJoin
  <2>12. FirstLine(text) = line[a]
    BY <2>3, <2>4, <2>5, <2>7, FirstLineFound DEF text
  <2> QED
    BY <2>8, <2>10, <2>11, <2>12 DEF c
<1> QED
  BY <1>1, EchoInvariance, PTL

(* Whenever nobody holds the mutex of echo_cnt.c, byte_cnt is what all the  *)
(* clients got back and what the threads are still writing, together.       *)
THEOREM CounterIsSum == Spec => []CountIsSum
<1>1. EchoInv => CountIsSum
  <2> SUFFICES ASSUME EchoInv, kind = "prethreaded", once = "done", mutex = 1, alive
               PROVE  byte_cnt = SumFunction([c \in Clients |-> Len(got[c])])
                        + SumFunction([a \in Agents |-> IF at[a] = "write" THEN Len(left[a]) ELSE 0])
    BY DEF CountIsSum
  <2>1. \A a \in Agents : at[a] # "unlock"
    BY DEF EchoInv, OnceAndMutex, Counting
  <2>2. Owed = [a \in Agents |-> IF at[a] = "write" THEN Len(left[a]) ELSE 0]
    BY <2>1 DEF Owed, OwedBy
  <2>3. byte_cnt = SumFunction(GotSizes) + SumFunction(Owed)
    BY DEF EchoInv, CountHolds
  <2> QED
    BY <2>2, <2>3 DEF GotSizes
<1> QED
  BY <1>1, EchoInvariance, PTL

(* A child that has ended and is not reaped is announced: its signal is     *)
(* pending, or the handler that reaps all of them still runs.               *)
THEOREM ZombiesSignalled == Spec => []ZombieSignalled
<1>1. Init => ZombieSignalled
  BY DEF Init, ZombieSignalled
<1>2. ZombieSignalled /\ [Next]_vars => ZombieSignalled'
  <2> SUFFICES ASSUME ZombieSignalled, [Next]_vars PROVE ZombieSignalled'
    OBVIOUS
  <2>1. CASE UNCHANGED childVars
    BY <2>1 DEF ZombieSignalled, childVars
  <2>2. CASE Deliver
    BY <2>2 DEF ZombieSignalled, Deliver
  <2>3. CASE sigchld_handler
    BY <2>3 DEF ZombieSignalled, sigchld_handler
  <2>4. ASSUME NEW a \in Agents, Close(a) \/ IoFails(a) PROVE UNCHANGED childVars \/ pending'
    BY <2>4 DEF Close, IoFails, ChildExits
  <2> QED
    BY <2>1, <2>2, <2>3, <2>4 DEF ZombieSignalled, Next, vars, Main, Agent, Client, Accept,
       StartIterative, ParentCloses, InsertConnfd, StartProcess, StartThread, ThreadStarts, RemoveConnfd,
       OnceBegins, init_echo_cnt, OnceDone, TakeBuffered, Refill, EndOfFile, Lock, Load, Store, Unlock,
       Write, Connect, ClientSends, ClientFinishes, ClientGone
<1> QED
  BY <1>1, <1>2, PTL DEF Spec
=============================================================================
