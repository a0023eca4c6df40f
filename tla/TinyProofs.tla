----------------------------- MODULE TinyProofs -----------------------------
(***************************************************************************)
(* The Tiny web server, for any connections, requests and files: what the  *)
(* three processes write to a connection is one response, and a GET that   *)
(* is answered has been read.                                              *)
(***************************************************************************)
EXTENDS Tiny, Lemmas

CONSTANT Names  \* what the queries name

Pairs2 == Names \X Nat

(* What is assumed of the constants: of each request, a number of header    *)
(* lines, a query of names and natural numbers, as atoi makes them of       *)
(* digits, and a file with a size.                                          *)
TinyAssumption ==
    /\ ErrorSize \in Nat
    /\ \A r \in Scenarios : \A c \in DOMAIN r :
          LET s == Stat(parse_uri(r[c].uri, r[c].query).name)
          IN  /\ r[c].headers \in Nat
              /\ r[c].query # NoQuery => r[c].query \in Seq(Pairs2)
              /\ s.kind = "regular" => s.size \in Nat

Texts  == {"request", "header", "blank"}
Pieces == ({"status"} \X Nat) \cup ({"length", "body"} \X Nat) \cup {<<"field">>, <<"blank">>}

Steps    == {"none", "request", "headers", "serve", "write", "fork", "wait", "close", "exited", "spins"}
CgiSteps == {"none", "start", "loop", "exited", "crashed"}

TinyTypes ==
    /\ request \in Scenarios
    /\ main \in {"accept", "fork", "close"} /\ connfd \in Conns \cup {NoQuery}
    /\ backlog \in Seq(Conns)
    /\ open \in [Conns -> SUBSET {"main", "child", "cgi"}]
    /\ at \in [Conns -> Steps] /\ cgi \in [Conns -> CgiSteps] /\ sent \in [Conns -> Nat]
    /\ unread \in [Conns -> Seq(Texts)] /\ arriving \in [Conns -> Seq(Texts)]
    /\ toSend \in [Conns -> Seq(Texts)]
    /\ toWrite \in [Conns -> Seq(Pieces)] /\ resp \in [Conns -> Seq(Pieces)]
    /\ then \in [Conns -> {"close", "fork"}]
    /\ finished \in [Conns -> BOOLEAN] /\ gone \in [Conns -> BOOLEAN]

(* A connection is in the backlog once, then with main, and is forked for   *)
(* once; whoever has not closed it holds it.                                *)
Accepting ==
    /\ main # "accept" => connfd \in Conns \cap DOMAIN request
    /\ main = "fork" => at[connfd] = "none"
    /\ \A c \in Conns :
          /\ "main" \in open[c] <=> main # "accept" /\ connfd = c
          /\ "child" \in open[c] <=> at[c] \notin {"none", "exited"}
          /\ "cgi" \in open[c] <=> cgi[c] \in {"start", "loop"}
          /\ at[c] # "none" => c \in DOMAIN request
    /\ \A k \in DOMAIN backlog :
          /\ backlog[k] \in DOMAIN request /\ at[backlog[k]] = "none" /\ open[backlog[k]] = {}
          /\ \A n \in DOMAIN backlog : backlog[k] = backlog[n] => k = n

(* A CGI program runs only while the child waits for it.                    *)
Waits(c) ==
    /\ at[c] \in {"none", "request", "headers", "serve", "write", "fork", "spins"} => cgi[c] = "none"
    /\ cgi[c] \in {"start", "loop"} => at[c] = "wait"
    /\ at[c] = "wait" => cgi[c] # "none"

(* What the child has not read of its request.                              *)
Rest(c) == unread[c] \o arriving[c] \o toSend[c]
EndsBlank(s) == Len(s) > 0 /\ \A k \in 1 .. Len(s) : s[k] = "blank" <=> k = Len(s)
Reading(c) ==
    /\ at[c] \in {"none", "request", "headers", "serve", "spins"} => resp[c] = << >>
    /\ c \in DOMAIN request /\ at[c] \in {"none", "request"} => Rest(c) = Lines(request[c])
    /\ at[c] = "headers" => EndsBlank(Rest(c))
    /\ at[c] \in {"serve", "write", "fork", "wait", "close", "exited"} =>
          gone[c] \/ request[c].method # "GET" \/ Rest(c) = << >>
          \/ (at[c] \in {"close", "exited"} /\ resp[c] = << >>)

(* What the child may write before it closes, or forks.                     *)
Whats(next) ==
    IF next = "fork" THEN {DynamicHead}
    ELSE {clienterror(code) : code \in {403, 404, 501}} \cup {serve_static(n) : n \in Nat}

BytesOf(s) == SumFunction([i \in {k \in DOMAIN s : s[k][1] = "body"} |-> s[i][2]])
Places_(s, kind) == {i \in DOMAIN s : s[i][1] = kind}
WellFramed(s) ==
    /\ Places_(s, "status") \subseteq {1}
    /\ \A i \in DOMAIN s, j \in Places_(s, "blank") : s[i][1] = "body" <=> i > j
    /\ Places_(s, "body") # {} => Places_(s, "blank") # {}
    /\ \A i \in Places_(s, "length") : BytesOf(s) <= s[i][2]
Whole(s) == \A i \in Places_(s, "length") : BytesOf(s) = s[i][2]

(* The response of slow, of which n bytes of its body are written.          *)
SlowHead(size) == DynamicHead \o <<<<"field">>, <<"length", size>>, <<"field">>, <<"blank">>>>
SlowSent(s, size, n) ==
    /\ Len(s) >= 6
    /\ \A k \in 1 .. 6 : s[k] = SlowHead(size)[k]
    /\ \A k \in 7 .. Len(s) : s[k][1] = "body"
    /\ BytesOf(s) = n /\ n <= size

Writing(c) ==
    /\ WellFramed(resp[c])
    /\ at[c] = "write" =>
          toWrite[c] # << >> /\ \E w \in Whats(then[c]) : resp[c] \o toWrite[c] = w
    /\ at[c] = "fork" \/ cgi[c] = "start" => resp[c] = DynamicHead /\ sent[c] = 0
    /\ cgi[c] = "loop" => SlowSent(resp[c], Size(c), sent[c])
    /\ cgi[c] = "exited" => Whole(resp[c])
    /\ cgi[c] = "none" => sent[c] = 0
    /\ cgi[c] = "crashed" => gone[c] \/ Whole(resp[c])
    /\ at[c] \in {"close", "exited"} => gone[c] \/ Whole(resp[c])

TinyInv ==
    /\ Accepting
    /\ \A c \in Conns : Waits(c) /\ Reading(c) /\ Writing(c)
TinyInvT == TinyTypes /\ TinyInv

----------------------------------------------------------------------------
(* Pieces. *)

(* What a piece of a response is made of.                                   *)
LEMMA PieceKinds ==
    /\ \A p \in Pieces : p[1] = "body" \/ p[1] = "length" => p[2] \in Nat
    /\ <<"field">> \in Pieces /\ <<"blank">> \in Pieces
    /\ \A n \in Nat : /\ <<"status", n>> \in Pieces /\ <<"length", n>> \in Pieces
                      /\ <<"body", n>> \in Pieces
                      /\ <<"status", n>>[1] = "status" /\ <<"length", n>>[1] = "length"
                      /\ <<"length", n>>[2] = n
                      /\ <<"body", n>>[1] = "body" /\ <<"body", n>>[2] = n
    /\ <<"field">>[1] = "field" /\ <<"blank">>[1] = "blank"
<1>1. ASSUME NEW p \in Pieces, p[1] = "body" \/ p[1] = "length" PROVE p[2] \in Nat
  <2>1. CASE p \in {"status"} \X Nat
    BY <2>1
  <2>2. CASE p \in {"length", "body"} \X Nat
    BY <2>2
  <2>3. CASE p = <<"field">>
    BY <1>1, <2>3
  <2>4. CASE p = <<"blank">>
    BY <1>1, <2>4
  <2> QED
    BY <2>1, <2>2, <2>3, <2>4 DEF Pieces
<1> QED
  BY <1>1 DEF Pieces

(* The bytes of a body so far, and with one more piece.                     *)
LEMMA BytesGrow ==
    ASSUME NEW s \in Seq(Pieces), NEW p \in Pieces
    PROVE  /\ BytesOf(s) \in Nat /\ BytesOf(Append(s, p)) \in Nat
           /\ BytesOf(Append(s, p)) = BytesOf(s) + (IF p[1] = "body" THEN p[2] ELSE 0)
<1> DEFINE S == {k \in DOMAIN s : s[k][1] = "body"}
           f == [i \in S |-> s[i][2]]
           x == Len(s) + 1
           t == Append(s, p)
           T == {k \in DOMAIN t : t[k][1] = "body"}
           g == [i \in T |-> t[i][2]]
<1>1. /\ DOMAIN s = 1 .. Len(s) /\ DOMAIN t = 1 .. Len(s) + 1 /\ Len(s) \in Nat
      /\ \A i \in 1 .. Len(s) : s[i] \in Pieces /\ t[i] = s[i]
      /\ t[Len(s) + 1] = p
  BY AppendProperties, LenProperties, ElementOfSeq
<1>2. IsFiniteSet(S) /\ x \notin S
  <2>1. IsFiniteSet(1 .. Len(s)) /\ S \in SUBSET (1 .. Len(s))
    BY <1>1, FS_Interval
  <2> QED
    BY <1>1, <2>1, FS_Subset
<1>3. f \in [S -> Nat]
  BY <1>1, PieceKinds
<1>4. BytesOf(s) = SumFunction(f) /\ BytesOf(t) = SumFunction(g)
  BY DEF BytesOf
<1>5. CASE p[1] = "body"
  <2>1. T = S \cup {x}
    BY <1>1, <1>5
  <2>2. g \in [S \cup {x} -> Nat] /\ g[x] = p[2]
    BY <1>1, <1>3, <1>5, <2>1, PieceKinds
  <2>5. \A y \in S : g[y] = f[y]
    BY <1>1, <2>1
  <2> HIDE DEF S, f, x, g, t, T
  <2>3. /\ SumFunction(f) \in Nat /\ SumFunction(g) \in Nat
        /\ SumFunction(g) = g[x] + SumFunction(f)
    <3>1. g \in [S \cup {x} -> Nat]
      BY <2>2
    <3> QED
      BY <1>2, <1>3, <2>5, <3>1, SumOfOneMore, SMTT(40)
  <2>4. p[2] \in Nat
    BY <1>5, PieceKinds
  <2> QED
    BY <1>4, <1>5, <2>2, <2>3, <2>4 DEF t
<1>6. CASE p[1] # "body"
  <2>1. T = S
    BY <1>1, <1>6
  <2>2. g = f
    BY <1>1, <2>1
  <2>3. SumFunction(f) \in Nat
    <3> HIDE DEF f, S
    <3>1. IsFiniteSet(Pairs(f, S))
      BY <1>2, <1>3, PairsFinite
    <3> QED
      BY <1>2, <1>3, <3>1, SumIsCount, FS_CardinalityType
  <2> HIDE DEF S, f, x, g, T
  <2> QED
    BY <1>4, <1>6, <2>2, <2>3
<1> QED
  BY <1>5, <1>6

(* An empty response has no body.                                           *)
LEMMA BytesOfNothing == BytesOf(<< >>) = 0
<1> DEFINE S == {k \in DOMAIN << >> : << >>[k][1] = "body"}
           f == [i \in S |-> << >>[i][2]]
<1>1. S = {}
  OBVIOUS
<1>2. f \in [S -> Nat] /\ IsFiniteSet(S)
  BY <1>1, FS_EmptySet
<1>3. \A i \in S : f[i] = 0
  BY <1>1
<1>4. SumFunction(f) = 0
  <2> HIDE DEF f, S
  <2> QED
    BY <1>2, <1>3, SumOfZeros
<1> QED
  BY <1>4 DEF BytesOf

(* Nothing but header is no body.                                           *)
LEMMA NoBody ==
    ASSUME NEW s \in Seq(Pieces), \A i \in 1 .. Len(s) : s[i][1] # "body"
    PROVE  BytesOf(s) = 0
<1> DEFINE S == {k \in DOMAIN s : s[k][1] = "body"}
           f == [i \in S |-> s[i][2]]
<1>1. S = {}
  BY LenProperties
<1>2. f \in [S -> Nat] /\ IsFiniteSet(S)
  BY <1>1, FS_EmptySet
<1>3. \A i \in S : f[i] = 0
  BY <1>1
<1>4. SumFunction(f) = 0
  <2> HIDE DEF f, S
  <2> QED
    BY <1>2, <1>3, SumOfZeros
<1> QED
  BY <1>4 DEF BytesOf

(* A header with its status line first and its empty line last.             *)
Header(v, n) ==
    /\ Len(v) >= 1
    /\ \A i \in 1 .. Len(v) : /\ v[i][1] = "status" <=> i = 1
                              /\ v[i][1] = "blank" <=> i = Len(v)
                              /\ v[i][1] # "body"
                              /\ v[i][1] = "length" => v[i][2] = n

(* w is s followed by t.                                                    *)
Parts(w, s, t) == w = s \o t

(* Any beginning of a header and a body of the length it gives is framed.   *)
LEMMA HeaderFramed ==
    ASSUME NEW v \in Seq(Pieces), NEW n \in Nat, Header(v, n),
           NEW s \in Seq(Pieces), NEW t \in Seq(Pieces), Parts(Append(v, <<"body", n>>), s, t)
    PROVE  WellFramed(s) /\ (t = << >> => Whole(s))
<1> DEFINE b == <<"body", n>>
           w == Append(v, b)
<1>1. b \in Pieces /\ b[1] = "body" /\ b[2] = n
  BY PieceKinds
<1> HIDE DEF b
<1>2. /\ Len(v) \in Nat /\ Len(s) \in Nat /\ Len(t) \in Nat /\ Len(s) + Len(t) = Len(v) + 1
      /\ \A i \in 1 .. Len(s) : s[i] = w[i]
      /\ \A i \in 1 .. Len(v) : w[i] = v[i]
      /\ w[Len(v) + 1] = b
      /\ DOMAIN s = 1 .. Len(s)
  <2>1. s \o t = w
    BY DEF b, Parts
  <2>2. Len(w) = Len(v) + 1 /\ Len(v) \in Nat /\ w[Len(v) + 1] = b /\ \A i \in 1 .. Len(v) : w[i] = v[i]
    BY <1>1, AppendProperties, LenProperties
  <2>3. /\ Len(s) \in Nat /\ Len(t) \in Nat /\ Len(s \o t) = Len(s) + Len(t) /\ DOMAIN s = 1 .. Len(s)
        /\ \A i \in 1 .. Len(s) + Len(t) : (s \o t)[i] = IF i <= Len(s) THEN s[i] ELSE t[i - Len(s)]
    BY ConcatProperties, LenProperties
  <2>4. \A i \in 1 .. Len(s) : s[i] = (s \o t)[i]
    BY <2>3
  <2> HIDE DEF w
  <2> QED
    BY <2>1, <2>2, <2>3, <2>4
<1>3. \A i \in 1 .. Len(s) : /\ s[i][1] = "status" <=> i = 1
                             /\ s[i][1] = "blank" <=> i = Len(v)
                             /\ s[i][1] = "body" <=> i = Len(v) + 1
                             /\ s[i][1] = "length" => s[i][2] = n
  <2> TAKE i \in 1 .. Len(s)
  <2>1. CASE i <= Len(v)
    <3>1. i \in 1 .. Len(v) /\ s[i] = v[i]
      BY <1>2, <2>1
    <3> QED
      BY <1>2, <3>1 DEF Header
  <2>2. CASE i = Len(v) + 1
    <3>1. s[i] = b
      BY <1>2, <2>2
    <3> QED
      BY <1>1, <1>2, <2>2, <3>1 DEF Header
  <2> QED
    BY <1>2, <2>1, <2>2
<1>4. CASE Len(s) <= Len(v)
  <2>1. BytesOf(s) = 0
    BY <1>2, <1>3, <1>4, NoBody
  <2>2. t # << >>
    BY <1>2, <1>4, EmptySeq
  <2>3. \A i \in 1 .. Len(s) : s[i][1] # "body"
    BY <1>2, <1>3, <1>4
  <2> HIDE DEF w
  <2>4. \A i \in Places_(s, "length") : BytesOf(s) <= s[i][2]
    BY <1>2, <1>3, <2>1 DEF Places_
  <2>5. \A i \in DOMAIN s, j \in Places_(s, "blank") : s[i][1] = "body" <=> i > j
    BY <1>2, <1>3, <1>4 DEF Places_
  <2>6. Places_(s, "status") \subseteq {1} /\ Places_(s, "body") = {}
    BY <1>2, <1>3, <2>3 DEF Places_
  <2> QED
    BY <2>2, <2>4, <2>5, <2>6 DEF WellFramed
<1>5. CASE Len(s) = Len(v) + 1
  <2>1. Len(t) = 0
    BY <1>2, <1>5
  <2>2. s = w
    <3>1. w \in Seq(Pieces) /\ Len(w) = Len(v) + 1
      BY <1>1, AppendProperties
    <3> HIDE DEF w
    <3> QED
      BY <1>2, <1>5, <3>1, SeqEqual
  <2>3. BytesOf(v) = 0
    BY NoBody DEF Header
  <2>4. BytesOf(s) = n
    BY <1>1, <2>2, <2>3, BytesGrow
  <2> HIDE DEF w
  <2>5. \A i \in Places_(s, "length") : BytesOf(s) = s[i][2]
    BY <1>2, <1>3, <2>4 DEF Places_
  <2>6. \A i \in DOMAIN s, j \in Places_(s, "blank") : s[i][1] = "body" <=> i > j
    BY <1>2, <1>3, <1>5 DEF Places_
  <2>7. Places_(s, "status") \subseteq {1}
    BY <1>2, <1>3 DEF Places_
  <2>8. Places_(s, "blank") # {}
    <3>1. Len(v) \in 1 .. Len(s)
      BY <1>2, <1>5 DEF Header
    <3> QED
      BY <1>2, <1>3, <3>1 DEF Places_
  <2>9. \A i \in Places_(s, "length") : BytesOf(s) <= s[i][2]
    BY <2>4, <2>5
  <2> QED
    BY <2>5, <2>6, <2>7, <2>8, <2>9 DEF WellFramed, Whole
<1>6. Len(s) <= Len(v) \/ Len(s) = Len(v) + 1
  <2>1. \A x, y, z \in Nat : x + y = z + 1 => x <= z \/ x = z + 1
    OBVIOUS
  <2>2. Len(s) \in Nat /\ Len(t) \in Nat /\ Len(v) \in Nat /\ Len(s) + Len(t) = Len(v) + 1
    BY <1>2
  <2> HIDE DEF w
  <2> QED
    BY <2>1, <2>2
<1> QED
  BY <1>4, <1>5, <1>6

(* What the child writes is framed all along, and whole in the end.         *)
LEMMA WhatsFramed ==
    ASSUME ErrorSize \in Nat, NEW next \in {"close", "fork"}, NEW w \in Whats(next),
           NEW s \in Seq(Pieces), NEW t \in Seq(Pieces), Parts(w, s, t)
    PROVE  /\ WellFramed(s)
           /\ t = << >> => Whole(s) /\ (next = "fork" => s = DynamicHead)
<1>1. CASE next = "fork"
  <2>1. s \o t = <<<<"status", 200>>, <<"field">>>>
    BY <1>1 DEF Whats, DynamicHead, Parts
  <2>2. /\ Len(s) <= 2 /\ Len(s) \in Nat /\ DOMAIN s = 1 .. Len(s)
        /\ Len(s) >= 1 => s[1] = <<"status", 200>>
        /\ Len(s) = 2 => s[2] = <<"field">>
    <3>1. /\ Len(s) \in Nat /\ Len(t) \in Nat /\ Len(s \o t) = Len(s) + Len(t) /\ DOMAIN s = 1 .. Len(s)
          /\ \A i \in 1 .. Len(s) + Len(t) : (s \o t)[i] = IF i <= Len(s) THEN s[i] ELSE t[i - Len(s)]
      BY ConcatProperties, LenProperties
    <3>2. Len(s \o t) = 2 /\ (s \o t)[1] = <<"status", 200>> /\ (s \o t)[2] = <<"field">>
      <4>1. <<"status", 200>> \in Pieces /\ <<"field">> \in Pieces
        BY PieceKinds
      <4> QED
        BY <2>1, <4>1, TwoElements
    <3>5. Len(s) \in Nat /\ Len(t) \in Nat /\ Len(s) + Len(t) = 2
      BY <3>1, <3>2
    <3>3. Len(s) <= 2
      BY <3>5
    <3>4. \A i \in 1 .. Len(s) : s[i] = (s \o t)[i]
      BY <3>1
    <3> QED
      BY <3>1, <3>2, <3>3, <3>4
  <2>3. \A i \in 1 .. Len(s) : /\ s[i][1] = "status" <=> i = 1
                               /\ s[i][1] \notin {"blank", "body", "length"}
    <3> TAKE i \in 1 .. Len(s)
    <3>1. i = 1 \/ i = 2
      BY <2>2
    <3>2. CASE i = 1
      BY <2>2, <3>2, PieceKinds
    <3>3. CASE i = 2
      BY <2>2, <3>3, PieceKinds
    <3> QED
      BY <3>1, <3>2, <3>3
  <2>4. t = << >> => s = DynamicHead
    BY <2>1, ConcatEmptySeq DEF DynamicHead
  <2>5. WellFramed(s) /\ Whole(s)
    BY <2>2, <2>3 DEF WellFramed, Whole, Places_
  <2> QED
    BY <2>4, <2>5
<1>2. CASE next = "close" /\ \E code \in {403, 404, 501} : w = clienterror(code)
  <2>1. PICK code \in {403, 404, 501} : w = clienterror(code)
    BY <1>2
  <2> DEFINE v == <<<<"status", code>>, <<"field">>, <<"length", ErrorSize>>, <<"blank">>>>
  <2> DEFINE a == <<"status", code>>
             f == <<"field">>
             l == <<"length", ErrorSize>>
             e == <<"blank">>
             b == <<"body", ErrorSize>>
  <2>8. code \in Nat
    BY <2>1
  <2>5. a \in Pieces /\ f \in Pieces /\ l \in Pieces /\ e \in Pieces /\ b \in Pieces
    BY <2>8, PieceKinds
  <2>6. w = <<a, f, l, e, b>> /\ v = <<a, f, l, e>>
    BY <2>1 DEF clienterror
  <2>7. v \in Seq(Pieces) /\ Len(v) = 4 /\ w = Append(v, b)
    <3> HIDE DEF a, f, l, e, b, v
    <3> QED
      BY <2>5, <2>6, FourAndOne
  <2>2. w = Append(v, <<"body", ErrorSize>>)
    BY <2>7
  <2>3. v \in Seq(Pieces) /\ Len(v) = 4
    BY <2>7
  <2>4. Header(v, ErrorSize)
    <3>1. /\ v[1] = <<"status", code>> /\ v[2] = <<"field">> /\ v[3] = <<"length", ErrorSize>>
          /\ v[4] = <<"blank">>
      OBVIOUS
    <3> HIDE DEF v
    <3>2. \A i \in 1 .. Len(v) : i = 1 \/ i = 2 \/ i = 3 \/ i = 4
      BY <2>3
    <3> QED
      BY <2>3, <3>1, <3>2, PieceKinds DEF Header
  <2> HIDE DEF v
  <2> QED
    BY <1>2, <2>2, <2>3, <2>4, HeaderFramed
<1>3. CASE next = "close" /\ \E n \in Nat : w = serve_static(n)
  <2>1. PICK n \in Nat : w = serve_static(n)
    BY <1>3
  <2> DEFINE v == <<<<"status", 200>>, <<"field">>, <<"field">>, <<"length", n>>, <<"field">>, <<"blank">>>>
  <2> DEFINE a == <<"status", 200>>
             f == <<"field">>
             l == <<"length", n>>
             e == <<"blank">>
             b == <<"body", n>>
  <2>5. a \in Pieces /\ f \in Pieces /\ l \in Pieces /\ e \in Pieces /\ b \in Pieces
    BY PieceKinds
  <2>6. w = <<a, f, f, l, f, e, b>> /\ v = <<a, f, f, l, f, e>>
    BY <2>1 DEF serve_static
  <2>7. v \in Seq(Pieces) /\ Len(v) = 6 /\ w = Append(v, b)
    <3> HIDE DEF a, f, l, e, b, v
    <3> QED
      BY <2>5, <2>6, SixAndOne
  <2>2. w = Append(v, <<"body", n>>)
    BY <2>7
  <2>3. v \in Seq(Pieces) /\ Len(v) = 6
    BY <2>7
  <2>4. Header(v, n)
    <3>1. /\ v[1] = <<"status", 200>> /\ v[2] = <<"field">> /\ v[3] = <<"field">> /\ v[4] = <<"length", n>>
          /\ v[5] = <<"field">> /\ v[6] = <<"blank">>
      OBVIOUS
    <3> HIDE DEF v
    <3>2. \A i \in 1 .. Len(v) : i = 1 \/ i = 2 \/ i = 3 \/ i = 4 \/ i = 5 \/ i = 6
      BY <2>3
    <3> QED
      BY <2>3, <3>1, <3>2, PieceKinds DEF Header
  <2> HIDE DEF v
  <2> QED
    BY <1>3, <2>2, <2>3, <2>4, HeaderFramed
<1> QED
  BY <1>1, <1>2, <1>3 DEF Whats

(* The answers are sequences of pieces.                                     *)
LEMMA AnswersArePieces ==
    ASSUME ErrorSize \in Nat, NEW n \in Nat
    PROVE  /\ DynamicHead \in Seq(Pieces) /\ Len(DynamicHead) = 2
           /\ serve_static(n) \in Seq(Pieces) /\ Len(serve_static(n)) = 7
           /\ clienterror(n) \in Seq(Pieces) /\ Len(clienterror(n)) = 5
<1> DEFINE a == <<"status", 200>>
           g == <<"status", n>>
           f == <<"field">>
           l == <<"length", n>>
           k == <<"length", ErrorSize>>
           e == <<"blank">>
           b == <<"body", n>>
           d == <<"body", ErrorSize>>
<1>1. /\ a \in Pieces /\ g \in Pieces /\ f \in Pieces /\ l \in Pieces /\ k \in Pieces /\ e \in Pieces
      /\ b \in Pieces /\ d \in Pieces
  BY PieceKinds
<1>2. DynamicHead = <<a, f>> /\ serve_static(n) = <<a, f, f, l, f, e, b>> /\ clienterror(n) = <<g, f, k, e, d>>
  BY DEF DynamicHead, serve_static, clienterror
<1> HIDE DEF a, g, f, l, k, e, b, d
<1> QED
  BY <1>1, <1>2

(* What doit may have to write is a sequence of pieces.                     *)
LEMMA WhatsArePieces ==
    ASSUME ErrorSize \in Nat, NEW next \in {"close", "fork"}, NEW w \in Whats(next)
    PROVE  w \in Seq(Pieces) /\ Len(w) \in Nat \ {0}
<1>1. CASE next = "fork"
  <2>1. w = DynamicHead
    BY <1>1 DEF Whats
  <2>2. DynamicHead \in Seq(Pieces) /\ Len(DynamicHead) = 2
    <3> DEFINE n == 0
    <3>1. n \in Nat
      OBVIOUS
    <3> HIDE DEF n
    <3> QED
      BY <3>1, AnswersArePieces
  <2> QED
    BY <2>1, <2>2
<1>2. CASE next = "close" /\ \E code \in {403, 404, 501} : w = clienterror(code)
  <2>1. PICK n \in Nat : w = clienterror(n)
    BY <1>2
  <2>2. clienterror(n) \in Seq(Pieces) /\ Len(clienterror(n)) = 5
    BY AnswersArePieces
  <2> QED
    BY <2>1, <2>2
<1>3. CASE next = "close" /\ \E n \in Nat : w = serve_static(n)
  BY <1>3, AnswersArePieces
<1> QED
  BY <1>1, <1>2, <1>3 DEF Whats

(* The response of adder is like that of a file, as long as its text.       *)
LEMMA AdderFramed ==
    ASSUME ErrorSize \in Nat,
           NEW s, s = DynamicHead \o <<<<"field">>, <<"length", ErrorSize>>, <<"field">>, <<"blank">>,
                                       <<"body", ErrorSize>>>>
    PROVE  s \in Seq(Pieces) /\ WellFramed(s) /\ Whole(s)
<1> DEFINE a == <<"status", 200>>
           f == <<"field">>
           l == <<"length", ErrorSize>>
           e == <<"blank">>
           b == <<"body", ErrorSize>>
<1>1. a \in Pieces /\ f \in Pieces /\ l \in Pieces /\ e \in Pieces /\ b \in Pieces
  BY PieceKinds
<1>2. s = <<a, f>> \o <<f, l, f, e, b>> /\ serve_static(ErrorSize) = <<a, f, f, l, f, e, b>>
  BY DEF DynamicHead, serve_static
<1>3. s = serve_static(ErrorSize)
  <2> HIDE DEF a, f, l, e, b
  <2>1. <<a, f>> \o <<f, l, f, e, b>> = <<a, f, f, l, f, e, b>>
    BY <1>1, TwoAndFive
  <2> QED
    BY <1>2, <2>1
<1>4. s \in Seq(Pieces) /\ s \in Whats("close")
  BY <1>3, AnswersArePieces DEF Whats
<1>5. << >> \in Seq(Pieces) /\ Parts(s, s, << >>)
  BY <1>4, ConcatEmptySeq, EmptySeq DEF Parts
<1> QED
  BY <1>4, <1>5, WhatsFramed

(* That of hello gives no length.                                           *)
LEMMA HelloFramed ==
    ASSUME ErrorSize \in Nat,
           NEW s, s = DynamicHead \o <<<<"field">>, <<"blank">>, <<"body", ErrorSize>>>>
    PROVE  s \in Seq(Pieces) /\ WellFramed(s) /\ Whole(s)
<1> DEFINE a == <<"status", 200>>
           f == <<"field">>
           e == <<"blank">>
           b == <<"body", ErrorSize>>
           v == <<a, f, f, e>>
<1>1. a \in Pieces /\ f \in Pieces /\ e \in Pieces /\ b \in Pieces
  BY PieceKinds
<1>2. s = <<a, f>> \o <<f, e, b>>
  BY DEF DynamicHead
<1>3. s = Append(v, b) /\ v \in Seq(Pieces) /\ Len(v) = 4 /\ s \in Seq(Pieces)
  <2> HIDE DEF a, f, e, b
  <2>1. <<a, f>> \o <<f, e, b>> = <<a, f, f, e, b>> /\ Append(v, b) = <<a, f, f, e, b>>
    BY <1>1, TwoAndThree, FourAndOne
  <2>2. v \in Seq(Pieces) /\ Len(v) = 4 /\ <<a, f, f, e, b>> \in Seq(Pieces)
    BY <1>1
  <2> QED
    BY <1>2, <2>1, <2>2
<1>4. Header(v, ErrorSize)
  <2>1. v[1] = <<"status", 200>> /\ v[2] = <<"field">> /\ v[3] = <<"field">> /\ v[4] = <<"blank">>
    OBVIOUS
  <2> HIDE DEF v
  <2>2. \A i \in 1 .. Len(v) : i = 1 \/ i = 2 \/ i = 3 \/ i = 4
    BY <1>3
  <2> QED
    BY <1>3, <2>1, <2>2, PieceKinds DEF Header
<1>5. << >> \in Seq(Pieces) /\ Parts(Append(v, b), s, << >>)
  BY <1>3, ConcatEmptySeq, EmptySeq DEF Parts
<1> HIDE DEF v
<1> QED
  BY <1>3, <1>4, <1>5, HeaderFramed

(* The header of slow, which is its response before the first chunk.        *)
LEMMA SlowHeader ==
    ASSUME NEW size \in Nat
    PROVE  /\ SlowHead(size) \in Seq(Pieces) /\ Len(SlowHead(size)) = 6
           /\ Header(SlowHead(size), size) /\ SlowSent(SlowHead(size), size, 0)
<1> DEFINE a == <<"status", 200>>
           f == <<"field">>
           l == <<"length", size>>
           e == <<"blank">>
           v == <<a, f, f, l, f, e>>
<1>1. a \in Pieces /\ f \in Pieces /\ l \in Pieces /\ e \in Pieces
  BY PieceKinds
<1>2. SlowHead(size) = <<a, f>> \o <<f, l, f, e>>
  BY DEF SlowHead, DynamicHead
<1>3. SlowHead(size) = v /\ v \in Seq(Pieces) /\ Len(v) = 6
  <2> HIDE DEF a, f, l, e
  <2>1. v \in Seq(Pieces) /\ Len(v) = 6
    BY <1>1
  <2> QED
    BY <1>1, <1>2, <2>1, TwoAndFour
<1>4. Header(v, size)
  <2>1. /\ v[1] = <<"status", 200>> /\ v[2] = <<"field">> /\ v[3] = <<"field">> /\ v[4] = <<"length", size>>
        /\ v[5] = <<"field">> /\ v[6] = <<"blank">>
    OBVIOUS
  <2> HIDE DEF v
  <2>2. \A i \in 1 .. Len(v) : i = 1 \/ i = 2 \/ i = 3 \/ i = 4 \/ i = 5 \/ i = 6
    BY <1>3
  <2> QED
    BY <1>3, <2>1, <2>2, PieceKinds DEF Header
<1> HIDE DEF v
<1>5. BytesOf(v) = 0
  BY <1>3, <1>4, NoBody DEF Header
<1> QED
  BY <1>3, <1>4, <1>5 DEF SlowSent

(* The response of slow is well framed at every chunk, and whole when all   *)
(* of the body is there.                                                    *)
LEMMA SlowFramed ==
    ASSUME NEW s \in Seq(Pieces), NEW size \in Nat, NEW n \in Nat, SlowSent(s, size, n)
    PROVE  WellFramed(s) /\ (n = size => Whole(s))
<1>1. /\ \A i \in 1 .. 6 :
            /\ s[i][1] = "status" <=> i = 1
            /\ s[i][1] = "blank" <=> i = 6
            /\ s[i][1] # "body"
            /\ s[i][1] = "length" => s[i][2] = size
      /\ \A i \in 7 .. Len(s) : s[i][1] = "body"
      /\ Len(s) \in Nat /\ Len(s) >= 6 /\ DOMAIN s = 1 .. Len(s) /\ BytesOf(s) = n /\ n <= size
  <2> DEFINE v == SlowHead(size)
  <2>1. Len(v) = 6 /\ Header(v, size)
    BY SlowHeader
  <2> HIDE DEF v
  <2>2. \A i \in 1 .. 6 :
            /\ v[i][1] = "status" <=> i = 1
            /\ v[i][1] = "blank" <=> i = 6
            /\ v[i][1] # "body"
            /\ v[i][1] = "length" => v[i][2] = size
    BY <2>1 DEF Header
  <2>3. \A i \in 1 .. 6 : s[i] = v[i]
    BY DEF SlowSent, v
  <2>4. Len(s) \in Nat /\ DOMAIN s = 1 .. Len(s)
    BY LenProperties
  <2> QED
    BY <2>2, <2>3, <2>4 DEF SlowSent
<1>2. \A i \in DOMAIN s : i \in 1 .. 6 \/ i \in 7 .. Len(s)
  BY <1>1
<1>3. Places_(s, "status") \subseteq {1} /\ Places_(s, "blank") \subseteq {6}
  BY <1>1, <1>2 DEF Places_
<1>4. 6 \in Places_(s, "blank")
  BY <1>1 DEF Places_
<1>5. \A i \in Places_(s, "length") : s[i][2] = size
  BY <1>1, <1>2 DEF Places_
<1>6. \A i \in DOMAIN s : s[i][1] = "body" <=> i > 6
  BY <1>1, <1>2
<1>7. \A i \in DOMAIN s, j \in Places_(s, "blank") : s[i][1] = "body" <=> i > j
  BY <1>3, <1>6
<1> QED
  BY <1>1, <1>3, <1>4, <1>5, <1>7 DEF WellFramed, Whole

(* One more chunk.                                                          *)
LEMMA SlowGrows ==
    ASSUME NEW s \in Seq(Pieces), NEW size \in Nat, NEW n \in Nat, SlowSent(s, size, n),
           NEW m \in Nat, n < m, m <= size
    PROVE  SlowSent(Append(s, <<"body", m - n>>), size, m)
<1> DEFINE p == <<"body", m - n>>
           t == Append(s, p)
<1>1. m - n \in Nat
  OBVIOUS
<1>2. p \in Pieces /\ p[1] = "body" /\ p[2] = m - n
  BY <1>1, PieceKinds
<1> HIDE DEF p
<1>3. /\ Len(t) = Len(s) + 1 /\ Len(s) \in Nat /\ t[Len(s) + 1] = p
      /\ \A i \in 1 .. Len(s) : t[i] = s[i]
  BY <1>2, AppendProperties, LenProperties
<1>4. BytesOf(t) = BytesOf(s) + p[2]
  BY <1>2, BytesGrow
<1> HIDE DEF t
<1>5. BytesOf(t) = m
  BY <1>2, <1>4 DEF SlowSent
<1>6. Len(s) >= 6 /\ \A k \in 1 .. 6 : t[k] = SlowHead(size)[k]
  BY <1>3 DEF SlowSent
<1>7. \A k \in 7 .. Len(t) : k \in 7 .. Len(s) \/ k = Len(s) + 1
  BY <1>3
<1>8. \A k \in 7 .. Len(t) : t[k][1] = "body"
  BY <1>2, <1>3, <1>7 DEF SlowSent
<1>9. SlowSent(t, size, m)
  BY <1>3, <1>5, <1>6, <1>8 DEF SlowSent
<1> QED
  BY <1>9 DEF t, p

----------------------------------------------------------------------------
(* The requests. *)

(* What is known of the request of a connection that asks.                  *)
LEMMA RequestKnown ==
    ASSUME TinyAssumption, request \in Scenarios, NEW c \in DOMAIN request
    PROVE  /\ request[c].headers \in Nat
           /\ Args(c) \in Seq(Pairs2)
           /\ Stat(Target(c).name).kind = "regular" => Stat(Target(c).name).size \in Nat
<1>1. << >> \in Seq(Pairs2)
  BY EmptySeq
<1> QED
  BY <1>1 DEF TinyAssumption, Args, Target, parse_uri

(* The sizes that slow finds in its query are numbers.                      *)
LEMMA SizesKnown ==
    ASSUME TinyAssumption, request \in Scenarios, NEW c \in DOMAIN request
    PROVE  Size(c) \in Nat /\ ChunkSize(c) \in Nat
<1>1. Args(c) \in Seq(Pairs2)
  BY RequestKnown
<1> DEFINE a == Args(c)
<1>2. \A name : Value(c, name) \in Nat
  <2> TAKE name
  <2> DEFINE S == {i \in 1 .. Len(a) : a[i][1] = name}
  <2>1. Value(c, name) = IF S = {} THEN 0 ELSE a[Max(S)][2]
    BY DEF Value
  <2>2. Len(a) \in Nat /\ S \subseteq 0 .. Len(a) /\ S \subseteq 1 .. Len(a)
    BY <1>1, LenProperties
  <2>3. S # {} => Max(S) \in S
    <3> HIDE DEF S, a
    <3> QED
      BY <2>2, MaxOfNats
  <2>4. ASSUME NEW i \in 1 .. Len(a) PROVE a[i][2] \in Nat
    <3>1. a[i] \in Pairs2
      BY <1>1, ElementOfSeq
    <3> QED
      BY <3>1 DEF Pairs2
  <2> HIDE DEF S, a
  <2>5. CASE S = {}
    BY <2>1, <2>5
  <2>6. CASE S # {}
    <3>1. Max(S) \in 1 .. Len(a)
      BY <2>2, <2>3, <2>6
    <3>2. a[Max(S)][2] \in Nat
      BY <2>4, <3>1
    <3> QED
      BY <2>1, <2>6, <3>2
  <2> QED
    BY <2>5, <2>6
<1>3. Size(c) \in Nat /\ Size(c) \div 2 \in Nat
  BY <1>2 DEF Size
<1> QED
  BY <1>2, <1>3 DEF ChunkSize

(* A request ends with its only empty line.                                 *)
LEMMA LinesEndBlank ==
    ASSUME NEW r, r.headers \in Nat
    PROVE  /\ Lines(r) \in Seq(Texts) /\ Lines(r) # << >> /\ EndsBlank(Tail(Lines(r)))
<1> DEFINE n == r.headers
           h == [i \in 1 .. n |-> "header"]
           q == <<"request">>
           b == <<"blank">>
           s == Lines(r)
<1>1. q \in Seq(Texts) /\ Len(q) = 1 /\ b \in Seq(Texts) /\ Len(b) = 1 /\ b[1] = "blank"
  BY DEF Texts
<1>2. h \in Seq(Texts) /\ Len(h) = n
  BY DEF Texts
<1>3. \A i \in 1 .. n : h[i] = "header"
  OBVIOUS
<1>4. s = (q \o h) \o b
  BY DEF Lines
<1> HIDE DEF h, b, q, s
<1> DEFINE u == q \o h
<1>5. /\ u \in Seq(Texts) /\ Len(u) = 1 + n
      /\ \A i \in 1 .. 1 + n : u[i] = IF i <= 1 THEN q[i] ELSE h[i - 1]
  <2>1. /\ u \in Seq(Texts) /\ Len(u) = Len(q) + Len(h)
        /\ \A i \in 1 .. Len(q) + Len(h) : u[i] = IF i <= Len(q) THEN q[i] ELSE h[i - Len(q)]
    BY <1>1, <1>2, ConcatProperties
  <2> HIDE DEF u
  <2> QED
    BY <1>1, <1>2, <2>1
<1> HIDE DEF u
<1>6. /\ s \in Seq(Texts) /\ Len(s) = n + 2
      /\ \A i \in 1 .. n + 2 : s[i] = IF i <= 1 + n THEN u[i] ELSE b[i - (1 + n)]
  <2>1. /\ u \o b \in Seq(Texts) /\ Len(u \o b) = Len(u) + Len(b)
        /\ \A i \in 1 .. Len(u) + Len(b) : (u \o b)[i] = IF i <= Len(u) THEN u[i] ELSE b[i - Len(u)]
    BY <1>1, <1>5, ConcatProperties
  <2>2. s = u \o b /\ Len(u) + Len(b) = n + 2 /\ Len(u) = 1 + n
    BY <1>1, <1>4, <1>5 DEF u
  <2> QED
    BY <2>1, <2>2
<1>7. s # << >>
  BY <1>6, EmptySeq
<1>8. Len(Tail(s)) = n + 1 /\ \A k \in 1 .. n + 1 : Tail(s)[k] = s[k + 1]
  BY <1>6, <1>7, HeadTailProperties
<1>9. \A k \in 1 .. n + 1 : s[k + 1] = IF k <= n THEN "header" ELSE "blank"
  <2> TAKE k \in 1 .. n + 1
  <2>1. k + 1 \in 1 .. n + 2 /\ (k + 1 <= 1 + n <=> k <= n) /\ ~ (k + 1 <= 1) /\ (k + 1) - 1 = k
    OBVIOUS
  <2>2. CASE k <= n
    BY <1>3, <1>5, <1>6, <2>1, <2>2
  <2>3. CASE ~ (k <= n)
    BY <1>1, <1>6, <2>1, <2>3
  <2> QED
    BY <2>2, <2>3
<1> HIDE DEF n
<1>10. n \in Nat
  BY DEF n
<1>11. EndsBlank(Tail(s))
  BY <1>8, <1>9, <1>10 DEF EndsBlank
<1> QED
  BY <1>6, <1>7, <1>11 DEF s

(* Reading a line takes the first of what is left of the request.           *)
LEMMA LineTaken ==
    ASSUME NEW c \in Conns, unread \in [Conns -> Seq(Texts)], arriving \in [Conns -> Seq(Texts)],
           toSend \in [Conns -> Seq(Texts)], HasLine(c), TakesLine(c), toSend' = toSend
    PROVE  /\ unread' \in [Conns -> Seq(Texts)] /\ arriving' \in [Conns -> Seq(Texts)]
           /\ \A d \in Conns \ {c} : unread'[d] = unread[d] /\ arriving'[d] = arriving[d]
           /\ Rest(c) \in Seq(Texts) /\ Rest(c) # << >> /\ NextLine(c) = Head(Rest(c))
           /\ Rest(c)' = Tail(Rest(c))
<1> DEFINE u == unread[c]
           a == arriving[c]
           t == toSend[c]
<1>1. u \in Seq(Texts) /\ a \in Seq(Texts) /\ t \in Seq(Texts) /\ u \o a # << >>
  BY DEF HasLine
<1>2. u \o a \in Seq(Texts)
  BY <1>1, ConcatProperties
<1>3. Rest(c) = (u \o a) \o t
  BY DEF Rest
<1>4. /\ Rest(c) \in Seq(Texts) /\ Rest(c) # << >> /\ Head(Rest(c)) = Head(u \o a)
      /\ Tail(Rest(c)) = Tail(u \o a) \o t
  <2> DEFINE w == u \o a
  <2>1. w \in Seq(Texts) /\ w # << >> /\ Rest(c) = w \o t
    BY <1>1, <1>2, <1>3
  <2> HIDE DEF w, u, a, t
  <2>2. w \o t \in Seq(Texts) /\ w \o t # << >> /\ Head(w \o t) = Head(w) /\ Tail(w \o t) = Tail(w) \o t
    BY <1>1, <2>1, ConcatProperties, TailOfJoin
  <2> QED
    BY <2>1, <2>2 DEF w
<1>5. CASE u # << >>
  <2>1. Tail(u) \in Seq(Texts) /\ Tail(u \o a) = Tail(u) \o a
    BY <1>1, <1>5, TailOfJoin, HeadTailProperties
  <2>2. unread' = [unread EXCEPT ![c] = Tail(u)] /\ arriving' = arriving
    BY <1>5 DEF TakesLine
  <2>3. Rest(c)' = (Tail(u) \o a) \o t
    BY <2>2 DEF Rest
  <2> QED
    BY <1>4, <2>1, <2>2, <2>3 DEF NextLine
<1>6. CASE u = << >>
  <2>1. u \o a = a /\ a # << >> /\ Tail(a) \in Seq(Texts) /\ << >> \in Seq(Texts)
    BY <1>1, <1>6, ConcatEmptySeq, HeadTailProperties, EmptySeq
  <2>2. unread' = [unread EXCEPT ![c] = Tail(a)] /\ arriving' = [arriving EXCEPT ![c] = << >>]
    BY <1>6 DEF TakesLine
  <2>3. Rest(c)' = (Tail(a) \o << >>) \o t
    BY <2>2 DEF Rest
  <2>4. Tail(a) \o << >> = Tail(a)
    BY <2>1, ConcatEmptySeq
  <2> QED
    BY <1>4, <2>1, <2>2, <2>3, <2>4 DEF NextLine
<1> QED
  BY <1>5, <1>6

----------------------------------------------------------------------------
(* The invariant holds at first. *)

(* A response that is not begun is well framed.                             *)
LEMMA EmptyIsFramed == WellFramed(<< >>)
<1>1. BytesOf(<< >>) = 0
  BY BytesOfNothing
<1> QED
  BY <1>1 DEF WellFramed, Places_

(* The types hold at first.                                                 *)
LEMMA InitTypes == ASSUME TinyAssumption, Init PROVE TinyTypes
<1>1. << >> \in Seq(Texts) /\ << >> \in Seq(Pieces) /\ << >> \in Seq(Conns)
  BY EmptySeq
<1>2. \A c \in DOMAIN request : Lines(request[c]) \in Seq(Texts)
  <2> TAKE c \in DOMAIN request
  <2>1. request[c].headers \in Nat
    BY RequestKnown DEF Init
  <2> QED
    BY <2>1, LinesEndBlank
<1>3. toSend \in [Conns -> Seq(Texts)]
  BY <1>1, <1>2 DEF Init
<1> QED
  BY <1>1, <1>3 DEF Init, TinyTypes, Steps, CgiSteps

(* The invariant holds at first.                                            *)
LEMMA InitInv == ASSUME TinyAssumption, Init PROVE TinyInvT
<1>1. TinyTypes
  BY InitTypes
<1>2. Accepting
  BY DEF Init, Accepting
<1>3. ASSUME NEW c \in Conns PROVE Waits(c) /\ Reading(c) /\ Writing(c)
  <2>1. Waits(c)
    BY DEF Init, Waits
  <2>2. resp[c] = << >> /\ at[c] = "none" /\ cgi[c] = "none" /\ sent[c] = 0
    BY DEF Init
  <2>3. c \in DOMAIN request => Rest(c) = Lines(request[c])
    <3>1. Rest(c) = << >> \o << >> \o toSend[c] /\ toSend[c] \in Seq(Texts) /\ << >> \in Seq(Texts)
      BY <1>1, EmptySeq DEF Init, Rest, TinyTypes
    <3>2. << >> \o << >> = << >> /\ << >> \o toSend[c] = toSend[c]
      BY <3>1, ConcatEmptySeq
    <3> QED
      BY <3>1, <3>2 DEF Init
  <2>4. Reading(c)
    BY <2>2, <2>3 DEF Reading
  <2>5. Writing(c)
    BY <2>2, EmptyIsFramed DEF Writing
  <2> QED
    BY <2>1, <2>4, <2>5
<1> QED
  BY <1>1, <1>2, <1>3 DEF TinyInvT, TinyInv

----------------------------------------------------------------------------
(* A step keeps it. *)

(* What the invariant of a connection depends on.                           *)
Same(d) ==
    /\ request' = request
    /\ at'[d] = at[d] /\ cgi'[d] = cgi[d] /\ sent'[d] = sent[d] /\ then'[d] = then[d]
    /\ unread'[d] = unread[d] /\ arriving'[d] = arriving[d] /\ toSend'[d] = toSend[d]
    /\ toWrite'[d] = toWrite[d] /\ resp'[d] = resp[d] /\ gone'[d] = gone[d]

(* The size of a response is that of its request.                           *)
LEMMA SizeStays ==
    ASSUME NEW c, request' = request
    PROVE  Size(c)' = Size(c)
BY DEF Size, Value, Args, Target, parse_uri

(* What a step leaves of a connection keeps its part of the invariant.      *)
LEMMA OthersStay ==
    ASSUME NEW d \in Conns, Same(d), Waits(d), Reading(d), Writing(d)
    PROVE  Waits(d)' /\ Reading(d)' /\ Writing(d)'
<1>1. Size(d)' = Size(d)
  BY SizeStays DEF Same
<1>2. Rest(d)' = Rest(d)
  BY DEF Same, Rest
<1>3. Waits(d)'
  BY DEF Same, Waits
<1>4. Reading(d)'
  BY <1>2 DEF Same, Reading
<1>5. Writing(d)'
  BY <1>1 DEF Same, Writing
<1> QED
  BY <1>3, <1>4, <1>5

(* A connection that is read, served or forked for asks for something.      *)
LEMMA Asking ==
    ASSUME TinyInvT, NEW c \in Conns, at[c] # "none" \/ cgi[c] # "none"
    PROVE  c \in DOMAIN request /\ request \in Scenarios
<1>1. Accepting /\ Waits(c) /\ TinyTypes
  BY DEF TinyInvT, TinyInv
<1>2. at[c] # "none"
  BY <1>1 DEF Waits
<1> QED
  BY <1>1, <1>2 DEF Accepting, TinyTypes

(* What doit begins to write is one of its answers.                         *)
LEMMA Answers ==
    ASSUME TinyAssumption, TinyInvT, NEW c \in Conns, doit(c)
    PROVE  \E next \in {"close", "fork"} : \E w \in Whats(next) : Goes(c, w, next)
<1> DEFINE s == Stat(Target(c).name)
<1>1. at[c] = "serve"
  BY DEF doit
<1>2. s.kind = "regular" => s.size \in Nat
  BY <1>1, Asking, RequestKnown
<1>3. \/ Goes(c, clienterror(404), "close")
      \/ Goes(c, clienterror(403), "close")
      \/ s.kind = "regular" /\ Goes(c, serve_static(s.size), "close")
      \/ Goes(c, DynamicHead, "fork")
  BY DEF doit
<1>4. clienterror(404) \in Whats("close") /\ clienterror(403) \in Whats("close") /\ DynamicHead \in Whats("fork")
  BY DEF Whats
<1>5. s.kind = "regular" => serve_static(s.size) \in Whats("close")
  BY <1>2 DEF Whats
<1> HIDE DEF s
<1> QED
  BY <1>3, <1>4, <1>5

(* The error for an unknown method is one of the responses doit writes.     *)
LEMMA Error501 == clienterror(501) \in Whats("close")
BY DEF Whats

(* The next step of a child that writes.                                    *)
LEMMA GoesTypes ==
    ASSUME ErrorSize \in Nat, TinyTypes, NEW c \in Conns, NEW next \in {"close", "fork"},
           NEW w \in Whats(next), Goes(c, w, next)
    PROVE  /\ at' \in [Conns -> Steps] /\ toWrite' \in [Conns -> Seq(Pieces)]
           /\ then' \in [Conns -> {"close", "fork"}]
<1>1. w \in Seq(Pieces)
  BY WhatsArePieces
<1> QED
  BY <1>1 DEF Goes, TinyTypes, Steps

(* The main process keeps the types.                                        *)
LEMMA TypesOfMain ==
    ASSUME TinyAssumption, TinyInvT, Main
    PROVE  TinyTypes'
<1>1. TinyTypes /\ Accepting
  BY DEF TinyInvT, TinyInv
<1>2. CASE Accept
  <2>1. Head(backlog) \in Conns /\ Tail(backlog) \in Seq(Conns)
    BY <1>1, <1>2, HeadTailProperties DEF Accept, TinyTypes
  <2> QED
    BY <1>1, <1>2, <2>1 DEF Accept, TinyTypes, childVars, cgiVars, clientVars
<1>3. CASE Fork
  <2>1. connfd \in Conns
    BY <1>1, <1>3 DEF Fork, Accepting
  <2> QED
    BY <1>1, <1>3, <2>1 DEF Fork, TinyTypes, Steps, cgiVars, clientVars
<1>4. CASE MainCloses
  <2>1. connfd \in Conns
    BY <1>1, <1>4 DEF MainCloses, Accepting
  <2> QED
    BY <1>1, <1>4, <2>1 DEF MainCloses, TinyTypes, childVars, cgiVars, clientVars
<1> QED
  BY <1>2, <1>3, <1>4 DEF Main

(* A child keeps the types.                                                 *)
LEMMA TypesOfChild ==
    ASSUME TinyAssumption, TinyInvT, NEW c \in Conns, Child(c) \/ Dies(c)
    PROVE  TinyTypes'
<1>1. TinyTypes /\ Writing(c) /\ ErrorSize \in Nat
  BY DEF TinyInvT, TinyInv, TinyAssumption
<1>2. CASE ReadRequest(c)
  <2>1. unread' \in [Conns -> Seq(Texts)] /\ arriving' \in [Conns -> Seq(Texts)]
    BY <1>1, <1>2, LineTaken DEF ReadRequest, TinyTypes
  <2>2. /\ at' \in [Conns -> Steps] /\ toWrite' \in [Conns -> Seq(Pieces)]
        /\ then' \in [Conns -> {"close", "fork"}]
    <3>1. CASE Goes(c, clienterror(501), "close")
      BY <1>1, <3>1, Error501, GoesTypes
    <3>2. CASE at' = [at EXCEPT ![c] = "headers"] /\ UNCHANGED <<toWrite, then>>
      BY <1>1, <3>2 DEF TinyTypes, Steps
    <3> QED
      BY <1>2, <3>1, <3>2 DEF ReadRequest
  <2> QED
    BY <1>1, <1>2, <2>1, <2>2 DEF ReadRequest, TinyTypes, mainVars, cgiVars
<1>3. CASE NoRequest(c)
  BY <1>1, <1>3 DEF NoRequest, TinyTypes, Steps, mainVars, cgiVars, clientVars
<1>4. CASE read_requesthdrs(c)
  <2>1. unread' \in [Conns -> Seq(Texts)] /\ arriving' \in [Conns -> Seq(Texts)]
    BY <1>1, <1>4, LineTaken DEF read_requesthdrs, TinyTypes
  <2> QED
    BY <1>1, <1>4, <2>1 DEF read_requesthdrs, TinyTypes, Steps, mainVars, cgiVars
<1>5. CASE HeadersSpin(c)
  BY <1>1, <1>5 DEF HeadersSpin, TinyTypes, Steps, mainVars, cgiVars, clientVars
<1>6. CASE doit(c)
  <2>1. /\ at' \in [Conns -> Steps] /\ toWrite' \in [Conns -> Seq(Pieces)]
        /\ then' \in [Conns -> {"close", "fork"}]
    BY <1>1, <1>6, Answers, GoesTypes
  <2> QED
    BY <1>1, <1>6, <2>1 DEF doit, TinyTypes, mainVars, cgiVars, clientVars
<1>7. CASE Write(c)
  <2>1. toWrite[c] \in Seq(Pieces) /\ toWrite[c] # << >>
    BY <1>1, <1>7 DEF Write, Writing, TinyTypes
  <2>2. Head(toWrite[c]) \in Pieces /\ Tail(toWrite[c]) \in Seq(Pieces)
    BY <2>1, HeadTailProperties
  <2>3. Append(resp[c], Head(toWrite[c])) \in Seq(Pieces)
    BY <1>1, <2>2, AppendProperties DEF TinyTypes
  <2>4. resp' \in [Conns -> Seq(Pieces)] /\ toWrite' \in [Conns -> Seq(Pieces)]
    BY <1>1, <1>7, <2>2, <2>3 DEF Write, TinyTypes
  <2>5. at' \in [Conns -> Steps]
    BY <1>1, <1>7 DEF Write, TinyTypes, Steps
  <2> QED
    BY <1>1, <1>7, <2>4, <2>5 DEF Write, TinyTypes, mainVars, cgiVars, clientVars
<1>8. CASE ForkCgi(c)
  BY <1>1, <1>8 DEF ForkCgi, TinyTypes, Steps, CgiSteps, mainVars, clientVars
<1>9. CASE Wait(c)
  BY <1>1, <1>9 DEF Wait, TinyTypes, Steps, mainVars, cgiVars, clientVars
<1>10. CASE Close(c)
  BY <1>1, <1>10 DEF Close, TinyTypes, Steps, mainVars, cgiVars, clientVars
<1>11. CASE Dies(c)
  <2>1. << >> \in Seq(Pieces)
    BY EmptySeq
  <2> QED
    BY <1>1, <1>11, <2>1 DEF Dies, TinyTypes, Steps, mainVars, cgiVars, clientVars
<1> QED
  BY <1>2, <1>3, <1>4, <1>5, <1>6, <1>7, <1>8, <1>9, <1>10, <1>11 DEF Child

(* A client keeps the types.                                                *)
LEMMA TypesOfClient ==
    ASSUME TinyInvT, NEW c \in Conns,
           Connect(c) \/ ClientSends(c) \/ ClientFinishes(c) \/ ClientGone(c)
    PROVE  TinyTypes'
<1>1. TinyTypes
  BY DEF TinyInvT
<1>2. CASE Connect(c)
  <2>1. Append(backlog, c) \in Seq(Conns)
    BY <1>1, AppendProperties DEF TinyTypes
  <2> QED
    BY <1>1, <1>2, <2>1 DEF Connect, TinyTypes, childVars, cgiVars, clientVars
<1>3. CASE ClientSends(c)
  <2>1. toSend[c] \in Seq(Texts) /\ arriving[c] \in Seq(Texts) /\ toSend[c] # << >>
    BY <1>1, <1>3 DEF ClientSends, TinyTypes
  <2>2. Append(arriving[c], Head(toSend[c])) \in Seq(Texts) /\ Tail(toSend[c]) \in Seq(Texts)
    BY <2>1, HeadMoves
  <2> QED
    BY <1>1, <1>3, <2>2 DEF ClientSends, TinyTypes, mainVars, childVars, cgiVars
<1>4. CASE ClientFinishes(c)
  BY <1>1, <1>4 DEF ClientFinishes, TinyTypes, mainVars, childVars, cgiVars
<1>5. CASE ClientGone(c)
  BY <1>1, <1>5 DEF ClientGone, TinyTypes, mainVars, childVars, cgiVars
<1> QED
  BY <1>2, <1>3, <1>4, <1>5

(* How far slow gets with a chunk.                                          *)
LEMMA ChunkBounds ==
    ASSUME TinyAssumption, TinyInvT, NEW c \in Conns, SlowChunk(c)
    PROVE  /\ Size(c) \in Nat /\ sent[c] \in Nat /\ ChunkEnd(c) \in Nat
           /\ sent[c] <= ChunkEnd(c) /\ ChunkEnd(c) <= Size(c)
<1>1. cgi[c] = "loop" /\ sent[c] < Size(c)
  BY DEF SlowChunk
<1>2. Size(c) \in Nat /\ ChunkSize(c) \in Nat
  BY <1>1, Asking, SizesKnown
<1>3. sent[c] \in Nat
  BY DEF TinyInvT, TinyTypes
<1> DEFINE a == sent[c] + ChunkSize(c)
<1>4. a \in Nat /\ sent[c] <= a
  BY <1>2, <1>3
<1>5. ChunkEnd(c) = Min({a, Size(c)})
  BY DEF ChunkEnd
<1> HIDE DEF a
<1>6. /\ Min({a, Size(c)}) \in Nat /\ Min({a, Size(c)}) <= Size(c)
      /\ Min({a, Size(c)}) = a \/ Min({a, Size(c)}) = Size(c)
  BY <1>2, <1>4, MinOfTwo
<1> QED
  BY <1>1, <1>2, <1>3, <1>4, <1>5, <1>6

(* Whatever a CGI program does, it writes pieces.                           *)
LEMMA CgiSteps_ ==
    ASSUME TinyAssumption, TinyInvT, NEW c \in Conns, Cgi(c) \/ CgiDies(c)
    PROVE  /\ cgi[c] \in {"start", "loop"}
           /\ sent' \in [Conns -> Nat] /\ \A d \in Conns \ {c} : sent'[d] = sent[d]
           /\ \E pieces \in Seq(Pieces) : \E next \in {"loop", "exited", "crashed"} :
                 CgiWrites(c, pieces, next)
<1>1. sent \in [Conns -> Nat] /\ ErrorSize \in Nat
  BY DEF TinyInvT, TinyTypes, TinyAssumption
<1> DEFINE N(pieces, next) == /\ pieces \in Seq(Pieces) /\ next \in {"loop", "exited", "crashed"}
                              /\ CgiWrites(c, pieces, next)
<1>2. << >> \in Seq(Pieces)
  BY EmptySeq
<1>3. CASE adder(c)
  <2> DEFINE f == <<"field">>
             l == <<"length", ErrorSize>>
             e == <<"blank">>
             b == <<"body", ErrorSize>>
             p == <<f, l, f, e, b>>
  <2>1. p \in Seq(Pieces)
    <3>1. f \in Pieces /\ l \in Pieces /\ e \in Pieces /\ b \in Pieces
      BY <1>1, PieceKinds
    <3> HIDE DEF f, l, e, b
    <3> QED
      BY <3>1
  <2>2. CgiWrites(c, << >>, "crashed") \/ CgiWrites(c, p, "exited")
    BY <1>3 DEF adder
  <2> HIDE DEF p
  <2> QED
    BY <1>1, <1>2, <1>3, <2>1, <2>2 DEF adder
<1>4. CASE hello(c)
  <2> DEFINE f == <<"field">>
             e == <<"blank">>
             b == <<"body", ErrorSize>>
             p == <<f, e, b>>
  <2>1. p \in Seq(Pieces)
    <3>1. f \in Pieces /\ e \in Pieces /\ b \in Pieces
      BY <1>1, PieceKinds
    <3> HIDE DEF f, e, b
    <3> QED
      BY <3>1
  <2>2. CgiWrites(c, p, "exited")
    BY <1>4 DEF hello
  <2> HIDE DEF p
  <2> QED
    BY <1>1, <1>4, <2>1, <2>2 DEF hello
<1>5. CASE SlowStarts(c)
  <2> DEFINE f == <<"field">>
             l == <<"length", Size(c)>>
             e == <<"blank">>
             p == <<f, l, f, e>>
  <2>1. p \in Seq(Pieces)
    <3>1. Size(c) \in Nat
      BY <1>5, Asking, SizesKnown DEF SlowStarts
    <3>2. f \in Pieces /\ l \in Pieces /\ e \in Pieces
      BY <3>1, PieceKinds
    <3> HIDE DEF f, l, e
    <3> QED
      BY <3>2
  <2>2. CgiWrites(c, p, "loop")
    BY <1>5 DEF SlowStarts
  <2> HIDE DEF p
  <2> QED
    BY <1>1, <1>5, <2>1, <2>2 DEF SlowStarts
<1>6. CASE SlowChunk(c)
  <2> DEFINE p == IF ChunkEnd(c) > sent[c] THEN <<<<"body", ChunkEnd(c) - sent[c]>>>> ELSE << >>
  <2>1. /\ sent[c] \in Nat /\ ChunkEnd(c) \in Nat /\ sent[c] <= ChunkEnd(c)
    BY <1>6, ChunkBounds
  <2>2. p \in Seq(Pieces)
    <3>1. ChunkEnd(c) - sent[c] \in Nat
      BY <2>1
    <3>2. <<"body", ChunkEnd(c) - sent[c]>> \in Pieces
      BY <3>1, PieceKinds
    <3>3. <<<<"body", ChunkEnd(c) - sent[c]>>>> \in Seq(Pieces)
      BY <3>2
    <3> QED
      BY <1>2, <3>3
  <2>3. CgiWrites(c, p, "loop")
    BY <1>6 DEF SlowChunk
  <2>4. sent' \in [Conns -> Nat] /\ \A d \in Conns \ {c} : sent'[d] = sent[d]
    BY <1>1, <1>6, <2>1 DEF SlowChunk
  <2> HIDE DEF p
  <2> QED
    BY <1>6, <2>2, <2>3, <2>4 DEF SlowChunk
<1>7. CASE SlowEnds(c)
  BY <1>1, <1>2, <1>7 DEF SlowEnds
<1>8. CASE CgiDies(c)
  BY <1>1, <1>2, <1>8 DEF CgiDies
<1> QED
  BY <1>3, <1>4, <1>5, <1>6, <1>7, <1>8 DEF Cgi

(* A CGI program keeps the types.                                           *)
LEMMA TypesOfCgi ==
    ASSUME TinyAssumption, TinyInvT, NEW c \in Conns, Cgi(c) \/ CgiDies(c)
    PROVE  TinyTypes'
<1>1. TinyTypes
  BY DEF TinyInvT
<1>2. PICK pieces \in Seq(Pieces), next \in {"loop", "exited", "crashed"} : CgiWrites(c, pieces, next)
  BY CgiSteps_
<1>3. resp[c] \o pieces \in Seq(Pieces)
  BY <1>1, ConcatProperties DEF TinyTypes
<1>4. resp' \in [Conns -> Seq(Pieces)]
  BY <1>1, <1>2, <1>3 DEF CgiWrites, TinyTypes
<1>5. cgi' \in [Conns -> CgiSteps]
  BY <1>1, <1>2 DEF CgiWrites, TinyTypes, CgiSteps
<1>6. open' \in [Conns -> SUBSET {"main", "child", "cgi"}]
  BY <1>1, <1>2 DEF CgiWrites, TinyTypes
<1>7. sent' \in [Conns -> Nat]
  BY CgiSteps_
<1> QED
  BY <1>1, <1>2, <1>4, <1>5, <1>6, <1>7 DEF CgiWrites, TinyTypes, mainVars, childVars, clientVars

(* Every step keeps the types.                                              *)
LEMMA TypesStay ==
    ASSUME TinyAssumption, TinyInvT, [Next]_vars
    PROVE  TinyTypes'
<1>1. CASE Main
  BY <1>1, TypesOfMain
<1>2. CASE \E c \in Conns : Child(c) \/ Dies(c) \/ Cgi(c) \/ CgiDies(c)
  BY <1>2, TypesOfChild, TypesOfCgi
<1>3. CASE \E c \in Conns : Connect(c) \/ ClientSends(c) \/ ClientFinishes(c) \/ ClientGone(c)
  BY <1>3, TypesOfClient
<1>4. CASE UNCHANGED vars
  BY <1>4 DEF TinyInvT, TinyTypes, vars, mainVars, childVars, cgiVars, clientVars
<1> QED
  BY <1>1, <1>2, <1>3, <1>4 DEF Next

(* Who holds which connection.                                              *)
LEMMA AcceptingOfMain ==
    ASSUME TinyInvT, Main
    PROVE  Accepting'
<1>1. TinyTypes /\ Accepting /\ \A c \in Conns : Waits(c)
  BY DEF TinyInvT, TinyInv
<1>2. CASE Accept
  <2> DEFINE h == Head(backlog)
             b == Tail(backlog)
  <2>1. backlog \in Seq(Conns) /\ backlog # << >> /\ main = "accept"
    BY <1>1, <1>2 DEF Accept, TinyTypes
  <2>2. /\ h = backlog[1] /\ h \in Conns /\ Len(backlog) \in Nat \ {0} /\ b \in Seq(Conns)
        /\ DOMAIN backlog = 1 .. Len(backlog) /\ DOMAIN b = 1 .. Len(backlog) - 1
        /\ \A k \in DOMAIN b : b[k] = backlog[k + 1]
    BY <2>1, HeadTailProperties, LenProperties, EmptySeq
  <2> HIDE DEF h, b
  <2>3. 1 \in DOMAIN backlog /\ \A k \in DOMAIN b : k + 1 \in DOMAIN backlog /\ k + 1 # 1
    BY <2>2
  <2>4. h \in DOMAIN request /\ at[h] = "none" /\ open[h] = {}
    BY <1>1, <2>2, <2>3 DEF Accepting
  <2>5. \A k \in DOMAIN b : b[k] # h
    BY <1>1, <2>2, <2>3 DEF Accepting
  <2>6. \A k \in DOMAIN b, n \in DOMAIN b : b[k] = b[n] => k = n
    <3> TAKE k \in DOMAIN b, n \in DOMAIN b
    <3> HAVE b[k] = b[n]
    <3>1. k + 1 = n + 1
      BY <1>1, <2>2, <2>3 DEF Accepting
    <3> QED
      BY <2>2, <3>1
  <2>7. /\ main' = "fork" /\ connfd' = h /\ backlog' = b /\ open' = [open EXCEPT ![h] = {"main"}]
        /\ at' = at /\ cgi' = cgi /\ request' = request
    BY <1>2 DEF Accept, h, b, childVars, cgiVars
  <2>8. ASSUME NEW c \in Conns
        PROVE  /\ "main" \in open'[c] <=> c = h
               /\ "child" \in open'[c] <=> at[c] \notin {"none", "exited"}
               /\ "cgi" \in open'[c] <=> cgi[c] \in {"start", "loop"}
               /\ at[c] # "none" => c \in DOMAIN request
    <3>1. CASE c = h
      <4>1. open'[c] = {"main"} /\ at[c] = "none" /\ cgi[c] = "none"
        BY <1>1, <2>2, <2>4, <2>7, <3>1 DEF TinyTypes, Waits
      <4> QED
        BY <2>4, <3>1, <4>1
    <3>2. CASE c # h
      <4>1. open'[c] = open[c]
        BY <1>1, <2>7, <3>2 DEF TinyTypes
      <4> QED
        BY <1>1, <2>1, <3>2, <4>1 DEF Accepting
    <3> QED
      BY <3>1, <3>2
  <2>9. \A k \in DOMAIN b : b[k] \in DOMAIN request /\ at[b[k]] = "none" /\ open'[b[k]] = {}
    <3> TAKE k \in DOMAIN b
    <3>1. b[k] \in Conns /\ b[k] # h /\ k + 1 \in DOMAIN backlog /\ b[k] = backlog[k + 1]
      BY <2>2, <2>3, <2>5, ElementOfSeq
    <3>2. open'[b[k]] = open[b[k]]
      BY <1>1, <2>7, <3>1 DEF TinyTypes
    <3> QED
      BY <1>1, <3>1, <3>2 DEF Accepting
  <2> QED
    BY <2>2, <2>4, <2>6, <2>7, <2>8, <2>9 DEF Accepting
<1>3. CASE Fork
  <2>1. /\ main = "fork" /\ main' = "close" /\ connfd' = connfd /\ backlog' = backlog /\ cgi' = cgi
        /\ request' = request
        /\ open' = [open EXCEPT ![connfd] = @ \cup {"child"}] /\ at' = [at EXCEPT ![connfd] = "request"]
    BY <1>3 DEF Fork, cgiVars
  <2>2. connfd \in Conns /\ connfd \in DOMAIN request /\ at[connfd] = "none" /\ "main" \in open[connfd]
    BY <1>1, <2>1 DEF Accepting
  <2>3. ASSUME NEW c \in Conns
        PROVE  /\ "main" \in open'[c] <=> c = connfd
               /\ "child" \in open'[c] <=> at'[c] \notin {"none", "exited"}
               /\ "cgi" \in open'[c] <=> cgi[c] \in {"start", "loop"}
               /\ at'[c] # "none" => c \in DOMAIN request
    <3>1. CASE c = connfd
      <4>1. open'[c] = open[c] \cup {"child"} /\ at'[c] = "request"
        BY <1>1, <2>1, <2>2, <3>1 DEF TinyTypes
      <4> QED
        BY <1>1, <2>1, <2>2, <3>1, <4>1 DEF Accepting
    <3>2. CASE c # connfd
      <4>1. open'[c] = open[c] /\ at'[c] = at[c]
        BY <1>1, <2>1, <3>2 DEF TinyTypes
      <4> QED
        BY <1>1, <2>1, <3>2, <4>1 DEF Accepting
    <3> QED
      BY <3>1, <3>2
  <2>4. \A k \in DOMAIN backlog : open'[backlog[k]] = {} /\ at'[backlog[k]] = "none"
    <3> TAKE k \in DOMAIN backlog
    <3>1. open[backlog[k]] = {} /\ at[backlog[k]] = "none" /\ backlog[k] \in Conns
      BY <1>1, ElementOfSeq, LenProperties DEF Accepting, TinyTypes
    <3>2. backlog[k] # connfd
      BY <2>2, <3>1
    <3> QED
      BY <1>1, <2>1, <3>1, <3>2 DEF TinyTypes
  <2> QED
    BY <1>1, <2>1, <2>2, <2>3, <2>4 DEF Accepting
<1>4. CASE MainCloses
  <2>1. /\ main = "close" /\ main' = "accept" /\ backlog' = backlog /\ cgi' = cgi /\ at' = at
        /\ request' = request
        /\ open' = [open EXCEPT ![connfd] = @ \ {"main"}]
    BY <1>4 DEF MainCloses, cgiVars, childVars
  <2>2. connfd \in Conns /\ "main" \in open[connfd]
    BY <1>1, <2>1 DEF Accepting
  <2>3. ASSUME NEW c \in Conns
        PROVE  /\ "main" \notin open'[c]
               /\ "child" \in open'[c] <=> at[c] \notin {"none", "exited"}
               /\ "cgi" \in open'[c] <=> cgi[c] \in {"start", "loop"}
               /\ at[c] # "none" => c \in DOMAIN request
    <3>1. CASE c = connfd
      <4>1. open'[c] = open[c] \ {"main"}
        BY <1>1, <2>1, <2>2, <3>1 DEF TinyTypes
      <4> QED
        BY <1>1, <4>1 DEF Accepting
    <3>2. CASE c # connfd
      <4>1. open'[c] = open[c]
        BY <1>1, <2>1, <3>2 DEF TinyTypes
      <4> QED
        BY <1>1, <2>1, <3>2, <4>1 DEF Accepting
    <3> QED
      BY <3>1, <3>2
  <2>4. \A k \in DOMAIN backlog : open'[backlog[k]] = {}
    <3> TAKE k \in DOMAIN backlog
    <3>1. open[backlog[k]] = {} /\ backlog[k] \in Conns
      BY <1>1, ElementOfSeq, LenProperties DEF Accepting, TinyTypes
    <3>2. backlog[k] # connfd
      BY <2>2, <3>1
    <3> QED
      BY <1>1, <2>1, <3>1, <3>2 DEF TinyTypes
  <2> QED
    BY <1>1, <2>1, <2>3, <2>4 DEF Accepting
<1> QED
  BY <1>2, <1>3, <1>4 DEF Main

(* A step of a child or of a CGI program leaves the queue of connections    *)
(* alone: it only has to say who still holds its own.                       *)
LEMMA AcceptingOfOne ==
    ASSUME TinyInvT, NEW c \in Conns, at[c] # "none", at'[c] # "none",
           request' = request, main' = main, connfd' = connfd, backlog' = backlog,
           \A d \in Conns \ {c} : open'[d] = open[d] /\ at'[d] = at[d] /\ cgi'[d] = cgi[d],
           "main" \in open'[c] <=> "main" \in open[c],
           "child" \in open'[c] <=> at'[c] \notin {"none", "exited"},
           "cgi" \in open'[c] <=> cgi'[c] \in {"start", "loop"}
    PROVE  Accepting'
<1>1. TinyTypes /\ Accepting
  BY DEF TinyInvT, TinyInv
<1>2. main # "accept" => connfd \in Conns \cap DOMAIN request
  BY <1>1 DEF Accepting
<1>3. main = "fork" => at'[connfd] = "none"
  <2> HAVE main = "fork"
  <2>1. connfd \in Conns /\ at[connfd] = "none"
    BY <1>1 DEF Accepting
  <2>2. connfd # c
    BY <2>1
  <2> QED
    BY <2>1, <2>2
<1>4. ASSUME NEW d \in Conns
      PROVE  /\ "main" \in open'[d] <=> main # "accept" /\ connfd = d
             /\ "child" \in open'[d] <=> at'[d] \notin {"none", "exited"}
             /\ "cgi" \in open'[d] <=> cgi'[d] \in {"start", "loop"}
             /\ at'[d] # "none" => d \in DOMAIN request
  <2>1. CASE d = c
    BY <1>1, <2>1 DEF Accepting
  <2>2. CASE d # c
    <3>1. open'[d] = open[d] /\ at'[d] = at[d] /\ cgi'[d] = cgi[d]
      BY <2>2
    <3> QED
      BY <1>1, <3>1 DEF Accepting
  <2> QED
    BY <2>1, <2>2
<1>5. \A k \in DOMAIN backlog : open'[backlog[k]] = {} /\ at'[backlog[k]] = "none"
  <2> TAKE k \in DOMAIN backlog
  <2>1. open[backlog[k]] = {} /\ at[backlog[k]] = "none" /\ backlog[k] \in Conns
    BY <1>1, ElementOfSeq, LenProperties DEF Accepting, TinyTypes
  <2>2. backlog[k] # c
    BY <2>1
  <2> QED
    BY <2>1, <2>2
<1> QED
  BY <1>1, <1>2, <1>3, <1>4, <1>5 DEF Accepting

(* A new client is in the backlog.                                          *)
LEMMA AcceptingOfConnect ==
    ASSUME TinyInvT, NEW c \in Conns, Connect(c)
    PROVE  Accepting'
<1>1. TinyTypes /\ Accepting
  BY DEF TinyInvT, TinyInv
<1> DEFINE b == Append(backlog, c)
<1>2. /\ backlog' = b /\ UNCHANGED <<request, main, connfd, open, at, cgi>>
      /\ c \in DOMAIN request /\ at[c] = "none" /\ open[c] = {} /\ c \notin ToSet(backlog)
  BY <1>1 DEF Connect, Connected, childVars, cgiVars
<1>3. /\ DOMAIN b = 1 .. Len(backlog) + 1 /\ Len(backlog) \in Nat /\ DOMAIN backlog = 1 .. Len(backlog)
      /\ \A k \in 1 .. Len(backlog) : b[k] = backlog[k]
      /\ b[Len(backlog) + 1] = c
  <2>1. backlog \in Seq(Conns)
    BY <1>1 DEF TinyTypes
  <2>2. b \in Seq(Conns) /\ Len(b) = Len(backlog) + 1
    BY <2>1, AppendProperties
  <2> QED
    BY <2>1, <2>2, AppendProperties, LenProperties
<1> HIDE DEF b
<1>4. \A k \in DOMAIN backlog : backlog[k] # c
  BY <1>2 DEF ToSet
<1>5. \A k \in DOMAIN b : k \in DOMAIN backlog \/ k = Len(backlog) + 1
  BY <1>3
<1>6. \A k \in DOMAIN b : b[k] \in DOMAIN request /\ at[b[k]] = "none" /\ open[b[k]] = {}
  BY <1>1, <1>2, <1>3, <1>5 DEF Accepting
<1>7. \A k \in DOMAIN b, n \in DOMAIN b : b[k] = b[n] => k = n
  BY <1>1, <1>3, <1>4, <1>5 DEF Accepting
<1> QED
  BY <1>1, <1>2, <1>6, <1>7 DEF Accepting

(* A step of one connection keeps the invariant if it does so for that      *)
(* connection.                                                              *)
LEMMA OneKeeps ==
    ASSUME TinyInvT, NEW c \in Conns, \A d \in Conns \ {c} : Same(d),
           Waits(c)', Reading(c)', Writing(c)', Accepting'
    PROVE  TinyInv'
<1>1. ASSUME NEW d \in Conns PROVE Waits(d)' /\ Reading(d)' /\ Writing(d)'
  <2>1. CASE d = c
    BY <2>1
  <2>2. CASE d # c
    <3>1. Same(d) /\ Waits(d) /\ Reading(d) /\ Writing(d)
      BY <2>2 DEF TinyInvT, TinyInv
    <3> QED
      BY <3>1, OthersStay
  <2> QED
    BY <2>1, <2>2
<1> QED
  BY <1>1 DEF TinyInv

(* The child's own step, when it does not close and no program runs.        *)
LEMMA AcceptingOfChild ==
    ASSUME TinyInvT, NEW c \in Conns, at[c] \notin {"none", "exited"}, at'[c] \notin {"none", "exited"},
           \A d \in Conns \ {c} : at'[d] = at[d],
           UNCHANGED <<request, main, connfd, backlog, open, cgi>>
    PROVE  Accepting'
<1>1. /\ "child" \in open[c] /\ "cgi" \in open[c] <=> cgi[c] \in {"start", "loop"}
  BY DEF TinyInvT, TinyInv, Accepting
<1>2. Accepting
  BY DEF TinyInvT, TinyInv
<1>3. \A d \in Conns \ {c} : open'[d] = open[d] /\ at'[d] = at[d] /\ cgi'[d] = cgi[d]
  OBVIOUS
<1>4. /\ "main" \in open'[c] <=> "main" \in open[c]
      /\ "child" \in open'[c] <=> at'[c] \notin {"none", "exited"}
      /\ "cgi" \in open'[c] <=> cgi'[c] \in {"start", "loop"}
  BY <1>1, <1>2 DEF Accepting
<1> QED
  BY <1>3, <1>4, AcceptingOfOne

(* Reading the request line keeps the invariant.                            *)
LEMMA ReadRequestKeeps ==
    ASSUME TinyAssumption, TinyInvT, NEW c \in Conns, ReadRequest(c)
    PROVE  TinyInv'
<1>1. TinyTypes /\ Waits(c) /\ Reading(c) /\ Writing(c)
  BY DEF TinyInvT, TinyInv
<1>2. /\ at[c] = "request" /\ HasLine(c) /\ TakesLine(c) /\ request' = request /\ cgi' = cgi /\ sent' = sent
      /\ resp' = resp /\ toSend' = toSend /\ gone' = gone /\ open' = open
      /\ UNCHANGED <<main, connfd, backlog>>
  BY DEF ReadRequest, mainVars, cgiVars
<1>3. /\ \A d \in Conns \ {c} : unread'[d] = unread[d] /\ arriving'[d] = arriving[d]
      /\ Rest(c)' = Tail(Rest(c)) /\ Rest(c) = Lines(request[c])
  BY <1>1, <1>2, Asking, LineTaken DEF TinyTypes, Reading
<1>4. c \in DOMAIN request /\ request[c].headers \in Nat
  BY <1>2, Asking, RequestKnown
<1>5. resp[c] = << >> /\ cgi[c] = "none" /\ sent[c] = 0
  BY <1>1, <1>2 DEF Reading, Waits, Writing
<1>6. CASE request[c].method # "GET" /\ Goes(c, clienterror(501), "close")
  <2> DEFINE w == clienterror(501)
  <2>1. /\ at' = [at EXCEPT ![c] = "write"] /\ toWrite' = [toWrite EXCEPT ![c] = w]
        /\ then' = [then EXCEPT ![c] = "close"]
    BY <1>6 DEF Goes
  <2>2. w \in Whats("close") /\ w \in Seq(Pieces) /\ Len(w) \in Nat \ {0}
    BY Error501, WhatsArePieces DEF TinyAssumption
  <2>3. w # << >> /\ << >> \o w = w
    BY <2>2, EmptySeq, ConcatEmptySeq
  <2> HIDE DEF w
  <2>4. at'[c] = "write" /\ toWrite'[c] = w /\ then'[c] = "close"
    BY <1>1, <2>1 DEF TinyTypes
  <2>5. \A d \in Conns \ {c} : Same(d)
    BY <1>1, <1>2, <1>3, <2>1 DEF Same, TinyTypes
  <2>6. Waits(c)'
    BY <1>2, <1>5, <2>4 DEF Waits
  <2>7. Reading(c)'
    BY <1>2, <1>6, <2>4 DEF Reading
  <2>8. Writing(c)'
    BY <1>1, <1>2, <1>5, <2>2, <2>3, <2>4 DEF Writing
  <2>9. Accepting'
    BY <1>1, <1>2, <2>1, <2>4, AcceptingOfChild DEF TinyTypes
  <2> QED
    BY <2>5, <2>6, <2>7, <2>8, <2>9, OneKeeps
<1>7. CASE at' = [at EXCEPT ![c] = "headers"] /\ UNCHANGED <<toWrite, then>>
  <2>1. at'[c] = "headers"
    BY <1>1, <1>7 DEF TinyTypes
  <2>2. \A d \in Conns \ {c} : Same(d)
    BY <1>1, <1>2, <1>3, <1>7 DEF Same, TinyTypes
  <2>3. Waits(c)'
    BY <1>2, <1>5, <2>1 DEF Waits
  <2>4. EndsBlank(Rest(c))'
    <3>1. EndsBlank(Tail(Lines(request[c])))
      BY <1>4, LinesEndBlank
    <3>2. EndsBlank(Rest(c)')
      BY <1>3, <3>1
    <3> QED
      BY <3>2 DEF EndsBlank
  <2>5. Reading(c)'
    BY <1>2, <1>5, <2>1, <2>4 DEF Reading
  <2>6. Writing(c)'
    BY <1>1, <1>2, <1>5, <2>1 DEF Writing
  <2>7. Accepting'
    BY <1>1, <1>2, <1>7, <2>1, AcceptingOfChild DEF TinyTypes
  <2> QED
    BY <2>2, <2>3, <2>5, <2>6, <2>7, OneKeeps
<1> QED
  BY <1>6, <1>7 DEF ReadRequest

(* What EndsBlank says of the first line.                                   *)
LEMMA BlankIsLast ==
    ASSUME NEW s \in Seq(Texts), EndsBlank(s)
    PROVE  /\ s # << >>
           /\ Head(s) = "blank" => Tail(s) = << >>
           /\ Head(s) # "blank" => EndsBlank(Tail(s))
<1>1. s # << >> /\ Len(s) \in Nat /\ Len(s) > 0 /\ \A k \in 1 .. Len(s) : s[k] = "blank" <=> k = Len(s)
  BY LenProperties, EmptySeq DEF EndsBlank
<1>2. /\ Head(s) = s[1] /\ Tail(s) \in Seq(Texts) /\ Len(Tail(s)) = Len(s) - 1
      /\ \A k \in 1 .. Len(s) - 1 : Tail(s)[k] = s[k + 1]
  BY <1>1, HeadTailProperties
<1> DEFINE u == Tail(s)
<1>5. Head(s) = "blank" <=> 1 = Len(s)
  <2>1. 1 \in 1 .. Len(s)
    BY <1>1
  <2> QED
    BY <1>1, <1>2, <2>1
<1> HIDE DEF u
<1>3. CASE Head(s) = "blank"
  <2>1. Len(s) = 1
    BY <1>3, <1>5
  <2>2. Len(Tail(s)) = 0
    BY <1>2, <2>1
  <2> QED
    BY <1>1, <1>2, <1>3, <2>2, EmptySeq
<1>4. CASE Head(s) # "blank"
  <2>1. Len(s) # 1
    BY <1>4, <1>5
  <2>2. Len(u) = Len(s) - 1 /\ Len(u) > 0 /\ \A k \in 1 .. Len(u) : u[k] = s[k + 1]
    <3>1. Len(u) = Len(s) - 1 /\ \A k \in 1 .. Len(s) - 1 : u[k] = s[k + 1]
      BY <1>2 DEF u
    <3> QED
      BY <1>1, <2>1, <3>1
  <2>3. \A k \in 1 .. Len(u) : s[k + 1] = "blank" <=> k = Len(u)
    <3> TAKE k \in 1 .. Len(u)
    <3>1. k + 1 \in 1 .. Len(s) /\ (k + 1 = Len(s) <=> k = Len(u))
      BY <1>1, <2>2
    <3> QED
      BY <1>1, <3>1
  <2>4. EndsBlank(u)
    BY <2>2, <2>3 DEF EndsBlank
  <2> QED
    BY <1>1, <1>4, <2>4 DEF u
<1> QED
  BY <1>3, <1>4

(* Reading a header line keeps the invariant.                               *)
LEMMA HeadersKeep ==
    ASSUME TinyAssumption, TinyInvT, NEW c \in Conns, read_requesthdrs(c)
    PROVE  TinyInv'
<1>1. TinyTypes /\ Waits(c) /\ Reading(c) /\ Writing(c)
  BY DEF TinyInvT, TinyInv
<1>2. /\ at[c] = "headers" /\ HasLine(c) /\ TakesLine(c) /\ request' = request /\ cgi' = cgi /\ sent' = sent
      /\ resp' = resp /\ toSend' = toSend /\ gone' = gone /\ open' = open
      /\ UNCHANGED <<main, connfd, backlog, toWrite, then>>
      /\ at' = [at EXCEPT ![c] = IF NextLine(c) = "blank" THEN "serve" ELSE @]
  BY DEF read_requesthdrs, mainVars, cgiVars
<1>3. /\ \A d \in Conns \ {c} : unread'[d] = unread[d] /\ arriving'[d] = arriving[d]
      /\ Rest(c)' = Tail(Rest(c)) /\ Rest(c) \in Seq(Texts) /\ NextLine(c) = Head(Rest(c))
  BY <1>1, <1>2, LineTaken DEF TinyTypes
<1>4. EndsBlank(Rest(c))
  BY <1>1, <1>2 DEF Reading
<1>5. resp[c] = << >> /\ cgi[c] = "none" /\ sent[c] = 0
  BY <1>1, <1>2 DEF Reading, Waits, Writing
<1>6. at'[c] = IF NextLine(c) = "blank" THEN "serve" ELSE "headers"
  BY <1>1, <1>2 DEF TinyTypes
<1>7. \A d \in Conns \ {c} : Same(d)
  BY <1>1, <1>2, <1>3 DEF Same, TinyTypes
<1>8. Waits(c)'
  BY <1>2, <1>5, <1>6 DEF Waits
<1>9. Reading(c)'
  <2>1. CASE NextLine(c) = "blank"
    <3>1. Rest(c)' = << >> /\ at'[c] = "serve"
      BY <1>3, <1>4, <1>6, <2>1, BlankIsLast
    <3> QED
      BY <1>2, <1>5, <3>1 DEF Reading
  <2>2. CASE NextLine(c) # "blank"
    <3>1. EndsBlank(Rest(c)') /\ at'[c] = "headers"
      BY <1>3, <1>4, <1>6, <2>2, BlankIsLast
    <3>2. EndsBlank(Rest(c))'
      BY <3>1 DEF EndsBlank
    <3> QED
      BY <1>2, <1>5, <3>1, <3>2 DEF Reading
  <2> QED
    BY <2>1, <2>2
<1>10. Writing(c)'
  BY <1>1, <1>2, <1>5, <1>6 DEF Writing
<1>11. Accepting'
  BY <1>1, <1>2, <1>6, AcceptingOfChild DEF TinyTypes
<1> QED
  BY <1>7, <1>8, <1>9, <1>10, <1>11, OneKeeps

(* A stream that ends early keeps the invariant.                            *)
LEMMA NoRequestKeeps ==
    ASSUME TinyInvT, NEW c \in Conns, NoRequest(c) \/ HeadersSpin(c)
    PROVE  TinyInv'
<1>1. TinyTypes /\ Waits(c) /\ Reading(c) /\ Writing(c)
  BY DEF TinyInvT, TinyInv
<1>2. /\ at[c] \in {"request", "headers"} /\ request' = request /\ cgi' = cgi /\ sent' = sent
      /\ resp' = resp /\ toSend' = toSend /\ gone' = gone /\ open' = open
      /\ UNCHANGED <<main, connfd, backlog, unread, arriving, toWrite, then>>
      /\ at' = [at EXCEPT ![c] = "close"] \/ at' = [at EXCEPT ![c] = "spins"]
  BY DEF NoRequest, HeadersSpin, mainVars, cgiVars, clientVars
<1>3. at'[c] \in {"close", "spins"} /\ \A d \in Conns \ {c} : at'[d] = at[d]
  BY <1>1, <1>2 DEF TinyTypes
<1>4. resp[c] = << >> /\ cgi[c] = "none" /\ sent[c] = 0
  BY <1>1, <1>2 DEF Reading, Waits, Writing
<1>5. \A d \in Conns \ {c} : Same(d)
  BY <1>2, <1>3 DEF Same
<1>6. Waits(c)'
  BY <1>2, <1>3, <1>4 DEF Waits
<1>7. Reading(c)'
  BY <1>2, <1>3, <1>4 DEF Reading
<1>8. Writing(c)'
  <2>1. Whole(<< >>)
    BY DEF Whole, Places_
  <2> QED
    BY <1>1, <1>2, <1>3, <1>4, <2>1 DEF Writing
<1>9. Accepting'
  BY <1>2, <1>3, AcceptingOfChild
<1> QED
  BY <1>5, <1>6, <1>7, <1>8, <1>9, OneKeeps

(* The decision of doit keeps the invariant.                                *)
LEMMA DoitKeeps ==
    ASSUME TinyAssumption, TinyInvT, NEW c \in Conns, doit(c)
    PROVE  TinyInv'
<1>1. TinyTypes /\ Waits(c) /\ Reading(c) /\ Writing(c)
  BY DEF TinyInvT, TinyInv
<1>2. /\ at[c] = "serve" /\ request' = request /\ cgi' = cgi /\ sent' = sent
      /\ resp' = resp /\ toSend' = toSend /\ gone' = gone /\ open' = open
      /\ UNCHANGED <<main, connfd, backlog, unread, arriving>>
  BY DEF doit, mainVars, cgiVars, clientVars
<1>3. PICK next \in {"close", "fork"} : \E w \in Whats(next) : Goes(c, w, next)
  BY Answers
<1>4. PICK w \in Whats(next) : Goes(c, w, next)
  BY <1>3
<1>5. at'[c] = "write" /\ toWrite'[c] = w /\ then'[c] = next
  BY <1>1, <1>4 DEF Goes, TinyTypes
<1>6. \A d \in Conns \ {c} : at'[d] = at[d] /\ toWrite'[d] = toWrite[d] /\ then'[d] = then[d]
  BY <1>1, <1>4 DEF Goes, TinyTypes
<1>7. resp[c] = << >> /\ cgi[c] = "none" /\ sent[c] = 0
  BY <1>1, <1>2 DEF Reading, Waits, Writing
<1>8. w \in Seq(Pieces) /\ w # << >> /\ << >> \o w = w
  BY WhatsArePieces, EmptySeq, ConcatEmptySeq DEF TinyAssumption
<1>9. \A d \in Conns \ {c} : Same(d)
  BY <1>2, <1>6 DEF Same
<1>10. Waits(c)'
  BY <1>2, <1>5, <1>7 DEF Waits
<1>11. Reading(c)'
  <2>1. Rest(c)' = Rest(c)
    BY <1>2 DEF Rest
  <2> QED
    BY <1>1, <1>2, <1>5, <2>1 DEF Reading
<1>12. Writing(c)'
  BY <1>1, <1>2, <1>5, <1>7, <1>8 DEF Writing
<1>13. Accepting'
  BY <1>2, <1>5, <1>6, AcceptingOfChild
<1> QED
  BY <1>9, <1>10, <1>11, <1>12, <1>13, OneKeeps

(* Writing a response keeps the invariant.                                  *)
LEMMA WriteKeeps ==
    ASSUME TinyAssumption, TinyInvT, NEW c \in Conns, Write(c)
    PROVE  TinyInv'
<1>1. TinyTypes /\ Waits(c) /\ Reading(c) /\ Writing(c)
  BY DEF TinyInvT, TinyInv
<1>2. /\ at[c] = "write" /\ request' = request /\ cgi' = cgi /\ sent' = sent
      /\ toSend' = toSend /\ gone' = gone /\ open' = open /\ then' = then
      /\ UNCHANGED <<main, connfd, backlog, unread, arriving>>
      /\ resp' = [resp EXCEPT ![c] = Append(@, Head(toWrite[c]))]
      /\ toWrite' = [toWrite EXCEPT ![c] = Tail(@)]
      /\ at' = [at EXCEPT ![c] = IF Len(toWrite[c]) = 1 THEN then[c] ELSE @]
  BY DEF Write, mainVars, cgiVars, clientVars
<1> DEFINE s == resp[c]
           t == toWrite[c]
           r == Append(s, Head(t))
           u == Tail(t)
<1>3. s \in Seq(Pieces) /\ t \in Seq(Pieces) /\ t # << >> /\ then[c] \in {"close", "fork"}
  BY <1>1, <1>2 DEF TinyTypes, Writing
<1>4. PICK w \in Whats(then[c]) : s \o t = w
  BY <1>1, <1>2 DEF Writing
<1>5. /\ resp'[c] = r /\ toWrite'[c] = u /\ then'[c] = then[c]
      /\ at'[c] = IF Len(t) = 1 THEN then[c] ELSE "write"
  BY <1>1, <1>2 DEF TinyTypes
<1>6. cgi[c] = "none" /\ sent[c] = 0
  BY <1>1, <1>2 DEF Waits, Writing
<1>7. r \in Seq(Pieces) /\ u \in Seq(Pieces) /\ Parts(w, r, u) /\ (u = << >> <=> Len(t) = 1)
  <2> HIDE DEF s, t
  <2>1. r \in Seq(Pieces) /\ u \in Seq(Pieces) /\ r \o u = s \o t
    BY <1>3, HeadMoves
  <2>2. Len(u) = Len(t) - 1 /\ Len(t) \in Nat \ {0}
    BY <1>3, HeadTailProperties, EmptySeq
  <2>3. u = << >> <=> Len(u) = 0
    BY <2>1, EmptySeq
  <2> QED
    BY <1>4, <2>1, <2>2, <2>3 DEF Parts
<1> HIDE DEF s, t, r, u
<1>8. WellFramed(r) /\ (u = << >> => Whole(r) /\ (then[c] = "fork" => r = DynamicHead))
  BY <1>3, <1>7, WhatsFramed DEF TinyAssumption
<1>9. \A d \in Conns \ {c} : Same(d)
  BY <1>1, <1>2 DEF Same, TinyTypes
<1>10. Waits(c)'
  BY <1>2, <1>3, <1>5, <1>6 DEF Waits
<1>11. Reading(c)'
  <2>1. Rest(c)' = Rest(c)
    BY <1>2 DEF Rest
  <2>2. gone[c] \/ request[c].method # "GET" \/ Rest(c) = << >>
    BY <1>1, <1>2 DEF Reading
  <2>3. at'[c] \in {"write", "close", "fork"}
    BY <1>3, <1>5
  <2> QED
    BY <1>2, <2>1, <2>2, <2>3 DEF Reading
<1>12. Writing(c)'
  <2>1. at'[c] = "write" => u # << >> /\ r \o u = w
    BY <1>3, <1>5, <1>7 DEF Parts
  <2>2. at'[c] # "write" => u = << >> /\ at'[c] = then[c]
    BY <1>3, <1>5, <1>7
  <2> QED
    BY <1>2, <1>3, <1>5, <1>6, <1>8, <2>1, <2>2 DEF Writing
<1>13. Accepting'
  <2>1. at'[c] \notin {"none", "exited"} /\ \A d \in Conns \ {c} : at'[d] = at[d]
    BY <1>1, <1>2, <1>3, <1>5 DEF TinyTypes
  <2> QED
    BY <1>2, <2>1, AcceptingOfChild
<1> QED
  BY <1>9, <1>10, <1>11, <1>12, <1>13, OneKeeps

(* Starting a CGI program keeps the invariant.                              *)
LEMMA ForkKeeps ==
    ASSUME TinyInvT, NEW c \in Conns, ForkCgi(c)
    PROVE  TinyInv'
<1>1. TinyTypes /\ Accepting /\ Waits(c) /\ Reading(c) /\ Writing(c)
  BY DEF TinyInvT, TinyInv
<1>2. /\ at[c] = "fork" /\ request' = request /\ sent' = sent /\ resp' = resp /\ toSend' = toSend
      /\ gone' = gone /\ UNCHANGED <<main, connfd, backlog, unread, arriving, toWrite, then>>
      /\ open' = [open EXCEPT ![c] = @ \cup {"cgi"}]
      /\ cgi' = [cgi EXCEPT ![c] = "start"] /\ at' = [at EXCEPT ![c] = "wait"]
  BY DEF ForkCgi, mainVars, clientVars
<1>3. at'[c] = "wait" /\ cgi'[c] = "start" /\ open'[c] = open[c] \cup {"cgi"}
  BY <1>1, <1>2 DEF TinyTypes
<1>4. \A d \in Conns \ {c} : at'[d] = at[d] /\ cgi'[d] = cgi[d] /\ open'[d] = open[d]
  BY <1>1, <1>2 DEF TinyTypes
<1>5. \A d \in Conns \ {c} : Same(d)
  BY <1>2, <1>4 DEF Same
<1>6. Waits(c)'
  BY <1>3 DEF Waits
<1>7. Reading(c)'
  <2>1. Rest(c)' = Rest(c)
    BY <1>2 DEF Rest
  <2> QED
    BY <1>1, <1>2, <1>3, <2>1 DEF Reading
<1>8. Writing(c)'
  BY <1>1, <1>2, <1>3 DEF Writing
<1>9. Accepting'
  <2>1. "child" \in open[c]
    BY <1>1, <1>2 DEF Accepting
  <2>2. /\ "main" \in open'[c] <=> "main" \in open[c]
        /\ "child" \in open'[c] <=> at'[c] \notin {"none", "exited"}
        /\ "cgi" \in open'[c] <=> cgi'[c] \in {"start", "loop"}
    BY <1>3, <2>1
  <2> QED
    BY <1>2, <1>3, <1>4, <2>2, AcceptingOfOne
<1> QED
  BY <1>5, <1>6, <1>7, <1>8, <1>9, OneKeeps

(* Waiting for the CGI program keeps the invariant.                         *)
LEMMA WaitKeeps ==
    ASSUME TinyInvT, NEW c \in Conns, Wait(c)
    PROVE  TinyInv'
<1>1. TinyTypes /\ Waits(c) /\ Reading(c) /\ Writing(c)
  BY DEF TinyInvT, TinyInv
<1>2. /\ at[c] = "wait" /\ cgi[c] \in {"exited", "crashed"} /\ request' = request /\ sent' = sent /\ resp' = resp
      /\ toSend' = toSend /\ gone' = gone /\ cgi' = cgi
      /\ UNCHANGED <<main, connfd, backlog, open, unread, arriving, toWrite, then>>
      /\ at' = [at EXCEPT ![c] = "close"]
  BY DEF Wait, mainVars, cgiVars, clientVars
<1>3. at'[c] = "close" /\ \A d \in Conns \ {c} : at'[d] = at[d]
  BY <1>1, <1>2 DEF TinyTypes
<1>4. \A d \in Conns \ {c} : Same(d)
  BY <1>2, <1>3 DEF Same
<1>5. Waits(c)'
  BY <1>2, <1>3 DEF Waits
<1>6. Reading(c)'
  <2>1. Rest(c)' = Rest(c)
    BY <1>2 DEF Rest
  <2> QED
    BY <1>1, <1>2, <1>3, <2>1 DEF Reading
<1>7. Writing(c)'
  BY <1>1, <1>2, <1>3 DEF Writing
<1>8. Accepting'
  BY <1>2, <1>3, AcceptingOfChild
<1> QED
  BY <1>4, <1>5, <1>6, <1>7, <1>8, OneKeeps

(* The end of a child keeps the invariant.                                  *)
LEMMA EndKeeps ==
    ASSUME TinyInvT, NEW c \in Conns, Close(c) \/ Dies(c)
    PROVE  TinyInv'
<1>1. TinyTypes /\ Accepting /\ Waits(c) /\ Reading(c) /\ Writing(c)
  BY DEF TinyInvT, TinyInv
<1>2. /\ at[c] = "close" \/ (at[c] \in {"request", "headers", "write"} /\ gone[c])
      /\ request' = request /\ sent' = sent /\ resp' = resp /\ toSend' = toSend
      /\ gone' = gone /\ cgi' = cgi /\ UNCHANGED <<main, connfd, backlog, unread, arriving, then>>
      /\ open' = [open EXCEPT ![c] = @ \ {"child"}]
      /\ at' = [at EXCEPT ![c] = "exited"]
      /\ toWrite' = toWrite \/ toWrite' = [toWrite EXCEPT ![c] = << >>]
  BY DEF Close, Dies, mainVars, cgiVars, clientVars
<1>3. at'[c] = "exited" /\ open'[c] = open[c] \ {"child"} /\ cgi[c] \notin {"start", "loop"}
  BY <1>1, <1>2 DEF TinyTypes, Waits
<1>4. \A d \in Conns \ {c} : at'[d] = at[d] /\ open'[d] = open[d] /\ toWrite'[d] = toWrite[d]
  BY <1>1, <1>2 DEF TinyTypes
<1>5. \A d \in Conns \ {c} : Same(d)
  BY <1>2, <1>4 DEF Same
<1>6. Waits(c)'
  BY <1>2, <1>3 DEF Waits
<1>7. Reading(c)'
  <2>1. Rest(c)' = Rest(c)
    BY <1>2 DEF Rest
  <2> QED
    BY <1>1, <1>2, <1>3, <2>1 DEF Reading
<1>8. Writing(c)'
  BY <1>1, <1>2, <1>3 DEF Writing
<1>9. Accepting'
  <2>1. /\ "main" \in open'[c] <=> "main" \in open[c]
        /\ "child" \in open'[c] <=> at'[c] \notin {"none", "exited"}
        /\ "cgi" \in open'[c] <=> cgi'[c] \in {"start", "loop"}
    BY <1>1, <1>2, <1>3 DEF Accepting
  <2>2. at[c] # "none" /\ at'[c] # "none"
    BY <1>2, <1>3
  <2> QED
    BY <1>2, <1>4, <2>1, <2>2, AcceptingOfOne
<1> QED
  BY <1>5, <1>6, <1>7, <1>8, <1>9, OneKeeps

(* A CGI program's step is right when what it has written is.               *)
LEMMA CgiKeeps ==
    ASSUME TinyInvT, NEW c \in Conns, cgi[c] \in {"start", "loop"},
           NEW pieces, NEW next \in {"loop", "exited", "crashed"}, CgiWrites(c, pieces, next),
           \A d \in Conns \ {c} : sent'[d] = sent[d],
           NEW r, r = resp[c] \o pieces, WellFramed(r),
           next = "loop" => SlowSent(r, Size(c), sent'[c]),
           next = "exited" => Whole(r), next = "crashed" => gone[c] \/ Whole(r)
    PROVE  TinyInv'
<1>1. TinyTypes /\ Accepting /\ Waits(c) /\ Reading(c) /\ Writing(c)
  BY DEF TinyInvT, TinyInv
<1>2. /\ request' = request /\ at' = at /\ toSend' = toSend /\ gone' = gone
      /\ UNCHANGED <<main, connfd, backlog, unread, arriving, toWrite, then>>
      /\ open' = [open EXCEPT ![c] = IF next = "loop" THEN @ ELSE @ \ {"cgi"}]
      /\ cgi' = [cgi EXCEPT ![c] = next] /\ resp' = [resp EXCEPT ![c] = @ \o pieces]
  BY DEF CgiWrites, mainVars, childVars, clientVars
<1>3. /\ cgi'[c] = next /\ resp'[c] = r /\ at[c] = "wait"
      /\ open'[c] = IF next = "loop" THEN open[c] ELSE open[c] \ {"cgi"}
  BY <1>1, <1>2 DEF TinyTypes, Waits
<1>4. \A d \in Conns \ {c} : cgi'[d] = cgi[d] /\ open'[d] = open[d] /\ resp'[d] = resp[d]
  BY <1>1, <1>2 DEF TinyTypes
<1>5. \A d \in Conns \ {c} : Same(d)
  BY <1>2, <1>4 DEF Same
<1>6. Waits(c)'
  BY <1>2, <1>3 DEF Waits
<1>7. Reading(c)'
  <2>1. Rest(c)' = Rest(c)
    BY <1>2 DEF Rest
  <2> QED
    BY <1>1, <1>2, <1>3, <2>1 DEF Reading
<1>8. Writing(c)'
  <2>1. Size(c)' = Size(c)
    BY <1>2, SizeStays
  <2> QED
    BY <1>2, <1>3, <2>1 DEF Writing
<1>9. Accepting'
  <2>1. /\ "main" \in open'[c] <=> "main" \in open[c]
        /\ "child" \in open'[c] <=> at'[c] \notin {"none", "exited"}
        /\ "cgi" \in open'[c] <=> cgi'[c] \in {"start", "loop"}
    BY <1>1, <1>2, <1>3 DEF Accepting
  <2>2. at[c] # "none" /\ at'[c] # "none"
    BY <1>2, <1>3
  <2>3. \A d \in Conns \ {c} : open'[d] = open[d] /\ at'[d] = at[d] /\ cgi'[d] = cgi[d]
    BY <1>2, <1>4
  <2> QED
    BY <1>2, <2>1, <2>2, <2>3, AcceptingOfOne
<1> QED
  BY <1>5, <1>6, <1>7, <1>8, <1>9, OneKeeps

(* What doit writes before a CGI program runs is well framed.               *)
LEMMA HeadIsWhole == ASSUME ErrorSize \in Nat PROVE WellFramed(DynamicHead) /\ Whole(DynamicHead)
<1>1. DynamicHead \in Whats("fork") /\ << >> \in Seq(Pieces)
  BY EmptySeq DEF Whats
<1>2. DynamicHead \in Seq(Pieces)
  BY <1>1, WhatsArePieces
<1>3. Parts(DynamicHead, DynamicHead, << >>)
  BY <1>2, ConcatEmptySeq DEF Parts
<1> QED
  BY <1>1, <1>2, <1>3, WhatsFramed

(* adder keeps the invariant.                                               *)
LEMMA AdderKeeps ==
    ASSUME TinyAssumption, TinyInvT, NEW c \in Conns, adder(c)
    PROVE  TinyInv'
<1>1. cgi[c] = "start" /\ \A d \in Conns \ {c} : sent'[d] = sent[d]
  BY DEF adder
<1>2. resp[c] = DynamicHead /\ ErrorSize \in Nat
  BY <1>1 DEF TinyInvT, TinyInv, Writing, TinyAssumption
<1>3. CASE CgiWrites(c, << >>, "crashed")
  <2>1. DynamicHead \o << >> = DynamicHead
    BY <1>2, ConcatEmptySeq DEF TinyInvT, TinyTypes
  <2>2. WellFramed(DynamicHead) /\ Whole(DynamicHead)
    BY <1>2, HeadIsWhole
  <2> QED
    BY <1>1, <1>2, <1>3, <2>1, <2>2, CgiKeeps
<1>4. CASE CgiWrites(c, <<<<"field">>, <<"length", ErrorSize>>, <<"field">>, <<"blank">>,
                           <<"body", ErrorSize>>>>, "exited")
  <2> DEFINE p == <<<<"field">>, <<"length", ErrorSize>>, <<"field">>, <<"blank">>, <<"body", ErrorSize>>>>
             r == resp[c] \o p
  <2>1. WellFramed(r) /\ Whole(r)
    BY <1>2, AdderFramed
  <2>2. CgiWrites(c, p, "exited")
    BY <1>4
  <2> HIDE DEF p
  <2> QED
    BY <1>1, <2>1, <2>2, CgiKeeps
<1> QED
  BY <1>3, <1>4 DEF adder

(* hello keeps the invariant.                                               *)
LEMMA HelloKeeps ==
    ASSUME TinyAssumption, TinyInvT, NEW c \in Conns, hello(c)
    PROVE  TinyInv'
<1>1. cgi[c] = "start" /\ \A d \in Conns \ {c} : sent'[d] = sent[d]
  BY DEF hello
<1>2. resp[c] = DynamicHead /\ ErrorSize \in Nat
  BY <1>1 DEF TinyInvT, TinyInv, Writing, TinyAssumption
<1> DEFINE p == <<<<"field">>, <<"blank">>, <<"body", ErrorSize>>>>
           r == resp[c] \o p
<1>3. WellFramed(r) /\ Whole(r)
  BY <1>2, HelloFramed
<1>4. CgiWrites(c, p, "exited")
  BY DEF hello
<1> HIDE DEF p
<1> QED
  BY <1>1, <1>3, <1>4, CgiKeeps

(* The start of slow, which writes nothing yet, keeps the invariant.        *)
LEMMA SlowStartKeeps ==
    ASSUME TinyAssumption, TinyInvT, NEW c \in Conns, SlowStarts(c)
    PROVE  TinyInv'
<1>1. cgi[c] = "start" /\ sent' = sent
  BY DEF SlowStarts
<1>2. resp[c] = DynamicHead /\ sent[c] = 0
  BY <1>1 DEF TinyInvT, TinyInv, Writing
<1>3. Size(c) \in Nat
  BY <1>1, Asking, SizesKnown
<1> DEFINE p == <<<<"field">>, <<"length", Size(c)>>, <<"field">>, <<"blank">>>>
           r == resp[c] \o p
<1>4. r = SlowHead(Size(c))
  BY <1>2 DEF SlowHead
<1>5. r \in Seq(Pieces) /\ SlowSent(r, Size(c), 0)
  BY <1>3, <1>4, SlowHeader
<1>6. CgiWrites(c, p, "loop")
  BY DEF SlowStarts
<1> HIDE DEF p
<1>7. WellFramed(r)
  <2> HIDE DEF r
  <2> QED
    BY <1>3, <1>5, SlowFramed
<1> QED
  BY <1>1, <1>2, <1>5, <1>6, <1>7, CgiKeeps

(* A chunk of slow keeps the invariant.                                     *)
LEMMA SlowChunkKeeps ==
    ASSUME TinyAssumption, TinyInvT, NEW c \in Conns, SlowChunk(c)
    PROVE  TinyInv'
<1> DEFINE s == resp[c]
           n == sent[c]
           m == ChunkEnd(c)
           z == Size(c)
           p == IF m > n THEN <<<<"body", m - n>>>> ELSE << >>
           r == s \o p
<1>1. z \in Nat /\ n \in Nat /\ m \in Nat /\ n <= m /\ m <= z
  BY ChunkBounds
<1>2. cgi[c] = "loop" /\ CgiWrites(c, p, "loop")
  BY DEF SlowChunk
<1>3. sent'[c] = m /\ \A d \in Conns \ {c} : sent'[d] = sent[d]
  <2>1. sent \in [Conns -> Nat] /\ sent' = [sent EXCEPT ![c] = m]
    BY DEF SlowChunk, TinyInvT, TinyTypes
  <2> HIDE DEF m
  <2> QED
    BY <2>1
<1>4. s \in Seq(Pieces) /\ SlowSent(s, z, n)
  BY <1>2 DEF TinyInvT, TinyTypes, TinyInv, Writing
<1>5. r \in Seq(Pieces) /\ SlowSent(r, z, m)
  <2> HIDE DEF s, n, m, z
  <2>1. CASE m > n
    <3>1. m - n \in Nat
      BY <1>1, <2>1
    <3>2. <<"body", m - n>> \in Pieces
      BY <3>1, PieceKinds
    <3>3. r = Append(s, <<"body", m - n>>) /\ r \in Seq(Pieces)
      <4> DEFINE q == <<"body", m - n>>
      <4>1. p = <<q>> /\ q \in Pieces
        BY <2>1, <3>2
      <4> HIDE DEF q, p
      <4>2. Append(s, q) = s \o <<q>> /\ Append(s, q) \in Seq(Pieces)
        BY <1>4, <4>1, AppendIsConcat, AppendProperties
      <4> QED
        BY <4>1, <4>2 DEF q
    <3>4. SlowSent(Append(s, <<"body", m - n>>), z, m)
      BY <1>1, <1>4, <2>1, SlowGrows
    <3> QED
      BY <3>3, <3>4
  <2>2. CASE ~ (m > n)
    <3>1. m = n
      BY <1>1, <2>2
    <3>2. r = s
      BY <1>4, <2>2, ConcatEmptySeq
    <3> QED
      BY <1>4, <3>1, <3>2
  <2> QED
    BY <2>1, <2>2
<1>6. WellFramed(r)
  <2> HIDE DEF r, z, m
  <2> QED
    BY <1>1, <1>5, SlowFramed
<1> HIDE DEF p, m
<1> QED
  BY <1>2, <1>3, <1>5, <1>6, CgiKeeps

(* The end of slow keeps the invariant.                                     *)
LEMMA SlowEndKeeps ==
    ASSUME TinyAssumption, TinyInvT, NEW c \in Conns, SlowEnds(c)
    PROVE  TinyInv'
<1>1. cgi[c] = "loop" /\ ~ sent[c] < Size(c) /\ CgiWrites(c, << >>, "exited") /\ sent' = sent
  BY DEF SlowEnds
<1>2. resp[c] \in Seq(Pieces) /\ SlowSent(resp[c], Size(c), sent[c]) /\ sent[c] \in Nat
  BY <1>1 DEF TinyInvT, TinyTypes, TinyInv, Writing
<1>3. Size(c) \in Nat
  BY <1>1, Asking, SizesKnown
<1>4. sent[c] = Size(c)
  BY <1>1, <1>2, <1>3 DEF SlowSent
<1>5. WellFramed(resp[c]) /\ Whole(resp[c])
  BY <1>2, <1>3, <1>4, SlowFramed
<1>6. resp[c] \o << >> = resp[c]
  BY <1>2, ConcatEmptySeq
<1> QED
  BY <1>1, <1>5, <1>6, CgiKeeps

(* A CGI program that SIGPIPE ends keeps the invariant.                     *)
LEMMA CgiDiesKeeps ==
    ASSUME TinyInvT, NEW c \in Conns, CgiDies(c)
    PROVE  TinyInv'
<1>1. cgi[c] \in {"start", "loop"} /\ gone[c] /\ CgiWrites(c, << >>, "crashed") /\ sent' = sent
  BY DEF CgiDies
<1>2. resp[c] \in Seq(Pieces) /\ WellFramed(resp[c])
  BY DEF TinyInvT, TinyTypes, TinyInv, Writing
<1>3. resp[c] \o << >> = resp[c]
  BY <1>2, ConcatEmptySeq
<1> QED
  BY <1>1, <1>2, <1>3, CgiKeeps

(* The main process keeps the invariant.                                    *)
LEMMA MainKeeps ==
    ASSUME TinyInvT, Main
    PROVE  TinyInv'
<1>1. Accepting'
  BY AcceptingOfMain
<1>2. TinyTypes /\ Accepting /\ \A c \in Conns : Waits(c) /\ Reading(c) /\ Writing(c)
  BY DEF TinyInvT, TinyInv
<1>3. ASSUME NEW c \in Conns PROVE Waits(c)' /\ Reading(c)' /\ Writing(c)'
  <2>1. CASE Same(c)
    BY <1>2, <2>1, OthersStay
  <2>2. CASE ~ Same(c)
    <3>1. Fork /\ c = connfd
      <4>1. CASE Accept
        BY <2>2, <4>1 DEF Accept, Same, childVars, cgiVars, clientVars
      <4>2. CASE MainCloses
        BY <2>2, <4>2 DEF MainCloses, Same, childVars, cgiVars, clientVars
      <4>3. CASE Fork /\ c # connfd
        BY <1>2, <2>2, <4>3 DEF Fork, Same, TinyTypes, cgiVars, clientVars
      <4> QED
        BY <4>1, <4>2, <4>3 DEF Main
    <3>2. at[c] = "none" /\ at'[c] = "request"
      BY <1>2, <3>1 DEF Fork, TinyTypes, Accepting
    <3>3. UNCHANGED <<request, cgi, sent, then, unread, arriving, toSend, toWrite, resp, gone>>
      BY <3>1 DEF Fork, cgiVars, clientVars
    <3>4. Waits(c)'
      BY <1>2, <3>2, <3>3 DEF Waits
    <3>5. Reading(c)'
      <4>1. Rest(c)' = Rest(c)
        BY <3>3 DEF Rest
      <4> QED
        BY <1>2, <3>2, <3>3, <4>1 DEF Reading
    <3>6. Writing(c)'
      <4>1. cgi[c] = "none"
        BY <1>2, <3>2 DEF Waits
      <4> QED
        BY <1>2, <3>2, <3>3, <4>1 DEF Writing
    <3> QED
      BY <3>4, <3>5, <3>6
  <2> QED
    BY <2>1, <2>2
<1> QED
  BY <1>1, <1>3 DEF TinyInv

(* A client keeps the invariant.                                            *)
LEMMA ClientKeeps ==
    ASSUME TinyInvT, NEW c \in Conns,
           Connect(c) \/ ClientSends(c) \/ ClientFinishes(c) \/ ClientGone(c)
    PROVE  TinyInv'
<1>1. TinyTypes /\ Accepting /\ \A d \in Conns : Waits(d) /\ Reading(d) /\ Writing(d)
  BY DEF TinyInvT, TinyInv
<1>2. CASE Connect(c)
  <2>1. \A d \in Conns : Same(d)
    BY <1>2 DEF Connect, Same, childVars, cgiVars, clientVars
  <2>2. Accepting'
    BY <1>2, AcceptingOfConnect
  <2> QED
    BY <1>1, <2>1, <2>2, OthersStay DEF TinyInv
<1>3. CASE ClientSends(c)
  <2>1. /\ toSend[c] # << >> /\ UNCHANGED <<request, main, connfd, backlog, open, at, unread, toWrite, then, cgi, sent, resp, gone>>
        /\ arriving' = [arriving EXCEPT ![c] = Append(@, Head(toSend[c]))]
        /\ toSend' = [toSend EXCEPT ![c] = Tail(@)]
    BY <1>3 DEF ClientSends, mainVars, childVars, cgiVars
  <2>2. Accepting'
    BY <1>1, <2>1 DEF Accepting
  <2>3. \A d \in Conns \ {c} : Same(d)
    BY <1>1, <2>1 DEF Same, TinyTypes
  <2>4. Rest(c)' = Rest(c)
    <3> DEFINE u == unread[c]
               a == arriving[c]
               t == toSend[c]
    <3>1. u \in Seq(Texts) /\ a \in Seq(Texts) /\ t \in Seq(Texts) /\ t # << >>
      BY <1>1, <2>1 DEF TinyTypes
    <3>2. Rest(c) = (u \o a) \o t /\ Rest(c)' = (u \o Append(a, Head(t))) \o Tail(t)
      BY <1>1, <2>1 DEF Rest, TinyTypes
    <3> DEFINE b == Append(a, Head(t))
               e == Tail(t)
    <3> HIDE DEF u, a, t
    <3>3. e \in Seq(Texts) /\ b \in Seq(Texts) /\ b \o e = a \o t
      BY <3>1, HeadMoves
    <3> HIDE DEF b, e
    <3>7. u \in Seq(Texts) /\ b \in Seq(Texts) /\ e \in Seq(Texts)
      BY <3>1, <3>3
    <3>4. (u \o b) \o e = u \o (b \o e)
      BY <3>7, ConcatAssociative
    <3>5. (u \o a) \o t = u \o (a \o t)
      BY <3>1, ConcatAssociative
    <3> QED
      BY <3>2, <3>3, <3>4, <3>5 DEF b, e
  <2>5. Waits(c)'
    BY <1>1, <2>1 DEF Waits
  <2>6. Reading(c)'
    <3>1. EndsBlank(Rest(c))' <=> EndsBlank(Rest(c))
      BY <2>4 DEF EndsBlank
    <3> QED
      BY <1>1, <2>1, <2>4, <3>1 DEF Reading
  <2>7. Writing(c)'
    <3>1. Size(c)' = Size(c)
      BY <2>1, SizeStays
    <3> QED
      BY <1>1, <2>1, <3>1 DEF Writing
  <2> QED
    BY <2>2, <2>3, <2>5, <2>6, <2>7, OneKeeps
<1>4. CASE ClientFinishes(c)
  <2>1. \A d \in Conns : Same(d)
    BY <1>4 DEF ClientFinishes, Same, mainVars, childVars, cgiVars
  <2>2. Accepting'
    BY <1>1, <1>4 DEF ClientFinishes, Accepting, mainVars, childVars, cgiVars
  <2> QED
    BY <1>1, <2>1, <2>2, OthersStay DEF TinyInv
<1>5. CASE ClientGone(c)
  <2>1. /\ UNCHANGED <<request, main, connfd, backlog, open, at, unread, toWrite, then, cgi, sent, resp, toSend, arriving>>
        /\ gone' = [gone EXCEPT ![c] = TRUE]
    BY <1>5 DEF ClientGone, mainVars, childVars, cgiVars
  <2>2. Accepting'
    BY <1>1, <2>1 DEF Accepting
  <2>3. \A d \in Conns \ {c} : Same(d)
    BY <1>1, <2>1 DEF Same, TinyTypes
  <2>4. gone'[c]
    BY <1>1, <2>1 DEF TinyTypes
  <2>5. Waits(c)'
    BY <1>1, <2>1 DEF Waits
  <2>6. Reading(c)'
    <3>1. Rest(c)' = Rest(c)
      BY <2>1 DEF Rest
    <3>2. EndsBlank(Rest(c))' <=> EndsBlank(Rest(c))
      BY <3>1 DEF EndsBlank
    <3> QED
      BY <1>1, <2>1, <2>4, <3>1, <3>2 DEF Reading
  <2>7. Writing(c)'
    <3>1. Size(c)' = Size(c)
      BY <2>1, SizeStays
    <3> QED
      BY <1>1, <2>1, <2>4, <3>1 DEF Writing
  <2> QED
    BY <2>2, <2>3, <2>5, <2>6, <2>7, OneKeeps
<1> QED
  BY <1>2, <1>3, <1>4, <1>5

(* Every step keeps the invariant.                                          *)
LEMMA TinyStep ==
    ASSUME TinyAssumption, TinyInvT, [Next]_vars
    PROVE  TinyInvT'
<1>1. TinyTypes'
  BY TypesStay
<1>2. TinyInv'
  <2>1. CASE Main
    BY <2>1, MainKeeps
  <2>2. CASE \E c \in Conns : Child(c) \/ Dies(c) \/ Cgi(c) \/ CgiDies(c)
    <3>1. PICK c \in Conns : Child(c) \/ Dies(c) \/ Cgi(c) \/ CgiDies(c)
      BY <2>2
    <3>2. CASE Child(c) \/ Dies(c)
      BY <3>2, ReadRequestKeeps, NoRequestKeeps, HeadersKeep, DoitKeeps, WriteKeeps, ForkKeeps, WaitKeeps,
         EndKeeps DEF Child
    <3>3. CASE Cgi(c) \/ CgiDies(c)
      BY <3>3, AdderKeeps, HelloKeeps, SlowStartKeeps, SlowChunkKeeps, SlowEndKeeps, CgiDiesKeeps DEF Cgi
    <3> QED
      BY <3>1, <3>2, <3>3
  <2>3. CASE \E c \in Conns : Connect(c) \/ ClientSends(c) \/ ClientFinishes(c) \/ ClientGone(c)
    BY <2>3, ClientKeeps
  <2>4. CASE UNCHANGED vars
    <3>1. /\ UNCHANGED <<request, main, connfd, backlog, open, at, unread, toWrite, then, cgi, sent, resp>>
          /\ UNCHANGED <<toSend, arriving, gone>>
      BY <2>4 DEF vars, mainVars, childVars, cgiVars, clientVars
    <3>2. \A d \in Conns : Same(d)
      BY <3>1 DEF Same
    <3>3. Accepting'
      BY <3>1 DEF TinyInvT, TinyInv, Accepting
    <3> QED
      BY <3>2, <3>3, OthersStay DEF TinyInvT, TinyInv
  <2> QED
    BY <2>1, <2>2, <2>3, <2>4 DEF Next
<1> QED
  BY <1>1, <1>2 DEF TinyInvT

(* The invariant implies that responses are framed.                         *)
LEMMA InvFramed == ASSUME TinyInvT PROVE Framed
<1> SUFFICES ASSUME NEW c \in Conns
             PROVE  /\ Places(c, "status") \subseteq {1}
                    /\ \A i \in DOMAIN resp[c], j \in Places(c, "blank") :
                          resp[c][i][1] = "body" <=> i > j
                    /\ Places(c, "body") # {} => Places(c, "blank") # {}
                    /\ \A i \in Places(c, "length") :
                          /\ Bytes(c) <= resp[c][i][2]
                          /\ at[c] = "exited" /\ open[c] = {} /\ ~ gone[c] => Bytes(c) = resp[c][i][2]
  BY DEF Framed
<1>1. Bytes(c) = BytesOf(resp[c])
  BY DEF Bytes, BytesOf, Places
<1>2. \A kind : Places(c, kind) = Places_(resp[c], kind)
  BY DEF Places, Places_
<1>3. WellFramed(resp[c]) /\ (at[c] = "exited" /\ ~ gone[c] => Whole(resp[c]))
  BY DEF TinyInvT, TinyInv, Writing
<1> QED
  BY <1>1, <1>2, <1>3 DEF WellFramed, Whole

(* The invariant implies that a closed connection has been read to the end. *)
LEMMA InvClosedClean == ASSUME TinyInvT PROVE ClosedClean
<1> SUFFICES ASSUME NEW c \in Conns, at[c] = "exited", ~ gone[c], resp[c] # << >>, request[c].method = "GET"
             PROVE  toSend[c] = << >> /\ arriving[c] = << >>
  BY DEF ClosedClean
<1> DEFINE u == unread[c]
           a == arriving[c]
           t == toSend[c]
<1>1. u \in Seq(Texts) /\ a \in Seq(Texts) /\ t \in Seq(Texts)
  BY DEF TinyInvT, TinyTypes
<1>2. (u \o a) \o t = << >>
  BY DEF TinyInvT, TinyInv, Reading, Rest
<1> HIDE DEF u, a, t
<1>3. u \o a \in Seq(Texts)
  BY <1>1, ConcatProperties
<1>4. u \o a = << >> /\ t = << >>
  BY <1>1, <1>2, <1>3, ConcatSimplifications!concIsEmpty
<1>5. a = << >>
  BY <1>1, <1>4, ConcatSimplifications!concIsEmpty
<1> QED
  BY <1>4, <1>5 DEF a, t

(* The invariant holds in every behaviour.                                  *)
LEMMA TinyInvariant == ASSUME TinyAssumption PROVE Spec => []TinyInvT
<1>1. Init => TinyInvT
  BY InitInv
<1>2. TinyInvT /\ [Next]_vars => TinyInvT'
  BY TinyStep
<1> QED
  BY <1>1, <1>2, PTL DEF Spec

(* What the child and its CGI program write to a connection is one response *)
(* with one status line, a header and a body that is never longer than the  *)
(* header says, and as long when all have closed the connection: whatever   *)
(* clients ask for, whichever processes write, and in whatever chunks.      *)
THEOREM TinyFramed == ASSUME TinyAssumption PROVE Spec => []Framed
BY TinyInvariant, InvFramed, PTL

(* A child that has answered a GET and closed has left nothing unread.      *)
THEOREM TinyClosedClean == ASSUME TinyAssumption PROVE Spec => []ClosedClean
BY TinyInvariant, InvClosedClean, PTL

(* The module's type invariant, in every behaviour.                         *)
LEMMA TinyTyped == ASSUME TinyAssumption PROVE Spec => []TypeOK
<1>1. TinyInvT => TypeOK
  BY DEF TinyInvT, TinyTypes, TypeOK, Steps, CgiSteps
<1> QED
  BY <1>1, TinyInvariant, PTL
=============================================================================
