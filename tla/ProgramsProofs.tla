--------------------------- MODULE ProgramsProofs ---------------------------
(***************************************************************************)
(* What the theorems about a program say of MCPrograms, which runs one of  *)
(* the programs: the constants of its INSTANCE satisfy the assumptions,    *)
(* and as long as that program runs, the others change nothing.            *)
(***************************************************************************)
EXTENDS MCPrograms, FiniteSetTheorems, TLAPS

----------------------------------------------------------------------------
(* Tiny. *)

TP == INSTANCE TinyProofs WITH
    Names <- {"size", "chunksize", "1", "2"},
    Conns <- Conns12, Scenarios <- Requests, NoQuery <- NoQuery, Stat <- FileStat, ErrorSize <- 9,
    request <- v1, main <- v2, connfd <- v3, backlog <- v4, open <- v5, at <- v6,
    unread <- v7, toWrite <- v8, then <- v9, cgi <- v10, sent <- v11, resp <- v12, toSend <- v13, arriving <- v14, finished <- v15, gone <- v16

(* A step leaves the program that runs, and is one of its own.              *)
LEMMA TinyRuns ==
    ASSUME program = "Tiny", [Next]_vars
    PROVE  program' = "Tiny" /\ [T!Next]_(T!vars)
BY DEF Next, vars, RunsTiny, RunsPipeline, RunsDns, RunsOpenFd, RunsSockets, RunsSignals, RunsForkPipe,
   RunsMandelbrot, RunsCsapp, RunsCommandLine, RunsHttpParser, T!vars, T!mainVars, T!childVars, T!cgiVars,
   T!clientVars

(* Who runs another program does not come to Tiny.                          *)
LEMMA TinyLeft ==
    ASSUME program # "Tiny", [Next]_vars
    PROVE  program' # "Tiny"
BY DEF Next, vars, RunsTiny, RunsPipeline, RunsDns, RunsOpenFd, RunsSockets, RunsSignals, RunsForkPipe,
   RunsMandelbrot, RunsCsapp, RunsCommandLine, RunsHttpParser

(* The two instances of Tiny have one initial predicate.                    *)
LEMMA TinyInit == ASSUME T!Init PROVE TP!Init
BY DEF T!Init, TP!Init, T!Lines, TP!Lines

(* The two instances of Tiny are one.                                       *)
LEMMA TinyOperators ==
    /\ \A s : T!Last(s) = TP!Last(s) /\ T!ToSet(s) = TP!ToSet(s)
    /\ \A s : T!Max(s) = TP!Max(s) /\ T!Min(s) = TP!Min(s)
    /\ \A uri, query : T!parse_uri(uri, query) = TP!parse_uri(uri, query)
    /\ \A c : /\ T!Connected(c) <=> TP!Connected(c)
              /\ T!Target(c) = TP!Target(c) /\ T!Program(c) = TP!Program(c) /\ T!Args(c) = TP!Args(c)
              /\ T!Size(c) = TP!Size(c) /\ T!ChunkSize(c) = TP!ChunkSize(c)
              /\ T!ChunkEnd(c) = TP!ChunkEnd(c)
              /\ \A p, next : T!CgiWrites(c, p, next) <=> TP!CgiWrites(c, p, next)
<1>1. \A s : T!Last(s) = TP!Last(s) /\ T!ToSet(s) = TP!ToSet(s)
  BY DEF T!Last, TP!Last, T!ToSet, TP!ToSet
<1>2. \A s : T!Max(s) = TP!Max(s) /\ T!Min(s) = TP!Min(s)
  BY DEF T!Max, TP!Max, T!Min, TP!Min
<1>3. \A uri, query : T!parse_uri(uri, query) = TP!parse_uri(uri, query)
  BY <1>1 DEF T!parse_uri, TP!parse_uri
<1>4. \A c : T!Target(c) = TP!Target(c)
  BY <1>3 DEF T!Target, TP!Target
<1>5. \A c : T!Program(c) = TP!Program(c) /\ T!Args(c) = TP!Args(c)
  BY <1>1, <1>4 DEF T!Program, TP!Program, T!Args, TP!Args
<1>6. \A c, name : T!Value(c, name) = TP!Value(c, name)
  BY <1>2, <1>5 DEF T!Value, TP!Value
<1>7. \A c : T!Size(c) = TP!Size(c)
  BY <1>6 DEF T!Size, TP!Size
<1>8. \A c : T!ChunkSize(c) = TP!ChunkSize(c)
  BY <1>6, <1>7 DEF T!ChunkSize, TP!ChunkSize
<1>9. \A c : T!ChunkEnd(c) = TP!ChunkEnd(c)
  BY <1>2, <1>7, <1>8 DEF T!ChunkEnd, TP!ChunkEnd
<1>10. \A c : T!Connected(c) <=> TP!Connected(c)
  BY <1>1 DEF T!Connected, TP!Connected
<1>11. \A c, p, next : T!CgiWrites(c, p, next) <=> TP!CgiWrites(c, p, next)
  BY DEF T!CgiWrites, TP!CgiWrites, T!mainVars, TP!mainVars, T!childVars, TP!childVars, T!clientVars,
   TP!clientVars
<1> QED
  BY <1>1, <1>2, <1>3, <1>4, <1>5, <1>7, <1>8, <1>9, <1>10, <1>11

(* Steps of the main process are steps of the instance with the proofs.     *)
LEMMA TinyMain == ASSUME T!Main PROVE TP!Main
BY DEF T!Main, TP!Main, T!Accept, TP!Accept, T!Fork, TP!Fork, T!MainCloses, TP!MainCloses,
   T!childVars, TP!childVars, T!cgiVars, TP!cgiVars, T!clientVars, TP!clientVars

(* So are those of a child.                                                 *)
LEMMA TinyChild == ASSUME NEW c, T!Child(c) \/ T!Dies(c) PROVE TP!Child(c) \/ TP!Dies(c)
<1>1. ASSUME T!ReadRequest(c) PROVE TP!ReadRequest(c)
  BY <1>1, TinyOperators DEF T!ReadRequest, TP!ReadRequest, T!HasLine, TP!HasLine, T!TakesLine,
     TP!TakesLine, T!Goes, TP!Goes, T!clienterror, TP!clienterror, T!mainVars, TP!mainVars,
     T!cgiVars, TP!cgiVars
<1>2. ASSUME T!NoRequest(c) PROVE TP!NoRequest(c)
  BY <1>2, TinyOperators DEF T!NoRequest, TP!NoRequest, T!AtEof, TP!AtEof, T!HasLine, TP!HasLine,
     T!mainVars, TP!mainVars, T!cgiVars, TP!cgiVars, T!clientVars, TP!clientVars
<1>3. ASSUME T!read_requesthdrs(c) PROVE TP!read_requesthdrs(c)
  BY <1>3, TinyOperators DEF T!read_requesthdrs, TP!read_requesthdrs, T!HasLine, TP!HasLine,
     T!TakesLine, TP!TakesLine, T!NextLine, TP!NextLine, T!mainVars, TP!mainVars, T!cgiVars,
     TP!cgiVars
<1>4. ASSUME T!HeadersSpin(c) PROVE TP!HeadersSpin(c)
  BY <1>4, TinyOperators DEF T!HeadersSpin, TP!HeadersSpin, T!AtEof, TP!AtEof, T!HasLine, TP!HasLine,
     T!mainVars, TP!mainVars, T!cgiVars, TP!cgiVars, T!clientVars, TP!clientVars
<1>5. ASSUME T!doit(c) PROVE TP!doit(c)
  BY <1>5, TinyOperators DEF T!doit, TP!doit, T!Goes, TP!Goes, T!clienterror, TP!clienterror,
     T!serve_static, TP!serve_static, T!DynamicHead, TP!DynamicHead, T!mainVars, TP!mainVars,
     T!cgiVars, TP!cgiVars, T!clientVars, TP!clientVars
<1>6. ASSUME T!Write(c) PROVE TP!Write(c)
  BY <1>6, TinyOperators DEF T!Write, TP!Write, T!mainVars, TP!mainVars, T!cgiVars, TP!cgiVars,
     T!clientVars, TP!clientVars
<1>7. ASSUME T!ForkCgi(c) PROVE TP!ForkCgi(c)
  BY <1>7, TinyOperators DEF T!ForkCgi, TP!ForkCgi, T!mainVars, TP!mainVars, T!clientVars,
     TP!clientVars
<1>8. ASSUME T!Wait(c) PROVE TP!Wait(c)
  BY <1>8, TinyOperators DEF T!Wait, TP!Wait, T!mainVars, TP!mainVars, T!cgiVars, TP!cgiVars,
     T!clientVars, TP!clientVars
<1>9. ASSUME T!Close(c) PROVE TP!Close(c)
  BY <1>9, TinyOperators DEF T!Close, TP!Close, T!mainVars, TP!mainVars, T!cgiVars, TP!cgiVars,
     T!clientVars, TP!clientVars
<1>10. ASSUME T!Dies(c) PROVE TP!Dies(c)
  BY <1>10, TinyOperators DEF T!Dies, TP!Dies, T!mainVars, TP!mainVars, T!cgiVars, TP!cgiVars,
     T!clientVars, TP!clientVars
<1> QED
  BY <1>1, <1>2, <1>3, <1>4, <1>5, <1>6, <1>7, <1>8, <1>9, <1>10 DEF T!Child, TP!Child

(* So are those of a CGI program.                                           *)
LEMMA TinyCgi == ASSUME NEW c, T!Cgi(c) \/ T!CgiDies(c) PROVE TP!Cgi(c) \/ TP!CgiDies(c)
<1>1. ASSUME T!adder(c) PROVE TP!adder(c)
  BY <1>1, TinyOperators DEF T!adder, TP!adder
<1>2. ASSUME T!hello(c) PROVE TP!hello(c)
  BY <1>2, TinyOperators DEF T!hello, TP!hello
<1>3. ASSUME T!SlowStarts(c) PROVE TP!SlowStarts(c)
  BY <1>3, TinyOperators DEF T!SlowStarts, TP!SlowStarts
<1>4. ASSUME T!SlowChunk(c) PROVE TP!SlowChunk(c)
  BY <1>4, TinyOperators DEF T!SlowChunk, TP!SlowChunk
<1>5. ASSUME T!SlowEnds(c) PROVE TP!SlowEnds(c)
  BY <1>5, TinyOperators DEF T!SlowEnds, TP!SlowEnds
<1>6. ASSUME T!CgiDies(c) PROVE TP!CgiDies(c)
  BY <1>6, TinyOperators DEF T!CgiDies, TP!CgiDies
<1> QED
  BY <1>1, <1>2, <1>3, <1>4, <1>5, <1>6 DEF T!Cgi, TP!Cgi

(* So are those of a client.                                                *)
LEMMA TinyClient ==
    ASSUME NEW c, T!Connect(c) \/ T!ClientSends(c) \/ T!ClientFinishes(c) \/ T!ClientGone(c)
    PROVE  TP!Connect(c) \/ TP!ClientSends(c) \/ TP!ClientFinishes(c) \/ TP!ClientGone(c)
<1>1. ASSUME T!Connect(c) PROVE TP!Connect(c)
  BY <1>1, TinyOperators DEF T!Connect, TP!Connect, T!childVars, TP!childVars, T!cgiVars, TP!cgiVars,
     T!clientVars, TP!clientVars
<1>2. ASSUME T!ClientSends(c) PROVE TP!ClientSends(c)
  BY <1>2, TinyOperators DEF T!ClientSends, TP!ClientSends, T!mainVars, TP!mainVars, T!childVars,
     TP!childVars, T!cgiVars, TP!cgiVars
<1>3. ASSUME T!ClientFinishes(c) PROVE TP!ClientFinishes(c)
  BY <1>3, TinyOperators DEF T!ClientFinishes, TP!ClientFinishes, T!mainVars, TP!mainVars,
     T!childVars, TP!childVars, T!cgiVars, TP!cgiVars
<1>4. ASSUME T!ClientGone(c) PROVE TP!ClientGone(c)
  BY <1>4, TinyOperators DEF T!ClientGone, TP!ClientGone, T!mainVars, TP!mainVars, T!childVars,
     TP!childVars, T!cgiVars, TP!cgiVars
<1> QED
  BY <1>1, <1>2, <1>3, <1>4

(* So is every step.                                                        *)
LEMMA TinyNext == ASSUME [T!Next]_(T!vars) PROVE [TP!Next]_(TP!vars)
<1>1. CASE T!Main
  BY <1>1, TinyMain DEF TP!Next
<1>2. CASE \E c \in Conns12 : T!Child(c) \/ T!Dies(c) \/ T!Cgi(c) \/ T!CgiDies(c)
  BY <1>2, TinyChild, TinyCgi DEF TP!Next
<1>3. CASE \E c \in Conns12 : T!Connect(c) \/ T!ClientSends(c) \/ T!ClientFinishes(c) \/ T!ClientGone(c)
  BY <1>3, TinyClient DEF TP!Next
<1>4. CASE UNCHANGED T!vars
  BY <1>4 DEF T!vars, T!mainVars, T!childVars, T!cgiVars, T!clientVars, TP!vars, TP!mainVars, TP!childVars,
     TP!cgiVars, TP!clientVars
<1> QED
  BY <1>1, <1>2, <1>3, <1>4 DEF T!Next

(* What the configuration asks for fits the assumptions about requests.     *)
LEMMA TinyFits == TP!TinyAssumption
<1> DEFINE Put == [Home EXCEPT !.method = "PUT", !.headers = 0]
           a == <<"size", 3>>
           b == <<"size", 1>>
           d == <<"chunksize", 2>>
           e == <<"1", 0>>
           f == <<"2", 0>>
           Queries == {<<a>>, <<b>>, <<b, d, a>>, <<e>>, <<e, f>>}
           Fits(q) == /\ q.headers \in Nat
                      /\ q.query # NoQuery => q.query \in Seq(TP!Pairs2)
<1>1. \A name : FileStat(name).kind = "regular" => FileStat(name).size \in Nat
  BY DEF FileStat
<1>2. \A q \in Queries : q \in Seq(TP!Pairs2)
  <2>2. a \in TP!Pairs2 /\ b \in TP!Pairs2 /\ d \in TP!Pairs2
    BY DEF TP!Pairs2
  <2>3. e \in TP!Pairs2 /\ f \in TP!Pairs2
    BY DEF TP!Pairs2
  <2> HIDE DEF a, b, d, e, f
  <2>4. <<a>> \in Seq(TP!Pairs2) /\ <<b>> \in Seq(TP!Pairs2) /\ <<e>> \in Seq(TP!Pairs2)
    BY <2>2, <2>3
  <2>5. <<b, d, a>> \in Seq(TP!Pairs2) /\ <<e, f>> \in Seq(TP!Pairs2)
    BY <2>2, <2>3
  <2> QED
    BY <2>4, <2>5
<1>3. ASSUME NEW q \in Alone PROVE q.headers \in {0, 1} /\ q.query \in Queries \cup {NoQuery}
  <2> HIDE DEF a, b, d, e, f
  <2>1. \/ q = Home \/ q = Get(<<"/", "secret">>, NoQuery, 0) \/ q = Cgi("none", NoQuery)
        \/ q = [Home EXCEPT !.method = "POST"] \/ q = Get(<<"/", "cgi-bin", "/">>, NoQuery, 0)
        \/ q = Cgi("hello", NoQuery) \/ q = Cgi("slow", <<a>>) \/ q = Cgi("slow", <<b>>)
        \/ q = Cgi("slow", <<b, d, a>>) \/ q = Cgi("adder", <<e>>) \/ q = Cgi("adder", <<e, f>>)
    BY DEF Alone, a, b, d, e, f
  <2> DEFINE X == Queries \cup {NoQuery}
             Ok(p) == p.headers \in {0, 1} /\ p.query \in X
  <2>2. <<a>> \in X /\ <<b>> \in X /\ <<b, d, a>> \in X /\ <<e>> \in X /\ <<e, f>> \in X /\ NoQuery \in X
    OBVIOUS
  <2> HIDE DEF X
  <2>3. \A uri : \A query \in X, n \in {0, 1} : Ok(Get(uri, query, n))
    BY DEF Get
  <2>4. \A name : \A query \in X : Ok(Cgi(name, query))
    BY <2>3 DEF Cgi
  <2>5. Ok(Home) /\ Ok([Home EXCEPT !.method = "POST"])
    BY <2>2 DEF Home, Get
  <2> HIDE DEF Ok
  <2>6. Ok(Get(<<"/", "secret">>, NoQuery, 0)) /\ Ok(Get(<<"/", "cgi-bin", "/">>, NoQuery, 0))
    BY <2>2, <2>3
  <2>7. Ok(Cgi("none", NoQuery)) /\ Ok(Cgi("hello", NoQuery)) /\ Ok(Cgi("slow", <<a>>)) /\ Ok(Cgi("slow", <<b>>))
    BY <2>2, <2>4
  <2>8. Ok(Cgi("slow", <<b, d, a>>)) /\ Ok(Cgi("adder", <<e>>)) /\ Ok(Cgi("adder", <<e, f>>))
    BY <2>2, <2>4
  <2>9. Ok(q)
    BY <2>1, <2>5, <2>6, <2>7, <2>8
  <2> QED
    BY <2>9 DEF Ok, X
<1>4. \A q \in Alone : Fits(q)
  <2> HIDE DEF Queries
  <2> QED
    BY <1>2, <1>3
<1>5. Fits(Put) /\ Fits(Cgi("none", NoQuery))
  BY DEF Home, Cgi, Get
<1>6. ASSUME NEW r \in Requests, NEW c \in DOMAIN r PROVE Fits(r[c])
  <2>1. r[c] \in Alone \/ r[c] = Put \/ r[c] = Cgi("none", NoQuery)
    <3> HIDE DEF Put
    <3>1. CASE \E q \in Alone : r = <<q>>
      BY <3>1
    <3>2. CASE r = <<Put, Cgi("none", NoQuery)>>
      BY <3>2
    <3> QED
      BY <3>1, <3>2 DEF Requests, Put
  <2> HIDE DEF Fits
  <2> QED
    BY <1>4, <1>5, <2>1
<1> HIDE DEF Put, Queries
<1> QED
  BY <1>1, <1>6 DEF TP!TinyAssumption

(* While Tiny runs, its invariant holds.                                    *)
TinyRight == program = "Tiny" => TP!TinyInvT

(* The invariant holds at first.                                            *)
LEMMA TinyRightInit == ASSUME Init PROVE TinyRight
<1>1. program = "Tiny" => T!Init
  BY DEF Init
<1> QED
  BY <1>1, TinyInit, TinyFits, TP!InitInv DEF TinyRight

(* Every step keeps it.                                                     *)
LEMMA TinyRightStep == ASSUME TinyRight, [Next]_vars PROVE TinyRight'
<1>1. CASE program = "Tiny"
  <2>1. program' = "Tiny" /\ [TP!Next]_(TP!vars) /\ TP!TinyInvT
    BY <1>1, TinyRuns, TinyNext DEF TinyRight
  <2>2. TP!TinyInvT'
    BY <2>1, TinyFits, TP!TinyStep
  <2> QED
    BY <2>2 DEF TinyRight
<1>2. CASE program # "Tiny"
  BY <1>2, TinyLeft DEF TinyRight
<1> QED
  BY <1>1, <1>2

(* So it holds in every run.                                                *)
LEMMA TinyRightAlways == Spec => []TinyRight
<1>1. Init => TinyRight
  BY TinyRightInit
<1>2. TinyRight /\ [Next]_vars => TinyRight'
  BY TinyRightStep
<1> QED
  BY <1>1, <1>2, PTL DEF Spec

(* The sums of the two instances are one.                                   *)
LEMMA TinySums == \A f : T!SumFunction(f) = TP!SumFunction(f)
BY DEF T!SumFunction, TP!SumFunction, T!SumFunctionOnSet, TP!SumFunctionOnSet, T!FoldFunctionOnSet,
   TP!FoldFunctionOnSet, T!MapThenFoldSet, TP!MapThenFoldSet

(* tiny.c and its CGI programs write one response to each connection, in    *)
(* every run of MCPrograms.                                                 *)
THEOREM ResponseFramed == Spec => []Framed
<1>1. TinyRight => Framed
  <2> SUFFICES ASSUME program = "Tiny", TP!TinyInvT PROVE T!Framed
    BY DEF TinyRight, Framed
  <2>1. TP!Framed
    BY TP!InvFramed
  <2>2. \A c, kind : T!Places(c, kind) = TP!Places(c, kind)
    BY DEF T!Places, TP!Places
  <2>3. \A c : T!Bytes(c) = TP!Bytes(c)
    BY <2>2, TinySums DEF T!Bytes, TP!Bytes
  <2> QED
    BY <2>1, <2>2, <2>3 DEF T!Framed, TP!Framed
<1> QED
  BY <1>1, TinyRightAlways, PTL

(* tiny.c answers a GET when it has read all of it.                         *)
THEOREM GetsAreRead == Spec => []ClosedClean
<1>1. TinyRight => ClosedClean
  <2> SUFFICES ASSUME program = "Tiny", TP!TinyInvT PROVE T!ClosedClean
    BY DEF TinyRight, ClosedClean
  <2>1. TP!ClosedClean
    BY TP!InvClosedClean
  <2> QED
    BY <2>1 DEF T!ClosedClean, TP!ClosedClean
<1> QED
  BY <1>1, TinyRightAlways, PTL

----------------------------------------------------------------------------
(* Pipeline. *)

\* The module with the proofs is about three programs, which are in turn what
\* the common variables are.
EP == INSTANCE ExerciseProofs WITH
    Sessions <- Sessions7, MaxCmds <- 3, Program <- Programs, NoProgram <- NoProgram,
    Files <- Files4, Content <- FilesAtFirst, NoFile <- NoFile, Unwritable <- {"w"}, PipeSize <- 1,
    todo <- v1, argv <- v2, parsed <- v3, ran <- v4, sh <- v5, i <- v6, at <- v7,
    ends <- v8, in <- v9, out <- v10, pipe <- v11, file <- v12, pos <- v13, left <- v14,
    shown <- v15, Items <- {"a", "b", "x", "y", "old", "error"},
    Jobs <- Jobs2, MaxIter <- 3, Escape <- EscapeAfter,
    job <- v1, x <- v2, y <- v3, count <- v4, offset <- v5, place <- v6, col <- v7, row <- v8,
    rows <- v9, iterated <- v10, mixed <- v11, loaded <- v12, colour <- v13, pixels <- v14,
    Settings <- Exchanges, FreadSize <- 2, BUF_SIZE <- 2, Page <- <<7, 8>>,
    setting <- v1, input <- v2, cl <- v3, buf <- v4, nread <- v5, len <- v6, up <- v7,
    down <- v8, upEnds <- v9, downEnds <- v10, sv <- v11, held <- v12, received <- v13,
    printed <- v14, outBuf <- v15,
    Lists <- AddressLists, walk <- v1, list <- v2, stage <- v3, address <- v4, fds <- v5, allocated <- v6,
    result <- v7,
    Inputs <- HttpInputs, Missing <- None, DefaultPort <- "80",
    requests <- v1, rest <- v2, parses <- v3, method <- v4, hostname <- v5, port <- v6, uri <- v7,
    Longs <- Longs6, Stream <- <<1, 2, 3, 4>>, Wanted <- 3, BufferSize <- 2,
    step <- v1, call <- v2, errno <- v3, handler <- v4, status <- v5, cause <- v6, stream <- v7,
    internal <- v8, got <- v9, put <- v10,
    Typings <- Typings, LineSize <- 12, Characters <- {"a", "b", "c", "&", "'", " ", "\n"},
    typing <- v1, options <- v2, emit_prompt <- v3, stdin <- v4, eof <- v5, cmdline <- v6,
    evaluated <- v7, prompts <- v8, stop <- v9

(* A step leaves the program that runs, and is one of its own.              *)
LEMMA PipelineRuns ==
    ASSUME program = "Pipeline", [Next]_vars
    PROVE  program' = "Pipeline" /\ [P!Next]_(P!vars)
BY DEF Next, vars, RunsTiny, RunsPipeline, RunsDns, RunsOpenFd, RunsSockets, RunsSignals, RunsForkPipe,
   RunsMandelbrot, RunsCsapp, RunsCommandLine, RunsHttpParser, P!vars, P!shellVars, P!childVars

(* Who runs another program does not come to Pipeline.                      *)
LEMMA PipelineLeft ==
    ASSUME program # "Pipeline", [Next]_vars
    PROVE  program' # "Pipeline"
BY DEF Next, vars, RunsTiny, RunsPipeline, RunsDns, RunsOpenFd, RunsSockets, RunsSignals, RunsForkPipe,
   RunsMandelbrot, RunsCsapp, RunsCommandLine, RunsHttpParser

(* The two instances of Pipeline are one.                                   *)
LEMMA PipelineOperators ==
    /\ \A s : P!Min(s) = EP!Min(s)
    /\ \A args : P!parseargs(args) = EP!parseargs(args) /\ P!FirstWord(args) = EP!FirstWord(args)
    /\ P!Children = EP!Children /\ P!Procs = EP!Procs /\ P!Pipes = EP!Pipes /\ P!Tty = EP!Tty
    /\ P!Ignored = EP!Ignored /\ P!NumCmds = EP!NumCmds
    /\ \A n : P!PipeOf(n) = EP!PipeOf(n) /\ P!Runs(n) = EP!Runs(n)
    /\ \A c : /\ P!Name(c) = EP!Name(c) /\ P!InName(c) = EP!InName(c) /\ P!OutName(c) = EP!OutName(c)
              /\ P!HasExeced(c) <=> EP!HasExeced(c)
              /\ \A status : P!Exits(c, status) <=> EP!Exits(c, status)
    /\ \A n : (P!HeldForReading(n) <=> EP!HeldForReading(n)) /\ (P!HeldForWriting(n) <=> EP!HeldForWriting(n))
    /\ \A c : P!NextItem(c) = EP!NextItem(c) /\ (P!Ready(c) <=> EP!Ready(c)) /\ (P!AtEof(c) <=> EP!AtEof(c))
<1>1. \A s : P!Min(s) = EP!Min(s)
  BY DEF P!Min, EP!Min
<1>2. \A args : P!parseargs(args) = EP!parseargs(args) /\ P!FirstWord(args) = EP!FirstWord(args)
  BY <1>1 DEF P!parseargs, EP!parseargs, P!FirstWord, EP!FirstWord
<1>3. /\ P!Children = EP!Children /\ P!Procs = EP!Procs /\ P!Pipes = EP!Pipes /\ P!Tty = EP!Tty
      /\ P!Ignored = EP!Ignored /\ P!NumCmds = EP!NumCmds
  BY DEF P!Children, EP!Children, P!Procs, EP!Procs, P!Pipes, EP!Pipes, P!Tty, EP!Tty, P!Ignored, EP!Ignored,
     P!NumCmds, EP!NumCmds
<1>4. \A n : P!PipeOf(n) = EP!PipeOf(n) /\ P!Runs(n) = EP!Runs(n)
  BY DEF P!PipeOf, EP!PipeOf, P!Runs, EP!Runs
<1>5. \A c : P!Name(c) = EP!Name(c) /\ P!InName(c) = EP!InName(c) /\ P!OutName(c) = EP!OutName(c)
  BY DEF P!Name, EP!Name, P!InName, EP!InName, P!OutName, EP!OutName
<1>6. \A c : P!HasExeced(c) <=> EP!HasExeced(c)
  BY <1>5 DEF P!HasExeced, EP!HasExeced
<1>7. \A c, status : P!Exits(c, status) <=> EP!Exits(c, status)
  BY <1>3 DEF P!Exits, EP!Exits
<1>8. \A n : (P!HeldForReading(n) <=> EP!HeldForReading(n)) /\ (P!HeldForWriting(n) <=> EP!HeldForWriting(n))
  BY <1>3, <1>4 DEF P!HeldForReading, EP!HeldForReading, P!HeldForWriting, EP!HeldForWriting
<1>9. \A c : P!NextItem(c) = EP!NextItem(c) /\ (P!Ready(c) <=> EP!Ready(c)) /\ (P!AtEof(c) <=> EP!AtEof(c))
  BY <1>8 DEF P!NextItem, EP!NextItem, P!Ready, EP!Ready, P!AtEof, EP!AtEof
<1> QED
  BY <1>1, <1>2, <1>3, <1>4, <1>5, <1>6, <1>7, <1>8, <1>9

(* They have one initial predicate.                                         *)
LEMMA PipelineInit == ASSUME P!Init PROVE EP!Init
BY PipelineOperators DEF P!Init, EP!Init

(* Every step of the one is a step of the other.                            *)
LEMMA PipelineNext == ASSUME [P!Next]_(P!vars) PROVE [EP!Next]_(EP!vars)
<1>1. ASSUME P!Shell PROVE EP!Shell
  <2>1. ASSUME P!ReadLine PROVE EP!ReadLine
    BY <2>1, PipelineOperators DEF P!ReadLine, EP!ReadLine
  <2>2. ASSUME P!EndOfInput PROVE EP!EndOfInput
    BY <2>2 DEF P!EndOfInput, EP!EndOfInput, P!childVars, EP!childVars
  <2>3. ASSUME P!Fork PROVE EP!Fork
    BY <2>3 DEF P!Fork, EP!Fork
  <2>4. ASSUME P!Setpgid PROVE EP!Setpgid
    BY <2>4, PipelineOperators DEF P!Setpgid, EP!Setpgid
  <2>5. ASSUME P!CloseEnds PROVE EP!CloseEnds
    BY <2>5 DEF P!CloseEnds, EP!CloseEnds
  <2>6. ASSUME P!Waitpid PROVE EP!Waitpid
    BY <2>6, PipelineOperators DEF P!Waitpid, EP!Waitpid
  <2> QED
    BY <1>1, <2>1, <2>2, <2>3, <2>4, <2>5, <2>6 DEF P!Shell, EP!Shell
<1>2. ASSUME NEW c, P!Child(c) PROVE EP!Child(c)
  <2>1. ASSUME P!RedirectIn(c) PROVE EP!RedirectIn(c)
    BY <2>1, PipelineOperators DEF P!RedirectIn, EP!RedirectIn, P!shellVars, EP!shellVars
  <2>2. ASSUME P!RedirectOut(c) PROVE EP!RedirectOut(c)
    BY <2>2, PipelineOperators DEF P!RedirectOut, EP!RedirectOut, P!shellVars, EP!shellVars
  <2>3. ASSUME P!DupPipes(c) PROVE EP!DupPipes(c)
    BY <2>3, PipelineOperators DEF P!DupPipes, EP!DupPipes, P!shellVars, EP!shellVars
  <2>4. ASSUME P!CloseAll(c) PROVE EP!CloseAll(c)
    BY <2>4 DEF P!CloseAll, EP!CloseAll, P!shellVars, EP!shellVars
  <2>5. ASSUME P!Execve(c) PROVE EP!Execve(c)
    BY <2>5, PipelineOperators DEF P!Execve, EP!Execve, P!shellVars, EP!shellVars
  <2>6. ASSUME P!Write(c) PROVE EP!Write(c)
    BY <2>6, PipelineOperators DEF P!Write, EP!Write, P!shellVars, EP!shellVars
  <2>7. ASSUME P!Sigpipe(c) PROVE EP!Sigpipe(c)
    BY <2>7, PipelineOperators DEF P!Sigpipe, EP!Sigpipe, P!shellVars, EP!shellVars
  <2>8. ASSUME P!Read(c) PROVE EP!Read(c)
    BY <2>8, PipelineOperators DEF P!Read, EP!Read, P!shellVars, EP!shellVars
  <2>9. ASSUME P!Ends(c) PROVE EP!Ends(c)
    BY <2>9, PipelineOperators DEF P!Ends, EP!Ends, P!shellVars, EP!shellVars
  <2> QED
    BY <1>2, <2>1, <2>2, <2>3, <2>4, <2>5, <2>6, <2>7, <2>8, <2>9 DEF P!Child, EP!Child
<1>3. ASSUME UNCHANGED P!vars PROVE UNCHANGED EP!vars
  BY <1>3 DEF P!vars, EP!vars, P!shellVars, EP!shellVars, P!childVars, EP!childVars
<1> QED
  BY <1>1, <1>2, <1>3, PipelineOperators DEF P!Next, EP!Next

\* The lines of the sessions.
L1 == <<"jobs">>
L2 == <<"gen", "|", "cat", "|", "head">>
L3 == <<"quit">>
L4 == <<"gen", "|", "cat">>
L5 == << >>
L6 == <<"cat", "<", "f">>
L7 == <<"gen", "|", "cat", "<", "f", "|", "cat", ">", "o">>
L8 == <<"nosuch", "|", "cat", "|">>
L9 == <<"gen", ">", "o", "|", "cat">>
L10 == <<"cat", "<", "g", "|", "head", ">">>
L11 == <<"gen", "|", "cat", "<", "f", ">", "w", "|", "cat">>
AllLines == {L1, L2, L3, L4, L5, L6, L7, L8, L9, L10, L11}

(* A set of numbers that has at most two elements.                          *)
LEMMA AtMostTwo ==
    ASSUME NEW B, NEW a, NEW b, B \subseteq {a, b}
    PROVE  Cardinality(B) < 3
<1>1. IsFiniteSet({a}) /\ Cardinality({a}) = 1
  BY FS_Singleton
<1>2. {a, b} = {a} \cup {b}
  OBVIOUS
<1>3. IsFiniteSet({a, b}) /\ Cardinality({a, b}) \in Nat /\ Cardinality({a, b}) <= 2
  <2> DEFINE G == {a}
             E == G \cup {b}
  <2>1. IsFiniteSet(G) /\ Cardinality(G) = 1
    BY <1>1
  <2> HIDE DEF G
  <2>2. IsFiniteSet(E) /\ Cardinality(E) = IF b \in G THEN Cardinality(G) ELSE Cardinality(G) + 1
    BY <2>1, FS_AddElement
  <2> HIDE DEF E
  <2>3. IsFiniteSet(E) /\ Cardinality(E) \in Nat /\ Cardinality(E) <= 2
    BY <2>1, <2>2
  <2> QED
    BY <1>2, <2>3 DEF G, E
<1>4. Cardinality(B) \in Nat /\ Cardinality(B) <= Cardinality({a, b})
  BY <1>3, FS_Subset, FS_CardinalityType
<1> QED
  BY <1>3, <1>4

(* No line of the sessions has more than two bars.                          *)
LEMMA TwoBars ==
    ASSUME NEW line \in AllLines
    PROVE  Len(line) \in Nat /\ Cardinality(EP!Bars(line, Len(line))) < 3
<1>1. CASE line \in {L1, L2, L3, L4, L5}
  <2>1. Len(line) \in Nat /\ EP!Bars(line, Len(line)) \subseteq {2, 4}
    BY <1>1 DEF L1, L2, L3, L4, L5, EP!Bars
  <2> QED
    BY <2>1, AtMostTwo
<1>2. CASE line \in {L6, L8, L9, L10}
  <2>1. Len(line) \in Nat /\ EP!Bars(line, Len(line)) \subseteq {2, 4}
    BY <1>2 DEF L6, L8, L9, L10, EP!Bars
  <2> QED
    BY <2>1, AtMostTwo
<1>3. CASE line = L7
  <2>1. Len(line) \in Nat /\ EP!Bars(line, Len(line)) \subseteq {2, 6}
    BY <1>3 DEF L7, EP!Bars
  <2> QED
    BY <2>1, AtMostTwo
<1>4. CASE line = L11
  <2>1. Len(line) \in Nat /\ EP!Bars(line, Len(line)) \subseteq {2, 8}
    BY <1>4 DEF L11, EP!Bars
  <2> QED
    BY <2>1, AtMostTwo
<1> QED
  BY <1>1, <1>2, <1>3, <1>4 DEF AllLines

(* There are no other lines.                                                *)
LEMMA LinesAre ==
    /\ \A line \in EP!SessionLines : line \in AllLines
    /\ \A s \in Sessions7 : s \in Seq(EP!SessionLines)
<1>1. Sessions7 = {<<L1, L2, L3>>, <<L4, L5, L6>>, <<L7>>, <<L8>>, <<L9>>, <<L10>>, <<L11>>}
  BY DEF Sessions7, L1, L2, L3, L4, L5, L6, L7, L8, L9, L10, L11
<1>2. \A s \in Sessions7 : /\ s \in Seq({s[k] : k \in DOMAIN s})
                           /\ \A k \in DOMAIN s : s[k] \in AllLines
  BY <1>1 DEF AllLines
<1>3. ASSUME NEW s \in Sessions7 PROVE s \in Seq(EP!SessionLines)
  <2> DEFINE R == {s[k] : k \in DOMAIN s}
  <2>1. s \in Seq(R) /\ R \subseteq EP!SessionLines
    BY <1>2 DEF EP!SessionLines
  <2> HIDE DEF R
  <2> QED
    BY <2>1
<1>4. ASSUME NEW line \in EP!SessionLines PROVE line \in AllLines
  <2>1. PICK s \in Sessions7 : line \in {s[k] : k \in DOMAIN s}
    BY DEF EP!SessionLines
  <2>2. PICK k \in DOMAIN s : line = s[k]
    BY <2>1
  <2> HIDE DEF AllLines
  <2> QED
    BY <1>2, <2>2
<1> QED
  BY <1>3, <1>4

(* The sessions fit the assumptions about lines.                            *)
LEMMA PipelineFits == EP!PipelineAssumption
<1>1. \A B : EP!Cardinality(B) = Cardinality(B)
  BY DEF Cardinality, EP!Cardinality
<1>2. \A line \in EP!SessionLines : Len(line) \in Nat /\ EP!Cardinality(EP!Bars(line, Len(line))) < 3
  BY <1>1, LinesAre, TwoBars
<1>3. 3 \in Nat \ {0}
  OBVIOUS
<1> QED
  BY <1>2, <1>3, LinesAre DEF EP!PipelineAssumption

(* No line of theirs writes a file twice, or one that it reads.             *)
LEMMA NamesFit == ASSUME NEW line \in AllLines PROVE EP!NamesFiles(line)
<1>1. CASE line \in {L1, L4, L5}
  BY <1>1 DEF L1, L4, L5, EP!NamesFiles
<1>6. CASE line = L2
  BY <1>6 DEF L2, EP!NamesFiles
<1>7. CASE line = L3
  BY <1>7 DEF L3, EP!NamesFiles
<1>2. CASE line \in {L6, L8}
  BY <1>2 DEF L6, L8, EP!NamesFiles, Files4
<1>3. CASE line = L7
  BY <1>3 DEF L7, EP!NamesFiles, Files4
<1>4. CASE line = L9
  BY <1>4 DEF L9, EP!NamesFiles, Files4
<1>5. CASE line = L10
  BY <1>5 DEF L10, EP!NamesFiles, Files4
<1>8. CASE line = L11
  BY <1>8 DEF L11, EP!NamesFiles, Files4
<1> QED
  BY <1>1, <1>2, <1>3, <1>4, <1>5, <1>6, <1>7, <1>8 DEF AllLines

(* The sessions fit the assumptions about what the commands read and write. *)
LEMMA ItemsFit == EP!ItemsAssumption
<1> DEFINE R == {"a", "b", "x", "y", "old", "error"}
<1>1. "error" \in R /\ << >> \in Seq(R) /\ <<"a", "b">> \in Seq(R) /\ <<"x", "y">> \in Seq(R) /\ <<"old">> \in Seq(R)
  OBVIOUS
<1> HIDE DEF R
<1>2. FilesAtFirst \in [Files4 -> Seq(R) \cup {NoFile}]
  <2>1. \A n \in Files4 : FilesAtFirst[n] \in {<<"x", "y">>, <<"old">>, NoFile}
    BY DEF FilesAtFirst, Files4
  <2>2. FilesAtFirst = [n \in Files4 |-> FilesAtFirst[n]]
    <3> DEFINE Of(n) == CASE n = "f" -> <<"x", "y">> [] n \in {"o", "w"} -> <<"old">> [] n = "g" -> NoFile
    <3>1. FilesAtFirst = [n \in Files4 |-> Of(n)]
      BY DEF FilesAtFirst
    <3> HIDE DEF Of
    <3> QED
      BY <3>1
  <2> QED
    BY <1>1, <2>1, <2>2
<1>3. ASSUME NEW name, Programs(name) # NoProgram
      PROVE  Programs(name).own \in Seq(R) /\ Programs(name).reads \in Nat
  <2>1. name \in {"gen", "cat", "head"}
    BY <1>3 DEF Programs
  <2>2. \/ Programs(name) = [own |-> <<"a", "b">>, reads |-> 0]
        \/ Programs(name) = [own |-> << >>, reads |-> 9]
        \/ Programs(name) = [own |-> << >>, reads |-> 1]
    BY <2>1 DEF Programs
  <2>3. Programs(name).own \in {<<"a", "b">>, << >>} /\ Programs(name).reads \in {0, 9, 1}
    BY <2>2
  <2>4. {<<"a", "b">>, << >>} \subseteq Seq(R) /\ {0, 9, 1} \subseteq Nat
    BY <1>1
  <2> QED
    BY <2>3, <2>4, Zenon
<1> QED
  BY <1>1, <1>2, <1>3, LinesAre, NamesFit DEF EP!ItemsAssumption, R

(* While Pipeline runs, its invariants hold.                                *)
PipelineRight == program = "Pipeline" => EP!PipelineInv /\ EP!LineInv

(* So they do in every run.                                                 *)
LEMMA PipelineRightAlways == Spec => []PipelineRight
<1>1. Init => PipelineRight
  <2>1. Init /\ program = "Pipeline" => P!Init
    BY DEF Init
  <2> QED
    BY <2>1, PipelineInit, PipelineFits, ItemsFit, EP!InvInit, EP!LineInit DEF PipelineRight
<1>2. PipelineRight /\ [Next]_vars => PipelineRight'
  <2> SUFFICES ASSUME PipelineRight, [Next]_vars PROVE PipelineRight'
    OBVIOUS
  <2>1. CASE program = "Pipeline"
    <3>1. program' = "Pipeline" /\ [EP!Next]_(EP!vars) /\ EP!PipelineInv /\ EP!LineInv
      BY <2>1, PipelineRuns, PipelineNext DEF PipelineRight
    <3>2. EP!PipelineInv' /\ EP!LineInv'
      BY <3>1, PipelineFits, ItemsFit, EP!PipelineStep, EP!LineStep
    <3> QED
      BY <3>2 DEF PipelineRight
  <2>2. CASE program # "Pipeline"
    BY <2>2, PipelineLeft DEF PipelineRight
  <2> QED
    BY <2>1, <2>2
<1> QED
  BY <1>1, <1>2, PTL DEF Spec

(* What a line of the pipeline shell leaves in files and on the terminal is *)
(* what the composition of its commands gives, in every run of MCPrograms.  *)
THEOREM LinesCompose == Spec => []Composed
<1>1. \A c : P!Opens(c) <=> EP!Opens(c)
  BY PipelineOperators DEF P!Opens, EP!Opens
<1>2. P!meaning = EP!meaning
  BY <1>1, PipelineOperators DEF P!meaning, EP!meaning
<1>3. PipelineRight => Composed
  <2> SUFFICES ASSUME program = "Pipeline", EP!LineInv PROVE P!Composed
    BY DEF PipelineRight, Composed
  <2>1. EP!Composed
    BY DEF EP!LineInv
  <2> QED
    BY <1>1, <1>2, <2>1, PipelineOperators DEF P!Composed, EP!Composed
<1> QED
  BY <1>3, PipelineRightAlways, PTL

(* The pipeline shell is back at its prompt with no end of a pipe open and  *)
(* no child unreaped, in every run of MCPrograms.                           *)
THEOREM PromptIsClean == Spec => []NothingLeft
<1>1. PipelineRight => NothingLeft
  <2> SUFFICES ASSUME program = "Pipeline", EP!PipelineInv PROVE P!NothingLeft
    BY DEF PipelineRight, NothingLeft
  <2>1. EP!NothingLeft
    BY PipelineFits, EP!InvNothingLeft
  <2> QED
    BY <2>1, PipelineOperators DEF P!NothingLeft, EP!NothingLeft
<1> QED
  BY <1>1, PipelineRightAlways, PTL

----------------------------------------------------------------------------
(* Sockets. *)

(* A step leaves the program that runs, and is one of its own.              *)
LEMMA SocketsRuns ==
    ASSUME program = "Sockets", [Next]_vars
    PROVE  program' = "Sockets" /\ [K!Next]_(K!vars)
BY DEF Next, vars, RunsTiny, RunsPipeline, RunsDns, RunsOpenFd, RunsSockets, RunsSignals, RunsForkPipe,
   RunsMandelbrot, RunsCsapp, RunsCommandLine, RunsHttpParser, K!vars, K!clientVars, K!wireVars

(* Who runs another program does not come to Sockets.                      *)
LEMMA SocketsLeft ==
    ASSUME program # "Sockets", [Next]_vars
    PROVE  program' # "Sockets"
BY DEF Next, vars, RunsTiny, RunsPipeline, RunsDns, RunsOpenFd, RunsSockets, RunsSignals, RunsForkPipe,
   RunsMandelbrot, RunsCsapp, RunsCommandLine, RunsHttpParser

(* The two instances of Sockets are one.                                    *)
LEMMA SocketsOperators ==
    /\ \A s : K!Min(s) = EP!K!Min(s)
    /\ \A n : K!Bytes(n) = EP!K!Bytes(n)
    /\ \A s, t : K!IsPrefix(s, t) <=> EP!K!IsPrefix(s, t)
    /\ K!Garbage = EP!K!Garbage /\ K!Printed = EP!K!Printed
<1>1. \A s : K!Min(s) = EP!K!Min(s)
  BY DEF K!Min, EP!K!Min
<1>2. \A n : K!Bytes(n) = EP!K!Bytes(n)
  BY DEF K!Bytes, EP!K!Bytes
<1>3. \A s, t : K!IsPrefix(s, t) <=> EP!K!IsPrefix(s, t)
  BY DEF K!IsPrefix, EP!K!IsPrefix
<1>4. K!Garbage = EP!K!Garbage
  BY DEF K!Garbage, EP!K!Garbage
<1>5. \A s, e : K!RemoveFirst(s, e) = EP!K!RemoveFirst(s, e)
  BY <1>1 DEF K!RemoveFirst, EP!K!RemoveFirst, K!RemoveAt, EP!K!RemoveAt, K!SelectInSeq, EP!K!SelectInSeq
<1>6. K!Printed = EP!K!Printed
  BY <1>4, <1>5 DEF K!Printed, EP!K!Printed
<1> QED
  BY <1>1, <1>2, <1>3, <1>4, <1>6

(* They have one initial predicate.                                         *)
LEMMA SocketsInit == ASSUME K!Init PROVE EP!K!Init
BY SocketsOperators DEF K!Init, EP!K!Init

(* Every step of the one is a step of the other.                            *)
LEMMA SocketsNext == ASSUME [K!Next]_(K!vars) PROVE [EP!K!Next]_(EP!K!vars)
<1>1. ASSUME K!Fread PROVE EP!K!Fread
  BY <1>1, SocketsOperators DEF K!Fread, EP!K!Fread, K!clientVars, EP!K!clientVars, K!wireVars, EP!K!wireVars
<1>2. ASSUME K!Write PROVE EP!K!Write
  BY <1>2, SocketsOperators DEF K!Write, EP!K!Write, K!clientVars, EP!K!clientVars, K!wireVars, EP!K!wireVars
<1>3. ASSUME K!WriteEnds PROVE EP!K!WriteEnds
  BY <1>3, SocketsOperators DEF K!WriteEnds, EP!K!WriteEnds, K!clientVars, EP!K!clientVars, K!wireVars, EP!K!wireVars
<1>4. ASSUME K!Read PROVE EP!K!Read
  BY <1>4, SocketsOperators DEF K!Read, EP!K!Read, K!clientVars, EP!K!clientVars, K!wireVars, EP!K!wireVars
<1>5. ASSUME K!ReadEnds PROVE EP!K!ReadEnds
  BY <1>5, SocketsOperators DEF K!ReadEnds, EP!K!ReadEnds, K!clientVars, EP!K!clientVars, K!wireVars, EP!K!wireVars
<1>6. ASSUME K!Recv PROVE EP!K!Recv
  BY <1>6, SocketsOperators DEF K!Recv, EP!K!Recv, K!clientVars, EP!K!clientVars, K!wireVars, EP!K!wireVars
<1>7. ASSUME K!Send PROVE EP!K!Send
  BY <1>7, SocketsOperators DEF K!Send, EP!K!Send, K!clientVars, EP!K!clientVars, K!wireVars, EP!K!wireVars
<1>8. ASSUME K!RecvEnds PROVE EP!K!RecvEnds
  BY <1>8, SocketsOperators DEF K!RecvEnds, EP!K!RecvEnds, K!clientVars, EP!K!clientVars, K!wireVars, EP!K!wireVars
<1>9. ASSUME K!Serve PROVE EP!K!Serve
  BY <1>9, SocketsOperators DEF K!Serve, EP!K!Serve, K!clientVars, EP!K!clientVars, K!wireVars, EP!K!wireVars
<1>10. ASSUME UNCHANGED K!vars PROVE UNCHANGED EP!K!vars
  BY <1>10 DEF K!vars, EP!K!vars
<1> QED
  BY <1>1, <1>2, <1>3, <1>4, <1>5, <1>6, <1>7, <1>8, <1>9, <1>10
  DEF K!Next, EP!K!Next, K!Client, EP!K!Client, K!Server, EP!K!Server

(* The exchanges fit the assumptions about sizes.                           *)
LEMMA SocketsFits == EP!SocketsAssumption
<1>1. \A s \in Exchanges : s.length \in Nat /\ s.garbage \in Nat /\ s.short \in BOOLEAN /\ s.dirty \in BOOLEAN
  BY DEF Exchanges
<1>2. 2 \in Nat \ {0} /\ <<7, 8>> \in Seq(Nat)
  OBVIOUS
<1> QED
  BY <1>1, <1>2 DEF EP!SocketsAssumption

(* While Sockets runs, its invariant holds.                                 *)
SocketsRight == program = "Sockets" => EP!SocketInv

(* So it does in every run.                                                 *)
LEMMA SocketsRightAlways == Spec => []SocketsRight
<1>1. Init => SocketsRight
  <2>1. Init /\ program = "Sockets" => K!Init
    BY DEF Init
  <2> QED
    BY <2>1, SocketsInit, SocketsFits, EP!SocketsInit DEF SocketsRight
<1>2. SocketsRight /\ [Next]_vars => SocketsRight'
  <2> SUFFICES ASSUME SocketsRight, [Next]_vars PROVE SocketsRight'
    OBVIOUS
  <2>1. CASE program = "Sockets"
    <3>1. program' = "Sockets" /\ [EP!K!Next]_(EP!K!vars) /\ EP!SocketInv
      BY <2>1, SocketsRuns, SocketsNext DEF SocketsRight
    <3>2. (EP!SocketInv)'
      BY <3>1, SocketsFits, EP!SocketsStep
    <3> QED
      BY <3>2 DEF SocketsRight
  <2>2. CASE program # "Sockets"
    BY <2>2, SocketsLeft DEF SocketsRight
  <2> QED
    BY <2>1, <2>2
<1> QED
  BY <1>1, <1>2, PTL DEF Spec

(* The client of hw5-sockets sends what its buffer holds and prints what    *)
(* comes back in order, in every run of MCPrograms, those with long inputs, *)
(* an nread that is not 0 at first and short writes among them.             *)
THEOREM ExchangesInOrder == Spec => []InOrder
<1>1. SocketsRight => InOrder
  <2> SUFFICES ASSUME program = "Sockets", EP!SocketInv PROVE K!BufHoldsInput /\ K!SentFromBuf /\ K!PrintedInOrder
    BY DEF SocketsRight, InOrder
  <2>1. EP!K!BufHoldsInput /\ EP!K!SentFromBuf /\ EP!K!PrintedInOrder
    BY SocketsFits, EP!InvRead, EP!InvSent, EP!InvPrinted
  <2>2. K!BufHoldsInput
    BY <2>1, SocketsOperators DEF K!BufHoldsInput, EP!K!BufHoldsInput
  <2>3. K!SentFromBuf
    <3>1. \A s : K!MadeOfBeginnings(s) <=> EP!K!MadeOfBeginnings(s)
      BY SocketsOperators DEF K!MadeOfBeginnings, EP!K!MadeOfBeginnings
    <3> QED
      BY <2>1, <3>1, SocketsOperators DEF K!SentFromBuf, EP!K!SentFromBuf
  <2>4. K!PrintedInOrder
    BY <2>1, SocketsOperators DEF K!PrintedInOrder, EP!K!PrintedInOrder
  <2> QED
    BY <2>2, <2>3, <2>4
<1> QED
  BY <1>1, SocketsRightAlways, PTL

----------------------------------------------------------------------------
(* Mandelbrot. *)

(* A step leaves the program that runs, and is one of its own.              *)
LEMMA MandelbrotRuns ==
    ASSUME program = "Mandelbrot", [Next]_vars
    PROVE  program' = "Mandelbrot" /\ [M!Next]_(M!vars)
BY DEF Next, vars, RunsTiny, RunsPipeline, RunsDns, RunsOpenFd, RunsSockets, RunsSignals, RunsForkPipe,
   RunsMandelbrot, RunsCsapp, RunsCommandLine, RunsHttpParser, M!vars, M!shared, M!private

(* Who runs another program does not come to Mandelbrot.                   *)
LEMMA MandelbrotLeft ==
    ASSUME program # "Mandelbrot", [Next]_vars
    PROVE  program' # "Mandelbrot"
BY DEF Next, vars, RunsTiny, RunsPipeline, RunsDns, RunsOpenFd, RunsSockets, RunsSignals, RunsForkPipe,
   RunsMandelbrot, RunsCsapp, RunsCommandLine, RunsHttpParser

(* The two instances of Mandelbrot are one.                                 *)
LEMMA MandelbrotOperators ==
    /\ \A s : M!Min(s) = EP!M!Min(s)
    /\ M!Threads = EP!M!Threads /\ M!Rows = EP!M!Rows /\ M!Size = EP!M!Size
    /\ \A t : M!Share(t) = EP!M!Share(t) /\ M!Escaped(t) = EP!M!Escaped(t)
    /\ \A t, next : M!Goes(t, next) <=> EP!M!Goes(t, next)
    /\ M!Black = EP!M!Black /\ \A b, n : M!ColourByte(b, n) = EP!M!ColourByte(b, n)
    /\ \A n : M!Colour(n) = EP!M!Colour(n)
<1>1. \A s : M!Min(s) = EP!M!Min(s) /\ M!Max(s) = EP!M!Max(s)
  BY DEF M!Min, EP!M!Min, M!Max, EP!M!Max
<1>2. M!Threads = EP!M!Threads /\ M!Rows = EP!M!Rows /\ M!Size = EP!M!Size
  BY <1>1 DEF M!Threads, EP!M!Threads, M!Rows, EP!M!Rows, M!Size, EP!M!Size
<1>3. \A t : M!Share(t) = EP!M!Share(t)
  BY <1>2 DEF M!Share, EP!M!Share
<1>4. \A t : M!Escaped(t) = EP!M!Escaped(t)
  BY DEF M!Escaped, EP!M!Escaped
<1>5. \A t, next : M!Goes(t, next) <=> EP!M!Goes(t, next)
  BY DEF M!Goes, EP!M!Goes
<1>6. M!Black = EP!M!Black /\ \A b, n : M!ColourByte(b, n) = EP!M!ColourByte(b, n)
  BY DEF M!Black, EP!M!Black, M!ColourByte, EP!M!ColourByte
<1>7. \A n : M!Colour(n) = EP!M!Colour(n)
  BY <1>6 DEF M!Colour, EP!M!Colour
<1> QED
  BY <1>1, <1>2, <1>3, <1>4, <1>5, <1>6, <1>7

(* They have one initial predicate.                                         *)
LEMMA MandelbrotInit == ASSUME M!Init PROVE EP!M!Init
BY MandelbrotOperators DEF M!Init, EP!M!Init

(* Every step of the one is a step of the other.                            *)
LEMMA MandelbrotNext == ASSUME [M!Next]_(M!vars) PROVE [EP!M!Next]_(EP!M!vars)
<1>1. ASSUME NEW t, M!Thread(t) PROVE EP!M!Thread(t)
  <2>1. ASSUME M!Row(t) PROVE EP!M!Row(t)
    BY <2>1, MandelbrotOperators DEF M!Row, EP!M!Row, M!shared, EP!M!shared
  <2>2. ASSUME M!RowsDone(t) PROVE EP!M!RowsDone(t)
    BY <2>2, MandelbrotOperators DEF M!RowsDone, EP!M!RowsDone, M!shared, EP!M!shared
  <2>3. ASSUME M!Point(t) PROVE EP!M!Point(t)
    BY <2>3, MandelbrotOperators DEF M!Point, EP!M!Point, M!shared, EP!M!shared
  <2>4. ASSUME M!Start(t) PROVE EP!M!Start(t)
    BY <2>4, MandelbrotOperators DEF M!Start, EP!M!Start, M!shared, EP!M!shared
  <2>5. ASSUME M!Test(t) PROVE EP!M!Test(t)
    BY <2>5, MandelbrotOperators DEF M!Test, EP!M!Test, M!shared, EP!M!shared
  <2>6. ASSUME M!Body(t) PROVE EP!M!Body(t)
    BY <2>6, MandelbrotOperators DEF M!Body, EP!M!Body, M!shared, EP!M!shared
  <2>7. ASSUME M!Load(t) PROVE EP!M!Load(t)
    BY <2>7, MandelbrotOperators DEF M!Load, EP!M!Load, M!shared, EP!M!shared
  <2>8. ASSUME M!Store(t) PROVE EP!M!Store(t)
    BY <2>8, MandelbrotOperators DEF M!Store, EP!M!Store, M!shared, EP!M!shared
  <2>9. ASSUME M!Offset(t) PROVE EP!M!Offset(t)
    BY <2>9, MandelbrotOperators DEF M!Offset, EP!M!Offset, M!shared, EP!M!shared
  <2>10. ASSUME M!Write(t) PROVE EP!M!Write(t)
    BY <2>10, MandelbrotOperators DEF M!Write, EP!M!Write, M!shared, EP!M!shared
  <2>11. ASSUME M!Compare(t) PROVE EP!M!Compare(t)
    BY <2>11, MandelbrotOperators DEF M!Compare, EP!M!Compare, M!shared, EP!M!shared
  <2>12. ASSUME M!Sample(t) PROVE EP!M!Sample(t)
    BY <2>12, MandelbrotOperators DEF M!Sample, EP!M!Sample, M!shared, EP!M!shared
  <2> QED
    BY <1>1, <2>1, <2>2, <2>3, <2>4, <2>5, <2>6, <2>7, <2>8, <2>9, <2>10, <2>11, <2>12 DEF M!Thread, EP!M!Thread
<1>2. ASSUME UNCHANGED M!vars PROVE UNCHANGED EP!M!vars
  BY <1>2 DEF M!vars, EP!M!vars, M!shared, EP!M!shared, M!private, EP!M!private
<1> QED
  BY <1>1, <1>2, MandelbrotOperators DEF M!Next, EP!M!Next

(* The pictures fit the assumptions about sizes.                            *)
LEMMA MandelbrotFits == EP!MandelbrotAssumption
<1>1. \A r \in Jobs2 : /\ r.nthreads \in Nat \ {0} /\ r.xres \in Nat \ {0} /\ r.yres \in Nat \ {0}
                       /\ r.nthreads <= 2
  BY DEF Jobs2
<1>2. 2 \in Nat /\ 3 \in Nat \ {0} /\ \A c \in Nat, r \in Nat : EscapeAfter(c, r) \in Nat
  BY DEF EscapeAfter
<1> QED
  BY <1>1, <1>2 DEF EP!MandelbrotAssumption

(* They say the same of a picture and of the threads in it.                 *)
LEMMA MandelbrotSays ==
    (M!TakeTurns <=> EP!M!TakeTurns) /\ (M!Ended <=> EP!M!Ended) /\ (M!Drawn <=> EP!M!Drawn)
<1>1. \A t : M!InRow(t) <=> EP!M!InRow(t)
  BY DEF M!InRow, EP!M!InRow
<1>2. M!TakeTurns <=> EP!M!TakeTurns
  BY <1>1, MandelbrotOperators DEF M!TakeTurns, EP!M!TakeTurns
<1>3. M!Ended <=> EP!M!Ended
  BY MandelbrotOperators DEF M!Ended, EP!M!Ended
<1>4. M!Drawn <=> EP!M!Drawn
  BY MandelbrotOperators DEF M!Drawn, EP!M!Drawn
<1> QED
  BY <1>2, <1>3, <1>4

\* The invariants of the picture, and what they are about.
MandelbrotRight == program = "Mandelbrot" => EP!PictureInv
MandelbrotTurns == program = "Mandelbrot" => EP!TurnsInv
InTurns == program = "Mandelbrot" => M!TakeTurns

(* The picture is that of the definition in every run of MCPrograms, of one *)
(* thread or of several, in which no two threads are inside a row at once.  *)
THEOREM PictureAlwaysRight == Spec => PictureRight
<1>1. Init => MandelbrotRight /\ MandelbrotTurns
  <2>1. Init /\ program = "Mandelbrot" => M!Init
    BY DEF Init
  <2> QED
    BY <2>1, MandelbrotInit, MandelbrotFits, EP!PictureInit DEF MandelbrotRight, MandelbrotTurns
<1>2. ASSUME MandelbrotRight, [Next]_vars
      PROVE  MandelbrotRight' /\ (MandelbrotTurns /\ InTurns /\ InTurns' => MandelbrotTurns')
  <2>1. CASE program = "Mandelbrot"
    <3>1. program' = "Mandelbrot" /\ [EP!M!Next]_(EP!M!vars) /\ EP!PictureInv
      BY <1>2, <2>1, MandelbrotRuns, MandelbrotNext DEF MandelbrotRight
    <3>2. (EP!PictureInv)' /\ (EP!TurnsInv /\ EP!M!TakeTurns /\ (EP!M!TakeTurns)' => (EP!TurnsInv)')
      BY <3>1, MandelbrotFits, EP!PictureStep DEF EP!StepKeeps
    <3>3. InTurns /\ InTurns' => EP!M!TakeTurns /\ (EP!M!TakeTurns)'
      <4>1. M!TakeTurns <=> EP!M!TakeTurns
        BY MandelbrotSays
      <4>2. (M!TakeTurns)' <=> (EP!M!TakeTurns)'
        BY <4>1, MandelbrotSays, PTL
      <4> QED
        BY <2>1, <3>1, <4>1, <4>2 DEF InTurns
    <3> QED
      BY <2>1, <3>2, <3>3 DEF MandelbrotRight, MandelbrotTurns
  <2>2. CASE program # "Mandelbrot"
    BY <1>2, <2>2, MandelbrotLeft DEF MandelbrotRight, MandelbrotTurns
  <2> QED
    BY <2>1, <2>2
<1>3. ASSUME MandelbrotRight, MandelbrotTurns PROVE program = "Mandelbrot" /\ M!Ended => M!Drawn
  BY <1>3, MandelbrotFits, MandelbrotSays, EP!PictureEnds DEF MandelbrotRight, MandelbrotTurns
<1>4. MandelbrotRight /\ [Next]_vars => MandelbrotRight'
  BY <1>2
<1>5. MandelbrotRight /\ MandelbrotTurns /\ InTurns /\ InTurns' /\ [Next]_vars => MandelbrotTurns'
  BY <1>2
<1>6. MandelbrotRight /\ MandelbrotTurns => (program = "Mandelbrot" /\ M!Ended => M!Drawn)
  BY <1>3
<1> QED
  BY <1>1, <1>4, <1>5, <1>6, PTL DEF Spec, PictureRight, InTurns

----------------------------------------------------------------------------
(* CommandLine and HttpParser. *)

(* A step leaves the program that runs, and is one of its own.              *)
LEMMA CommandLineRuns ==
    ASSUME program = "CommandLine", [Next]_vars
    PROVE  program' = "CommandLine" /\ [C!Next]_(C!vars)
BY DEF Next, vars, RunsTiny, RunsPipeline, RunsDns, RunsOpenFd, RunsSockets, RunsSignals, RunsForkPipe,
   RunsMandelbrot, RunsCsapp, RunsCommandLine, RunsHttpParser, C!vars

(* So it does to HttpParser.                                                *)
LEMMA HttpParserRuns ==
    ASSUME program = "HttpParser", [Next]_vars
    PROVE  program' = "HttpParser" /\ [H!Next]_(H!vars)
BY DEF Next, vars, RunsTiny, RunsPipeline, RunsDns, RunsOpenFd, RunsSockets, RunsSignals, RunsForkPipe,
   RunsMandelbrot, RunsCsapp, RunsCommandLine, RunsHttpParser, H!vars, H!strings

(* Who runs another program does not come to them.                          *)
LEMMA CommandLineLeft ==
    ASSUME program # "CommandLine", [Next]_vars
    PROVE  program' # "CommandLine"
BY DEF Next, vars, RunsTiny, RunsPipeline, RunsDns, RunsOpenFd, RunsSockets, RunsSignals, RunsForkPipe,
   RunsMandelbrot, RunsCsapp, RunsCommandLine, RunsHttpParser

(* Nor to HttpParser.                                                       *)
LEMMA HttpParserLeft ==
    ASSUME program # "HttpParser", [Next]_vars
    PROVE  program' # "HttpParser"
BY DEF Next, vars, RunsTiny, RunsPipeline, RunsDns, RunsOpenFd, RunsSockets, RunsSignals, RunsForkPipe,
   RunsMandelbrot, RunsCsapp, RunsCommandLine, RunsHttpParser

\* What the loop of parseline adds to argv when buf points at k.
ArgOf(buf, k, args) ==
    LET start  == C!Skipped(buf, k)
        quoted == start <= Len(buf) /\ buf[start] = C!Quote
        from   == IF quoted THEN start + 1 ELSE start
        delims == {p \in from .. Len(buf) : buf[p] = IF quoted THEN C!Quote ELSE C!Space}
    IN  IF delims = {} THEN << >>
        ELSE <<SubSeq(buf, from, C!Min(delims) - 1)>> \o args[C!Min(delims) + 1]

(* The two instances of CommandLine are one.                                *)
LEMMA CommandLineOperators ==
    /\ \A s : C!Min(s) = EP!C!Min(s)
    /\ \A s : C!Typed(s) = EP!C!Typed(s)
    /\ \A w, g : C!LineOf(w, g) = EP!C!LineOf(w, g)
    /\ \A l : C!parseline(l) = EP!C!parseline(l)
    /\ \A w : C!Meant(w) = EP!C!Meant(w)
    /\ C!Newlines = EP!C!Newlines /\ C!Piece = EP!C!Piece
<1>1. \A s : C!Min(s) = EP!C!Min(s)
  BY DEF C!Min, EP!C!Min
<1>2. \A s, e : C!Contains(s, e) <=> EP!C!Contains(s, e)
  BY DEF C!Contains, EP!C!Contains
<1>3. \A s : C!FlattenSeq(s) = EP!C!FlattenSeq(s)
  BY DEF C!FlattenSeq, EP!C!FlattenSeq
<1>4. C!Space = EP!C!Space /\ C!Quote = EP!C!Quote /\ C!Newline = EP!C!Newline
  BY DEF C!Space, EP!C!Space, C!Quote, EP!C!Quote, C!Newline, EP!C!Newline
<1>5. \A s : C!Last(s) = EP!C!Last(s) /\ C!Front(s) = EP!C!Front(s)
  BY DEF C!Last, EP!C!Last, C!Front, EP!C!Front
<1>6. \A n : C!Spaces(n) = EP!C!Spaces(n)
  BY <1>4 DEF C!Spaces, EP!C!Spaces
<1>7. \A w : C!Spelled(w) = EP!C!Spelled(w)
  BY <1>2, <1>4 DEF C!Spelled, EP!C!Spelled
<1>8. \A w, g : C!LineOf(w, g) = EP!C!LineOf(w, g)
  BY <1>3, <1>4, <1>6, <1>7 DEF C!LineOf, EP!C!LineOf
<1>9. \A s : C!Typed(s) = EP!C!Typed(s)
  BY <1>3, <1>8 DEF C!Typed, EP!C!Typed
<1>10. \A l : C!parseline(l) = EP!C!parseline(l)
  <2> TAKE l
  <2> DEFINE buf == C!ReplaceAt(l, Len(l), C!Space)
             ebuf == EP!C!ReplaceAt(l, Len(l), EP!C!Space)
             Args(s) == CHOOSE f : f = [k \in 1 .. Len(s) + 1 |-> ArgOf(s, k, f)]
             EArgs(s) == CHOOSE f : f = [k \in 1 .. Len(s) + 1 |-> EP!ArgAt(s, k, f)]
  <2>1. buf = ebuf
    BY <1>4 DEF C!ReplaceAt, EP!C!ReplaceAt
  <2>2. \A s, k : C!Skipped(s, k) = EP!C!Skipped(s, k)
    BY <1>1, <1>4 DEF C!Skipped, EP!C!Skipped
  <2>3. \A s, k, f : ArgOf(s, k, f) = EP!ArgAt(s, k, f)
    <3> TAKE s, k, f
    <3> DEFINE start  == C!Skipped(s, k)
               quoted == start <= Len(s) /\ s[start] = C!Quote
               from   == IF quoted THEN start + 1 ELSE start
               delims == {p \in from .. Len(s) : s[p] = IF quoted THEN C!Quote ELSE C!Space}
    <3>1. start = EP!C!Skipped(s, k)
      BY <2>2
    <3>2. ArgOf(s, k, f) = IF delims = {} THEN << >>
                           ELSE <<SubSeq(s, from, C!Min(delims) - 1)>> \o f[C!Min(delims) + 1]
      BY DEF ArgOf
    <3> HIDE DEF start
    <3>3. quoted <=> EP!StartsQuoted(s, k)
      BY <1>4, <3>1 DEF EP!StartsQuoted
    <3> HIDE DEF quoted
    <3>4. from = EP!ArgFrom(s, k)
      BY <3>1, <3>3 DEF EP!ArgFrom
    <3> HIDE DEF from
    <3>5. delims = EP!Delims(s, k)
      BY <1>4, <3>3, <3>4, Zenon DEF EP!Delims
    <3> HIDE DEF delims
    <3>6. C!Min(delims) = EP!C!Min(EP!Delims(s, k))
      BY <1>1, <3>5
    <3> QED
      BY <3>2, <3>4, <3>5, <3>6, Zenon DEF EP!ArgAt
  <2>4. \A s : Args(s) = EArgs(s)
    BY <2>3
  <2>5. C!parseline(l) = EP!Answer(Args(buf)[1])
    BY DEF C!parseline, ArgOf, EP!Answer, C!Last, EP!Last, C!Front, EP!Front
  <2>6. EP!C!parseline(l) = EP!Answer(EArgs(ebuf)[1])
    BY DEF EP!C!parseline, EP!ArgAt, EP!Delims, EP!ArgFrom, EP!StartsQuoted, EP!Answer, EP!C!Last, EP!Last,
       EP!C!Front, EP!Front
  <2> HIDE DEF buf, ebuf, Args, EArgs
  <2> QED
    BY <2>1, <2>4, <2>5, <2>6
<1>11. \A w : C!Meant(w) = EP!C!Meant(w)
  BY <1>5 DEF C!Meant, EP!C!Meant
<1>12. C!Newlines = EP!C!Newlines
  BY <1>4 DEF C!Newlines, EP!C!Newlines
<1>13. C!Piece = EP!C!Piece
  BY <1>1, <1>12 DEF C!Piece, EP!C!Piece
<1> QED
  BY <1>1, <1>8, <1>9, <1>10, <1>11, <1>12, <1>13

(* They have one initial predicate.                                         *)
LEMMA CommandLineInit == ASSUME C!Init PROVE EP!C!Init
BY CommandLineOperators DEF C!Init, EP!C!Init

(* Those of HttpParser have one as well.                                    *)
LEMMA HttpParserInit == ASSUME H!Init PROVE EP!H!Init
BY DEF H!Init, EP!H!Init

(* Every step of the one is a step of the other.                            *)
LEMMA CommandLineNext == ASSUME [C!Next]_(C!vars) PROVE [EP!C!Next]_(EP!C!vars)
<1>1. ASSUME C!Option PROVE EP!C!Option
  BY <1>1 DEF C!Option, EP!C!Option
<1>2. ASSUME C!OptionsDone PROVE EP!C!OptionsDone
  BY <1>2 DEF C!OptionsDone, EP!C!OptionsDone
<1>3. ASSUME C!Prompt PROVE EP!C!Prompt
  BY <1>3 DEF C!Prompt, EP!C!Prompt
<1>4. ASSUME C!ReadLine PROVE EP!C!ReadLine
  BY <1>4, CommandLineOperators DEF C!ReadLine, EP!C!ReadLine
<1>5. ASSUME C!ReadFails PROVE EP!C!ReadFails
  BY <1>5 DEF C!ReadFails, EP!C!ReadFails
<1>6. ASSUME C!Eval PROVE EP!C!Eval
  BY <1>6, CommandLineOperators DEF C!Eval, EP!C!Eval
<1>7. ASSUME UNCHANGED C!vars PROVE UNCHANGED EP!C!vars
  BY <1>7 DEF C!vars, EP!C!vars
<1> QED
  BY <1>1, <1>2, <1>3, <1>4, <1>5, <1>6, <1>7 DEF C!Next, EP!C!Next

(* So it is for HttpParser.                                                 *)
LEMMA HttpParserNext == ASSUME [H!Next]_(H!vars) PROVE [EP!H!Next]_(EP!H!vars)
BY DEF H!Next, EP!H!Next, H!vars, EP!H!vars, H!strings, EP!H!strings, H!Incomplete, EP!H!Incomplete,
   H!is_complete_request, EP!H!is_complete_request, H!parse_request, EP!H!parse_request, H!PortOf, EP!H!PortOf

(* The words are words as they can be typed.                                *)
LEMMA WordsFit == \A w \in Words \cup {Long, <<"b">>} : EP!Writable(w)
<1> DEFINE a == "a"
           b == "b"
           c == "c"
           amp == "&"
           quote == "'"
           space == " "
<1>1. /\ {a, b, c, amp, quote, space} \subseteq EP!Text /\ EP!C!Space = space /\ EP!C!Quote = quote
  BY Zenon DEF EP!Text, EP!C!Newline, EP!C!Space, EP!C!Quote
<1>2. /\ a # space /\ b # space /\ c # space /\ amp # space /\ quote # space
      /\ a # quote /\ b # quote /\ amp # quote
  BY Zenon
<1>3. Words = {<<a>>, <<b, quote, c>>, <<a, space, b>>, << >>, <<amp>>, <<amp, a>>}
  BY Zenon DEF Words
<1>4. Long = EP!Row(a, 14)
  BY DEF Long, EP!Row
<1> HIDE DEF a, b, c, amp, quote, space
<1>5. /\ EP!Writable(<<a>>) /\ EP!Writable(<<b>>) /\ EP!Writable(<<amp>>) /\ EP!Writable(<<amp, a>>)
      /\ EP!Writable(<<b, quote, c>>) /\ EP!Writable(<< >>) /\ EP!Writable(<<a, space, b>>)
  BY <1>1, <1>2, EP!WritableWords
<1>6. EP!Writable(Long)
  <2>1. 14 \in Nat \ {0} /\ a \in EP!Text /\ a # EP!C!Space /\ a # EP!C!Quote
    BY <1>1, <1>2
  <2> QED
    BY <1>4, <2>1, EP!WritableRow
<1>7. \A w \in Words \cup {Long, <<b>>} : EP!Writable(w)
  BY <1>3, <1>5, <1>6
<1> QED
  BY <1>7 DEF b

\* What the assumption says of one of them.
TypedAsLines(s) ==
    /\ Len(s.words) \in Nat /\ s.rest \in Seq(EP!Text)
    /\ \A k \in 1 .. Len(s.words) : EP!Line(s.words[k], s.gaps[k])

(* A command line of one line is one.                                       *)
LEMMA OneLineFits ==
    ASSUME NEW words, NEW gaps, EP!Line(words, gaps)
    PROVE  TypedAsLines(OneLine(words, gaps))
<1>1. /\ OneLine(words, gaps).words = <<words>> /\ OneLine(words, gaps).gaps = <<gaps>>
      /\ OneLine(words, gaps).rest = << >>
  BY DEF OneLine, Plain
<1>2. Len(<<words>>) = 1 /\ <<words>>[1] = words /\ <<gaps>>[1] = gaps /\ << >> \in Seq(EP!Text)
  OBVIOUS
<1> QED
  BY <1>1, <1>2 DEF TypedAsLines

(* All that is typed are such lines, and what is left over is text.         *)
LEMMA TypingsFit == EP!TypingAssumption
<1>1. ASSUME NEW s \in Typings PROVE TypedAsLines(s)
  <2>1. CASE s \in {OneLine(<< >>, <<n>>) : n \in {0, 2}}
    <3>1. PICK n \in {0, 2} : s = OneLine(<< >>, <<n>>)
      BY <2>1
    <3>2. EP!Writable(<<"b">>) /\ n \in Nat
      BY WordsFit
    <3>3. EP!Line(<< >>, <<n>>)
      BY <3>2, EP!ShortLines
    <3> QED
      BY <3>1, <3>3, OneLineFits
  <2>2. CASE s \in {OneLine(<<w>>, <<n, m>>) : w \in Words, n \in {0, 2}, m \in {0, 1}}
    <3>1. PICK w \in Words, n \in {0, 2}, m \in {0, 1} : s = OneLine(<<w>>, <<n, m>>)
      BY <2>2
    <3>2. EP!Writable(w) /\ n \in Nat /\ m \in Nat
      BY WordsFit
    <3>3. EP!Line(<<w>>, <<n, m>>)
      BY <3>2, EP!ShortLines
    <3> QED
      BY <3>1, <3>3, OneLineFits
  <2>3. CASE s \in {OneLine(pair, <<0, n, m>>) : pair \in Words \X Words, n \in {1, 2}, m \in {0, 1}}
    <3>1. PICK pair \in Words \X Words, n \in {1, 2}, m \in {0, 1} : s = OneLine(pair, <<0, n, m>>)
      BY <2>3
    <3>2. n \in Nat /\ m \in Nat /\ n > 0 /\ 0 \in Nat
      OBVIOUS
    <3>3. PICK w \in Words, u \in Words : pair = <<w, u>>
      OBVIOUS
    <3>4. EP!Writable(w) /\ EP!Writable(u)
      BY WordsFit
    <3>5. EP!Line(<<w, u>>, <<0, n, m>>)
      BY <3>2, <3>4, EP!ShortLines, Zenon
    <3> QED
      BY <3>1, <3>3, <3>5, OneLineFits, Zenon
  <2>4. CASE s \in {[Plain EXCEPT !.words = <<<<<<"a">>, <<"&">>>>, <<<<"b">>>>>>, !.gaps = <<<<0, 1, 1>>, <<1, 0>>>>,
                                   !.rest = rest] : rest \in {<< >>, <<"c">>, Long}}
    <3> DEFINE p == <<<<"a">>, <<"&">>>>
               q == <<<<"b">>>>
               g == <<0, 1, 1>>
               h == <<1, 0>>
    <3>1. PICK rest \in {<< >>, <<"c">>, Long} : s = [Plain EXCEPT !.words = <<p, q>>, !.gaps = <<g, h>>, !.rest = rest]
      BY <2>4
    <3>2. EP!Writable(<<"a">>) /\ EP!Writable(<<"&">>) /\ EP!Writable(<<"b">>) /\ EP!Writable(Long)
      <4>1. <<"a">> \in Words /\ <<"&">> \in Words
        BY Zenon DEF Words
      <4> QED
        BY <4>1, WordsFit, Zenon
    <3>3. EP!Line(p, g)
      <4>1. 0 \in Nat /\ 1 \in Nat /\ 1 > 0
        OBVIOUS
      <4> QED
        BY <3>2, <4>1, EP!ShortLines, Zenon
    <3>4. EP!Line(q, h)
      <4>1. \A w : EP!Writable(w) => EP!Line(<<w>>, <<1, 0>>)
        BY EP!ShortLines
      <4> QED
        BY <3>2, <4>1, Zenon
    <3>5. Len(<<p, q>>) = 2 /\ <<p, q>>[1] = p /\ <<p, q>>[2] = q /\ <<g, h>>[1] = g /\ <<g, h>>[2] = h
      OBVIOUS
    <3>6. rest \in Seq(EP!Text)
      <4> DEFINE c == "c"
      <4>1. c \in EP!Text
        BY Zenon DEF EP!Text, EP!C!Newline
      <4>2. Long \in Seq(EP!Text)
        BY <3>2, Zenon DEF EP!Writable
      <4> HIDE DEF c
      <4>3. <<c>> \in Seq(EP!Text) /\ << >> \in Seq(EP!Text)
        BY <4>1
      <4>4. rest = << >> \/ rest = <<c>> \/ rest = Long
        BY <3>1, Zenon DEF c
      <4> QED
        BY <4>2, <4>3, <4>4, Zenon
    <3> HIDE DEF p, q, g, h
    <3>7. s.words = <<p, q>> /\ s.gaps = <<g, h>> /\ s.rest = rest
      BY <3>1 DEF Plain
    <3> QED
      BY <3>3, <3>4, <3>5, <3>6, <3>7 DEF TypedAsLines
  <2>5. CASE s \in {OneLine(<<Long>>, <<0, 0>>)}
    <3>1. EP!Line(<<Long>>, <<0, 0>>)
      BY WordsFit, EP!ShortLines
    <3> QED
      BY <2>5, <3>1, OneLineFits
  <2>6. CASE s \in {[Plain EXCEPT !.options = o] : o \in {<< >>, <<"v", "p">>, <<"v", "h">>, <<"x">>}}
    <3>1. s.words = << >> /\ s.rest = << >>
      BY <2>6 DEF Plain
    <3> QED
      BY <3>1 DEF TypedAsLines
  <2> QED
    BY <2>1, <2>2, <2>3, <2>4, <2>5, <2>6 DEF Typings
<1>2. EP!TextHasBoth
  BY DEF EP!TextHasBoth, EP!C!Space, EP!C!Quote, EP!C!Newline
<1> QED
  BY <1>1, <1>2 DEF EP!TypingAssumption, TypedAsLines

(* The requests are requests.                                               *)
LEMMA RequestsFit == EP!RequestsAssumption
<1> DEFINE R == HttpRequests({TRUE}, "h", "p") \cup HttpRequests(BOOLEAN, "i", "q")
<1>1. ASSUME NEW s \in HttpInputs PROVE s \in Seq(R)
  <2>1. PICK r \in HttpRequests({TRUE}, "h", "p"), u \in HttpRequests(BOOLEAN, "i", "q") : s = <<r, u>>
    BY DEF HttpInputs
  <2> HIDE DEF R
  <2>2. r \in R /\ u \in R
    BY DEF R
  <2> QED
    BY <2>1, <2>2
<1> QED
  BY <1>1 DEF EP!RequestsAssumption

(* While they run, their invariants hold.                                   *)
ParsersRight ==
    /\ program = "CommandLine" => EP!LinesInv
    /\ program = "HttpParser" => EP!RequestInv

(* So they do in every run.                                                 *)
LEMMA ParsersRightAlways == Spec => []ParsersRight
<1>1. Init => ParsersRight
  <2>1. Init /\ program = "CommandLine" => C!Init
    BY DEF Init
  <2>2. Init /\ program = "HttpParser" => H!Init
    BY DEF Init
  <2>3. Init /\ program = "CommandLine" => EP!LinesInv
    BY <2>1, CommandLineInit, TypingsFit, EP!LinesStart
  <2>4. Init /\ program = "HttpParser" => EP!RequestInv
    BY <2>2, HttpParserInit, RequestsFit, EP!RequestsStart
  <2> QED
    BY <2>3, <2>4 DEF ParsersRight
<1>2. ParsersRight /\ [Next]_vars => ParsersRight'
  <2> SUFFICES ASSUME ParsersRight, [Next]_vars PROVE ParsersRight'
    OBVIOUS
  <2>1. program' = "CommandLine" => (EP!LinesInv)'
    <3> SUFFICES ASSUME program = "CommandLine" PROVE (EP!LinesInv)'
      BY CommandLineLeft
    <3>1. [EP!C!Next]_(EP!C!vars) /\ EP!LinesInv
      BY CommandLineRuns, CommandLineNext DEF ParsersRight
    <3> QED
      BY <3>1, TypingsFit, EP!LinesStep
  <2>2. program' = "HttpParser" => (EP!RequestInv)'
    <3> SUFFICES ASSUME program = "HttpParser" PROVE (EP!RequestInv)'
      BY HttpParserLeft
    <3>1. [EP!H!Next]_(EP!H!vars) /\ EP!RequestInv
      BY HttpParserRuns, HttpParserNext DEF ParsersRight
    <3> QED
      BY <3>1, EP!RequestStep
  <2> QED
    BY <2>1, <2>2 DEF ParsersRight
<1> QED
  BY <1>1, <1>2, PTL DEF Spec

(* What tsh evaluates is what the lines mean, and what http_parser.c gives  *)
(* back belongs to the request at hand, in every run of MCPrograms.         *)
THEOREM ParsedAsMeant == Spec => []ParsedRight
<1>1. ParsersRight => ParsedRight
  <2>1. ASSUME EP!LinesInv PROVE C!LinesMeant
    <3>1. EP!C!LinesMeant
      BY <2>1, EP!InvMeant
    <3> QED
      BY <3>1, CommandLineOperators DEF C!LinesMeant, EP!C!LinesMeant
  <2>2. ASSUME EP!RequestInv PROVE H!StringsOwn
    BY <2>2 DEF EP!RequestInv, H!StringsOwn, EP!H!StringsOwn
  <2> QED
    BY <2>1, <2>2 DEF ParsersRight, ParsedRight
<1> QED
  BY <1>1, ParsersRightAlways, PTL
=============================================================================
