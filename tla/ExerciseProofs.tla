---------------------------- MODULE ExerciseProofs ----------------------------
(***************************************************************************)
(* Proofs about the small programs: the pipeline shell, for any sessions,  *)
(* programs, files and sizes of pipes; the parallel loop of mandelbrot.c,  *)
(* for any pictures and numbers of threads; the TCP client with its peers, *)
(* for any inputs, answers and sizes of buffers; the walk over addresses   *)
(* and the reading loops of csapp.c, for any answers of the calls they     *)
(* make; the parser of requests, for any requests; and parseline of the    *)
(* job-control shell, for any lines of words, however they are spaced.     *)
(***************************************************************************)
EXTENDS Pipeline, Lemmas

----------------------------------------------------------------------------
(* How many commands parseargs finds. *)

\* What it starts from, and what it does to an argument: the parts of parseargs.
Nothing == [want |-> "cmd", cmds |-> << >>, in |-> << >>, out |-> << >>]
OpenedAt(s, k) == [want |-> "", cmds |-> Append(s.cmds, k), in |-> Append(s.in, 0), out |-> Append(s.out, 0)]
OperatorOf(t) == CASE t = "<" -> "in" [] t = ">" -> "out" [] t = "|" -> "cmd" [] OTHER -> ""
AfterArg(args, s, k) ==
    CASE s.want = "cmd" -> OpenedAt(s, k)
      [] s.want = "in"  -> [s EXCEPT !.want = "", !.in[Len(s.cmds)] = k]
      [] s.want = "out" -> [s EXCEPT !.want = "", !.out[Len(s.cmds)] = k]
      [] s.want = ""    -> [s EXCEPT !.want = OperatorOf(args[k])]

\* f is what the recursion of parseargs defines, up to n arguments.
Parses(args, n, f) ==
    f = [k \in 0 .. n |-> IF k = 0 THEN Nothing ELSE AfterArg(args, f[k - 1], k)]

(* There is such a function for any number of arguments.                    *)
LEMMA ParsesExist ==
    ASSUME NEW args, NEW n \in Nat
    PROVE  \E f : Parses(args, n, f)
<1> DEFINE Bad == {m \in Nat : ~ \E f : Parses(args, m, f)}
<1>1. SUFFICES ASSUME Bad # {} PROVE FALSE
  OBVIOUS
<1> DEFINE m == Min(Bad)
<1>2. m \in Bad /\ \A l \in Bad : m <= l
  BY <1>1, MinOfNats
<1> HIDE DEF m
<1>3. CASE m = 0
  <2>1. Parses(args, 0, [k \in 0 .. 0 |-> Nothing])
    BY DEF Parses
  <2> QED
    BY <1>2, <1>3, <2>1
<1>4. CASE m # 0
  <2>1. m \in Nat \ {0} /\ m - 1 \in Nat /\ m - 1 \notin Bad
    BY <1>2, <1>4
  <2>2. PICK f : Parses(args, m - 1, f)
    BY <2>1
  <2> DEFINE g == [k \in 0 .. m |-> IF k = m THEN AfterArg(args, f[m - 1], m) ELSE f[k]]
  <2>3. g = [k \in 0 .. m |-> IF k = 0 THEN Nothing ELSE AfterArg(args, g[k - 1], k)]
    <3>1. ASSUME NEW k \in 0 .. m
          PROVE  g[k] = IF k = 0 THEN Nothing ELSE AfterArg(args, g[k - 1], k)
      <4>1. CASE k = m
        <5>1. m - 1 \in 0 .. m /\ m - 1 # m
          BY <2>1
        <5>2. g[k] = AfterArg(args, f[m - 1], m) /\ g[m - 1] = f[m - 1]
          BY <4>1, <5>1
        <5> QED
          BY <1>4, <4>1, <5>2
      <4>2. CASE k # m
        <5>1. k \in 0 .. m - 1 /\ g[k] = f[k]
          BY <2>1, <4>2
        <5>2. f[k] = IF k = 0 THEN Nothing ELSE AfterArg(args, f[k - 1], k)
          BY <2>2, <5>1 DEF Parses
        <5>3. k # 0 => k - 1 \in 0 .. m /\ k - 1 # m /\ g[k - 1] = f[k - 1]
          BY <2>1, <5>1
        <5> HIDE DEF g
        <5> QED
          BY <5>1, <5>2, <5>3
      <4> QED
        BY <4>1, <4>2
    <3>2. g = [k \in 0 .. m |-> g[k]]
      OBVIOUS
    <3> HIDE DEF g
    <3> QED
      BY <3>1, <3>2
  <2>4. Parses(args, m, g)
    BY <2>3 DEF Parses
  <2> QED
    BY <1>2, <2>4
<1> QED
  BY <1>3, <1>4

(* So parseargs is the last value of one.                                   *)
LEMMA ParseargsIs ==
    ASSUME NEW args, Len(args) \in Nat
    PROVE  \E f : Parses(args, Len(args), f) /\ parseargs(args) = f[Len(args)]
<1> DEFINE f == CHOOSE g : Parses(args, Len(args), g)
<1>1. Parses(args, Len(args), f)
  BY ParsesExist
<1>2. parseargs(args) = f[Len(args)]
  BY DEF parseargs, Parses, AfterArg, OpenedAt, OperatorOf, Nothing
<1> QED
  BY <1>1, <1>2

\* The bars among the first k arguments.
Bars(args, k) == {j \in 1 .. k : args[j] = "|"}

\* What parseargs has after k arguments: at most one command more than bars,
\* and a command less where a bar awaits it.
Awaited(s) == IF s.want = "cmd" THEN 1 ELSE 0
Counted(args, k, s) ==
    /\ DOMAIN s = {"want", "cmds", "in", "out"}
    /\ s.want \in {"cmd", "in", "out", ""} /\ s.cmds \in Seq(Nat)
    /\ Len(s.cmds) + Awaited(s) <= 1 + Cardinality(Bars(args, k))

(* The number of bars.                                                      *)
LEMMA BarsCounted ==
    ASSUME NEW args, NEW k \in Nat
    PROVE  /\ Cardinality(Bars(args, k)) \in Nat
           /\ k # 0 => /\ Cardinality(Bars(args, k - 1)) \in Nat
                       /\ Cardinality(Bars(args, k - 1)) <= Cardinality(Bars(args, k))
                       /\ args[k] = "|" => Cardinality(Bars(args, k)) = Cardinality(Bars(args, k - 1)) + 1
<1>1. ASSUME NEW m \in Nat PROVE IsFiniteSet(Bars(args, m)) /\ Cardinality(Bars(args, m)) \in Nat
  <2>1. 1 \in Int /\ m \in Int
    OBVIOUS
  <2>2. IsFiniteSet(1 .. m)
    BY <2>1, FS_Interval
  <2>3. Bars(args, m) \subseteq 1 .. m
    BY DEF Bars
  <2> QED
    BY <2>2, <2>3, FS_Subset, FS_CardinalityType
<1>2. CASE k # 0
  <2>1. /\ k - 1 \in Nat /\ 1 .. k = (1 .. k - 1) \cup {k} /\ k \notin Bars(args, k - 1)
        /\ IsFiniteSet(Bars(args, k - 1)) /\ Cardinality(Bars(args, k - 1)) \in Nat
    BY <1>1, <1>2 DEF Bars
  <2>2. CASE args[k] = "|"
    <3>1. Bars(args, k) = Bars(args, k - 1) \cup {k}
      BY <2>1, <2>2 DEF Bars
    <3>2. Cardinality(Bars(args, k)) = Cardinality(Bars(args, k - 1)) + 1
      BY <2>1, <3>1, FS_AddElement
    <3> QED
      BY <1>1, <2>1, <3>2
  <2>3. CASE args[k] # "|"
    <3>1. Bars(args, k) = Bars(args, k - 1)
      BY <2>1, <2>3 DEF Bars
    <3> QED
      BY <1>1, <2>1, <2>3, <3>1
  <2> QED
    BY <2>2, <2>3
<1> QED
  BY <1>1, <1>2

(* One argument more.                                                       *)
LEMMA OneArgument ==
    ASSUME NEW args, NEW k \in Nat \ {0}, NEW s, Counted(args, k - 1, s)
    PROVE  Counted(args, k, AfterArg(args, s, k))
<1> DEFINE b == Cardinality(Bars(args, k - 1))
           c == Cardinality(Bars(args, k))
           t == AfterArg(args, s, k)
           q == s.cmds
<1>1. b \in Nat /\ c \in Nat /\ b <= c /\ (args[k] = "|" => c = b + 1)
  BY BarsCounted
<1>2. /\ DOMAIN s = {"want", "cmds", "in", "out"}
      /\ s.want \in {"cmd", "in", "out", ""} /\ q \in Seq(Nat) /\ Len(q) + Awaited(s) <= 1 + b
  BY DEF Counted
<1> HIDE DEF b, c, q
<1>3. /\ Len(q) \in Nat /\ b \in Nat /\ c \in Nat /\ b <= c
      /\ Len(q) + Awaited(s) <= 1 + b
  BY <1>1, <1>2, LenProperties
<1>4. ASSUME DOMAIN t = {"want", "cmds", "in", "out"}, t.want \in {"cmd", "in", "out", ""},
             t.cmds \in Seq(Nat), Len(t.cmds) + Awaited(t) <= 1 + c
      PROVE  Counted(args, k, t)
  BY <1>4 DEF Counted, c
<1>5. CASE s.want = "cmd"
  <2>1. t = [want |-> "", cmds |-> Append(q, k), in |-> Append(s.in, 0), out |-> Append(s.out, 0)]
    BY <1>5 DEF AfterArg, OpenedAt, q
  <2>2. Append(q, k) \in Seq(Nat) /\ Len(Append(q, k)) = Len(q) + 1
    BY <1>2, AppendProperties
  <2> HIDE DEF t
  <2>3. DOMAIN t = {"want", "cmds", "in", "out"} /\ t.want = "" /\ t.cmds = Append(q, k)
    BY <2>1
  <2>4. Awaited(s) = 1 /\ Awaited(t) = 0
    BY <1>5, <2>3 DEF Awaited
  <2>5. Len(t.cmds) = Len(q) + 1
    BY <2>2, <2>3
  <2>6. Len(t.cmds) + Awaited(t) <= 1 + c
    BY <1>3, <2>4, <2>5
  <2> QED
    BY <1>4, <2>2, <2>3, <2>6 DEF t
<1>6. CASE s.want \in {"in", "out"}
  <2>1. t = [s EXCEPT !.want = "", !.in[Len(s.cmds)] = k] \/ t = [s EXCEPT !.want = "", !.out[Len(s.cmds)] = k]
    BY <1>6 DEF AfterArg
  <2> HIDE DEF t
  <2>2. DOMAIN t = {"want", "cmds", "in", "out"} /\ t.want = "" /\ t.cmds = q
    BY <1>2, <2>1 DEF q
  <2>3. Awaited(s) = 0 /\ Awaited(t) = 0
    BY <1>6, <2>2 DEF Awaited
  <2>4. Len(t.cmds) = Len(q)
    BY <2>2
  <2>5. Len(t.cmds) + Awaited(t) <= 1 + c
    BY <1>3, <2>3, <2>4
  <2> QED
    BY <1>2, <1>4, <2>2, <2>5 DEF t
<1>7. CASE s.want = ""
  <2>1. t = [s EXCEPT !.want = OperatorOf(args[k])]
    BY <1>7 DEF AfterArg
  <2> HIDE DEF t
  <2>2. DOMAIN t = {"want", "cmds", "in", "out"} /\ t.want = OperatorOf(args[k]) /\ t.cmds = q
    BY <1>2, <2>1 DEF q
  <2>3. OperatorOf(args[k]) \in {"cmd", "in", "out", ""} /\ (OperatorOf(args[k]) = "cmd" => args[k] = "|")
    BY DEF OperatorOf
  <2>4. Awaited(s) = 0 /\ (Awaited(t) = 0 \/ (Awaited(t) = 1 /\ c = b + 1))
    BY <1>1, <1>7, <2>2, <2>3 DEF Awaited
  <2>5. Len(t.cmds) = Len(q)
    BY <2>2
  <2>6. Len(t.cmds) + Awaited(t) <= 1 + c
    BY <1>3, <2>4, <2>5
  <2> QED
    BY <1>2, <1>4, <2>2, <2>3, <2>6 DEF t
<1> QED
  BY <1>2, <1>5, <1>6, <1>7

(* A line has at most one command more than bars.                           *)
LEMMA CommandsAndBars ==
    ASSUME NEW args, Len(args) \in Nat
    PROVE  /\ Len(parseargs(args).cmds) \in Nat
           /\ Len(parseargs(args).cmds) <= 1 + Cardinality(Bars(args, Len(args)))
<1> DEFINE n == Len(args)
<1>1. PICK f : Parses(args, n, f) /\ parseargs(args) = f[n]
  BY ParseargsIs
<1> HIDE DEF n
<1>2. n \in Nat
  BY DEF n
<1>3. \A k \in 0 .. n : Counted(args, k, f[k])
  <2> DEFINE Bad == {k \in 0 .. n : ~ Counted(args, k, f[k])}
  <2> SUFFICES ASSUME Bad # {} PROVE FALSE
    OBVIOUS
  <2>1. Bad \subseteq Nat
    BY <1>2
  <2> DEFINE m == Min(Bad)
  <2>2. m \in Bad /\ \A l \in Bad : m <= l
    BY <2>1, MinOfNats
  <2> HIDE DEF m
  <2>3. m \in 0 .. n /\ ~ Counted(args, m, f[m])
    BY <2>2
  <2>4. CASE m = 0
    <3>1. f[0] = Nothing
      BY <1>1, <2>3, <2>4 DEF Parses
    <3>2. Bars(args, 0) = {} /\ Cardinality({}) = 0 /\ << >> \in Seq(Nat) /\ Len(<< >>) = 0
      BY FS_EmptySet DEF Bars
    <3>3. /\ DOMAIN Nothing = {"want", "cmds", "in", "out"} /\ Nothing.want = "cmd"
          /\ Nothing.cmds = << >> /\ Awaited(Nothing) = 1
      BY DEF Nothing, Awaited
    <3>4. Len(Nothing.cmds) + Awaited(Nothing) <= 1 + Cardinality(Bars(args, 0))
      <4>1. Len(Nothing.cmds) = 0 /\ Awaited(Nothing) = 1 /\ Cardinality(Bars(args, 0)) = 0
        BY <3>2, <3>3
      <4> QED
        BY <4>1
    <3>5. Counted(args, 0, Nothing)
      BY <3>2, <3>3, <3>4 DEF Counted
    <3> QED
      BY <2>3, <2>4, <3>1, <3>5
  <2>5. CASE m # 0
    <3>1. m \in Nat \ {0} /\ m - 1 \in 0 .. n /\ ~ m <= m - 1
      BY <1>2, <2>3, <2>5
    <3>2. Counted(args, m - 1, f[m - 1])
      BY <2>2, <3>1
    <3>3. f[m] = AfterArg(args, f[m - 1], m)
      BY <1>1, <2>3, <2>5 DEF Parses
    <3> QED
      BY <2>3, <3>1, <3>2, <3>3, OneArgument
  <2> QED
    BY <2>4, <2>5
<1>4. Counted(args, n, f[n])
  BY <1>2, <1>3
<1>5. Len(f[n].cmds) \in Nat
  BY <1>4, LenProperties DEF Counted
<1>6. Cardinality(Bars(args, n)) \in Nat
  BY <1>2, BarsCounted
<1>7. Len(f[n].cmds) <= 1 + Cardinality(Bars(args, n))
  <2>1. Awaited(f[n]) \in {0, 1} /\ Len(f[n].cmds) + Awaited(f[n]) <= 1 + Cardinality(Bars(args, n))
    BY <1>4 DEF Counted, Awaited
  <2> QED
    BY <1>5, <1>6, <2>1
<1> QED
  BY <1>1, <1>5, <1>7 DEF n

----------------------------------------------------------------------------
(* The invariant. *)

Statuses == {"none", "in", "out", "dup", "close", "exec", "runs", "zombie", "failed"}

\* The lines that may be read: their commands have places, as in tsh.c, where
\* MAXARGS bounds the arguments of a line and the commands that eval has room for.
SessionLines == UNION {{s[k] : k \in DOMAIN s} : s \in Sessions}
PipelineAssumption ==
    /\ MaxCmds \in Nat \ {0}
    /\ \A s \in Sessions : s \in Seq(SessionLines)
    /\ \A line \in SessionLines :
          Len(line) \in Nat /\ Cardinality(Bars(line, Len(line))) < MaxCmds

CmdsFit(p) == Len(p.cmds) \in 0 .. MaxCmds

ShellTypes ==
    /\ sh \in {"prompt", "fork", "setpgid", "close", "wait", "exited", "died"}
    /\ i \in Children /\ todo \in Seq(SessionLines)
    /\ sh \in {"fork", "setpgid", "close", "wait"} => CmdsFit(parsed)

ChildTypes ==
    /\ at \in [Children -> Statuses]
    /\ ends \in [Procs -> SUBSET (Pipes \X {"read", "write"})]
    /\ DOMAIN in = Children /\ DOMAIN out = Children

\* The child eval forks last: it forks one even for a line without commands.
LastForked == IF NumCmds > 1 THEN NumCmds ELSE 1

\* What the shell holds, and which of its children are there.
Forked ==
    /\ sh \in {"prompt", "exited", "died", "wait"} => ends[0] = {}
    /\ sh \in {"prompt", "exited"} => \A c \in Children : at[c] = "none"
    /\ sh \in {"fork", "setpgid", "wait"} => i <= LastForked
    /\ sh = "fork"    => \A c \in Children : c >= i => at[c] = "none"
    /\ sh = "setpgid" => \A c \in Children : c > i => at[c] = "none"
    /\ sh = "close"   => i = 1
    /\ sh \in {"close", "wait"} => \A c \in Children : c > LastForked => at[c] = "none"
    /\ sh = "wait"    => \A c \in Children : c < i => at[c] = "none"

\* What a child holds.
Held(c) ==
    /\ at[c] \in {"none", "exec", "runs", "zombie", "failed"} => ends[c] = {}
    /\ at[c] \in {"none", "zombie", "failed"} => in[c] = Tty /\ out[c] = Tty

PipelineInv == ShellTypes /\ ChildTypes /\ Forked /\ \A c \in Children : Held(c)

----------------------------------------------------------------------------
(* The shell's steps. *)

(* Every line that is read has places for its commands.                     *)
LEMMA LinesFit ==
    ASSUME PipelineAssumption, NEW line \in SessionLines
    PROVE  CmdsFit(parseargs(line))
<1>1. /\ Len(line) \in Nat /\ MaxCmds \in Nat
      /\ Cardinality(Bars(line, Len(line))) < MaxCmds /\ Cardinality(Bars(line, Len(line))) \in Nat
  BY BarsCounted DEF PipelineAssumption
<1>2. /\ Len(parseargs(line).cmds) \in Nat
      /\ Len(parseargs(line).cmds) <= 1 + Cardinality(Bars(line, Len(line)))
  BY <1>1, CommandsAndBars
<1> QED
  BY <1>1, <1>2 DEF CmdsFit

(* At first there is no child and no pipe.                                  *)
LEMMA InvInit == ASSUME PipelineAssumption, Init PROVE PipelineInv
<1>1. MaxCmds \in Nat \ {0} /\ todo \in Seq(SessionLines)
  BY DEF PipelineAssumption, Init
<1>2. ShellTypes
  BY <1>1 DEF Init, ShellTypes, Children
<1>3. ChildTypes
  BY DEF Init, ChildTypes, Statuses
<1>4. Forked /\ \A c \in Children : Held(c)
  <2>1. 0 \in Procs /\ Children \subseteq Procs
    BY <1>1 DEF Procs, Children
  <2> QED
    BY <2>1 DEF Init, Forked, Held
<1> QED
  BY <1>2, <1>3, <1>4 DEF PipelineInv

(* A step of the shell that leaves the children alone, and its own ends as  *)
(* they are or closed, leaves what the children hold.                       *)
LEMMA HeldStays ==
    ASSUME ChildTypes, NEW c \in Children, Held(c), 0 \notin Children,
           at' = at \/ (at'[c] = "none" /\ at[c] \in {"zombie", "failed"}),
           UNCHANGED <<in, out>>, ends'[c] = ends[c]
    PROVE  Held(c)'
BY DEF Held

(* Reading a line: the pipes are made, or nothing happens.                  *)
LEMMA ReadLineKeeps ==
    ASSUME PipelineAssumption, PipelineInv, ReadLine
    PROVE  PipelineInv'
<1>1. /\ sh = "prompt" /\ todo # << >> /\ todo' = Tail(todo)
      /\ parsed' = parseargs(Head(todo)) /\ i' = 1 /\ UNCHANGED <<at, in, out>>
      /\ \/ sh' \in {"prompt", "exited"} /\ ends' = ends
         \/ /\ sh' = "fork"
            /\ ends' = [ends EXCEPT ![0] = (1 .. Len(parsed'.cmds) - 1) \X {"read", "write"}]
  BY DEF ReadLine
<1>2. /\ ShellTypes /\ ChildTypes /\ Forked /\ \A c \in Children : Held(c)
      /\ MaxCmds \in Nat \ {0}
  BY DEF PipelineInv, PipelineAssumption
<1>3. todo' \in Seq(SessionLines) /\ Head(todo) \in SessionLines
  BY <1>1, <1>2, HeadTailProperties DEF ShellTypes
<1>4. CmdsFit(parsed')
  BY <1>1, <1>3, LinesFit
<1>5. 1 \in Children /\ 0 \notin Children /\ 0 \in Procs /\ Children \subseteq Procs
  BY <1>2 DEF Children, Procs
<1>6. ShellTypes'
  BY <1>1, <1>2, <1>3, <1>4, <1>5 DEF ShellTypes, CmdsFit, Children
<1>7. ChildTypes' /\ \A c \in Children : ends'[c] = ends[c]
  <2>1. 1 .. Len(parsed'.cmds) - 1 \subseteq Pipes
    BY <1>2, <1>4 DEF CmdsFit, Pipes
  <2>2. (1 .. Len(parsed'.cmds) - 1) \X {"read", "write"} \in SUBSET (Pipes \X {"read", "write"})
    BY <2>1
  <2> QED
    BY <1>1, <1>2, <1>5, <2>2 DEF ChildTypes
<1>8. Forked'
  <2>1. LastForked' >= 1
    BY <1>4 DEF LastForked, NumCmds, CmdsFit
  <2> QED
    BY <1>1, <1>2, <2>1 DEF Forked
<1>9. \A c \in Children : Held(c)'
  BY <1>1, <1>2, <1>5, <1>7, HeldStays
<1> QED
  BY <1>6, <1>7, <1>8, <1>9 DEF PipelineInv

(* fork: the child has all ends of the shell's.                             *)
LEMMA ForkKeeps ==
    ASSUME PipelineAssumption, PipelineInv, Fork
    PROVE  PipelineInv'
<1>1. /\ sh = "fork" /\ sh' = "setpgid" /\ at' = [at EXCEPT ![i] = "in"]
      /\ ends' = [ends EXCEPT ![i] = ends[0]]
      /\ UNCHANGED <<i, todo, parsed, in, out>>
  BY DEF Fork
<1>2. /\ ShellTypes /\ ChildTypes /\ Forked /\ \A c \in Children : Held(c)
      /\ MaxCmds \in Nat \ {0} /\ i \in Children
  BY DEF PipelineInv, PipelineAssumption, ShellTypes
<1>3. 0 \notin Children /\ 0 \in Procs /\ Children \subseteq Procs
  BY <1>2 DEF Children, Procs
<1>4. ShellTypes'
  BY <1>1, <1>2 DEF ShellTypes, CmdsFit
<1>5. ChildTypes'
  BY <1>1, <1>2, <1>3 DEF ChildTypes, Statuses
<1>6. \A c \in Children : /\ c # i => at'[c] = at[c] /\ ends'[c] = ends[c]
                         /\ at'[i] = "in"
  BY <1>1, <1>2, <1>3 DEF ChildTypes
<1>7. Forked'
  <2>1. i \in Nat /\ \A c \in Children : c \in Nat
    BY <1>2 DEF Children
  <2>2. LastForked' = LastForked
    BY <1>1 DEF LastForked, NumCmds
  <2> QED
    BY <1>1, <1>2, <1>6, <2>1, <2>2 DEF Forked
<1>8. \A c \in Children : Held(c)'
  BY <1>1, <1>2, <1>6 DEF Held
<1> QED
  BY <1>4, <1>5, <1>7, <1>8 DEF PipelineInv

(* setpgid: the next fork, or the ends are closed; or the shell dies.       *)
LEMMA SetpgidKeeps ==
    ASSUME PipelineAssumption, PipelineInv, Setpgid
    PROVE  PipelineInv'
<1>1. /\ sh = "setpgid" /\ UNCHANGED <<todo, parsed, at, in, out>>
      /\ \/ sh' = "died" /\ ends' = [ends EXCEPT ![0] = {}] /\ i' = i
         \/ /\ sh' = IF i < NumCmds THEN "fork" ELSE "close"
            /\ i' = IF i < NumCmds THEN i + 1 ELSE 1
            /\ ends' = ends
  BY DEF Setpgid
<1>2. /\ ShellTypes /\ ChildTypes /\ Forked /\ \A c \in Children : Held(c)
      /\ MaxCmds \in Nat \ {0} /\ i \in Children /\ CmdsFit(parsed)
  BY <1>1 DEF PipelineInv, PipelineAssumption, ShellTypes
<1>3. 0 \notin Children /\ 0 \in Procs /\ Children \subseteq Procs /\ 1 \in Children
  BY <1>2 DEF Children, Procs
<1>4. i' \in Children
  BY <1>1, <1>2, <1>3 DEF Children, CmdsFit, NumCmds
<1>5. ShellTypes'
  BY <1>1, <1>2, <1>4 DEF ShellTypes, CmdsFit
<1>6. /\ ChildTypes' /\ (sh' = "died" => ends'[0] = {})
      /\ \A c \in Children : ends'[c] = ends[c]
  BY <1>1, <1>2, <1>3 DEF ChildTypes
<1>7. Forked'
  <2>1. i \in Nat \ {0} /\ (\A c \in Children : c \in Nat) /\ NumCmds \in Nat
    BY <1>2 DEF Children, CmdsFit, NumCmds
  <2>2. LastForked' = LastForked /\ LastForked = IF NumCmds > 1 THEN NumCmds ELSE 1
    BY <1>1 DEF LastForked, NumCmds
  <2>3. i <= LastForked /\ \A c \in Children : c > i => at[c] = "none"
    BY <1>1, <1>2 DEF Forked
  <2>4. CASE i < NumCmds
    BY <1>1, <1>2, <1>6, <2>1, <2>2, <2>3, <2>4 DEF Forked
  <2>5. CASE ~ i < NumCmds
    <3>1. i = LastForked
      BY <2>1, <2>2, <2>3, <2>5
    <3>2. sh' \in {"died", "close"} /\ (sh' = "close" => i' = 1)
      BY <1>1, <2>5
    <3> QED
      BY <1>1, <1>6, <2>2, <2>3, <3>1, <3>2 DEF Forked
  <2> QED
    BY <2>4, <2>5
<1>8. \A c \in Children : Held(c)'
  BY <1>1, <1>2, <1>3, <1>6, HeldStays
<1> QED
  BY <1>5, <1>6, <1>7, <1>8 DEF PipelineInv

(* eval closes the shell's ends before it waits.                            *)
LEMMA CloseEndsKeeps ==
    ASSUME PipelineAssumption, PipelineInv, CloseEnds
    PROVE  PipelineInv'
<1>1. /\ sh = "close" /\ sh' = "wait" /\ ends' = [ends EXCEPT ![0] = {}]
      /\ UNCHANGED <<i, todo, parsed, at, in, out>>
  BY DEF CloseEnds
<1>2. /\ ShellTypes /\ ChildTypes /\ Forked /\ \A c \in Children : Held(c)
      /\ MaxCmds \in Nat \ {0} /\ CmdsFit(parsed)
  BY <1>1 DEF PipelineInv, PipelineAssumption, ShellTypes
<1>3. 0 \notin Children /\ 0 \in Procs /\ Children \subseteq Procs
  BY <1>2 DEF Children, Procs
<1>4. ShellTypes'
  BY <1>1, <1>2 DEF ShellTypes, CmdsFit
<1>5. ChildTypes' /\ ends'[0] = {} /\ \A c \in Children : ends'[c] = ends[c]
  BY <1>1, <1>2, <1>3 DEF ChildTypes
<1>6. Forked'
  <2>1. NumCmds \in Nat /\ i = 1 /\ \A c \in Children : c \in Nat \ {0}
    BY <1>1, <1>2 DEF Children, CmdsFit, NumCmds, Forked
  <2>2. LastForked' = LastForked /\ LastForked = IF NumCmds > 1 THEN NumCmds ELSE 1
    BY <1>1 DEF LastForked, NumCmds
  <2>3. i' <= LastForked' /\ \A c \in Children : ~ c < i'
    BY <1>1, <2>1, <2>2
  <2> QED
    BY <1>1, <1>2, <1>5, <2>2, <2>3 DEF Forked
<1>7. \A c \in Children : Held(c)'
  BY <1>1, <1>2, <1>3, <1>5, HeldStays
<1> QED
  BY <1>4, <1>5, <1>6, <1>7 DEF PipelineInv

(* waitpid reaps one child after the other; after the last the prompt       *)
(* comes.                                                                   *)
LEMMA WaitpidKeeps ==
    ASSUME PipelineAssumption, PipelineInv, Waitpid
    PROVE  PipelineInv'
<1>1. /\ sh = "wait" /\ at[i] \in {"zombie", "failed"} /\ at' = [at EXCEPT ![i] = "none"]
      /\ UNCHANGED <<todo, parsed, ends, in, out>>
      /\ IF i < NumCmds THEN i' = i + 1 /\ sh' = sh
         ELSE sh' = "prompt" /\ i' = 1
  BY DEF Waitpid
<1>2. /\ ShellTypes /\ ChildTypes /\ Forked /\ \A c \in Children : Held(c)
      /\ MaxCmds \in Nat \ {0} /\ CmdsFit(parsed) /\ i \in Children
  BY <1>1 DEF PipelineInv, PipelineAssumption, ShellTypes
<1>3. 0 \notin Children /\ 1 \in Children
  BY <1>2 DEF Children
<1>4. i' \in Children
  BY <1>1, <1>2, <1>3 DEF Children, CmdsFit, NumCmds
<1>5. ShellTypes'
  BY <1>1, <1>2, <1>4 DEF ShellTypes, CmdsFit
<1>6. ChildTypes' /\ at'[i] = "none" /\ \A c \in Children \ {i} : at'[c] = at[c]
  BY <1>1, <1>2 DEF ChildTypes, Statuses
<1>7. Forked'
  <2>1. i \in Nat \ {0} /\ (\A c \in Children : c \in Nat) /\ NumCmds \in Nat
    BY <1>2 DEF Children, CmdsFit, NumCmds
  <2>2. LastForked' = LastForked /\ LastForked = IF NumCmds > 1 THEN NumCmds ELSE 1
    BY <1>1 DEF LastForked, NumCmds
  <2>3. /\ i <= LastForked /\ ends'[0] = {}
        /\ \A c \in Children : (c > LastForked \/ c < i) => at[c] = "none"
    BY <1>1, <1>2 DEF Forked
  <2>4. CASE i < NumCmds
    <3>1. sh' = "wait" /\ i' = i + 1 /\ i' <= LastForked'
      BY <1>1, <2>1, <2>2, <2>4
    <3>2. \A c \in Children : (c > LastForked \/ c < i + 1) => at'[c] = "none"
      BY <1>6, <2>1, <2>3
    <3> QED
      BY <2>2, <2>3, <3>1, <3>2 DEF Forked
  <2>5. CASE ~ i < NumCmds
    <3>1. i = LastForked
      BY <2>1, <2>2, <2>3, <2>5
    <3>2. \A c \in Children : c = i \/ c > LastForked \/ c < i
      BY <2>1, <3>1
    <3>3. \A c \in Children : at'[c] = "none"
      BY <1>6, <2>3, <3>2
    <3>4. sh' = "prompt"
      BY <1>1, <2>5
    <3> QED
      BY <2>3, <3>3, <3>4 DEF Forked
  <2> QED
    BY <2>4, <2>5
<1>8. \A c \in Children : Held(c)'
  <2> TAKE c \in Children
  <2>1. at' = at \/ at'[c] = at[c] \/ (at'[c] = "none" /\ at[c] \in {"zombie", "failed"})
    BY <1>1, <1>6
  <2> QED
    BY <1>1, <1>2, <2>1 DEF Held
<1> QED
  BY <1>5, <1>6, <1>7, <1>8 DEF PipelineInv

----------------------------------------------------------------------------
(* The children's steps. *)

\* What a step of child c leaves alone, and what it may do to what c holds.
OnlyChild(c) ==
    /\ UNCHANGED <<sh, i, todo, parsed>>
    /\ at[c] # "none" /\ at'[c] # "none" /\ ChildTypes'
    /\ \A p \in Procs \ {c} : ends'[p] = ends[p]
    /\ \A d \in Children \ {c} : at'[d] = at[d] /\ in'[d] = in[d] /\ out'[d] = out[d]

(* Such a step keeps the invariant if c holds then what it should.          *)
LEMMA ChildKeeps ==
    ASSUME PipelineAssumption, PipelineInv, NEW c \in Children, OnlyChild(c), Held(c)'
    PROVE  PipelineInv'
<1>1. ShellTypes /\ Forked /\ \A d \in Children : Held(d)
  BY DEF PipelineInv
<1>2. ShellTypes'
  BY <1>1 DEF ShellTypes, OnlyChild, CmdsFit
<1>3. 0 \in Procs \ {c} /\ Children \subseteq Procs
  BY DEF PipelineAssumption, Procs, Children
<1>4. Forked'
  <2>1. \A d \in Children : at[d] = "none" => at'[d] = "none"
    BY DEF OnlyChild
  <2>2. LastForked' = LastForked /\ ends'[0] = ends[0] /\ sh' = sh /\ i' = i
    BY <1>3 DEF LastForked, NumCmds, OnlyChild
  <2>3. at[c] # "none"
    BY DEF OnlyChild
  <2> QED
    BY <1>1, <2>1, <2>2, <2>3 DEF Forked
<1>5. \A d \in Children : Held(d)'
  <2> TAKE d \in Children
  <2>1. CASE d = c
    BY <2>1
  <2>2. CASE d # c
    BY <1>1, <1>3, <2>2 DEF Held, OnlyChild
  <2> QED
    BY <2>1, <2>2
<1> QED
  BY <1>2, <1>4, <1>5 DEF PipelineInv, OnlyChild

(* A child that ends holds nothing any more.                                *)
LEMMA ExitsKeeps ==
    ASSUME PipelineAssumption, PipelineInv, NEW c \in Children, at[c] # "none",
           NEW status \in {"zombie", "failed"}, Exits(c, status), UNCHANGED shellVars
    PROVE  PipelineInv'
<1>1. ChildTypes /\ c \in Procs
  BY DEF PipelineInv, PipelineAssumption, Children, Procs
<1>2. OnlyChild(c)
  BY <1>1 DEF OnlyChild, Exits, ChildTypes, shellVars, Statuses
<1>3. Held(c)'
  BY <1>1 DEF Held, Exits, ChildTypes
<1> QED
  BY <1>2, <1>3, ChildKeeps

(* Every step of a child keeps the invariant.                               *)
LEMMA ChildStep ==
    ASSUME PipelineAssumption, PipelineInv, NEW c \in Children, Child(c)
    PROVE  PipelineInv'
<1>1. ChildTypes /\ Held(c) /\ c \in Procs
  BY DEF PipelineInv, PipelineAssumption, Children, Procs
<1>2. CASE RedirectIn(c)
  <2>1. CASE Exits(c, "failed")
    BY <1>2, <2>1, ExitsKeeps DEF RedirectIn
  <2>2. CASE /\ at[c] = "in" /\ at' = [at EXCEPT ![c] = "out"] /\ UNCHANGED <<ends, out, shellVars>>
             /\ \/ in' = in
                \/ in' = [in EXCEPT ![c] = <<"file", InName(c)>>]
    <3>1. OnlyChild(c)
      BY <1>1, <2>2 DEF OnlyChild, ChildTypes, shellVars, Statuses
    <3>2. Held(c)'
      BY <1>1, <2>2 DEF Held, ChildTypes
    <3> QED
      BY <3>1, <3>2, ChildKeeps
  <2> QED
    BY <1>2, <2>1, <2>2 DEF RedirectIn
<1>3. CASE RedirectOut(c)
  <2>1. CASE Exits(c, "failed")
    BY <1>3, <2>1, ExitsKeeps DEF RedirectOut
  <2>2. CASE /\ at[c] = "out" /\ at' = [at EXCEPT ![c] = "dup"] /\ UNCHANGED <<ends, in, shellVars>>
             /\ \/ out' = out
                \/ out' = [out EXCEPT ![c] = <<"file", OutName(c)>>]
    <3>1. OnlyChild(c)
      BY <1>1, <2>2 DEF OnlyChild, ChildTypes, shellVars, Statuses
    <3>2. Held(c)'
      BY <1>1, <2>2 DEF Held, ChildTypes
    <3> QED
      BY <3>1, <3>2, ChildKeeps
  <2> QED
    BY <1>3, <2>1, <2>2 DEF RedirectOut
<1>4. CASE DupPipes(c)
  <2>1. OnlyChild(c)
    BY <1>1, <1>4 DEF OnlyChild, ChildTypes, shellVars, Statuses, DupPipes
  <2>2. Held(c)'
    BY <1>1, <1>4 DEF Held, ChildTypes, DupPipes
  <2> QED
    BY <2>1, <2>2, ChildKeeps
<1>5. CASE CloseAll(c)
  <2>1. OnlyChild(c)
    BY <1>1, <1>5 DEF OnlyChild, ChildTypes, shellVars, Statuses, CloseAll
  <2>2. Held(c)'
    BY <1>1, <1>5 DEF Held, ChildTypes, CloseAll
  <2> QED
    BY <2>1, <2>2, ChildKeeps
<1>6. CASE Execve(c)
  <2>1. OnlyChild(c)
    BY <1>1, <1>6 DEF OnlyChild, ChildTypes, shellVars, Statuses, Execve
  <2>2. Held(c)'
    BY <1>1, <1>6 DEF Held, ChildTypes, Execve
  <2> QED
    BY <2>1, <2>2, ChildKeeps
<1>7. CASE Write(c) \/ Read(c)
  <2>1. at[c] = "runs" /\ UNCHANGED <<shellVars, at, ends, in, out>>
    BY <1>7 DEF Write, Read
  <2>2. OnlyChild(c) /\ Held(c)'
    BY <1>1, <2>1 DEF OnlyChild, ChildTypes, shellVars, Held
  <2> QED
    BY <2>2, ChildKeeps
<1>8. CASE Sigpipe(c) \/ Ends(c)
  BY <1>8, ExitsKeeps DEF Sigpipe, Ends
<1> QED
  BY <1>2, <1>3, <1>4, <1>5, <1>6, <1>7, <1>8 DEF Child

----------------------------------------------------------------------------
(* The theorems. *)

(* Every step keeps the invariant.                                          *)
LEMMA PipelineStep ==
    ASSUME PipelineAssumption, PipelineInv, [Next]_vars
    PROVE  PipelineInv'
<1>1. CASE EndOfInput
  <2>1. sh = "prompt" /\ sh' = "exited" /\ UNCHANGED <<todo, parsed, i, at, ends, in, out>>
    BY <1>1 DEF EndOfInput, childVars
  <2> QED
    BY <2>1 DEF PipelineInv, ShellTypes, ChildTypes, Forked, Held
<1>2. CASE UNCHANGED vars
  <2>1. UNCHANGED <<sh, todo, parsed, i, at, ends, in, out>>
    BY <1>2 DEF vars, shellVars, childVars
  <2> QED
    BY <2>1 DEF PipelineInv, ShellTypes, ChildTypes, Forked, Held, LastForked, NumCmds, CmdsFit
<1> QED
  BY <1>1, <1>2, ReadLineKeeps, ForkKeeps, SetpgidKeeps, CloseEndsKeeps, WaitpidKeeps, ChildStep
     DEF Next, Shell

(* The invariant implies that nothing is left at the prompt.                *)
LEMMA InvNothingLeft ==
    ASSUME PipelineAssumption, PipelineInv
    PROVE  NothingLeft
<1> SUFFICES ASSUME sh = "prompt"
             PROVE  /\ \A p \in Procs : ends[p] = {}
                    /\ \A c \in Children : at[c] = "none"
                    /\ \A j \in Pipes : ~ HeldForReading(j) /\ ~ HeldForWriting(j)
  BY DEF NothingLeft
<1>1. \A p \in Procs : p = 0 \/ (p \in Children /\ p > 0)
  BY DEF PipelineAssumption, Procs, Children
<1>2. ends[0] = {} /\ \A c \in Children : at[c] = "none"
  BY DEF PipelineInv, Forked
<1>3. \A c \in Children : ends[c] = {} /\ in[c] = Tty /\ out[c] = Tty
  BY <1>2 DEF PipelineInv, Held
<1>4. \A p \in Procs : ends[p] = {}
  BY <1>1, <1>2, <1>3
<1>5. \A j \in Pipes : Tty # PipeOf(j)
  BY DEF Tty, PipeOf
<1>6. \A p \in Procs : p > 0 => p \in Children
  BY <1>1
<1> QED
  BY <1>2, <1>3, <1>4, <1>5, <1>6 DEF HeldForReading, HeldForWriting

(* The invariant holds in every behaviour.                                  *)
LEMMA PipelineInvariant == ASSUME PipelineAssumption PROVE Spec => []PipelineInv
<1>1. Init => PipelineInv
  BY InvInit
<1>2. PipelineInv /\ [Next]_vars => PipelineInv'
  BY PipelineStep
<1> QED
  BY <1>1, <1>2, PTL DEF Spec

(* When the pipeline shell is back at its prompt, neither it nor a child    *)
(* has an end of a pipe open, and every child is reaped, whatever the       *)
(* commands did and however they were scheduled.                            *)
THEOREM PromptHoldsNothing == ASSUME PipelineAssumption PROVE Spec => []NothingLeft
BY PipelineInvariant, InvNothingLeft, PTL

----------------------------------------------------------------------------
(* Parts of a sequence. *)

CONSTANT Items          \* what programs write and files contain

\* The elements of s behind the first a, up to the b-th.
Slice(s, a, b) == [k \in 1 .. b - a |-> s[a + k]]

----------------------------------------------------------------------------
(* What a line means. *)

\* The names behind < and > are files, and what is written to is named once.
NamesFiles(line) ==
    /\ \A k \in 1 .. Len(line) - 1 : line[k] \in {"<", ">"} => line[k + 1] \in Files
    /\ \A k, m \in 1 .. Len(line) - 1 :
          line[k] = ">" /\ line[m] \in {"<", ">"} /\ k # m => line[k + 1] # line[m + 1]

\* What is assumed to compose commands: the programs and files consist of items,
\* and no line reads a file that it writes, or writes one twice.  There the
\* commands of a line would race for the file, and no order is promised.
ItemsAssumption ==
    /\ "error" \in Items
    /\ Content \in [Files -> Seq(Items) \cup {NoFile}]
    /\ \A name : Program(name) # NoProgram => Program(name).own \in Seq(Items) /\ Program(name).reads \in Nat
    /\ \A line \in SessionLines : NamesFiles(line)

Commands == 1 .. NumCmds
ReadsFile(c)  == parsed.in[c] > 0
WritesFile(c) == parsed.out[c] > 0

\* What parseargs makes of such a line.
LineParsed ==
    /\ NumCmds \in Children
    /\ \A c \in Commands :
          /\ parsed.in[c] \in Nat /\ parsed.out[c] \in Nat
          /\ ReadsFile(c) => InName(c) \in Files
          /\ WritesFile(c) => /\ OutName(c) \in Files
                              /\ \A d \in Commands : /\ WritesFile(d) /\ d # c => OutName(d) # OutName(c)
                                                     /\ ReadsFile(d) => InName(d) # OutName(c)

Input(c) == IF ReadsFile(c) THEN Content[InName(c)] ELSE IF c > 1 /\ WritesFile(c - 1) THEN << >> ELSE meaning[c - 1]
Own(c)   == Runs(Name(c)).own
Reads(c) == Runs(Name(c)).reads

\* How much of its input command c copies.
Copies(c) == Min({Len(Input(c)), Reads(c)})

Evaluating == sh \in {"fork", "setpgid", "close", "wait"}

\* Whether command c has ended, and how much of its meaning is written.
Done(c) == at[c] \in {"zombie", "failed"} \/ (sh = "wait" /\ c < i)
Put(c)  == IF Done(c) THEN Len(meaning[c]) ELSE IF at[c] = "runs" THEN Len(Own(c)) + pos[c] - Len(left[c]) ELSE 0

AllEnds == (1 .. NumCmds - 1) \X {"read", "write"}

\* Where a child's standard input and output are when they are redirected, and
\* when the pipes have taken the places left.
FileIn(c)  == IF ReadsFile(c) THEN <<"file", InName(c)>> ELSE Tty
FileOut(c) == IF WritesFile(c) THEN <<"file", OutName(c)>> ELSE Tty
Source(c)  == IF ~ ReadsFile(c) /\ c > 1 THEN PipeOf(c - 1) ELSE FileIn(c)
Sink(c)    == IF ~ WritesFile(c) /\ c < NumCmds THEN PipeOf(c) ELSE FileOut(c)

Place(c) ==
    /\ (sh = "fork" /\ c < i) \/ (sh = "setpgid" /\ c <= i) \/ sh = "close" \/ (sh = "wait" /\ c >= i) => at[c] # "none"
    /\ at[c] \in {"in", "out", "dup", "close"} => ends[c] = AllEnds
    /\ at[c] = "in"  => in[c] = Tty
    /\ at[c] \in {"out", "dup"} => in[c] = FileIn(c)
    /\ at[c] \in {"in", "out"} => out[c] = Tty
    /\ at[c] = "dup" => out[c] = FileOut(c)
    /\ at[c] \in {"close", "exec", "runs"} => in[c] = Source(c) /\ out[c] = Sink(c)
    /\ at[c] = "out" /\ ReadsFile(c) => Content[InName(c)] # NoFile
    /\ at[c] \in {"dup", "close", "exec", "runs", "zombie"} => Opens(c)
    /\ at[c] = "failed" => ~ Opens(c)

Works(c) ==
    at[c] = "runs" =>
        LET b == Len(Own(c)) + pos[c]
        IN  /\ pos[c] \in Nat /\ pos[c] <= Copies(c)
            /\ Len(left[c]) \in Nat /\ Len(left[c]) <= b /\ left[c] = Slice(meaning[c], b - Len(left[c]), b)

\* What command c has written is at its place: in its file once that is open,
\* or on the terminal, where an input that does not open is reported.
OpenFile(c) == at[c] \in {"dup", "close", "exec", "runs"} \/ (Done(c) /\ Opens(c))
Written(c) ==
    /\ WritesFile(c) /\ OpenFile(c) => file[OutName(c)] = Slice(meaning[c], 0, Put(c))
    /\ shown[c] = IF ~ Opens(c) THEN (IF Done(c) THEN <<"error">> ELSE << >>)
                  ELSE IF c = NumCmds /\ ~ WritesFile(c) THEN Slice(meaning[c], 0, Put(c))
                  ELSE << >>

\* The pipe that command c reads holds what is written to it and not read yet.
Flow(j) == IF WritesFile(j) THEN 0 ELSE Put(j)
Flowing(c) ==
    c > 1 /\ ~ Done(c) /\ ~ ReadsFile(c) =>
        pos[c] <= Flow(c - 1) /\ pipe[c - 1] = Slice(Input(c), pos[c], Flow(c - 1))

\* No command writes to a file that another reads.
Kept(c) == ReadsFile(c) => file[InName(c)] = Content[InName(c)]

CommandRight(c) == Place(c) /\ Works(c) /\ Written(c) /\ Flowing(c) /\ Kept(c)

Shapes ==
    /\ DOMAIN pos = Children /\ DOMAIN left = Children /\ DOMAIN shown = Children
    /\ DOMAIN pipe = Pipes /\ DOMAIN file = Files
Resting == \A c \in Children : at[c] # "runs" => pos[c] = 0 /\ left[c] = << >>

LineRight ==
    /\ LineParsed
    /\ sh # "wait" => ends[0] = AllEnds
    /\ \A c \in Commands : CommandRight(c)

LineInv ==
    /\ Shapes /\ Resting
    /\ Evaluating \/ sh = "died" => ran = FALSE
    /\ Evaluating => LineRight
    /\ Composed

(* A slice is a sequence of its length.                                     *)
LEMMA SliceIs ==
    ASSUME NEW s \in Seq(Items), NEW a \in Nat, NEW b \in Nat, a <= b, b <= Len(s)
    PROVE  Slice(s, a, b) \in Seq(Items) /\ Len(Slice(s, a, b)) = b - a
<1>1. \A k \in 1 .. b - a : a + k \in 1 .. Len(s) /\ s[a + k] \in Items
  BY LenProperties, ElementOfSeq
<1>2. b - a \in Nat
  OBVIOUS
<1> QED
  BY <1>1, <1>2 DEF Slice

(* Its elements are those of the sequence.                                  *)
LEMMA SliceAt == ASSUME NEW s, NEW a, NEW b PROVE \A k \in 1 .. b - a : Slice(s, a, b)[k] = s[a + k]
BY DEF Slice

(* It is empty if it ends where it starts.                                  *)
LEMMA SliceEmpty ==
    ASSUME NEW s \in Seq(Items), NEW a \in Nat, NEW b \in Nat, a <= b, b <= Len(s)
    PROVE  Slice(s, a, b) = << >> <=> a = b
<1>1. Slice(s, a, b) \in Seq(Items) /\ Len(Slice(s, a, b)) = b - a
  BY SliceIs
<1> QED
  BY <1>1, EmptySeq

(* A sequence of as many of s's elements from a on is the slice.            *)
LEMMA IsSlice ==
    ASSUME NEW s \in Seq(Items), NEW a \in Nat, NEW b \in Nat, a <= b, b <= Len(s),
           NEW t \in Seq(Items), Len(t) = b - a, \A k \in 1 .. b - a : t[k] = s[a + k]
    PROVE  t = Slice(s, a, b)
<1> DEFINE u == Slice(s, a, b)
<1>1. u \in Seq(Items) /\ Len(u) = b - a
  BY SliceIs
<1>2. \A k \in 1 .. b - a : u[k] = s[a + k]
  BY SliceAt
<1> HIDE DEF u
<1>3. Len(t) = Len(u) /\ \A k \in 1 .. Len(t) : t[k] = u[k]
  BY <1>1, <1>2
<1> QED
  BY <1>1, <1>3, SeqEqual DEF u

(* Its first element is taken.                                              *)
LEMMA SliceTail ==
    ASSUME NEW s \in Seq(Items), NEW a \in Nat, NEW b \in Nat, a < b, b <= Len(s)
    PROVE  /\ Slice(s, a, b) # << >> /\ Head(Slice(s, a, b)) = s[a + 1]
           /\ Tail(Slice(s, a, b)) = Slice(s, a + 1, b)
<1> DEFINE t == Slice(s, a, b)
           r == Tail(t)
<1>1. a + 1 \in Nat /\ a + 1 <= b /\ a <= b /\ a # b /\ b - a \in Nat \ {0} /\ b - (a + 1) = b - a - 1
  OBVIOUS
<1>2. t \in Seq(Items) /\ Len(t) = b - a
  BY <1>1, SliceIs
<1>3. \A k \in 1 .. b - a : t[k] = s[a + k]
  BY SliceAt
<1>4. t # << >>
  BY <1>1, SliceEmpty
<1> HIDE DEF t
<1>5. /\ Head(t) = t[1] /\ r \in Seq(Items) /\ Len(r) = Len(t) - 1
      /\ \A k \in 1 .. Len(r) : r[k] = t[k + 1]
  BY <1>2, <1>4, HeadTailProperties
<1> HIDE DEF r
<1>6. Len(r) = b - (a + 1) /\ Head(t) = s[a + 1]
  BY <1>1, <1>2, <1>3, <1>5
<1>7. ASSUME NEW k \in 1 .. b - (a + 1) PROVE r[k] = s[(a + 1) + k]
  <2>1. k + 1 \in 1 .. b - a /\ a + (k + 1) = (a + 1) + k /\ k \in 1 .. Len(r)
    BY <1>1, <1>6
  <2>2. r[k] = t[k + 1] /\ t[k + 1] = s[a + (k + 1)]
    BY <1>3, <1>5, <2>1
  <2> QED
    BY <2>1, <2>2
<1>8. r = Slice(s, a + 1, b)
  BY <1>1, <1>5, <1>6, <1>7, IsSlice
<1> QED
  BY <1>4, <1>6, <1>8 DEF t, r

(* The next element is added.                                               *)
LEMMA SliceAppend ==
    ASSUME NEW s \in Seq(Items), NEW a \in Nat, NEW b \in Nat, a <= b, b < Len(s)
    PROVE  Append(Slice(s, a, b), s[b + 1]) = Slice(s, a, b + 1)
<1> DEFINE t == Slice(s, a, b)
           v == Append(t, s[b + 1])
<1>1. /\ Len(s) \in Nat /\ b + 1 \in Nat /\ a <= b + 1 /\ b + 1 <= Len(s) /\ b <= Len(s) /\ b - a \in Nat
      /\ (b + 1) - a = (b - a) + 1 /\ a + ((b - a) + 1) = b + 1 /\ b + 1 \in 1 .. Len(s)
  BY LenProperties
<1>2. t \in Seq(Items) /\ Len(t) = b - a
  BY <1>1, SliceIs
<1>3. \A k \in 1 .. b - a : t[k] = s[a + k]
  BY SliceAt
<1>4. s[b + 1] \in Items
  BY <1>1, ElementOfSeq
<1> HIDE DEF t
<1>5. v \in Seq(Items) /\ Len(v) = Len(t) + 1 /\ (\A k \in 1 .. Len(t) : v[k] = t[k]) /\ v[Len(t) + 1] = s[b + 1]
  BY <1>2, <1>4, AppendProperties
<1> HIDE DEF v
<1>6. ASSUME NEW k \in 1 .. (b + 1) - a PROVE v[k] = s[a + k]
  <2>1. k \in 1 .. b - a \/ k = (b - a) + 1
    BY <1>1
  <2>2. CASE k \in 1 .. b - a
    BY <1>2, <1>3, <1>5, <2>2
  <2>3. CASE k = (b - a) + 1
    BY <1>1, <1>2, <1>5, <2>3
  <2> QED
    BY <2>1, <2>2, <2>3
<1>7. Len(v) = (b + 1) - a
  BY <1>1, <1>2, <1>5
<1>8. v = Slice(s, a, b + 1)
  BY <1>1, <1>5, <1>6, <1>7, IsSlice
<1> QED
  BY <1>8 DEF t, v

(* A whole sequence is a slice of itself.                                   *)
LEMMA SliceWhole == ASSUME NEW s \in Seq(Items) PROVE Slice(s, 0, Len(s)) = s
<1>1. Len(s) \in Nat /\ 0 \in Nat /\ 0 <= Len(s) /\ Len(s) <= Len(s) /\ Len(s) - 0 = Len(s)
  BY LenProperties
<1>2. \A k \in 1 .. Len(s) - 0 : s[k] = s[0 + k]
  OBVIOUS
<1> QED
  BY <1>1, <1>2, IsSlice

(* A single element is a slice.                                             *)
LEMMA SliceOne ==
    ASSUME NEW s \in Seq(Items), NEW a \in Nat, a < Len(s)
    PROVE  Slice(s, a, a + 1) = <<s[a + 1]>>
<1> DEFINE t == <<s[a + 1]>>
<1>1. Len(s) \in Nat /\ a + 1 \in Nat /\ a <= a + 1 /\ a + 1 <= Len(s) /\ (a + 1) - a = 1 /\ a + 1 \in 1 .. Len(s)
  BY LenProperties
<1>2. s[a + 1] \in Items
  BY <1>1, ElementOfSeq
<1>3. t \in Seq(Items) /\ Len(t) = 1 /\ t[1] = s[a + 1]
  BY <1>2
<1> HIDE DEF t
<1>4. Len(t) = (a + 1) - a /\ \A k \in 1 .. (a + 1) - a : t[k] = s[a + k]
  BY <1>1, <1>3
<1> QED
  BY <1>1, <1>3, <1>4, IsSlice DEF t

----------------------------------------------------------------------------
(* What parseargs makes of a line. *)

\* A place of a name behind op among the first k arguments, or none.
Behind(args, op, k) == {0} \cup {m \in 2 .. k : args[m - 1] = op}

\* What parseargs has after k arguments: as many places of names as commands,
\* each behind its operator, and no two commands write to the same place.
Redirected(args, k, s) ==
    /\ DOMAIN s = {"want", "cmds", "in", "out"} /\ s.want \in {"cmd", "in", "out", ""}
    /\ s.cmds \in Seq(Nat) /\ (k > 0 => Len(s.cmds) > 0) /\ (k = 0 => s.want = "cmd")
    /\ s.in \in Seq(Nat) /\ Len(s.in) = Len(s.cmds) /\ s.out \in Seq(Nat) /\ Len(s.out) = Len(s.cmds)
    /\ \A c \in 1 .. Len(s.cmds) : s.in[c] \in Behind(args, "<", k) /\ s.out[c] \in Behind(args, ">", k)
    /\ \A c, d \in 1 .. Len(s.cmds) : c # d /\ s.out[c] # 0 => s.out[c] # s.out[d]
    /\ s.want = "in" => args[k] = "<"
    /\ s.want = "out" => args[k] = ">"

(* One argument more.                                                       *)
LEMMA OneRedirected ==
    ASSUME NEW args, NEW k \in Nat \ {0}, NEW s, Redirected(args, k - 1, s)
    PROVE  Redirected(args, k, AfterArg(args, s, k))
<1> DEFINE t == AfterArg(args, s, k)
           q == s.cmds
           n == Len(q)
           x == s.in
           y == s.out
<1>1. /\ DOMAIN s = {"want", "cmds", "in", "out"} /\ s.want \in {"cmd", "in", "out", ""}
      /\ \A c \in 1 .. n : x[c] \in Behind(args, "<", k - 1) /\ y[c] \in Behind(args, ">", k - 1)
      /\ \A c, d \in 1 .. n : c # d /\ y[c] # 0 => y[c] # y[d]
      /\ (s.want = "in" => args[k - 1] = "<") /\ (s.want = "out" => args[k - 1] = ">")
  BY DEF Redirected
<1>2. /\ q \in Seq(Nat) /\ Len(q) = n /\ x \in Seq(Nat) /\ Len(x) = n /\ y \in Seq(Nat) /\ Len(y) = n
  BY DEF Redirected
<1>3. k - 1 > 0 => n > 0
  BY DEF Redirected
<1>4. k - 1 = 0 => s.want = "cmd"
  BY DEF Redirected
<1> HIDE DEF q, n, x, y
<1>5. n \in Nat
  BY <1>2, LenProperties
<1>6. s.want # "cmd" => n > 0 /\ k > 1
  BY <1>3, <1>4
<1>7. /\ \A m : m \in Behind(args, "<", k - 1) => m \in Behind(args, "<", k) /\ m # k
      /\ \A m : m \in Behind(args, ">", k - 1) => m \in Behind(args, ">", k) /\ m # k
      /\ 0 \in Behind(args, "<", k) /\ 0 \in Behind(args, ">", k)
      /\ k > 1 /\ args[k - 1] = "<" => k \in Behind(args, "<", k)
      /\ k > 1 /\ args[k - 1] = ">" => k \in Behind(args, ">", k)
  BY DEF Behind
<1>8. ASSUME DOMAIN t = {"want", "cmds", "in", "out"}, t.want \in {"cmd", "in", "out", ""},
             t.cmds \in Seq(Nat), Len(t.cmds) > 0,
             t.in \in Seq(Nat), Len(t.in) = Len(t.cmds), t.out \in Seq(Nat), Len(t.out) = Len(t.cmds),
             \A c \in 1 .. Len(t.cmds) : t.in[c] \in Behind(args, "<", k) /\ t.out[c] \in Behind(args, ">", k),
             \A c, d \in 1 .. Len(t.cmds) : c # d /\ t.out[c] # 0 => t.out[c] # t.out[d],
             t.want = "in" => args[k] = "<", t.want = "out" => args[k] = ">"
      PROVE  Redirected(args, k, t)
  BY <1>8 DEF Redirected
<1>9. CASE s.want = "cmd"
  <2> DEFINE z == Append(q, k)
             u == Append(x, 0)
             v == Append(y, 0)
  <2>1. t = [want |-> "", cmds |-> z, in |-> u, out |-> v]
    BY <1>9 DEF AfterArg, OpenedAt, q, x, y
  <2>2. z \in Seq(Nat) /\ Len(z) = n + 1
    BY <1>5, <1>2, AppendProperties
  <2>3. u \in Seq(Nat) /\ Len(u) = n + 1 /\ (\A c \in 1 .. n : u[c] = x[c]) /\ u[n + 1] = 0
    BY <1>5, <1>2, AppendProperties
  <2>4. v \in Seq(Nat) /\ Len(v) = n + 1 /\ (\A c \in 1 .. n : v[c] = y[c]) /\ v[n + 1] = 0
    BY <1>5, <1>2, AppendProperties
  <2> HIDE DEF t, z, u, v
  <2>5. DOMAIN t = {"want", "cmds", "in", "out"} /\ t.want = "" /\ t.cmds = z /\ t.in = u /\ t.out = v
    BY <2>1
  <2>6. \A c \in 1 .. n + 1 : c \in 1 .. n \/ c = n + 1
    BY <1>5
  <2>7. \A c \in 1 .. n + 1 : u[c] \in Behind(args, "<", k) /\ v[c] \in Behind(args, ">", k)
    BY <1>1, <1>7, <2>3, <2>4, <2>6
  <2>8. \A c, d \in 1 .. n + 1 : c # d /\ v[c] # 0 => v[c] # v[d]
    BY <1>1, <2>4, <2>6
  <2>9. Len(z) > 0
    BY <1>5, <2>2
  <2> QED
    BY <1>8, <2>2, <2>3, <2>4, <2>5, <2>7, <2>8, <2>9 DEF t
<1>10. CASE s.want = "in"
  <2>1. k > 1 /\ args[k - 1] = "<" /\ n \in 1 .. n /\ n > 0
    BY <1>1, <1>5, <1>10, <1>6
  <2>2. t = [s EXCEPT !.want = "", !.in[n] = k]
    BY <1>10 DEF AfterArg, n, q
  <2> DEFINE u == [x EXCEPT ![n] = k]
  <2> HIDE DEF t
  <2>3. DOMAIN t = {"want", "cmds", "in", "out"} /\ t.want = "" /\ t.cmds = q /\ t.in = u /\ t.out = y
    BY <1>1, <2>2 DEF q, x, y
  <2>4. u \in Seq(Nat) /\ Len(u) = n /\ (\A c \in 1 .. n : u[c] = IF c = n THEN k ELSE x[c])
    BY <1>2, <2>1, ExceptSeq
  <2> HIDE DEF u
  <2>5. \A c \in 1 .. n : u[c] \in Behind(args, "<", k) /\ y[c] \in Behind(args, ">", k)
    BY <1>1, <1>7, <2>1, <2>4
  <2> QED
    BY <1>1, <1>5, <1>8, <1>2, <2>1, <2>3, <2>4, <2>5 DEF t
<1>11. CASE s.want = "out"
  <2>1. k > 1 /\ args[k - 1] = ">" /\ n \in 1 .. n /\ n > 0
    BY <1>1, <1>5, <1>11, <1>6
  <2>2. t = [s EXCEPT !.want = "", !.out[n] = k]
    BY <1>11 DEF AfterArg, n, q
  <2> DEFINE v == [y EXCEPT ![n] = k]
  <2> HIDE DEF t
  <2>3. DOMAIN t = {"want", "cmds", "in", "out"} /\ t.want = "" /\ t.cmds = q /\ t.in = x /\ t.out = v
    BY <1>1, <2>2 DEF q, x, y
  <2>4. v \in Seq(Nat) /\ Len(v) = n /\ (\A c \in 1 .. n : v[c] = IF c = n THEN k ELSE y[c])
    BY <1>2, <2>1, ExceptSeq
  <2> HIDE DEF v
  <2>5. \A c \in 1 .. n : x[c] \in Behind(args, "<", k) /\ v[c] \in Behind(args, ">", k)
    BY <1>1, <1>7, <2>1, <2>4
  <2>6. \A c \in 1 .. n : v[c] = (IF c = n THEN k ELSE y[c]) /\ y[c] # k
    BY <1>1, <1>7, <2>4
  <2>7. \A c, d \in 1 .. n : c # d /\ v[c] # 0 => v[c] # v[d]
    BY <1>1, <2>6
  <2> QED
    BY <1>1, <1>5, <1>8, <1>2, <2>1, <2>3, <2>4, <2>5, <2>7 DEF t
<1>12. CASE s.want = ""
  <2>1. t = [s EXCEPT !.want = OperatorOf(args[k])]
    BY <1>12 DEF AfterArg
  <2> HIDE DEF t
  <2>2. DOMAIN t = {"want", "cmds", "in", "out"} /\ t.want = OperatorOf(args[k]) /\ t.cmds = q /\ t.in = x /\ t.out = y
    BY <1>1, <2>1 DEF q, x, y
  <2>3. /\ OperatorOf(args[k]) \in {"cmd", "in", "out", ""}
        /\ OperatorOf(args[k]) = "in" => args[k] = "<"
        /\ OperatorOf(args[k]) = "out" => args[k] = ">"
    BY DEF OperatorOf
  <2>4. n > 0
    BY <1>12, <1>6
  <2>5. \A c \in 1 .. n : x[c] \in Behind(args, "<", k) /\ y[c] \in Behind(args, ">", k)
    BY <1>1, <1>7
  <2> QED
    BY <1>1, <1>5, <1>8, <1>2, <2>2, <2>3, <2>4, <2>5 DEF t
<1> QED
  BY <1>1, <1>9, <1>10, <1>11, <1>12

(* A line's names are behind their operators.                               *)
LEMMA RedirectionsFound ==
    ASSUME NEW args, Len(args) \in Nat
    PROVE  Redirected(args, Len(args), parseargs(args))
<1> DEFINE n == Len(args)
<1>1. PICK f : Parses(args, n, f) /\ parseargs(args) = f[n]
  BY ParseargsIs
<1> HIDE DEF n
<1>2. n \in Nat
  BY DEF n
<1>3. \A k \in 0 .. n : Redirected(args, k, f[k])
  <2> DEFINE Bad == {k \in 0 .. n : ~ Redirected(args, k, f[k])}
  <2> SUFFICES ASSUME Bad # {} PROVE FALSE
    OBVIOUS
  <2>1. Bad \subseteq Nat
    BY <1>2
  <2> DEFINE m == Min(Bad)
  <2>2. m \in Bad /\ \A l \in Bad : m <= l
    BY <2>1, MinOfNats
  <2> HIDE DEF m
  <2>3. m \in 0 .. n /\ ~ Redirected(args, m, f[m])
    BY <2>2
  <2>4. CASE m = 0
    <3>1. f[0] = Nothing
      BY <1>1, <2>3, <2>4 DEF Parses
    <3>2. << >> \in Seq(Nat) /\ Len(<< >>) = 0 /\ 1 .. 0 = {}
      OBVIOUS
    <3>3. /\ DOMAIN Nothing = {"want", "cmds", "in", "out"} /\ Nothing.want = "cmd"
          /\ Nothing.cmds = << >> /\ Nothing.in = << >> /\ Nothing.out = << >>
      BY DEF Nothing
    <3>4. Redirected(args, 0, Nothing)
      BY <3>2, <3>3 DEF Redirected
    <3> QED
      BY <2>3, <2>4, <3>1, <3>4
  <2>5. CASE m # 0
    <3>1. m \in Nat \ {0} /\ m - 1 \in 0 .. n /\ ~ m <= m - 1
      BY <1>2, <2>3, <2>5
    <3>2. Redirected(args, m - 1, f[m - 1])
      BY <2>2, <3>1
    <3>3. f[m] = AfterArg(args, f[m - 1], m)
      BY <1>1, <2>3, <2>5 DEF Parses
    <3> QED
      BY <2>3, <3>1, <3>2, <3>3, OneRedirected
  <2> QED
    BY <2>4, <2>5
<1> QED
  BY <1>1, <1>2, <1>3 DEF n

\* A line and what parseargs makes of it.
Redirects(args, p) ==
    /\ Len(p.cmds) \in 1 .. MaxCmds
    /\ \A c \in 1 .. Len(p.cmds) :
          /\ p.in[c] \in Nat /\ p.out[c] \in Nat
          /\ p.in[c] > 0 => args[p.in[c]] \in Files
          /\ p.out[c] > 0 => /\ args[p.out[c]] \in Files
                             /\ \A d \in 1 .. Len(p.cmds) :
                                   /\ p.out[d] > 0 /\ d # c => args[p.out[d]] # args[p.out[c]]
                                   /\ p.in[d] > 0 => args[p.in[d]] # args[p.out[c]]

(* A line that is evaluated is parsed as LineParsed says.                   *)
LEMMA LineIsParsed ==
    ASSUME PipelineAssumption, ItemsAssumption, NEW line \in SessionLines, Len(line) > 0
    PROVE  Redirects(line, parseargs(line))
<1> DEFINE p == parseargs(line)
           n == Len(line)
           m == Len(p.cmds)
<1>1. n \in Nat /\ NamesFiles(line) /\ n > 0
  BY DEF PipelineAssumption, ItemsAssumption
<1>2. Redirected(line, n, p)
  BY <1>1, RedirectionsFound
<1>3. m \in 0 .. MaxCmds
  BY LinesFit DEF CmdsFit
<1> HIDE DEF p, n
<1>4. /\ m > 0
      /\ \A c \in 1 .. m : p.in[c] \in Behind(line, "<", n) /\ p.out[c] \in Behind(line, ">", n)
      /\ \A c, d \in 1 .. m : c # d /\ p.out[c] # 0 => p.out[c] # p.out[d]
  BY <1>1, <1>2 DEF Redirected
<1> HIDE DEF m
<1>5. /\ \A k \in 1 .. n - 1 : line[k] \in {"<", ">"} => line[k + 1] \in Files
      /\ \A k, l \in 1 .. n - 1 :
          line[k] = ">" /\ line[l] \in {"<", ">"} /\ k # l => line[k + 1] # line[l + 1]
  BY <1>1 DEF NamesFiles, n
<1>6. ASSUME NEW op \in {"<", ">"}, NEW k \in Behind(line, op, n)
      PROVE  k \in Nat /\ (k > 0 => k - 1 \in 1 .. n - 1 /\ line[k - 1] = op /\ k = (k - 1) + 1 /\ line[k] \in Files)
  <2>1. k \in Nat /\ (k > 0 => k - 1 \in 1 .. n - 1 /\ line[k - 1] = op /\ k = (k - 1) + 1)
    BY <1>1 DEF Behind
  <2> QED
    BY <1>5, <2>1
<1>7. ASSUME NEW op \in {"<", ">"}, NEW k \in Behind(line, ">", n), NEW l \in Behind(line, op, n), k > 0, l > 0, k # l
      PROVE  line[l] # line[k]
  <2>1. k - 1 \in 1 .. n - 1 /\ line[k - 1] = ">" /\ k = (k - 1) + 1
    BY <1>6, <1>7
  <2>2. l - 1 \in 1 .. n - 1 /\ line[l - 1] = op /\ l = (l - 1) + 1
    BY <1>6, <1>7
  <2>3. k - 1 # l - 1
    BY <1>7, <2>1, <2>2
  <2> QED
    BY <1>5, <2>1, <2>2, <2>3
<1>8. m \in 1 .. MaxCmds
  BY <1>3, <1>4 DEF PipelineAssumption
<1>9. ASSUME NEW c \in 1 .. m
      PROVE  /\ p.in[c] \in Nat /\ p.out[c] \in Nat
             /\ p.in[c] > 0 => line[p.in[c]] \in Files
             /\ p.out[c] > 0 => line[p.out[c]] \in Files
  BY <1>4, <1>6
<1>10. ASSUME NEW c \in 1 .. m, NEW d \in 1 .. m, p.out[c] > 0, p.out[d] > 0, d # c
       PROVE  line[p.out[d]] # line[p.out[c]]
  <2>1. p.out[c] # p.out[d]
    BY <1>4, <1>9, <1>10
  <2> QED
    BY <1>4, <1>7, <1>10, <2>1
<1>11. ASSUME NEW c \in 1 .. m, NEW d \in 1 .. m, p.out[c] > 0, p.in[d] > 0
       PROVE  line[p.in[d]] # line[p.out[c]]
  <2>1. line[p.out[c] - 1] = ">" /\ line[p.in[d] - 1] = "<"
    BY <1>4, <1>6, <1>11
  <2>2. p.out[c] # p.in[d]
    BY <2>1
  <2> QED
    BY <1>4, <1>7, <1>11, <2>2
<1>12. ASSUME NEW c \in 1 .. m, p.out[c] > 0, NEW d \in 1 .. m
       PROVE  /\ p.out[d] > 0 /\ d # c => line[p.out[d]] # line[p.out[c]]
              /\ p.in[d] > 0 => line[p.in[d]] # line[p.out[c]]
  BY <1>10, <1>11, <1>12
<1>13. Redirects(line, p)
  BY <1>8, <1>9, <1>12 DEF Redirects, m
<1> QED
  BY <1>13 DEF p

----------------------------------------------------------------------------
(* What a line means. *)

(* The meaning changes with the line only.                                  *)
LEMMA MeaningStays == ASSUME UNCHANGED <<argv, parsed>> PROVE meaning' = meaning
BY DEF meaning, Opens, InName, OutName, Name

\* What command c writes if the one before it writes w, and the function that
\* the recursion defines up to command n.
Meant(c, w) ==
    LET input == IF parsed.in[c] > 0 THEN Content[InName(c)] ELSE IF c > 1 /\ parsed.out[c - 1] > 0 THEN << >> ELSE w
    IN  IF ~ Opens(c) THEN << >> ELSE Own(c) \o SubSeq(input, 1, Min({Len(input), Reads(c)}))
Means(n, f) == f = [c \in 0 .. n |-> IF c = 0 THEN << >> ELSE Meant(c, f[c - 1])]

(* There is such a function for any number of commands.                     *)
LEMMA MeaningsExist == ASSUME NEW n \in Nat PROVE \E f : Means(n, f)
<1> DEFINE Bad == {m \in Nat : ~ \E f : Means(m, f)}
<1>1. SUFFICES ASSUME Bad # {} PROVE FALSE
  OBVIOUS
<1> DEFINE m == Min(Bad)
<1>2. m \in Bad /\ \A l \in Bad : m <= l
  BY <1>1, MinOfNats
<1> HIDE DEF m
<1>3. CASE m = 0
  <2>1. Means(0, [c \in 0 .. 0 |-> << >>])
    BY DEF Means
  <2> QED
    BY <1>2, <1>3, <2>1
<1>4. CASE m # 0
  <2>1. m \in Nat \ {0} /\ m - 1 \in Nat /\ m - 1 \notin Bad
    BY <1>2, <1>4
  <2>2. PICK f : Means(m - 1, f)
    BY <2>1
  <2> DEFINE g == [c \in 0 .. m |-> IF c = m THEN Meant(m, f[m - 1]) ELSE f[c]]
  <2>3. g = [c \in 0 .. m |-> IF c = 0 THEN << >> ELSE Meant(c, g[c - 1])]
    <3>1. ASSUME NEW c \in 0 .. m
          PROVE  g[c] = IF c = 0 THEN << >> ELSE Meant(c, g[c - 1])
      <4>1. CASE c = m
        <5>1. m - 1 \in 0 .. m /\ m - 1 # m
          BY <2>1
        <5>2. g[c] = Meant(m, f[m - 1]) /\ g[m - 1] = f[m - 1]
          BY <4>1, <5>1
        <5> QED
          BY <1>4, <4>1, <5>2
      <4>2. CASE c # m
        <5>1. c \in 0 .. m - 1 /\ g[c] = f[c]
          BY <2>1, <4>2
        <5>2. f[c] = IF c = 0 THEN << >> ELSE Meant(c, f[c - 1])
          BY <2>2, <5>1 DEF Means
        <5>3. c # 0 => c - 1 \in 0 .. m /\ c - 1 # m /\ g[c - 1] = f[c - 1]
          BY <2>1, <5>1
        <5> HIDE DEF g
        <5> QED
          BY <5>1, <5>2, <5>3
      <4> QED
        BY <4>1, <4>2
    <3>2. g = [c \in 0 .. m |-> g[c]]
      OBVIOUS
    <3> HIDE DEF g
    <3> QED
      BY <3>1, <3>2
  <2>4. Means(m, g)
    BY <2>3 DEF Means
  <2> QED
    BY <1>2, <2>4
<1> QED
  BY <1>3, <1>4

(* So the meaning of a line is one.                                         *)
LEMMA MeaningUnfolds ==
    ASSUME PipelineAssumption
    PROVE  meaning[0] = << >> /\ \A c \in Children : meaning[c] = Meant(c, meaning[c - 1])
<1>1. MaxCmds \in Nat
  BY DEF PipelineAssumption
<1> DEFINE f == CHOOSE g : Means(MaxCmds, g)
<1>2. Means(MaxCmds, f)
  BY <1>1, MeaningsExist
<1>3. meaning = f
  BY DEF Means, Meant, meaning, Own, Reads
<1> HIDE DEF f
<1>4. \A c \in 0 .. MaxCmds : meaning[c] = IF c = 0 THEN << >> ELSE Meant(c, meaning[c - 1])
  BY <1>2, <1>3 DEF Means
<1> QED
  BY <1>1, <1>4 DEF Children

(* A program writes items, and reads a number of them.                      *)
LEMMA RunsTypes == ASSUME ItemsAssumption, NEW name PROVE Runs(name).own \in Seq(Items) /\ Runs(name).reads \in Nat
<1>1. CASE Program(name) = NoProgram
  <2>1. Runs(name) = [own |-> <<"error">>, reads |-> 0] /\ "error" \in Items
    BY <1>1 DEF Runs, ItemsAssumption
  <2> QED
    BY <2>1
<1>2. CASE Program(name) # NoProgram
  BY <1>2 DEF Runs, ItemsAssumption
<1> QED
  BY <1>1, <1>2

(* The least of two numbers.                                                *)
LEMMA LeastOfTwo ==
    ASSUME NEW a \in Nat, NEW b \in Nat
    PROVE  LET m == Min({a, b}) IN m \in Nat /\ m <= a /\ m <= b /\ (m = a \/ m = b)
BY MinOfNats, {a, b} \subseteq Nat, {a, b} # {}

(* What commands write are items.                                           *)
LEMMA MeaningItems ==
    ASSUME PipelineAssumption, ItemsAssumption, LineParsed
    PROVE  \A c \in 0 .. NumCmds : meaning[c] \in Seq(Items)
<1> DEFINE Bad == {c \in 0 .. NumCmds : meaning[c] \notin Seq(Items)}
<1> SUFFICES ASSUME Bad # {} PROVE FALSE
  OBVIOUS
<1>1. Bad \subseteq Nat
  BY DEF LineParsed
<1> DEFINE m == Min(Bad)
<1>2. m \in Bad /\ \A l \in Bad : m <= l
  BY <1>1, MinOfNats
<1> HIDE DEF m
<1>3. m \in 0 .. NumCmds /\ meaning[m] \notin Seq(Items)
  BY <1>2
<1>4. m # 0
  <2>1. << >> \in Seq(Items)
    OBVIOUS
  <2> QED
    BY <1>3, <2>1, MeaningUnfolds
<1>5. m \in Commands /\ m \in Children /\ m - 1 \in 0 .. NumCmds /\ ~ m <= m - 1
  BY <1>3, <1>4 DEF LineParsed, Commands, Children, PipelineAssumption
<1>6. meaning[m - 1] \in Seq(Items)
  BY <1>2, <1>5
<1>7. CASE Opens(m)
  <2> DEFINE w == Input(m)
             r == Copies(m)
  <2>1. w \in Seq(Items)
    <3>1. << >> \in Seq(Items)
      OBVIOUS
    <3>2. ReadsFile(m) => Content[InName(m)] \in Seq(Items)
      BY <1>5, <1>7 DEF LineParsed, ItemsAssumption, Opens, ReadsFile
    <3> QED
      BY <1>6, <3>1, <3>2 DEF Input
  <2>2. Own(m) \in Seq(Items) /\ Reads(m) \in Nat /\ Len(w) \in Nat
    BY <2>1, RunsTypes, LenProperties DEF Own, Reads
  <2>3. r \in Nat /\ r <= Len(w)
    BY <2>2, LeastOfTwo DEF Copies
  <2>4. meaning[m] = Own(m) \o SubSeq(w, 1, r)
    BY <1>5, <1>7, MeaningUnfolds DEF Meant, Input, ReadsFile, WritesFile, Copies
  <2> HIDE DEF w, r
  <2>5. SubSeq(w, 1, r) \in Seq(Items)
    <3>1. \A k \in 1 .. r : w[k] \in Items
      BY <2>1, <2>2, <2>3, ElementOfSeq
    <3> QED
      BY <2>1, <2>3, <3>1
  <2> QED
    BY <1>3, <2>2, <2>4, <2>5, ConcatProperties
<1>8. CASE ~ Opens(m)
  <2>1. meaning[m] = << >>
    BY <1>5, <1>8, MeaningUnfolds DEF Meant
  <2>2. << >> \in Seq(Items)
    OBVIOUS
  <2> QED
    BY <1>3, <2>1, <2>2
<1> QED
  BY <1>7, <1>8

(* A command whose input opens writes its own items and then what it copies *)
(* of its input; any other nothing.                                         *)
LEMMA MeaningIs ==
    ASSUME PipelineAssumption, ItemsAssumption, LineParsed, NEW c \in Commands
    PROVE  /\ meaning[c] \in Seq(Items) /\ Own(c) \in Seq(Items) /\ Len(meaning[c]) \in Nat /\ Len(Own(c)) \in Nat
           /\ Reads(c) \in Nat
           /\ ~ Opens(c) => meaning[c] = << >>
           /\ Opens(c) => /\ Input(c) \in Seq(Items) /\ Len(Input(c)) \in Nat
                          /\ Copies(c) \in Nat /\ Copies(c) <= Len(Input(c)) /\ Copies(c) <= Reads(c)
                          /\ Copies(c) = Len(Input(c)) \/ Copies(c) = Reads(c)
                          /\ Len(meaning[c]) = Len(Own(c)) + Copies(c)
                          /\ \A k \in 1 .. Len(Own(c)) : meaning[c][k] = Own(c)[k]
                          /\ \A k \in 1 .. Copies(c) : meaning[c][Len(Own(c)) + k] = Input(c)[k]
<1>1. /\ c \in Children /\ c \in Nat /\ c - 1 \in 0 .. NumCmds /\ c \in 0 .. NumCmds
  BY DEF LineParsed, Commands, Children, PipelineAssumption
<1>2. meaning[c] \in Seq(Items) /\ meaning[c - 1] \in Seq(Items) /\ Len(meaning[c]) \in Nat
  BY <1>1, MeaningItems, LenProperties
<1>3. Own(c) \in Seq(Items) /\ Reads(c) \in Nat /\ Len(Own(c)) \in Nat
  BY RunsTypes, LenProperties DEF Own, Reads
<1>4. ~ Opens(c) => meaning[c] = << >>
  BY <1>1, MeaningUnfolds DEF Meant
<1>5. ASSUME Opens(c)
      PROVE  /\ Input(c) \in Seq(Items) /\ Len(Input(c)) \in Nat
             /\ Copies(c) \in Nat /\ Copies(c) <= Len(Input(c)) /\ Copies(c) <= Reads(c)
             /\ Copies(c) = Len(Input(c)) \/ Copies(c) = Reads(c)
             /\ Len(meaning[c]) = Len(Own(c)) + Copies(c)
             /\ \A k \in 1 .. Len(Own(c)) : meaning[c][k] = Own(c)[k]
             /\ \A k \in 1 .. Copies(c) : meaning[c][Len(Own(c)) + k] = Input(c)[k]
  <2> DEFINE w == Input(c)
             r == Copies(c)
             o == Own(c)
             x == SubSeq(w, 1, r)
  <2>1. w \in Seq(Items)
    <3>1. << >> \in Seq(Items)
      OBVIOUS
    <3>2. ReadsFile(c) => Content[InName(c)] \in Seq(Items)
      BY <1>5 DEF LineParsed, ItemsAssumption, Opens, ReadsFile
    <3> QED
      BY <1>2, <3>1, <3>2 DEF Input
  <2>2. Len(w) \in Nat /\ r \in Nat /\ r <= Len(w) /\ r <= Reads(c) /\ (r = Len(w) \/ r = Reads(c))
    BY <1>3, <2>1, LenProperties, LeastOfTwo DEF Copies
  <2>3. meaning[c] = o \o x
    BY <1>1, <1>5, MeaningUnfolds DEF Meant, Input, ReadsFile, WritesFile, Copies
  <2> HIDE DEF w, r, o
  <2>4. x \in Seq(Items) /\ Len(x) = r /\ \A k \in 1 .. r : x[k] = w[k]
    <3>1. \A k \in 1 .. r : w[k] \in Items
      BY <2>1, <2>2, ElementOfSeq
    <3> QED
      BY <2>1, <2>2, <3>1
  <2> HIDE DEF x
  <2>5. o \in Seq(Items) /\ Len(o) \in Nat
    BY <1>3 DEF o
  <2>6. /\ Len(o \o x) = Len(o) + Len(x)
        /\ \A k \in 1 .. Len(o) + Len(x) : (o \o x)[k] = IF k <= Len(o) THEN o[k] ELSE x[k - Len(o)]
    BY <2>4, <2>5, ConcatProperties
  <2>7. \A k \in 1 .. Len(o) : (o \o x)[k] = o[k]
    BY <2>2, <2>4, <2>5, <2>6
  <2>8. ASSUME NEW k \in 1 .. r PROVE (o \o x)[Len(o) + k] = w[k]
    <3>1. Len(o) + k \in 1 .. Len(o) + Len(x) /\ ~ Len(o) + k <= Len(o) /\ (Len(o) + k) - Len(o) = k
      BY <2>2, <2>4, <2>5
    <3> QED
      BY <2>4, <2>6, <3>1
  <2> QED
    BY <2>1, <2>2, <2>3, <2>4, <2>6, <2>7, <2>8 DEF w, r, o
<1> QED
  BY <1>2, <1>3, <1>4, <1>5

----------------------------------------------------------------------------
(* What a step leaves alone. *)

(* As long as the line is the same, so is all that depends on it only.      *)
LEMMA LineStays ==
    ASSUME UNCHANGED <<argv, parsed>>
    PROVE  /\ meaning' = meaning /\ NumCmds' = NumCmds /\ Commands' = Commands /\ AllEnds' = AllEnds
           /\ LineParsed' = LineParsed
           /\ \A c : /\ Opens(c)' = Opens(c) /\ Input(c)' = Input(c) /\ Own(c)' = Own(c) /\ Reads(c)' = Reads(c)
                     /\ Copies(c)' = Copies(c)
                     /\ ReadsFile(c)' = ReadsFile(c) /\ WritesFile(c)' = WritesFile(c)
                     /\ InName(c)' = InName(c) /\ OutName(c)' = OutName(c)
                     /\ FileIn(c)' = FileIn(c) /\ FileOut(c)' = FileOut(c)
                     /\ Source(c)' = Source(c) /\ Sink(c)' = Sink(c)
<1>1. meaning' = meaning
  BY MeaningStays
<1>2. NumCmds' = NumCmds /\ Commands' = Commands /\ AllEnds' = AllEnds
  BY DEF NumCmds, Commands, AllEnds
<1>3. \A c : /\ Opens(c)' = Opens(c) /\ Own(c)' = Own(c) /\ Reads(c)' = Reads(c)
             /\ ReadsFile(c)' = ReadsFile(c) /\ WritesFile(c)' = WritesFile(c)
             /\ InName(c)' = InName(c) /\ OutName(c)' = OutName(c)
  BY DEF Opens, Own, Reads, ReadsFile, WritesFile, InName, OutName, Name
<1>4. \A c : Input(c)' = Input(c)
  BY <1>1, <1>3 DEF Input
<1>5. \A c : Copies(c)' = Copies(c)
  BY <1>3, <1>4 DEF Copies
<1>6. \A c : /\ FileIn(c)' = FileIn(c) /\ FileOut(c)' = FileOut(c)
             /\ Source(c)' = Source(c) /\ Sink(c)' = Sink(c)
  BY <1>2, <1>3 DEF FileIn, FileOut, Source, Sink
<1>7. LineParsed' = LineParsed
  BY <1>2, <1>3 DEF LineParsed
<1> QED
  BY <1>1, <1>2, <1>3, <1>4, <1>5, <1>6, <1>7

(* The numbers of commands, children and processes.                         *)
LEMMA Numbers ==
    ASSUME PipelineAssumption, PipelineInv, LineRight
    PROVE  /\ ChildTypes /\ ShellTypes /\ Forked /\ \A c \in Children : Held(c)
           /\ NumCmds \in Nat /\ NumCmds \in 1 .. MaxCmds /\ MaxCmds \in Nat /\ LastForked = NumCmds
           /\ 0 \notin Children /\ 0 \in Procs /\ Children \subseteq Procs
           /\ \A c \in Commands : c \in Children /\ c \in Nat /\ c >= 1 /\ c <= NumCmds
           /\ \A c \in Commands : c > 1 => c - 1 \in Commands /\ c - 1 \in Pipes /\ (c - 1) + 1 = c
           /\ \A c \in Commands : c < NumCmds => c + 1 \in Commands /\ c \in Pipes /\ (c + 1) - 1 = c /\ c + 1 > 1
           /\ i \in Nat /\ i >= 1 /\ \A c \in Children : c \in Nat
<1>1. MaxCmds \in Nat \ {0} /\ NumCmds \in Children
  BY DEF PipelineAssumption, LineRight, LineParsed
<1>2. i \in Children
  BY DEF PipelineInv, ShellTypes
<1>3. ChildTypes /\ ShellTypes /\ Forked /\ \A c \in Children : Held(c)
  BY DEF PipelineInv
<1>4. NumCmds \in Nat /\ NumCmds \in 1 .. MaxCmds /\ MaxCmds \in Nat /\ LastForked = NumCmds
  BY <1>1 DEF Children, LastForked
<1> QED
  BY <1>1, <1>2, <1>3, <1>4 DEF Children, Commands, Pipes, Procs

(* A child that runs has not been waited for, and only a command's child is *)
(* there.                                                                   *)
LEMMA Active ==
    ASSUME PipelineAssumption, PipelineInv, LineRight, Evaluating, NEW c \in Children, at[c] # "none"
    PROVE  c \in Commands /\ (Done(c) <=> at[c] \in {"zombie", "failed"})
<1>1. c \in Nat /\ NumCmds \in Nat /\ i \in Nat /\ Forked /\ LastForked = NumCmds /\ c >= 1
  BY Numbers DEF Children
<1>2. c <= NumCmds
  <2>1. sh = "fork" => c < i /\ i <= NumCmds
    BY <1>1 DEF Forked
  <2>2. sh = "setpgid" => c <= i /\ i <= NumCmds
    BY <1>1 DEF Forked
  <2>3. sh \in {"close", "wait"} => c <= NumCmds
    BY <1>1 DEF Forked
  <2> QED
    BY <1>1, <2>1, <2>2, <2>3 DEF Evaluating
<1>3. sh = "wait" => ~ c < i
  BY <1>1 DEF Forked
<1> QED
  BY <1>1, <1>2, <1>3 DEF Commands, Done

(* How much a command has written, and what it has still to write.          *)
LEMMA PutIs ==
    ASSUME PipelineAssumption, ItemsAssumption, PipelineInv, LineRight, Evaluating, NEW c \in Commands
    PROVE  /\ Put(c) \in Nat /\ Put(c) <= Len(meaning[c]) /\ Len(meaning[c]) \in Nat /\ meaning[c] \in Seq(Items)
           /\ Done(c) => Put(c) = Len(meaning[c])
           /\ at[c] = "runs" =>
                 LET b == Len(Own(c)) + pos[c]
                 IN  /\ ~ Done(c) /\ Opens(c) /\ pos[c] \in Nat /\ pos[c] <= Copies(c)
                     /\ b \in Nat /\ b <= Len(meaning[c]) /\ Put(c) <= b
                     /\ Put(c) = b - Len(left[c]) /\ left[c] = Slice(meaning[c], Put(c), b)
                     /\ (left[c] = << >> <=> Put(c) = b)
           /\ ~ Done(c) /\ at[c] # "runs" => Put(c) = 0
<1>1. CommandRight(c) /\ LineParsed /\ c \in Children
  BY Numbers DEF LineRight
<1>2. /\ meaning[c] \in Seq(Items) /\ Len(meaning[c]) \in Nat /\ Len(Own(c)) \in Nat
      /\ Opens(c) => Copies(c) \in Nat /\ Len(meaning[c]) = Len(Own(c)) + Copies(c)
  BY <1>1, MeaningIs
<1>3. CASE at[c] = "runs"
  <2> DEFINE b == Len(Own(c)) + pos[c]
  <2>1. ~ Done(c)
    BY <1>1, <1>3, Active
  <2>2. Opens(c)
    BY <1>1, <1>3 DEF CommandRight, Place
  <2>3. /\ pos[c] \in Nat /\ pos[c] <= Copies(c)
        /\ Len(left[c]) \in Nat /\ Len(left[c]) <= b /\ left[c] = Slice(meaning[c], b - Len(left[c]), b)
    BY <1>1, <1>3 DEF CommandRight, Works
  <2>4. Put(c) = b - Len(left[c])
    BY <1>2, <1>3, <2>1, <2>3 DEF Put
  <2>5. b \in Nat /\ b <= Len(meaning[c]) /\ Put(c) \in Nat /\ Put(c) <= b
    BY <1>2, <2>2, <2>3, <2>4
  <2> HIDE DEF b
  <2>6. left[c] = Slice(meaning[c], Put(c), b)
    BY <2>3, <2>4
  <2>7. left[c] = << >> <=> Put(c) = b
    BY <1>2, <2>5, <2>6, SliceEmpty
  <2>8. Put(c) <= Len(meaning[c])
    BY <1>2, <2>5
  <2> QED
    BY <1>2, <1>3, <2>1, <2>2, <2>3, <2>4, <2>5, <2>6, <2>7, <2>8 DEF b
<1>4. CASE at[c] # "runs"
  BY <1>2, <1>4 DEF Put
<1> QED
  BY <1>3, <1>4

\* What a step of child c leaves of the other children and the shell.
AloneMoves(c) ==
    /\ UNCHANGED shellVars /\ Shapes' /\ ends'[0] = ends[0] /\ at[c] # "none" /\ at'[c] # "none"
    /\ \A d \in Children \ {c} :
          /\ at'[d] = at[d] /\ ends'[d] = ends[d] /\ in'[d] = in[d] /\ out'[d] = out[d]
          /\ pos'[d] = pos[d] /\ left'[d] = left[d] /\ shown'[d] = shown[d]

(* An output is right as long as the command writes nothing.                *)
LEMMA WrittenStays ==
    ASSUME UNCHANGED <<argv, parsed>>, NEW c, Written(c), shown'[c] = shown[c],
           Done(c)' <=> Done(c), OpenFile(c)' => OpenFile(c), Put(c)' = Put(c),
           WritesFile(c) => file'[OutName(c)] = file[OutName(c)]
    PROVE  Written(c)'
BY LineStays DEF Written

(* A pipe is right as long as nobody uses it.                               *)
LEMMA FlowingStays ==
    ASSUME UNCHANGED <<argv, parsed>>, NEW c, Flowing(c), Done(c)' => Done(c), Done(c) => Done(c)',
           pos'[c] = pos[c], Flow(c - 1)' = Flow(c - 1), c > 1 => pipe'[c - 1] = pipe[c - 1]
    PROVE  Flowing(c)'
BY LineStays DEF Flowing

(* Other commands than the one that moves.                                  *)
LEMMA OthersRight ==
    ASSUME PipelineAssumption, PipelineInv, LineRight, Evaluating,
           NEW c \in Commands, AloneMoves(c), NEW d \in Commands, d # c
    PROVE  /\ (Done(d)' <=> Done(d)) /\ Put(d)' = Put(d) /\ Place(d)' /\ Works(d)'
           /\ (WritesFile(d) => file'[OutName(d)] = file[OutName(d)]) => Written(d)'
           /\ (ReadsFile(d) => file'[InName(d)] = file[InName(d)]) => Kept(d)'
           /\ d # c + 1 /\ (d > 1 => pipe'[d - 1] = pipe[d - 1]) => Flowing(d)'
<1>1. CommandRight(d) /\ d \in Children /\ c \in Children
  BY Numbers DEF LineRight
<1>2. /\ UNCHANGED <<sh, i, argv, parsed>> /\ at'[d] = at[d] /\ ends'[d] = ends[d] /\ in'[d] = in[d] /\ out'[d] = out[d]
      /\ pos'[d] = pos[d] /\ left'[d] = left[d] /\ shown'[d] = shown[d]
  BY <1>1 DEF AloneMoves, shellVars
<1>3. Done(d)' <=> Done(d)
  BY <1>2 DEF Done
<1>4. Put(d)' = Put(d)
  BY <1>2, <1>3, LineStays DEF Put
<1>5. Place(d)' /\ Works(d)'
  BY <1>1, <1>2, LineStays DEF CommandRight, Place, Works
<1>6. ASSUME WritesFile(d) => file'[OutName(d)] = file[OutName(d)] PROVE Written(d)'
  <2>1. OpenFile(d)' = OpenFile(d)
    BY <1>2, <1>3, LineStays DEF OpenFile
  <2> QED
    BY <1>1, <1>2, <1>3, <1>4, <1>6, <2>1, WrittenStays DEF CommandRight
<1>7. ASSUME ReadsFile(d) => file'[InName(d)] = file[InName(d)] PROVE Kept(d)'
  BY <1>1, <1>2, <1>7, LineStays DEF CommandRight, Kept
<1>8. ASSUME d # c + 1, d > 1 => pipe'[d - 1] = pipe[d - 1] PROVE Flowing(d)'
  <2>1. CASE d > 1
    <3>1. d - 1 \in Children /\ d - 1 # c
      BY <1>8, <2>1, Numbers
    <3>2. at'[d - 1] = at[d - 1] /\ pos'[d - 1] = pos[d - 1] /\ left'[d - 1] = left[d - 1]
      BY <3>1 DEF AloneMoves
    <3>3. Put(d - 1)' = Put(d - 1)
      BY <1>2, <3>2, LineStays DEF Put, Done
    <3>4. Flow(d - 1)' = Flow(d - 1)
      BY <1>2, <3>3, LineStays DEF Flow
    <3> QED
      BY <1>1, <1>2, <1>3, <1>8, <3>4, FlowingStays DEF CommandRight
  <2>2. CASE ~ d > 1
    BY <2>2 DEF Flowing
  <2> QED
    BY <2>1, <2>2
<1> QED
  BY <1>3, <1>4, <1>5, <1>6, <1>7, <1>8

(* A step of child c is right if it is for c and for what reads from it.    *)
LEMMA MoveRight ==
    ASSUME PipelineAssumption, PipelineInv, LineRight, Evaluating, NEW c \in Commands, AloneMoves(c),
           Place(c)', Works(c)', Written(c)', Flowing(c)',
           c < NumCmds => Flowing(c + 1)',
           \A d \in Commands : d > 1 /\ d # c /\ d # c + 1 => pipe'[d - 1] = pipe[d - 1],
           \A d \in Commands : d # c /\ WritesFile(d) => file'[OutName(d)] = file[OutName(d)],
           \A d \in Commands : ReadsFile(d) => file'[InName(d)] = file[InName(d)]
    PROVE  LineRight'
<1>1. UNCHANGED <<sh, argv, parsed>> /\ ends'[0] = ends[0]
  BY DEF AloneMoves, shellVars
<1>2. LineParsed' /\ (sh' # "wait" => ends'[0] = AllEnds') /\ Commands' = Commands
  BY <1>1, LineStays DEF LineRight
<1>3. ASSUME NEW d \in Commands PROVE CommandRight(d)'
  <2>1. CASE d = c
    <3>1. Kept(c)'
      BY <1>1, LineStays DEF LineRight, CommandRight, Kept
    <3> QED
      BY <2>1, <3>1 DEF CommandRight
  <2>2. CASE d # c
    <3>1. Place(d)' /\ Works(d)' /\ Written(d)' /\ Kept(d)'
      BY <2>2, OthersRight
    <3>2. CASE d = c + 1
      <4>1. c < NumCmds
        BY <3>2, Numbers
      <4> QED
        BY <3>1, <3>2, <4>1 DEF CommandRight
    <3>3. CASE d # c + 1
      <4>1. Flowing(d)'
        BY <2>2, <3>3, OthersRight
      <4> QED
        BY <3>1, <4>1 DEF CommandRight
    <3> QED
      BY <3>2, <3>3
  <2> QED
    BY <2>1, <2>2
<1> QED
  BY <1>2, <1>3 DEF LineRight

----------------------------------------------------------------------------
(* The ends that the children hold. *)

(* Where the standard input and output of a program are.                    *)
LEMMA Ports ==
    ASSUME PipelineAssumption, PipelineInv, LineRight, NEW c \in Commands, at[c] = "runs"
    PROVE  /\ in[c][1] = "file" => ReadsFile(c) /\ in[c][2] = InName(c)
           /\ in[c][1] = "pipe" => ~ ReadsFile(c) /\ c > 1 /\ in[c][2] = c - 1
           /\ in[c][1] \notin {"file", "pipe"} => ~ ReadsFile(c) /\ c = 1
           /\ out[c][1] = "file" => WritesFile(c) /\ out[c][2] = OutName(c)
           /\ out[c][1] = "pipe" => ~ WritesFile(c) /\ c < NumCmds /\ out[c][2] = c
           /\ out[c] = Tty => ~ WritesFile(c) /\ c = NumCmds
<1>1. in[c] = Source(c) /\ out[c] = Sink(c)
  BY DEF LineRight, CommandRight, Place
<1>2. c \in Nat /\ c >= 1 /\ c <= NumCmds /\ NumCmds \in Nat
  BY Numbers
<1> QED
  BY <1>1, <1>2 DEF Source, Sink, FileIn, FileOut, PipeOf, Tty

(* A command that has not ended keeps its pipes open, or the shell does.    *)
LEMMA WriterHolds ==
    ASSUME PipelineAssumption, PipelineInv, LineRight, Evaluating,
           NEW c \in Commands, c < NumCmds, ~ Done(c), ~ WritesFile(c)
    PROVE  HeldForWriting(c)
<1>1. CommandRight(c) /\ c \in Children /\ c \in Procs /\ 0 \in Procs /\ c \in Nat /\ i \in Nat /\ c >= 1 /\ ChildTypes
  BY Numbers DEF LineRight
<1>2. <<c, "write">> \in AllEnds
  BY <1>1, Numbers DEF AllEnds
<1>3. CASE sh # "wait"
  <2>1. <<c, "write">> \in ends[0]
    BY <1>2, <1>3 DEF LineRight
  <2> QED
    BY <1>1, <2>1 DEF HeldForWriting
<1>4. CASE sh = "wait"
  <2>1. c >= i /\ at[c] \in {"in", "out", "dup", "close", "exec", "runs"}
    BY <1>1, <1>4 DEF Done, CommandRight, Place, ChildTypes, Statuses
  <2>2. CASE at[c] \in {"in", "out", "dup", "close"}
    <3>1. <<c, "write">> \in ends[c]
      BY <1>1, <1>2, <2>2 DEF CommandRight, Place
    <3> QED
      BY <1>1, <3>1 DEF HeldForWriting
  <2>3. CASE at[c] \in {"exec", "runs"}
    <3>1. out[c] = PipeOf(c) /\ c > 0
      BY <1>1, <2>3 DEF CommandRight, Place, Sink
    <3> QED
      BY <1>1, <3>1 DEF HeldForWriting
  <2> QED
    BY <2>1, <2>2, <2>3
<1> QED
  BY <1>3, <1>4

(* So do those that have not ended with the pipes that they read.           *)
LEMMA ReaderHolds ==
    ASSUME PipelineAssumption, PipelineInv, LineRight, Evaluating,
           NEW c \in Commands, c > 1, ~ Done(c), ~ ReadsFile(c)
    PROVE  HeldForReading(c - 1)
<1>1. CommandRight(c) /\ c \in Children /\ c \in Procs /\ 0 \in Procs /\ c \in Nat /\ i \in Nat /\ c >= 1 /\ ChildTypes
  BY Numbers DEF LineRight
<1>2. <<c - 1, "read">> \in AllEnds
  BY <1>1, Numbers DEF AllEnds
<1>3. CASE sh # "wait"
  <2>1. <<c - 1, "read">> \in ends[0]
    BY <1>2, <1>3 DEF LineRight
  <2> QED
    BY <1>1, <2>1 DEF HeldForReading
<1>4. CASE sh = "wait"
  <2>1. c >= i /\ at[c] \in {"in", "out", "dup", "close", "exec", "runs"}
    BY <1>1, <1>4 DEF Done, CommandRight, Place, ChildTypes, Statuses
  <2>2. CASE at[c] \in {"in", "out", "dup", "close"}
    <3>1. <<c - 1, "read">> \in ends[c]
      BY <1>1, <1>2, <2>2 DEF CommandRight, Place
    <3> QED
      BY <1>1, <3>1 DEF HeldForReading
  <2>3. CASE at[c] \in {"exec", "runs"}
    <3>1. in[c] = PipeOf(c - 1) /\ c > 0
      BY <1>1, <2>3 DEF CommandRight, Place, Source
    <3> QED
      BY <1>1, <3>1 DEF HeldForReading
  <2> QED
    BY <2>1, <2>2, <2>3
<1> QED
  BY <1>3, <1>4

(* What comes through a pipe is a part of its reader's input, and all of it *)
(* when the writer has ended.                                               *)
LEMMA FlowIs ==
    ASSUME PipelineAssumption, ItemsAssumption, PipelineInv, LineRight, Evaluating,
           NEW c \in Commands, c > 1, ~ ReadsFile(c)
    PROVE  /\ Input(c) \in Seq(Items) /\ Len(Input(c)) \in Nat
           /\ Flow(c - 1) \in Nat /\ Flow(c - 1) <= Len(Input(c))
           /\ Done(c - 1) \/ WritesFile(c - 1) => Flow(c - 1) = Len(Input(c))
<1>1. c - 1 \in Commands
  BY Numbers
<1>2. CASE WritesFile(c - 1)
  <2>1. Input(c) = << >> /\ Flow(c - 1) = 0
    BY <1>2 DEF Input, Flow
  <2>2. << >> \in Seq(Items) /\ Len(<< >>) = 0
    OBVIOUS
  <2> QED
    BY <2>1, <2>2
<1>3. CASE ~ WritesFile(c - 1)
  <2>1. Input(c) = meaning[c - 1] /\ Flow(c - 1) = Put(c - 1)
    BY <1>3 DEF Input, Flow
  <2> QED
    BY <1>1, <1>3, <2>1, PutIs
<1> QED
  BY <1>2, <1>3

(* How much a child has read.                                               *)
LEMMA PosIs ==
    ASSUME PipelineAssumption, PipelineInv, LineRight, Resting, NEW c \in Commands
    PROVE  pos[c] \in Nat
<1>1. c \in Children /\ Works(c)
  BY Numbers DEF LineRight, CommandRight
<1> QED
  BY <1>1 DEF Works, Resting

----------------------------------------------------------------------------
(* The steps of a child, and what they do to its command. *)

(* A child changes nothing of the other children.                           *)
LEMMA ChildAlone ==
    ASSUME PipelineAssumption, PipelineInv, Shapes, NEW c \in Children, Child(c)
    PROVE  AloneMoves(c)
<1>1. ChildTypes /\ 0 # c
  BY DEF PipelineInv, PipelineAssumption, Children
<1>2. CASE RedirectIn(c)
  <2>1. at[c] = "in" /\ UNCHANGED <<shellVars, pipe, file>>
    BY <1>2 DEF RedirectIn
  <2>2. CASE Exits(c, "failed") /\ shown' = [shown EXCEPT ![c] = <<"error">>]
    BY <1>1, <2>1, <2>2 DEF Exits, ChildTypes, Shapes, AloneMoves
  <2>3. CASE /\ at' = [at EXCEPT ![c] = "out"] /\ UNCHANGED <<ends, out, pos, left, shown>>
             /\ in' = in \/ in' = [in EXCEPT ![c] = <<"file", InName(c)>>]
    BY <1>1, <2>1, <2>3 DEF ChildTypes, Shapes, AloneMoves
  <2> QED
    BY <1>2, <2>2, <2>3 DEF RedirectIn
<1>3. CASE RedirectOut(c)
  <2>1. at[c] = "out" /\ UNCHANGED <<shellVars, pipe>>
    BY <1>3 DEF RedirectOut
  <2>2. CASE Exits(c, "failed") /\ shown' = [shown EXCEPT ![c] = <<"error">>] /\ UNCHANGED file
    BY <1>1, <2>1, <2>2 DEF Exits, ChildTypes, Shapes, AloneMoves
  <2>3. CASE /\ at' = [at EXCEPT ![c] = "dup"] /\ UNCHANGED <<ends, in, pos, left, shown>>
             /\ \/ UNCHANGED <<out, file>>
                \/ /\ out' = [out EXCEPT ![c] = <<"file", OutName(c)>>]
                   /\ file' = [file EXCEPT ![OutName(c)] = << >>]
    BY <1>1, <2>1, <2>3 DEF ChildTypes, Shapes, AloneMoves
  <2> QED
    BY <1>3, <2>2, <2>3 DEF RedirectOut
<1>4. CASE DupPipes(c)
  BY <1>1, <1>4 DEF DupPipes, ChildTypes, Shapes, AloneMoves
<1>5. CASE CloseAll(c)
  BY <1>1, <1>5 DEF CloseAll, ChildTypes, Shapes, AloneMoves
<1>6. CASE Execve(c)
  BY <1>1, <1>6 DEF Execve, ChildTypes, Shapes, AloneMoves
<1>7. CASE Write(c)
  BY <1>1, <1>7 DEF Write, ChildTypes, Shapes, AloneMoves
<1>8. CASE Sigpipe(c)
  BY <1>1, <1>8 DEF Sigpipe, Exits, ChildTypes, Shapes, AloneMoves
<1>9. CASE Read(c)
  BY <1>1, <1>9 DEF Read, ChildTypes, Shapes, AloneMoves
<1>10. CASE Ends(c)
  BY <1>1, <1>10 DEF Ends, Exits, ChildTypes, Shapes, AloneMoves
<1> QED
  BY <1>2, <1>3, <1>4, <1>5, <1>6, <1>7, <1>8, <1>9, <1>10 DEF Child

(* A child that does not run a program has nothing to write.                *)
LEMMA ChildRests ==
    ASSUME PipelineAssumption, PipelineInv, Shapes, Resting, NEW c \in Children, Child(c)
    PROVE  Resting'
<1>1. AloneMoves(c) /\ ChildTypes
  BY ChildAlone DEF PipelineInv
<1>2. at'[c] # "runs" => pos'[c] = 0 /\ left'[c] = << >>
  <2>1. CASE RedirectIn(c) \/ RedirectOut(c) \/ DupPipes(c) \/ CloseAll(c)
    BY <1>1, <2>1 DEF RedirectIn, RedirectOut, DupPipes, CloseAll, Exits, ChildTypes, Shapes, Resting
  <2>2. CASE Execve(c) \/ Write(c) \/ Read(c)
    BY <1>1, <2>2 DEF Execve, Write, Read, ChildTypes
  <2>3. CASE Sigpipe(c) \/ Ends(c)
    BY <1>1, <2>3 DEF Sigpipe, Ends, Exits, Shapes
  <2> QED
    BY <2>1, <2>2, <2>3 DEF Child
<1>3. \A d \in Children \ {c} : at'[d] # "runs" => pos'[d] = 0 /\ left'[d] = << >>
  BY <1>1 DEF AloneMoves, Resting
<1> QED
  BY <1>2, <1>3 DEF Resting

(* The steps between fork and the program write nothing.                    *)
LEMMA QuietRight ==
    ASSUME PipelineAssumption, ItemsAssumption, PipelineInv, LineRight, Resting, Evaluating,
           NEW c \in Commands, AloneMoves(c),
           at[c] \in {"in", "out", "dup", "close", "exec"}, at'[c] \in {"out", "dup", "close", "exec", "runs"},
           at[c] = "in" => at'[c] = "out", at[c] = "out" => (WritesFile(c) => file'[OutName(c)] = << >>),
           at[c] # "out" => UNCHANGED file,
           pos'[c] = pos[c], at'[c] = "runs" => left'[c] = Own(c), shown'[c] = shown[c], UNCHANGED pipe,
           \A d \in Commands : d # c /\ WritesFile(d) => file'[OutName(d)] = file[OutName(d)],
           \A d \in Commands : ReadsFile(d) => file'[InName(d)] = file[InName(d)],
           Place(c)'
    PROVE  LineRight'
<1>1. /\ UNCHANGED <<sh, i, argv, parsed>> /\ c \in Children /\ CommandRight(c) /\ LineParsed
      /\ c < NumCmds => c + 1 \in Commands /\ (c + 1) - 1 = c /\ c + 1 # c
      /\ c > 1 => c - 1 \in Commands /\ c - 1 # c
  BY Numbers DEF AloneMoves, shellVars, LineRight
<1>2. ~ Done(c) /\ ~ Done(c)' /\ ~ (sh = "wait" /\ c < i)
  <2>1. ~ Done(c) /\ ~ (sh = "wait" /\ c < i)
    BY <1>1, Active DEF Done
  <2> QED
    BY <1>1, <2>1 DEF Done
<1>3. Put(c) = 0 /\ pos[c] = 0
  BY <1>1, <1>2, PutIs DEF Resting
<1>4. meaning[c] \in Seq(Items) /\ Own(c) \in Seq(Items) /\ Len(Own(c)) \in Nat /\ Len(meaning[c]) \in Nat
      /\ Slice(meaning[c], 0, 0) = << >>
  BY <1>1, MeaningIs, SliceEmpty
<1>5. Works(c)' /\ Put(c)' = 0
  <2>1. CASE at'[c] = "runs"
    <3>1. Opens(c)
      BY <1>1, <2>1, LineStays DEF Place
    <3>2. Copies(c) \in Nat /\ Len(meaning[c]) = Len(Own(c)) + Copies(c) /\ \A k \in 1 .. Len(Own(c)) : meaning[c][k] = Own(c)[k]
      BY <1>1, <3>1, MeaningIs
    <3>3. 0 \in Nat /\ 0 <= Len(Own(c)) /\ Len(Own(c)) <= Len(meaning[c]) /\ Len(Own(c)) - 0 = Len(Own(c))
      BY <1>4, <3>2
    <3>4. \A k \in 1 .. Len(Own(c)) - 0 : Own(c)[k] = meaning[c][0 + k]
      BY <3>2, <3>3
    <3>5. Own(c) = Slice(meaning[c], 0, Len(Own(c)))
      BY <1>4, <3>3, <3>4, IsSlice
    <3>6. left'[c] = Own(c) /\ pos'[c] = 0 /\ Len(left'[c]) = Len(Own(c)) /\ Len(Own(c)) + 0 - Len(Own(c)) = 0 /\ Len(Own(c)) + 0 = Len(Own(c))
      BY <1>3, <1>4, <2>1
    <3>7. Works(c)'
      BY <1>1, <1>4, <2>1, <3>2, <3>3, <3>5, <3>6, LineStays DEF Works
    <3>8. Put(c)' = 0
      BY <1>1, <1>2, <1>4, <2>1, <3>6, LineStays DEF Put
    <3> QED
      BY <3>7, <3>8
  <2>2. CASE at'[c] # "runs"
    BY <1>2, <2>2 DEF Works, Put
  <2> QED
    BY <2>1, <2>2
<1>6. Written(c)'
  <2>1. CASE at[c] = "out"
    <3>1. shown[c] = IF ~ Opens(c) THEN << >>
                     ELSE IF c = NumCmds /\ ~ WritesFile(c) THEN << >> ELSE << >>
      BY <1>1, <1>2, <1>3, <1>4 DEF CommandRight, Written
    <3> QED
      BY <1>1, <1>2, <1>4, <1>5, <2>1, <3>1, LineStays DEF Written
  <2>2. CASE at[c] # "out"
    <3>1. OpenFile(c)' => OpenFile(c)
      BY <1>1, <1>2, <2>2, LineStays DEF OpenFile
    <3>2. Put(c)' = Put(c) /\ (Done(c)' <=> Done(c)) /\ Written(c) /\ file'[OutName(c)] = file[OutName(c)]
      BY <1>1, <1>2, <1>3, <1>5, <2>2 DEF CommandRight
    <3> QED
      BY <1>1, <3>1, <3>2, WrittenStays
  <2> QED
    BY <2>1, <2>2
<1>7. Flowing(c)'
  <2>1. CASE c > 1
    <3>1. Put(c - 1)' = Put(c - 1)
      BY <1>1, <2>1, OthersRight
    <3>2. Flow(c - 1)' = Flow(c - 1)
      BY <1>1, <3>1, LineStays DEF Flow
    <3> QED
      BY <1>1, <1>2, <3>2, FlowingStays DEF CommandRight
  <2>2. CASE ~ c > 1
    BY <2>2 DEF Flowing
  <2> QED
    BY <2>1, <2>2
<1>8. ASSUME c < NumCmds PROVE Flowing(c + 1)'
  <2>1. c + 1 \in Commands /\ (c + 1) - 1 = c /\ c + 1 # c /\ c + 1 \in Children
    BY <1>1, <1>8, Numbers
  <2>2. Flow((c + 1) - 1)' = Flow((c + 1) - 1)
    BY <1>1, <1>3, <1>5, <2>1, LineStays DEF Flow
  <2>3. (Done(c + 1)' <=> Done(c + 1)) /\ pos'[c + 1] = pos[c + 1] /\ Flowing(c + 1)
    BY <2>1, OthersRight DEF AloneMoves, LineRight, CommandRight
  <2> QED
    BY <1>1, <2>2, <2>3, FlowingStays
<1> QED
  BY <1>1, <1>5, <1>6, <1>7, <1>8, MoveRight

(* A command that ends has written all, or somebody has stopped listening;  *)
(* or one of its files has not opened.                                      *)
LEMMA ExitRight ==
    ASSUME PipelineAssumption, ItemsAssumption, PipelineInv, LineRight, Evaluating,
           NEW c \in Commands, AloneMoves(c), UNCHANGED <<pipe, file>>,
           \/ at[c] \in {"in", "out"} /\ at'[c] = "failed" /\ ~ Opens(c) /\ shown'[c] = <<"error">>
           \/ at[c] = "runs" /\ at'[c] = "zombie" /\ shown'[c] = shown[c],
           \/ Put(c) = Len(meaning[c])
           \/ ~ WritesFile(c) /\ c < NumCmds /\ (Done(c + 1) \/ ReadsFile(c + 1))
    PROVE  LineRight'
<1>1. /\ UNCHANGED <<sh, i, argv, parsed>> /\ c \in Children /\ CommandRight(c) /\ LineParsed
      /\ c \in Nat /\ NumCmds \in Nat
  BY Numbers DEF AloneMoves, shellVars, LineRight
<1>2. Done(c)' /\ ~ Done(c)
  BY <1>1, Active DEF Done
<1>3. Put(c)' = Len(meaning[c])
  BY <1>1, <1>2, LineStays DEF Put
<1>4. Place(c)' /\ Works(c)' /\ Flowing(c)'
  <2>1. Opens(c)' <=> Opens(c)
    BY <1>1, LineStays
  <2>2. at[c] = "runs" => Opens(c)
    BY <1>1 DEF CommandRight, Place
  <2> QED
    BY <1>2, <2>1, <2>2 DEF Place, Works, Flowing
<1>5. Written(c)'
  <2>1. CASE ~ Opens(c)
    <3>1. shown'[c] = <<"error">>
      BY <1>1, <2>1 DEF CommandRight, Place
    <3>2. ~ Opens(c)' /\ ~ OpenFile(c)'
      BY <1>1, <2>1, LineStays DEF OpenFile
    <3> QED
      BY <1>2, <3>1, <3>2 DEF Written
  <2>2. CASE Opens(c)
    <3>1. at[c] = "runs" /\ shown'[c] = shown[c] /\ Opens(c)'
      BY <1>1, <2>2, LineStays
    <3>2. WritesFile(c) => file[OutName(c)] = Slice(meaning[c], 0, Put(c))
      BY <1>1, <3>1 DEF CommandRight, Written, OpenFile
    <3>3. shown[c] = IF c = NumCmds /\ ~ WritesFile(c) THEN Slice(meaning[c], 0, Put(c)) ELSE << >>
      BY <1>1, <2>2 DEF CommandRight, Written
    <3>4. WritesFile(c) \/ c = NumCmds => Put(c) = Len(meaning[c])
      BY <1>1
    <3>5. WritesFile(c)' => file'[OutName(c)'] = Slice(meaning'[c], 0, Put(c)')
      BY <1>1, <1>3, <3>2, <3>4, LineStays
    <3>6. shown'[c] = IF c = NumCmds' /\ ~ WritesFile(c)' THEN Slice(meaning'[c], 0, Put(c)') ELSE << >>
      BY <1>1, <1>3, <3>1, <3>3, <3>4, LineStays
    <3> QED
      BY <3>1, <3>5, <3>6 DEF Written
  <2> QED
    BY <2>1, <2>2
<1>6. ASSUME c < NumCmds PROVE Flowing(c + 1)'
  <2>1. c + 1 \in Commands /\ (c + 1) - 1 = c /\ c + 1 # c /\ c + 1 \in Children
    BY <1>6, Numbers
  <2>2. (Done(c + 1)' <=> Done(c + 1)) /\ pos'[c + 1] = pos[c + 1] /\ Flowing(c + 1)
    BY <2>1, OthersRight DEF AloneMoves, LineRight, CommandRight
  <2>3. CASE Put(c) = Len(meaning[c])
    <3>1. Flow((c + 1) - 1)' = Flow((c + 1) - 1)
      BY <1>1, <1>3, <2>1, <2>3, LineStays DEF Flow
    <3> QED
      BY <1>1, <2>2, <3>1, FlowingStays
  <2>4. CASE Done(c + 1) \/ ReadsFile(c + 1)
    <3>1. Done(c + 1)' \/ ReadsFile(c + 1)'
      BY <1>1, <2>2, <2>4, LineStays
    <3> QED
      BY <3>1 DEF Flowing
  <2> QED
    BY <2>3, <2>4
<1> QED
  BY <1>1, <1>4, <1>5, <1>6, MoveRight

(* An item is written.                                                      *)
LEMMA WriteRight ==
    ASSUME PipelineAssumption, ItemsAssumption, PipelineInv, LineRight, Shapes, Resting, Evaluating,
           NEW c \in Commands, AloneMoves(c), Write(c)
    PROVE  LineRight'
<1>1. /\ UNCHANGED <<sh, i, argv, parsed>> /\ c \in Children /\ CommandRight(c) /\ LineParsed
      /\ c \in Nat /\ NumCmds \in Nat /\ at[c] = "runs" /\ left[c] # << >>
      /\ UNCHANGED <<at, ends, in, out, pos>> /\ left' = [left EXCEPT ![c] = Tail(left[c])]
  BY Numbers DEF AloneMoves, shellVars, LineRight, Write
<1> DEFINE b == Len(Own(c)) + pos[c]
           m == meaning[c]
           p == Put(c)
<1>2. /\ p \in Nat /\ p <= b /\ b \in Nat /\ b <= Len(m) /\ m \in Seq(Items) /\ Len(m) \in Nat /\ ~ Done(c) /\ Opens(c)
      /\ left[c] = Slice(m, p, b) /\ (left[c] = << >> <=> p = b) /\ pos[c] \in Nat /\ pos[c] <= Copies(c)
  BY <1>1, PutIs
<1> HIDE DEF b, m, p
<1>3. p < b /\ p + 1 \in Nat /\ p + 1 <= b /\ p < Len(m) /\ p + 1 <= Len(m) /\ p <= Len(m) /\ b - (p + 1) \in Nat /\ 0 <= p
  BY <1>1, <1>2
<1>4. Head(left[c]) = m[p + 1] /\ Tail(left[c]) = Slice(m, p + 1, b)
  BY <1>2, <1>3, SliceTail
<1>5. left'[c] = Slice(m, p + 1, b) /\ Len(left'[c]) = b - (p + 1)
  <2>1. Len(Slice(m, p + 1, b)) = b - (p + 1)
    BY <1>2, <1>3, SliceIs
  <2> QED
    BY <1>1, <1>4, <2>1 DEF Shapes
<1>6. ~ Done(c)'
  BY <1>1, <1>2 DEF Done
<1>7. Put(c)' = p + 1
  <2>1. Len(Own(c)) \in Nat
    BY <1>1, MeaningIs
  <2>2. Put(c)' = (Len(Own(c)) + pos[c]) - Len(left'[c])
    BY <1>1, <1>2, <1>3, <1>5, <1>6, <2>1, LineStays DEF Put, Done, b
  <2> QED
    BY <1>2, <1>3, <1>5, <2>2 DEF b
<1>8. Works(c)'
  <2>1. Len(left'[c]) \in Nat /\ Len(left'[c]) <= b /\ b - Len(left'[c]) = p + 1
    BY <1>2, <1>3, <1>5
  <2>2. left'[c] = Slice(m, b - Len(left'[c]), b)
    BY <1>5, <2>1
  <2> QED
    BY <1>1, <1>2, <2>1, <2>2, LineStays DEF Works, b, m
<1>9. Place(c)'
  BY <1>1, LineStays DEF CommandRight, Place
<1>10. Append(Slice(m, 0, p), m[p + 1]) = Slice(m, 0, p + 1)
  BY <1>2, <1>3, SliceAppend
<1>11. /\ WritesFile(c) => file[OutName(c)] = Slice(m, 0, p)
       /\ shown[c] = IF c = NumCmds /\ ~ WritesFile(c) THEN Slice(m, 0, p) ELSE << >>
  BY <1>1, <1>2 DEF CommandRight, Written, OpenFile, m, p
<1>12. ASSUME WritesFile(c) => file'[OutName(c)] = Slice(m, 0, p + 1),
              shown'[c] = IF c = NumCmds /\ ~ WritesFile(c) THEN Slice(m, 0, p + 1) ELSE << >>
       PROVE  Written(c)'
  BY <1>1, <1>2, <1>6, <1>7, <1>12, LineStays DEF Written, m
<1>13. ASSUME c > 1 => pipe'[c - 1] = pipe[c - 1] PROVE Flowing(c)'
  <2>1. CASE c > 1
    <3>1. c - 1 \in Commands /\ c - 1 # c
      BY <2>1, Numbers
    <3>2. Put(c - 1)' = Put(c - 1)
      BY <3>1, OthersRight
    <3>3. Flow(c - 1)' = Flow(c - 1)
      BY <1>1, <3>2, LineStays DEF Flow
    <3> QED
      BY <1>1, <1>2, <1>6, <1>13, <3>3, FlowingStays DEF CommandRight
  <2>2. CASE ~ c > 1
    BY <2>2 DEF Flowing
  <2> QED
    BY <2>1, <2>2
<1>14. CASE out[c] = Tty
  <2>1. ~ WritesFile(c) /\ c = NumCmds
    BY <1>1, <1>14, Ports
  <2>2. shown' = [shown EXCEPT ![c] = Append(shown[c], m[p + 1])] /\ UNCHANGED <<pipe, file>>
    BY <1>4, <1>14 DEF Write, Tty
  <2>3. shown'[c] = Slice(m, 0, p + 1)
    BY <1>1, <1>10, <1>11, <2>1, <2>2 DEF Shapes
  <2>4. Written(c)' /\ Flowing(c)'
    BY <1>12, <1>13, <2>1, <2>2, <2>3
  <2> QED
    BY <1>1, <1>8, <1>9, <2>1, <2>2, <2>4, MoveRight
<1>15. CASE out[c][1] = "file"
  <2>1. WritesFile(c) /\ out[c][2] = OutName(c)
    BY <1>1, <1>15, Ports
  <2>2. OutName(c) \in Files
    BY <1>1, <2>1 DEF LineParsed
  <2>3. file' = [file EXCEPT ![OutName(c)] = Append(file[OutName(c)], m[p + 1])] /\ UNCHANGED <<pipe, shown>>
    BY <1>4, <1>15, <2>1 DEF Write, Tty
  <2>4. file'[OutName(c)] = Slice(m, 0, p + 1)
    BY <1>10, <1>11, <2>1, <2>2, <2>3 DEF Shapes
  <2>5. Written(c)' /\ Flowing(c)'
    BY <1>11, <1>12, <1>13, <2>1, <2>3, <2>4
  <2>6. /\ \A d \in Commands : d # c /\ WritesFile(d) => file'[OutName(d)] = file[OutName(d)]
        /\ \A d \in Commands : ReadsFile(d) => file'[InName(d)] = file[InName(d)]
    BY <1>1, <2>1, <2>3 DEF LineParsed, Shapes
  <2>7. ASSUME c < NumCmds PROVE Flowing(c + 1)'
    <3>1. c + 1 \in Commands /\ (c + 1) - 1 = c /\ c + 1 # c /\ c + 1 \in Children
      BY <2>7, Numbers
    <3>2. Flow((c + 1) - 1)' = Flow((c + 1) - 1)
      BY <1>1, <2>1, <3>1, LineStays DEF Flow
    <3>3. (Done(c + 1)' <=> Done(c + 1)) /\ pos'[c + 1] = pos[c + 1] /\ Flowing(c + 1)
      BY <3>1, OthersRight DEF AloneMoves, LineRight, CommandRight
    <3> QED
      BY <1>1, <2>3, <3>2, <3>3, FlowingStays
  <2> QED
    BY <1>1, <1>8, <1>9, <2>3, <2>5, <2>6, <2>7, MoveRight
<1>16. CASE out[c][1] = "pipe"
  <2>1. ~ WritesFile(c) /\ out[c][2] = c /\ c < NumCmds
    BY <1>1, <1>16, Ports
  <2>2. c + 1 \in Commands /\ (c + 1) - 1 = c /\ c + 1 # c /\ c + 1 \in Children /\ c \in Pipes /\ c + 1 > 1
    BY <2>1, Numbers
  <2>3. pipe' = [pipe EXCEPT ![c] = Append(pipe[c], m[p + 1])] /\ UNCHANGED <<file, shown>>
    BY <1>4, <1>16, <2>1 DEF Write, Tty
  <2>4. /\ pipe'[c] = Append(pipe[c], m[p + 1])
        /\ \A d \in Commands : d > 1 /\ d # c + 1 => pipe'[d - 1] = pipe[d - 1]
    <3>1. \A d \in Commands : d > 1 => d - 1 \in Pipes /\ (d - 1) + 1 = d
      BY Numbers
    <3> QED
      BY <2>2, <2>3, <3>1 DEF Shapes
  <2>5. Written(c)' /\ Flowing(c)'
    <3>1. c # c + 1
      BY <1>1
    <3> QED
      BY <1>1, <1>11, <1>12, <1>13, <2>1, <2>3, <2>4, <3>1
  <2>6. Flowing(c + 1)'
    <3>1. (Done(c + 1)' <=> Done(c + 1)) /\ pos'[c + 1] = pos[c + 1] /\ Flowing(c + 1)
      BY <2>2, OthersRight DEF AloneMoves, LineRight, CommandRight
    <3>2. CASE Done(c + 1) \/ ReadsFile(c + 1)
      <4>1. Done(c + 1)' \/ ReadsFile(c + 1)'
        BY <1>1, <3>1, <3>2, LineStays
      <4> QED
        BY <4>1 DEF Flowing
    <3>3. CASE ~ Done(c + 1) /\ ~ ReadsFile(c + 1)
      <4>1. Flow(c) = p /\ Flow(c)' = p + 1
        BY <1>1, <1>7, <2>1, LineStays DEF Flow, p
      <4>2. Input(c + 1) = m
        BY <2>1, <2>2, <3>3 DEF Input, m
      <4>3. pos[c + 1] <= p /\ pipe[c] = Slice(m, pos[c + 1], p)
        BY <2>2, <3>1, <3>3, <4>1, <4>2 DEF Flowing
      <4>4. pos[c + 1] \in Nat
        BY <2>2, PosIs
      <4>5. Append(Slice(m, pos[c + 1], p), m[p + 1]) = Slice(m, pos[c + 1], p + 1)
        BY <1>2, <1>3, <4>3, <4>4, SliceAppend
      <4>6. pipe'[c] = Slice(m, pos[c + 1], p + 1) /\ pos[c + 1] <= p + 1
        BY <1>2, <2>4, <4>3, <4>4, <4>5
      <4>7. Input(c + 1)' = m
        BY <1>1, <4>2, LineStays
      <4> QED
        BY <2>2, <3>1, <4>1, <4>6, <4>7 DEF Flowing
    <3> QED
      BY <3>2, <3>3
  <2> QED
    BY <1>1, <1>8, <1>9, <2>3, <2>4, <2>5, <2>6, MoveRight
<1> QED
  BY <1>14, <1>15, <1>16 DEF Write

(* An item is read.                                                         *)
LEMMA ReadRight ==
    ASSUME PipelineAssumption, ItemsAssumption, PipelineInv, LineRight, Shapes, Resting, Evaluating,
           NEW c \in Commands, AloneMoves(c), Read(c)
    PROVE  LineRight'
<1>1. /\ UNCHANGED <<sh, i, argv, parsed>> /\ c \in Children /\ CommandRight(c) /\ LineParsed
      /\ c \in Nat /\ NumCmds \in Nat /\ at[c] = "runs" /\ left[c] = << >> /\ pos[c] < Reads(c) /\ Ready(c)
      /\ UNCHANGED <<at, ends, in, out, file, shown>>
      /\ left' = [left EXCEPT ![c] = <<NextItem(c)>>] /\ pos' = [pos EXCEPT ![c] = pos[c] + 1]
      /\ pipe' = IF in[c][1] = "pipe" THEN [pipe EXCEPT ![in[c][2]] = Tail(pipe[in[c][2]])] ELSE pipe
  BY Numbers DEF AloneMoves, shellVars, LineRight, Read, Reads
<1> DEFINE o == Len(Own(c))
           b == o + pos[c]
           m == meaning[c]
           w == Input(c)
<1>2. /\ Put(c) = b /\ b \in Nat /\ ~ Done(c) /\ Opens(c) /\ pos[c] \in Nat /\ pos[c] <= Copies(c)
  BY <1>1, PutIs
<1>3. /\ m \in Seq(Items) /\ Len(m) \in Nat /\ o \in Nat /\ Reads(c) \in Nat /\ w \in Seq(Items) /\ Len(w) \in Nat
      /\ Copies(c) \in Nat /\ (Copies(c) = Len(w) \/ Copies(c) = Reads(c)) /\ Len(m) = o + Copies(c)
      /\ \A k \in 1 .. Copies(c) : m[o + k] = w[k]
  BY <1>1, <1>2, MeaningIs
<1> HIDE DEF o, b, m, w
<1>4. /\ NextItem(c) = w[pos[c] + 1] /\ pos[c] < Len(w)
      /\ ReadsFile(c) => UNCHANGED pipe
      /\ ~ ReadsFile(c) => /\ c > 1 /\ pos[c] + 1 <= Flow(c - 1)
                           /\ pipe'[c - 1] = Slice(w, pos[c] + 1, Flow(c - 1))
                           /\ \A d \in Commands : d > 1 /\ d # c => pipe'[d - 1] = pipe[d - 1]
  <2>1. CASE in[c][1] = "file"
    <3>1. ReadsFile(c) /\ in[c][2] = InName(c)
      BY <1>1, <2>1, Ports
    <3>2. file[InName(c)] = w
      BY <1>1, <3>1 DEF CommandRight, Kept, Input, w
    <3>3. pos[c] < Len(w)
      BY <1>1, <2>1, <3>1, <3>2 DEF Ready
    <3> QED
      BY <1>1, <2>1, <3>1, <3>2, <3>3 DEF NextItem
  <2>2. CASE in[c][1] = "pipe"
    <3>1. ~ ReadsFile(c) /\ c > 1 /\ in[c][2] = c - 1
      BY <1>1, <2>2, Ports
    <3>2. c - 1 \in Pipes /\ \A d \in Commands : d > 1 => d - 1 \in Pipes /\ (d - 1) + 1 = d
      BY <3>1, Numbers
    <3> DEFINE f == Flow(c - 1)
    <3>3. f \in Nat /\ f <= Len(w)
      BY <3>1, FlowIs DEF w
    <3>4. pos[c] <= f /\ pipe[c - 1] = Slice(w, pos[c], f)
      BY <1>1, <1>2, <3>1 DEF CommandRight, Flowing, w
    <3> HIDE DEF f
    <3>5. pipe[c - 1] # << >>
      BY <1>1, <2>2, <3>1 DEF Ready
    <3>6. pos[c] # f
      BY <1>2, <1>3, <3>3, <3>4, <3>5, SliceEmpty
    <3>7. pos[c] < f /\ pos[c] + 1 <= f /\ pos[c] < Len(w)
      BY <1>2, <1>3, <3>3, <3>4, <3>6
    <3>8. Head(pipe[c - 1]) = w[pos[c] + 1] /\ Tail(pipe[c - 1]) = Slice(w, pos[c] + 1, f)
      <4> DEFINE a == pos[c]
                 g == pipe[c - 1]
      <4>1. a \in Nat /\ f \in Nat /\ a < f /\ f <= Len(w) /\ w \in Seq(Items) /\ g = Slice(w, a, f)
        BY <1>2, <1>3, <3>3, <3>4, <3>7
      <4> HIDE DEF a, g
      <4>2. Head(Slice(w, a, f)) = w[a + 1] /\ Tail(Slice(w, a, f)) = Slice(w, a + 1, f)
        BY <4>1, SliceTail
      <4>3. Head(g) = w[a + 1] /\ Tail(g) = Slice(w, a + 1, f)
        BY <4>1, <4>2
      <4> QED
        BY <4>3 DEF a, g
    <3>9. NextItem(c) = w[pos[c] + 1]
      BY <2>2, <3>1, <3>8 DEF NextItem
    <3>10. /\ pipe'[c - 1] = Slice(w, pos[c] + 1, f)
           /\ \A d \in Commands : d > 1 /\ d # c => pipe'[d - 1] = pipe[d - 1]
      BY <1>1, <2>2, <3>1, <3>2, <3>8 DEF Shapes
    <3> QED
      BY <3>1, <3>7, <3>9, <3>10 DEF f
  <2> QED
    BY <1>1, <2>1, <2>2 DEF Ready
<1> DEFINE q == pos[c] + 1
           x == left'[c]
<1>5. /\ q \in Nat /\ q <= Copies(c) /\ pos'[c] = q /\ q \in 1 .. Copies(c) /\ o + q = b + 1 /\ b < Len(m) /\ b + 1 \in Nat
      /\ m[b + 1] = w[q]
  <2>1. q \in Nat /\ q <= Copies(c)
    BY <1>1, <1>2, <1>3, <1>4
  <2>2. pos'[c] = q
    BY <1>1 DEF Shapes
  <2>3. q \in 1 .. Copies(c)
    BY <1>2, <1>3, <2>1
  <2>4. o + q = b + 1
    BY <1>2, <1>3 DEF b
  <2> HIDE DEF q
  <2>5. m[o + q] = w[q]
    BY <1>3, <2>3
  <2>6. b < Len(m) /\ b + 1 \in Nat
    BY <1>2, <1>3, <2>1, <2>4
  <2> QED
    BY <2>1, <2>2, <2>3, <2>4, <2>5, <2>6
<1>6. x = <<m[b + 1]>> /\ Len(x) = 1
  BY <1>1, <1>4, <1>5 DEF Shapes
<1>7. x = Slice(m, b, b + 1)
  BY <1>2, <1>3, <1>5, <1>6, SliceOne
<1> HIDE DEF q, x
<1>8. Works(c)'
  <2>1. (b + 1) - Len(x) = b /\ Len(x) \in Nat /\ Len(x) <= b + 1
    BY <1>2, <1>6
  <2>2. /\ Len(Own(c)') + pos'[c] = b + 1 /\ pos'[c] \in Nat /\ pos'[c] <= Copies(c)' /\ meaning'[c] = m
    BY <1>1, <1>5, LineStays DEF o, m
  <2> QED
    BY <1>7, <2>1, <2>2 DEF Works, x
<1>9. Put(c)' = Put(c) /\ ~ Done(c)'
  <2>1. ~ Done(c)'
    BY <1>1, <1>2 DEF Done
  <2>2. Len(Own(c)') + pos'[c] = b + 1 /\ Len(left'[c]) = 1
    BY <1>1, <1>5, <1>6, LineStays DEF o, x
  <2>3. Put(c)' = (Len(Own(c)') + pos'[c]) - Len(left'[c])
    <3>1. Len(Own(c)') \in Nat /\ pos'[c] \in Nat /\ Len(left'[c]) \in Nat
      BY <1>1, <1>3, <1>5, <2>2, LineStays DEF o
    <3> QED
      BY <1>1, <2>1, <3>1 DEF Put
  <2>4. Put(c)' = (b + 1) - 1
    BY <2>2, <2>3
  <2> QED
    BY <1>2, <2>1, <2>4
<1>10. Place(c)'
  BY <1>1, LineStays DEF CommandRight, Place
<1>11. Written(c)'
  <2>1. OpenFile(c)' => OpenFile(c)
    BY <1>1, <1>2, <1>9, LineStays DEF OpenFile
  <2> QED
    BY <1>1, <1>2, <1>9, <2>1, WrittenStays DEF CommandRight
<1>12. Flowing(c)'
  <2>1. CASE ReadsFile(c)
    <3>1. ReadsFile(c)'
      BY <1>1, <2>1, LineStays
    <3> QED
      BY <3>1 DEF Flowing
  <2>2. CASE ~ ReadsFile(c)
    <3>1. c - 1 \in Commands /\ c - 1 # c
      BY <1>4, <2>2, Numbers
    <3>2. Put(c - 1)' = Put(c - 1)
      BY <3>1, OthersRight
    <3>3. Flow(c - 1)' = Flow(c - 1)
      BY <1>1, <3>2, LineStays DEF Flow
    <3>4. pos'[c] = pos[c] + 1 /\ Input(c)' = w
      BY <1>1, <1>5, LineStays DEF q, w
    <3> QED
      BY <1>4, <2>2, <3>3, <3>4 DEF Flowing
  <2> QED
    BY <2>1, <2>2
<1>13. \A d \in Commands : d > 1 /\ d # c => pipe'[d - 1] = pipe[d - 1]
  BY <1>4
<1>14. ASSUME c < NumCmds PROVE Flowing(c + 1)'
  <2>1. c + 1 \in Commands /\ (c + 1) - 1 = c /\ c + 1 # c /\ c + 1 \in Children /\ c + 1 > 1
    BY <1>14, Numbers
  <2>2. (Done(c + 1)' <=> Done(c + 1)) /\ pos'[c + 1] = pos[c + 1] /\ Flowing(c + 1)
    BY <2>1, OthersRight DEF AloneMoves, LineRight, CommandRight
  <2>3. Flow((c + 1) - 1)' = Flow((c + 1) - 1)
    BY <1>1, <1>9, <2>1, LineStays DEF Flow
  <2> QED
    BY <1>1, <1>13, <2>1, <2>2, <2>3, FlowingStays
<1> QED
  BY <1>1, <1>8, <1>10, <1>11, <1>12, <1>13, <1>14, MoveRight

(* A program that ends without a signal has copied all it reads.            *)
LEMMA EndsRight ==
    ASSUME PipelineAssumption, ItemsAssumption, PipelineInv, LineRight, Shapes, Resting, Evaluating,
           NEW c \in Commands, AloneMoves(c), Ends(c)
    PROVE  LineRight'
<1>1. /\ c \in Children /\ CommandRight(c) /\ c \in Nat /\ at[c] = "runs" /\ left[c] = << >>
      /\ (pos[c] = Reads(c) \/ AtEof(c)) /\ Exits(c, "zombie") /\ UNCHANGED <<pipe, file, shown>>
      /\ ChildTypes /\ LineParsed /\ c <= NumCmds
  BY Numbers DEF LineRight, Ends, Reads
<1>2. at'[c] = "zombie"
  BY <1>1 DEF Exits, ChildTypes
<1> DEFINE o == Len(Own(c))
           b == o + pos[c]
           m == meaning[c]
           w == Input(c)
<1>3. /\ Put(c) = b /\ b \in Nat /\ ~ Done(c) /\ Opens(c) /\ pos[c] \in Nat /\ pos[c] <= Copies(c)
  BY <1>1, PutIs
<1>4. /\ Len(m) \in Nat /\ o \in Nat /\ Reads(c) \in Nat /\ Len(w) \in Nat /\ w \in Seq(Items)
      /\ Copies(c) \in Nat /\ Copies(c) <= Len(w) /\ Copies(c) <= Reads(c) /\ Len(m) = o + Copies(c)
  BY <1>1, <1>3, MeaningIs
<1> HIDE DEF o, m, w
<1>5. pos[c] = Copies(c)
  <2>1. CASE pos[c] = Reads(c)
    BY <1>3, <1>4, <2>1
  <2>2. CASE AtEof(c)
    <3>1. CASE in[c][1] = "file"
      <4>1. ReadsFile(c) /\ in[c][2] = InName(c)
        BY <1>1, <3>1, Ports
      <4>2. file[InName(c)] = w
        BY <1>1, <4>1 DEF CommandRight, Kept, Input, w
      <4>3. ~ pos[c] < Len(w)
        BY <2>2, <3>1, <4>1, <4>2 DEF AtEof, Ready
      <4> QED
        BY <1>3, <1>4, <4>3
    <3>2. CASE in[c][1] = "pipe"
      <4>1. ~ ReadsFile(c) /\ c > 1 /\ in[c][2] = c - 1
        BY <1>1, <3>2, Ports
      <4>2. c - 1 \in Commands /\ c - 1 < NumCmds
        BY <1>1, <4>1, Numbers
      <4>3. pipe[c - 1] = << >> /\ ~ HeldForWriting(c - 1)
        BY <2>2, <3>2, <4>1 DEF AtEof, Ready
      <4>4. Done(c - 1) \/ WritesFile(c - 1)
        BY <4>2, <4>3, WriterHolds
      <4>5. Flow(c - 1) = Len(w)
        BY <4>1, <4>4, FlowIs DEF w
      <4>6. pos[c] <= Len(w) /\ pipe[c - 1] = Slice(w, pos[c], Len(w))
        BY <1>1, <1>3, <4>1, <4>5 DEF CommandRight, Flowing, w
      <4>7. pos[c] = Len(w)
        BY <1>3, <1>4, <4>3, <4>6, SliceEmpty
      <4> QED
        BY <1>3, <1>4, <4>7
    <3>3. CASE in[c][1] \notin {"file", "pipe"}
      <4>1. ~ ReadsFile(c) /\ c = 1
        BY <1>1, <3>3, Ports
      <4>2. w = << >>
        BY <4>1, MeaningUnfolds DEF Input, w
      <4>3. Len(w) = 0
        BY <4>2
      <4> QED
        BY <1>3, <1>4, <4>3
    <3> QED
      BY <3>1, <3>2, <3>3
  <2> QED
    BY <1>1, <2>1, <2>2
<1>6. Put(c) = Len(meaning[c])
  BY <1>3, <1>4, <1>5 DEF m
<1> QED
  BY <1>1, <1>2, <1>6, ExitRight

(* A program is killed by SIGPIPE when nobody reads what it writes.         *)
LEMMA SigpipeRight ==
    ASSUME PipelineAssumption, ItemsAssumption, PipelineInv, LineRight, Shapes, Resting, Evaluating,
           NEW c \in Commands, AloneMoves(c), Sigpipe(c)
    PROVE  LineRight'
<1>1. /\ c \in Children /\ at[c] = "runs" /\ out[c][1] = "pipe" /\ ~ HeldForReading(out[c][2])
      /\ Exits(c, "zombie") /\ UNCHANGED <<pipe, file, shown>> /\ ChildTypes
  BY Numbers DEF Sigpipe
<1>2. at'[c] = "zombie"
  BY <1>1 DEF Exits, ChildTypes
<1>3. ~ WritesFile(c) /\ c < NumCmds /\ out[c][2] = c
  BY <1>1, Ports
<1>4. c + 1 \in Commands /\ c + 1 > 1 /\ (c + 1) - 1 = c
  BY <1>3, Numbers
<1>5. Done(c + 1) \/ ReadsFile(c + 1)
  BY <1>1, <1>3, <1>4, ReaderHolds
<1> QED
  BY <1>1, <1>2, <1>3, <1>5, ExitRight

(* The steps of a child do to its command what they should.                 *)
LEMMA ChildRight ==
    ASSUME PipelineAssumption, ItemsAssumption, PipelineInv, LineRight, Shapes, Resting, Evaluating,
           NEW c \in Children, Child(c)
    PROVE  LineRight'
<1>1. AloneMoves(c) /\ ChildTypes /\ Held(c)
  BY ChildAlone DEF PipelineInv
<1>2. c \in Commands
  BY <1>1, Active DEF AloneMoves
<1>3. /\ CommandRight(c) /\ UNCHANGED <<sh, i, argv, parsed>> /\ parsed.in[c] \in Nat /\ parsed.out[c] \in Nat
      /\ AllEnds' = AllEnds
      /\ at'[c] # "none"
  BY <1>1, <1>2, LineStays DEF LineRight, LineParsed, AloneMoves, shellVars
<1>4. CASE RedirectIn(c)
  <2>1. at[c] = "in" /\ UNCHANGED <<pipe, file>> /\ in[c] = Tty /\ out[c] = Tty /\ ends[c] = AllEnds
    BY <1>3, <1>4 DEF RedirectIn, CommandRight, Place
  <2>2. CASE parsed.in[c] > 0 /\ file[InName(c)] = NoFile
    <3>1. at'[c] = "failed" /\ shown'[c] = <<"error">>
      BY <1>1, <1>4, <2>2 DEF RedirectIn, Exits, ChildTypes, Shapes
    <3>2. ~ Opens(c)
      BY <1>3, <2>2 DEF CommandRight, Kept, ReadsFile, Opens
    <3>3. meaning[c] = << >> /\ Put(c) = 0
      <4>1. LineParsed /\ ~ Done(c)
        BY <1>1, <1>2, <2>1, Active DEF LineRight, AloneMoves
      <4> QED
        BY <1>2, <2>1, <3>2, <4>1, MeaningIs, PutIs
    <3>4. Put(c) = Len(meaning[c])
      BY <3>3
    <3> QED
      BY <1>1, <1>2, <2>1, <3>1, <3>2, <3>4, ExitRight
  <2>3. CASE parsed.in[c] = 0 \/ file[InName(c)] # NoFile
    <3>1. at' = [at EXCEPT ![c] = "out"] /\ UNCHANGED <<ends, out, pos, left, shown>>
      BY <1>3, <1>4, <2>3 DEF RedirectIn
    <3>2. in'[c] = FileIn(c)
      BY <1>1, <1>3, <1>4, <2>1, <2>3 DEF RedirectIn, FileIn, ReadsFile, ChildTypes
    <3>3. ReadsFile(c) => Content[InName(c)] # NoFile
      BY <1>3, <2>3 DEF CommandRight, Kept, ReadsFile
    <3>4. at'[c] = "out"
      BY <1>1, <3>1 DEF ChildTypes
    <3>5. Place(c)'
      BY <1>3, <2>1, <3>1, <3>2, <3>3, <3>4, LineStays DEF Place, Tty
    <3> QED
      BY <1>1, <1>2, <2>1, <3>1, <3>4, <3>5, QuietRight
  <2> QED
    BY <1>3, <2>2, <2>3
<1>5. CASE RedirectOut(c)
  <2>1. /\ at[c] = "out" /\ UNCHANGED pipe
        /\ in[c] = FileIn(c) /\ out[c] = Tty /\ ends[c] = AllEnds /\ (ReadsFile(c) => Content[InName(c)] # NoFile)
    BY <1>3, <1>5 DEF RedirectOut, CommandRight, Place
  <2>2. CASE WritesFile(c) /\ OutName(c) \in Unwritable
    <3>1. at'[c] = "failed" /\ shown'[c] = <<"error">> /\ UNCHANGED file
      BY <1>1, <1>5, <2>2 DEF RedirectOut, Exits, ChildTypes, Shapes, WritesFile
    <3>2. ~ Opens(c)
      BY <2>2 DEF WritesFile, Opens
    <3>3. meaning[c] = << >> /\ Put(c) = 0
      <4>1. LineParsed /\ ~ Done(c)
        BY <1>1, <1>2, <2>1, Active DEF LineRight, AloneMoves
      <4> QED
        BY <1>2, <2>1, <3>2, <4>1, MeaningIs, PutIs
    <3>4. Put(c) = Len(meaning[c])
      BY <3>3
    <3> QED
      BY <1>1, <1>2, <2>1, <3>1, <3>2, <3>4, ExitRight
  <2>3. CASE WritesFile(c) /\ OutName(c) \notin Unwritable
    <3>1. /\ at' = [at EXCEPT ![c] = "dup"] /\ UNCHANGED <<ends, in, pos, left, shown>>
          /\ out' = [out EXCEPT ![c] = <<"file", OutName(c)>>]
          /\ file' = [file EXCEPT ![OutName(c)] = << >>] /\ OutName(c) \in Files
      BY <1>2, <1>3, <1>5, <2>3 DEF RedirectOut, WritesFile, LineRight, LineParsed
    <3>2. at'[c] = "dup" /\ out'[c] = FileOut(c) /\ Opens(c)
      BY <1>1, <2>1, <2>3, <3>1 DEF FileOut, WritesFile, ReadsFile, Opens, ChildTypes
    <3>3. Place(c)'
      BY <1>3, <2>1, <3>1, <3>2, LineStays DEF Place
    <3>4. /\ file'[OutName(c)] = << >>
          /\ \A d \in Commands : d # c /\ WritesFile(d) => file'[OutName(d)] = file[OutName(d)]
          /\ \A d \in Commands : ReadsFile(d) => file'[InName(d)] = file[InName(d)]
      BY <1>2, <2>3, <3>1 DEF LineRight, LineParsed, Shapes
    <3> QED
      BY <1>1, <1>2, <2>1, <3>1, <3>2, <3>3, <3>4, QuietRight
  <2>4. CASE ~ WritesFile(c)
    <3>1. at' = [at EXCEPT ![c] = "dup"] /\ UNCHANGED <<ends, in, out, pos, left, shown, file>>
      BY <1>3, <1>5, <2>4 DEF RedirectOut, WritesFile
    <3>2. at'[c] = "dup" /\ out'[c] = FileOut(c) /\ Opens(c)
      BY <1>1, <2>1, <2>4, <3>1 DEF FileOut, WritesFile, ReadsFile, Opens, ChildTypes
    <3>3. Place(c)'
      BY <1>3, <2>1, <3>1, <3>2, LineStays DEF Place
    <3> QED
      BY <1>1, <1>2, <2>1, <2>4, <3>1, <3>2, <3>3, QuietRight
  <2> QED
    BY <2>2, <2>3, <2>4
<1>6. CASE DupPipes(c)
  <2>1. /\ at[c] = "dup" /\ at' = [at EXCEPT ![c] = "close"] /\ UNCHANGED <<ends, pos, left, pipe, file, shown>>
        /\ in[c] = FileIn(c) /\ out[c] = FileOut(c) /\ ends[c] = AllEnds /\ Opens(c)
    BY <1>3, <1>6 DEF DupPipes, CommandRight, Place
  <2>2. at'[c] = "close"
    BY <1>1, <2>1 DEF ChildTypes
  <2>3. in'[c] = Source(c) /\ out'[c] = Sink(c)
    BY <1>1, <1>3, <1>6, <2>1 DEF DupPipes, Source, Sink, FileIn, FileOut, ReadsFile, WritesFile, ChildTypes
  <2>4. Place(c)'
    BY <1>3, <2>1, <2>2, <2>3, LineStays DEF Place
  <2> QED
    BY <1>1, <1>2, <2>1, <2>2, <2>4, QuietRight
<1>7. CASE CloseAll(c)
  <2>1. /\ at[c] = "close" /\ at' = [at EXCEPT ![c] = "exec"] /\ UNCHANGED <<in, out, pos, left, pipe, file, shown>>
        /\ in[c] = Source(c) /\ out[c] = Sink(c) /\ Opens(c)
    BY <1>3, <1>7 DEF CloseAll, CommandRight, Place
  <2>2. at'[c] = "exec"
    BY <1>1, <2>1 DEF ChildTypes
  <2>3. Place(c)'
    BY <1>3, <2>1, <2>2, LineStays DEF Place
  <2> QED
    BY <1>1, <1>2, <2>1, <2>2, <2>3, QuietRight
<1>8. CASE Execve(c)
  <2>1. /\ at[c] = "exec" /\ at' = [at EXCEPT ![c] = "runs"] /\ UNCHANGED <<in, out, pos, pipe, file, shown>>
        /\ left' = [left EXCEPT ![c] = Own(c)]
        /\ in[c] = Source(c) /\ out[c] = Sink(c) /\ Opens(c)
    BY <1>3, <1>8 DEF Execve, CommandRight, Place, Own
  <2>2. at'[c] = "runs" /\ left'[c] = Own(c)
    BY <1>1, <2>1 DEF ChildTypes, Shapes
  <2>3. Place(c)'
    BY <1>3, <2>1, <2>2, LineStays DEF Place
  <2> QED
    BY <1>1, <1>2, <2>1, <2>2, <2>3, QuietRight
<1> QED
  BY <1>1, <1>2, <1>4, <1>5, <1>6, <1>7, <1>8, WriteRight, SigpipeRight, ReadRight, EndsRight DEF Child

----------------------------------------------------------------------------
(* The steps of the shell. *)

(* No element is between a place and itself.                                *)
LEMMA SliceNone == ASSUME NEW s PROVE Slice(s, 0, 0) = << >>
<1>1. Slice(s, 0, 0) = [k \in 1 .. 0 |-> s[0 + k]]
  BY DEF Slice
<1>2. 1 .. 0 = {}
  OBVIOUS
<1> QED
  BY <1>1, <1>2

(* A step that only forks, reaps or closes leaves a line right.             *)
LEMMA ShellRight ==
    ASSUME PipelineAssumption, PipelineInv, LineRight,
           UNCHANGED <<argv, parsed, in, out, pos, left, pipe, file, shown>>,
           \A d \in Commands : /\ (Done(d)' <=> Done(d)) /\ Place(d)'
                               /\ at'[d] = at[d] \/ (at[d] \in {"none", "zombie", "failed"} /\ at'[d] \in {"none", "in"}),
           sh' # "wait" => ends'[0] = AllEnds
    PROVE  LineRight'
<1>1. LineParsed' /\ (sh' # "wait" => ends'[0] = AllEnds') /\ Commands' = Commands
  BY LineStays DEF LineRight
<1>2. ASSUME NEW d \in Commands
      PROVE  /\ Put(d)' = Put(d) /\ Flow(d)' = Flow(d) /\ (Done(d)' <=> Done(d)) /\ Place(d)' /\ CommandRight(d)
             /\ OpenFile(d)' => OpenFile(d)
             /\ at'[d] = "runs" <=> at[d] = "runs"
  <2>1. at'[d] = "runs" <=> at[d] = "runs"
    OBVIOUS
  <2>2. Put(d)' = Put(d)
    BY <2>1, LineStays DEF Put
  <2>3. Flow(d)' = Flow(d)
    BY <2>2, LineStays DEF Flow
  <2>4. OpenFile(d)' => OpenFile(d)
    BY LineStays DEF OpenFile
  <2> QED
    BY <2>1, <2>2, <2>3, <2>4 DEF LineRight
<1>3. ASSUME NEW d \in Commands PROVE CommandRight(d)'
  <2>1. Works(d)'
    BY <1>2, LineStays DEF CommandRight, Works
  <2>2. Written(d)'
    BY <1>2, WrittenStays DEF CommandRight
  <2>3. Flowing(d)'
    <3>1. CASE d > 1
      <4>1. Flow(d - 1)' = Flow(d - 1)
        BY <1>2, <3>1, Numbers
      <4> QED
        BY <1>2, <4>1, FlowingStays DEF CommandRight
    <3>2. CASE ~ d > 1
      BY <3>2 DEF Flowing
    <3> QED
      BY <3>1, <3>2
  <2>4. Kept(d)'
    BY <1>2, LineStays DEF CommandRight, Kept
  <2> QED
    BY <1>2, <2>1, <2>2, <2>3, <2>4 DEF CommandRight
<1> QED
  BY <1>1, <1>3 DEF LineRight

(* A line is read.                                                          *)
LEMMA ReadLineRight ==
    ASSUME PipelineAssumption, ItemsAssumption, PipelineInv, LineInv, ReadLine
    PROVE  LineInv'
<1> DEFINE line == Head(todo)
<1>1. /\ sh = "prompt" /\ todo # << >> /\ argv' = line /\ parsed' = parseargs(line) /\ i' = 1 /\ ran' = FALSE
      /\ shown' = [c \in Children |-> << >>] /\ pipe' = [j \in Pipes |-> << >>]
      /\ UNCHANGED <<at, in, out, pos, left>>
  BY DEF ReadLine
<1>2. todo \in Seq(SessionLines) /\ ChildTypes /\ Forked /\ \A c \in Children : Held(c)
  BY DEF PipelineInv, ShellTypes
<1>3. line \in SessionLines /\ Len(line) \in Nat
  BY <1>1, <1>2, HeadTailProperties DEF PipelineAssumption
<1> HIDE DEF line
<1>4. Shapes /\ Resting /\ Content \in [Files -> Seq(Items) \cup {NoFile}] /\ MaxCmds \in Nat
  BY DEF LineInv, ItemsAssumption, PipelineAssumption
<1>5. Resting' /\ Composed'
  BY <1>1, <1>4 DEF Resting, Composed
<1>6. \A c \in Children : at'[c] = "none" /\ in'[c] = Tty /\ out'[c] = Tty /\ pos'[c] = 0 /\ c \in Nat /\ c >= 1
  BY <1>1, <1>2, <1>4 DEF Forked, Held, Resting, Children
<1>7. CASE sh' \in {"prompt", "exited"} /\ UNCHANGED file
  <2>1. Shapes'
    BY <1>1, <1>4, <1>7 DEF Shapes
  <2> QED
    BY <1>1, <1>5, <1>7, <2>1 DEF LineInv, Evaluating
<1>8. CASE /\ FirstWord(line) # {} /\ sh' = "fork" /\ file' = Content
           /\ ends' = [ends EXCEPT ![0] = (1 .. Len(parsed'.cmds) - 1) \X {"read", "write"}]
  <2>1. Shapes'
    BY <1>1, <1>4, <1>8 DEF Shapes
  <2>2. Len(line) > 0
    <3>1. CASE Len(line) = 0
      <4>1. Min({1, Len(line)}) \in {1, 0} /\ Min({1, Len(line)}) <= 0
        BY <3>1, LeastOfTwo
      <4>2. FirstWord(line) = {}
        BY <4>1 DEF FirstWord
      <4> QED
        BY <1>8, <4>2
    <3> QED
      BY <1>3, <3>1
  <2>3. Redirects(line, parsed')
    BY <1>1, <1>3, <2>2, LineIsParsed
  <2>4. LineParsed'
    BY <1>1, <2>3 DEF Redirects, LineParsed, NumCmds, Children, Commands, ReadsFile, WritesFile, InName, OutName
  <2>5. ends'[0] = AllEnds'
    <3>1. 0 \in DOMAIN ends
      BY <1>2, <1>4 DEF ChildTypes, Procs
    <3> QED
      BY <1>8, <3>1 DEF AllEnds, NumCmds
  <2>6. ASSUME NEW c \in Commands' PROVE CommandRight(c)'
    <3>1. c \in Children /\ NumCmds' \in Children /\ (c > 1 => c - 1 \in Children /\ c - 1 \in Pipes)
      BY <1>4, <2>4 DEF LineParsed, Commands, Children, Pipes
    <3>2. ~ Done(c)' /\ Put(c)' = 0
      BY <1>6, <1>8, <3>1 DEF Done, Put
    <3>3. Place(c)'
      BY <1>1, <1>6, <1>8, <3>1 DEF Place
    <3>4. Works(c)' /\ Kept(c)'
      BY <1>6, <1>8, <3>1 DEF Works, Kept
    <3>5. Written(c)'
      <4>1. ~ OpenFile(c)' /\ shown'[c] = << >> /\ Slice(meaning', 0, 0) = << >> /\ Slice(meaning'[c], 0, Put(c)') = << >>
        BY <1>1, <1>6, <3>1, <3>2, SliceNone DEF OpenFile
      <4> QED
        BY <3>2, <4>1 DEF Written
    <3>6. Flowing(c)'
      <4>1. CASE c > 1
        <5>1. Put(c - 1)' = 0
          BY <1>6, <1>8, <3>1, <4>1 DEF Done, Put
        <5>2. Flow(c - 1)' = 0
          BY <5>1 DEF Flow
        <5>3. pipe'[c - 1] = << >> /\ pos'[c] = 0 /\ Slice(Input(c)', 0, 0) = << >>
          BY <1>1, <1>6, <3>1, <4>1, SliceNone
        <5> QED
          BY <5>2, <5>3 DEF Flowing
      <4>2. CASE ~ c > 1
        BY <4>2 DEF Flowing
      <4> QED
        BY <4>1, <4>2
    <3> QED
      BY <3>3, <3>4, <3>5, <3>6 DEF CommandRight
  <2>7. LineRight'
    BY <2>4, <2>5, <2>6 DEF LineRight
  <2> QED
    BY <1>1, <1>5, <2>1, <2>7 DEF LineInv
<1>9. FirstWord(line) \notin Ignored \cup {{"quit"}} => FirstWord(line) # {}
  BY DEF Ignored
<1> QED
  BY <1>1, <1>7, <1>8, <1>9 DEF ReadLine, line

(* The children and the line stay as they are while a line is evaluated.    *)
LEMMA ShellKeeps ==
    ASSUME PipelineAssumption, PipelineInv, LineInv, Evaluating, LineRight', sh' \in {"fork", "setpgid", "close", "wait"},
           UNCHANGED <<argv, parsed, ran, pos, left, pipe, file, shown>>,
           \A c \in Children : at'[c] = "runs" <=> at[c] = "runs"
    PROVE  LineInv'
<1>1. Shapes /\ Resting /\ ran = FALSE
  BY DEF LineInv
<1>2. Shapes' /\ Resting' /\ ran' = FALSE
  BY <1>1 DEF Shapes, Resting
<1> QED
  BY <1>2 DEF LineInv, Composed

(* A child is forked.                                                       *)
LEMMA ForkRight ==
    ASSUME PipelineAssumption, ItemsAssumption, PipelineInv, LineInv, Fork
    PROVE  LineInv'
<1>1. /\ sh = "fork" /\ sh' = "setpgid" /\ at' = [at EXCEPT ![i] = "in"] /\ ends' = [ends EXCEPT ![i] = ends[0]]
      /\ UNCHANGED <<argv, parsed, ran, i, in, out, pos, left, pipe, file, shown>>
  BY DEF Fork
<1>2. Evaluating /\ LineRight
  BY <1>1 DEF Evaluating, LineInv
<1>3. /\ ChildTypes /\ Forked /\ (\A c \in Children : Held(c)) /\ i \in Children /\ i \in Nat /\ i # 0 /\ i \in Procs
      /\ \A c \in Commands : c \in Children /\ c \in Nat
  BY <1>2, Numbers DEF ShellTypes
<1>4. at[i] = "none" /\ in[i] = Tty /\ out[i] = Tty /\ ends[0] = AllEnds
  BY <1>1, <1>2, <1>3 DEF Forked, Held, LineRight
<1>5. /\ at'[i] = "in" /\ ends'[i] = AllEnds /\ ends'[0] = AllEnds
      /\ \A c \in Children : c # i => at'[c] = at[c] /\ ends'[c] = ends[c]
  BY <1>1, <1>3, <1>4 DEF ChildTypes
<1>6. ASSUME NEW d \in Commands
      PROVE  /\ (Done(d)' <=> Done(d)) /\ Place(d)'
             /\ at'[d] = at[d] \/ (at[d] \in {"none", "zombie", "failed"} /\ at'[d] \in {"none", "in"})
  <2>1. CommandRight(d) /\ AllEnds' = AllEnds
    BY <1>1, <1>2, LineStays DEF LineRight
  <2>2. CASE d = i
    BY <1>1, <1>3, <1>4, <1>5, <2>1, <2>2, LineStays DEF Done, Place
  <2>3. CASE d # i
    <3>1. at'[d] = at[d] /\ ends'[d] = ends[d] /\ (d <= i <=> d < i)
      BY <1>3, <1>5, <2>3
    <3> QED
      BY <1>1, <1>3, <2>1, <3>1, LineStays DEF Done, CommandRight, Place
  <2> QED
    BY <2>2, <2>3
<1>7. LineRight'
  BY <1>1, <1>2, <1>5, <1>6, ShellRight
<1>8. \A c \in Children : at'[c] = "runs" <=> at[c] = "runs"
  BY <1>4, <1>5
<1> QED
  BY <1>1, <1>2, <1>7, <1>8, ShellKeeps

(* A child is put into its group, or the shell dies of it.                  *)
LEMMA SetpgidRight ==
    ASSUME PipelineAssumption, ItemsAssumption, PipelineInv, LineInv, Setpgid
    PROVE  LineInv'
<1>1. sh = "setpgid" /\ UNCHANGED <<argv, parsed, ran, at, in, out, pos, left, pipe, file, shown>>
  BY DEF Setpgid
<1>2. Evaluating /\ LineRight /\ Shapes /\ Resting /\ ran = FALSE
  BY <1>1 DEF Evaluating, LineInv
<1>3. CASE sh' = "died"
  BY <1>1, <1>2, <1>3 DEF LineInv, Shapes, Resting, Evaluating, Composed
<1>4. CASE /\ sh' = IF i < NumCmds THEN "fork" ELSE "close"
           /\ i' = IF i < NumCmds THEN i + 1 ELSE 1
           /\ UNCHANGED ends
  <2>1. i \in Nat /\ NumCmds \in Nat /\ \A c \in Commands : c \in Children /\ c \in Nat /\ c <= NumCmds
    BY <1>2, Numbers
  <2>2. \A d \in Commands : d < i + 1 <=> d <= i
    BY <2>1
  <2>3. ~ i < NumCmds => \A d \in Commands : d <= i
    BY <2>1
  <2>4. ASSUME NEW d \in Commands PROVE (Done(d)' <=> Done(d)) /\ Place(d)'
    <3>1. CommandRight(d)
      BY <1>2 DEF LineRight
    <3>2. Done(d)' <=> Done(d)
      BY <1>1, <1>4 DEF Done
    <3>3. Place(d)'
      BY <1>1, <1>4, <2>2, <2>3, <3>1, LineStays DEF CommandRight, Place
    <3> QED
      BY <3>2, <3>3
  <2>5. ends'[0] = AllEnds
    BY <1>1, <1>2, <1>4 DEF LineRight
  <2>6. LineRight'
    BY <1>1, <1>2, <2>4, <2>5, ShellRight
  <2>7. sh' \in {"fork", "setpgid", "close", "wait"}
    BY <1>4
  <2> QED
    BY <1>1, <1>2, <2>6, <2>7, ShellKeeps
<1> QED
  BY <1>3, <1>4 DEF Setpgid

(* The shell closes its ends.                                               *)
LEMMA CloseEndsRight ==
    ASSUME PipelineAssumption, ItemsAssumption, PipelineInv, LineInv, CloseEnds
    PROVE  LineInv'
<1>1. /\ sh = "close" /\ sh' = "wait" /\ UNCHANGED <<argv, parsed, ran, i, at, in, out, pos, left, pipe, file, shown>>
      /\ ends' = [ends EXCEPT ![0] = {}]
  BY DEF CloseEnds
<1>2. Evaluating /\ LineRight
  BY <1>1 DEF Evaluating, LineInv
<1>3. i = 1 /\ ChildTypes /\ \A c \in Commands : c \in Children /\ c \in Nat /\ c >= 1 /\ c # 0
  BY <1>1, <1>2, Numbers DEF Forked
<1>4. ASSUME NEW d \in Commands PROVE (Done(d)' <=> Done(d)) /\ Place(d)'
  <2>1. CommandRight(d) /\ ~ d < i /\ ends'[d] = ends[d]
    BY <1>1, <1>2, <1>3 DEF LineRight, ChildTypes
  <2> QED
    BY <1>1, <2>1, LineStays DEF Done, CommandRight, Place
<1>5. LineRight'
  BY <1>1, <1>2, <1>4, ShellRight
<1> QED
  BY <1>1, <1>2, <1>5, ShellKeeps

(* When all commands have ended, all that they mean is written.             *)
LEMMA AllWritten ==
    ASSUME PipelineAssumption, ItemsAssumption, PipelineInv, LineRight, Evaluating,
           \A c \in Commands : Done(c)
    PROVE  \A c \in 1 .. NumCmds :
              /\ Opens(c) /\ parsed.out[c] > 0 => file[OutName(c)] = meaning[c]
              /\ shown[c] = IF ~ Opens(c) THEN <<"error">>
                            ELSE IF c = NumCmds /\ parsed.out[c] = 0 THEN meaning[c] ELSE << >>
<1> TAKE c \in 1 .. NumCmds
<1>1. c \in Commands /\ Done(c) /\ Written(c)
  BY DEF Commands, LineRight, CommandRight
<1>2. Put(c) = Len(meaning[c]) /\ meaning[c] \in Seq(Items)
  BY <1>1, PutIs
<1>3. Slice(meaning[c], 0, Put(c)) = meaning[c]
  BY <1>2, SliceWhole
<1>4. WritesFile(c) <=> ~ parsed.out[c] = 0
  BY <1>1 DEF WritesFile, LineRight, LineParsed
<1>5. parsed.out[c] > 0 <=> WritesFile(c)
  BY DEF WritesFile
<1> QED
  BY <1>1, <1>3, <1>4, <1>5 DEF Written, OpenFile

(* A child is reaped; after the last one eval returns.                      *)
LEMMA WaitpidRight ==
    ASSUME PipelineAssumption, ItemsAssumption, PipelineInv, LineInv, Waitpid
    PROVE  LineInv'
<1>1. /\ sh = "wait" /\ at[i] \in {"zombie", "failed"} /\ at' = [at EXCEPT ![i] = "none"]
      /\ UNCHANGED <<argv, parsed, ends, in, out, pos, left, pipe, file, shown>>
  BY DEF Waitpid
<1>2. Evaluating /\ LineRight /\ Shapes /\ Resting
  BY <1>1 DEF Evaluating, LineInv
<1>3. ChildTypes /\ i \in Nat /\ i \in Children /\ NumCmds \in Nat /\ \A c \in Commands : c \in Children /\ c \in Nat /\ c <= NumCmds
  BY <1>2, Numbers DEF ShellTypes
<1>4. at'[i] = "none" /\ \A c \in Children : c # i => at'[c] = at[c]
  BY <1>1, <1>3 DEF ChildTypes
<1>5. \A c \in Children : at'[c] = "runs" <=> at[c] = "runs"
  BY <1>1, <1>4
<1>6. CASE i < NumCmds
  <2>1. sh' = "wait" /\ i' = i + 1 /\ ran' = ran
    BY <1>1, <1>6 DEF Waitpid
  <2>2. ASSUME NEW d \in Commands
        PROVE  /\ (Done(d)' <=> Done(d)) /\ Place(d)'
               /\ at'[d] = at[d] \/ (at[d] \in {"none", "zombie", "failed"} /\ at'[d] \in {"none", "in"})
    <3>1. CommandRight(d)
      BY <1>2 DEF LineRight
    <3>2. CASE d = i
      <4>1. d < i' /\ ~ d >= i'
        BY <1>3, <2>1, <3>2
      <4> QED
        BY <1>1, <1>4, <2>1, <3>2, <4>1 DEF Done, Place
    <3>3. CASE d # i
      <4>1. at'[d] = at[d] /\ (d < i' <=> d < i) /\ (d >= i' <=> d >= i)
        BY <1>3, <1>4, <2>1, <3>3
      <4> QED
        BY <1>1, <2>1, <3>1, <4>1, LineStays DEF Done, CommandRight, Place
    <3> QED
      BY <3>2, <3>3
  <2>3. LineRight'
    BY <1>1, <1>2, <2>1, <2>2, ShellRight
  <2> QED
    BY <1>1, <1>2, <1>5, <2>1, <2>3, ShellKeeps
<1>7. CASE ~ i < NumCmds
  <2>1. sh' = "prompt" /\ ran' = TRUE
    BY <1>1, <1>7 DEF Waitpid
  <2>2. \A c \in Commands : Done(c)
    BY <1>1, <1>3, <1>7 DEF Done
  <2> DEFINE All == \A c \in 1 .. NumCmds :
                       /\ Opens(c) /\ parsed.out[c] > 0 => file[OutName(c)] = meaning[c]
                       /\ shown[c] = IF ~ Opens(c) THEN <<"error">>
                                     ELSE IF c = NumCmds /\ parsed.out[c] = 0 THEN meaning[c] ELSE << >>
  <2>3. All
    BY <1>2, <2>2, AllWritten
  <2>4. Composed'
    BY <1>1, <2>1, <2>3, LineStays DEF Composed
  <2>5. Shapes' /\ Resting'
    BY <1>1, <1>2, <1>5 DEF Shapes, Resting
  <2> QED
    BY <2>1, <2>4, <2>5 DEF LineInv, Evaluating
<1> QED
  BY <1>6, <1>7

----------------------------------------------------------------------------
(* The theorem. *)

(* At first nothing is evaluated.                                           *)
LEMMA LineInit == ASSUME PipelineAssumption, ItemsAssumption, Init PROVE LineInv
<1>1. Content \in [Files -> Seq(Items) \cup {NoFile}]
  BY DEF ItemsAssumption
<1>2. Shapes /\ Resting
  BY <1>1 DEF Init, Shapes, Resting
<1> QED
  BY <1>2 DEF Init, LineInv, Evaluating, Composed

(* A step of a child keeps the invariant, also after the shell's death.     *)
LEMMA ChildKeepsLine ==
    ASSUME PipelineAssumption, ItemsAssumption, PipelineInv, LineInv, NEW c \in Children, Child(c)
    PROVE  LineInv'
<1>1. Shapes /\ Resting
  BY DEF LineInv
<1>2. AloneMoves(c) /\ Resting'
  BY <1>1, ChildAlone, ChildRests
<1>3. Shapes' /\ UNCHANGED <<sh, ran, argv, parsed>>
  BY <1>2 DEF AloneMoves, shellVars
<1>4. CASE Evaluating
  <2>1. LineRight /\ ran = FALSE
    BY <1>4 DEF LineInv
  <2>2. LineRight'
    BY <1>1, <1>4, <2>1, ChildRight
  <2> QED
    BY <1>2, <1>3, <2>1, <2>2 DEF LineInv, Composed
<1>5. CASE ~ Evaluating
  <2>1. sh = "died"
    BY <1>2, <1>5 DEF PipelineInv, ShellTypes, Forked, Evaluating, AloneMoves
  <2> QED
    BY <1>2, <1>3, <1>5, <2>1 DEF LineInv, Composed, Evaluating
<1> QED
  BY <1>4, <1>5

(* Every step keeps the invariant.                                          *)
LEMMA LineStep ==
    ASSUME PipelineAssumption, ItemsAssumption, PipelineInv, LineInv, [Next]_vars
    PROVE  LineInv'
<1>1. CASE EndOfInput
  <2>1. sh' = "exited" /\ UNCHANGED <<argv, parsed, ran, at, pos, left, pipe, file, shown>>
    BY <1>1 DEF EndOfInput, childVars
  <2>2. Composed'
    BY <2>1, LineStays DEF LineInv, Composed
  <2> QED
    BY <2>1, <2>2 DEF LineInv, Shapes, Resting, Evaluating
<1>2. CASE UNCHANGED vars
  <2>1. UNCHANGED <<argv, parsed, ran, sh, i, at, ends, in, out, pos, left, pipe, file, shown>>
    BY <1>2 DEF vars, shellVars, childVars
  <2>2. Composed'
    BY <2>1, LineStays DEF LineInv, Composed
  <2>3. Shapes' /\ Resting' /\ (Evaluating' \/ sh' = "died" => ran' = FALSE)
    BY <2>1 DEF LineInv, Shapes, Resting, Evaluating
  <2>4. Evaluating' => LineRight'
    <3> SUFFICES ASSUME Evaluating PROVE LineRight'
      BY <2>1 DEF Evaluating
    <3>1. LineRight
      BY DEF LineInv
    <3>2. \A d \in Commands : (Done(d)' <=> Done(d)) /\ Place(d)'
      <4> TAKE d \in Commands
      <4>1. Place(d)
        BY <3>1 DEF LineRight, CommandRight
      <4> QED
        BY <2>1, <4>1, LineStays DEF Done, Place
    <3>3. sh' # "wait" => ends'[0] = AllEnds
      BY <2>1, <3>1 DEF LineRight
    <3> QED
      BY <2>1, <3>1, <3>2, <3>3, ShellRight
  <2> QED
    BY <2>2, <2>3, <2>4 DEF LineInv
<1> QED
  BY <1>1, <1>2, ReadLineRight, ForkRight, SetpgidRight, CloseEndsRight, WaitpidRight, ChildKeepsLine DEF Next, Shell

(* The invariant holds in every behaviour.                                  *)
LEMMA LineInvariant == ASSUME PipelineAssumption, ItemsAssumption PROVE Spec => [](PipelineInv /\ LineInv)
<1>1. Init => PipelineInv /\ LineInv
  BY InvInit, LineInit
<1>2. (PipelineInv /\ LineInv) /\ [Next]_vars => (PipelineInv /\ LineInv)'
  BY PipelineStep, LineStep
<1> QED
  BY <1>1, <1>2, PTL DEF Spec

(* When eval has returned, the files and the terminal hold what the         *)
(* composition of the line's commands gives, whatever the interleaving of   *)
(* the commands, the size of the pipes and the fate of their readers: a     *)
(* command that is killed because nobody reads has lost nothing that shows. *)
THEOREM LineComposes == ASSUME PipelineAssumption, ItemsAssumption PROVE Spec => []Composed
<1>1. LineInv => Composed
  BY DEF LineInv
<1> QED
  BY <1>1, LineInvariant, PTL

----------------------------------------------------------------------------
(* The parallel loop of mandelbrot.c. *)

CONSTANTS Jobs, MaxIter, Escape(_, _)
VARIABLES job, x, y, count, offset, place, col, row, rows, iterated, mixed, loaded, colour, pixels

M == INSTANCE Mandelbrot WITH k <- count, at <- place, i <- col, j <- row, todo <- rows

(* What is assumed: pictures and threads of natural numbers, not more       *)
(* threads than some number, and at least one iteration.                    *)
MandelbrotAssumption ==
    /\ \A r \in Jobs : r.nthreads \in Nat \ {0} /\ r.xres \in Nat \ {0} /\ r.yres \in Nat \ {0}
    /\ \E n \in Nat : \A r \in Jobs : r.nthreads <= n
    /\ MaxIter \in Nat \ {0}
    /\ \A c \in Nat, r \in Nat : Escape(c, r) \in Nat

Places == {"row", "point", "start", "test", "body", "load", "store", "offset", "compare", "colour", "write", "done"}
Byte == 0 .. 255
Pixel == {w \in Seq(Byte) : Len(w) = 6}

\* What holds of a thread whatever the others do to the shared variables: its
\* row is one of its own, and what it writes is a whole pixel.
Within(t) ==
    /\ rows[t] \subseteq M!Share(t)
    /\ place[t] = "done" /\ t <= job.nthreads => rows[t] = {}
    /\ M!InRow(t) => row[t] \in M!Share(t) \ rows[t] /\ col[t] \in 0 .. job.xres - 1
    /\ place[t] = "colour" => colour[t] \in Seq(Byte) /\ Len(colour[t]) <= 5
    /\ place[t] = "write" => colour[t] \in Pixel

PictureTypes ==
    /\ job \in Jobs /\ place \in [M!Threads -> Places]
    /\ x \in 0 .. job.xres - 1 /\ y \in M!Rows /\ count \in Nat /\ offset \in 0 .. M!Size - 1
    /\ col \in [M!Threads -> Nat] /\ row \in [M!Threads -> Nat] /\ iterated \in [M!Threads -> Nat]
    /\ DOMAIN mixed = M!Threads /\ loaded \in [M!Threads -> Nat] /\ DOMAIN colour = M!Threads
    /\ DOMAIN rows = M!Threads
    /\ pixels \in [0 .. M!Size - 1 -> {<< >>} \cup Pixel]

PictureInv == PictureTypes /\ \A t \in M!Threads : Within(t)

\* What a pixel has to be.
Right(r, c) == M!Colour(1 + M!Min({Escape(c, r), MaxIter - 1}))
Shown(r, c) == pixels[r * job.xres + c] = Right(r, c)

\* A thread that works on a point.
InPoint(t) == place[t] \notin {"row", "done", "point"}

\* What holds of the thread that is inside a row, as long as they take turns:
\* the shared variables are its own, and the counter is one ahead of the
\* iterations, but for the increment.
Coherent(t) ==
    /\ M!InRow(t) => y = row[t]
    /\ InPoint(t) => x = col[t] /\ mixed[t] = FALSE
    /\ place[t] \in {"test", "body"} => count = iterated[t] + 1
    /\ place[t] \in {"load", "store"} => count = iterated[t]
    /\ place[t] = "store" => loaded[t] = count
    /\ place[t] = "start" => iterated[t] = 0
    /\ place[t] \in {"start", "test", "load", "store"} =>
          iterated[t] <= Escape(col[t], row[t]) /\ iterated[t] <= MaxIter - 1
    /\ place[t] = "body" => iterated[t] < Escape(col[t], row[t]) /\ iterated[t] < MaxIter - 1
    /\ place[t] \in {"offset", "compare", "colour", "write"} =>
          count = 1 + M!Min({Escape(col[t], row[t]), MaxIter - 1})
    /\ place[t] \in {"compare", "colour", "write"} => offset = row[t] * job.xres + col[t]
    /\ place[t] = "colour" =>
          count < MaxIter /\ \A b \in 1 .. Len(colour[t]) : colour[t][b] = M!ColourByte(b, count)
    /\ place[t] = "write" => colour[t] = M!Colour(count)

\* A thread has drawn the rows that it has not to do, the present one up to its
\* column.
DrawnBy(t) ==
    \A r \in M!Share(t) \ rows[t], c \in 0 .. job.xres - 1 :
        (M!InRow(t) /\ r = row[t] => c < col[t]) => Shown(r, c)

TurnsInv == \A t \in M!Threads : Coherent(t) /\ DrawnBy(t)

----------------------------------------------------------------------------
(* There are as many threads as the program asks for.                       *)
LEMMA EnoughThreads ==
    ASSUME MandelbrotAssumption, job \in Jobs
    PROVE  1 .. job.nthreads \subseteq M!Threads
<1> DEFINE T == {r.nthreads : r \in Jobs}
<1>1. PICK n \in Nat : \A r \in Jobs : r.nthreads <= n
  BY DEF MandelbrotAssumption
<1>2. T \subseteq 0 .. n /\ job.nthreads \in T
  <2>1. ASSUME NEW r \in Jobs PROVE r.nthreads \in 0 .. n
    <3>1. r.nthreads \in Nat \ {0} /\ r.nthreads <= n
      BY <1>1 DEF MandelbrotAssumption
    <3> QED
      BY <3>1
  <2>2. job.nthreads \in T
    OBVIOUS
  <2> QED
    BY <2>1, <2>2
<1>3. M!Threads = 1 .. M!Max(T)
  BY DEF M!Threads
<1> HIDE DEF T
<1>4. Max(T) \in T /\ job.nthreads <= Max(T)
  BY <1>2, MaxOfNats
<1>5. M!Max(T) = Max(T)
  BY DEF M!Max, Max
<1> DEFINE m == Max(T)  j == job.nthreads
<1>6. m \in 0 .. n /\ j \in 0 .. n /\ j <= m /\ M!Threads = 1 .. m
  BY <1>2, <1>3, <1>4, <1>5
<1> HIDE DEF m, j
<1>7. 1 .. j \subseteq M!Threads
  BY <1>6
<1> QED
  BY <1>7 DEF j

(* Enough rows for each thread that all are done.                           *)
LEMMA RoundedUp ==
    ASSUME NEW a \in Nat \ {0}, NEW n \in Nat \ {0}, NEW r \in 0 .. a - 1
    PROVE  r \div ((a + n - 1) \div n) \in 0 .. n - 1
<1> DEFINE q == (a + n - 1) \div n
<1>1. q \in Nat /\ a <= q * n
  <2>1. a + n - 1 \in Nat /\ q \in Int /\ (a + n - 1) % n \in 0 .. n - 1
    OBVIOUS
  <2>2. a + n - 1 = (n * q) + ((a + n - 1) % n)
    OBVIOUS
  <2>3. q \in Nat
    OBVIOUS
  <2>4. n * q = q * n /\ q * n \in Nat
    BY <2>3
  <2> QED
    BY <2>1, <2>2, <2>3, <2>4
<1> HIDE DEF q
<1>2. q # 0
  BY <1>1
<1> DEFINE d == r \div q
<1>3. d \in Nat /\ q * d <= r
  <2>1. d \in Int /\ r % q \in 0 .. q - 1 /\ r = (q * d) + (r % q)
    BY <1>1, <1>2
  <2>2. d \in Nat
    BY <1>1, <1>2
  <2>3. q * d \in Nat
    BY <1>1, <2>2
  <2> QED
    BY <2>1, <2>2, <2>3
<1> HIDE DEF d
<1>4. d < n
  <2> SUFFICES ASSUME ~ d < n PROVE FALSE
    OBVIOUS
  <2>1. PICK g \in Nat : d = n + g
    <3>1. d - n \in Nat /\ d = n + (d - n)
      BY <1>3
    <3> QED
      BY <3>1
  <2>2. q * d = q * n + q * g /\ q * g \in Nat /\ q * n \in Nat
    BY <1>1, <2>1
  <2> QED
    BY <1>1, <1>3, <2>2
<1> QED
  BY <1>3, <1>4 DEF d, q

(* Every row belongs to one of the program's threads.                       *)
LEMMA RowsShared ==
    ASSUME MandelbrotAssumption, job \in Jobs, NEW r \in M!Rows
    PROVE  \E t \in 1 .. job.nthreads : t \in M!Threads /\ r \in M!Share(t)
<1>1. job.nthreads \in Nat \ {0} /\ job.yres \in Nat \ {0} /\ M!Rows = 0 .. job.yres - 1
  BY DEF MandelbrotAssumption, M!Rows
<1> DEFINE d == r \div ((job.yres + job.nthreads - 1) \div job.nthreads)
<1>2. d \in 0 .. job.nthreads - 1
  BY <1>1, RoundedUp
<1>3. r \in M!Share(d + 1)
  <2> HIDE DEF d
  <2>1. d = (d + 1) - 1
    BY <1>1, <1>2
  <2> QED
    BY <2>1 DEF M!Share, d
<1> HIDE DEF d
<1>4. d + 1 \in 1 .. job.nthreads
  BY <1>1, <1>2
<1> QED
  BY <1>3, <1>4, EnoughThreads

(* No row belongs to two threads.                                           *)
LEMMA RowsApart ==
    ASSUME NEW s \in M!Threads, NEW t \in M!Threads, s # t
    PROVE  M!Share(s) \cap M!Share(t) = {}
<1>1. s \in Int /\ t \in Int
  BY DEF M!Threads
<1>2. s - 1 # t - 1
  BY <1>1
<1> QED
  BY <1>2 DEF M!Share

(* The rows of a thread are rows of the picture.                            *)
LEMMA SharesAreRows == ASSUME NEW t PROVE M!Share(t) \subseteq M!Rows
BY DEF M!Share

(* The offsets of two points are different.                                 *)
LEMMA OffsetsDiffer ==
    ASSUME NEW w \in Nat \ {0}, NEW r \in Nat, NEW s \in Nat, NEW c \in 0 .. w - 1, NEW d \in 0 .. w - 1,
           r * w + c = s * w + d
    PROVE  r = s /\ c = d
<1>1. ASSUME NEW a \in Nat, NEW b \in Nat, a < b, NEW e \in 0 .. w - 1, NEW f \in 0 .. w - 1
      PROVE  a * w + e < b * w + f
  <2>1. PICK g \in Nat : b = a + 1 + g
    <3>1. b - a - 1 \in Nat /\ b = a + 1 + (b - a - 1)
      BY <1>1
    <3> QED
      BY <3>1
  <2>2. b * w = a * w + w + g * w
    BY <2>1
  <2>3. g * w \in Nat /\ a * w \in Nat
    BY <2>1
  <2> QED
    BY <2>2, <2>3
<1>2. r = s
  <2>1. ~ r < s /\ ~ s < r
    <3>1. r * w \in Nat /\ s * w \in Nat
      OBVIOUS
    <3> QED
      BY <1>1, <3>1
  <2> QED
    BY <2>1
<1>3. r * w \in Nat
  OBVIOUS
<1> QED
  BY <1>2, <1>3

(* The offset of a point is inside the picture.                             *)
LEMMA OffsetInside ==
    ASSUME NEW w \in Nat \ {0}, NEW h \in Nat \ {0}, NEW r \in 0 .. h - 1, NEW c \in 0 .. w - 1
    PROVE  r * w + c \in 0 .. w * h - 1
<1>1. PICK g \in Nat : h = r + 1 + g
  <2>1. h - r - 1 \in Nat /\ h = r + 1 + (h - r - 1)
    OBVIOUS
  <2> QED
    BY <2>1
<1>2. w * h = r * w + w + g * w
  BY <1>1
<1>3. g * w \in Nat /\ r * w \in Nat
  BY <1>1
<1> QED
  BY <1>2, <1>3

(* The lesser of two numbers.                                               *)
LEMMA LesserOf ==
    ASSUME NEW a \in Nat, NEW b \in Nat
    PROVE  M!Min({a, b}) = IF a <= b THEN a ELSE b
<1>1. M!Min({a, b}) = Min({a, b})
  BY DEF M!Min, Min
<1> QED
  BY <1>1, MinOfTwo

(* Numbers of the picture.                                                  *)
LEMMA PictureNumbers ==
    ASSUME MandelbrotAssumption, PictureTypes
    PROVE  /\ job.xres \in Nat \ {0} /\ job.yres \in Nat \ {0} /\ M!Rows = 0 .. job.yres - 1
           /\ M!Size = job.xres * job.yres /\ MaxIter \in Nat \ {0}
BY DEF MandelbrotAssumption, PictureTypes, M!Rows, M!Size

(* A thread inside a row is at a point of the picture.                      *)
LEMMA AtPoint ==
    ASSUME MandelbrotAssumption, PictureInv, NEW t \in M!Threads, M!InRow(t)
    PROVE  /\ row[t] \in M!Share(t) \ rows[t] /\ row[t] \in M!Rows /\ col[t] \in 0 .. job.xres - 1
           /\ row[t] \in Nat /\ col[t] \in Nat /\ iterated[t] \in Nat /\ loaded[t] \in Nat /\ count \in Nat
           /\ Escape(col[t], row[t]) \in Nat /\ MaxIter \in Nat \ {0} /\ job.xres \in Nat \ {0}
<1>1. row[t] \in M!Share(t) \ rows[t] /\ col[t] \in 0 .. job.xres - 1
  BY DEF PictureInv, Within
<1>2. row[t] \in Nat /\ col[t] \in Nat /\ iterated[t] \in Nat /\ loaded[t] \in Nat /\ count \in Nat
  BY DEF PictureInv, PictureTypes
<1> QED
  BY <1>1, <1>2, SharesAreRows, PictureNumbers DEF MandelbrotAssumption, PictureInv

\* A step of a thread leaves the private variables of the others alone.
Only(t) ==
    /\ UNCHANGED <<job, M!Threads, M!Rows, M!Size>> /\ \A s \in M!Threads : UNCHANGED M!Share(s)
    /\ \A s \in M!Threads \ {t} :
           UNCHANGED <<place[s], row[s], col[s], rows[s], iterated[s], mixed[s], loaded[s], colour[s]>>

(* Every step does.                                                         *)
LEMMA StepOnly == ASSUME PictureTypes, NEW t \in M!Threads, M!Thread(t) PROVE Only(t)
<1>1. job' = job
  BY DEF M!Thread, M!Row, M!RowsDone, M!Point, M!Start, M!Test, M!Body, M!Load, M!Store, M!Offset, M!Compare,
         M!Sample, M!Write
<1>2. ASSUME NEW s \in M!Threads \ {t}
      PROVE  /\ place'[s] = place[s] /\ row'[s] = row[s] /\ col'[s] = col[s] /\ rows'[s] = rows[s]
             /\ iterated'[s] = iterated[s] /\ mixed'[s] = mixed[s] /\ loaded'[s] = loaded[s] /\ colour'[s] = colour[s]
  <2> USE DEF PictureTypes, M!Goes
  <2>1. CASE M!Row(t) \/ M!RowsDone(t)
    BY <2>1 DEF M!Row, M!RowsDone
  <2>2. CASE M!Point(t) \/ M!Start(t)
    BY <2>2 DEF M!Point, M!Start
  <2>3. CASE M!Test(t) \/ M!Body(t)
    BY <2>3 DEF M!Test, M!Body
  <2>4. CASE M!Load(t) \/ M!Store(t) \/ M!Offset(t)
    BY <2>4 DEF M!Load, M!Store, M!Offset
  <2>5. CASE M!Compare(t) \/ M!Sample(t)
    BY <2>5 DEF M!Compare, M!Sample
  <2>6. CASE M!Write(t)
    BY <2>6 DEF M!Write
  <2> QED
    BY <2>1, <2>2, <2>3, <2>4, <2>5, <2>6 DEF M!Thread
<1> QED
  BY <1>1, <1>2 DEF Only, M!Threads, M!Rows, M!Size, M!Share

\* What is to be shown of a step.
StepKeeps == PictureInv' /\ (TurnsInv /\ M!TakeTurns /\ M!TakeTurns' => TurnsInv')

(* What holds of a thread's private variables holds of them elsewhere.      *)
LEMMA OtherThreadsKeep ==
    ASSUME PictureInv, NEW t \in M!Threads, Only(t), PictureTypes', Within(t)'
    PROVE  PictureInv'
<1> SUFFICES ASSUME NEW s \in M!Threads PROVE Within(s)'
  BY DEF PictureInv, Only
<1>1. CASE s # t
  BY <1>1 DEF PictureInv, Within, Only, M!InRow
<1> QED
  BY <1>1

(* What a pixel has to be does not change.                                  *)
LEMMA RightStays == ASSUME NEW r, NEW c PROVE Right(r, c)' = Right(r, c)
BY DEF Right, M!Colour, M!Min

(* The picture of a thread, where no pixel is set and the thread stays.     *)
LEMMA DrawnStays ==
    ASSUME NEW s \in M!Threads, DrawnBy(s), UNCHANGED <<job, pixels, M!Share(s), row[s], col[s], rows[s]>>,
           M!InRow(s) <=> M!InRow(s)'
    PROVE  DrawnBy(s)'
<1>1. ASSUME NEW r \in M!Share(s) \ rows[s], NEW c \in 0 .. job.xres - 1, M!InRow(s) /\ r = row[s] => c < col[s]
      PROVE  Shown(r, c)'
  <2>1. Shown(r, c)
    BY <1>1 DEF DrawnBy
  <2> QED
    BY <2>1, RightStays DEF Shown
<1>2. M!Share(s)' = M!Share(s) /\ rows'[s] = rows[s] /\ row'[s] = row[s] /\ col'[s] = col[s] /\ job' = job
  OBVIOUS
<1> HIDE DEF M!Share
<1> QED
  BY <1>1, <1>2 DEF DrawnBy

(* As long as they take turns, a step inside a row is nothing to others.    *)
LEMMA OthersTurn ==
    ASSUME PictureInv, NEW t \in M!Threads, Only(t), M!InRow(t) \/ M!InRow(t)', M!TakeTurns, M!TakeTurns',
           NEW s \in M!Threads \ {t}
    PROVE  ~ M!InRow(s) /\ ~ M!InRow(s)' /\ Coherent(s)'
<1>1. M!InRow(s) <=> M!InRow(s)'
  BY DEF Only, M!InRow
<1>2. ~ M!InRow(s)
  BY <1>1 DEF M!TakeTurns, Only
<1>3. ~ M!InRow(s)' /\ ~ InPoint(s)' /\ place'[s] \in {"row", "done"}
  BY <1>1, <1>2 DEF M!InRow, InPoint
<1> QED
  BY <1>2, <1>3 DEF Coherent

(* A step inside a point keeps all but the iteration.                       *)
LEMMA InsideKeeps ==
    ASSUME MandelbrotAssumption, PictureInv, NEW t \in M!Threads, M!Thread(t), M!InRow(t),
           NEW next \in Places \ {"row", "point", "done"}, M!Goes(t, next),
           UNCHANGED <<y, col, row, rows, pixels>>,
           iterated' \in [M!Threads -> Nat], loaded' \in [M!Threads -> Nat], DOMAIN mixed' = M!Threads,
           DOMAIN colour' = M!Threads, x' \in 0 .. job.xres - 1, count' \in Nat, offset' \in 0 .. M!Size - 1,
           next = "colour" => colour'[t] \in Seq(Byte) /\ Len(colour'[t]) <= 5,
           next = "write" => colour'[t] \in Pixel,
           TurnsInv => Coherent(t)'
    PROVE  StepKeeps
<1>1. Only(t)
  BY StepOnly DEF PictureInv
<1>2. place' \in [M!Threads -> Places] /\ place'[t] = next /\ M!InRow(t)'
  BY DEF M!Goes, PictureInv, PictureTypes, Places, M!InRow
<1>3. PictureTypes'
  BY <1>1, <1>2 DEF PictureTypes, PictureInv, Only
<1>4. Within(t)'
  BY <1>1, <1>2 DEF PictureInv, Within, Only
<1>5. ASSUME TurnsInv, M!TakeTurns, M!TakeTurns', NEW s \in M!Threads PROVE Coherent(s)' /\ DrawnBy(s)'
  <2>1. Coherent(s)'
    BY <1>1, <1>2, <1>5, OthersTurn
  <2>2. M!InRow(s)' <=> M!InRow(s)
    BY <1>1, <1>2 DEF Only, M!InRow
  <2>3. DrawnBy(s)
    BY <1>5 DEF TurnsInv
  <2>4. UNCHANGED <<job, pixels, M!Share(s), row[s], col[s], rows[s]>>
    BY <1>1 DEF Only
  <2>5. DrawnBy(s)'
    BY <2>2, <2>3, <2>4, DrawnStays
  <2> QED
    BY <2>1, <2>5
<1> QED
  BY <1>1, <1>3, <1>4, <1>5, OtherThreadsKeep DEF StepKeeps, TurnsInv, Only

(* x = xmin + i * dx                                                        *)
LEMMA PointKeeps ==
    ASSUME MandelbrotAssumption, PictureInv, NEW t \in M!Threads, M!Point(t) PROVE StepKeeps
<1>1. /\ place[t] = "point" /\ UNCHANGED <<job, y, count, offset, col, row, rows, loaded, colour, pixels>>
      /\ x' = col[t] /\ M!Goes(t, "start") /\ iterated' = [iterated EXCEPT ![t] = 0]
      /\ mixed' = [mixed EXCEPT ![t] = FALSE]
  BY DEF M!Point
<1>2. M!InRow(t) /\ M!Thread(t)
  BY <1>1 DEF M!InRow, M!Thread
<1>3. iterated'[t] = 0 /\ mixed'[t] = FALSE /\ place'[t] = "start" /\ iterated' \in [M!Threads -> Nat]
      /\ DOMAIN mixed' = M!Threads
  BY <1>1 DEF M!Goes, PictureInv, PictureTypes
<1>4. ASSUME TurnsInv PROVE Coherent(t)'
  <2>1. y = row[t]
    BY <1>2, <1>4 DEF TurnsInv, Coherent
  <2>2. 0 <= Escape(col[t], row[t]) /\ 0 <= MaxIter - 1
    BY <1>2, AtPoint
  <2> QED
    BY <1>1, <1>3, <2>1, <2>2 DEF Coherent
<1>5. "start" \in Places \ {"row", "point", "done"}
  BY DEF Places
<1> QED
  BY <1>1, <1>2, <1>3, <1>4, <1>5, AtPoint, InsideKeeps DEF PictureInv, PictureTypes

(* k = 1                                                                    *)
LEMMA StartKeeps ==
    ASSUME MandelbrotAssumption, PictureInv, NEW t \in M!Threads, M!Start(t) PROVE StepKeeps
<1>1. /\ place[t] = "start" /\ count' = 1 /\ M!Goes(t, "test")
      /\ UNCHANGED <<job, x, y, offset, col, row, rows, iterated, mixed, loaded, colour, pixels>>
  BY DEF M!Start
<1>2. M!InRow(t) /\ M!Thread(t) /\ InPoint(t)
  BY <1>1 DEF M!InRow, M!Thread, InPoint
<1>3. place'[t] = "test"
  BY <1>1 DEF M!Goes, PictureInv, PictureTypes
<1>4. ASSUME TurnsInv PROVE Coherent(t)'
  <2>1. y = row[t] /\ x = col[t] /\ mixed[t] = FALSE /\ iterated[t] = 0
        /\ 0 <= Escape(col[t], row[t]) /\ 0 <= MaxIter - 1
    BY <1>1, <1>2, <1>4, AtPoint DEF TurnsInv, Coherent
  <2>2. count' = iterated'[t] + 1
    BY <1>1, <2>1
  <2> QED
    BY <1>1, <1>3, <2>1, <2>2 DEF Coherent
<1>5. "test" \in Places \ {"row", "point", "done"}
  BY DEF Places
<1> QED
  BY <1>1, <1>2, <1>4, <1>5, InsideKeeps DEF PictureInv, PictureTypes

(* The test of the loop.                                                    *)
LEMMA TestKeeps ==
    ASSUME MandelbrotAssumption, PictureInv, NEW t \in M!Threads, M!Test(t) PROVE StepKeeps
<1>1. place[t] = "test" /\ UNCHANGED <<job, x, y, count, offset, col, row, rows, iterated, mixed, loaded, colour, pixels>>
  BY DEF M!Test, M!shared
<1>2. M!InRow(t) /\ M!Thread(t) /\ InPoint(t)
  BY <1>1 DEF M!InRow, M!Thread, InPoint
<1>3. /\ Escape(col[t], row[t]) \in Nat /\ MaxIter \in Nat \ {0} /\ iterated[t] \in Nat /\ count \in Nat
  BY <1>2, AtPoint
<1>4. PICK escaped \in M!Escaped(t) : M!Goes(t, IF count < MaxIter /\ ~ escaped THEN "body" ELSE "offset")
  BY DEF M!Test
<1>5. PICK next \in {"body", "offset"} :
          M!Goes(t, next) /\ (next = "body" <=> count < MaxIter /\ ~ escaped)
  <2>1. CASE count < MaxIter /\ ~ escaped
    BY <1>4, <2>1
  <2>2. CASE ~ (count < MaxIter /\ ~ escaped)
    BY <1>4, <2>2
  <2> QED
    BY <2>1, <2>2
<1>6. place'[t] = next
  BY <1>5 DEF M!Goes, PictureInv, PictureTypes
<1>7. ASSUME TurnsInv PROVE Coherent(t)'
  <2>1. /\ y = row[t] /\ x = col[t] /\ mixed[t] = FALSE
        /\ count = iterated[t] + 1 /\ iterated[t] <= Escape(col[t], row[t]) /\ iterated[t] <= MaxIter - 1
    BY <1>1, <1>2, <1>7 DEF TurnsInv, Coherent
  <2>2. escaped <=> iterated[t] >= Escape(col[t], row[t])
    BY <1>4, <2>1 DEF M!Escaped
  <2>3. next = "body" => iterated[t] < Escape(col[t], row[t]) /\ iterated[t] < MaxIter - 1
    BY <1>3, <1>5, <2>1, <2>2
  <2>4. next = "offset" => count = 1 + M!Min({Escape(col[t], row[t]), MaxIter - 1})
    <3>1. M!Min({Escape(col[t], row[t]), MaxIter - 1})
          = IF Escape(col[t], row[t]) <= MaxIter - 1 THEN Escape(col[t], row[t]) ELSE MaxIter - 1
      BY <1>3, LesserOf
    <3> QED
      BY <1>3, <1>5, <2>1, <2>2, <3>1
  <2>5. (M!Min({Escape(col[t], row[t]), MaxIter - 1}))' = M!Min({Escape(col[t], row[t]), MaxIter - 1})
    BY <1>1 DEF M!Min
  <2> HIDE DEF M!Min
  <2> QED
    BY <1>1, <1>6, <2>1, <2>3, <2>4, <2>5 DEF Coherent
<1>8. next \in Places \ {"row", "point", "done"}
  BY DEF Places
<1> QED
  BY <1>1, <1>2, <1>5, <1>7, <1>8, InsideKeeps DEF PictureInv, PictureTypes

(* The iteration itself.                                                    *)
LEMMA BodyKeeps ==
    ASSUME MandelbrotAssumption, PictureInv, NEW t \in M!Threads, M!Body(t) PROVE StepKeeps
<1>1. place[t] = "body" /\ M!Goes(t, "load")
      /\ UNCHANGED <<job, x, y, count, offset, col, row, rows, loaded, colour, pixels>>
      /\ iterated' = [iterated EXCEPT ![t] = M!Min({@ + 1, MaxIter})]
      /\ mixed' = [mixed EXCEPT ![t] = @ \/ x # col[t] \/ y # row[t]]
  BY DEF M!Body, M!shared
<1>2. M!InRow(t) /\ M!Thread(t) /\ InPoint(t)
  BY <1>1 DEF M!InRow, M!Thread, InPoint
<1>3. /\ Escape(col[t], row[t]) \in Nat /\ MaxIter \in Nat \ {0} /\ iterated[t] \in Nat /\ count \in Nat
  BY <1>2, AtPoint
<1>4. M!Min({iterated[t] + 1, MaxIter}) = IF iterated[t] + 1 <= MaxIter THEN iterated[t] + 1 ELSE MaxIter
  BY <1>3, LesserOf
<1>5. place'[t] = "load" /\ DOMAIN mixed' = M!Threads /\ iterated'[t] = M!Min({iterated[t] + 1, MaxIter})
      /\ mixed'[t] = (mixed[t] \/ x # col[t] \/ y # row[t])
  BY <1>1 DEF M!Goes, PictureInv, PictureTypes
<1>6. iterated' \in [M!Threads -> Nat]
  <2>1. M!Min({iterated[t] + 1, MaxIter}) \in Nat
    BY <1>3, <1>4
  <2> HIDE DEF M!Min
  <2> QED
    BY <1>1, <2>1 DEF PictureInv, PictureTypes
<1>7. ASSUME TurnsInv PROVE Coherent(t)'
  <2>1. /\ y = row[t] /\ x = col[t] /\ mixed[t] = FALSE
        /\ count = iterated[t] + 1 /\ iterated[t] < Escape(col[t], row[t]) /\ iterated[t] < MaxIter - 1
    BY <1>1, <1>2, <1>7 DEF TurnsInv, Coherent
  <2>2. iterated'[t] = iterated[t] + 1
    BY <1>3, <1>4, <1>5, <2>1
  <2>3. mixed'[t] = FALSE
    BY <1>5, <2>1, Zenon
  <2> QED
    BY <1>1, <1>3, <1>5, <2>1, <2>2, <2>3 DEF Coherent
<1>8. "load" \in Places \ {"row", "point", "done"}
  BY DEF Places
<1> QED
  BY <1>1, <1>2, <1>5, <1>6, <1>7, <1>8, InsideKeeps DEF PictureInv, PictureTypes

(* k++                                                                      *)
LEMMA LoadKeeps ==
    ASSUME MandelbrotAssumption, PictureInv, NEW t \in M!Threads, M!Load(t) PROVE StepKeeps
<1>1. place[t] = "load" /\ M!Goes(t, "store") /\ loaded' = [loaded EXCEPT ![t] = count]
      /\ UNCHANGED <<job, x, y, count, offset, col, row, rows, iterated, mixed, colour, pixels>>
  BY DEF M!Load, M!shared
<1>2. M!InRow(t) /\ M!Thread(t) /\ InPoint(t)
  BY <1>1 DEF M!InRow, M!Thread, InPoint
<1>3. loaded'[t] = count /\ place'[t] = "store" /\ loaded' \in [M!Threads -> Nat]
  BY <1>1 DEF M!Goes, PictureInv, PictureTypes
<1>4. TurnsInv => Coherent(t)'
  BY <1>1, <1>2, <1>3, AtPoint DEF Coherent, TurnsInv
<1>5. "store" \in Places \ {"row", "point", "done"}
  BY DEF Places
<1> QED
  BY <1>1, <1>2, <1>3, <1>4, <1>5, InsideKeeps DEF PictureInv, PictureTypes

(* The counter is incremented and the loop tests again.                     *)
LEMMA StoreKeeps ==
    ASSUME MandelbrotAssumption, PictureInv, NEW t \in M!Threads, M!Store(t) PROVE StepKeeps
<1>1. place[t] = "store" /\ M!Goes(t, "test") /\ count' = loaded[t] + 1 /\ loaded' = [loaded EXCEPT ![t] = 0]
      /\ UNCHANGED <<job, x, y, offset, col, row, rows, iterated, mixed, colour, pixels>>
  BY DEF M!Store
<1>2. M!InRow(t) /\ M!Thread(t) /\ InPoint(t)
  BY <1>1 DEF M!InRow, M!Thread, InPoint
<1>3. place'[t] = "test" /\ loaded' \in [M!Threads -> Nat] /\ count' \in Nat
  BY <1>1, <1>2, AtPoint DEF M!Goes, PictureInv, PictureTypes
<1>4. TurnsInv => Coherent(t)'
  BY <1>1, <1>2, <1>3, AtPoint DEF Coherent, TurnsInv
<1>5. "test" \in Places \ {"row", "point", "done"}
  BY DEF Places
<1> QED
  BY <1>1, <1>2, <1>3, <1>4, <1>5, InsideKeeps DEF PictureInv, PictureTypes

(* The offset is that of the point.                                         *)
LEMMA OffsetKeeps ==
    ASSUME MandelbrotAssumption, PictureInv, NEW t \in M!Threads, M!Offset(t) PROVE StepKeeps
<1>1. place[t] = "offset" /\ M!Goes(t, "compare") /\ offset' = row[t] * job.xres + col[t]
      /\ UNCHANGED <<job, x, y, count, col, row, rows, iterated, mixed, loaded, colour, pixels>>
  BY DEF M!Offset
<1>2. M!InRow(t) /\ M!Thread(t) /\ InPoint(t)
  BY <1>1 DEF M!InRow, M!Thread, InPoint
<1>3. place'[t] = "compare"
  BY <1>1 DEF M!Goes, PictureInv, PictureTypes
<1>4. offset' \in 0 .. M!Size - 1
  BY <1>1, <1>2, AtPoint, PictureNumbers, OffsetInside DEF PictureInv
<1>5. TurnsInv => Coherent(t)'
  BY <1>1, <1>2, <1>3 DEF Coherent, TurnsInv, M!Min
<1>6. "compare" \in Places \ {"row", "point", "done"}
  BY DEF Places
<1> QED
  BY <1>1, <1>2, <1>4, <1>5, <1>6, InsideKeeps DEF PictureInv, PictureTypes

(* Bytes and pixels.                                                        *)
LEMMA ColourBytes == ASSUME NEW b, NEW n \in Nat PROVE M!ColourByte(b, n) \in Byte
<1>1. n \div 256 \in Nat
  OBVIOUS
<1>2. \A m \in Nat : m % 256 \in Byte
  BY DEF Byte
<1> QED
  BY <1>1, <1>2 DEF M!ColourByte

(* Black is six bytes.                                                      *)
LEMMA BlackIsPixel == M!Black \in Pixel
<1>1. M!Black \in Seq(Byte)
  BY DEF M!Black, Byte
<1>2. Len(M!Black) = 6
  BY DEF M!Black
<1> QED
  BY <1>1, <1>2 DEF Pixel

(* if (k >= maxiter)                                                        *)
LEMMA CompareKeeps ==
    ASSUME MandelbrotAssumption, PictureInv, NEW t \in M!Threads, M!Compare(t) PROVE StepKeeps
<1> DEFINE next == IF count >= MaxIter THEN "write" ELSE "colour"
           bytes == IF count >= MaxIter THEN M!Black ELSE << >>
<1>1. place[t] = "compare" /\ M!Goes(t, next) /\ colour' = [colour EXCEPT ![t] = bytes]
      /\ UNCHANGED <<job, x, y, count, offset, col, row, rows, iterated, mixed, loaded, pixels>>
  BY DEF M!Compare, M!shared
<1>2. M!InRow(t) /\ M!Thread(t) /\ InPoint(t)
  BY <1>1 DEF M!InRow, M!Thread, InPoint
<1>3. /\ next = "colour" => bytes \in Seq(Byte) /\ Len(bytes) <= 5 /\ bytes = << >> /\ ~ count >= MaxIter
      /\ next = "write" => bytes \in Pixel /\ bytes = M!Black /\ count >= MaxIter
      /\ next \in {"colour", "write"}
  BY BlackIsPixel
<1> HIDE DEF next, bytes
<1>4. place'[t] = next /\ colour'[t] = bytes /\ DOMAIN colour' = M!Threads
  BY <1>1 DEF M!Goes, PictureInv, PictureTypes
<1>5. ASSUME TurnsInv PROVE Coherent(t)'
  <2>1. /\ y = row[t] /\ x = col[t] /\ mixed[t] = FALSE /\ offset = row[t] * job.xres + col[t]
        /\ count = 1 + M!Min({Escape(col[t], row[t]), MaxIter - 1})
    BY <1>1, <1>2, <1>5 DEF TurnsInv, Coherent
  <2>2. (M!Min({Escape(col[t], row[t]), MaxIter - 1}))' = M!Min({Escape(col[t], row[t]), MaxIter - 1})
    BY <1>1 DEF M!Min
  <2>3. next = "colour" => count < MaxIter /\ Len(colour'[t]) = 0
    BY <1>2, <1>3, <1>4, AtPoint
  <2>4. next = "write" => colour'[t] = M!Colour(count)'
    <3>1. M!Colour(count)' = M!Colour(count)
      BY <1>1 DEF M!Colour
    <3> QED
      BY <1>3, <1>4, <3>1 DEF M!Colour
  <2> HIDE DEF M!Min, M!Colour
  <2> QED
    BY <1>1, <1>3, <1>4, <2>1, <2>2, <2>3, <2>4 DEF Coherent
<1>6. next \in Places \ {"row", "point", "done"}
  BY <1>3 DEF Places
<1> QED
  BY <1>1, <1>2, <1>3, <1>4, <1>5, <1>6, InsideKeeps DEF PictureInv, PictureTypes

(* One of the six bytes of the colour.                                      *)
LEMMA SampleKeeps ==
    ASSUME MandelbrotAssumption, PictureInv, NEW t \in M!Threads, M!Sample(t) PROVE StepKeeps
<1> DEFINE w == colour[t]  byte == M!ColourByte(Len(w) + 1, count)
           next == IF Len(w) = 5 THEN "write" ELSE "colour"
<1>1. place[t] = "colour" /\ M!Goes(t, next) /\ colour' = [colour EXCEPT ![t] = Append(w, byte)]
      /\ UNCHANGED <<job, x, y, count, offset, col, row, rows, iterated, mixed, loaded, pixels>>
  BY DEF M!Sample, M!shared
<1>2. M!InRow(t) /\ M!Thread(t) /\ InPoint(t)
  BY <1>1 DEF M!InRow, M!Thread, InPoint
<1>3. w \in Seq(Byte) /\ Len(w) <= 5 /\ byte \in Byte
  BY <1>1, <1>2, AtPoint, ColourBytes DEF PictureInv, Within
<1>4. next \in {"colour", "write"} /\ (next = "write" <=> Len(w) = 5)
  OBVIOUS
<1>5. colour'[t] = Append(w, byte) /\ DOMAIN colour' = M!Threads
  BY <1>1 DEF PictureInv, PictureTypes
<1> HIDE DEF next
<1>6. place'[t] = next
  BY <1>1 DEF M!Goes, PictureInv, PictureTypes
<1>7. ASSUME TurnsInv
      PROVE  count < MaxIter /\ \A b \in 1 .. Len(colour'[t]) : colour'[t][b] = M!ColourByte(b, count)
  <2>1. count < MaxIter /\ \A b \in 1 .. Len(w) : w[b] = M!ColourByte(b, count)
    BY <1>1, <1>7 DEF TurnsInv, Coherent
  <2> SUFFICES ASSUME NEW b \in 1 .. Len(colour'[t]) PROVE colour'[t][b] = M!ColourByte(b, count)
    BY <2>1
  <2> HIDE DEF w
  <2>2. CASE b = Len(w) + 1
    BY <1>3, <1>5, <2>2
  <2>3. CASE b # Len(w) + 1
    <3>1. byte \in Byte
      BY <1>3
    <3> HIDE DEF byte
    <3>2. b \in 1 .. Len(w) /\ colour'[t][b] = w[b]
      BY <1>3, <1>5, <2>3, <3>1
    <3> QED
      BY <2>1, <3>2
  <2> QED
    BY <2>2, <2>3
<1>8. /\ colour'[t] \in Seq(Byte) /\ Len(colour'[t]) = Len(w) + 1 /\ Len(w) \in Nat
      /\ next = "colour" => Len(colour'[t]) <= 5
      /\ next = "write" => colour'[t] \in Pixel
  <2> HIDE DEF w, byte
  <2>1. colour'[t] \in Seq(Byte) /\ Len(colour'[t]) = Len(w) + 1 /\ Len(w) \in Nat
    BY <1>3, <1>5
  <2> DEFINE n == Len(w)  m == Len(colour'[t])
  <2>2. n \in Nat /\ n <= 5 /\ m = n + 1 /\ next \in {"colour", "write"} /\ (next = "write" <=> n = 5)
    BY <1>3, <1>4, <2>1
  <2> HIDE DEF n, m
  <2>3. (next = "colour" => m <= 5) /\ (next = "write" => m = 6)
    BY <2>2
  <2> QED
    BY <2>1, <2>3 DEF Pixel, m
<1>9. ASSUME TurnsInv PROVE Coherent(t)'
  <2>1. /\ y = row[t] /\ x = col[t] /\ mixed[t] = FALSE /\ offset = row[t] * job.xres + col[t]
        /\ count = 1 + M!Min({Escape(col[t], row[t]), MaxIter - 1})
    BY <1>1, <1>2, <1>9 DEF TurnsInv, Coherent
  <2>2. (M!Min({Escape(col[t], row[t]), MaxIter - 1}))' = M!Min({Escape(col[t], row[t]), MaxIter - 1})
    BY <1>1 DEF M!Min
  <2>3. \A b : M!ColourByte(b, count)' = M!ColourByte(b, count)
    BY <1>1 DEF M!ColourByte
  <2>4. next = "write" => colour'[t] = M!Colour(count)'
    <3> SUFFICES ASSUME next = "write" PROVE colour'[t] = M!Colour(count)
      BY <1>1 DEF M!Colour, M!Black, M!ColourByte
    <3>1. colour'[t] \in Seq(Byte) /\ Len(colour'[t]) = 6
      BY <1>8 DEF Pixel
    <3>2. \A b \in 1 .. 6 : colour'[t][b] = M!ColourByte(b, count)
      BY <1>7, <1>9, <3>1
    <3>3. ~ count >= MaxIter
      BY <1>2, <1>7, <1>9, AtPoint
    <3> HIDE DEF M!ColourByte
    <3>4. colour'[t] = [b \in 1 .. 6 |-> M!ColourByte(b, count)]
      BY <3>1, <3>2
    <3> QED
      BY <3>3, <3>4 DEF M!Colour
  <2>5. next = "colour" => (count < MaxIter /\ \A b \in 1 .. Len(colour[t]) : colour[t][b] = M!ColourByte(b, count))'
    BY <1>1, <1>7, <1>9, <2>3
  <2> HIDE DEF M!Min, M!Colour, M!ColourByte
  <2> QED
    BY <1>1, <1>4, <1>6, <2>1, <2>2, <2>4, <2>5 DEF Coherent
<1>10. next \in Places \ {"row", "point", "done"}
  BY <1>4 DEF Places
<1> QED
  BY <1>1, <1>2, <1>5, <1>8, <1>9, <1>10, InsideKeeps DEF PictureInv, PictureTypes

(* y = ymax - j * dy, of the next row.                                      *)
LEMMA RowKeeps ==
    ASSUME MandelbrotAssumption, PictureInv, NEW t \in M!Threads, M!Row(t) PROVE StepKeeps
<1> DEFINE next == M!Min(rows[t])
<1>1. /\ place[t] = "row" /\ rows[t] # {} /\ row' = [row EXCEPT ![t] = next]
      /\ rows' = [rows EXCEPT ![t] = @ \ {next}] /\ col' = [col EXCEPT ![t] = 0] /\ y' = next /\ M!Goes(t, "point")
      /\ UNCHANGED <<job, x, count, offset, iterated, mixed, loaded, colour, pixels>>
  BY DEF M!Row
<1>2. /\ job.xres \in Nat \ {0} /\ job.yres \in Nat \ {0} /\ M!Rows = 0 .. job.yres - 1 /\ Only(t)
  BY PictureNumbers, StepOnly DEF PictureInv, M!Thread
<1>3. next \in rows[t] /\ rows[t] \subseteq M!Share(t) /\ next \in Nat /\ next \in M!Rows
  <2>1. rows[t] \subseteq M!Share(t)
    BY DEF PictureInv, Within
  <2>2. rows[t] \subseteq Nat
    BY <1>2, <2>1, SharesAreRows
  <2>3. next = Min(rows[t])
    BY DEF M!Min, Min
  <2>4. Min(rows[t]) \in rows[t]
    BY <1>1, <2>2, MinOfNats
  <2> QED
    BY <2>1, <2>2, <2>3, <2>4, SharesAreRows
<1> HIDE DEF next
<1>4. place'[t] = "point" /\ row'[t] = next /\ col'[t] = 0 /\ rows'[t] = rows[t] \ {next}
  BY <1>1 DEF M!Goes, PictureInv, PictureTypes
<1>5. PictureTypes'
  <2>1. place' \in [M!Threads -> Places] /\ row' \in [M!Threads -> Nat] /\ col' \in [M!Threads -> Nat]
        /\ DOMAIN rows' = M!Threads
    BY <1>1, <1>3 DEF M!Goes, PictureInv, PictureTypes, Places
  <2> QED
    BY <1>1, <1>2, <1>3, <2>1 DEF PictureInv, PictureTypes, Only
<1>6. Within(t)'
  <2>1. 0 \in 0 .. job.xres - 1
    BY <1>2
  <2>2. next \in M!Share(t) \ rows'[t] /\ rows'[t] \subseteq M!Share(t)
    BY <1>3, <1>4
  <2> QED
    BY <1>1, <1>2, <1>4, <2>1, <2>2 DEF Within, Only
<1>7. M!InRow(t)' /\ ~ InPoint(t)'
  BY <1>4 DEF M!InRow, InPoint
<1>8. ASSUME TurnsInv, M!TakeTurns, M!TakeTurns', NEW s \in M!Threads PROVE Coherent(s)' /\ DrawnBy(s)'
  <2>1. CASE s # t
    <3>1. Coherent(s)' /\ (M!InRow(s)' <=> M!InRow(s))
      BY <1>2, <1>7, <1>8, <2>1, OthersTurn
    <3>2. DrawnBy(s)
      BY <1>8 DEF TurnsInv
    <3>3. UNCHANGED <<job, pixels, M!Share(s), row[s], col[s], rows[s]>>
      BY <1>1, <1>2, <2>1 DEF Only
    <3>4. DrawnBy(s)'
      BY <3>1, <3>2, <3>3, DrawnStays
    <3> QED
      BY <3>1, <3>4
  <2>2. CASE s = t
    <3>1. Coherent(t)'
      BY <1>1, <1>4, <1>7 DEF Coherent
    <3>2. DrawnBy(t)'
      <4>1. M!Share(t)' = M!Share(t) /\ job' = job
        BY <1>1, <1>2 DEF Only
      <4> SUFFICES ASSUME NEW r \in M!Share(t) \ rows'[t], NEW c \in 0 .. job.xres - 1, r = next => c < 0
                   PROVE  Shown(r, c)'
        BY <1>4, <1>7, <4>1 DEF DrawnBy
      <4>2. r # next
        BY <1>2
      <4>3. Shown(r, c)
        BY <1>1, <1>4, <1>8, <4>2 DEF TurnsInv, DrawnBy, M!InRow
      <4> QED
        BY <1>1, <4>3, RightStays DEF Shown
    <3> QED
      BY <2>2, <3>1, <3>2
  <2> QED
    BY <2>1, <2>2
<1> QED
  BY <1>2, <1>5, <1>6, <1>8, OtherThreadsKeep DEF StepKeeps, TurnsInv, Only

(* No row is left.                                                          *)
LEMMA RowsDoneKeeps ==
    ASSUME MandelbrotAssumption, PictureInv, NEW t \in M!Threads, M!RowsDone(t) PROVE StepKeeps
<1>1. /\ place[t] = "row" /\ rows[t] = {} /\ M!Goes(t, "done")
      /\ UNCHANGED <<job, x, y, count, offset, col, row, rows, iterated, mixed, loaded, colour, pixels>>
  BY DEF M!RowsDone, M!shared
<1>2. Only(t)
  BY StepOnly DEF PictureInv, M!Thread
<1>3. place'[t] = "done" /\ place' \in [M!Threads -> Places]
  BY <1>1 DEF M!Goes, PictureInv, PictureTypes, Places
<1>4. ~ M!InRow(t) /\ ~ M!InRow(t)' /\ ~ InPoint(t)'
  BY <1>1, <1>3 DEF M!InRow, InPoint
<1>5. PictureTypes'
  BY <1>1, <1>2, <1>3 DEF PictureInv, PictureTypes, Only
<1>6. Within(t)'
  BY <1>1, <1>2, <1>3, <1>4 DEF PictureInv, Within, Only
<1>7. ASSUME TurnsInv, NEW s \in M!Threads PROVE Coherent(s)' /\ DrawnBy(s)'
  <2>1. (M!InRow(s)' <=> M!InRow(s)) /\ Coherent(s) /\ DrawnBy(s)
    BY <1>2, <1>4, <1>7 DEF Only, M!InRow, TurnsInv
  <2>2. UNCHANGED <<job, pixels, M!Share(s), row[s], col[s], rows[s]>>
    BY <1>1, <1>2 DEF Only
  <2>3. DrawnBy(s)'
    BY <2>1, <2>2, DrawnStays
  <2>4. CASE s = t
    BY <1>3, <1>4, <2>3, <2>4 DEF Coherent
  <2>5. CASE s # t
    <3>1. place'[s] = place[s]
      BY <1>2, <2>5 DEF Only
    <3>2. InPoint(s)' <=> InPoint(s)
      BY <3>1 DEF InPoint
    <3>3. (M!Min({Escape(col[s], row[s]), MaxIter - 1}))' = M!Min({Escape(col[s], row[s]), MaxIter - 1})
          /\ M!Colour(count)' = M!Colour(count) /\ \A b : M!ColourByte(b, count)' = M!ColourByte(b, count)
      BY <1>1 DEF M!Min, M!Colour, M!Black, M!ColourByte
    <3> HIDE DEF M!Min, M!Colour, M!ColourByte
    <3>4. Coherent(s)'
      BY <1>1, <2>1, <3>1, <3>2, <3>3 DEF Coherent
    <3> QED
      BY <2>3, <3>4
  <2> QED
    BY <2>4, <2>5
<1> QED
  BY <1>2, <1>5, <1>6, <1>7, OtherThreadsKeep DEF StepKeeps, TurnsInv, Only

(* A pixel of the picture has one offset only.                              *)
LEMMA PointsApart ==
    ASSUME MandelbrotAssumption, PictureTypes, NEW r \in M!Rows, NEW s \in M!Rows,
           NEW c \in 0 .. job.xres - 1, NEW d \in 0 .. job.xres - 1, r # s \/ c # d
    PROVE  r * job.xres + c # s * job.xres + d
<1> DEFINE w == job.xres
<1>1. w \in Nat \ {0} /\ c \in 0 .. w - 1 /\ d \in 0 .. w - 1 /\ r \in Nat /\ s \in Nat
  BY PictureNumbers
<1> HIDE DEF w
<1>2. r * w + c # s * w + d
  BY <1>1, OffsetsDiffer
<1> QED
  BY <1>2 DEF w

(* The pixel of the point, and no other, gets its colour.                   *)
LEMMA WriteKeeps ==
    ASSUME MandelbrotAssumption, PictureInv, NEW t \in M!Threads, M!Write(t) PROVE StepKeeps
<1> DEFINE next == IF col[t] + 1 < job.xres THEN "point" ELSE "row"
<1>1. /\ place[t] = "write" /\ pixels' = [pixels EXCEPT ![offset] = colour[t]]
      /\ col' = [col EXCEPT ![t] = @ + 1] /\ M!Goes(t, next) /\ colour' = [colour EXCEPT ![t] = << >>]
      /\ UNCHANGED <<job, x, y, count, offset, row, rows, iterated, mixed, loaded>>
  BY DEF M!Write, M!shared
<1>2. /\ job.xres \in Nat \ {0} /\ job.yres \in Nat \ {0} /\ M!Rows = 0 .. job.yres - 1 /\ Only(t)
      /\ M!Size = job.xres * job.yres /\ M!InRow(t) /\ InPoint(t)
  BY <1>1, PictureNumbers, StepOnly DEF PictureInv, M!Thread, M!InRow, InPoint
<1>3. row[t] \in M!Share(t) \ rows[t] /\ row[t] \in M!Rows /\ col[t] \in 0 .. job.xres - 1
  BY <1>2, AtPoint
<1>4. place'[t] = next /\ col'[t] = col[t] + 1 /\ place' \in [M!Threads -> Places]
  <2>1. next \in Places
    BY DEF Places
  <2> HIDE DEF next
  <2> QED
    BY <1>1, <2>1 DEF M!Goes, PictureInv, PictureTypes
<1>5. colour[t] \in Pixel /\ offset \in DOMAIN pixels /\ DOMAIN pixels = 0 .. M!Size - 1
  BY <1>1 DEF PictureInv, Within, PictureTypes
<1>6. PictureTypes'
  <2>1. col' \in [M!Threads -> Nat] /\ DOMAIN colour' = M!Threads
    BY <1>1, <1>3, <1>4 DEF PictureInv, PictureTypes
  <2>2. pixels' \in [0 .. M!Size - 1 -> {<< >>} \cup Pixel]
    BY <1>1, <1>5 DEF PictureInv, PictureTypes
  <2> QED
    BY <1>1, <1>2, <1>4, <2>1, <2>2 DEF PictureInv, PictureTypes, Only
<1>7. M!InRow(t)' => col[t] + 1 < job.xres
  BY <1>4 DEF M!InRow
<1>8. ~ InPoint(t)' /\ place'[t] \in {"point", "row"}
  BY <1>4 DEF InPoint
<1>9. Within(t)'
  <2>1. M!InRow(t)' => col'[t] \in 0 .. job.xres - 1
    BY <1>2, <1>3, <1>4, <1>7
  <2>2. rows[t] \subseteq M!Share(t)
    BY DEF PictureInv, Within
  <2> QED
    BY <1>1, <1>2, <1>3, <1>8, <2>1, <2>2 DEF Within, Only
<1>10. ASSUME TurnsInv, M!TakeTurns, M!TakeTurns', NEW s \in M!Threads PROVE Coherent(s)' /\ DrawnBy(s)'
  <2>1. y = row[t] /\ offset = row[t] * job.xres + col[t] /\ colour[t] = Right(row[t], col[t])
    BY <1>1, <1>2, <1>10 DEF TurnsInv, Coherent, Right
  <2>2. Coherent(s)'
    <3>1. CASE s = t
      BY <1>1, <1>8, <2>1, <3>1 DEF Coherent
    <3>2. CASE s # t
      BY <1>2, <1>10, <3>2, OthersTurn
    <3> QED
      BY <3>1, <3>2
  <2>3. DrawnBy(s)'
    <3>1. M!Share(s)' = M!Share(s) /\ job' = job /\ rows'[s] = rows[s] /\ row'[s] = row[s]
      BY <1>1, <1>2 DEF Only
    <3> SUFFICES ASSUME NEW r \in M!Share(s) \ rows[s], NEW c \in 0 .. job.xres - 1,
                        M!InRow(s)' /\ r = row[s] => c < col'[s]
                 PROVE  pixels'[r * job.xres + c] = Right(r, c)
      BY <3>1, RightStays DEF DrawnBy, Shown
    <3>2. CASE s = t /\ r = row[t] /\ c = col[t]
      BY <1>1, <1>5, <2>1, <3>2
    <3>3. CASE ~ (s = t /\ r = row[t] /\ c = col[t])
      <4>1. r \in M!Rows
        BY SharesAreRows
      <4>2. r # row[t] \/ c # col[t]
        <5>1. CASE s = t
          BY <3>3, <5>1
        <5>2. CASE s # t
          <6>1. r \in M!Share(s) /\ row[t] \in M!Share(t)
            BY <1>3
          <6>2. M!Share(s) \cap M!Share(t) = {}
            BY <5>2, RowsApart
          <6> QED
            BY <6>1, <6>2
        <5> QED
          BY <5>1, <5>2
      <4>3. r * job.xres + c # offset
        BY <1>3, <2>1, <4>1, <4>2, PointsApart DEF PictureInv
      <4>4. r * job.xres + c \in DOMAIN pixels
        BY <1>2, <1>5, <4>1, OffsetInside
      <4>5. M!InRow(s) /\ r = row[s] => c < col[s]
        <5>1. CASE s # t
          BY <1>2, <1>10, <5>1, OthersTurn
        <5>2. CASE s = t
          <6>1. CASE M!InRow(t)' /\ r = row[t]
            <7>1. c < col[t] + 1 /\ c # col[t]
              BY <1>4, <3>3, <5>2, <6>1
            <7> QED
              BY <1>3, <5>2, <7>1
          <6>2. CASE ~ M!InRow(t)' /\ r = row[t]
            <7>1. ~ col[t] + 1 < job.xres /\ c # col[t]
              BY <1>4, <3>3, <5>2, <6>2 DEF M!InRow
            <7> QED
              BY <1>2, <1>3, <5>2, <7>1
          <6> QED
            BY <5>2, <6>1, <6>2
        <5> QED
          BY <5>1, <5>2
      <4>6. Shown(r, c)
        BY <1>10, <4>5 DEF TurnsInv, DrawnBy
      <4>7. pixels'[r * job.xres + c] = pixels[r * job.xres + c]
        BY <1>1, <4>3, <4>4
      <4> QED
        BY <4>6, <4>7 DEF Shown
    <3> QED
      BY <3>2, <3>3
  <2> QED
    BY <2>2, <2>3
<1> QED
  BY <1>2, <1>6, <1>9, <1>10, OtherThreadsKeep DEF StepKeeps, TurnsInv, Only

----------------------------------------------------------------------------
(* The loop starts right.                                                   *)
LEMMA PictureInit == ASSUME MandelbrotAssumption, M!Init PROVE PictureInv /\ TurnsInv
<1>1. job \in Jobs /\ job.xres \in Nat \ {0} /\ job.yres \in Nat \ {0} /\ job.nthreads \in Nat \ {0}
  BY DEF M!Init, MandelbrotAssumption
<1>2. M!Rows = 0 .. job.yres - 1 /\ M!Size = job.xres * job.yres
  BY DEF M!Rows, M!Size
<1>3. 0 \in 0 .. job.xres - 1 /\ 0 \in M!Rows /\ 0 \in 0 .. M!Size - 1
  <2>1. 0 * job.xres + 0 \in 0 .. job.xres * job.yres - 1
    <3>1. 0 \in 0 .. job.yres - 1 /\ 0 \in 0 .. job.xres - 1
      BY <1>1
    <3> QED
      BY <1>1, <3>1, OffsetInside
  <2>2. 0 * job.xres + 0 = 0
    BY <1>1
  <2>3. 0 \in 0 .. job.xres - 1 /\ 0 \in 0 .. job.yres - 1
    BY <1>1
  <2>4. 0 \in 0 .. job.xres * job.yres - 1
    <3> HIDE DEF M!Size
    <3> QED
      BY <2>1, <2>2, Zenon
  <2> QED
    BY <1>2, <2>3, <2>4, Zenon
<1>4. ASSUME NEW t \in M!Threads
      PROVE  /\ place[t] = IF t <= job.nthreads THEN "row" ELSE "done"
             /\ rows[t] = M!Share(t) /\ place[t] \in {"row", "done"}
  BY DEF M!Init
<1>5. PictureTypes
  <2>1. place \in [M!Threads -> Places]
    BY DEF M!Init, Places
  <2>2. pixels \in [0 .. M!Size - 1 -> {<< >>} \cup Pixel]
    BY DEF M!Init
  <2> QED
    BY <1>3, <2>1, <2>2 DEF M!Init, PictureTypes
<1>6. ASSUME NEW t \in M!Threads PROVE Within(t)
  <2>1. t \in Nat
    BY DEF M!Threads
  <2>2. ~ M!InRow(t) /\ place[t] \notin {"colour", "write"}
    BY <1>4 DEF M!InRow
  <2>3. place[t] = "done" /\ t <= job.nthreads => rows[t] = {}
    BY <1>4
  <2> QED
    BY <1>4, <2>2, <2>3 DEF Within
<1>7. ASSUME NEW t \in M!Threads PROVE Coherent(t) /\ DrawnBy(t)
  <2>1. ~ M!InRow(t) /\ ~ InPoint(t) /\ place[t] \in {"row", "done"}
    BY <1>4 DEF M!InRow, InPoint
  <2>2. M!Share(t) \ rows[t] = {}
    BY <1>4
  <2> QED
    BY <2>1, <2>2 DEF Coherent, DrawnBy
<1> QED
  BY <1>5, <1>6, <1>7 DEF PictureInv, TurnsInv

(* Every step keeps the invariants, the second where threads take turns.    *)
LEMMA PictureStep == ASSUME MandelbrotAssumption, PictureInv, [M!Next]_(M!vars) PROVE StepKeeps
<1>1. CASE M!Next
  <2>1. PICK t \in M!Threads : M!Thread(t)
    BY <1>1 DEF M!Next
  <2> QED
    BY <2>1, RowKeeps, RowsDoneKeeps, PointKeeps, StartKeeps, TestKeeps, BodyKeeps, LoadKeeps, StoreKeeps,
       OffsetKeeps, CompareKeeps, SampleKeeps, WriteKeeps DEF M!Thread
<1>2. CASE UNCHANGED M!vars
  <2>1. UNCHANGED <<job, x, y, count, offset, place, col, row, rows, iterated, mixed, loaded, colour, pixels>>
    BY <1>2 DEF M!vars, M!shared, M!private
  <2>2. UNCHANGED <<M!Threads, M!Rows, M!Size>> /\ \A t : UNCHANGED M!Share(t)
    BY <2>1 DEF M!Threads, M!Rows, M!Size, M!Share
  <2>3. PictureTypes'
    BY <2>1, <2>2 DEF PictureInv, PictureTypes
  <2>4. ASSUME NEW t \in M!Threads PROVE Within(t)'
    BY <2>1, <2>2 DEF PictureInv, Within, M!InRow
  <2>5. ASSUME TurnsInv, NEW t \in M!Threads PROVE Coherent(t)' /\ DrawnBy(t)'
    <3>1. (M!InRow(t) <=> M!InRow(t)') /\ (InPoint(t) <=> InPoint(t)')
      BY <2>1 DEF M!InRow, InPoint
    <3>2. Coherent(t) /\ DrawnBy(t)
      BY <2>5 DEF TurnsInv
    <3>3. (M!Min({Escape(col[t], row[t]), MaxIter - 1}))' = M!Min({Escape(col[t], row[t]), MaxIter - 1})
          /\ M!Colour(count)' = M!Colour(count) /\ \A b : M!ColourByte(b, count)' = M!ColourByte(b, count)
      BY <2>1 DEF M!Min, M!Colour, M!Black, M!ColourByte
    <3>4. DrawnBy(t)'
      <4>1. UNCHANGED <<job, pixels, M!Share(t), row[t], col[t], rows[t]>>
        BY <2>1, <2>2
      <4> QED
        BY <3>1, <3>2, <4>1, DrawnStays
    <3> HIDE DEF M!Min, M!Colour, M!ColourByte
    <3>5. Coherent(t)'
      BY <2>1, <3>1, <3>2, <3>3 DEF Coherent
    <3> QED
      BY <3>4, <3>5
  <2> QED
    BY <2>2, <2>3, <2>4, <2>5 DEF StepKeeps, PictureInv, TurnsInv
<1> QED
  BY <1>1, <1>2

(* When all threads are done, the picture is right.                         *)
LEMMA PictureEnds == ASSUME MandelbrotAssumption, PictureInv, TurnsInv, M!Ended PROVE M!Drawn
<1> SUFFICES ASSUME NEW r \in M!Rows, NEW c \in 0 .. job.xres - 1 PROVE Shown(r, c)
  BY DEF M!Drawn, Shown, Right
<1>1. PICK t \in 1 .. job.nthreads : t \in M!Threads /\ r \in M!Share(t)
  BY RowsShared DEF PictureInv, PictureTypes
<1>2. place[t] = "done" /\ t <= job.nthreads
  <2>1. job.nthreads \in Nat
    BY DEF PictureInv, PictureTypes, MandelbrotAssumption
  <2> QED
    BY <1>1, <2>1 DEF M!Ended
<1>3. rows[t] = {} /\ ~ M!InRow(t)
  BY <1>1, <1>2 DEF PictureInv, Within, M!InRow
<1> QED
  BY <1>1, <1>3 DEF TurnsInv, DrawnBy

\* What no race can spoil: each thread is inside a row of its own, and the
\* shared point and offset are those of the picture.
Contained ==
    /\ M!TypeOK
    /\ \A s, t \in M!Threads : M!InRow(s) /\ M!InRow(t) /\ s # t => row[s] # row[t]
    /\ \A t \in M!Threads : M!InRow(t) => row[t] \in M!Rows /\ col[t] \in 0 .. job.xres - 1

(* The invariant contains it.                                               *)
LEMMA InvContained == ASSUME MandelbrotAssumption, PictureInv PROVE Contained
<1>1. M!TypeOK
  BY DEF PictureInv, PictureTypes, Places, M!TypeOK
<1>2. ASSUME NEW s \in M!Threads, NEW t \in M!Threads, M!InRow(s), M!InRow(t), s # t PROVE row[s] # row[t]
  <2>1. row[s] \in M!Share(s) /\ row[t] \in M!Share(t)
    BY <1>2, AtPoint
  <2>2. M!Share(s) \cap M!Share(t) = {}
    BY <1>2, RowsApart
  <2> QED
    BY <2>1, <2>2
<1>3. ASSUME NEW t \in M!Threads, M!InRow(t) PROVE row[t] \in M!Rows /\ col[t] \in 0 .. job.xres - 1
  BY <1>3, AtPoint
<1> QED
  BY <1>1, <1>2, <1>3 DEF Contained

(* However many threads there are and however they interleave, all of which *)
(* share the point, the counter and the offset (mandelbrot.c:112-150): no   *)
(* two work on one row, none leaves its rows or the columns, and the offset *)
(* is one of the picture, so that no memcpy is outside of it.  What the     *)
(* race can spoil is only which pixel is written, and its colour.           *)
THEOREM RaceStaysInside == ASSUME MandelbrotAssumption PROVE M!Spec => []Contained
<1>1. M!Init => PictureInv
  BY PictureInit
<1>2. PictureInv /\ [M!Next]_(M!vars) => PictureInv'
  BY PictureStep DEF StepKeeps
<1>3. PictureInv => Contained
  BY InvContained
<1> QED
  BY <1>1, <1>2, <1>3, PTL DEF M!Spec

(* For any number of threads, any size, any number of iterations and any    *)
(* points that escape or not: the overlap of two rows is the only thing     *)
(* that spoils a picture.  If no two threads are ever inside a row at once, *)
(* the picture is that of the definition when the threads have ended.       *)
THEOREM PictureIsRight == ASSUME MandelbrotAssumption PROVE M!Spec => M!PictureRight
<1>1. M!Init => PictureInv /\ TurnsInv
  BY PictureInit
<1>2. PictureInv /\ [M!Next]_(M!vars) => PictureInv'
  BY PictureStep DEF StepKeeps
<1>3. PictureInv /\ TurnsInv /\ M!TakeTurns /\ M!TakeTurns' /\ [M!Next]_(M!vars) => TurnsInv'
  BY PictureStep DEF StepKeeps
<1>4. PictureInv /\ TurnsInv => (M!Ended => M!Drawn)
  BY PictureEnds
<1> QED
  BY <1>1, <1>2, <1>3, <1>4, PTL DEF M!Spec, M!PictureRight

----------------------------------------------------------------------------
(* The TCP client and its peers. *)

CONSTANTS Settings, FreadSize, BUF_SIZE, Page
VARIABLES setting, input, cl, buf, nread, len, up, down, upEnds, downEnds, sv, held, received, printed, outBuf

K == INSTANCE Sockets

(* What is assumed: the buffers have room, and what is sent are bytes.      *)
SocketsAssumption ==
    /\ \A s \in Settings : s.length \in Nat /\ s.garbage \in Nat /\ s.short \in BOOLEAN /\ s.dirty \in BOOLEAN
    /\ FreadSize \in Nat \ {0} /\ BUF_SIZE \in Nat \ {0} /\ Page \in Seq(Nat)

SocketTypes ==
    /\ setting \in Settings /\ nread \in Nat /\ len \in Nat
    /\ input \in Seq(Nat) /\ buf \in Seq(Nat) /\ up \in Seq(Nat) /\ down \in Seq(Nat) /\ held \in Seq(Nat)
    /\ received \in Seq(Nat) /\ cl \in {"fread", "write", "read", "exited"}

(* What is read of the input, and what is sent of the buffer. *)

\* The buffer b when c bytes have been read, the last call's after q full ones.
Filled(b, c, q) ==
    /\ q * FreadSize <= c /\ c <= q * FreadSize + FreadSize
    /\ \A k \in 1 .. Len(b) :
          b[k] = IF q * FreadSize + k <= c THEN q * FreadSize + k ELSE q * FreadSize + k - FreadSize

\* While there is input left, all calls were full.
ReadSoFar ==
    /\ Len(input) <= setting.length
    /\ \A k \in 1 .. Len(input) : input[k] = setting.length - Len(input) + k
    /\ nread = setting.garbage + (setting.length - Len(input))
    /\ Len(buf) = IF FreadSize <= setting.length - Len(input) THEN FreadSize ELSE setting.length - Len(input)
    /\ \E q \in Nat : Filled(buf, setting.length - Len(input), q)
    /\ input # << >> =>
          /\ \E q \in Nat : setting.length - Len(input) = q * FreadSize
          /\ \A k \in 1 .. Len(buf) : buf[k] = setting.length - Len(input) - FreadSize + k
    /\ cl # "fread" => input = << >>

\* s is made of beginnings of the n bytes b.
MadeOf(s, b, n) ==
    \A k \in 1 .. Len(s) :
        \/ s[k] = b[1]
        \/ k > 1 /\ \E m \in 1 .. n - 1 : s[k - 1] = b[m] /\ s[k] = b[m + 1]

SentSoFar ==
    /\ cl = "fread" => received = << >> /\ up = << >> /\ len = 0
    /\ Len(received \o up) = len
    /\ cl \in {"read", "exited"} => len >= nread
    /\ MadeOf(received \o up, K!Bytes(nread), nread)
    /\ ~ setting.short => received \o up \in {<< >>, K!Bytes(nread)}

(* What is printed is what came. *)

\* p is q, but for one byte that is none of them.
Dirty(p, q) ==
    \E a \in Seq(Nat), b \in Seq(Nat) : q = a \o b /\ p \in {a \o b, (a \o <<K!Garbage>>) \o b}

\* Where the bytes are that the client has printed or will print.
Came(q) ==
    /\ setting.peer = "echo" => received = (q \o down) \o held
    /\ setting.peer # "echo" => IF sv = "exited" THEN Page = q \o down ELSE q = << >> /\ down = << >>

PrintedSoFar ==
    /\ \E q \in Seq(Nat) : Dirty(printed, q) /\ Came(q)
    /\ sv # "send" => held = << >>
    /\ outBuf = << >> \/ (outBuf = <<K!Garbage>> /\ printed = << >>)

SocketInv == SocketTypes /\ ReadSoFar /\ SentSoFar /\ PrintedSoFar
----------------------------------------------------------------------------
(* The first of a sequence's bytes that are none is removed.                *)
LEMMA CleanStays ==
    ASSUME NEW s \in Seq(Nat) PROVE K!RemoveFirst(s, K!Garbage) = s
<1>1. \A e \in 1 .. Len(s) : s[e] \in Nat
  BY ElementOfSeq
<1>2. \A e \in 1 .. Len(s) : s[e] # K!Garbage
  BY <1>1 DEF K!Garbage
<1> QED
  BY <1>2 DEF K!RemoveFirst

(* What the buffer held before it was cleared is what RemoveFirst takes out. *)
LEMMA DirtIsRemoved ==
    ASSUME NEW a \in Seq(Nat), NEW b \in Seq(Nat)
    PROVE  K!RemoveFirst((a \o <<K!Garbage>>) \o b, K!Garbage) = a \o b
<1> DEFINE g == <<K!Garbage>>
           h == a \o g
           s == h \o b
           n == Len(a)
<1>1. a \in Seq(Int) /\ b \in Seq(Int) /\ g \in Seq(Int) /\ Len(g) = 1 /\ g[1] = -1 /\ n \in Nat /\ Len(b) \in Nat
  <2>1. Nat \subseteq Int
    OBVIOUS
  <2>2. -1 \in Int
    OBVIOUS
  <2> QED
    BY <2>1, <2>2, LenProperties DEF K!Garbage
<1> HIDE DEF g
<1>2. h \in Seq(Int) /\ Len(h) = n + 1 /\ (\A e \in 1 .. n + 1 : h[e] = IF e <= n THEN a[e] ELSE g[e - n])
  <2>1. h \in Seq(Int) /\ Len(h) = Len(a) + Len(g)
        /\ \A e \in 1 .. Len(a) + Len(g) : h[e] = IF e <= Len(a) THEN a[e] ELSE g[e - Len(a)]
    BY <1>1, ConcatProperties
  <2> HIDE DEF h
  <2> QED
    BY <1>1, <2>1
<1> HIDE DEF h, n
<1>3. s \in Seq(Int) /\ Len(s) = n + 1 + Len(b)
      /\ (\A e \in 1 .. n + 1 : s[e] = h[e])
  <2>1. s \in Seq(Int) /\ Len(s) = Len(h) + Len(b)
        /\ \A e \in 1 .. Len(h) + Len(b) : s[e] = IF e <= Len(h) THEN h[e] ELSE b[e - Len(h)]
    BY <1>1, <1>2, ConcatProperties
  <2> HIDE DEF s
  <2>2. \A e \in 1 .. n + 1 : e \in 1 .. Len(h) + Len(b) /\ e <= Len(h)
    BY <1>1, <1>2
  <2> QED
    BY <1>2, <2>1, <2>2
<1> HIDE DEF s
<1>4. \A e \in 1 .. n : s[e] # -1
  <2> TAKE e \in 1 .. n
  <2>1. e \in 1 .. n + 1 /\ e <= n /\ e \in 1 .. n + 1 + Len(b)
    BY <1>1
  <2>2. s[e] = a[e]
    BY <1>2, <1>3, <2>1
  <2>3. a[e] \in Nat
    BY ElementOfSeq DEF n
  <2> QED
    BY <2>2, <2>3
<1>5. s[n + 1] = -1
  <2>1. n + 1 \in 1 .. n + 1 /\ n + 1 \in 1 .. n + 1 + Len(b) /\ ~ n + 1 <= n /\ n + 1 <= n + 1 /\ n + 1 - n = 1
    BY <1>1
  <2>2. s[n + 1] = h[n + 1]
    BY <1>3, <2>1
  <2>3. h[n + 1] = g[n + 1 - n]
    <3>1. \A e \in 1 .. n + 1 : ~ e <= n => h[e] = g[e - n]
      BY <1>2
    <3>2. n \in Nat
      BY <1>1
    <3> QED
      BY <2>1, <3>1, <3>2
  <2> QED
    BY <1>1, <2>1, <2>2, <2>3
<1> DEFINE I == {e \in 1 .. Len(s) : s[e] = -1}
<1>6. n + 1 \in I /\ \A e \in I : n + 1 <= e
  BY <1>1, <1>3, <1>4, <1>5
<1>7. I \subseteq Nat /\ I # {} /\ I \subseteq 1 .. Len(s)
  <2>1. I # {}
    BY <1>6
  <2> QED
    BY <1>1, <1>3, <2>1
<1>8. Min(I) = n + 1
  <2>1. Min(I) \in I /\ \A e \in I : Min(I) <= e
    BY <1>7, MinOfNats
  <2> DEFINE m == Min(I)
  <2> HIDE DEF I
  <2>2. m \in I /\ n + 1 \in I /\ m <= n + 1 /\ n + 1 <= m /\ m \in Nat
    BY <1>6, <1>7, <2>1
  <2> HIDE DEF m
  <2>3. m = n + 1
    BY <1>1, <2>2
  <2> QED
    BY <2>3 DEF m
<1>9. K!Min(I) = Min(I)
  BY DEF K!Min, Min
<1>10. K!SelectInSeq(s, LAMBDA v : v = -1) = n + 1
  BY <1>7, <1>8, <1>9 DEF K!SelectInSeq
<1>11. SubSeq(s, 1, n) = a
  <2>1. n \in 0 .. Len(h) /\ n \in 0 .. n
    BY <1>1, <1>2
  <2>2. SubSeq(s, 1, n) = SubSeq(h, 1, n)
    BY <1>1, <1>2, <2>1, PrefixOfJoin DEF s
  <2>3. SubSeq(h, 1, n) = SubSeq(a, 1, n)
    <3>1. n \in 0 .. Len(a)
      BY <1>1 DEF n
    <3> QED
      BY <1>1, <3>1, PrefixOfJoin DEF h
  <2>4. SubSeq(a, 1, n) = a
    BY SubSeqFull DEF n
  <2> QED
    BY <2>2, <2>3, <2>4
<1>12. SubSeq(s, n + 2, Len(s)) = b
  <2>1. SubSeq(s, Len(h) + 1, Len(s)) = b
    BY <1>1, <1>2, DropOfJoin DEF s
  <2> QED
    BY <1>1, <1>2, <2>1
<1>13. K!RemoveAt(s, n + 1) = a \o b
  <2> DEFINE p == n + 1
  <2>1. p - 1 = n /\ p + 1 = n + 2
    BY <1>1
  <2> HIDE DEF p
  <2>2. SubSeq(s, 1, p - 1) = a /\ SubSeq(s, p + 1, Len(s)) = b
    BY <1>11, <1>12, <2>1
  <2>3. K!RemoveAt(s, p) = SubSeq(s, 1, p - 1) \o SubSeq(s, p + 1, Len(s))
    BY DEF K!RemoveAt
  <2> QED
    BY <2>2, <2>3 DEF p
<1>14. \E e \in 1 .. Len(s) : s[e] = -1
  BY <1>6
<1>15. K!RemoveFirst(s, -1) = a \o b
  BY <1>10, <1>13, <1>14 DEF K!RemoveFirst
<1> QED
  BY <1>15 DEF s, h, g, K!Garbage

(* Removing a byte that is none leaves what is printed of q.                *)
LEMMA DirtyRemoved ==
    ASSUME NEW p, NEW q \in Seq(Nat), Dirty(p, q) PROVE K!RemoveFirst(p, K!Garbage) = q
<1>1. PICK a \in Seq(Nat), b \in Seq(Nat) : q = a \o b /\ p \in {a \o b, (a \o <<K!Garbage>>) \o b}
  BY DEF Dirty
<1>2. CASE p = a \o b
  BY <1>1, <1>2, CleanStays
<1>3. CASE p = (a \o <<K!Garbage>>) \o b
  BY <1>1, <1>3, DirtIsRemoved
<1> QED
  BY <1>1, <1>2, <1>3

(* Joining is associative, also with a byte that is none.                   *)
LEMMA Rejoin ==
    ASSUME NEW g \in Seq(Int), NEW b \in Seq(Int), NEW d \in Seq(Int)
    PROVE  (g \o b) \o d = g \o (b \o d)
BY ConcatAssociative

(* More bytes after what is printed.                                        *)
LEMMA DirtyGrows ==
    ASSUME NEW p, NEW q \in Seq(Nat), Dirty(p, q), NEW d \in Seq(Nat) PROVE Dirty(p \o d, q \o d)
<1>1. PICK a \in Seq(Nat), b \in Seq(Nat) : q = a \o b /\ p \in {a \o b, (a \o <<K!Garbage>>) \o b}
  BY DEF Dirty
<1> DEFINE g == a \o <<K!Garbage>>
           c == b \o d
<1>2. b \in Seq(Int) /\ d \in Seq(Int) /\ g \in Seq(Int)
  <2>1. Nat \subseteq Int /\ K!Garbage \in Int
    BY DEF K!Garbage
  <2>2. a \in Seq(Int) /\ b \in Seq(Int) /\ d \in Seq(Int) /\ <<K!Garbage>> \in Seq(Int)
    BY <2>1
  <2> QED
    BY <2>2, ConcatProperties
<1> HIDE DEF g
<1>3. (a \o b) \o d = a \o c /\ (g \o b) \o d = g \o c /\ c \in Seq(Nat)
  <2>1. c \in Seq(Nat)
    BY ConcatProperties
  <2>2. (a \o b) \o d = a \o (b \o d)
    BY ConcatAssociative
  <2>3. (g \o b) \o d = g \o (b \o d)
    BY <1>2, Rejoin
  <2> QED
    BY <2>1, <2>2, <2>3
<1> HIDE DEF c
<1>4. q \o d = a \o c /\ p \o d \in {a \o c, g \o c}
  BY <1>1, <1>3 DEF g
<1> QED
  BY <1>3, <1>4 DEF g, Dirty

(* The first bytes that are printed, with what outBuf held behind them.     *)
LEMMA DirtyAtFirst ==
    /\ Dirty(<< >>, << >>)
    /\ \A q \in Seq(Nat) : Dirty(<< >>, q) => q = << >>
    /\ \A d \in Seq(Nat) : Dirty(d \o <<K!Garbage>>, d)
<1>1. << >> \in Seq(Nat)
  OBVIOUS
<1>2. Dirty(<< >>, << >>)
  <2>1. << >> = << >> \o << >>
    BY <1>1, ConcatEmptySeq
  <2> QED
    BY <1>1, <2>1 DEF Dirty
<1>3. ASSUME NEW q \in Seq(Nat), Dirty(<< >>, q) PROVE q = << >>
  <2>1. K!RemoveFirst(<< >>, K!Garbage) = q
    BY <1>3, DirtyRemoved
  <2>2. K!RemoveFirst(<< >>, K!Garbage) = << >>
    BY <1>1, CleanStays
  <2> QED
    BY <2>1, <2>2
<1>4. ASSUME NEW d \in Seq(Nat) PROVE Dirty(d \o <<K!Garbage>>, d)
  <2>1. d \o <<K!Garbage>> \in Seq(Int)
    <3>1. Nat \subseteq Int /\ K!Garbage \in Int
      BY DEF K!Garbage
    <3>2. d \in Seq(Int) /\ <<K!Garbage>> \in Seq(Int)
      BY <3>1
    <3> QED
      BY <3>2, ConcatProperties
  <2>2. d = d \o << >> /\ d \o <<K!Garbage>> = (d \o <<K!Garbage>>) \o << >>
    BY <2>1, ConcatEmptySeq
  <2> QED
    BY <1>1, <2>2 DEF Dirty
<1> QED
  BY <1>2, <1>3, <1>4

(* The lesser of two numbers.                                               *)
LEMMA LesserOf2 ==
    ASSUME NEW a \in Nat, NEW b \in Nat
    PROVE  K!Min({a, b}) = IF a <= b THEN a ELSE b
<1>1. K!Min({a, b}) = Min({a, b})
  BY DEF K!Min, Min
<1> QED
  BY <1>1, MinOfTwo

(* What write is given are bytes, those of a shorter write its first.       *)
LEMMA BytesOf ==
    ASSUME NEW n \in Nat, buf \in Seq(Nat)
    PROVE  /\ K!Bytes(n) \in Seq(Nat) /\ Len(K!Bytes(n)) = n
           /\ \A m \in Nat : m <= n => \A k \in 1 .. m : K!Bytes(m)[k] = K!Bytes(n)[k]
<1>1. \A e \in 1 .. Len(buf) : buf[e] \in Nat
  BY ElementOfSeq
<1>2. ASSUME NEW e \in 1 .. n PROVE (IF e <= Len(buf) THEN buf[e] ELSE 0) \in Nat
  <2>1. Len(buf) \in Nat
    BY LenProperties
  <2> QED
    BY <1>1, <2>1
<1>3. K!Bytes(n) \in Seq(Nat) /\ Len(K!Bytes(n)) = n
  BY <1>2 DEF K!Bytes
<1>4. ASSUME NEW m \in Nat, m <= n, NEW k \in 1 .. m PROVE K!Bytes(m)[k] = K!Bytes(n)[k]
  <2>1. k \in 1 .. n
    BY <1>4
  <2> QED
    BY <2>1 DEF K!Bytes
<1> QED
  BY <1>3, <1>4

(* The place behind l elements that is not the first, and the one before it. *)
LEMMA PlacesBehind ==
    \A l, n, r \in Nat : n <= r => \A k \in 1 .. l + n : k > l + 1 =>
        LET m == k - 1 - l
        IN  /\ m \in 1 .. r - 1 /\ m \in 1 .. n /\ m + 1 \in 1 .. n /\ k > 1 /\ k - 1 \in 1 .. l + n
            /\ k \in 1 .. l + n /\ ~ k <= l /\ ~ k - 1 <= l /\ (k - 1) - l = m /\ k - l = m + 1
OBVIOUS

(* A sequence made of beginnings of the buffer, and one more.               *)
LEMMA OneMoreBeginning ==
    ASSUME nread \in Nat, buf \in Seq(Nat), NEW s \in Seq(Nat), MadeOf(s, K!Bytes(nread), nread), NEW n \in 1 .. nread
    PROVE  /\ s \o K!Bytes(n) \in Seq(Nat) /\ Len(s \o K!Bytes(n)) = Len(s) + n
           /\ MadeOf(s \o K!Bytes(n), K!Bytes(nread), nread)
<1> DEFINE B == K!Bytes(nread)
           C == K!Bytes(n)
           t == s \o C
<1>1. n \in Nat /\ n <= nread /\ Len(s) \in Nat
  BY LenProperties
<1>2. B \in Seq(Nat) /\ C \in Seq(Nat) /\ Len(C) = n /\ \A k \in 1 .. n : C[k] = B[k]
  BY <1>1, BytesOf
<1>3. \A k \in 1 .. Len(s) : s[k] = B[1] \/ (k > 1 /\ \E m \in 1 .. nread - 1 : s[k - 1] = B[m] /\ s[k] = B[m + 1])
  BY DEF MadeOf
<1> HIDE DEF B, C
<1>4. t \in Seq(Nat) /\ Len(t) = Len(s) + n
      /\ \A k \in 1 .. Len(s) + n : t[k] = IF k <= Len(s) THEN s[k] ELSE C[k - Len(s)]
  BY <1>2, ConcatProperties
<1> HIDE DEF t
<1>5. ASSUME NEW k \in 1 .. Len(t)
      PROVE  t[k] = B[1] \/ (k > 1 /\ \E m \in 1 .. nread - 1 : t[k - 1] = B[m] /\ t[k] = B[m + 1])
  <2>1. CASE k <= Len(s)
    <3>1. k \in 1 .. Len(s) /\ t[k] = s[k]
      BY <1>1, <1>4, <2>1
    <3>2. k > 1 => t[k - 1] = s[k - 1]
      <4> SUFFICES ASSUME k > 1 PROVE t[k - 1] = s[k - 1]
        OBVIOUS
      <4>1. k - 1 \in 1 .. Len(s) + n /\ k - 1 <= Len(s)
        BY <1>1, <2>1
      <4> QED
        BY <1>4, <4>1
    <3>3. s[k] = B[1] \/ (k > 1 /\ \E m \in 1 .. nread - 1 : s[k - 1] = B[m] /\ s[k] = B[m + 1])
      BY <1>3, <3>1
    <3> QED
      BY <3>1, <3>2, <3>3
  <2>2. CASE k = Len(s) + 1
    <3>1. k - Len(s) = 1 /\ ~ k <= Len(s) /\ 1 \in 1 .. n /\ k \in 1 .. Len(s) + n
      BY <1>1, <1>4, <2>2
    <3>2. t[k] = C[1] /\ C[1] = B[1]
      BY <1>2, <1>4, <3>1
    <3> QED
      BY <3>2
  <2>3. CASE k > Len(s) + 1
    <3> DEFINE m == k - 1 - Len(s)
    <3>1. m \in 1 .. nread - 1 /\ m \in 1 .. n /\ m + 1 \in 1 .. n /\ k > 1 /\ k - 1 \in 1 .. Len(s) + n
          /\ k \in 1 .. Len(s) + n /\ ~ k <= Len(s) /\ ~ k - 1 <= Len(s) /\ (k - 1) - Len(s) = m /\ k - Len(s) = m + 1
      <4>1. k \in 1 .. Len(s) + n
        BY ONLY <1>4
      <4> QED
        BY ONLY <1>1, <2>3, <4>1, nread \in Nat, PlacesBehind
    <3> HIDE DEF m
    <3>2. t[k - 1] = C[m] /\ t[k] = C[m + 1]
      BY <1>4, <3>1
    <3>3. C[m] = B[m] /\ C[m + 1] = B[m + 1]
      BY <1>2, <3>1
    <3>4. t[k - 1] = B[m] /\ t[k] = B[m + 1]
      BY ONLY <3>2, <3>3, Zenon
    <3>5. k > 1
      BY <3>1
    <3>6. m \in 1 .. nread - 1
      BY <3>1
    <3>7. \E o \in 1 .. nread - 1 : t[k - 1] = B[o] /\ t[k] = B[o + 1]
      BY <3>4, <3>6, Zenon
    <3> QED
      BY ONLY <3>5, <3>7
  <2>4. k <= Len(s) \/ k = Len(s) + 1 \/ k > Len(s) + 1
    <3>1. k \in Nat /\ Len(s) \in Nat
      BY <1>1, <1>4
    <3> QED
      BY ONLY <3>1
  <2> QED
    BY ONLY <2>1, <2>2, <2>3, <2>4, Zenon
<1>6. MadeOf(t, B, nread)
  BY <1>5 DEF MadeOf
<1> QED
  BY <1>4, <1>6 DEF t, C, B

(* What the numbers of a setting are.                                       *)
LEMMA SettingNumbers ==
    ASSUME SocketsAssumption, SocketTypes
    PROVE  /\ setting.length \in Nat /\ setting.garbage \in Nat /\ setting.short \in BOOLEAN
           /\ FreadSize \in Nat \ {0} /\ BUF_SIZE \in Nat \ {0} /\ Page \in Seq(Nat)
BY DEF SocketsAssumption, SocketTypes

(* As long as nothing is sent, what is sent is right.                       *)
LEMMA NothingSent == ASSUME NEW b, NEW n PROVE << >> \o << >> = << >> /\ Len(<< >>) = 0 /\ MadeOf(<< >>, b, n)
<1>1. << >> \o << >> = << >>
  <2>1. << >> \in Seq(Nat)
    OBVIOUS
  <2> QED
    BY <2>1, ConcatEmptySeq
<1>2. Len(<< >>) = 0
  OBVIOUS
<1> QED
  BY <1>1, <1>2 DEF MadeOf

(* A multiple is no less.                                                   *)
LEMMA TimesMore == ASSUME NEW q \in Nat, NEW f \in Nat \ {0} PROVE q <= q * f
<1>1. f - 1 \in Nat /\ q * (f - 1) \in Nat
  OBVIOUS
<1>2. q * f = q * (f - 1) + q
  OBVIOUS
<1>3. q * f \in Nat
  OBVIOUS
<1> QED
  BY <1>1, <1>2, <1>3

(* Who has sent something has read its input.                               *)
LEMMA NotReading ==
    ASSUME SocketInv, up # << >> PROVE cl # "fread"
BY DEF SocketInv, SentSoFar

(* Joining bytes is associative.                                            *)
LEMMA Associates ==
    ASSUME NEW a \in Seq(Nat), NEW b \in Seq(Nat), NEW c \in Seq(Nat)
    PROVE  (a \o b) \o c = a \o (b \o c)
BY ConcatAssociative

(* The two parts of a sequence that is cut.                                 *)
LEMMA CutsAre ==
    ASSUME NEW s \in Seq(Nat), NEW n \in 0 .. Len(s)
    PROVE  /\ SubSeq(s, 1, n) \in Seq(Nat) /\ Len(SubSeq(s, 1, n)) = n
           /\ \A k \in 1 .. n : SubSeq(s, 1, n)[k] = s[k]
           /\ SubSeq(s, n + 1, Len(s)) \in Seq(Nat) /\ Len(SubSeq(s, n + 1, Len(s))) = Len(s) - n
           /\ \A k \in 1 .. Len(s) - n : SubSeq(s, n + 1, Len(s))[k] = s[n + k]
<1>1. /\ SubSeq(s, 1, n) \in Seq(Nat) /\ Len(SubSeq(s, 1, n)) = n
      /\ SubSeq(s, n + 1, Len(s)) \in Seq(Nat) /\ Len(SubSeq(s, n + 1, Len(s))) = Len(s) - n
  BY CutJoin
<1>2. Len(s) \in Nat /\ n \in Int /\ \A k \in 1 .. Len(s) : s[k] \in Nat
  BY LenProperties, ElementOfSeq
<1>3. ASSUME NEW k \in 1 .. n PROVE SubSeq(s, 1, n)[k] = s[k]
  BY <1>2, SubSeqProperties
<1>4. ASSUME NEW k \in 1 .. Len(s) - n PROVE SubSeq(s, n + 1, Len(s))[k] = s[n + k]
  BY <1>2, SubSeqProperties
<1> QED
  BY <1>1, <1>3, <1>4

(* What is read, sent and printed at first.                                 *)
LEMMA SocketsInit == ASSUME SocketsAssumption, K!Init PROVE SocketInv
<1>1. setting \in Settings /\ setting.length \in Nat /\ setting.garbage \in Nat /\ setting.dirty \in BOOLEAN
      /\ FreadSize \in Nat \ {0}
  BY DEF SocketsAssumption, K!Init
<1>2. input \in Seq(Nat) /\ Len(input) = setting.length /\ (\A k \in 1 .. Len(input) : input[k] = k) /\ << >> \in Seq(Nat)
  BY <1>1 DEF K!Init
<1>3. SocketTypes
  BY <1>1, <1>2 DEF K!Init, SocketTypes
<1>4. ReadSoFar
  <2>1. Len(buf) = 0 /\ nread = setting.garbage /\ cl = "fread"
    BY DEF K!Init
  <2>2. 0 * FreadSize = 0 /\ setting.length - Len(input) = 0
    BY <1>1, <1>2
  <2>3. Filled(buf, 0, 0)
    BY <1>1, <2>1, <2>2 DEF Filled
  <2>4. \E q \in Nat : Filled(buf, setting.length - Len(input), q)
    BY <2>2, <2>3
  <2>5. \A k \in 1 .. Len(buf) : buf[k] = setting.length - Len(input) - FreadSize + k
    BY <2>1
  <2>6. \E q \in Nat : setting.length - Len(input) = q * FreadSize
    BY <2>2
  <2>7. \A k \in 1 .. Len(input) : input[k] = setting.length - Len(input) + k
    BY <1>2, <2>2
  <2>8. Len(buf) = IF FreadSize <= setting.length - Len(input) THEN FreadSize ELSE setting.length - Len(input)
    BY <1>1, <2>1, <2>2
  <2>9. Len(input) <= setting.length /\ nread = setting.garbage + (setting.length - Len(input))
    BY <1>1, <1>2, <2>1, <2>2
  <2> QED
    BY <2>1, <2>4, <2>5, <2>6, <2>7, <2>8, <2>9 DEF ReadSoFar
<1>5. SentSoFar
  BY <1>1, <1>2, NothingSent DEF K!Init, SentSoFar
<1>6. Came(<< >>)
  <2>1. (<< >> \o << >>) \o << >> = << >>
    BY <1>2, ConcatEmptySeq
  <2> QED
    BY <2>1 DEF Came, K!Init
<1>7. PrintedSoFar
  BY <1>1, <1>2, <1>6, DirtyAtFirst DEF PrintedSoFar, K!Init
<1> QED
  BY <1>3, <1>4, <1>5, <1>7 DEF SocketInv

(* A step that reads nothing changes nothing of what is read.               *)
LEMMA ReadStays ==
    ASSUME ReadSoFar, UNCHANGED <<setting, input, buf, nread>>, cl' = cl \/ cl # "fread" PROVE ReadSoFar'
BY DEF ReadSoFar, Filled

(* A step that sends nothing changes nothing of what is sent, though it may *)
(* have been received meanwhile.                                            *)
LEMMA SentStays ==
    ASSUME SentSoFar, UNCHANGED <<setting, buf, nread, len>>, (received \o up)' = received \o up,
           \/ cl' = cl /\ (UNCHANGED <<received, up>> \/ cl # "fread")
           \/ cl = "read" /\ cl' = "exited"
           \/ cl = "write" /\ cl' = "read" /\ len >= nread
    PROVE  SentSoFar'
<1>1. K!Bytes(nread)' = K!Bytes(nread)
  BY DEF K!Bytes
<1> QED
  BY <1>1 DEF SentSoFar

(* A step that is not about what comes back changes nothing of it.          *)
LEMMA PrintedStays ==
    ASSUME PrintedSoFar, UNCHANGED <<setting, down, held, received, printed, outBuf>>,
           sv' = sv \/ (setting.peer = "echo" /\ sv' = "exited" /\ sv = "recv")
    PROVE  PrintedSoFar'
<1>1. PICK q \in Seq(Nat) : Dirty(printed, q) /\ Came(q)
  BY DEF PrintedSoFar
<1>2. Dirty(printed, q)' /\ Came(q)'
  BY <1>1 DEF Dirty, Came, K!Garbage
<1> QED
  BY <1>2 DEF PrintedSoFar, K!Garbage

(* fread takes bytes: the buffer is filled from its start.                  *)
LEMMA FreadFills ==
    ASSUME SocketsAssumption, SocketTypes, ReadSoFar, K!Fread, K!Min({FreadSize, Len(input)}) # 0
    PROVE  SocketTypes' /\ ReadSoFar'
<1>1. /\ cl = "fread" /\ UNCHANGED <<setting, len, up, down, upEnds, downEnds, sv, held, received, printed, outBuf>>
  BY DEF K!Fread, K!wireVars
<1> DEFINE n == K!Min({FreadSize, Len(input)})
           c == setting.length - Len(input)
           first == SubSeq(input, 1, n)
           rest == SubSeq(buf, n + 1, Len(buf))
           behind == SubSeq(input, n + 1, Len(input))
<1>2. /\ setting.length \in Nat /\ setting.garbage \in Nat /\ FreadSize \in Nat \ {0} /\ Len(input) \in Nat
      /\ input \in Seq(Nat) /\ buf \in Seq(Nat) /\ nread \in Nat /\ Len(buf) \in Nat
  BY SettingNumbers, LenProperties DEF SocketTypes
<1>3. n = IF FreadSize <= Len(input) THEN FreadSize ELSE Len(input)
  BY <1>2, LesserOf2
<1>4. /\ buf' = first \o rest /\ nread' = nread + n /\ input' = behind /\ cl' = cl
  BY DEF K!Fread
<1>5. n # 0
  OBVIOUS
<1> HIDE DEF n
<1>6. n \in 1 .. Len(input) /\ n \in 0 .. Len(input) /\ n \in Nat /\ n + 1 \in Nat
  BY <1>2, <1>3, <1>5
<1>7. input # << >>
  BY <1>2, <1>6, EmptySeq
<1>8. /\ c \in Nat /\ (\A k \in 1 .. Len(input) : input[k] = c + k) /\ nread = setting.garbage + c
      /\ Len(buf) = (IF FreadSize <= c THEN FreadSize ELSE c)
      /\ \A k \in 1 .. Len(buf) : buf[k] = c - FreadSize + k
  <2>1. c \in Nat
    BY <1>2 DEF ReadSoFar
  <2>2. (\A k \in 1 .. Len(input) : input[k] = c + k) /\ nread = setting.garbage + c
        /\ Len(buf) = (IF FreadSize <= c THEN FreadSize ELSE c)
    BY ReadSoFar DEF ReadSoFar
  <2>3. \A k \in 1 .. Len(buf) : buf[k] = c - FreadSize + k
    BY <1>7, ReadSoFar DEF ReadSoFar
  <2> QED
    BY <2>1, <2>2, <2>3
<1>9. PICK p \in Nat : c = p * FreadSize
  BY <1>7 DEF ReadSoFar
<1>10. c + Len(input) = setting.length
  BY <1>2
<1> HIDE DEF c
<1>11. first \in Seq(Nat) /\ behind \in Seq(Nat) /\ Len(first) = n /\ Len(behind) = Len(input) - n
      /\ (\A k \in 1 .. n : first[k] = input[k]) /\ (\A k \in 1 .. Len(input) - n : behind[k] = input[n + k])
  BY <1>2, <1>6, CutsAre
<1>12. rest \in Seq(Nat) /\ Len(rest) = (IF n <= Len(buf) THEN Len(buf) - n ELSE 0)
       /\ \A k \in 1 .. Len(rest) : rest[k] = buf[n + k]
  <2>1. CASE n <= Len(buf)
    <3>1. n \in 0 .. Len(buf)
      BY <1>2, <1>6, <2>1
    <3> QED
      BY <1>2, <2>1, <3>1, CutsAre
  <2>2. CASE Len(buf) < n
    <3>1. rest = << >>
      <4>1. Len(buf) < n + 1 /\ n + 1 \in Int /\ Len(buf) \in Int
        BY <1>2, <1>6, <2>2
      <4> QED
        BY <4>1, SubSeqEmpty
    <3>2. Len(<< >>) = 0 /\ << >> \in Seq(Nat)
      OBVIOUS
    <3> HIDE DEF rest
    <3>3. Len(rest) = 0 /\ rest \in Seq(Nat)
      BY <3>1, <3>2, Zenon
    <3> QED
      BY <1>2, <1>6, <2>2, <3>3
  <2> QED
    BY <1>2, <1>6, <2>1, <2>2
<1> HIDE DEF first, rest, behind
<1>13. /\ buf' \in Seq(Nat) /\ Len(buf') = n + Len(rest) /\ Len(rest) \in Nat
       /\ \A k \in 1 .. n + Len(rest) : buf'[k] = IF k <= n THEN first[k] ELSE rest[k - n]
  <2>1. /\ first \o rest \in Seq(Nat) /\ Len(first \o rest) = Len(first) + Len(rest)
        /\ \A k \in 1 .. Len(first) + Len(rest) :
              (first \o rest)[k] = IF k <= Len(first) THEN first[k] ELSE rest[k - Len(first)]
    BY <1>11, <1>12, ConcatProperties
  <2>2. Len(rest) \in Nat /\ Len(first) = n
    BY <1>11, <1>12, LenProperties
  <2> QED
    BY ONLY <1>4, <2>1, <2>2, Zenon
<1>14. SocketTypes'
  <2>1. nread' \in Nat
    BY <1>2, <1>4, <1>6
  <2> QED
    BY <1>1, <1>4, <1>11, <1>13, <2>1 DEF SocketTypes
<1>15. \A k \in 1 .. Len(buf') : buf'[k] = IF k <= n THEN c + k ELSE c - FreadSize + k
  <2> TAKE k \in 1 .. Len(buf')
  <2>0. k \in 1 .. n + Len(rest) /\ k \in Nat
    BY <1>6, <1>13
  <2>1. CASE k <= n
    <3>1. k \in 1 .. n /\ k \in 1 .. Len(input)
      BY <1>2, <1>6, <2>0, <2>1
    <3> QED
      BY <1>8, <1>11, <1>13, <2>0, <2>1, <3>1
  <2>2. CASE ~ k <= n
    <3> DEFINE e == k - n
    <3>1. e \in 1 .. Len(rest) /\ n + e = k /\ n + e \in 1 .. Len(buf)
      <4>1. k > n /\ k <= n + Len(rest) /\ n \in Nat /\ Len(rest) \in Nat /\ Len(buf) \in Nat
        BY <1>2, <1>6, <1>13, <2>0, <2>2
      <4>2. Len(rest) = IF n <= Len(buf) THEN Len(buf) - n ELSE 0
        BY <1>12
      <4> QED
        BY ONLY <2>0, <4>1, <4>2
    <3>2. buf'[k] = rest[e]
      BY <1>13, <2>0, <2>2
    <3> HIDE DEF e
    <3>3. rest[e] = buf[k]
      BY <1>12, <3>1
    <3>4. k \in 1 .. Len(buf)
      BY <3>1
    <3> QED
      BY <1>8, <2>2, <3>2, <3>3, <3>4
  <2> QED
    BY <2>1, <2>2
<1>16. setting' = setting /\ setting.length - Len(input') = c + n /\ Len(input') = Len(input) - n
  <2>1. setting' = setting /\ Len(input') = Len(input) - n
    BY <1>1, <1>4, <1>11
  <2>2. setting.length - (Len(input) - n) = c + n
    BY <1>2, <1>6, <1>8, <1>10
  <2> QED
    BY <2>1, <2>2
<1>17. Len(buf') = IF FreadSize <= c + n THEN FreadSize ELSE c + n
  <2>1. Len(buf') = n + Len(rest) /\ Len(rest) = IF n <= Len(buf) THEN Len(buf) - n ELSE 0
    BY <1>12, <1>13
  <2>2. Len(buf) = IF FreadSize <= c THEN FreadSize ELSE c
    BY <1>8
  <2>3. c = 0 \/ FreadSize <= c
    <3>1. CASE p = 0
      BY <1>2, <1>9, <3>1
    <3>2. CASE p # 0
      <4>1. p \in Nat \ {0}
        BY <3>2
      <4>2. FreadSize <= FreadSize * p /\ FreadSize * p = p * FreadSize
        BY <1>2, <4>1, TimesMore
      <4> QED
        BY <1>9, <4>2
    <3> QED
      BY <3>1, <3>2
  <2>4. n <= FreadSize
    BY <1>2, <1>3
  <2> QED
    BY <1>2, <1>6, <1>8, <2>1, <2>2, <2>3, <2>4
<1>18. \A k \in 1 .. Len(input') : input'[k] = c + n + k
  <2> TAKE k \in 1 .. Len(input')
  <2>1. k \in 1 .. Len(input) - n /\ n + k \in 1 .. Len(input)
    BY <1>2, <1>6, <1>16
  <2>2. input'[k] = input[n + k]
    BY <1>4, <1>11, <2>1
  <2> QED
    BY <1>6, <1>8, <2>1, <2>2
<1>19. Filled(buf', c + n, p)
  <2>1. p * FreadSize <= c + n /\ c + n <= p * FreadSize + FreadSize
    <3>1. n <= FreadSize
      BY <1>2, <1>3
    <3>2. c <= c + n /\ c + n <= c + FreadSize
      BY <1>2, <1>6, <1>8, <3>1
    <3> QED
      BY <1>9, <3>2
  <2>2. ASSUME NEW k \in 1 .. Len(buf')
        PROVE  buf'[k] = IF p * FreadSize + k <= c + n THEN p * FreadSize + k ELSE p * FreadSize + k - FreadSize
    <3>1. k \in Nat /\ c \in Nat /\ n \in Nat /\ FreadSize \in Nat
      BY <1>2, <1>6, <1>8, <1>13
    <3>2. (c + k <= c + n) = (k <= n) /\ c - FreadSize + k = c + k - FreadSize
      BY ONLY <3>1
    <3>3. buf'[k] = IF k <= n THEN c + k ELSE c - FreadSize + k
      BY <1>15
    <3>4. buf'[k] = IF c + k <= c + n THEN c + k ELSE c + k - FreadSize
      BY ONLY <3>2, <3>3
    <3> QED
      BY ONLY <1>9, <3>4, Zenon
  <2> QED
    BY <2>1, <2>2 DEF Filled
<1>20. ASSUME input' # << >> PROVE (\E q \in Nat : c + n = q * FreadSize) /\ \A k \in 1 .. Len(buf') : buf'[k] = c + n - FreadSize + k
  <2>1. n = FreadSize /\ Len(input') # 0
    <3>1. Len(input') # 0
      BY <1>4, <1>11, <1>20, EmptySeq
    <3> QED
      BY <1>2, <1>3, <1>6, <1>16, <3>1
  <2>2. c + n = (p + 1) * FreadSize /\ p + 1 \in Nat
    BY <1>2, <1>9, <2>1
  <2>3. Len(buf') = n
    BY <1>2, <1>6, <1>8, <1>17, <2>1
  <2>4. \A k \in 1 .. Len(buf') : k <= n /\ c + k = c + n - FreadSize + k
    BY <1>2, <1>6, <1>8, <2>1, <2>3
  <2>5. \A k \in 1 .. Len(buf') : buf'[k] = c + n - FreadSize + k
    BY <1>15, <2>4
  <2>6. \E q \in Nat : c + n = q * FreadSize
    BY <2>2, Zenon
  <2> QED
    BY <2>5, <2>6, Zenon
<1> QED
  <2>1. Len(input') <= setting.length /\ nread' = setting.garbage + (c + n) /\ cl' = "fread"
    <3>1. nread' = setting.garbage + c + n
      BY <1>4, <1>8
    <3>2. setting.garbage \in Nat /\ c \in Nat /\ n \in Nat
      BY <1>2, <1>6, <1>8
    <3>3. nread' = setting.garbage + (c + n)
      BY ONLY <3>1, <3>2
    <3>4. Len(input') <= setting.length
      <4>1. Len(input') = Len(input) - n /\ c + Len(input) = setting.length /\ Len(input) \in Nat
        BY <1>2, <1>10, <1>16
      <4> QED
        BY ONLY <3>2, <4>1
    <3> QED
      BY <1>1, <1>4, <3>3, <3>4
  <2>2. \E q \in Nat : Filled(buf', c + n, q)
    BY <1>19
  <2>3. setting'.length - Len(input') = c + n /\ setting'.length = setting.length /\ setting'.garbage = setting.garbage
    BY ONLY <1>16
  <2>4. Len(input') <= setting'.length /\ nread' = setting'.garbage + (setting'.length - Len(input'))
    BY ONLY <2>1, <2>3
  <2>5. \A k \in 1 .. Len(input') : input'[k] = setting'.length - Len(input') + k
    BY ONLY <1>18, <2>3
  <2>6. Len(buf') = IF FreadSize <= setting'.length - Len(input') THEN FreadSize ELSE setting'.length - Len(input')
    BY ONLY <1>17, <2>3
  <2>7. \E q \in Nat : Filled(buf', setting'.length - Len(input'), q)
    BY ONLY <2>2, <2>3
  <2>8. input' # << >> =>
              /\ \E q \in Nat : setting'.length - Len(input') = q * FreadSize
              /\ \A k \in 1 .. Len(buf') : buf'[k] = setting'.length - Len(input') - FreadSize + k
    <3> SUFFICES ASSUME input' # << >>
                 PROVE  /\ \E q \in Nat : setting'.length - Len(input') = q * FreadSize
                        /\ \A k \in 1 .. Len(buf') : buf'[k] = setting'.length - Len(input') - FreadSize + k
      OBVIOUS
    <3>1. (\E q \in Nat : c + n = q * FreadSize) /\ \A k \in 1 .. Len(buf') : buf'[k] = c + n - FreadSize + k
      BY <1>20
    <3> DEFINE L == setting'.length - Len(input')
    <3>2. L = c + n
      BY <2>3
    <3> HIDE DEF L
    <3>3. \E q \in Nat : L = q * FreadSize
      <4>1. PICK q \in Nat : c + n = q * FreadSize
        BY <3>1
      <4>2. L = q * FreadSize
        BY ONLY <3>2, <4>1, Zenon
      <4> QED
        BY <4>2, Zenon
    <3>4. ASSUME NEW k \in 1 .. Len(buf') PROVE buf'[k] = L - FreadSize + k
      <4>1. buf'[k] = c + n - FreadSize + k
        BY <3>1
      <4>2. c \in Int /\ n \in Int /\ FreadSize \in Int /\ k \in Int /\ L \in Int
        BY <1>2, <1>6, <1>8, <1>13, <3>2
      <4>3. c + n - FreadSize + k = L - FreadSize + k
        BY ONLY <3>2, <4>2
      <4> QED
        BY <4>1, <4>3
    <3> QED
      BY <3>3, <3>4, Zenon DEF L
  <2>9. ReadSoFar'
    BY ONLY <2>1, <2>4, <2>5, <2>6, <2>7, <2>8 DEF ReadSoFar
  <2> QED
    BY <1>14, <2>9

(* fread fills the buffer from its start.                                   *)
LEMMA FreadKeeps == ASSUME SocketsAssumption, SocketInv, K!Fread PROVE SocketInv'
<1>1. /\ cl = "fread" /\ UNCHANGED <<setting, len, up, down, upEnds, downEnds, sv, held, received, printed, outBuf>>
  BY DEF K!Fread, K!wireVars
<1> DEFINE n == K!Min({FreadSize, Len(input)})
<1>2. /\ setting.length \in Nat /\ setting.garbage \in Nat /\ FreadSize \in Nat \ {0} /\ Len(input) \in Nat
      /\ input \in Seq(Nat) /\ buf \in Seq(Nat) /\ nread \in Nat /\ Len(buf) \in Nat
  BY SettingNumbers, LenProperties DEF SocketInv, SocketTypes
<1>3. n = IF FreadSize <= Len(input) THEN FreadSize ELSE Len(input)
  BY <1>2, LesserOf2
<1>4. SentSoFar'
  <2>1. received' = << >> /\ up' = << >> /\ len' = 0
    BY <1>1 DEF SocketInv, SentSoFar
  <2>2. cl' \in {"fread", "write"}
    BY <1>1 DEF K!Fread
  <2> QED
    BY <2>1, <2>2, NothingSent DEF SentSoFar
<1>5. CASE n = 0
  <2>1. cl' = "write" /\ UNCHANGED <<buf, nread, input>>
    BY <1>5 DEF K!Fread
  <2>2. input = << >>
    <3>1. Len(input) = 0
      BY <1>2, <1>3, <1>5
    <3> QED
      BY <1>2, <3>1, EmptySeq
  <2>3. SocketTypes'
    BY <1>1, <2>1 DEF SocketInv, SocketTypes
  <2>4. ReadSoFar'
    BY <1>1, <2>1, <2>2 DEF SocketInv, ReadSoFar, Filled
  <2> QED
    BY <1>1, <1>4, <2>3, <2>4, PrintedStays DEF SocketInv
<1>6. CASE n # 0
  <2> QED
    BY <1>1, <1>4, <1>6, <1>2, FreadFills, PrintedStays DEF SocketInv
<1> QED
  BY <1>5, <1>6

(* One write sends a beginning of the buffer, the whole unless it is short. *)
LEMMA WriteSends == ASSUME SocketsAssumption, SocketInv, K!Write PROVE SocketInv'
<1>1. /\ cl = "write" /\ len < nread
      /\ UNCHANGED <<setting, input, cl, buf, nread, down, upEnds, downEnds, sv, held, received, printed, outBuf>>
  BY DEF K!Write
<1>2. /\ setting.length \in Nat /\ setting.short \in BOOLEAN /\ buf \in Seq(Nat) /\ up \in Seq(Nat)
      /\ nread \in Nat /\ len \in Nat /\ received \in Seq(Nat)
  BY SettingNumbers DEF SocketInv, SocketTypes
<1>3. PICK n \in (IF setting.short THEN 1 .. nread ELSE {nread}) : up' = up \o K!Bytes(n) /\ len' = len + n
  BY DEF K!Write
<1>4. n \in 1 .. nread /\ n \in Nat /\ (~ setting.short => n = nread)
  BY <1>1, <1>2
<1>5. K!Bytes(n) \in Seq(Nat)
  BY <1>2, <1>4, BytesOf
<1>6. SocketTypes'
  <2>1. up' \in Seq(Nat)
    BY <1>2, <1>3, <1>5, ConcatProperties
  <2>2. len' \in Nat
    BY <1>2, <1>3, <1>4
  <2> QED
    BY <1>1, <2>1, <2>2 DEF SocketInv, SocketTypes
<1> DEFINE s == received \o up
           t == s \o K!Bytes(n)
<1>7. s \in Seq(Nat) /\ Len(s) = len /\ MadeOf(s, K!Bytes(nread), nread)
      /\ (~ setting.short => s \in {<< >>, K!Bytes(nread)})
  BY <1>2, ConcatProperties DEF SocketInv, SentSoFar
<1>8. (received \o up)' = t
  <2>1. (received \o up) \o K!Bytes(n) = received \o (up \o K!Bytes(n))
    BY <1>2, <1>5, Associates
  <2> QED
    BY <1>1, <1>3, <2>1, Zenon
<1>9. Len(t) = len' /\ MadeOf(t, K!Bytes(nread), nread)
  BY <1>2, <1>3, <1>4, <1>7, OneMoreBeginning
<1>10. ~ setting.short => t = K!Bytes(nread)
  <2> SUFFICES ASSUME ~ setting.short PROVE t = K!Bytes(nread)
    OBVIOUS
  <2>1. Len(K!Bytes(nread)) = nread
    BY <1>2, BytesOf
  <2>2. s = << >>
    <3> HIDE DEF s
    <3> QED
      BY <1>1, <1>2, <1>7, <2>1
  <2> HIDE DEF s
  <2>3. << >> \o K!Bytes(n) = K!Bytes(n)
    BY <1>5, ConcatEmptySeq
  <2> QED
    BY <1>4, <2>2, <2>3
<1> HIDE DEF t
<1>11. K!Bytes(nread)' = K!Bytes(nread)
  BY <1>1 DEF K!Bytes
<1>12. SentSoFar'
  BY <1>1, <1>8, <1>9, <1>10, <1>11 DEF SentSoFar
<1> QED
  BY <1>1, <1>6, <1>12, ReadStays, PrintedStays DEF SocketInv

(* Everything is written.                                                   *)
LEMMA WriteEndsKeeps == ASSUME SocketsAssumption, SocketInv, K!WriteEnds PROVE SocketInv'
<1>1. /\ cl = "write" /\ ~ len < nread /\ cl' = "read"
      /\ UNCHANGED <<setting, input, buf, nread, len, up, down, upEnds, downEnds, sv, held, received, printed, outBuf>>
  BY DEF K!WriteEnds, K!wireVars
<1>2. nread \in Nat /\ len \in Nat
  BY DEF SocketInv, SocketTypes
<1>3. SocketTypes'
  BY <1>1 DEF SocketInv, SocketTypes
<1>4. SentSoFar'
  BY <1>1, <1>2, SentStays DEF SocketInv
<1> QED
  BY <1>1, <1>3, <1>4, ReadStays, PrintedStays DEF SocketInv

(* What is read is printed.                                                 *)
LEMMA ReadKeeps == ASSUME SocketsAssumption, SocketInv, K!Read PROVE SocketInv'
<1>1. /\ down # << >> /\ outBuf' = << >>
      /\ UNCHANGED <<setting, input, cl, buf, nread, len, up, upEnds, downEnds, sv, held, received>>
  BY DEF K!Read, K!clientVars
<1>2. down \in Seq(Nat) /\ held \in Seq(Nat) /\ Page \in Seq(Nat)
  BY SettingNumbers DEF SocketInv, SocketTypes
<1>3. PICK n \in 1 .. Len(down) : /\ printed' = printed \o SubSeq(down, 1, n) \o outBuf
                                 /\ down' = SubSeq(down, n + 1, Len(down))
  BY DEF K!Read
<1>4. PICK d \in Seq(Nat) : down' \in Seq(Nat) /\ down = d \o down' /\ printed' = (printed \o d) \o outBuf
  <2>1. n \in 0 .. Len(down)
    OBVIOUS
  <2>2. /\ SubSeq(down, 1, n) \in Seq(Nat) /\ SubSeq(down, n + 1, Len(down)) \in Seq(Nat)
        /\ down = SubSeq(down, 1, n) \o SubSeq(down, n + 1, Len(down))
    BY <1>2, <2>1, CutJoin
  <2> QED
    BY <1>3, <2>2
<1>5. printed' = (printed \o d) \o outBuf
  BY <1>4
<1>6. PICK q \in Seq(Nat) : Dirty(printed, q) /\ Came(q)
  BY DEF SocketInv, PrintedSoFar
<1>7. PICK r \in Seq(Nat) : r = q \o d
  BY ConcatProperties
<1>8. Dirty(printed', r)
  <2>1. CASE outBuf = << >>
    <3>1. Dirty(printed \o d, r)
      BY <1>6, <1>7, DirtyGrows
    <3>2. printed' = printed \o d
      <4>1. printed \o d \in Seq(Int)
        <5>1. PICK a \in Seq(Nat), b \in Seq(Nat) : printed \o d \in {a \o b, (a \o <<K!Garbage>>) \o b}
          BY <3>1 DEF Dirty
        <5>2. a \in Seq(Int) /\ b \in Seq(Int) /\ <<K!Garbage>> \in Seq(Int)
          <6>1. Nat \subseteq Int /\ K!Garbage \in Int
            BY DEF K!Garbage
          <6> QED
            BY <6>1
        <5>3. a \o b \in Seq(Int) /\ a \o <<K!Garbage>> \in Seq(Int)
          BY <5>2, ConcatProperties
        <5>4. (a \o <<K!Garbage>>) \o b \in Seq(Int)
          BY <5>2, <5>3, ConcatProperties
        <5> QED
          BY <5>1, <5>3, <5>4
      <4> QED
        BY <1>5, <2>1, <4>1, ConcatEmptySeq
    <3> QED
      BY <3>1, <3>2
  <2>2. CASE outBuf = <<K!Garbage>> /\ printed = << >>
    <3>1. q = << >>
      BY <1>6, <2>2, DirtyAtFirst
    <3>2. r = d /\ printed \o d = d
      BY <1>7, <2>2, <3>1, ConcatEmptySeq
    <3>3. printed' = d \o <<K!Garbage>>
      BY <1>5, <2>2, <3>2
    <3> QED
      BY <3>2, <3>3, DirtyAtFirst
  <2> QED
    BY <2>1, <2>2 DEF SocketInv, PrintedSoFar
<1>9. Came(r)'
  <2>1. q \o down = r \o down'
    <3>1. down' \in Seq(Nat) /\ down = d \o down'
      BY <1>4
    <3>2. q \o (d \o down') = (q \o d) \o down'
      BY <3>1, Associates
    <3>3. q \o down = q \o (d \o down')
      BY <3>1
    <3> QED
      BY <1>7, <3>2, <3>3
  <2>2. setting.peer # "echo" => sv = "exited"
    BY <1>1, <1>6 DEF Came
  <2> QED
    BY <1>1, <1>6, <2>1, <2>2 DEF Came
<1>10. Dirty(printed, r)'
  BY <1>8 DEF Dirty, K!Garbage
<1>11. PrintedSoFar'
  BY <1>1, <1>7, <1>9, <1>10 DEF SocketInv, PrintedSoFar
<1>12. SocketTypes'
  BY <1>1, <1>4 DEF SocketInv, SocketTypes
<1> QED
  BY <1>1, <1>11, <1>12, ReadStays, SentStays DEF SocketInv

(* The client ends.                                                         *)
LEMMA ReadEndsKeeps == ASSUME SocketsAssumption, SocketInv, K!ReadEnds PROVE SocketInv'
<1>1. /\ cl = "read" /\ cl' = "exited"
      /\ UNCHANGED <<setting, input, buf, nread, len, up, down, downEnds, sv, held, received, printed, outBuf>>
  BY DEF K!ReadEnds
<1>2. SocketTypes'
  BY <1>1 DEF SocketInv, SocketTypes
<1> QED
  BY <1>1, <1>2, ReadStays, SentStays, PrintedStays DEF SocketInv

(* The server receives a piece.                                             *)
LEMMA RecvKeeps == ASSUME SocketsAssumption, SocketInv, K!Recv PROVE SocketInv'
<1> DEFINE n == K!Min({BUF_SIZE, Len(up)})
<1>1. /\ sv = "recv" /\ up # << >> /\ setting.peer = "echo"
      /\ held' = SubSeq(up, 1, n) /\ up' = SubSeq(up, n + 1, Len(up)) /\ received' = received \o held' /\ sv' = "send"
      /\ UNCHANGED <<setting, input, cl, buf, nread, len, down, upEnds, downEnds, printed, outBuf>>
  BY DEF K!Recv, K!clientVars
<1>2. up \in Seq(Nat) /\ down \in Seq(Nat) /\ received \in Seq(Nat) /\ BUF_SIZE \in Nat \ {0} /\ Len(up) \in Nat
  BY SettingNumbers, LenProperties DEF SocketInv, SocketTypes
<1>3. n \in 0 .. Len(up)
  <2>1. n = IF BUF_SIZE <= Len(up) THEN BUF_SIZE ELSE Len(up)
    BY <1>2, LesserOf2
  <2> QED
    BY <1>2, <2>1
<1> HIDE DEF n
<1>4. held' \in Seq(Nat) /\ up' \in Seq(Nat) /\ up = held' \o up'
  BY <1>1, <1>2, <1>3, CutJoin
<1>5. received' \in Seq(Nat)
  BY <1>1, <1>2, <1>4, ConcatProperties
<1>6. received' \o up' = received \o up
  <2>1. received \in Seq(Nat) /\ held' \in Seq(Nat) /\ up' \in Seq(Nat) /\ up = held' \o up'
    BY <1>2, <1>4
  <2>2. received \o (held' \o up') = (received \o held') \o up'
    BY <2>1, Associates
  <2>3. received \o up = received \o (held' \o up')
    BY <2>1
  <2> QED
    BY <1>1, <2>2, <2>3
<1>7. SocketTypes'
  BY <1>1, <1>4, <1>5 DEF SocketInv, SocketTypes
<1>8. ReadSoFar' /\ SentSoFar'
  BY <1>1, <1>6, NotReading, ReadStays, SentStays DEF SocketInv
<1>9. PICK q \in Seq(Nat) : Dirty(printed, q) /\ Came(q)
  BY DEF SocketInv, PrintedSoFar
<1>10. Came(q)'
  <2>1. held = << >> /\ received = (q \o down) \o held
    BY <1>1, <1>9 DEF Came, SocketInv, PrintedSoFar
  <2>2. q \o down \in Seq(Nat)
    BY <1>2, ConcatProperties
  <2>3. received = q \o down
    BY <2>1, <2>2, ConcatEmptySeq
  <2> QED
    BY <1>1, <2>3 DEF Came
<1>11. PrintedSoFar'
  BY <1>1, <1>9, <1>10 DEF PrintedSoFar, SocketInv, Dirty, K!Garbage
<1> QED
  BY <1>7, <1>8, <1>11 DEF SocketInv

(* It sends the piece back.                                                 *)
LEMMA SendKeeps == ASSUME SocketsAssumption, SocketInv, K!Send PROVE SocketInv'
<1>1. /\ sv = "send" /\ setting.peer = "echo" /\ down' = down \o held /\ held' = << >> /\ sv' = "recv"
      /\ UNCHANGED <<setting, input, cl, buf, nread, len, up, upEnds, downEnds, received, printed, outBuf>>
  BY DEF K!Send, K!clientVars
<1>2. down \in Seq(Nat) /\ held \in Seq(Nat) /\ received \in Seq(Nat)
  BY DEF SocketInv, SocketTypes
<1>3. down' \in Seq(Nat) /\ << >> \in Seq(Nat)
  BY <1>1, <1>2, ConcatProperties
<1>4. SocketTypes'
  BY <1>1, <1>3 DEF SocketInv, SocketTypes
<1>5. PICK q \in Seq(Nat) : Dirty(printed, q) /\ Came(q)
  BY DEF SocketInv, PrintedSoFar
<1>6. Came(q)'
  <2>1. received = (q \o down) \o held
    BY <1>1, <1>5 DEF Came
  <2>2. received = q \o down'
    <3>1. q \in Seq(Nat) /\ down \in Seq(Nat) /\ held \in Seq(Nat)
      BY <1>2
    <3>2. (q \o down) \o held = q \o (down \o held)
      BY ONLY <3>1, ConcatAssociative, SMTT(30)
    <3> QED
      BY <1>1, <2>1, <3>2, Zenon
  <2>3. received = (q \o down') \o << >>
    BY <1>2, <2>2, ConcatEmptySeq
  <2> QED
    BY <1>1, <2>3 DEF Came
<1>7. PrintedSoFar'
  BY <1>1, <1>5, <1>6 DEF PrintedSoFar, SocketInv, Dirty, K!Garbage
<1> QED
  BY <1>1, <1>4, <1>7, ReadStays, SentStays DEF SocketInv

(* An HTTP server answers.                                                  *)
LEMMA ServeKeeps == ASSUME SocketsAssumption, SocketInv, K!Serve PROVE SocketInv'
<1>1. /\ sv = "recv" /\ setting.peer = "http" /\ received' = received \o up /\ up' = << >> /\ down' = down \o Page
      /\ sv' = "exited" /\ up # << >> /\ UNCHANGED <<setting, input, cl, buf, nread, len, upEnds, held, printed, outBuf>>
  BY DEF K!Serve, K!clientVars
<1>2. down \in Seq(Nat) /\ up \in Seq(Nat) /\ received \in Seq(Nat) /\ Page \in Seq(Nat) /\ << >> \in Seq(Nat)
  BY SettingNumbers DEF SocketInv, SocketTypes
<1>3. down' \in Seq(Nat) /\ received' \in Seq(Nat)
  BY <1>1, <1>2, ConcatProperties
<1>4. SocketTypes'
  BY <1>1, <1>2, <1>3 DEF SocketInv, SocketTypes
<1>5. received' \o up' = received \o up
  BY <1>1, <1>3, ConcatEmptySeq
<1>6. ReadSoFar' /\ SentSoFar'
  BY <1>1, <1>5, NotReading, ReadStays, SentStays DEF SocketInv
<1>7. PICK q \in Seq(Nat) : Dirty(printed, q) /\ Came(q)
  BY DEF SocketInv, PrintedSoFar
<1>8. Came(q)'
  <2>1. q = << >> /\ down = << >>
    BY <1>1, <1>7 DEF Came
  <2>2. Page = q \o down'
    BY <1>1, <1>2, <2>1, ConcatEmptySeq
  <2> QED
    BY <1>1, <2>2 DEF Came
<1>9. PrintedSoFar'
  BY <1>1, <1>7, <1>8 DEF PrintedSoFar, SocketInv, Dirty, K!Garbage
<1> QED
  BY <1>4, <1>6, <1>9 DEF SocketInv

(* Every step keeps the invariant.                                          *)
LEMMA SocketsStep == ASSUME SocketsAssumption, SocketInv, [K!Next]_(K!vars) PROVE SocketInv'
<1>1. CASE K!RecvEnds
  <2>1. /\ sv = "recv" /\ setting.peer = "echo" /\ sv' = "exited"
        /\ UNCHANGED <<setting, input, cl, buf, nread, len, up, down, held, received, printed, outBuf>>
    BY <1>1 DEF K!RecvEnds, K!clientVars
  <2>2. SocketTypes'
    BY <2>1 DEF SocketInv, SocketTypes
  <2> QED
    BY <2>1, <2>2, ReadStays, SentStays, PrintedStays DEF SocketInv
<1>2. CASE UNCHANGED K!vars
  <2>1. UNCHANGED <<setting, input, cl, buf, nread, len, up, down, sv, held, received, printed, outBuf>>
    BY <1>2 DEF K!vars
  <2>2. SocketTypes'
    BY <2>1 DEF SocketInv, SocketTypes
  <2> QED
    BY <2>1, <2>2, ReadStays, SentStays, PrintedStays DEF SocketInv
<1> QED
  BY <1>1, <1>2, FreadKeeps, WriteSends, WriteEndsKeeps, ReadKeeps, ReadEndsKeeps, RecvKeeps, SendKeeps, ServeKeeps
  DEF K!Next, K!Client, K!Server

(* The beginning of a joined sequence.                                      *)
LEMMA JoinedPrefix ==
    ASSUME NEW s \in Seq(Nat), NEW t \in Seq(Nat) PROVE K!IsPrefix(s, s \o t)
<1>1. Len(s) \in Nat /\ Len(t) \in Nat /\ Len(s \o t) = Len(s) + Len(t) /\ Len(s) \in 0 .. Len(s)
  BY LenProperties, ConcatProperties
<1>2. SubSeq(s \o t, 1, Len(s)) = SubSeq(s, 1, Len(s))
  BY <1>1, PrefixOfJoin
<1> QED
  BY <1>1, <1>2 DEF K!IsPrefix

(* When all is read, the buffer holds what fread leaves of the input.       *)
LEMMA InvRead == ASSUME SocketsAssumption, SocketInv PROVE K!BufHoldsInput
<1> SUFFICES ASSUME cl # "fread" PROVE K!BufHoldsInput
  BY DEF K!BufHoldsInput
<1>1. setting.length \in Nat /\ setting.garbage \in Nat /\ FreadSize \in Nat \ {0}
  BY SettingNumbers DEF SocketInv
<1>2. Len(input) = 0
  <2>1. input = << >>
    BY DEF SocketInv, ReadSoFar
  <2> QED
    BY <2>1
<1>3. setting.length - Len(input) = setting.length
  BY <1>1, <1>2
<1>4. nread = setting.garbage + setting.length
      /\ Len(buf) = IF FreadSize <= setting.length THEN FreadSize ELSE setting.length
  BY <1>3 DEF SocketInv, ReadSoFar
<1>5. Len(buf) = K!Min({FreadSize, setting.length})
  BY <1>1, <1>4, LesserOf2
<1>6. PICK q \in Nat : Filled(buf, setting.length, q)
  BY <1>3 DEF SocketInv, ReadSoFar
<1>7. q \in 0 .. setting.length
  <2>1. q * FreadSize <= setting.length
    BY <1>6 DEF Filled
  <2>2. q <= q * FreadSize
    BY <1>1, TimesMore
  <2>3. q * FreadSize \in Nat
    BY <1>1
  <2> QED
    BY <1>1, <2>1, <2>2, <2>3
<1> QED
  BY <1>4, <1>5, <1>6, <1>7 DEF Filled, K!BufHoldsInput

(* What is sent is what the buffer holds.                                   *)
LEMMA InvSent == ASSUME SocketInv PROVE K!SentFromBuf
BY DEF SocketInv, SentSoFar, MadeOf, K!SentFromBuf, K!MadeOfBeginnings

(* What is printed is what came back.                                       *)
LEMMA InvPrinted == ASSUME SocketsAssumption, SocketInv PROVE K!PrintedInOrder
<1>1. PICK q \in Seq(Nat) : Dirty(printed, q) /\ Came(q)
  BY DEF SocketInv, PrintedSoFar
<1>2. K!Printed = q
  BY <1>1, DirtyRemoved DEF K!Printed
<1>3. down \in Seq(Nat) /\ held \in Seq(Nat) /\ Page \in Seq(Nat) /\ << >> \in Seq(Nat)
  BY SettingNumbers DEF SocketInv, SocketTypes
<1>4. CASE setting.peer = "echo"
  <2>1. received = q \o (down \o held)
    <3>1. received = (q \o down) \o held
      BY <1>1, <1>4 DEF Came
    <3> QED
      BY <1>3, <3>1, Associates
  <2>2. down \o held \in Seq(Nat)
    BY <1>3, ConcatProperties
  <2> QED
    BY <1>2, <1>4, <2>1, <2>2, JoinedPrefix DEF K!PrintedInOrder
<1>5. CASE setting.peer # "echo"
  <2>1. Page = q \o down \/ q = << >>
    BY <1>1, <1>5 DEF Came
  <2>2. CASE q = << >>
    <3>1. K!IsPrefix(<< >>, << >> \o Page)
      BY <1>3, JoinedPrefix
    <3> QED
      BY <1>2, <1>3, <1>5, <2>2, <3>1, ConcatEmptySeq DEF K!PrintedInOrder
  <2>3. CASE Page = q \o down
    BY <1>2, <1>3, <1>5, <2>3, JoinedPrefix DEF K!PrintedInOrder
  <2> QED
    BY <2>1, <2>2, <2>3
<1> QED
  BY <1>4, <1>5

(* For an input of any length, a buffer of any size, any value of nread at  *)
(* first, and writes that take all or any part of what they are given: what *)
(* the buffer holds is the end of the input, what the peer gets is the      *)
(* buffer, once if no write is short and its beginnings one after another   *)
(* else, len bytes in all and no fewer than nread; and what comes back is   *)
(* printed in order.                                                        *)
THEOREM SentAndPrinted ==
    ASSUME SocketsAssumption PROVE K!Spec => [](K!BufHoldsInput /\ K!SentFromBuf /\ K!PrintedInOrder)
<1>1. K!Init => SocketInv
  BY SocketsInit
<1>2. SocketInv /\ [K!Next]_(K!vars) => SocketInv'
  BY SocketsStep
<1>3. SocketInv => K!BufHoldsInput /\ K!SentFromBuf /\ K!PrintedInOrder
  BY InvRead, InvSent, InvPrinted
<1> QED
  BY <1>1, <1>2, <1>3, PTL DEF K!Spec

----------------------------------------------------------------------------
(* The walk over the addresses of a name. *)

CONSTANT Lists
VARIABLES walk, list, stage, address, fds, allocated, result

W == INSTANCE OpenFd WITH at <- stage, p <- address, held <- allocated

(* What is assumed: the lists of addresses are finite.                      *)
WalkAssumption == \A l \in Lists : Len(l) \in Nat

\* Addresses before the present one do not work, and only its own socket may be
\* open: from the one call that opens it to those that close it.
WalkInv ==
    /\ walk \in W!Walks /\ list \in Lists /\ address \in Nat \ {0}
    /\ stage \in {"resolve", "socket", "connect", "close", "free", "listen", "done"}
    /\ \A q \in 1 .. address - 1 : list[q] # "ok"
    /\ stage \in {"resolve", "socket"} => fds = {}
    /\ stage = "connect" => address <= Len(list) /\ fds = {address}
    /\ stage = "close" => address <= Len(list) /\ fds = {address} /\ list[address] # "ok"
    /\ stage = "free" => \/ address > Len(list) /\ fds = {}
                         \/ address <= Len(list) /\ fds = {address} /\ list[address] = "ok"
    /\ stage = "listen" => address <= Len(list) /\ fds = {address} /\ list[address] = "ok" /\ ~ allocated
    /\ W!WalkRight

(* At first nothing is open.                                                *)
LEMMA WalkStarts == ASSUME WalkAssumption, W!Init PROVE WalkInv
BY DEF WalkInv, W!Init, W!WalkRight

(* Every step keeps the invariant.                                          *)
LEMMA WalkStep == ASSUME WalkAssumption, WalkInv, [W!Next]_(W!vars) PROVE WalkInv'
<1>1. Len(list) \in Nat /\ address \in Nat \ {0} /\ list \in Lists /\ walk \in W!Walks
  BY DEF WalkAssumption, WalkInv
<1>2. CASE W!getaddrinfo
  BY <1>1, <1>2 DEF W!getaddrinfo, W!Returns, WalkInv, W!WalkRight
<1>3. CASE W!Socket
  BY <1>1, <1>3 DEF W!Socket, WalkInv, W!WalkRight
<1>4. CASE W!NoMore
  BY <1>1, <1>4 DEF W!NoMore, WalkInv, W!WalkRight
<1>5. CASE W!Connect
  BY <1>1, <1>5 DEF W!Connect, WalkInv, W!WalkRight
<1>6. CASE W!Close
  BY <1>1, <1>6 DEF W!Close, W!Returns, WalkInv, W!WalkRight
<1>7. CASE W!FreeList
  <2>1. /\ stage = "free" /\ walk' = walk /\ list' = list /\ address' = address /\ fds' = fds
        /\ allocated' <=> (walk.exits /\ address > Len(list))
    BY <1>7 DEF W!FreeList
  <2>2. CASE address > Len(list)
    <3>1. stage' = "done" /\ (result' = -1 => ~ walk.exits) /\ result' \in {-1, -3} /\ fds = {}
      BY <1>1, <1>7, <2>1, <2>2 DEF W!FreeList, W!Returns, WalkInv
    <3>2. result' = -1 => ~ allocated'
      BY <2>1, <3>1
    <3>3. ~ (result' > 0) /\ fds' = {} /\ stage' = "done"
      BY <2>1, <3>1
    <3>4. (W!WalkRight)'
      BY <3>2, <3>3 DEF W!WalkRight
    <3> QED
      BY <1>1, <2>1, <3>1, <3>4 DEF WalkInv
  <2>3. CASE ~ (address > Len(list))
    <3>1. address <= Len(list) /\ fds = {address} /\ list[address] = "ok" /\ ~ allocated'
      BY <1>1, <2>1, <2>3 DEF WalkInv
    <3>2. \/ stage' = "listen"
          \/ stage' = "done" /\ result' = address
      BY <1>1, <1>7, <2>3 DEF W!FreeList, W!Returns
    <3>3. (W!WalkRight)'
      BY <1>1, <2>1, <3>1, <3>2 DEF WalkInv, W!WalkRight
    <3> QED
      BY <1>1, <2>1, <3>1, <3>2, <3>3 DEF WalkInv
  <2> QED
    BY <2>2, <2>3
<1>8. CASE W!Listen
  BY <1>1, <1>8 DEF W!Listen, W!Returns, WalkInv, W!WalkRight
<1>9. CASE UNCHANGED W!vars
  BY <1>1, <1>9 DEF W!vars, WalkInv, W!WalkRight
<1> QED
  BY <1>2, <1>3, <1>4, <1>5, <1>6, <1>7, <1>8, <1>9 DEF W!Next, W!Step

(* Whatever fails on the way, the walk leaves the socket that it returns    *)
(* open and no other, and it returns the first address that works.          *)
THEOREM WalkLeavesOne == ASSUME WalkAssumption PROVE W!Spec => []W!WalkRight
<1>1. W!Init => WalkInv
  BY WalkStarts
<1>2. WalkInv /\ [W!Next]_(W!vars) => WalkInv'
  BY WalkStep
<1>3. WalkInv => W!WalkRight
  BY DEF WalkInv
<1> QED
  BY <1>1, <1>2, <1>3, PTL DEF W!Spec

----------------------------------------------------------------------------
(* The requests of http_parser.c. *)

CONSTANTS Inputs, Missing, DefaultPort
VARIABLES requests, rest, parses, method, hostname, port, uri

H == INSTANCE HttpParser WITH input <- requests, todo <- rest, result <- parses

(* What is assumed: the requests come one after the other.                  *)
RequestsAssumption == \E R : \A s \in Inputs : s \in Seq(R)

\* The requests that are left are the last ones.
RequestInv ==
    /\ requests \in Inputs
    /\ \E R : requests \in Seq(R) /\ rest \in Seq(R)
    /\ Len(rest) <= Len(requests)
    /\ \A k \in 1 .. Len(rest) : rest[k] = requests[(Len(requests) - Len(rest)) + k]
    /\ H!StringsOwn

(* At first all are left.                                                   *)
LEMMA RequestsStart == ASSUME RequestsAssumption, H!Init PROVE RequestInv
<1>1. requests \in Inputs /\ rest = requests /\ parses = 0
  BY DEF H!Init
<1>2. PICK R : requests \in Seq(R) /\ rest \in Seq(R)
  BY <1>1 DEF RequestsAssumption
<1>3. Len(rest) \in Nat /\ Len(requests) = Len(rest) /\ \A k \in 1 .. Len(rest) : (Len(requests) - Len(rest)) + k = k
  BY <1>1, <1>2, LenProperties
<1>4. H!StringsOwn
  BY <1>1 DEF H!StringsOwn
<1>5. \A k \in 1 .. Len(rest) : rest[k] = requests[(Len(requests) - Len(rest)) + k]
  BY <1>1, <1>3
<1> QED
  BY <1>1, <1>2, <1>3, <1>4, <1>5 DEF RequestInv

(* The next request is that behind those that are done.                     *)
LEMMA NextRequest ==
    ASSUME RequestInv, rest # << >>, rest' = Tail(rest), requests' = requests
    PROVE  /\ \E R : requests' \in Seq(R) /\ rest' \in Seq(R)
           /\ Len(rest') <= Len(requests')
           /\ \A k \in 1 .. Len(rest') : rest'[k] = requests'[(Len(requests') - Len(rest')) + k]
           /\ Head(rest) = requests'[Len(requests') - Len(rest')]
<1>1. PICK R : requests \in Seq(R) /\ rest \in Seq(R)
  BY DEF RequestInv
<1> DEFINE n == Len(requests)
           m == Len(rest)
           t == Tail(rest)
<1>2. n \in Nat /\ m \in Nat /\ m <= n /\ m > 0 /\ 1 \in 1 .. m
  BY <1>1, LenProperties, EmptySeq DEF RequestInv
<1>3. Head(rest) = rest[1] /\ t \in Seq(R) /\ Len(t) = m - 1 /\ \A k \in 1 .. Len(t) : t[k] = rest[k + 1]
  BY <1>1, HeadTailProperties
<1>4. \A k \in 1 .. m : rest[k] = requests[(n - m) + k]
  BY DEF RequestInv
<1> HIDE DEF n, m, t
<1>5. n - Len(t) = (n - m) + 1 /\ Len(t) <= n
  BY <1>2, <1>3
<1>6. Head(rest) = requests[n - Len(t)]
  BY <1>2, <1>3, <1>4, <1>5
<1>7. ASSUME NEW k \in 1 .. Len(t) PROVE t[k] = requests[(n - Len(t)) + k]
  <2>1. k + 1 \in 1 .. m /\ (n - m) + (k + 1) = (n - Len(t)) + k
    BY <1>2, <1>3
  <2> QED
    BY <1>3, <1>4, <2>1
<1>8. rest' = t /\ Len(requests') = n /\ requests' = requests
  BY DEF t, n
<1> QED
  BY <1>1, <1>3, <1>5, <1>6, <1>7, <1>8

(* Every step keeps the invariant.                                          *)
LEMMA RequestStep == ASSUME RequestInv, [H!Next]_(H!vars) PROVE RequestInv'
<1>1. CASE H!Incomplete
  <2>1. rest # << >> /\ rest' = Tail(rest) /\ parses' = 0 /\ requests' = requests
    BY <1>1 DEF H!Incomplete
  <2>2. (H!StringsOwn)'
    BY <2>1 DEF H!StringsOwn
  <2> QED
    BY <2>1, <2>2, NextRequest DEF RequestInv
<1>2. CASE H!parse_request
  <2>1. rest # << >> /\ rest' = Tail(rest) /\ requests' = requests
    BY <1>2 DEF H!parse_request
  <2>2. Head(rest) = requests'[Len(requests') - Len(rest')]
    BY <2>1, NextRequest
  <2>3. (H!StringsOwn)'
    BY <1>2, <2>2 DEF H!StringsOwn, H!parse_request, H!PortOf
  <2> QED
    BY <2>1, <2>3, NextRequest DEF RequestInv
<1>3. CASE UNCHANGED H!vars
  BY <1>3 DEF H!vars, H!strings, RequestInv, H!StringsOwn
<1> QED
  BY <1>1, <1>2, <1>3 DEF H!Next

(* After a complete request its strings are its own, whatever requests      *)
(* were before it, complete or not: all but the uri of one without a path.  *)
THEOREM RequestsOwnStrings == ASSUME RequestsAssumption PROVE H!Spec => []H!StringsOwn
<1>1. H!Init => RequestInv
  BY RequestsStart
<1>2. RequestInv /\ [H!Next]_(H!vars) => RequestInv'
  BY RequestStep
<1>3. RequestInv => H!StringsOwn
  BY DEF RequestInv
<1> QED
  BY <1>1, <1>2, <1>3, PTL DEF H!Spec

----------------------------------------------------------------------------
(* The reading loops of the library. *)

CONSTANTS Longs, Stream, Wanted, BufferSize
VARIABLES step, call, errno, handler, status, cause, stream, internal, got, put

L == INSTANCE Csapp WITH at <- step, RIO_BUFSIZE <- BufferSize

(* What is assumed: there is a stream, a number of items is wanted, and the *)
(* loops are none of the wrappers in the table.                             *)
StreamItems == {Stream[k] : k \in 1 .. Len(Stream)}
ReadAssumption ==
    /\ Len(Stream) \in Nat /\ Stream \in Seq(StreamItems)
    /\ Wanted \in Nat /\ BufferSize \in Nat
    /\ "readn" \notin L!Wrappers /\ "readnb" \notin L!Wrappers

\* What has been read, what is in the library's buffer and what is still to come
\* make up the beginning of the stream that there is.
All(s, t, u) == s \o (t \o u)
Begun == SubSeq(Stream, 1, Len(got) + (Len(internal) + Len(stream)))
InPlace ==
    /\ got \in Seq(StreamItems) /\ internal \in Seq(StreamItems) /\ stream \in Seq(StreamItems)
    /\ Len(got) <= Wanted /\ Len(got) + (Len(internal) + Len(stream)) <= Len(Stream)
    /\ All(got, internal, stream) = Begun
ReadInv ==
    /\ step \in {"main", "called"} => got = << >> /\ internal = << >>
    /\ step = "called" => call.name \in L!Wrappers
    /\ step \in {"readn", "readnb"} => InPlace /\ call = [L!NoCall EXCEPT !.name = step]
    /\ step = "readn" => internal = << >>
    /\ L!AllRead

(* Nothing is read at first.                                                *)
LEMMA ReadStarts == ASSUME L!Init PROVE ReadInv
BY DEF ReadInv, L!Init, L!AllRead

(* Three parts joined from either side.                                     *)
LEMMA Rejoined ==
    ASSUME NEW S, NEW a \in Seq(S), NEW b \in Seq(S), NEW c \in Seq(S),
           NEW ab, ab = a \o b, NEW bc, bc = b \o c
    PROVE  ab \o c = a \o bc
<1>1. (a \o b) \o c = a \o (b \o c)
  BY ConcatAssociative
<1> QED
  BY <1>1

(* A part moved from the front of one sequence to the end of another leaves *)
(* the whole as it was.                                                     *)
LEMMA PartMoves ==
    ASSUME NEW S, NEW s \in Seq(S), NEW t \in Seq(S), NEW u \in Seq(S), NEW k \in 0 .. Len(t)
    PROVE  LET v == s \o SubSeq(t, 1, k)
               q == SubSeq(t, k + 1, Len(t))
           IN  /\ v \in Seq(S) /\ q \in Seq(S) /\ Len(v) = Len(s) + k /\ Len(q) = Len(t) - k
               /\ All(v, q, u) = All(s, t, u)
<1>1. PICK p, q : p = SubSeq(t, 1, k) /\ q = SubSeq(t, k + 1, Len(t))
  OBVIOUS
<1>2. p \in Seq(S) /\ Len(p) = k /\ q \in Seq(S) /\ Len(q) = Len(t) - k /\ t = p \o q
  BY <1>1, CutJoin
<1>3. PICK v : v = s \o p
  OBVIOUS
<1>4. v \in Seq(S) /\ Len(v) = Len(s) + k
  BY <1>2, <1>3, ConcatProperties
<1>5. PICK r : r = q \o u
  OBVIOUS
<1>6. PICK w : w = t \o u
  OBVIOUS
<1>7. r \in Seq(S)
  BY <1>2, <1>5, ConcatProperties
<1>8. w = p \o r
  BY <1>2, <1>5, <1>6, Rejoined
<1>9. v \o r = s \o w
  BY <1>2, <1>3, <1>7, <1>8, Rejoined
<1>10. All(v, q, u) = v \o r
  BY <1>5 DEF All
<1>11. All(s, t, u) = s \o w
  BY <1>6 DEF All
<1> QED
  BY <1>1, <1>2, <1>3, <1>4, <1>9, <1>10, <1>11

(* What was read is the beginning of the stream.                            *)
LEMMA ReadIsBegun ==
    ASSUME ReadAssumption, InPlace
    PROVE  got = SubSeq(Stream, 1, Len(got))
<1> DEFINE n == Len(got)
           r == internal \o stream
           m == n + (Len(internal) + Len(stream))
           h == SubSeq(Stream, 1, m)
           q == SubSeq(Stream, m + 1, Len(Stream))
<1>1. r \in Seq(StreamItems) /\ n \in Nat /\ Len(internal) \in Nat /\ Len(stream) \in Nat /\ got \in Seq(StreamItems)
  BY ConcatProperties, LenProperties DEF InPlace
<1>2. m \in 0 .. Len(Stream)
  BY <1>1 DEF InPlace
<1>3. Stream \in Seq(StreamItems)
  BY DEF ReadAssumption
<1>4. h \in Seq(StreamItems) /\ Len(h) = m /\ q \in Seq(StreamItems) /\ Stream = h \o q
  BY <1>2, <1>3, CutJoin
<1>5. got \o r = h
  BY DEF InPlace, Begun, All
<1>6. n \in 0 .. n /\ n \in 0 .. m
  BY <1>1
<1> HIDE DEF m, h, q, r
<1>7. SubSeq(got \o r, 1, n) = SubSeq(got, 1, n)
  BY <1>1, <1>6, PrefixOfJoin
<1>8. SubSeq(h \o q, 1, n) = SubSeq(h, 1, n)
  BY <1>4, <1>6, PrefixOfJoin
<1>9. SubSeq(got, 1, n) = got
  BY <1>1, SubSeqFull
<1> QED
  BY <1>4, <1>5, <1>7, <1>8, <1>9

(* Every step keeps the invariant.                                          *)
LEMMA ReadStep == ASSUME ReadAssumption, ReadInv, [L!Next]_(L!vars) PROVE ReadInv'
<1>1. CASE \E w \in L!Wrappers : L!Call(w)
  <2>1. PICK w \in L!Wrappers : L!Call(w)
    BY <1>1
  <2>2. step = "main" /\ step' = "called" /\ call'.name = w /\ got' = got /\ internal' = internal
    BY <2>1 DEF L!Call, L!rio
  <2> QED
    BY <2>2 DEF ReadInv, L!AllRead
<1>2. CASE L!Exit
  BY <1>2 DEF L!Exit, ReadInv, L!AllRead
<1>3. CASE L!Return
  BY <1>3 DEF L!Return, ReadInv, L!AllRead, ReadAssumption
<1>4. CASE L!Signal
  BY <1>4 DEF L!Signal, ReadInv, L!AllRead, L!rio
<1>5. CASE \E v \in Longs : L!Sio_putl(v)
  <2>1. PICK v \in Longs : L!Sio_putl(v)
    BY <1>5
  <2>2. step' = "returned" /\ call'.name = "Sio_putl"
    BY <2>1 DEF L!Sio_putl, L!NoCall
  <2> QED
    BY <2>2 DEF ReadInv, L!AllRead
<1>6. ASSUME NEW name \in {"readn", "readnb"}, L!Begin(name) PROVE ReadInv'
  <2>1. PICK k \in 0 .. Len(Stream) : stream' = SubSeq(Stream, 1, k)
    BY <1>6 DEF L!Begin
  <2>2. /\ step = "main" /\ step' = name /\ call' = [L!NoCall EXCEPT !.name = name]
        /\ got' = << >> /\ internal' = << >>
    BY <1>6 DEF L!Begin, ReadInv
  <2>3. stream' \in Seq(StreamItems) /\ Len(stream') = k
    BY <2>1, CutJoin DEF ReadAssumption
  <2>4. << >> \in Seq(StreamItems) /\ Len(<< >>) = 0
    BY EmptySeq
  <2>5. All(<< >>, << >>, stream') = stream'
    BY <2>3, <2>4, ConcatEmptySeq DEF All
  <2>6. 0 + (0 + Len(stream')) = k /\ k <= Len(Stream) /\ 0 <= Wanted
    BY <2>3 DEF ReadAssumption
  <2>7. InPlace'
    BY <2>1, <2>2, <2>3, <2>4, <2>5, <2>6 DEF InPlace, Begun
  <2> QED
    BY <2>2, <2>7 DEF ReadInv, L!AllRead
<1>7. CASE L!ReadsPart
  <2>1. PICK k \in 1 .. L!Min({L!Left, Len(stream)}) :
            got' = got \o SubSeq(stream, 1, k) /\ stream' = SubSeq(stream, k + 1, Len(stream))
    BY <1>7 DEF L!ReadsPart
  <2>2. /\ step = "readn" /\ step' = step /\ call' = call /\ internal' = internal /\ internal = << >>
        /\ L!Left > 0 /\ InPlace
    BY <1>7 DEF L!ReadsPart, ReadInv
  <2>3. Len(got) \in Nat /\ Len(stream) \in Nat /\ Wanted \in Nat
    BY <2>2, LenProperties DEF InPlace, ReadAssumption
  <2>4. L!Left = Wanted - Len(got) /\ L!Left \in Nat
    BY <2>2, <2>3 DEF L!Left
  <2>5. L!Min({L!Left, Len(stream)}) = Min({L!Left, Len(stream)})
    BY DEF L!Min, Min
  <2>6. k \in 0 .. Len(stream) /\ Len(got) + k <= Wanted
    <3> DEFINE m == Min({L!Left, Len(stream)})
    <3>1. m \in Nat /\ m <= L!Left /\ m <= Len(stream)
      BY <2>3, <2>4, MinOfTwo
    <3>2. k \in 1 .. m
      BY <2>5
    <3> HIDE DEF m
    <3> QED
      BY <2>3, <2>4, <3>1, <3>2
  <2>7. << >> \in Seq(StreamItems) /\ Len(<< >>) = 0 /\ got \in Seq(StreamItems) /\ stream \in Seq(StreamItems)
    BY <2>2, EmptySeq DEF InPlace
  <2>8. /\ got' \in Seq(StreamItems) /\ stream' \in Seq(StreamItems)
        /\ Len(got') = Len(got) + k /\ Len(stream') = Len(stream) - k
        /\ All(got', stream', << >>) = All(got, stream, << >>)
    <3>1. PICK e \in Seq(StreamItems) : e = << >>
      BY <2>7
    <3>2. All(got', stream', e) = All(got, stream, e)
      BY <2>1, <2>6, <2>7, PartMoves
    <3>3. /\ got' \in Seq(StreamItems) /\ stream' \in Seq(StreamItems)
          /\ Len(got') = Len(got) + k /\ Len(stream') = Len(stream) - k
      BY <2>1, <2>6, <2>7, <3>1, PartMoves
    <3> QED
      BY <3>1, <3>2, <3>3
  <2>9. All(got', << >>, stream') = All(got, << >>, stream)
    BY <2>7, <2>8, ConcatEmptySeq DEF All
  <2>10. Len(got') + (0 + Len(stream')) = Len(got) + (0 + Len(stream))
    BY <2>3, <2>6, <2>8
  <2>11. InPlace'
    BY <2>2, <2>6, <2>7, <2>8, <2>9, <2>10 DEF InPlace, Begun
  <2> QED
    BY <2>2, <2>11 DEF ReadInv, L!AllRead
<1>8. CASE L!Refills
  <2>1. PICK k \in 1 .. L!Min({BufferSize, Len(stream)}) :
            internal' = SubSeq(stream, 1, k) /\ stream' = SubSeq(stream, k + 1, Len(stream))
    BY <1>8 DEF L!Refills
  <2>2. /\ step = "readnb" /\ step' = step /\ call' = call /\ got' = got /\ internal = << >> /\ InPlace
    BY <1>8 DEF L!Refills, ReadInv
  <2>3. Len(got) \in Nat /\ Len(stream) \in Nat /\ BufferSize \in Nat
    BY <2>2, LenProperties DEF InPlace, ReadAssumption
  <2>4. L!Min({BufferSize, Len(stream)}) = Min({BufferSize, Len(stream)})
    BY DEF L!Min, Min
  <2>5. k \in 0 .. Len(stream)
    BY <2>1, <2>3, <2>4, MinOfTwo
  <2>6. << >> \in Seq(StreamItems) /\ Len(<< >>) = 0 /\ got \in Seq(StreamItems) /\ stream \in Seq(StreamItems)
    BY <2>2, EmptySeq DEF InPlace
  <2>7. /\ internal' \in Seq(StreamItems) /\ stream' \in Seq(StreamItems)
        /\ Len(internal') = k /\ Len(stream') = Len(stream) - k /\ stream = internal' \o stream'
    BY <2>1, <2>5, <2>6, CutJoin
  <2>8. All(got, << >>, stream) = All(got, internal', stream')
    BY <2>6, <2>7, ConcatEmptySeq DEF All
  <2>9. Len(got') + (Len(internal') + Len(stream')) = Len(got) + (0 + Len(stream))
    BY <2>2, <2>3, <2>5, <2>7
  <2>10. InPlace'
    BY <2>2, <2>6, <2>7, <2>8, <2>9 DEF InPlace, Begun
  <2> QED
    BY <2>2, <2>10 DEF ReadInv, L!AllRead
<1>9. CASE L!Copies
  <2> DEFINE cnt == L!Min({L!Left, Len(internal)})
  <2>1. got' = got \o SubSeq(internal, 1, cnt) /\ internal' = SubSeq(internal, cnt + 1, Len(internal))
    BY <1>9 DEF L!Copies
  <2>2. step = "readnb" /\ step' = step /\ call' = call /\ stream' = stream /\ InPlace
    BY <1>9 DEF L!Copies, ReadInv
  <2>3. Len(got) \in Nat /\ Len(internal) \in Nat /\ Len(stream) \in Nat /\ Wanted \in Nat
    BY <2>2, LenProperties DEF InPlace, ReadAssumption
  <2>4. L!Left = Wanted - Len(got) /\ L!Left \in Nat
    BY <2>2, <2>3 DEF L!Left, InPlace
  <2>5. cnt = Min({L!Left, Len(internal)})
    BY DEF L!Min, Min
  <2>6. cnt \in 0 .. Len(internal) /\ Len(got) + cnt <= Wanted
    BY <2>3, <2>4, <2>5, MinOfTwo
  <2>7. got \in Seq(StreamItems) /\ internal \in Seq(StreamItems) /\ stream \in Seq(StreamItems)
    BY <2>2 DEF InPlace
  <2> HIDE DEF cnt
  <2>8. /\ got' \in Seq(StreamItems) /\ internal' \in Seq(StreamItems)
        /\ Len(got') = Len(got) + cnt /\ Len(internal') = Len(internal) - cnt
        /\ All(got', internal', stream) = All(got, internal, stream)
    BY <2>1, <2>6, <2>7, PartMoves
  <2>9. Len(got') + (Len(internal') + Len(stream)) = Len(got) + (Len(internal) + Len(stream))
    BY <2>3, <2>6, <2>8
  <2>10. InPlace'
    BY <2>2, <2>6, <2>7, <2>8, <2>9 DEF InPlace, Begun
  <2> QED
    BY <2>2, <2>10 DEF ReadInv, L!AllRead
<1>10. CASE L!ReadInterrupted
  BY <1>10 DEF L!ReadInterrupted, L!rio, ReadInv, L!AllRead, InPlace, Begun
<1>11. CASE L!ReadFails
  <2>1. step' = "returned" /\ call' = [call EXCEPT !.rc = -1] /\ call = [L!NoCall EXCEPT !.name = step]
    BY <1>11 DEF L!ReadFails, L!Done, ReadInv
  <2>2. call'.rc = -1
    BY <2>1 DEF L!NoCall
  <2> QED
    BY <2>1, <2>2 DEF ReadInv, L!AllRead
<1>12. CASE L!ReadEnds
  <2>1. /\ step' = "returned" /\ call' = [call EXCEPT !.rc = Len(got)] /\ call = [L!NoCall EXCEPT !.name = step]
        /\ got' = got /\ stream' = stream /\ internal' = internal /\ InPlace
        /\ L!Left = 0 \/ (stream = << >> /\ internal = << >>)
    BY <1>12 DEF L!ReadEnds, L!Done, ReadInv, L!rio
  <2>2. call'.rc = Len(got)
    BY <2>1 DEF L!NoCall
  <2>3. got = SubSeq(Stream, 1, Len(got))
    BY <2>1, ReadIsBegun
  <2>4. Len(got) \in Nat /\ Wanted \in Nat
    BY <2>1, LenProperties DEF InPlace, ReadAssumption
  <2>5. L!Left = 0 => Len(got) = Wanted
    BY <2>4 DEF L!Left
  <2> QED
    BY <2>1, <2>2, <2>3, <2>5 DEF ReadInv, L!AllRead
<1>13. CASE UNCHANGED L!vars
  BY <1>13 DEF L!vars, L!rio, ReadInv, L!AllRead, InPlace, Begun
<1> QED
  BY <1>1, <1>2, <1>3, <1>4, <1>5, <1>6, <1>7, <1>8, <1>9, <1>10, <1>11, <1>12, <1>13
  DEF L!Next, L!rio_readn, L!rio_readnb

(* However the stream is cut, and after any number of interruptions,        *)
(* rio_readn and rio_readnb return its beginning: all that is wanted, or    *)
(* all there is.                                                            *)
THEOREM ReadsAll == ASSUME ReadAssumption PROVE L!Spec => []L!AllRead
<1>1. L!Init => ReadInv
  BY ReadStarts
<1>2. ReadInv /\ [L!Next]_(L!vars) => ReadInv'
  BY ReadStep
<1>3. ReadInv => L!AllRead
  BY DEF ReadInv
<1> QED
  BY <1>1, <1>2, <1>3, PTL DEF L!Spec

----------------------------------------------------------------------------
(* Lines as they are typed. *)

CONSTANTS Typings, LineSize, Characters
VARIABLES typing, options, emit_prompt, stdin, eof, cmdline, evaluated, prompts, stop

C == INSTANCE CommandLine WITH Settings <- Typings, MAXLINE <- LineSize, setting <- typing, at <- stop

\* A word that can be typed: with a space in it or empty it has to be quoted, so it has
\* no quote; otherwise it does not begin with one.
Text == Characters \ {C!Newline}
Quoted(w) == w = << >> \/ C!Contains(w, C!Space)
Writable(w) == w \in Seq(Text) /\ IF Quoted(w) THEN ~ C!Contains(w, C!Quote) ELSE w[1] # C!Quote
Line(words, gaps) ==
    /\ words \in Seq(Seq(Text)) /\ \A k \in 1 .. Len(words) : Writable(words[k])
    /\ gaps \in Seq(Nat) /\ Len(gaps) = Len(words) + 1
    /\ \A k \in 2 .. Len(words) : gaps[k] > 0
TextHasBoth == {C!Space, C!Quote, C!Newline} \subseteq Characters

(* How a word is spelled.                                                   *)
LEMMA SpellingIs ==
    ASSUME TextHasBoth, NEW w, Writable(w)
    PROVE  /\ C!Spelled(w) \in Seq(Text)
           /\ Quoted(w) => /\ Len(C!Spelled(w)) = Len(w) + 2
                           /\ C!Spelled(w)[1] = C!Quote /\ C!Spelled(w)[Len(w) + 2] = C!Quote
                           /\ \A j \in 1 .. Len(w) : C!Spelled(w)[j + 1] = w[j]
           /\ ~ Quoted(w) => C!Spelled(w) = w
<1>1. w \in Seq(Text) /\ Len(w) \in Nat
  BY LenProperties DEF Writable
<1>2. CASE ~ Quoted(w)
  <2>1. C!Spelled(w) = w
    BY <1>2 DEF C!Spelled, Quoted
  <2> QED
    BY <1>1, <1>2, <2>1
<1>3. CASE Quoted(w)
  <2> DEFINE q == << C!Quote >>
             a == q \o w
             b == a \o q
  <2>1. C!Spelled(w) = b
    BY <1>3 DEF C!Spelled, Quoted
  <2>2. q \in Seq(Text) /\ Len(q) = 1 /\ q[1] = C!Quote
    BY DEF TextHasBoth, Text, C!Quote, C!Newline
  <2> HIDE DEF q
  <2>3. a \in Seq(Text) /\ Joined(q, w, a)
    BY ONLY <1>1, <2>2, JoinedPair
  <2> HIDE DEF a
  <2>4. b \in Seq(Text) /\ Joined(a, q, b)
    BY ONLY <2>2, <2>3, JoinedPair
  <2> HIDE DEF b
  <2>5. /\ Len(a) = 1 + Len(w)
        /\ \A u \in 1 .. 1 + Len(w) : a[u] = IF u <= 1 THEN q[u] ELSE w[u - 1]
    BY ONLY <2>2, <2>3 DEF Joined
  <2>6. /\ Len(b) = Len(w) + 2
        /\ \A u \in 1 .. Len(w) + 2 : b[u] = IF u <= 1 + Len(w) THEN a[u] ELSE q[u - (1 + Len(w))]
    <3>1. /\ Len(b) = (1 + Len(w)) + 1
          /\ \A u \in 1 .. (1 + Len(w)) + 1 : b[u] = IF u <= 1 + Len(w) THEN a[u] ELSE q[u - (1 + Len(w))]
      BY ONLY <2>2, <2>4, <2>5 DEF Joined
    <3>2. (1 + Len(w)) + 1 = Len(w) + 2
      BY <1>1
    <3> QED
      BY <3>1, <3>2
  <2>7. b[1] = C!Quote
    <3>1. 1 \in 1 .. Len(w) + 2 /\ 1 \in 1 .. 1 + Len(w) /\ 1 <= 1 + Len(w)
      BY <1>1
    <3> QED
      BY <2>2, <2>5, <2>6, <3>1
  <2>8. b[Len(w) + 2] = C!Quote
    <3>1. Len(w) + 2 \in 1 .. Len(w) + 2 /\ ~ Len(w) + 2 <= 1 + Len(w) /\ (Len(w) + 2) - (1 + Len(w)) = 1
      BY <1>1
    <3> QED
      BY <2>2, <2>6, <3>1
  <2>9. ASSUME NEW j \in 1 .. Len(w) PROVE b[j + 1] = w[j]
    <3>1. /\ j + 1 \in 1 .. Len(w) + 2 /\ j + 1 <= 1 + Len(w) /\ j + 1 \in 1 .. 1 + Len(w)
          /\ ~ j + 1 <= 1 /\ (j + 1) - 1 = j
      BY <1>1
    <3> QED
      BY <2>5, <2>6, <3>1
  <2> QED
    BY <1>3, <2>1, <2>4, <2>6, <2>7, <2>8, <2>9
<1> QED
  BY <1>2, <1>3

\* r is s behind g spaces.
SpacedBy(r, g, s) ==
    /\ r \in Seq(Text) /\ Len(r) = g + Len(s)
    /\ \A j \in 1 .. g : r[j] = C!Space
    /\ \A j \in 1 .. Len(s) : r[g + j] = s[j]

(* Spaces and what is behind them.                                          *)
LEMMA SpacesBefore ==
    ASSUME TextHasBoth, NEW g \in Nat, NEW s \in Seq(Text)
    PROVE  SpacedBy(C!Spaces(g) \o s, g, s)
<1> DEFINE p == C!Spaces(g)
           r == p \o s
<1>1. p = [k \in 1 .. g |-> C!Space] /\ C!Space \in Text
  BY Zenon DEF C!Spaces, TextHasBoth, Text, C!Space, C!Newline
<1>2. p \in Seq(Text) /\ Len(p) = g /\ Len(s) \in Nat
  BY <1>1, LenProperties
<1> HIDE DEF p
<1>3. r \in Seq(Text) /\ Joined(p, s, r)
  BY <1>2, JoinedPair
<1> HIDE DEF r
<1>4. Len(r) = g + Len(s) /\ \A u \in 1 .. g + Len(s) : r[u] = IF u <= g THEN p[u] ELSE s[u - g]
  BY <1>2, <1>3 DEF Joined
<1>5. ASSUME NEW j \in 1 .. g PROVE r[j] = C!Space
  <2>1. j \in 1 .. g + Len(s) /\ j <= g
    BY <1>2
  <2> QED
    BY <1>1, <1>4, <2>1
<1>6. ASSUME NEW j \in 1 .. Len(s) PROVE r[g + j] = s[j]
  <2>1. g + j \in 1 .. g + Len(s) /\ ~ g + j <= g /\ (g + j) - g = j
    BY <1>2
  <2> QED
    BY <1>4, <2>1
<1> QED
  BY <1>3, <1>4, <1>5, <1>6 DEF SpacedBy, p, r

\* Where each word of a line marks, what is before and behind it.
LineLaid(line, words, gaps, marks) ==
    LET n == Len(words)
    IN  /\ marks \in [0 .. n -> Nat] /\ marks[0] = 0
        /\ \A k \in 1 .. n :
              /\ marks[k] = marks[k - 1] + (gaps[k] + Len(C!Spelled(words[k])))
              /\ \A j \in 1 .. gaps[k] : line[marks[k - 1] + j] = C!Space
              /\ \A j \in 1 .. Len(C!Spelled(words[k])) : line[marks[k - 1] + (gaps[k] + j)] = C!Spelled(words[k])[j]
        /\ Len(line) = marks[n] + (gaps[n + 1] + 1)
        /\ \A j \in 1 .. gaps[n + 1] : line[marks[n] + j] = C!Space
        /\ line[Len(line)] = C!Newline
        /\ \A p \in 1 .. Len(line) - 1 : line[p] \in Text

(* The layout of a line.                                                    *)
LEMMA LineIsLaid ==
    ASSUME TextHasBoth, NEW words, NEW gaps, Line(words, gaps)
    PROVE  C!LineOf(words, gaps) \in Seq(Characters) /\ \E marks : LineLaid(C!LineOf(words, gaps), words, gaps, marks)
<1> DEFINE n == Len(words)
           S(k) == C!Spelled(words[k])
           parts == [k \in 1 .. n |-> C!Spaces(gaps[k]) \o S(k)]
           f == FlattenSeq(parts)
           g == gaps[n + 1]
           a == f \o C!Spaces(g)
           z == << C!Newline >>
           line == a \o z
<1>1. /\ n \in Nat /\ words \in Seq(Seq(Text)) /\ \A k \in 1 .. n : Writable(words[k])
      /\ \A k \in 1 .. n + 1 : gaps[k] \in Nat
  <2>1. n \in Nat /\ gaps \in Seq(Nat) /\ Len(gaps) = n + 1
    BY LenProperties DEF Line
  <2>2. \A k \in 1 .. Len(gaps) : gaps[k] \in Nat
    BY <2>1, ElementOfSeq
  <2> QED
    BY <2>1, <2>2 DEF Line
<1>2. C!LineOf(words, gaps) = line
  BY DEF C!LineOf, C!FlattenSeq, FlattenSeq
<1> HIDE DEF n
<1>3. g \in Nat /\ \A k \in 1 .. n : gaps[k] \in Nat
  BY <1>1
<1>4. \A k \in 1 .. n : S(k) \in Seq(Text) /\ Len(S(k)) \in Nat
  BY <1>1, SpellingIs, LenProperties
<1> HIDE DEF S
<1>5. ASSUME NEW k \in 1 .. n
      PROVE  /\ parts[k] \in Seq(Text) /\ Len(parts[k]) = gaps[k] + Len(S(k))
             /\ \A j \in 1 .. gaps[k] : parts[k][j] = C!Space
             /\ \A j \in 1 .. Len(S(k)) : parts[k][gaps[k] + j] = S(k)[j]
  <2> DEFINE p == C!Spaces(gaps[k]) \o S(k)
  <2>1. parts[k] = p
    OBVIOUS
  <2>2. gaps[k] \in Nat /\ S(k) \in Seq(Text)
    BY <1>3, <1>4
  <2>3. SpacedBy(p, gaps[k], S(k))
    BY ONLY <2>2, SpacesBefore, TextHasBoth
  <2> HIDE DEF p, parts
  <2>4. SpacedBy(parts[k], gaps[k], S(k))
    BY <2>1, <2>3, Zenon
  <2> QED
    BY <2>4 DEF SpacedBy
<1>6. parts \in Seq(Seq(Text)) /\ Len(parts) = n
  BY <1>1, <1>5
<1> HIDE DEF parts
<1>7. f \in Seq(Text)
  BY <1>6, FlattenLays
<1>8. PICK marks : Marks(parts, n, marks) /\ Len(f) = marks[n] /\ Laid(f, parts, n, marks)
  BY <1>6, FlattenLays
<1> HIDE DEF f, g
<1> DEFINE sp == C!Spaces(g)
<1>9. sp \in Seq(Text) /\ Len(sp) = g /\ \A j \in 1 .. g : sp[j] = C!Space
  <2>1. sp = [k \in 1 .. g |-> C!Space] /\ C!Space \in Text
    BY Zenon DEF C!Spaces, TextHasBoth, Text, C!Space, C!Newline
  <2> QED
    BY <1>3, <2>1
<1> HIDE DEF sp
<1>10. a \in Seq(Text) /\ Joined(f, sp, a)
  BY <1>7, <1>9, JoinedPair DEF sp
<1> HIDE DEF a
<1>11. z \in Seq(Characters) /\ Len(z) = 1 /\ z[1] = C!Newline
  BY DEF TextHasBoth
<1> HIDE DEF z
<1>12. a \in Seq(Characters)
  <2>1. a \in Seq(Text) /\ Text \subseteq Characters
    BY <1>10 DEF Text
  <2> QED
    BY <2>1
<1>13. line \in Seq(Characters) /\ Joined(a, z, line)
  BY <1>11, <1>12, JoinedPair
<1> HIDE DEF line
<1> DEFINE e == marks[n]
<1>14. e \in Nat /\ marks \in [0 .. n -> Nat] /\ marks[0] = 0
  BY <1>1, <1>8 DEF Marks
<1>15. Len(a) = e + g /\ \A u \in 1 .. e + g : a[u] = IF u <= e THEN f[u] ELSE sp[u - e]
  BY <1>8, <1>9, <1>10 DEF Joined
<1>16. /\ Len(line) = (e + g) + 1
       /\ \A u \in 1 .. (e + g) + 1 : line[u] = IF u <= e + g THEN a[u] ELSE z[u - (e + g)]
  BY <1>11, <1>13, <1>15 DEF Joined
<1>17. ASSUME NEW k \in 1 .. n
       PROVE  /\ marks[k] = marks[k - 1] + (gaps[k] + Len(S(k)))
              /\ marks[k - 1] \in Nat /\ marks[k] <= e
  <2>1. marks[k] = marks[k - 1] + Len(parts[k])
    BY <1>8 DEF Marks
  <2>2. n \in 0 .. Len(parts) /\ k \in 0 .. n /\ n \in k .. n /\ k - 1 \in 0 .. n
    BY <1>1, <1>6
  <2>3. marks[k] <= marks[n]
    BY <1>6, <1>8, <2>2, MarksGrow
  <2> QED
    BY <1>5, <1>14, <2>1, <2>2, <2>3
<1> HIDE DEF e
<1>18. ASSUME NEW u \in 1 .. e PROVE line[u] = f[u]
  <2>1. u \in 1 .. e + g /\ u \in 1 .. (e + g) + 1 /\ u <= e + g /\ u <= e
    BY <1>3, <1>14
  <2> QED
    BY <1>15, <1>16, <2>1
<1>19. ASSUME NEW k \in 1 .. n, NEW j \in 1 .. Len(parts[k])
       PROVE  line[marks[k - 1] + j] = parts[k][j]
  <2> DEFINE b == marks[k - 1]
             l == Len(parts[k])
  <2>1. f[b + j] = parts[k][j]
    BY <1>8 DEF Laid
  <2>2. b \in Nat /\ l \in Nat /\ b + l <= e
    BY <1>3, <1>4, <1>5, <1>17
  <2> HIDE DEF b
  <2>3. j \in 1 .. l
    OBVIOUS
  <2> HIDE DEF l
  <2>4. b + j \in 1 .. e
    BY <1>14, <2>2, <2>3
  <2> QED
    BY <1>18, <2>1, <2>4 DEF b
<1>20. ASSUME NEW k \in 1 .. n, NEW j \in 1 .. gaps[k] PROVE line[marks[k - 1] + j] = C!Space
  <2>1. j \in 1 .. Len(parts[k])
    BY <1>3, <1>4, <1>5
  <2> QED
    BY <1>5, <1>19, <2>1
<1>21. ASSUME NEW k \in 1 .. n, NEW j \in 1 .. Len(S(k)) PROVE line[marks[k - 1] + (gaps[k] + j)] = S(k)[j]
  <2>1. gaps[k] + j \in 1 .. Len(parts[k])
    BY <1>3, <1>4, <1>5
  <2> QED
    BY <1>5, <1>19, <2>1
<1>22. ASSUME NEW j \in 1 .. g PROVE line[e + j] = C!Space
  <2>1. e + j \in 1 .. e + g /\ e + j \in 1 .. (e + g) + 1 /\ e + j <= e + g /\ ~ e + j <= e /\ (e + j) - e = j
    BY <1>3, <1>14
  <2> QED
    BY <1>9, <1>15, <1>16, <2>1
<1>23. line[Len(line)] = C!Newline /\ Len(line) = e + (g + 1)
  <2>1. /\ (e + g) + 1 \in 1 .. (e + g) + 1 /\ ~ (e + g) + 1 <= e + g /\ ((e + g) + 1) - (e + g) = 1
        /\ (e + g) + 1 = e + (g + 1)
    BY <1>3, <1>14
  <2> QED
    BY <1>11, <1>16, <2>1
<1>24. ASSUME NEW p \in 1 .. Len(line) - 1 PROVE line[p] \in Text
  <2>1. p \in 1 .. e + g /\ p \in 1 .. (e + g) + 1 /\ p <= e + g
    BY <1>3, <1>14, <1>16
  <2>2. line[p] = a[p] /\ p \in 1 .. Len(a)
    BY <1>15, <1>16, <2>1
  <2> QED
    BY <1>10, <2>2, ElementOfSeq
<1>25. LineLaid(line, words, gaps, marks)
  BY <1>14, <1>17, <1>20, <1>21, <1>22, <1>23, <1>24 DEF LineLaid, n, S, e, g
<1> QED
  BY <1>2, <1>13, <1>25

----------------------------------------------------------------------------
(* parseline. *)

(* C!Min is Min.                                                            *)
LEMMA LeastIs ==
    ASSUME NEW T, T \subseteq Nat, NEW least \in T, \A v \in T : least <= v
    PROVE  C!Min(T) = least
<1> DEFINE m == Min(T)
<1>1. m \in T /\ \A v \in T : m <= v
  BY MinOfNats
<1> HIDE DEF m
<1>2. m <= least /\ least <= m /\ m \in Nat /\ least \in Nat
  BY <1>1
<1>3. m = least
  BY <1>2
<1>4. C!Min(T) = Min(T)
  BY DEF C!Min, Min
<1> QED
  BY <1>3, <1>4 DEF m

(* A set of numbers that is not empty has a least one.                      *)
LEMMA LeastExists ==
    ASSUME NEW T, T \subseteq Nat, T # {}
    PROVE  C!Min(T) \in T /\ \A v \in T : C!Min(T) <= v
BY MinOfNats DEF C!Min, Min

\* What parseline looks at behind position k of chars.
StartsQuoted(chars, k) == C!Skipped(chars, k) <= Len(chars) /\ chars[C!Skipped(chars, k)] = C!Quote
ArgFrom(chars, k) == IF StartsQuoted(chars, k) THEN C!Skipped(chars, k) + 1 ELSE C!Skipped(chars, k)
Delims(chars, k) == {p \in ArgFrom(chars, k) .. Len(chars) : chars[p] = IF StartsQuoted(chars, k) THEN C!Quote ELSE C!Space}
ArgAt(chars, k, f) ==
    IF Delims(chars, k) = {} THEN << >>
    ELSE <<SubSeq(chars, ArgFrom(chars, k), C!Min(Delims(chars, k)) - 1)>> \o f[C!Min(Delims(chars, k)) + 1]
\* f is parseline's recursion from position m on.
ArgsFrom(chars, m, f) == f = [k \in m .. Len(chars) + 1 |-> ArgAt(chars, k, f)]

(* Skipping spaces stays in the line.                                       *)
LEMMA SkippedIn ==
    ASSUME NEW chars, Len(chars) \in Nat, NEW k \in 1 .. Len(chars) + 1
    PROVE  C!Skipped(chars, k) \in k .. Len(chars) + 1
<1> DEFINE T == {p \in k .. Len(chars) : chars[p] # C!Space} \cup {Len(chars) + 1}
<1>1. T \subseteq k .. Len(chars) + 1 /\ T \subseteq Nat /\ T # {}
  OBVIOUS
<1>2. C!Skipped(chars, k) = C!Min(T)
  BY DEF C!Skipped
<1> HIDE DEF T
<1> QED
  BY <1>1, <1>2, LeastExists

(* The recursion goes forward.                                              *)
LEMMA Forward ==
    ASSUME NEW chars, Len(chars) \in Nat, NEW k \in 1 .. Len(chars) + 1, Delims(chars, k) # {}
    PROVE  C!Min(Delims(chars, k)) + 1 \in k + 1 .. Len(chars) + 1
<1>1. ArgFrom(chars, k) \in k .. Len(chars) + 2
  <2>1. C!Skipped(chars, k) \in k .. Len(chars) + 1
    BY SkippedIn
  <2> QED
    BY <2>1 DEF ArgFrom
<1>2. Delims(chars, k) \subseteq k .. Len(chars) /\ Delims(chars, k) \subseteq Nat
  <2>1. \A p \in Delims(chars, k) : p \in ArgFrom(chars, k) .. Len(chars)
    BY DEF Delims
  <2> QED
    BY <1>1, <2>1
<1>3. C!Min(Delims(chars, k)) \in k .. Len(chars)
  BY <1>2, LeastExists
<1> QED
  BY <1>3

(* There is such a function.                                                *)
LEMMA ArgsExist ==
    ASSUME NEW chars, Len(chars) \in Nat
    PROVE  \E f : ArgsFrom(chars, 1, f)
<1> DEFINE size == Len(chars) + 1
           Bad == {d \in Nat : d <= size /\ ~ \E f : ArgsFrom(chars, size + 1 - d, f)}
<1>0. size \in Nat /\ size + 1 - size = 1
  OBVIOUS
<1> SUFFICES ASSUME Bad # {} PROVE FALSE
  BY <1>0
<1> DEFINE d == Min(Bad)
<1>1. d \in Bad /\ \A l \in Bad : d <= l
  BY MinOfNats
<1> HIDE DEF d
<1> DEFINE m == size + 1 - d
<1>2. d \in Nat /\ d <= size /\ ~ \E f : ArgsFrom(chars, m, f)
  BY <1>1
<1>3. d # 0
  <2> SUFFICES ASSUME d = 0 PROVE FALSE
    OBVIOUS
  <2> DEFINE f == [k \in m .. size |-> << >>]
  <2>1. m .. size = {}
    BY <1>0
  <2>2. f = [k \in m .. size |-> ArgAt(chars, k, f)]
    BY <2>1
  <2>3. ArgsFrom(chars, m, f)
    BY <2>2 DEF ArgsFrom
  <2> QED
    BY <1>2, <2>3
<1>4. /\ d - 1 \in Nat /\ d - 1 <= size /\ ~ d <= d - 1 /\ size + 1 - (d - 1) = m + 1
      /\ m \in 1 .. size /\ m \in Nat
  BY <1>0, <1>2, <1>3
<1>5. PICK f : ArgsFrom(chars, m + 1, f)
  BY <1>1, <1>4
<1> HIDE DEF m
<1> DEFINE g == [k \in m .. size |-> IF k = m THEN ArgAt(chars, m, f) ELSE f[k]]
<1>6. ASSUME NEW k \in m .. size PROVE g[k] = ArgAt(chars, k, g)
  <2> DEFINE e == C!Min(Delims(chars, k)) + 1
  <2>1. ArgAt(chars, k, g) = ArgAt(chars, k, f)
    <3>1. CASE Delims(chars, k) = {}
      BY <3>1 DEF ArgAt
    <3>2. CASE Delims(chars, k) # {}
      <4>1. k \in 1 .. Len(chars) + 1
        BY <1>4
      <4>2. e \in k + 1 .. Len(chars) + 1
        BY <3>2, <4>1, Forward
      <4> HIDE DEF e
      <4>3. e \in m .. size /\ e # m
        BY <1>0, <1>4, <4>2
      <4>4. g[e] = f[e]
        BY <4>3
      <4> HIDE DEF g
      <4>5. /\ ArgAt(chars, k, g) = <<SubSeq(chars, ArgFrom(chars, k), C!Min(Delims(chars, k)) - 1)>> \o g[e]
            /\ ArgAt(chars, k, f) = <<SubSeq(chars, ArgFrom(chars, k), C!Min(Delims(chars, k)) - 1)>> \o f[e]
        BY <3>2, Zenon DEF ArgAt, e
      <4> QED
        BY <4>4, <4>5, Zenon
    <3> QED
      BY <3>1, <3>2
  <2>2. g[k] = ArgAt(chars, k, f)
    <3>1. CASE k = m
      BY <3>1
    <3>2. CASE k # m
      <4>1. k \in m + 1 .. size
        BY <1>4, <3>2
      <4>2. f[k] = ArgAt(chars, k, f)
        <5>1. f = [u \in m + 1 .. size |-> ArgAt(chars, u, f)]
          BY <1>5 DEF ArgsFrom
        <5> QED
          BY <4>1, <5>1, Zenon
      <4> QED
        BY <3>2, <4>2
    <3> QED
      BY <3>1, <3>2
  <2> QED
    BY <2>1, <2>2
<1>7. g = [k \in m .. size |-> g[k]]
  OBVIOUS
<1> HIDE DEF g
<1>8. g = [k \in m .. size |-> ArgAt(chars, k, g)]
  BY <1>6, <1>7
<1>9. ArgsFrom(chars, m, g)
  BY <1>8 DEF ArgsFrom
<1> QED
  BY <1>2, <1>9 DEF m

\* What parseline answers, of the arguments it found.
Answer(args) ==
    LET bg == args # << >> /\ Last(args) # << >> /\ Last(args)[1] = "&"
    IN  [argv |-> IF bg THEN Front(args) ELSE args, bg |-> bg \/ args = << >>]

(* parseline answers of the arguments its recursion finds.                  *)
LEMMA ParselineIs ==
    ASSUME NEW line, Len(C!ReplaceAt(line, Len(line), C!Space)) \in Nat
    PROVE  \E f : /\ ArgsFrom(C!ReplaceAt(line, Len(line), C!Space), 1, f)
                  /\ C!parseline(line) = Answer(f[1])
<1> DEFINE f == CHOOSE g : g = [k \in 1 .. Len(C!ReplaceAt(line, Len(line), C!Space)) + 1 |->
                                   ArgAt(C!ReplaceAt(line, Len(line), C!Space), k, g)]
<1>1. f = [k \in 1 .. Len(C!ReplaceAt(line, Len(line), C!Space)) + 1 |->
                                   ArgAt(C!ReplaceAt(line, Len(line), C!Space), k, f)]
  <2>1. \E g : g = [k \in 1 .. Len(C!ReplaceAt(line, Len(line), C!Space)) + 1 |->
                                   ArgAt(C!ReplaceAt(line, Len(line), C!Space), k, g)]
    BY ArgsExist DEF ArgsFrom
  <2> QED
    BY <2>1
<1>2. C!parseline(line) = Answer(f[1])
  BY DEF C!parseline, Answer, ArgAt, Delims, ArgFrom, StartsQuoted, C!Last, C!Front, Last, Front
<1> QED
  BY <1>1, <1>2 DEF ArgsFrom

(* What a line means is the same function of its words.                     *)
LEMMA MeantIs == \A words : C!Meant(words) = Answer(words)
BY DEF C!Meant, Answer, C!Last, C!Front, Last, Front

\* From b + 1 on chars has g spaces and then the word w as it is spelled, and a space behind
\* it if it is not quoted.
WordAt(chars, b, g, w) ==
    LET l == Len(C!Spelled(w))
    IN  /\ b + (g + l) \in 0 .. Len(chars) - 1
        /\ \A j \in 1 .. g : chars[b + j] = C!Space
        /\ \A j \in 1 .. l : chars[b + (g + j)] = C!Spelled(w)[j]
        /\ ~ Quoted(w) => chars[b + (g + l) + 1] = C!Space

(* SpacedBy spaces starts what is behind them.                                *)
LEMMA SkippedIs ==
    ASSUME NEW chars, Len(chars) \in Nat, NEW p \in Nat, NEW q \in p .. Len(chars) + 1,
           \A u \in p .. q - 1 : chars[u] = C!Space, q # Len(chars) + 1 => chars[q] # C!Space
    PROVE  C!Skipped(chars, p) = q
<1> DEFINE T == {u \in p .. Len(chars) : chars[u] # C!Space} \cup {Len(chars) + 1}
<1>1. C!Skipped(chars, p) = C!Min(T)
  BY DEF C!Skipped
<1>2. T \subseteq Nat /\ q \in T
  OBVIOUS
<1>3. ASSUME NEW v \in T PROVE q <= v
  <2>1. v \in p .. Len(chars) + 1
    OBVIOUS
  <2>2. v \in p .. q - 1 => v # Len(chars) + 1 /\ chars[v] # C!Space
    BY <2>1
  <2> QED
    BY <2>1, <2>2
<1> HIDE DEF T
<1> QED
  BY <1>1, <1>2, <1>3, LeastIs

(* Quotes are no spaces.                                                    *)
LEMMA Distinct == C!Quote # C!Space /\ C!Newline # C!Space /\ C!Quote # C!Newline
BY DEF C!Quote, C!Space, C!Newline

(* What parseline finds where a word is.                                    *)
LEMMA WordIsArg ==
    ASSUME TextHasBoth, NEW chars \in Seq(Characters), NEW b \in Nat, NEW g \in Nat, NEW w, Writable(w),
           WordAt(chars, b, g, w), NEW p \in b + 1 .. b + g + 1
    PROVE  LET l == b + (g + Len(C!Spelled(w)))
           IN  /\ Delims(chars, p) # {}
               /\ SubSeq(chars, ArgFrom(chars, p), C!Min(Delims(chars, p)) - 1) = w
               /\ C!Min(Delims(chars, p)) = IF Quoted(w) THEN l ELSE l + 1
<1> DEFINE s == C!Spelled(w)
           size == Len(chars)
           q == b + g + 1
           n == Len(w)
<1>1. size \in Nat /\ w \in Seq(Text) /\ n \in Nat /\ q \in Nat /\ \A j \in 1 .. n : w[j] \in Text
  BY LenProperties, ElementOfSeq DEF Writable
<1>2. /\ Quoted(w) => /\ Len(s) = n + 2 /\ s[1] = C!Quote /\ s[n + 2] = C!Quote
                      /\ \A j \in 1 .. n : s[j + 1] = w[j]
      /\ ~ Quoted(w) => s = w
  BY SpellingIs
<1>3. /\ b + (g + Len(s)) \in 0 .. size - 1 /\ Len(s) \in Nat
      /\ \A j \in 1 .. g : chars[b + j] = C!Space
      /\ \A j \in 1 .. Len(s) : chars[b + (g + j)] = s[j]
      /\ ~ Quoted(w) => chars[b + (g + Len(s)) + 1] = C!Space
  <2>1. Len(s) \in Nat
    BY SpellingIs, LenProperties
  <2> QED
    BY <2>1 DEF WordAt
<1> HIDE DEF s
<1>4. ASSUME NEW u \in p .. q - 1 PROVE chars[u] = C!Space
  <2>1. u - b \in 1 .. g /\ b + (u - b) = u
    OBVIOUS
  <2> QED
    BY <1>3, <2>1
<1>5. CASE Quoted(w)
  <2>1. /\ chars[q] = C!Quote /\ q + n + 1 <= size /\ chars[q + n + 1] = C!Quote
        /\ \A j \in 1 .. n : chars[q + j] = w[j]
    <3>1. /\ 1 \in 1 .. Len(s) /\ n + 2 \in 1 .. Len(s) /\ b + (g + 1) = q /\ b + (g + (n + 2)) = q + n + 1
          /\ b + (g + Len(s)) = q + n + 1
      BY <1>1, <1>2, <1>5
    <3>2. ASSUME NEW j \in 1 .. n PROVE chars[q + j] = w[j]
      <4>1. j + 1 \in 1 .. Len(s) /\ b + (g + (j + 1)) = q + j
        BY <1>1, <1>2, <1>5
      <4>2. chars[b + (g + (j + 1))] = s[j + 1]
        BY <1>3, <4>1
      <4> QED
        BY <1>2, <1>5, <4>1, <4>2
    <3>3. chars[b + (g + 1)] = s[1] /\ chars[b + (g + (n + 2))] = s[n + 2]
      BY <1>3, <3>1
    <3>4. q + n + 1 <= size
      <4>1. b + (g + Len(s)) <= size - 1
        BY <1>3
      <4> HIDE DEF q
      <4> QED
        BY <1>1, <3>1, <4>1
    <3>5. chars[q] = C!Quote /\ chars[q + n + 1] = C!Quote
      <4> HIDE DEF q, n
      <4> QED
        BY <1>2, <1>5, <3>1, <3>3, Zenon
    <3> QED
      BY <3>2, <3>4, <3>5
  <2> HIDE DEF size
  <2>2. C!Skipped(chars, p) = q
    <3>1. q \in p .. size + 1 /\ p \in Nat /\ q # size + 1
      BY <1>1, <2>1, SMTT(30)
    <3>2. chars[q] # C!Space
      BY <2>1, Distinct
    <3> HIDE DEF q
    <3> QED
      BY <1>1, <1>4, <3>1, <3>2, SkippedIs DEF size
  <2>3. StartsQuoted(chars, p) /\ ArgFrom(chars, p) = q + 1
    <3>1. q <= size
      BY <1>1, <2>1, SMTT(30)
    <3> HIDE DEF q
    <3> QED
      BY <2>1, <2>2, <3>1 DEF StartsQuoted, ArgFrom, size
  <2>4. Delims(chars, p) = {u \in q + 1 .. size : chars[u] = C!Quote}
    BY <2>3 DEF Delims, size
  <2>5. q + n + 1 \in Delims(chars, p) /\ Delims(chars, p) \subseteq Nat
    <3> HIDE DEF q
    <3> QED
      BY <1>1, <2>1, <2>4
  <2>6. ASSUME NEW v \in Delims(chars, p) PROVE q + n + 1 <= v
    <3>1. v \in q + 1 .. size /\ chars[v] = C!Quote
      BY <2>4
    <3>2. CASE v \in q + 1 .. q + n
      <4>1. v - q \in 1 .. n /\ q + (v - q) = v
        BY <1>1, <3>2
      <4>2. w[v - q] = C!Quote
        BY <2>1, <3>1, <4>1
      <4>3. ~ C!Contains(w, C!Quote)
        BY <1>5 DEF Writable
      <4> QED
        BY <4>1, <4>2, <4>3 DEF C!Contains
    <3> QED
      BY <1>1, <3>1, <3>2
  <2>7. C!Min(Delims(chars, p)) = q + n + 1
    BY <2>5, <2>6, LeastIs
  <2>8. SubSeq(chars, q + 1, q + n) = w
    <3> DEFINE t == SubSeq(chars, q + 1, q + n)
    <3> HIDE DEF q
    <3>1. \A u \in q + 1 .. q + n : chars[u] \in Characters
      <4>1. \A u \in q + 1 .. q + n : u \in 1 .. size
        BY <1>1, <2>1
      <4> QED
        BY <4>1, ElementOfSeq DEF size
    <3>2. /\ t \in Seq(Characters) /\ Len(t) = (IF q + 1 <= q + n THEN (q + n) - (q + 1) + 1 ELSE 0)
          /\ \A u \in 1 .. (q + n) - (q + 1) + 1 : t[u] = chars[(q + 1) + u - 1]
      BY <1>1, <3>1, SubSeqProperties
    <3> HIDE DEF t
    <3>3. Len(t) = n /\ \A u \in 1 .. n : t[u] = chars[q + u]
      <4>1. (q + n) - (q + 1) + 1 = n /\ \A u \in 1 .. n : (q + 1) + u - 1 = q + u
        BY <1>1
      <4> QED
        BY <1>1, <3>2, <4>1
    <3>4. w \in Seq(Characters)
      BY <1>1 DEF Text
    <3>5. t = w
      BY <2>1, <3>2, <3>3, <3>4, SeqEqual
    <3> QED
      BY <3>5 DEF t
  <2>9. b + (g + Len(s)) = q + n + 1 /\ (q + n + 1) - 1 = q + n
    BY <1>1, <1>2, <1>5
  <2> HIDE DEF q, n
  <2> QED
    BY <1>5, <2>3, <2>5, <2>7, <2>8, <2>9 DEF s
<1>6. CASE ~ Quoted(w)
  <2>1. n # 0 /\ s = w /\ w[1] # C!Quote /\ \A j \in 1 .. n : w[j] # C!Space
    <3>1. w # << >> /\ ~ C!Contains(w, C!Space)
      BY <1>6 DEF Quoted
    <3> QED
      BY <1>1, <1>2, <1>6, <3>1, EmptySeq DEF Writable, C!Contains
  <2>2. /\ \A j \in 1 .. n : chars[(q - 1) + j] = w[j]
        /\ q + n <= size /\ chars[q + n] = C!Space /\ chars[q] = w[1]
    <3>1. ASSUME NEW j \in 1 .. n PROVE chars[(q - 1) + j] = w[j]
      <4>1. b + (g + j) = (q - 1) + j
        OBVIOUS
      <4> QED
        BY <1>3, <2>1, <4>1
    <3>2. b + (g + Len(s)) + 1 = q + n /\ 1 \in 1 .. n /\ (q - 1) + 1 = q
      BY <1>1, <2>1
    <3>3. chars[(q - 1) + 1] = w[1]
      BY <3>1, <3>2
    <3> QED
      BY <1>1, <1>3, <1>6, <3>1, <3>2, <3>3
  <2>3. C!Skipped(chars, p) = q
    <3>1. q \in p .. size + 1 /\ p \in Nat /\ q # size + 1
      BY <1>1, <2>1, <2>2
    <3>2. chars[q] # C!Space
      BY <1>1, <2>1, <2>2
    <3> HIDE DEF q
    <3> QED
      BY <1>1, <1>4, <3>1, <3>2, SkippedIs
  <2>4. ~ StartsQuoted(chars, p) /\ ArgFrom(chars, p) = q
    BY <2>1, <2>2, <2>3, Zenon DEF StartsQuoted, ArgFrom
  <2> HIDE DEF size
  <2>5. Delims(chars, p) = {u \in q .. size : chars[u] = C!Space}
    BY <2>4 DEF Delims, size
  <2>6. q + n \in Delims(chars, p) /\ Delims(chars, p) \subseteq Nat
    <3> HIDE DEF q
    <3> QED
      BY <1>1, <2>2, <2>5
  <2>7. ASSUME NEW v \in Delims(chars, p) PROVE q + n <= v
    <3>1. v \in q .. size /\ chars[v] = C!Space
      BY <2>5
    <3>2. CASE v \in q .. (q - 1) + n
      <4>1. v - (q - 1) \in 1 .. n /\ (q - 1) + (v - (q - 1)) = v
        BY <1>1, <3>2
      <4> HIDE DEF q
      <4>2. w[v - (q - 1)] = C!Space
        BY <2>2, <3>1, <4>1
      <4> QED
        BY <2>1, <4>1, <4>2
    <3> QED
      BY <1>1, <3>1, <3>2
  <2>8. C!Min(Delims(chars, p)) = q + n
    BY <2>6, <2>7, LeastIs
  <2>9. SubSeq(chars, q, (q + n) - 1) = w
    <3> DEFINE t == SubSeq(chars, q, (q + n) - 1)
    <3> HIDE DEF q
    <3>1. \A u \in q .. (q + n) - 1 : chars[u] \in Characters
      <4>0. q >= 1
        BY DEF q
      <4>1. \A u \in q .. (q + n) - 1 : u \in 1 .. size
        BY <1>1, <2>2, <4>0
      <4> QED
        BY <4>1, ElementOfSeq DEF size
    <3>2. /\ t \in Seq(Characters) /\ Len(t) = (IF q <= (q + n) - 1 THEN ((q + n) - 1) - q + 1 ELSE 0)
          /\ \A u \in 1 .. ((q + n) - 1) - q + 1 : t[u] = chars[q + u - 1]
      BY <1>1, <3>1, SubSeqProperties
    <3> HIDE DEF t
    <3>3. Len(t) = n /\ \A u \in 1 .. n : t[u] = chars[(q - 1) + u]
      <4>1. ((q + n) - 1) - q + 1 = n /\ \A u \in 1 .. n : q + u - 1 = (q - 1) + u
        BY <1>1
      <4> QED
        BY <1>1, <3>2, <4>1, SMTT(30)
    <3>4. w \in Seq(Characters)
      BY <1>1 DEF Text
    <3>5. t = w
      BY <2>2, <3>2, <3>3, <3>4, SeqEqual
    <3> QED
      BY <3>5 DEF t
  <2>10. b + (g + Len(s)) + 1 = q + n
    BY <1>1, <2>1
  <2>11. SubSeq(chars, ArgFrom(chars, p), C!Min(Delims(chars, p)) - 1) = w
    <3> HIDE DEF q, n
    <3> QED
      BY <2>4, <2>8, <2>9, Zenon
  <2>12. C!Min(Delims(chars, p)) = b + (g + Len(C!Spelled(w))) + 1
    <3> HIDE DEF q, n
    <3> QED
      BY <2>8, <2>10, Zenon DEF s
  <2> QED
    BY <1>6, <2>6, <2>11, <2>12, Zenon
<1> QED
  BY <1>5, <1>6

(* Where only spaces are left nothing is found.                             *)
LEMMA NothingBehind ==
    ASSUME NEW chars, Len(chars) \in Nat, NEW p \in 1 .. Len(chars) + 1, \A u \in p .. Len(chars) : chars[u] = C!Space
    PROVE  Delims(chars, p) = {}
<1>1. C!Skipped(chars, p) = Len(chars) + 1
  <2>1. Len(chars) + 1 \in p .. Len(chars) + 1 /\ (Len(chars) + 1) - 1 = Len(chars) /\ p \in Nat
    OBVIOUS
  <2> QED
    BY <2>1, SkippedIs
<1>2. ArgFrom(chars, p) = Len(chars) + 1
  <2>1. ~ StartsQuoted(chars, p)
    BY <1>1 DEF StartsQuoted
  <2> QED
    BY <1>1, <2>1 DEF ArgFrom
<1> QED
  BY <1>2 DEF Delims

(* A line that is typed with these words, however they are spaced, means    *)
(* these words.                                                             *)
LEMMA LineMeant ==
    ASSUME TextHasBoth, NEW words, NEW gaps, Line(words, gaps)
    PROVE  C!parseline(C!LineOf(words, gaps)) = C!Meant(words)
<1> DEFINE n == Len(words)
           line == C!LineOf(words, gaps)
           size == Len(line)
           chars == C!ReplaceAt(line, size, C!Space)
           Words == Seq(Text)
           Width(k) == Len(C!Spelled(words[k]))
<1>1. /\ n \in Nat /\ words \in Seq(Words) /\ \A k \in 1 .. n : words[k] \in Words /\ Writable(words[k])
      /\ \A k \in 1 .. n + 1 : gaps[k] \in Nat
      /\ \A k \in 2 .. n : gaps[k] > 0
  <2>1. n \in Nat /\ gaps \in Seq(Nat) /\ Len(gaps) = n + 1 /\ words \in Seq(Words)
    BY LenProperties DEF Line
  <2>2. \A k \in 1 .. Len(gaps) : gaps[k] \in Nat
    BY <2>1, ElementOfSeq
  <2>3. \A k \in 1 .. n : words[k] \in Words
    BY <2>1, ElementOfSeq
  <2> QED
    BY <2>1, <2>2, <2>3 DEF Line
<1>2. line \in Seq(Characters)
  BY LineIsLaid
<1>3. PICK marks : LineLaid(line, words, gaps, marks)
  BY LineIsLaid
<1> HIDE DEF line
<1>4. size \in Nat
  BY <1>2, LenProperties
<1>5. /\ marks \in [0 .. n -> Nat] /\ marks[0] = 0
      /\ \A k \in 1 .. n :
            /\ marks[k] = marks[k - 1] + (gaps[k] + Width(k))
            /\ \A j \in 1 .. gaps[k] : line[marks[k - 1] + j] = C!Space
            /\ \A j \in 1 .. Width(k) : line[marks[k - 1] + (gaps[k] + j)] = C!Spelled(words[k])[j]
      /\ size = marks[n] + (gaps[n + 1] + 1)
      /\ \A j \in 1 .. gaps[n + 1] : line[marks[n] + j] = C!Space
  BY <1>3 DEF LineLaid
<1>6. \A k \in 1 .. n : Width(k) \in Nat
  BY <1>1, SpellingIs, LenProperties
<1> HIDE DEF n, Width
<1>7. marks[n] \in Nat /\ gaps[n + 1] \in Nat /\ size \in 1 .. size
  BY <1>1, <1>5
<1> HIDE DEF size
<1>8. /\ chars \in Seq(Characters) /\ Len(chars) = size
      /\ \A j \in 1 .. size : chars[j] = IF j = size THEN C!Space ELSE line[j]
  <2>1. C!Space \in Characters
    BY DEF TextHasBoth
  <2>2. size = Len(line)
    BY DEF size
  <2>3. chars = [line EXCEPT ![size] = C!Space]
    BY DEF C!ReplaceAt
  <2> HIDE DEF chars
  <2> QED
    BY <1>2, <1>7, <2>1, <2>2, <2>3, ExceptSeq
<1>9. PICK f : ArgsFrom(chars, 1, f) /\ C!parseline(line) = Answer(f[1])
  <2>1. Len(chars) \in Nat
    BY <1>4, <1>8
  <2> QED
    BY <2>1, ParselineIs DEF size
<1> HIDE DEF chars
<1>10. ASSUME NEW p \in 1 .. size + 1 PROVE f[p] = ArgAt(chars, p, f)
  <2>1. f = [k \in 1 .. size + 1 |-> ArgAt(chars, k, f)]
    BY <1>8, <1>9 DEF ArgsFrom
  <2> QED
    BY <2>1, Zenon
<1> DEFINE From(k) == SubSeq(words, k, n)
           Starts(k) == marks[k - 1] + 1 .. IF k = n + 1 THEN size + 1 ELSE marks[k - 1] + gaps[k] + 1
           Good(k) == \A p \in Starts(k) : f[p] = From(k)
<1>11. \A k \in 0 .. n : marks[k] \in Nat
  BY <1>5
<1>12. Good(n + 1)
  <2> SUFFICES ASSUME NEW p \in marks[n] + 1 .. size + 1 PROVE f[p] = From(n + 1)
    <3>1. (n + 1) - 1 = n
      BY <1>1
    <3> QED
      BY <3>1
  <2>1. From(n + 1) = << >>
    BY <1>1, SubSeqEmpty
  <2>2. p \in 1 .. size + 1
    BY <1>7
  <2>3. \A u \in p .. size : chars[u] = C!Space
    <3> TAKE u \in p .. size
    <3>1. u \in 1 .. size
      BY <2>2
    <3>2. CASE u # size
      <4> DEFINE a == marks[n]
                 h == gaps[n + 1]
      <4>1. u - a \in 1 .. h /\ a + (u - a) = u
        <5>1. a \in Nat /\ h \in Nat /\ size = a + (h + 1) /\ p \in a + 1 .. size + 1
          BY <1>5, <1>7
        <5> HIDE DEF a, h
        <5>2. u \in Nat /\ u > a /\ u < size
          BY <3>1, <3>2, <5>1
        <5> QED
          BY <5>1, <5>2
      <4>2. line[u] = C!Space
        BY <1>5, <4>1
      <4> QED
        BY <1>8, <3>1, <3>2, <4>2
    <3> QED
      BY <1>8, <3>1, <3>2
  <2>4. Delims(chars, p) = {}
    BY <1>4, <1>8, <2>2, <2>3, NothingBehind
  <2> QED
    BY <1>10, <2>1, <2>2, <2>4, Zenon DEF ArgAt
<1>13. \A k \in 0 .. n : marks[k] + 1 <= size
  <2> DEFINE Bad == {d \in Nat : d <= n /\ ~ marks[n - d] + 1 <= size}
  <2>1. Bad = {}
    <3> SUFFICES ASSUME Bad # {} PROVE FALSE
      OBVIOUS
    <3> DEFINE d == Min(Bad)
    <3>1. d \in Bad /\ \A l \in Bad : d <= l
      BY MinOfNats
    <3> HIDE DEF d
    <3>2. d \in Nat /\ d <= n /\ ~ marks[n - d] + 1 <= size
      BY <3>1
    <3>3. d # 0
      BY <1>1, <1>5, <1>7, <3>2
    <3>4. d - 1 \in Nat /\ d - 1 <= n /\ ~ d <= d - 1 /\ n - (d - 1) \in 1 .. n /\ (n - (d - 1)) - 1 = n - d
      BY <1>1, <3>2, <3>3
    <3>5. marks[n - (d - 1)] + 1 <= size
      BY <3>1, <3>4
    <3> DEFINE k == n - (d - 1)
    <3>6. marks[k] = marks[k - 1] + (gaps[k] + Width(k)) /\ k \in 1 .. n /\ k - 1 = n - d /\ marks[k - 1] \in Nat
      <4>1. k \in 1 .. n /\ k - 1 = n - d /\ k - 1 \in 0 .. n
        BY <1>1, <3>2, <3>4
      <4> HIDE DEF k
      <4> QED
        BY <1>5, <1>11, <4>1
    <3> HIDE DEF k
    <3>7. gaps[k] \in Nat /\ Width(k) \in Nat
      BY <1>1, <1>6, <3>6
    <3> QED
      BY <1>4, <3>2, <3>5, <3>6, <3>7 DEF k
  <2> TAKE k \in 0 .. n
  <2>2. n - k \in Nat /\ n - k <= n /\ n - (n - k) = k
    BY <1>1
  <2> QED
    BY <2>1, <2>2
<1>14. ASSUME NEW k \in 1 .. n, Good(k + 1) PROVE Good(k)
  <2> DEFINE b == marks[k - 1]
             g == gaps[k]
             w == words[k]
             e == marks[k]
  <2>1. b \in Nat /\ g \in Nat /\ Writable(w) /\ w \in Words /\ e = b + (g + Width(k)) /\ e + 1 <= size /\ Width(k) \in Nat /\ k # n + 1
        /\ e \in Nat /\ k + 1 \in 1 .. n + 1 /\ (k + 1) - 1 = k
    BY <1>1, <1>5, <1>6, <1>11, <1>13, SMTT(30)
  <2>2. ASSUME NEW j \in 1 .. g PROVE chars[b + j] = C!Space
    <3>1. line[b + j] = C!Space
      BY <1>5
    <3> HIDE DEF b, g, e
    <3>2. b + j \in 1 .. size /\ b + j # size
      BY <1>4, <2>1
    <3> QED
      BY <1>8, <3>1, <3>2
  <2>3. ASSUME NEW j \in 1 .. Width(k) PROVE chars[b + (g + j)] = C!Spelled(w)[j]
    <3>1. line[b + (g + j)] = C!Spelled(w)[j]
      BY <1>5
    <3> HIDE DEF b, g, e
    <3>2. b + (g + j) \in 1 .. size /\ b + (g + j) # size
      BY <1>4, <2>1, SMTT(30)
    <3> QED
      BY <1>8, <3>1, <3>2
  <2>4. chars[e + 1] = C!Space
    <3>1. CASE e + 1 = size
      BY <1>7, <1>8, <3>1
    <3>2. CASE e + 1 # size
      <4>1. e + 1 \in 1 .. size
        <5> HIDE DEF e
        <5> QED
          BY <1>4, <2>1
      <4>2. line[e + 1] = C!Space
        <5>1. CASE k = n
          <6>1. 1 \in 1 .. gaps[n + 1] 
            BY <1>5, <1>7, <3>2, <5>1
          <6> QED
            BY <1>5, <5>1, <6>1
        <5>2. CASE k # n
          <6>1. k + 1 \in 1 .. n /\ k + 1 \in 2 .. n /\ (k + 1) - 1 = k
            BY <1>1, <5>2
          <6>2. gaps[k + 1] \in Nat /\ gaps[k + 1] > 0
            BY <1>1, <6>1
          <6>3. 1 \in 1 .. gaps[k + 1]
            BY <6>2
          <6>4. line[marks[(k + 1) - 1] + 1] = C!Space
            BY <1>5, <6>1, <6>3
          <6> QED
            BY <6>1, <6>4
        <5> QED
          BY <5>1, <5>2
      <4> QED
        BY <1>8, <3>2, <4>1, <4>2
    <3> QED
      BY <3>1, <3>2
  <2>5. WordAt(chars, b, g, w)
    <3>1. b + (g + Width(k)) \in 0 .. Len(chars) - 1 /\ b + (g + Width(k)) + 1 = e + 1
      <4> HIDE DEF b, g, e
      <4> QED
        BY <1>4, <1>8, <2>1
    <3>2. Width(k) = Len(C!Spelled(w))
      BY DEF Width
    <3> HIDE DEF b, g, w, e
    <3> QED
      BY <2>2, <2>3, <2>4, <3>1, <3>2 DEF WordAt
  <2>6. From(k) = <<w>> \o From(k + 1)
    <3>1. k \in 1 .. Len(words) /\ n \in k .. Len(words)
      BY <1>1 DEF n
    <3> QED
      BY <1>1, <3>1, SubSeqRecursiveFirst
  <2> SUFFICES ASSUME NEW p \in b + 1 .. b + g + 1 PROVE f[p] = From(k)
    BY <2>1
  <2> HIDE DEF From
  <2> DEFINE m == C!Min(Delims(chars, p))
  <2> HIDE DEF b, g, w, e
  <2>7. /\ Delims(chars, p) # {} /\ SubSeq(chars, ArgFrom(chars, p), m - 1) = w
        /\ m = IF Quoted(w) THEN e ELSE e + 1
    <3>1. b + (g + Len(C!Spelled(w))) = e
      BY <2>1 DEF Width, w
    <3>2. /\ Delims(chars, p) # {} /\ SubSeq(chars, ArgFrom(chars, p), C!Min(Delims(chars, p)) - 1) = w
          /\ C!Min(Delims(chars, p)) = LET l == b + (g + Len(C!Spelled(w))) IN IF Quoted(w) THEN l ELSE l + 1
      <4>1. TextHasBoth /\ chars \in Seq(Characters) /\ b \in Nat /\ g \in Nat /\ Writable(w) /\ WordAt(chars, b, g, w)
            /\ p \in b + 1 .. b + g + 1
        BY <1>8, <2>1, <2>5
      <4> QED
        BY ONLY <4>1, WordIsArg
    <3> QED
      BY <3>1, <3>2, Zenon
  <2> HIDE DEF m
  <2>8. p \in 1 .. size + 1
    BY <1>4, <2>1
  <2>9. f[p] = <<w>> \o f[m + 1]
    <3>1. f[p] = <<SubSeq(chars, ArgFrom(chars, p), C!Min(Delims(chars, p)) - 1)>> \o f[C!Min(Delims(chars, p)) + 1]
      BY <1>10, <2>7, <2>8, Zenon DEF ArgAt
    <3> QED
      BY <2>7, <3>1, Zenon DEF m
  <2>10. m + 1 \in Starts(k + 1)
    <3>1. m + 1 = e + 1 \/ (m + 1 = e + 2 /\ ~ Quoted(w))
      BY <2>1, <2>7
    <3>2. CASE k = n
      <4>1. Starts(k + 1) = e + 1 .. size + 1
        BY <2>1, <3>2 DEF e
      <4> HIDE DEF Starts
      <4> QED
        BY <1>4, <2>1, <3>1, <4>1, SMTT(30)
    <3>3. CASE k # n
      <4>1. k + 1 # n + 1 /\ k + 1 \in 2 .. n
        BY <1>1, <3>3
      <4>2. gaps[k + 1] \in Nat /\ gaps[k + 1] > 0
        BY <1>1, <2>1, <4>1
      <4>3. Starts(k + 1) = e + 1 .. e + gaps[k + 1] + 1
        BY <2>1, <4>1 DEF e
      <4> HIDE DEF Starts
      <4> QED
        BY <2>1, <3>1, <4>2, <4>3, SMTT(30)
    <3> QED
      BY <3>2, <3>3
  <2>11. f[m + 1] = From(k + 1)
    BY <1>14, <2>10
  <2> QED
    BY <2>6, <2>9, <2>11
<1> HIDE DEF Good
<1>15. Good(1)
  <2> DEFINE Bad == {d \in Nat : d <= n /\ ~ Good(n + 1 - d)}
  <2>1. Bad = {}
    <3> SUFFICES ASSUME Bad # {} PROVE FALSE
      OBVIOUS
    <3> DEFINE d == Min(Bad)
    <3>1. d \in Bad /\ \A l \in Bad : d <= l
      BY MinOfNats
    <3> HIDE DEF d
    <3>2. d \in Nat /\ d <= n /\ ~ Good(n + 1 - d)
      BY <3>1
    <3>3. d # 0
      <4> SUFFICES ASSUME d = 0 PROVE FALSE
        OBVIOUS
      <4>1. n + 1 - d = n + 1
        BY <1>1
      <4> QED
        BY <1>12, <3>2, <4>1
    <3>4. /\ d - 1 \in Nat /\ d - 1 <= n /\ ~ d <= d - 1 /\ n + 1 - d \in 1 .. n
          /\ n + 1 - (d - 1) = (n + 1 - d) + 1
      BY <1>1, <3>2, <3>3
    <3>5. Good(n + 1 - (d - 1))
      BY <3>1, <3>4
    <3> DEFINE k == n + 1 - d
    <3> HIDE DEF k
    <3>6. Good(k + 1) /\ k \in 1 .. n /\ ~ Good(k)
      BY <3>2, <3>4, <3>5 DEF k
    <3> QED
      BY <1>14, <3>6
  <2>2. n \in Nat /\ n <= n /\ n + 1 - n = 1
    BY <1>1
  <2> QED
    BY <2>1, <2>2
<1>16. f[1] = words
  <2>1. 1 \in Starts(1)
    <3>1. 1 - 1 = 0
      OBVIOUS
    <3>2. CASE 1 = n + 1
      BY <1>4, <1>5, <3>1, <3>2
    <3>3. CASE 1 # n + 1
      <4>1. gaps[1] \in Nat
        BY <1>1
      <4> QED
        BY <1>5, <3>1, <3>3, <4>1
    <3> QED
      BY <3>2, <3>3
  <2>2. f[1] = From(1)
    BY <1>15, <2>1 DEF Good
  <2>3. From(1) = words
    BY <1>1, SubSeqFull DEF n
  <2> QED
    BY <2>2, <2>3
<1> QED
  BY <1>9, <1>16, MeantIs DEF line

\* Any number of lines, of any words, however they are spaced, and a rest that has no
\* newline; the buffer has room for a character and the terminator.
TypingAssumption ==
    /\ LineSize \in Nat \ {0, 1}
    /\ TextHasBoth
    /\ \A s \in Typings :
          /\ Len(s.words) \in Nat /\ s.rest \in Seq(Text)
          /\ \A k \in 1 .. Len(s.words) : Line(s.words[k], s.gaps[k])

LineAt(s, k) == C!LineOf(s.words[k], s.gaps[k])
\* marks[k] is where the k-th line marks in what is typed.
TypedLaid(s, marks) ==
    LET n == Len(s.words)
    IN  /\ C!Typed(s) \in Seq(Characters)
        /\ marks \in [0 .. n -> Nat] /\ marks[0] = 0
        /\ Len(C!Typed(s)) = marks[n] + Len(s.rest)
        /\ \A k \in 1 .. n : \A j \in 1 .. Len(LineAt(s, k)) : C!Typed(s)[marks[k - 1] + j] = LineAt(s, k)[j]
        /\ \A k \in 1 .. n : marks[k] = marks[k - 1] + Len(LineAt(s, k)) /\ marks[k] <= marks[n]
        /\ \A j \in 1 .. Len(s.rest) : C!Typed(s)[marks[n] + j] = s.rest[j]

(* What is typed is laid out in this way.                                   *)
LEMMA TypedIsLaid ==
    ASSUME TypingAssumption, NEW s \in Typings
    PROVE  \E marks : TypedLaid(s, marks)
<1> DEFINE n == Len(s.words)
           lines == [k \in 1 .. n |-> LineAt(s, k)]
           f == FlattenSeq(lines)
           t == f \o s.rest
<1>1. n \in Nat /\ s.rest \in Seq(Characters) /\ \A k \in 1 .. n : LineAt(s, k) \in Seq(Characters)
  <2>1. \A k \in 1 .. n : LineAt(s, k) \in Seq(Characters)
    BY LineIsLaid DEF TypingAssumption, LineAt
  <2>2. s.rest \in Seq(Text) /\ Text \subseteq Characters /\ n \in Nat
    BY DEF TypingAssumption, Text
  <2> QED
    BY <2>1, <2>2, SeqMonotonic
<1>2. C!Typed(s) = t
  BY DEF C!Typed, C!FlattenSeq, FlattenSeq, LineAt
<1>3. lines \in Seq(Seq(Characters)) /\ Len(lines) = n /\ \A k \in 1 .. n : lines[k] = LineAt(s, k)
  BY <1>1
<1> HIDE DEF n, lines
<1>4. f \in Seq(Characters)
  BY <1>3, FlattenLays
<1>5. PICK marks : Marks(lines, n, marks) /\ Len(f) = marks[n] /\ Laid(f, lines, n, marks)
  BY <1>3, FlattenLays
<1> HIDE DEF f
<1>6. t \in Seq(Characters) /\ Joined(f, s.rest, t)
  BY <1>1, <1>4, JoinedPair
<1> HIDE DEF t
<1>7. marks \in [0 .. n -> Nat] /\ marks[0] = 0 /\ marks[n] \in Nat
      /\ \A k \in 1 .. n : marks[k] = marks[k - 1] + Len(LineAt(s, k))
  BY <1>1, <1>3, <1>5 DEF Marks
<1>8. ASSUME NEW k \in 1 .. n PROVE marks[k] <= marks[n]
  <2>1. n \in 0 .. Len(lines) /\ k \in 0 .. n /\ n \in k .. n
    BY <1>1, <1>3
  <2> QED
    BY <1>3, <1>5, <2>1, MarksGrow
<1> DEFINE e == marks[n]
           r == Len(s.rest)
<1>9. r \in Nat /\ e \in Nat
  BY <1>1, <1>7, LenProperties
<1>10. Len(t) = e + r /\ \A u \in 1 .. e + r : t[u] = IF u <= e THEN f[u] ELSE s.rest[u - e]
  BY <1>5, <1>6 DEF Joined
<1>11. ASSUME NEW k \in 1 .. n, NEW j \in 1 .. Len(LineAt(s, k))
       PROVE  t[marks[k - 1] + j] = LineAt(s, k)[j]
  <2> DEFINE b == marks[k - 1]
             l == Len(LineAt(s, k))
  <2>1. f[b + j] = LineAt(s, k)[j]
    BY <1>3, <1>5 DEF Laid
  <2>2. b \in Nat /\ l \in Nat /\ marks[k] = b + l /\ marks[k] <= e
    <3>1. k - 1 \in 0 .. n
      BY <1>1
    <3>2. l \in Nat
      BY <1>1, LenProperties
    <3> QED
      BY <1>7, <1>8, <3>1, <3>2
  <2>3. j \in 1 .. l
    OBVIOUS
  <2> HIDE DEF b, e, l
  <2>4. b + j \in 1 .. e + r /\ b + j <= e
    BY <1>9, <2>2, <2>3
  <2> QED
    BY <1>10, <2>1, <2>4 DEF b
<1>12. ASSUME NEW j \in 1 .. r PROVE t[e + j] = s.rest[j]
  <2> HIDE DEF e, r
  <2>1. e + j \in 1 .. e + r /\ ~ e + j <= e /\ (e + j) - e = j
    BY <1>9
  <2> QED
    BY <1>10, <2>1
<1>13. TypedLaid(s, marks)
  BY <1>2, <1>6, <1>7, <1>8, <1>10, <1>11, <1>12 DEF TypedLaid, n, e, r
<1> QED
  BY <1>13

\* LinesMeant is about lines that fit.
Fit(s) ==
    /\ Len(s.rest) < LineSize - 1
    /\ \A k \in 1 .. Len(s.words) : Len(LineAt(s, k)) < LineSize

\* How many lines have been read.
LinesRead == IF stop = "eval" THEN Len(evaluated) + 1 ELSE Len(evaluated)
Meanings(s) == {C!Meant(s.words[k]) : k \in 1 .. Len(s.words)}

\* Where the shell is in what is typed: in front of the line after those it has read.
Reading(marks) ==
    LET n == Len(typing.words)
    IN  /\ evaluated \in Seq(Meanings(typing)) /\ LinesRead \in 0 .. n
        /\ \A k \in 1 .. Len(evaluated) : evaluated[k] = C!Meant(typing.words[k])
        /\ stop = "eval" => cmdline = LineAt(typing, LinesRead)
        /\ stop = "end" => Len(evaluated) = n
        /\ stop # "end" =>
              /\ stdin \in Seq(Characters)
              /\ Len(stdin) = Len(C!Typed(typing)) - marks[LinesRead]
              /\ \A j \in 1 .. Len(stdin) : stdin[j] = C!Typed(typing)[marks[LinesRead] + j]
LinesInv ==
    /\ typing \in Typings
    /\ Fit(typing) => \E marks : TypedLaid(typing, marks) /\ Reading(marks)

(* Init establishes it.                                                     *)
LEMMA LinesStart == ASSUME TypingAssumption, C!Init PROVE LinesInv
<1>1. typing \in Typings /\ stdin = C!Typed(typing) /\ evaluated = << >> /\ stop = "options"
  BY DEF C!Init
<1>2. PICK marks : TypedLaid(typing, marks)
  BY <1>1, TypedIsLaid
<1>3. stdin \in Seq(Characters) /\ Len(stdin) \in Nat /\ marks[0] = 0 /\ Len(typing.words) \in Nat
  BY <1>1, <1>2, LenProperties DEF TypedLaid, TypingAssumption
<1>4. LinesRead = 0
  BY <1>1 DEF LinesRead
<1>5. evaluated \in Seq(Meanings(typing)) /\ Len(evaluated) = 0
  BY <1>1
<1>6. Reading(marks)
  BY <1>1, <1>3, <1>4, <1>5 DEF Reading
<1> QED
  BY <1>1, <1>2, <1>6 DEF LinesInv

(* The steps that neither read nor evaluate.                                *)
LEMMA OthersKeep ==
    ASSUME NEW marks, Reading(marks),
           UNCHANGED <<typing, stdin, evaluated>>, stop # "end", stop # "eval", stop' # "end", stop' # "eval"
    PROVE  Reading(marks)'
BY DEF Reading, LinesRead

(* What eval is called with.                                                *)
LEMMA EvalKeeps ==
    ASSUME TypingAssumption, typing \in Typings, NEW marks, Reading(marks), C!Eval
    PROVE  Reading(marks)'
<1> DEFINE n == Len(typing.words)
           r == Len(evaluated) + 1
           S == Meanings(typing)
           m == C!Meant(typing.words[r])
<1>1. /\ stop = "eval" /\ stop' = "prompt" /\ evaluated' = Append(evaluated, C!parseline(cmdline))
      /\ UNCHANGED <<typing, stdin>>
  BY DEF C!Eval
<1>2. evaluated \in Seq(S) /\ Len(evaluated) \in Nat /\ n \in Nat
  BY LenProperties DEF Reading, TypingAssumption
<1>3. r \in 1 .. n /\ cmdline = LineAt(typing, r)
  BY <1>1, <1>2 DEF Reading, LinesRead
<1>4. C!parseline(cmdline) = m
  BY <1>3, LineMeant DEF TypingAssumption, LineAt
<1>5. m \in S
  BY <1>3 DEF Meanings
<1> HIDE DEF m, S
<1>6. /\ evaluated' \in Seq(S) /\ Len(evaluated') = r /\ evaluated'[r] = m
      /\ \A k \in 1 .. Len(evaluated) : evaluated'[k] = evaluated[k]
  BY <1>1, <1>2, <1>4, <1>5, AppendProperties
<1>7. LinesRead = r /\ LinesRead' = r
  BY <1>1, <1>6 DEF LinesRead
<1>8. ASSUME NEW k \in 1 .. Len(evaluated') PROVE evaluated'[k] = C!Meant(typing.words[k])
  <2>1. CASE k = r
    BY <1>6, <2>1 DEF m
  <2>2. CASE k # r
    <3>1. k \in 1 .. Len(evaluated)
      BY <1>2, <1>6, <2>2
    <3> QED
      BY <1>6, <3>1 DEF Reading
  <2> QED
    BY <2>1, <2>2
<1>9. S' = S
  BY <1>1 DEF S, Meanings
<1> QED
  BY <1>1, <1>3, <1>6, <1>7, <1>8, <1>9 DEF Reading, S

(* A line is read as a whole, and alone; what has no newline marks the loop. *)
LEMMA ReadKeepsLines ==
    ASSUME TypingAssumption, typing \in Typings, Fit(typing), NEW marks, TypedLaid(typing, marks), Reading(marks),
           C!ReadLine
    PROVE  Reading(marks)'
<1> DEFINE n == Len(typing.words)
           r == Len(evaluated)
           T == C!Typed(typing)
           size == Len(stdin)
           N == C!Newlines
           P == C!Piece
<1>1. /\ stop = "read" /\ UNCHANGED <<typing, evaluated>>
      /\ IF stdin # << >> THEN cmdline' = SubSeq(stdin, 1, P) ELSE UNCHANGED cmdline
      /\ stdin' = SubSeq(stdin, P + 1, size)
      /\ eof' = (N = {} /\ size < LineSize - 1)
      /\ stop' = IF eof' THEN "end" ELSE "eval"
  BY DEF C!ReadLine
<1>2. LinesRead = r /\ LinesRead' = IF eof' THEN r ELSE r + 1
  BY <1>1 DEF LinesRead
<1>3. /\ r \in 0 .. n /\ n \in Nat /\ r \in Nat /\ stdin \in Seq(Characters) /\ size \in Nat
      /\ size = Len(T) - marks[r] /\ \A j \in 1 .. size : stdin[j] = T[marks[r] + j]
      /\ evaluated \in Seq(Meanings(typing))
      /\ \A k \in 1 .. r : evaluated[k] = C!Meant(typing.words[k])
  BY <1>1, <1>2, LenProperties DEF Reading, TypingAssumption
<1>4. /\ Len(T) = marks[n] + Len(typing.rest) /\ marks[n] \in Nat /\ marks[r] \in Nat
      /\ typing.rest \in Seq(Text) /\ Len(typing.rest) \in Nat /\ LineSize \in Nat \ {0, 1}
  <2>1. Len(T) = marks[n] + Len(typing.rest) /\ marks \in [0 .. n -> Nat]
    BY DEF TypedLaid
  <2>2. typing.rest \in Seq(Text) /\ Len(typing.rest) \in Nat /\ LineSize \in Nat \ {0, 1}
    BY LenProperties DEF TypingAssumption
  <2> HIDE DEF n, r, T
  <2> QED
    BY <1>3, <2>1, <2>2
<1>5. N = {k \in 1 .. size : stdin[k] = C!Newline} /\ P = C!Min(N \cup {size, LineSize - 1})
  BY DEF C!Newlines, C!Piece
<1> HIDE DEF n, r, T, size, N, P
<1>6. CASE r = n
  <2>1. size = Len(typing.rest) /\ size < LineSize - 1
    BY <1>3, <1>4, <1>6 DEF Fit
  <2>2. N = {}
    <3> SUFFICES ASSUME NEW k \in 1 .. size PROVE stdin[k] # C!Newline
      BY <1>5
    <3>1. stdin[k] = T[marks[n] + k] /\ k \in 1 .. Len(typing.rest)
      BY <1>3, <1>6, <2>1
    <3>2. stdin[k] = typing.rest[k]
      BY <3>1 DEF TypedLaid, n, T
    <3>3. typing.rest[k] \in Text
      BY <1>4, <3>1, ElementOfSeq
    <3> QED
      BY <3>2, <3>3 DEF Text
  <2>3. eof' = TRUE /\ stop' = "end"
    BY <1>1, <2>1, <2>2
  <2> QED
    BY <1>1, <1>2, <1>3, <1>6, <2>3 DEF Reading, n, r, Meanings
<1>7. CASE r # n
  <2> DEFINE line == LineAt(typing, r + 1)
             l == Len(line)
             b == marks[r]
  <2>1. r + 1 \in 1 .. n /\ (r + 1) - 1 = r
    BY <1>3, <1>7
  <2>2. Line(typing.words[r + 1], typing.gaps[r + 1]) /\ TextHasBoth
    BY <2>1 DEF TypingAssumption, n
  <2>3. line \in Seq(Characters)
    BY <2>2, LineIsLaid DEF LineAt
  <2>4. l \in Nat \ {0} /\ line[l] = C!Newline /\ \A j \in 1 .. l - 1 : line[j] \in Text
    <3>1. PICK e : LineLaid(line, typing.words[r + 1], typing.gaps[r + 1], e)
      BY <2>2, LineIsLaid, SMTT(30) DEF LineAt
    <3>2. line[l] = C!Newline /\ \A j \in 1 .. l - 1 : line[j] \in Text
      BY <3>1 DEF LineLaid
    <3> DEFINE w == Len(typing.words[r + 1])
               g == typing.gaps[r + 1]
    <3>3. l = e[w] + (g[w + 1] + 1) /\ e[w] \in Nat /\ g[w + 1] \in Nat
      <4>1. w \in Nat /\ g \in Seq(Nat) /\ Len(g) = w + 1
        BY <2>2, LenProperties DEF Line
      <4>2. g[w + 1] \in Nat
        BY <4>1, ElementOfSeq, SMTT(30)
      <4>3. l = e[w] + (g[w + 1] + 1) /\ e \in [0 .. w -> Nat]
        BY <3>1 DEF LineLaid
      <4> HIDE DEF w, g, l, line
      <4> QED
        BY <4>1, <4>2, <4>3
    <3> HIDE DEF line, w, g
    <3>4. l \in Nat /\ l # 0
      BY <3>3
    <3> QED
      BY <3>2, <3>4
  <2>5. l < LineSize
    BY <2>1 DEF Fit, n
  <2>6. marks[r + 1] = b + l /\ marks[r + 1] <= marks[n] /\ \A j \in 1 .. l : T[b + j] = line[j]
    BY <2>1 DEF TypedLaid, n, T
  <2> HIDE DEF line, l, b
  <2>7. l <= size /\ b \in Nat
    <3>1. marks[r + 1] = b + l
      BY <2>6
    <3>2. b \in Nat /\ size = Len(T) - b
      BY <1>3, <1>4 DEF b
    <3>3. b + l <= marks[n]
      BY <2>6, <3>1
    <3> QED
      BY <1>4, <2>4, <3>2, <3>3
  <2>8. \A j \in 1 .. l : stdin[j] = line[j]
    <3> TAKE j \in 1 .. l
    <3>1. j \in 1 .. size
      BY <1>3, <2>4, <2>7
    <3>2. stdin[j] = T[b + j]
      BY <1>3, <3>1 DEF b
    <3> QED
      BY <2>6, <3>2
  <2>9. l \in N
    <3>1. l \in 1 .. l /\ l \in 1 .. size
      BY <1>3, <2>4, <2>7
    <3> QED
      BY <1>5, <2>4, <2>8, <3>1
  <2>10. ASSUME NEW v \in N PROVE l <= v
    <3>1. v \in 1 .. size /\ stdin[v] = C!Newline
      BY <1>5
    <3>2. CASE v \in 1 .. l - 1
      <4>1. v \in 1 .. l
        BY <2>4, <3>2
      <4>2. stdin[v] = line[v] /\ line[v] \in Text
        BY <2>4, <2>8, <3>2, <4>1
      <4> QED
        BY <3>1, <4>2 DEF Text
    <3> QED
      BY <2>4, <3>1, <3>2
  <2>11. P = l
    <3> DEFINE Y == N \cup {size, LineSize - 1}
    <3>1. Y \subseteq Nat
      BY <1>3, <1>4, <1>5
    <3>2. l \in Y /\ \A v \in Y : l <= v
      <4>1. l <= LineSize - 1
        BY <1>4, <2>4, <2>5
      <4> QED
        BY <2>7, <2>9, <2>10, <4>1
    <3> HIDE DEF Y
    <3>3. C!Min(Y) = l
      BY <3>1, <3>2, LeastIs
    <3> QED
      BY <1>5, <3>3 DEF Y
  <2>12. ~ eof' /\ stop' = "eval" /\ LinesRead' = r + 1
    BY <1>1, <1>2, <2>9
  <2>13. cmdline' = line
    <3>1. stdin # << >>
      BY <1>3, <2>4, <2>7 DEF size
    <3> DEFINE c == SubSeq(stdin, 1, l)
    <3>2. cmdline' = c
      BY <1>1, <2>11, <3>1
    <3>3. \A u \in 1 .. l : stdin[u] \in Characters
      BY <2>3, <2>8, ElementOfSeq DEF l
    <3>4. /\ c \in Seq(Characters) /\ Len(c) = (IF 1 <= l THEN l - 1 + 1 ELSE 0)
          /\ \A u \in 1 .. l - 1 + 1 : c[u] = stdin[1 + u - 1]
      BY <2>4, <3>3, SubSeqProperties
    <3> HIDE DEF c
    <3>5. l - 1 + 1 = l /\ Len(c) = l /\ \A u \in 1 .. l : 1 + u - 1 = u
      BY <2>4, <3>4
    <3>6. \A u \in 1 .. Len(c) : c[u] = line[u]
      BY <2>8, <3>4, <3>5
    <3>7. c = line
      BY <2>3, <3>4, <3>5, <3>6, SeqEqual DEF l
    <3> QED
      BY <3>2, <3>7
  <2>14. /\ stdin' \in Seq(Characters) /\ Len(stdin') = size - l
         /\ \A j \in 1 .. size - l : stdin'[j] = stdin[l + j]
    <3> DEFINE d == SubSeq(stdin, l + 1, size)
    <3>1. \A u \in l + 1 .. size : stdin[u] \in Characters
      <4>1. \A u \in l + 1 .. size : u \in 1 .. size
        BY <1>3, <2>4
      <4> QED
        BY <1>3, <4>1, ElementOfSeq DEF size
    <3>2. /\ d \in Seq(Characters) /\ Len(d) = (IF l + 1 <= size THEN size - (l + 1) + 1 ELSE 0)
          /\ \A u \in 1 .. size - (l + 1) + 1 : d[u] = stdin[(l + 1) + u - 1]
      BY <1>3, <2>4, <3>1, SubSeqProperties
    <3>3. stdin' = d
      BY <1>1, <2>11
    <3> HIDE DEF d
    <3>4. Len(d) = size - l /\ size - (l + 1) + 1 = size - l /\ \A u \in 1 .. size - l : (l + 1) + u - 1 = l + u
      BY <1>3, <2>4, <2>7, <3>2, SMTT(30)
    <3> QED
      BY <3>2, <3>3, <3>4
  <2>15. Len(stdin') = Len(T) - marks[r + 1]
    <3>1. size = Len(T) - b /\ marks[r + 1] = b + l /\ Len(T) \in Nat
      BY <1>3, <1>4, <2>6 DEF b
    <3> QED
      BY <2>4, <2>7, <2>14, <3>1
  <2>16. ASSUME NEW j \in 1 .. Len(stdin') PROVE stdin'[j] = T[marks[r + 1] + j]
    <3>1. j \in 1 .. size - l /\ l + j \in 1 .. size /\ b + (l + j) = marks[r + 1] + j
      BY <1>3, <2>4, <2>6, <2>7, <2>14, SMTT(30)
    <3>2. stdin[l + j] = T[b + (l + j)]
      BY <1>3, <3>1 DEF b
    <3> QED
      BY <2>14, <3>1, <3>2
  <2>17. T' = T /\ n' = n /\ r' = r /\ Meanings(typing)' = Meanings(typing)
    BY <1>1 DEF T, n, r, Meanings
  <2>18. r + 1 \in 0 .. n
    BY <1>3, <2>1
  <2>19. cmdline' = LineAt(typing, LinesRead)'
    BY <1>1, <2>12, <2>13 DEF line
  <2>20. /\ stdin' \in Seq(Characters)
         /\ Len(stdin') = Len(C!Typed(typing)') - marks[LinesRead']
         /\ \A j \in 1 .. Len(stdin') : stdin'[j] = C!Typed(typing)'[marks[LinesRead'] + j]
    BY <2>12, <2>14, <2>15, <2>16, <2>17 DEF T
  <2>21. evaluated' = evaluated /\ typing' = typing
    BY <1>1
  <2>22. evaluated' \in Seq(Meanings(typing)') /\ LinesRead' \in 0 .. Len(typing'.words)
    BY <1>3, <2>12, <2>17, <2>18, <2>21 DEF n
  <2>23. \A k \in 1 .. Len(evaluated') : evaluated'[k] = C!Meant(typing'.words[k])
    BY <1>3, <2>21 DEF r
  <2> QED
    BY <2>12, <2>19, <2>20, <2>22, <2>23 DEF Reading
<1> QED
  BY <1>6, <1>7

(* Every step preserves it.                                                 *)
LEMMA LinesStep == ASSUME TypingAssumption, LinesInv, [C!Next]_(C!vars) PROVE LinesInv'
<1>1. typing' = typing
  BY DEF C!Next, C!vars, C!Option, C!OptionsDone, C!Prompt, C!ReadLine, C!ReadFails, C!Eval
<1>2. typing' \in Typings
  BY <1>1 DEF LinesInv
<1> SUFFICES ASSUME Fit(typing) PROVE \E marks : TypedLaid(typing, marks) /\ Reading(marks)'
  BY <1>1, <1>2 DEF LinesInv
<1>3. PICK marks : TypedLaid(typing, marks) /\ Reading(marks)
  BY DEF LinesInv
<1>4. Reading(marks)'
  <2>1. CASE C!Option \/ C!OptionsDone \/ C!Prompt \/ C!ReadFails
    BY <1>3, <2>1, OthersKeep DEF C!Option, C!OptionsDone, C!Prompt, C!ReadFails
  <2>2. CASE C!ReadLine
    BY <1>3, <2>2, ReadKeepsLines DEF LinesInv
  <2>3. CASE C!Eval
    BY <1>3, <2>3, EvalKeeps DEF LinesInv
  <2>4. CASE UNCHANGED C!vars
    BY <1>3, <2>4 DEF Reading, LinesRead, C!vars
  <2> QED
    BY <2>1, <2>2, <2>3, <2>4 DEF C!Next
<1> QED
  BY <1>3, <1>4

(* It says what LinesMeant says.                                            *)
LEMMA InvMeant == ASSUME LinesInv PROVE C!LinesMeant
<1> SUFFICES ASSUME Fit(typing)
             PROVE  /\ evaluated = [k \in 1 .. Len(evaluated) |-> C!Meant(typing.words[k])]
                    /\ stop = "end" => Len(evaluated) = Len(typing.words)
  BY DEF C!LinesMeant, Fit, LineAt
<1>1. PICK marks : Reading(marks)
  BY DEF LinesInv
<1>2. evaluated \in Seq(Meanings(typing)) /\ \A k \in 1 .. Len(evaluated) : evaluated[k] = C!Meant(typing.words[k])
  BY <1>1 DEF Reading
<1>3. evaluated = [k \in 1 .. Len(evaluated) |-> evaluated[k]]
  BY <1>2, LenProperties
<1> QED
  BY <1>1, <1>2, <1>3 DEF Reading

(* Every line the user types is evaluated once, in order, and as it is      *)
(* meant, whatever words it has and however they are spaced: the loop of    *)
(* main and parseline (tsh.c) together.                                     *)
THEOREM LinesAreMeant == ASSUME TypingAssumption PROVE C!Spec => []C!LinesMeant
<1>1. C!Init => LinesInv
  BY LinesStart
<1>2. LinesInv /\ [C!Next]_(C!vars) => LinesInv'
  BY LinesStep
<1>3. LinesInv => C!LinesMeant
  BY InvMeant
<1> QED
  BY <1>1, <1>2, <1>3, PTL DEF C!Spec

----------------------------------------------------------------------------
(* What typed lines may consist of. *)

(* A word without spaces, and without a quote in front.                     *)
LEMMA PlainWord ==
    ASSUME NEW w \in Seq(Text), w # << >>, \A k \in 1 .. Len(w) : w[k] # C!Space, w[1] # C!Quote
    PROVE  Writable(w)
<1>1. ~ Quoted(w)
  BY DEF Quoted, C!Contains
<1> QED
  BY <1>1 DEF Writable

(* A word with some, but without quotes, and one that is empty.             *)
LEMMA QuotedWord ==
    ASSUME NEW w \in Seq(Text), w = << >> \/ \E k \in 1 .. Len(w) : w[k] = C!Space,
           \A k \in 1 .. Len(w) : w[k] # C!Quote
    PROVE  Writable(w)
<1>1. Quoted(w)
  BY DEF Quoted, C!Contains
<1>2. ~ C!Contains(w, C!Quote)
  BY DEF C!Contains
<1> QED
  BY <1>1, <1>2 DEF Writable

\* One character n times.
Row(ch, n) == [k \in 1 .. n |-> ch]

(* It can be typed as it is.                                                *)
LEMMA WritableRow ==
    ASSUME NEW n \in Nat \ {0}, NEW ch \in Text, ch # C!Space, ch # C!Quote
    PROVE  Writable(Row(ch, n))
<1> DEFINE w == Row(ch, n)
<1>1. w \in Seq(Text) /\ Len(w) = n /\ \A k \in 1 .. Len(w) : w[k] = ch
  BY DEF Row
<1> HIDE DEF w
<1>2. Len(<< >>) = 0
  OBVIOUS
<1>3. Len(w) # 0 /\ 1 \in 1 .. Len(w)
  BY <1>1
<1>4. w # << >>
  BY <1>2, <1>3, Zenon
<1>5. Writable(w)
  BY <1>1, <1>3, <1>4, PlainWord
<1> QED
  BY <1>5 DEF w

(* Words of every kind.                                                     *)
LEMMA WritableWords ==
    ASSUME NEW a, NEW b, NEW c, NEW amp, {a, b, c, amp, C!Quote, C!Space} \subseteq Text,
           a # C!Space, b # C!Space, amp # C!Space, C!Quote # C!Space,
           a # C!Quote, b # C!Quote, amp # C!Quote, c # C!Space
    PROVE  /\ Writable(<<a>>) /\ Writable(<<b>>) /\ Writable(<<amp>>) /\ Writable(<<amp, a>>)
           /\ Writable(<<b, C!Quote, c>>) /\ Writable(<< >>) /\ Writable(<<a, C!Space, b>>)
<1> DEFINE quote == C!Quote
           space == C!Space
<1> HIDE DEF quote, space
<1>2. /\ a # space /\ b # space /\ amp # space /\ quote # space /\ c # space
      /\ a # quote /\ b # quote /\ amp # quote
  BY DEF quote, space
<1>3. \A w : Len(w) # 0 => w # << >>
  <2>1. Len(<< >>) = 0
    OBVIOUS
  <2> QED
    BY <2>1, Zenon
<1>4. a \in Text /\ b \in Text /\ c \in Text /\ amp \in Text /\ quote \in Text /\ space \in Text
  BY DEF quote, space
<1>5. ASSUME NEW w \in Seq(Text), w # << >>, \A k \in 1 .. Len(w) : w[k] # space, w[1] # quote
      PROVE  Writable(w)
  BY <1>5, PlainWord DEF quote, space
<1>6. ASSUME NEW w \in Seq(Text), w = << >> \/ \E k \in 1 .. Len(w) : w[k] = space,
             \A k \in 1 .. Len(w) : w[k] # quote
      PROVE  Writable(w)
  BY <1>6, QuotedWord DEF quote, space
<1>7. ASSUME NEW ch \in {a, b, amp} PROVE Writable(<<ch>>)
  <2> DEFINE w == <<ch>>
  <2>1. w \in Seq(Text) /\ Len(w) = 1 /\ w[1] = ch
    BY <1>4
  <2>2. ch # quote /\ ch # space
    BY <1>2
  <2> HIDE DEF w
  <2>3. \A k \in 1 .. Len(w) : k = 1
    BY <2>1
  <2>4. w # << >>
    <3>1. Len(w) # 0
      BY <2>1
    <3> QED
      BY <1>3, <3>1, Zenon
  <2>5. Writable(w)
    BY <1>5, <2>1, <2>2, <2>3, <2>4
  <2> QED
    BY <2>5 DEF w
<1>8. Writable(<<amp, a>>)
  <2> DEFINE w == <<amp, a>>
  <2>1. w \in Seq(Text) /\ Len(w) = 2 /\ w[1] = amp /\ w[2] = a
    BY <1>4
  <2> HIDE DEF w
  <2>2. \A k \in 1 .. Len(w) : k = 1 \/ k = 2
    BY <2>1
  <2>3. w # << >>
    <3>1. Len(w) # 0
      BY <2>1
    <3> QED
      BY <1>3, <3>1, Zenon
  <2>4. Writable(w)
    BY <1>2, <1>5, <2>1, <2>2, <2>3
  <2> QED
    BY <2>4 DEF w
<1>9. Writable(<<b, quote, c>>)
  <2> DEFINE w == <<b, quote, c>>
  <2>1. w \in Seq(Text) /\ Len(w) = 3 /\ w[1] = b /\ w[2] = quote /\ w[3] = c
    BY <1>4
  <2> HIDE DEF w
  <2>2. \A k \in 1 .. Len(w) : k = 1 \/ k = 2 \/ k = 3
    BY <2>1
  <2>3. w # << >>
    <3>1. Len(w) # 0
      BY <2>1
    <3> QED
      BY <1>3, <3>1, Zenon
  <2>4. Writable(w)
    BY <1>2, <1>5, <2>1, <2>2, <2>3
  <2> QED
    BY <2>4 DEF w
<1>10. Writable(<< >>)
  <2>1. << >> \in Seq(Text) /\ Len(<< >>) = 0
    OBVIOUS
  <2>2. \A k \in 1 .. Len(<< >>) : << >>[k] # quote
    BY <2>1
  <2> QED
    BY <1>6, <2>1, <2>2
<1>11. Writable(<<a, space, b>>)
  <2> DEFINE w == <<a, space, b>>
  <2>1. w \in Seq(Text) /\ Len(w) = 3 /\ w[1] = a /\ w[2] = space /\ w[3] = b
    BY <1>4
  <2> HIDE DEF w
  <2>2. 2 \in 1 .. Len(w) /\ \A k \in 1 .. Len(w) : k = 1 \/ k = 2 \/ k = 3
    BY <2>1
  <2>3. \A k \in 1 .. Len(w) : w[k] # quote
    BY <1>2, <2>1, <2>2
  <2>4. Writable(w)
    BY <1>6, <2>1, <2>2, <2>3
  <2> QED
    BY <2>4 DEF w
<1> QED
  BY <1>7, <1>8, <1>9, <1>10, <1>11 DEF quote, space

(* Lines of no word, of one and of two.                                     *)
LEMMA ShortLines ==
    ASSUME NEW w, Writable(w), NEW u, Writable(u), NEW k \in Nat, NEW n \in Nat, NEW m \in Nat
    PROVE  Line(<< >>, <<n>>) /\ Line(<<w>>, <<n, m>>) /\ (n > 0 => Line(<<w, u>>, <<k, n, m>>))
<1>1. w \in Seq(Text) /\ u \in Seq(Text)
  BY DEF Writable
<1> DEFINE Strings == Seq(Text)
<1> HIDE DEF Strings
<1>2. w \in Strings /\ u \in Strings
  BY <1>1 DEF Strings
<1>3. Line(<< >>, <<n>>)
  <2>1. << >> \in Seq(Strings) /\ Len(<< >>) = 0 /\ <<n>> \in Seq(Nat) /\ Len(<<n>>) = 1
    OBVIOUS
  <2> QED
    BY <2>1 DEF Line, Strings
<1>4. Line(<<w>>, <<n, m>>)
  <2>1. <<w>> \in Seq(Strings) /\ Len(<<w>>) = 1 /\ <<w>>[1] = w /\ <<n, m>> \in Seq(Nat) /\ Len(<<n, m>>) = 2
    BY <1>2
  <2> QED
    BY <2>1 DEF Line, Strings
<1>5. ASSUME n > 0 PROVE Line(<<w, u>>, <<k, n, m>>)
  <2> DEFINE p == <<w, u>>
             g == <<k, n, m>>
  <2>1. p \in Seq(Strings) /\ Len(p) = 2 /\ p[1] = w /\ p[2] = u
    BY <1>2
  <2>2. g \in Seq(Nat) /\ Len(g) = 3 /\ g[2] = n
    OBVIOUS
  <2> HIDE DEF p, g
  <2>3. \A j \in 1 .. Len(p) : Writable(p[j])
    BY <2>1
  <2>4. \A j \in 2 .. Len(p) : g[j] > 0
    BY <1>5, <2>1, <2>2
  <2>5. Line(p, g)
    BY <2>1, <2>2, <2>3, <2>4 DEF Line, Strings
  <2> QED
    BY <2>5 DEF p, g
<1> QED
  BY <1>3, <1>4, <1>5
=============================================================================
