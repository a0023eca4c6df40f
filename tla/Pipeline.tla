------------------------------ MODULE Pipeline ------------------------------
(***************************************************************************)
(* The pipeline shell of shell-lab1 (tsh.c).  eval makes the pipes between *)
(* the commands of a line, forks a child for each, puts it into the group  *)
(* of the first, closes its own ends and waits.  The children redirect     *)
(* their input and output, close every end they hold and become programs   *)
(* that read and write while the shell is still forking.  Process 0 is the *)
(* shell, process i the child of the i-th command.  A program is           *)
(* [own, reads]: it writes own, then copies that many items of its input.  *)
(***************************************************************************)
EXTENDS Integers, SequencesExt

CONSTANTS
    Sessions,       \* sequences of lines, a line being its argv
    MaxCmds,
    Program(_),     \* the program of a name; NoProgram when execve fails
    NoProgram,
    Files,          \* the file names, and what they contain at first:
    Content,        \* a sequence of items, or NoFile
    NoFile,
    Unwritable,     \* the files that cannot be opened for writing
    PipeSize        \* items that fit into a pipe

Children == 1 .. MaxCmds
Procs    == 0 .. MaxCmds
Pipes    == 1 .. MaxCmds - 1
Tty      == <<"tty", 0>>
PipeOf(j) == <<"pipe", j>>

VARIABLES
    todo,           \* lines not read yet
    argv, parsed,   \* the line eval works on, and what parseargs makes of it
    ran,            \* whether it is evaluated
    sh, i,          \* where the shell is, and the loop variable of eval
    at,             \* where each child is
    ends,           \* the pipe ends each process holds besides its 0 and 1
    in, out,        \* its standard input and output
    pipe,           \* what each pipe contains
    file,           \* what each file contains
    pos,            \* how many items each child has read
    left,           \* what it has still to write
    shown           \* what it has written to the terminal

shellVars == <<todo, argv, parsed, ran, sh, i>>
childVars == <<at, ends, in, out, pos, left>>
vars == <<shellVars, childVars, pipe, file, shown>>

(* parseargs, on the whole argv: where each command starts and the indexes  *)
(* of the names its input and output are redirected to, or 0.  A trailing   *)
(* operator has no effect, and whatever follows "|" is a command.           *)
parseargs(args) ==
    LET Opened(s, k) == [want |-> "", cmds |-> Append(s.cmds, k),
                         in |-> Append(s.in, 0), out |-> Append(s.out, 0)]
        Operator(t)  == CASE t = "<" -> "in" [] t = ">" -> "out" [] t = "|" -> "cmd" [] OTHER -> ""
        After(s, k)  == CASE s.want = "cmd" -> Opened(s, k)
                          [] s.want = "in"  -> [s EXCEPT !.want = "", !.in[Len(s.cmds)] = k]
                          [] s.want = "out" -> [s EXCEPT !.want = "", !.out[Len(s.cmds)] = k]
                          [] s.want = ""    -> [s EXCEPT !.want = Operator(args[k])]
        upto[k \in 0 .. Len(args)] ==
            IF k = 0 THEN [want |-> "cmd", cmds |-> << >>, in |-> << >>, out |-> << >>]
            ELSE After(upto[k - 1], k)
    IN  upto[Len(args)]

NumCmds    == Len(parsed.cmds)
Name(c)    == argv[parsed.cmds[c]]
InName(c)  == argv[parsed.in[c]]
OutName(c) == argv[parsed.out[c]]
\* What a line starts with, and the lines eval does nothing for: empty ones
\* and builtin_cmd's.
FirstWord(line) == {line[k] : k \in 1 .. Min({1, Len(line)})}
Ignored == {{}, {"fg"}, {"bg"}, {"jobs"}}

TypeOK ==
    /\ sh \in {"prompt", "fork", "setpgid", "close", "wait", "exited", "died"}
    /\ i \in Children /\ ran \in BOOLEAN
    /\ at \in [Children -> {"none", "in", "out", "dup", "close", "exec", "runs", "zombie", "failed"}]
    /\ ends \in [Procs -> SUBSET (Pipes \X {"read", "write"})]
    /\ \A j \in Pipes : Len(pipe[j]) <= PipeSize

Init ==
    /\ todo \in Sessions
    /\ argv = << >> /\ parsed = parseargs(<< >>) /\ ran = FALSE /\ sh = "prompt" /\ i = 1
    /\ at = [c \in Children |-> "none"] /\ ends = [p \in Procs |-> {}]
    /\ in = [c \in Children |-> Tty] /\ out = [c \in Children |-> Tty]
    /\ pipe = [j \in Pipes |-> << >>] /\ file = Content
    /\ pos = [c \in Children |-> 0] /\ left = [c \in Children |-> << >>]
    /\ shown = [c \in Children |-> << >>]

----------------------------------------------------------------------------
\* The shell.  main reads a line; eval ignores empty ones and the builtins,
\* and makes the pipes of any other.
ReadLine ==
    /\ sh = "prompt" /\ todo # << >>
    /\ todo' = Tail(todo) /\ argv' = Head(todo) /\ parsed' = parseargs(Head(todo))
    /\ i' = 1 /\ ran' = FALSE
    /\ \/ /\ FirstWord(argv') \in Ignored
          /\ UNCHANGED <<sh, ends, file>>
       \/ /\ FirstWord(argv') = {"quit"} /\ sh' = "exited"
          /\ UNCHANGED <<ends, file>>
       \/ /\ FirstWord(argv') \notin Ignored \cup {{"quit"}}
          /\ sh' = "fork" /\ file' = Content
          /\ ends' = [ends EXCEPT ![0] = (1 .. Len(parsed'.cmds) - 1) \X {"read", "write"}]
    /\ shown' = [c \in Children |-> << >>]
    /\ pipe' = [j \in Pipes |-> << >>]
    /\ UNCHANGED <<at, in, out, pos, left>>

\* End of file on the shell's input.
EndOfInput ==
    /\ sh = "prompt" /\ todo = << >> /\ sh' = "exited"
    /\ UNCHANGED <<todo, argv, parsed, ran, i, childVars, pipe, file, shown>>

Fork ==
    /\ sh = "fork"
    /\ at' = [at EXCEPT ![i] = "in"]
    /\ ends' = [ends EXCEPT ![i] = ends[0]]
    /\ sh' = "setpgid"
    /\ UNCHANGED <<todo, argv, parsed, ran, i, in, out, pos, left, pipe, file, shown>>

\* setpgid fails for a child that has run execve: unix_error ends the shell.
HasExeced(c) == at[c] \in {"runs", "zombie"} /\ Program(Name(c)) # NoProgram

Setpgid ==
    /\ sh = "setpgid"
    /\ \/ /\ HasExeced(i)
          /\ sh' = "died" /\ ends' = [ends EXCEPT ![0] = {}] /\ UNCHANGED i
       \/ /\ ~ HasExeced(i)
          /\ sh' = IF i < NumCmds THEN "fork" ELSE "close"
          /\ i' = IF i < NumCmds THEN i + 1 ELSE 1
          /\ UNCHANGED ends
    /\ UNCHANGED <<todo, argv, parsed, ran, at, in, out, pos, left, pipe, file, shown>>

CloseEnds ==
    /\ sh = "close" /\ sh' = "wait"
    /\ ends' = [ends EXCEPT ![0] = {}]
    /\ UNCHANGED <<todo, argv, parsed, ran, i, at, in, out, pos, left, pipe, file, shown>>

\* Mutant: the shell waits for the last command only.
Waitpid_Last ==
    /\ sh = "wait" /\ at[NumCmds] \in {"zombie", "failed"}
    /\ at' = [at EXCEPT ![NumCmds] = "none"]
    /\ sh' = "prompt" /\ ran' = TRUE /\ i' = 1
    /\ UNCHANGED <<todo, argv, parsed, ends, in, out, pos, left, pipe, file, shown>>

Waitpid ==
    /\ sh = "wait" /\ at[i] \in {"zombie", "failed"}
    /\ at' = [at EXCEPT ![i] = "none"]
    /\ IF i < NumCmds THEN i' = i + 1 /\ UNCHANGED <<sh, ran>>
       ELSE sh' = "prompt" /\ ran' = TRUE /\ i' = 1
    /\ UNCHANGED <<todo, argv, parsed, ends, in, out, pos, left, pipe, file, shown>>

----------------------------------------------------------------------------
\* The children.  Exits closes everything and leaves the status to the shell.
Exits(c, status) ==
    /\ at' = [at EXCEPT ![c] = status] /\ ends' = [ends EXCEPT ![c] = {}]
    /\ in' = [in EXCEPT ![c] = Tty] /\ out' = [out EXCEPT ![c] = Tty]
    /\ pos' = [pos EXCEPT ![c] = 0] /\ left' = [left EXCEPT ![c] = << >>]

\* Fopen for reading: its failure is reported where stdout still goes.
RedirectIn(c) ==
    /\ at[c] = "in"
    /\ \/ /\ parsed.in[c] = 0
          /\ at' = [at EXCEPT ![c] = "out"] /\ UNCHANGED <<ends, in, out, pos, left, shown>>
       \/ /\ parsed.in[c] > 0 /\ file[InName(c)] # NoFile
          /\ at' = [at EXCEPT ![c] = "out"]
          /\ in' = [in EXCEPT ![c] = <<"file", InName(c)>>]
          /\ UNCHANGED <<ends, out, pos, left, shown>>
       \/ /\ parsed.in[c] > 0 /\ file[InName(c)] = NoFile
          /\ Exits(c, "failed") /\ shown' = [shown EXCEPT ![c] = <<"error">>]
    /\ UNCHANGED <<shellVars, pipe, file>>

\* Fopen for writing: the file is empty from now on.  Its failure is reported
\* where stdout still goes, too.
RedirectOut(c) ==
    /\ at[c] = "out"
    /\ \/ /\ parsed.out[c] = 0
          /\ at' = [at EXCEPT ![c] = "dup"] /\ UNCHANGED <<ends, in, out, pos, left, file, shown>>
       \/ /\ parsed.out[c] > 0 /\ OutName(c) \notin Unwritable
          /\ at' = [at EXCEPT ![c] = "dup"]
          /\ out' = [out EXCEPT ![c] = <<"file", OutName(c)>>]
          /\ file' = [file EXCEPT ![OutName(c)] = << >>]
          /\ UNCHANGED <<ends, in, pos, left, shown>>
       \/ /\ parsed.out[c] > 0 /\ OutName(c) \in Unwritable
          /\ Exits(c, "failed") /\ shown' = [shown EXCEPT ![c] = <<"error">>]
          /\ UNCHANGED file
    /\ UNCHANGED <<shellVars, pipe>>

\* Mutant: the pipe takes the place of the file the output is redirected to.
DupPipes_Over(c) ==
    /\ at[c] = "dup"
    /\ out' = [out EXCEPT ![c] = IF c < NumCmds THEN PipeOf(c) ELSE @]
    /\ in' = [in EXCEPT ![c] = IF c > 1 THEN PipeOf(c - 1) ELSE @]
    /\ at' = [at EXCEPT ![c] = "close"]
    /\ UNCHANGED <<shellVars, ends, pos, left, pipe, file, shown>>

DupPipes(c) ==
    /\ at[c] = "dup"
    /\ out' = [out EXCEPT ![c] = IF c < NumCmds /\ parsed.out[c] = 0 THEN PipeOf(c) ELSE @]
    /\ in' = [in EXCEPT ![c] = IF c > 1 /\ parsed.in[c] = 0 THEN PipeOf(c - 1) ELSE @]
    /\ at' = [at EXCEPT ![c] = "close"]
    /\ UNCHANGED <<shellVars, ends, pos, left, pipe, file, shown>>

\* Mutant: a child closes its neighbours' ends only.
CloseAll_Own(c) ==
    /\ at[c] = "close"
    /\ ends' = [ends EXCEPT ![c] = @ \ ({c - 1, c} \X {"read", "write"})]
    /\ at' = [at EXCEPT ![c] = "exec"]
    /\ UNCHANGED <<shellVars, in, out, pos, left, pipe, file, shown>>

CloseAll(c) ==
    /\ at[c] = "close"
    /\ ends' = [ends EXCEPT ![c] = {}]
    /\ at' = [at EXCEPT ![c] = "exec"]
    /\ UNCHANGED <<shellVars, in, out, pos, left, pipe, file, shown>>

\* Where execve fails, unix_error writes to what is now the standard output.
Runs(name) == IF Program(name) = NoProgram THEN [own |-> <<"error">>, reads |-> 0] ELSE Program(name)

Execve(c) ==
    /\ at[c] = "exec"
    /\ at' = [at EXCEPT ![c] = "runs"]
    /\ left' = [left EXCEPT ![c] = Runs(Name(c)).own]
    /\ UNCHANGED <<shellVars, ends, in, out, pos, pipe, file, shown>>

----------------------------------------------------------------------------
\* The programs and the kernel's pipes.
HeldForWriting(j) == \E p \in Procs : <<j, "write">> \in ends[p] \/ (p > 0 /\ out[p] = PipeOf(j))
HeldForReading(j) == \E p \in Procs : <<j, "read">> \in ends[p] \/ (p > 0 /\ in[p] = PipeOf(j))

Write(c) ==
    /\ at[c] = "runs" /\ left[c] # << >>
    /\ \/ /\ out[c] = Tty
          /\ shown' = [shown EXCEPT ![c] = Append(@, Head(left[c]))]
          /\ UNCHANGED <<pipe, file>>
       \/ /\ out[c][1] = "file"
          /\ file' = [file EXCEPT ![out[c][2]] = Append(@, Head(left[c]))]
          /\ UNCHANGED <<pipe, shown>>
       \/ /\ out[c][1] = "pipe" /\ HeldForReading(out[c][2]) /\ Len(pipe[out[c][2]]) < PipeSize
          /\ pipe' = [pipe EXCEPT ![out[c][2]] = Append(@, Head(left[c]))]
          /\ UNCHANGED <<file, shown>>
    /\ left' = [left EXCEPT ![c] = Tail(@)]
    /\ UNCHANGED <<shellVars, at, ends, in, out, pos>>

Sigpipe(c) ==
    /\ at[c] = "runs" /\ left[c] # << >>
    /\ out[c][1] = "pipe" /\ ~ HeldForReading(out[c][2])
    /\ Exits(c, "zombie")
    /\ UNCHANGED <<shellVars, pipe, file, shown>>

\* The item the next read returns, and whether it returns 0 instead.
NextItem(c) == IF in[c][1] = "file" THEN file[in[c][2]][pos[c] + 1] ELSE Head(pipe[in[c][2]])
Ready(c) == \/ in[c][1] = "file" /\ pos[c] < Len(file[in[c][2]])
            \/ in[c][1] = "pipe" /\ pipe[in[c][2]] # << >>
AtEof(c) == ~ Ready(c) /\ (in[c][1] = "pipe" => ~ HeldForWriting(in[c][2]))

Read(c) ==
    /\ at[c] = "runs" /\ left[c] = << >> /\ pos[c] < Runs(Name(c)).reads /\ Ready(c)
    /\ left' = [left EXCEPT ![c] = <<NextItem(c)>>]
    /\ pos' = [pos EXCEPT ![c] = @ + 1]
    /\ pipe' = IF in[c][1] = "pipe" THEN [pipe EXCEPT ![in[c][2]] = Tail(@)] ELSE pipe
    /\ UNCHANGED <<shellVars, at, ends, in, out, file, shown>>

Ends(c) ==
    /\ at[c] = "runs" /\ left[c] = << >>
    /\ pos[c] = Runs(Name(c)).reads \/ AtEof(c)
    /\ Exits(c, "zombie")
    /\ UNCHANGED <<shellVars, pipe, file, shown>>

----------------------------------------------------------------------------
Shell == ReadLine \/ EndOfInput \/ Fork \/ Setpgid \/ CloseEnds \/ Waitpid
Child(c) == RedirectIn(c) \/ RedirectOut(c) \/ DupPipes(c) \/ CloseAll(c) \/ Execve(c)
            \/ Write(c) \/ Sigpipe(c) \/ Read(c) \/ Ends(c)

Next == Shell \/ \E c \in Children : Child(c)
Spec == Init /\ [][Next]_vars
FairSpec == Spec /\ WF_vars(Shell) /\ \A c \in Children : WF_vars(Child(c))

----------------------------------------------------------------------------
(* What a line means, as a composition of functions on sequences: meaning[c] *)
(* is what the c-th command writes, fed with the file it is redirected from  *)
(* or with what the command before it writes to the pipe.                    *)
Opens(c) ==
    /\ parsed.in[c] > 0 => Content[InName(c)] # NoFile
    /\ parsed.out[c] > 0 => OutName(c) \notin Unwritable
meaning[c \in 0 .. MaxCmds] ==
    IF c = 0 THEN << >>
    ELSE LET input == IF parsed.in[c] > 0 THEN Content[InName(c)]
                      ELSE IF c > 1 /\ parsed.out[c - 1] > 0 THEN << >> ELSE meaning[c - 1]
         IN  IF ~ Opens(c) THEN << >>
             ELSE Runs(Name(c)).own
                  \o SubSeq(input, 1, Min({Len(input), Runs(Name(c)).reads}))

\* When eval has returned, the terminal and the files hold what the composition
\* of the commands gives, however their execution was interleaved; and a file
\* that cannot be opened shows as an error on the terminal.
Composed ==
    ran => \A c \in 1 .. NumCmds :
        /\ Opens(c) /\ parsed.out[c] > 0 => file[OutName(c)] = meaning[c]
        /\ shown[c] = IF ~ Opens(c) THEN <<"error">>
                      ELSE IF c = NumCmds /\ parsed.out[c] = 0 THEN meaning[c] ELSE << >>

\* The shell is back at its prompt with no pipe end open, here or in a child,
\* with nothing left in a pipe, and with no child unreaped.
NothingLeft ==
    sh = "prompt" => /\ \A p \in Procs : ends[p] = {}
                     /\ \A c \in Children : at[c] = "none"
                     /\ \A j \in Pipes : ~ HeldForReading(j) /\ ~ HeldForWriting(j)

\* Every line ends: no command waits for an end of file that a forgotten write
\* end withholds, nor for a reader that nobody is, unless the shell itself died.
Idle == sh \in {"prompt", "exited", "died"}
LineEnds == []<>Idle
=============================================================================
