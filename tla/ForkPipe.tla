------------------------------ MODULE ForkPipe ------------------------------
(***************************************************************************)
(* The fork exercise of hw3-forkexec (fork.c, with the execve of exec.c).  *)
(* Parent and child share the open file fork-output.txt and a pipe, and    *)
(* each has its own copy of the stdio buffers: stdout's, which holds back  *)
(* what is printed unless it is a terminal, and in the child the pipe      *)
(* stream's.  A printed line is a word.                                    *)
(***************************************************************************)
EXTENDS Integers, SequencesExt

CONSTANTS
    Args,           \* argv[1]: "none", "runs" (a program), "fails" (execve fails)
    Terminals       \* whether stdout is a terminal

Procs == {"parent", "child"}

VARIABLES
    arg, tty,
    at,             \* the section each process is in
    file,           \* fork-output.txt, <<writer, word>>
    held,           \* stdout's buffer of each process
    term,           \* what has reached the original stdout
    redirected,     \* the child's descriptor 1 is the file
    pipeOut,        \* the buffer of the child's pipe stream
    pipe,           \* what is in the pipe
    writers,        \* who has its write end open
    buf             \* what fgets found

setting == <<arg, tty>>
stdoutVars == <<held, term, redirected>>
pipeVars == <<pipeOut, pipe, writers>>
vars == <<setting, at, file, stdoutVars, pipeVars, buf>>

TypeOK ==
    /\ arg \in Args /\ tty \in Terminals /\ redirected \in BOOLEAN
    /\ at \in [Procs -> {"none", "start", "fork", "A", "B", "C", "stream", "fgets", "wait", "dup",
                         "exec", "program", "end", "exited"}]
    /\ writers \subseteq Procs

Init ==
    /\ arg \in Args /\ tty \in Terminals
    /\ at = [p \in Procs |-> IF p = "parent" THEN "start" ELSE "none"]
    /\ file = << >> /\ held = [p \in Procs |-> << >>] /\ term = << >> /\ redirected = FALSE
    /\ pipeOut = << >> /\ pipe = << >> /\ writers = {} /\ buf = << >>

Goes(p, next) == at' = [at EXCEPT ![p] = next]

\* fprintf and fflush: the two processes share the file's offset.
ToFile(p, words) == file' = file \o [n \in DOMAIN words |-> <<p, words[n]>>]

\* printf: to a terminal at once.
Prints(p, words) ==
    IF ~ tty THEN held' = [held EXCEPT ![p] = @ \o words] /\ UNCHANGED term
    ELSE term' = term \o words /\ UNCHANGED held

Start ==
    /\ at["parent"] = "start" /\ Goes("parent", "fork")
    /\ Prints("parent", <<"Starting">>) /\ ToFile("parent", <<"BEFORE FORK">>)
    /\ writers' = {"parent"}
    /\ UNCHANGED <<setting, redirected, pipeOut, pipe, buf>>

\* fork: the child has copies of the buffers.
Fork ==
    /\ at["parent"] = "fork" /\ at' = [p \in Procs |-> "A"]
    /\ held' = [held EXCEPT !["child"] = held["parent"]]
    /\ writers' = Procs
    /\ UNCHANGED <<setting, file, term, redirected, pipeOut, pipe, buf>>

SectionA(p) ==
    /\ at[p] = "A" /\ Goes(p, IF p = "child" THEN "B" ELSE "C")
    /\ ToFile(p, <<"SECTION A">>) /\ Prints(p, <<"Section A">>)
    /\ UNCHANGED <<setting, redirected, pipeVars, buf>>

SectionB ==
    /\ at["child"] = "B" /\ Goes("child", "stream")
    /\ ToFile("child", <<"SECTION B">>)
    /\ UNCHANGED <<setting, stdoutVars, pipeVars, buf>>

PipeStream ==
    /\ at["child"] = "stream"
    /\ pipeOut' = <<"hello">>
    /\ Goes("child", IF arg = "none" THEN "end" ELSE "dup")
    /\ Prints("child", IF arg = "none" THEN <<"Section B", "No program">> ELSE <<"Section B">>)
    /\ UNCHANGED <<setting, file, redirected, pipe, writers, buf>>

\* dup2, and a line that is written through the same stream, now to the file.
Dup2 ==
    /\ at["child"] = "dup" /\ Goes("child", "exec")
    /\ redirected' = TRUE
    /\ IF tty THEN ToFile("child", <<"Running exec">>) /\ UNCHANGED held
       ELSE held' = [held EXCEPT !["child"] = Append(@, "Running exec")] /\ UNCHANGED file
    /\ UNCHANGED <<setting, term, pipeVars, buf>>

\* execve: all buffers are gone, the descriptors stay open.
Execve ==
    /\ at["child"] = "exec" /\ arg = "runs" /\ Goes("child", "program")
    /\ held' = [held EXCEPT !["child"] = << >>] /\ pipeOut' = << >>
    /\ UNCHANGED <<setting, file, term, redirected, pipe, writers, buf>>

ExecveFails ==
    /\ at["child"] = "exec" /\ arg = "fails" /\ Goes("child", "end")
    /\ IF tty THEN ToFile("child", <<"End">>) /\ UNCHANGED held
       ELSE held' = [held EXCEPT !["child"] = Append(@, "End")] /\ UNCHANGED file
    /\ UNCHANGED <<setting, term, redirected, pipeVars, buf>>

\* The program writes to its standard output and ends.
Program ==
    /\ at["child"] = "program" /\ Goes("child", "exited")
    /\ ToFile("child", <<"output">>) /\ writers' = writers \ {"child"}
    /\ UNCHANGED <<setting, stdoutVars, pipeOut, pipe, buf>>

\* Mutant: _exit, which flushes nothing.
Exit_Quick(p) ==
    /\ at[p] = "end" /\ Goes(p, "exited")
    /\ held' = [held EXCEPT ![p] = << >>]
    /\ writers' = writers \ {p}
    /\ UNCHANGED <<setting, file, term, redirected, pipeOut, pipe, buf>>

\* exit flushes what is left in the buffers.
Exit(p) ==
    /\ at[p] = "end" /\ Goes(p, "exited")
    /\ IF p = "child" /\ redirected
       THEN ToFile(p, held[p]) /\ UNCHANGED term
       ELSE term' = term \o held[p] /\ UNCHANGED file
    /\ held' = [held EXCEPT ![p] = << >>]
    /\ IF p = "child" THEN pipe' = pipe \o pipeOut /\ pipeOut' = << >> ELSE UNCHANGED <<pipe, pipeOut>>
    /\ writers' = writers \ {p}
    /\ UNCHANGED <<setting, redirected, buf>>

SectionC ==
    /\ at["parent"] = "C" /\ Goes("parent", "fgets")
    /\ ToFile("parent", <<"SECTION C">>) /\ writers' = writers \ {"parent"}
    /\ UNCHANGED <<setting, stdoutVars, pipeOut, pipe, buf>>

\* fgets returns a line or, when nobody holds the write end, nothing: what buf
\* has held since main's start is printed then.
Fgets ==
    /\ at["parent"] = "fgets" /\ (pipe # << >> \/ writers = {}) /\ Goes("parent", "wait")
    /\ buf' = IF pipe # << >> THEN <<Head(pipe)>> ELSE <<"garbage">>
    /\ pipe' = IF pipe # << >> THEN Tail(pipe) ELSE pipe
    /\ Prints("parent", buf' \o <<"Section C">>)
    /\ UNCHANGED <<setting, file, redirected, pipeOut, writers>>

Wait ==
    /\ at["parent"] = "wait" /\ at["child"] = "exited" /\ Goes("parent", "end")
    /\ Prints("parent", <<"Section C done">>)
    /\ UNCHANGED <<setting, file, redirected, pipeVars, buf>>

Parent == Start \/ Fork \/ SectionA("parent") \/ SectionC \/ Fgets \/ Wait \/ Exit("parent")
Child == SectionA("child") \/ SectionB \/ PipeStream \/ Dup2 \/ Execve \/ ExecveFails \/ Program
         \/ Exit("child")
Next == Parent \/ Child
Spec == Init /\ [][Next]_vars
FairSpec == Spec /\ WF_vars(Parent) /\ WF_vars(Child)

----------------------------------------------------------------------------
\* The words one process has written to the file.
Written(p) == [n \in 1 .. Len(SelectSeq(file, LAMBDA e : e[1] = p)) |->
                 SelectSeq(file, LAMBDA e : e[1] = p)[n][2]]

\* fork-output.txt is a merge of what the two processes write, nothing twice
\* and nothing lost, however they are scheduled; what the child still prints
\* after dup2 gets there unless execve throws stdout's buffer away.
FileMerged ==
    at["parent"] = "exited" =>
        /\ Written("parent") = <<"BEFORE FORK", "SECTION A", "SECTION C">>
        /\ IsPrefix(<<"SECTION A", "SECTION B">>, Written("child"))
        /\ arg = "runs" <=> Last(Written("child")) = "output"
        /\ tty \/ arg = "fails" =>
              (arg # "none" <=> <<"child", "Running exec">> \in ToSet(file))

\* The parent gets the child's line, whatever becomes of the child, unless the
\* child's process goes on as another program.
HelloArrives == buf # << >> /\ arg # "runs" => buf = <<"hello">>

\* Both processes end: nobody reads from a pipe whose other end it holds itself.
Ended == \A p \in Procs : at[p] = "exited"
BothEnd == <>Ended
=============================================================================
