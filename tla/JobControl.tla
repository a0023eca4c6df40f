----------------------------- MODULE JobControl -----------------------------
(***************************************************************************)
(* What the shell promises of its jobs, after the header comment of        *)
(* shell-lab2/tsh.c: a job is in the foreground (FG), in the background    *)
(* (BG) or stopped (ST); at most one is in the foreground; a job that left *)
(* the foreground enters it again only by the fg command.                  *)
(***************************************************************************)
CONSTANT Jobs

VARIABLE st     \* the state of each job; "none" when there is no such job

JobStates == {"FG", "BG", "ST"}

NoForeground == \A j \in Jobs : st[j] # "FG"

Init == st = [j \in Jobs |-> "none"]

\* A command line starts a job; the next line is read when it has left the
\* foreground, so there is no other foreground job.
Start(j, s) ==
    /\ NoForeground
    /\ st[j] = "none" /\ s \in {"FG", "BG"}
    /\ st' = [st EXCEPT ![j] = s]

\* ctrl-z, or a stop signal from elsewhere.
Stop(j) ==
    /\ st[j] \in {"FG", "BG"}
    /\ st' = [st EXCEPT ![j] = "ST"]

\* The fg and bg commands, likewise without a foreground job.
Resume(j, s) ==
    /\ NoForeground
    /\ st[j] \in {"BG", "ST"} /\ s \in {"FG", "BG"}
    /\ st' = [st EXCEPT ![j] = s]

End(j) ==
    /\ st[j] # "none"
    /\ st' = [st EXCEPT ![j] = "none"]

Next == \E j \in Jobs : \/ \E s \in {"FG", "BG"} : Start(j, s) \/ Resume(j, s)
                        \/ Stop(j)
                        \/ End(j)

Spec == Init /\ [][Next]_st
=============================================================================
