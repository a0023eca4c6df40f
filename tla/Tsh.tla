-------------------------------- MODULE Tsh --------------------------------
(***************************************************************************)
(* The job-control shell of shell-lab2/tsh.c: the main loop (eval, the fg  *)
(* and bg builtins, waitfg), its three signal handlers, the children it    *)
(* forks and the kernel that carries signals between them.                 *)
(*                                                                         *)
(* The shell is one thread.  A handler is a procedure the kernel pushes on *)
(* the thread's stack between any two steps: only the handler on top runs, *)
(* and the main program runs only when no handler is active.  A handler    *)
(* does not interrupt itself, but the others may interrupt it (Signal()    *)
(* installs them with an empty mask).                                      *)
(***************************************************************************)
EXTENDS JobList, Sequences

VARIABLES
    shell,     \* how the shell stands: "up", or how it ended
    pc,        \* where the main program is
    want,      \* the state eval or do_bgfg gives the job at hand
    slot,      \* do_bgfg's pointer job
    pid,       \* eval's cpid, do_bgfg's pid, waitfg's argument
    blocked,   \* SIGCHLD is in the signal mask
    pending,   \* SIGCHLD is pending (signals of a kind do not queue)
    stack,     \* the active handlers, the running one first
    chld,      \* sigchld_handler: where it is, and the pid waitpid gave it
    tty,       \* the pid that sigint_handler and sigtstp_handler read
    proc       \* the process behind each pid

mainVars == <<pc, want, slot, pid, blocked>>
handlerVars == <<stack, chld, tty>>
vars == <<jobs, nextjid, shell, mainVars, pending, handlerVars, proc>>

TtySignals == {"int", "tstp"}

(***************************************************************************)
(* What the kernel knows of a pid: "none" (free, or reaped), "child"       *)
(* (forked, has not called execve), "program" (runs the command),          *)
(* "stopped" (and the shell was not told yet), "halted" (stopped, and the  *)
(* shell was told), "failed" (ended without a successful execve) and       *)
(* "zombie" (ended after it).                                              *)
(***************************************************************************)
ProcStates == {"none", "child", "program", "stopped", "halted", "failed", "zombie"}
Dead       == {"failed", "zombie"}
Reportable == {p \in Pids : proc[p] \in Dead \cup {"stopped"}}

TypeOK ==
    /\ ListTypeOK
    /\ shell \in {"up", "exited", "failed", "crashed"}
    /\ pc \in {"prompt", "setpgid", "addjob", "announce", "waitfg",
               "jid_pid", "jid_set", "jid_kill", "pid_kill", "pid_set", "call_wait"}
    /\ want \in {"none", "FG", "BG"}
    /\ slot \in Slots \cup {NoSlot}
    /\ pid \in Pids \cup {NoPid}
    /\ blocked \in BOOLEAN
    /\ pending \in BOOLEAN
    /\ stack \in Seq({"chld"} \cup TtySignals)
    /\ chld \in [at: {"idle", "wait", "stop", "term"}, pid: Pids \cup {NoPid}]
    /\ tty \in [TtySignals -> Pids \cup {NoPid}]
    /\ proc \in [Pids -> ProcStates]

NoChld == [at |-> "idle", pid |-> NoPid]

Init ==
    /\ initjobs
    /\ shell = "up"
    /\ pc = "prompt" /\ want = "none" /\ slot = NoSlot /\ pid = NoPid
    /\ blocked = FALSE
    /\ pending = FALSE
    /\ stack = <<>>
    /\ chld = NoChld
    /\ tty = [h \in TtySignals |-> NoPid]
    /\ proc = [p \in Pids |-> "none"]

MainRuns == shell = "up" /\ stack = <<>>
Runs(h)  == shell = "up" /\ stack # <<>> /\ Head(stack) = h
Active   == {stack[i] : i \in DOMAIN stack}

----------------------------------------------------------------------------
(* The kernel's side of kill(). *)

\* kill(-p, SIGCONT).  The kernel tells the parent of the continue with a
\* SIGCHLD, though waitpid (without WCONTINUED) has nothing to report; a stop
\* that was not reported yet is forgotten.  kill(0, SIGCONT) reaches the
\* shell's own group only, and kill of a pid that is gone fails.
Continue(p) ==
    IF p \in Pids /\ proc[p] \in {"stopped", "halted"}
      THEN proc' = [proc EXCEPT ![p] = "program"] /\ pending' = TRUE
      ELSE UNCHANGED <<proc, pending>>

\* kill(-p, SIGINT) or kill(-p, SIGTSTP).  A program may obey or ignore it.  A
\* child before its execve still has the shell's handlers and swallows it; to
\* a stopped process a SIGINT stays pending, and takes effect when it runs.
Interrupt(p, h) ==
    \/ /\ p \in Pids /\ proc[p] = "program"
       /\ proc' = [proc EXCEPT ![p] = IF h = "int" THEN "zombie" ELSE "stopped"]
       /\ pending' = TRUE
    \/ UNCHANGED <<proc, pending>>

----------------------------------------------------------------------------
(* The main program. *)

BackToPrompt ==
    pc' = "prompt" /\ want' = "none" /\ slot' = NoSlot /\ pid' = NoPid

ShellEnds(how) ==
    /\ shell' = how
    /\ UNCHANGED <<listVars, mainVars, pending, handlerVars, proc>>

\* quit, and end of file on stdin.
Quit == MainRuns /\ pc = "prompt" /\ ShellEnds("exited")

\* Mutant: SIGCHLD is not blocked before the fork.
EvalFork_NoBlock(w, p) ==
    /\ MainRuns /\ pc = "prompt"
    /\ nextjid <= MaxJid
    /\ proc[p] = "none"
    /\ pc' = "setpgid" /\ want' = w /\ pid' = p
    /\ proc' = [proc EXCEPT ![p] = "child"]
    /\ UNCHANGED <<listVars, shell, slot, blocked, pending, handlerVars>>

\* eval: block SIGCHLD and fork.  MaxJid bounds the model, not the shell.
EvalFork(w, p) ==
    /\ MainRuns /\ pc = "prompt"
    /\ nextjid <= MaxJid
    /\ proc[p] = "none"
    /\ pc' = "setpgid" /\ want' = w /\ pid' = p
    /\ blocked' = TRUE
    /\ proc' = [proc EXCEPT ![p] = "child"]
    /\ UNCHANGED <<listVars, shell, slot, pending, handlerVars>>

\* Fork() reports an error and exits.
EvalForkFails == MainRuns /\ pc = "prompt" /\ ShellEnds("failed")

\* Setpgid(cpid, 0) in the parent: fails with EACCES once the child has
\* executed its program, and the wrapper exits.
EvalSetpgid ==
    /\ MainRuns /\ pc = "setpgid"
    /\ \/ /\ proc[pid] \in {"child", "failed"}
          /\ pc' = "addjob"
          /\ UNCHANGED <<listVars, shell, want, slot, pid, blocked, pending, handlerVars, proc>>
       \/ /\ proc[pid] \notin {"child", "failed"}
          /\ ShellEnds("failed")

\* Mutant: SIGCHLD stays blocked.
EvalAddjob_NoUnblock ==
    /\ MainRuns /\ pc = "addjob"
    /\ addjob(pid, want)
    /\ pc' = IF want = "BG" THEN "announce" ELSE "waitfg"
    /\ UNCHANGED <<shell, want, slot, pid, blocked, pending, handlerVars, proc>>

EvalAddjob ==
    /\ MainRuns /\ pc = "addjob"
    /\ addjob(pid, want)
    /\ blocked' = FALSE
    /\ pc' = IF want = "BG" THEN "announce" ELSE "waitfg"
    /\ UNCHANGED <<shell, want, slot, pid, pending, handlerVars, proc>>

\* The line "[jid] (pid) command" of a background job, printed after SIGCHLD
\* is unblocked.
EvalAnnounce ==
    /\ MainRuns /\ pc = "announce"
    /\ pc' = "waitfg"
    /\ UNCHANGED <<listVars, shell, want, slot, pid, blocked, pending, handlerVars, proc>>

\* Mutant: eval and do_bgfg return without waiting.
WaitfgReturns_AtOnce ==
    /\ MainRuns /\ pc = "waitfg"
    /\ BackToPrompt
    /\ UNCHANGED <<listVars, shell, blocked, pending, handlerVars, proc>>

\* The loop of waitfg ends when its argument is not the foreground pid.
WaitfgReturns ==
    /\ MainRuns /\ pc = "waitfg"
    /\ fgpid # pid
    /\ BackToPrompt
    /\ UNCHANGED <<listVars, shell, blocked, pending, handlerVars, proc>>

----------------------------------------------------------------------------
(* fg and bg.  With %jid the state is set before SIGCONT is sent, with a    *)
(* pid after; a handler may clear or change the slot between any two steps. *)

Goto(l) ==
    /\ pc' = l
    /\ UNCHANGED <<want, slot>>

\* Mutant: fg does not wait either.
Proceed_NoWait(l) == want \in {"FG", "BG"} /\ BackToPrompt

\* After bg the prompt returns, after fg the shell waits.
Proceed(l) ==
    \/ want = "FG" /\ Goto(l) /\ UNCHANGED pid
    \/ want = "BG" /\ BackToPrompt

FindByJid(w, j) ==
    /\ MainRuns /\ pc = "prompt"
    /\ getjobjid(j) # NoSlot
    /\ pc' = "jid_pid" /\ want' = w /\ slot' = getjobjid(j)
    /\ UNCHANGED <<listVars, shell, pid, blocked, pending, handlerVars, proc>>

JidReadPid ==
    /\ MainRuns /\ pc = "jid_pid"
    /\ pid' = jobs[slot].pid
    /\ Goto("jid_set")
    /\ UNCHANGED <<listVars, shell, blocked, pending, handlerVars, proc>>

JidSetState ==
    /\ MainRuns /\ pc = "jid_set"
    /\ setstate(slot, want)
    /\ Goto("jid_kill")
    /\ UNCHANGED <<shell, pid, blocked, pending, handlerVars, proc>>

JidKill ==
    /\ MainRuns /\ pc = "jid_kill"
    /\ Continue(pid)
    /\ Proceed("call_wait")
    /\ UNCHANGED <<listVars, shell, blocked, handlerVars>>

FindByPid(w, p) ==
    /\ MainRuns /\ pc = "prompt"
    /\ getjobpid(p) # NoSlot
    /\ pc' = "pid_kill" /\ want' = w /\ slot' = getjobpid(p) /\ pid' = p
    /\ UNCHANGED <<listVars, shell, blocked, pending, handlerVars, proc>>

PidKill ==
    /\ MainRuns /\ pc = "pid_kill"
    /\ Continue(pid)
    /\ Goto("pid_set")
    /\ UNCHANGED <<listVars, shell, pid, blocked, handlerVars>>

PidSetState ==
    /\ MainRuns /\ pc = "pid_set"
    /\ setstate(slot, want)
    /\ Proceed("call_wait")
    /\ UNCHANGED <<shell, blocked, pending, handlerVars, proc>>

\* waitfg(job->pid): the pid is read again, from a slot that may be clear.
CallWait ==
    /\ MainRuns /\ pc = "call_wait"
    /\ pid' = jobs[slot].pid
    /\ Goto("waitfg")
    /\ UNCHANGED <<listVars, shell, blocked, pending, handlerVars, proc>>

----------------------------------------------------------------------------
(* The handlers. *)

Return == stack' = Tail(stack)

ChldDelivered ==
    /\ shell = "up" /\ pending /\ ~blocked /\ "chld" \notin Active
    /\ pending' = FALSE
    /\ stack' = <<"chld">> \o stack
    /\ chld' = [at |-> "wait", pid |-> NoPid]
    /\ UNCHANGED <<listVars, shell, mainVars, tty, proc>>

\* waitpid(-1, &status, WNOHANG | WUNTRACED) > 0: any child with news.
ChldWaitpid(p) ==
    /\ Runs("chld") /\ chld.at = "wait"
    /\ p \in Reportable
    /\ \/ /\ proc[p] = "stopped"
          /\ proc' = [proc EXCEPT ![p] = "halted"]
          /\ chld' = [at |-> "stop", pid |-> p]
       \/ /\ proc[p] \in Dead
          /\ proc' = [proc EXCEPT ![p] = "none"]
          /\ chld' = [at |-> "term", pid |-> p]
    /\ UNCHANGED <<listVars, shell, mainVars, pending, stack, tty>>

\* Mutant: "if" where the source has "while", one child per signal.
ChldNoMore_OneOnly ==
    /\ Runs("chld") /\ chld.at = "wait"
    /\ Return
    /\ chld' = NoChld
    /\ UNCHANGED <<listVars, shell, mainVars, pending, tty, proc>>

ChldNoMore ==
    /\ Runs("chld") /\ chld.at = "wait"
    /\ Reportable = {}
    /\ Return
    /\ chld' = NoChld
    /\ UNCHANGED <<listVars, shell, mainVars, pending, tty, proc>>

\* getjobpid returns NULL for a child that found the list full.
ChldStopped ==
    /\ Runs("chld") /\ chld.at = "stop"
    /\ \/ /\ getjobpid(chld.pid) # NoSlot
          /\ setstate(getjobpid(chld.pid), "ST")
          /\ chld' = [at |-> "wait", pid |-> NoPid]
          /\ UNCHANGED <<shell, mainVars, pending, stack, tty, proc>>
       \/ /\ getjobpid(chld.pid) = NoSlot
          /\ ShellEnds("crashed")

ChldTerminated ==
    /\ Runs("chld") /\ chld.at = "term"
    /\ deletejob(chld.pid)
    /\ chld' = [at |-> "wait", pid |-> NoPid]
    /\ UNCHANGED <<shell, mainVars, pending, stack, tty, proc>>

\* sigint_handler and sigtstp_handler read the foreground pid, and return at
\* once if there is none...
TtyCaught(h) ==
    /\ shell = "up" /\ h \notin Active
    /\ fgpid # NoPid
    /\ stack' = <<h>> \o stack
    /\ tty' = [tty EXCEPT ![h] = fgpid]
    /\ UNCHANGED <<listVars, shell, mainVars, pending, chld, proc>>

\* ... and forward the signal to its process group.
TtyForwarded(h) ==
    /\ Runs(h)
    /\ Interrupt(tty[h], h)
    /\ Return
    /\ tty' = [tty EXCEPT ![h] = NoPid]
    /\ UNCHANGED <<listVars, shell, mainVars, chld>>

\* sigquit_handler exits.
QuitCaught == shell = "up" /\ ShellEnds("exited")

----------------------------------------------------------------------------
(* The children. *)

ChildSteps(p, from, to) ==
    /\ shell = "up"
    /\ proc[p] \in from
    /\ proc' = [proc EXCEPT ![p] = to]
    /\ UNCHANGED <<listVars, shell, mainVars, handlerVars>>

Exec(p)      == ChildSteps(p, {"child"}, "program") /\ UNCHANGED pending
ExecFails(p) == ChildSteps(p, {"child"}, "failed") /\ pending' = TRUE
Ends(p)      == ChildSteps(p, {"program", "stopped", "halted"}, "zombie") /\ pending' = TRUE
Stops(p)     == ChildSteps(p, {"program"}, "stopped") /\ pending' = TRUE

----------------------------------------------------------------------------
(* The steps that need no user: those the shell must take. *)
MainStep ==
    \/ EvalSetpgid \/ EvalAddjob \/ EvalAnnounce \/ WaitfgReturns
    \/ JidReadPid \/ JidSetState \/ JidKill
    \/ PidKill \/ PidSetState \/ CallWait

ChldStep ==
    \/ \E p \in Pids : ChldWaitpid(p)
    \/ ChldNoMore \/ ChldStopped \/ ChldTerminated

UserStep ==
    \/ Quit \/ EvalForkFails \/ QuitCaught
    \/ \E w \in {"FG", "BG"} :
         \/ \E p \in Pids : EvalFork(w, p) \/ FindByPid(w, p)
         \/ \E j \in 1 .. MaxJid : FindByJid(w, j)
    \/ \E h \in TtySignals : TtyCaught(h)

ChildStep == \E p \in Pids : Exec(p) \/ ExecFails(p) \/ Ends(p) \/ Stops(p)

Next ==
    \/ MainStep
    \/ ChldDelivered \/ ChldStep
    \/ \E h \in TtySignals : TtyForwarded(h)
    \/ UserStep
    \/ ChildStep

Spec == Init /\ [][Next]_vars

(***************************************************************************)
(* The thread runs, so the handler on top proceeds, and the main program   *)
(* when there is none; a handler that returns gives the thread back to     *)
(* what it interrupted, and the kernel delivers a pending SIGCHLD when it  *)
(* finds it unblocked.  The fairness is strong because each of these steps *)
(* is disabled while a handler runs, which can happen again and again.     *)
(* Users and children are under no obligation.                             *)
(***************************************************************************)
Fairness ==
    /\ SF_vars(MainStep)
    /\ SF_vars(ChldDelivered)
    /\ SF_vars(ChldStep)
    /\ \A h \in TtySignals : SF_vars(TtyForwarded(h))

FairSpec == Spec /\ Fairness

----------------------------------------------------------------------------
(* Safety. *)

(* A pid on the job list is that of a child the shell has not reaped, or of *)
(* the child whose end sigchld_handler is about to record: eval blocks      *)
(* SIGCHLD from before the fork to after addjob so that no job is listed    *)
(* after its process is gone.                                               *)
ListedJobsUnreaped ==
    \A s \in Slots : jobs[s].pid # NoPid =>
        \/ proc[jobs[s].pid] # "none"
        \/ chld = [at |-> "term", pid |-> jobs[s].pid]

(* One SIGCHLD may stand for many children; the loop in sigchld_handler     *)
(* makes up for it.  While a child has news, a SIGCHLD is pending or the    *)
(* handler is in its loop.                                                  *)
NoLostChildSignal ==
    shell = "up" /\ Reportable # {} => pending \/ chld.at # "idle"

(* "At most 1 job can be in the FG state."                                  *)
AtMostOneFg == \A s, t \in FgSlots : s = t

(* What ctrl-c and ctrl-z reach is never a job the list shows in the        *)
(* background, however the handlers nest between the read of the foreground *)
(* pid and the kill.                                                        *)
BackgroundUntouched ==
    \A h \in TtySignals, s \in Slots :
        tty[h] # NoPid /\ jobs[s].pid = tty[h] => jobs[s].state # "BG"

----------------------------------------------------------------------------
(* The job control the shell promises; see JobControl. *)

JobState(p) == IF PidSlots(p) = {} THEN "none" ELSE jobs[Min(PidSlots(p))].state

Shown == [p \in Pids |-> JobState(p)]

Promise == INSTANCE JobControl WITH Jobs <- Pids, st <- Shown

(* The job list changes only by the transitions of the header comment of    *)
(* tsh.c, a new foreground job waits for the old one to leave.              *)
ImplementsJobControl == Promise!Spec

----------------------------------------------------------------------------
(* Liveness, under FairSpec. *)

Up == shell = "up"

(* A child that ended is reaped, whatever else the shell is doing.          *)
ChildrenReaped ==
    \A p \in Pids : (Up /\ proc[p] \in Dead) ~> (~Up \/ proc[p] \notin Dead)

(* waitfg on the pid of a child that has ended returns.                     *)
PromptComesBack ==
    \A p \in Pids :
        (Up /\ pc = "waitfg" /\ pid = p /\ proc[p] \in Dead \cup {"none"})
            ~> (~Up \/ pc # "waitfg")

----------------------------------------------------------------------------
(* What the comments of tsh.c say and the shell does not do. *)

(* waitfg blocks until its argument is no longer the foreground process: it *)
(* returns when there is no such process, or it is stopped.                 *)
WaitfgEnds ==
    (Up /\ pc = "waitfg" /\ (pid = NoPid \/ proc[pid] \notin {"child", "program"}))
        ~> (~Up \/ pc # "waitfg")

(* At the prompt, with no news from any child outstanding, the list shows a *)
(* stopped job as stopped and a running one as running.                     *)
Quiescent == shell = "up" /\ pc = "prompt" /\ stack = <<>> /\ Reportable = {} /\ ~pending
StateMatchesProcess ==
    Quiescent => \A s \in Slots : jobs[s].pid # NoPid =>
        (jobs[s].state = "ST" <=> proc[jobs[s].pid] = "halted")
=============================================================================
