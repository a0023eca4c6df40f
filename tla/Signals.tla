------------------------------ MODULE Signals ------------------------------
(***************************************************************************)
(* The signal exercise (hw4-signals).  The target (signals.c) sleeps in a  *)
(* loop and has a handler for nearly every signal; killer.c sends it the   *)
(* signals of one scenario, with sleeps in between.  Handlers interrupt    *)
(* the loop and one another, so the target is a stack of frames, each with *)
(* the operation it is at, the signals it runs blocked with, and the time  *)
(* it sleeps until.  Time advances only when nobody can do anything at     *)
(* once; what happens at the same second happens in any order.             *)
(***************************************************************************)
EXTENDS Integers, SequencesExt

CONSTANTS
    Extra,          \* scripts to run besides those of killer.c
    SaMasks,        \* what sa_mask may hold: main never initialises it
    Iterations,     \* 30
    Garbage         \* the value of a status that no waitpid has set

Pid == 1000

\* The scenarios of killer.c.
kill(sig) == <<"kill", sig>>
sleep(n)  == <<"sleep", n>>
killer == <<
    << >>,
    <<kill("HUP"), sleep(5)>>,
    <<kill("HUP"), sleep(5), kill("HUP"), sleep(5)>>,
    <<kill("HUP"), sleep(1), kill("INT"), sleep(5)>>,
    <<kill("HUP"), sleep(5), kill("USR1"), sleep(1), kill("STKFLT"), sleep(1)>>,
    <<kill("HUP"), sleep(5), kill("SYS"), sleep(1), kill("USR1"), sleep(1), kill("PWR"), sleep(1),
      kill("TERM"), sleep(1)>>,
    <<kill("SYS"), sleep(1), kill("QUIT"), sleep(5), kill("SYS"), sleep(5)>> >>
Desired == << << >>, <<1, 2>>, <<1, 2, 1, 2>>, <<1, 1, 2, 2>>, <<1, 2, 7, 10>>, <<1, 2, 6>>, <<8, 9, 1, 2>> >>

\* The operations of main's loop and of the handlers.
Code == [
    main   |-> <<<<"check">>, <<"mask">>, sleep(1), <<"loop">>>>,
    HUP    |-> <<<<"print", 1>>, sleep(4), <<"print", 2>>>>,
    INT    |-> <<<<"print", 1>>, sleep(4), <<"print", 2>>>>,
    QUIT   |-> <<<<"print", 8>>, <<"raise">>, sleep(4), <<"print", 9>>>>,
    TERM   |-> <<<<"foo">>>>,
    PWR    |-> <<<<"six">>>>,
    USR1   |-> <<<<"fork">>>>,
    STKFLT |-> <<<<"poll">>>>,
    SYS    |-> <<<<"toggle">>>>,
    USR2   |-> <<<<"default">>>>,
    CHLD   |-> <<<<"wait">>>>]

VARIABLES
    script, k, wakes,   \* the killer: its script, its place there, when it wakes
    now,
    sa_mask,
    stack,              \* the target's frames, main's first; empty when it has exited
    pending,
    mask, i, foo, block,
    termDefault,        \* SIGTERM has its default action again
    running, zombies,   \* the target's children
    out,                \* what the target has printed
    missed              \* block was set behind the loop's look at it, before its sleep

killVars == <<script, k, wakes>>
loopVars == <<mask, i, foo, block, termDefault>>
kidVars  == <<running, zombies>>
vars == <<killVars, now, sa_mask, stack, pending, loopVars, kidVars, out, missed>>

Frame(what, blocked) == [what |-> what, pc |-> 1, blocked |-> blocked, until |-> 0]
Top == Last(stack)
Alive == stack # << >>
Op  == Code[Top.what][Top.pc]
At(op) == Alive /\ Op[1] = op

TypeOK ==
    /\ k \in 1 .. Len(script) + 1 /\ now \in Nat /\ wakes \in Nat
    /\ i \in 0 .. Iterations /\ block \in 0 .. 1
    /\ running \in Nat /\ zombies \in Nat /\ mask \subseteq DOMAIN Code
    /\ \A f \in ToSet(stack) : f.pc \in DOMAIN Code[f.what] /\ f.blocked \subseteq DOMAIN Code
    /\ Alive => stack[1].what = "main" /\ \A j \in 2 .. Len(stack) : stack[j].what # "main"

Init ==
    /\ script \in ToSet(killer) \cup Extra /\ k = 1 /\ wakes = 1 /\ now = 1
    /\ sa_mask \in SaMasks
    /\ stack = <<Frame("main", {})>> /\ pending = {} /\ mask = {} /\ i = 0
    /\ foo = -1 /\ block = 0 /\ termDefault = FALSE
    /\ running = 0 /\ zombies = 0 /\ out = << >> /\ missed = FALSE

----------------------------------------------------------------------------
KillerAwake == k <= Len(script) /\ wakes <= now

Kill ==
    /\ KillerAwake /\ script[k][1] = "kill"
    /\ pending' = IF Alive THEN pending \cup {script[k][2]} ELSE pending
    /\ k' = k + 1
    /\ UNCHANGED <<script, wakes, now, sa_mask, stack, loopVars, kidVars, out, missed>>

KillerSleeps ==
    /\ KillerAwake /\ script[k][1] = "sleep"
    /\ wakes' = now + script[k][2] /\ k' = k + 1
    /\ UNCHANGED <<script, now, sa_mask, stack, pending, loopVars, kidVars, out, missed>>

\* A signal ends the sleep, and the wait for a child that has not exited, that it
\* interrupts (the wait's until, not 0, says so); its handler runs with it blocked.
Waits == At("wait") /\ running > 0 /\ zombies = 0
Interrupted == [stack EXCEPT ![Len(stack)].until = IF Waits THEN now ELSE Min({@, now})]
Handling(sig) == Append(Interrupted, Frame(sig, Top.blocked \cup {sig} \cup sa_mask))

Deliver(sig) ==
    /\ Alive /\ sig \in pending \ Top.blocked
    /\ pending' = pending \ {sig}
    /\ stack' = IF sig = "TERM" /\ termDefault THEN << >> ELSE Handling(sig)
    /\ UNCHANGED <<killVars, now, sa_mask, loopVars, kidVars, out, missed>>

\* The next operation, or the return to what was interrupted.
Advanced(s) ==
    IF s[Len(s)].pc < Len(Code[s[Len(s)].what])
    THEN [s EXCEPT ![Len(s)].pc = @ + 1, ![Len(s)].until = 0]
    ELSE Front(s)
Advances == stack' = Advanced(stack)

----------------------------------------------------------------------------
\* main's loop.  Mutant: a set block keeps only SIGINT away.
CheckBlock_Int ==
    /\ At("check") /\ Advances
    /\ mask' = IF block = 1 THEN {"INT"} ELSE {}
    /\ UNCHANGED <<killVars, now, sa_mask, pending, i, foo, block, termDefault, kidVars, out, missed>>

CheckBlock ==
    /\ At("check") /\ Advances
    /\ mask' = IF block = 1 THEN {"INT", "CHLD"} ELSE {}
    /\ UNCHANGED <<killVars, now, sa_mask, pending, i, foo, block, termDefault, kidVars, out, missed>>

SetMask ==
    /\ At("mask")
    /\ stack' = Advanced([stack EXCEPT ![1].blocked = mask])
    /\ UNCHANGED <<killVars, now, sa_mask, pending, loopVars, kidVars, out, missed>>

Loop ==
    /\ At("loop") /\ i' = i + 1
    /\ stack' = IF i' < Iterations THEN [stack EXCEPT ![1].pc = 1, ![1].until = 0] ELSE << >>
    /\ UNCHANGED <<killVars, now, sa_mask, pending, mask, foo, block, termDefault, kidVars, out, missed>>

\* sleep, of the loop and of the handlers.
SleepBegins ==
    /\ At("sleep") /\ Top.until = 0
    /\ stack' = [stack EXCEPT ![Len(stack)].until = now + Op[2]]
    /\ UNCHANGED <<killVars, now, sa_mask, pending, loopVars, kidVars, out, missed>>
SleepEnds ==
    /\ At("sleep") /\ Top.until \in 1 .. now /\ Advances
    /\ UNCHANGED <<killVars, now, sa_mask, pending, loopVars, kidVars, out, missed>>

----------------------------------------------------------------------------
\* The handlers.  printf:
Prints ==
    /\ Alive /\ Op[1] \in {"print", "foo"} /\ Advances
    /\ out' = Append(out, IF Op[1] = "foo" THEN foo ELSE Op[2])
    /\ UNCHANGED <<killVars, now, sa_mask, pending, loopVars, kidVars, missed>>

\* kill(getpid(), SIGINT): handled before it returns, unless it is blocked.
Raise ==
    /\ At("raise")
    /\ IF "INT" \in Top.blocked
       THEN pending' = pending \cup {"INT"} /\ Advances
       ELSE /\ stack' = Append(Advanced(stack), Frame("INT", Top.blocked \cup {"INT"} \cup sa_mask))
            /\ UNCHANGED pending
    /\ UNCHANGED <<killVars, now, sa_mask, loopVars, kidVars, out, missed>>

sig_handler4 ==
    /\ At("six") /\ Advances
    /\ foo' = IF foo > 0 THEN 6 ELSE foo
    /\ UNCHANGED <<killVars, now, sa_mask, pending, mask, i, block, termDefault, kidVars, out, missed>>

\* fork; the child exits at once, with 7.
sig_handler5 ==
    /\ At("fork") /\ Advances
    /\ foo' = Pid /\ running' = running + 1
    /\ UNCHANGED <<killVars, now, sa_mask, pending, mask, i, block, termDefault, zombies, out, missed>>

ChildExits ==
    /\ running > 0 /\ running' = running - 1
    /\ zombies' = IF Alive THEN zombies + 1 ELSE zombies
    /\ pending' = IF Alive THEN pending \cup {"CHLD"} ELSE pending
    /\ UNCHANGED <<killVars, now, sa_mask, stack, loopVars, out, missed>>

Reaps == zombies > 0 /\ zombies' = zombies - 1
NoChild == running = 0 /\ zombies = 0

\* waitpid(WNOHANG), and 10 (ECHILD) if there is no child.
sig_handler6 ==
    /\ At("poll") /\ Advances
    /\ \/ Reaps /\ UNCHANGED out
       \/ running > 0 /\ zombies = 0 /\ UNCHANGED <<zombies, out>>
       \/ NoChild /\ out' = Append(out, 10) /\ UNCHANGED zombies
    /\ UNCHANGED <<killVars, now, sa_mask, pending, loopVars, running, missed>>

sig_handler7 ==
    /\ At("toggle") /\ Advances
    /\ block' = 1 - block
    /\ missed' = (missed \/ (block = 0 /\ stack[1].pc \in {2, 3} /\ stack[1].until = 0))
    /\ UNCHANGED <<killVars, now, sa_mask, pending, mask, i, foo, termDefault, kidVars, out>>

sig_handler8 ==
    /\ At("default") /\ Advances
    /\ termDefault' = TRUE
    /\ UNCHANGED <<killVars, now, sa_mask, pending, mask, i, foo, block, kidVars, out, missed>>

\* waitpid without WNOHANG; where it fails, as there is no child or as a handler
\* came between (unless that was before the call), status is not set.
sig_handler9 ==
    /\ At("wait") /\ Advances
    /\ \/ Reaps /\ out' = Append(out, 7)
       \/ (NoChild \/ Top.until > 0) /\ out' = Append(out, Garbage) /\ UNCHANGED zombies
    /\ UNCHANGED <<killVars, now, sa_mask, pending, loopVars, running, missed>>

----------------------------------------------------------------------------
Urgent ==
    \/ KillerAwake \/ running > 0
    \/ Alive /\ (pending \ Top.blocked # {} \/ ~ (Op[1] = "sleep" /\ Top.until > now))
Tick ==
    /\ ~ Urgent /\ (Alive \/ k <= Len(script))
    /\ now' = now + 1
    /\ UNCHANGED <<killVars, sa_mask, stack, pending, loopVars, kidVars, out, missed>>

Step ==
    \/ Kill \/ KillerSleeps \/ CheckBlock \/ SetMask \/ Loop \/ SleepBegins \/ SleepEnds \/ Prints
    \/ Raise \/ sig_handler4 \/ sig_handler5 \/ sig_handler6 \/ sig_handler7 \/ sig_handler8
    \/ sig_handler9 \/ ChildExits \/ Tick
    \/ \E sig \in DOMAIN Code : Deliver(sig)
Next == Step
Spec == Init /\ [][Next]_vars
FairSpec == Spec /\ WF_vars(Step)

----------------------------------------------------------------------------
\* Each scenario of killer.c gives the output that hw4-spec.md desires, whatever
\* happens within the same second, unless block was set between the loop's look
\* at it and its sleep (signals.c:142-147): the signal then does not end the
\* sleep, and the mask is a second late.
Scenario == {n \in DOMAIN killer : killer[n] = script}
DesiredOutput ==
    ~ missed => \A n \in Scenario :
        /\ IsPrefix(out, Desired[n])
        /\ ~ Alive => out = Desired[n]

\* The target ends: no wait for a child that another handler has reaped, and no
\* interrupted sleep, keeps it.
Ended == ~ Alive
TargetEnds == <>Ended
=============================================================================
