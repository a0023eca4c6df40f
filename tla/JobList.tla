------------------------------ MODULE JobList ------------------------------
(***************************************************************************)
(* The job list of the shell (shell-lab2/tsh.c, struct job_t jobs[MAXJOBS] *)
(* and nextjid) and the helper routines that read and change it.  Every    *)
(* routine scans the slots in index order and acts on the first match.     *)
(* The process-group field and the command line of a slot are left out:    *)
(* no routine reads them to decide anything.                               *)
(***************************************************************************)
EXTENDS Integers, FiniteSets, FiniteSetsExt

CONSTANTS
    MaxJobs,   \* MAXJOBS, the number of slots (16 in the source)
    Pids,      \* the process ids the kernel hands out
    NoPid,     \* the pid of a free slot (0 in the source)
    MaxJid     \* bound of the model: no job is started beyond this job id

NoJid  == 0    \* the jid of a free slot
NoSlot == 0    \* the NULL that a lookup returns

ASSUME JobListAssumption ==
    /\ MaxJobs \in Nat \ {0}
    /\ MaxJid \in Nat \ {0}
    /\ NoPid \notin Pids

VARIABLES
    jobs,      \* the slots of the job list
    nextjid    \* the job id the next job gets

listVars == <<jobs, nextjid>>

Slots  == 1 .. MaxJobs
States == {"UNDEF", "FG", "BG", "ST"}
Job    == [pid: Pids \cup {NoPid}, jid: Nat, state: States]

ListTypeOK ==
    /\ jobs \in [Slots -> Job]
    /\ nextjid \in Nat \ {0}

----------------------------------------------------------------------------
(* The routines that read the list. *)

First(S) == IF S = {} THEN NoSlot ELSE Min(S)

PidSlots(p) == {s \in Slots : jobs[s].pid = p}
JidSlots(j) == {s \in Slots : jobs[s].jid = j}
FgSlots     == {s \in Slots : jobs[s].state = "FG"}

getjobpid(p) == IF p = NoPid THEN NoSlot ELSE First(PidSlots(p))
getjobjid(j) == IF j < 1 THEN NoSlot ELSE First(JidSlots(j))

\* Mutant: any job counts as the foreground job.
fgpid_AnyJob == IF Slots = PidSlots(NoPid) THEN NoPid
                ELSE jobs[Min(Slots \ PidSlots(NoPid))].pid
fgpid        == IF FgSlots = {} THEN NoPid ELSE jobs[Min(FgSlots)].pid
pid2jid(p)   == IF getjobpid(p) = NoSlot THEN NoJid ELSE jobs[getjobpid(p)].jid

\* The largest job id of a list; max starts at 0.
maxjid(list) == Max({list[s].jid : s \in Slots} \cup {0})

----------------------------------------------------------------------------
(* The routines that change it. *)

clearjob == [pid |-> NoPid, jid |-> NoJid, state |-> "UNDEF"]

initjobs ==
    /\ jobs = [s \in Slots |-> clearjob]
    /\ nextjid = 1

\* nextjid wraps when it passes the number of slots, whatever ids are in use.
addjob(p, st) ==
    \/ /\ PidSlots(NoPid) = {}
       /\ UNCHANGED listVars
    \/ /\ PidSlots(NoPid) # {}
       /\ jobs' = [jobs EXCEPT ![First(PidSlots(NoPid))] =
                     [pid |-> p, jid |-> nextjid, state |-> st]]
       /\ nextjid' = IF nextjid + 1 > MaxJobs THEN 1 ELSE nextjid + 1

\* Mutant: nextjid is set to the largest id in use, not to the one after it.
deletejob_NoIncrement(p) ==
    \/ /\ getjobpid(p) = NoSlot
       /\ UNCHANGED listVars
    \/ /\ getjobpid(p) # NoSlot
       /\ jobs' = [jobs EXCEPT ![getjobpid(p)] = clearjob]
       /\ nextjid' = maxjid(jobs')

deletejob(p) ==
    \/ /\ getjobpid(p) = NoSlot
       /\ UNCHANGED listVars
    \/ /\ getjobpid(p) # NoSlot
       /\ jobs' = [jobs EXCEPT ![getjobpid(p)] = clearjob]
       /\ nextjid' = maxjid(jobs') + 1

\* The assignment job->state = st through a pointer to slot s.
setstate(s, st) ==
    /\ jobs' = [jobs EXCEPT ![s].state = st]
    /\ UNCHANGED nextjid

----------------------------------------------------------------------------
(* The list on its own: background jobs start, with the pid of a new        *)
(* process, and end in any order.  (A job's state plays no part in its id.) *)

Listed == {jobs[s].pid : s \in Slots} \ {NoPid}

StartJob(p) ==
    /\ p \notin Listed
    /\ nextjid <= MaxJid
    /\ addjob(p, "BG")

EndJob(p) == p \in Listed /\ deletejob(p)

ListNext == \E p \in Pids : StartJob(p) \/ EndJob(p)

ListSpec == initjobs /\ [][ListNext]_listVars

(* A job id names one job, as getjobjid, the %jid argument of fg and bg and *)
(* the listing of jobs suppose.                                             *)
JidNamesOneJob ==
    \A s, t \in Slots :
        (jobs[s].jid = jobs[t].jid /\ jobs[s].jid # NoJid) => s = t
=============================================================================
