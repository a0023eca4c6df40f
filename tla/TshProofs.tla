----------------------------- MODULE TshProofs -----------------------------
(***************************************************************************)
(* What the routines of the job list return and preserve, for a list of    *)
(* any length, and the shell, for any number of job slots and any set of   *)
(* process ids.  The safety properties of Tsh are consequences of one      *)
(* inductive invariant, Inv, proved in layers: the types and the control   *)
(* state, then the signals, then the job list.                             *)
(***************************************************************************)
EXTENDS Tsh, Lemmas

----------------------------------------------------------------------------
(* The routines of the job list. *)

(* A set of natural numbers with an upper bound has a greatest element.     *)
LEMMA NatMax ==
    ASSUME NEW S, S \subseteq Nat, S # {},
           NEW b \in Nat, \A x \in S : x <= b
    PROVE  Max(S) \in S /\ \A x \in S : x <= Max(S)
<1> DEFINE T == {b - x : x \in S}
<1>1. T \subseteq Nat /\ T # {}
  <2>1. \A x \in S : x \in Nat /\ b - x \in Nat
    OBVIOUS
  <2>2. PICK x \in S : TRUE
    OBVIOUS
  <2> QED  BY <2>1, <2>2
<1>2. Min(T) \in T /\ \A y \in T : Min(T) <= y
  <2> HIDE DEF T
  <2> QED  BY <1>1, MinOfNats
<1>3. PICK m \in S : Min(T) = b - m
  BY <1>2
<1>4. \A x \in S : m >= x
  <2> SUFFICES ASSUME NEW x \in S PROVE m >= x
    OBVIOUS
  <2>1. b - x \in T
    OBVIOUS
  <2>2. b - m <= b - x
    BY <1>2, <1>3, <2>1
  <2>3. m \in Nat /\ x \in Nat
    OBVIOUS
  <2> HIDE DEF T
  <2> QED  BY <2>2, <2>3
<1> QED
  BY <1>4 DEF Max

(* Finitely many natural numbers have an upper bound: no least number of    *)
(* slots is without one.                                                    *)
LEMMA Bounded ==
    ASSUME NEW n \in Nat, NEW f \in [1 .. n -> Nat]
    PROVE  \E b \in Nat : \A i \in 1 .. n : f[i] <= b
<1> DEFINE HasBound(k) == \E b \in Nat : \A i \in 1 .. n : i <= k => f[i] <= b
           Without == {k \in Nat : ~ HasBound(k)}
<1>1. ASSUME Without # {} PROVE FALSE
  <2>1. Min(Without) \in Without /\ \A k \in Without : Min(Without) <= k
    BY <1>1, MinOfNats
  <2>2. PICK k \in Without : \A l \in Without : k <= l
    BY <2>1
  <2>3. k # 0
    <3>1. \A i \in 1 .. n : ~ (i <= 0)
      OBVIOUS
    <3>2. HasBound(0)
      BY <3>1
    <3> QED  BY <2>2, <3>2
  <2>4. PICK b \in Nat : \A i \in 1 .. n : i <= k - 1 => f[i] <= b
    <3>1. k - 1 \in Nat /\ ~ (k <= k - 1)
      BY <2>2, <2>3
    <3>2. k - 1 \notin Without
      BY <2>2, <3>1
    <3>3. HasBound(k - 1)
      BY <3>1, <3>2
    <3> QED  BY <3>3
  <2>5. CASE k \in 1 .. n
    <3>1. f[k] \in Nat /\ b \in Nat
      BY <2>4, <2>5
    <3>2. PICK c \in Nat : b <= c /\ f[k] <= c
      <4>1. \A x, y \in Nat : x + y \in Nat /\ x <= x + y /\ y <= x + y
        OBVIOUS
      <4> QED  BY <3>1, <4>1
    <3>3. ASSUME NEW i \in 1 .. n, i <= k PROVE f[i] <= c
      <4>1. CASE i = k
        BY <3>2, <4>1
      <4>2. CASE i # k
        <5>1. i <= k - 1
          BY <2>5, <3>3, <4>2
        <5>2. f[i] <= b /\ f[i] \in Nat
          BY <2>4, <5>1
        <5> QED  BY <3>1, <3>2, <5>2
      <4> QED  BY <4>1, <4>2
    <3>4. HasBound(k)
      BY <3>2, <3>3
    <3> QED  BY <2>2, <3>4
  <2>6. CASE k \notin 1 .. n
    BY <2>2, <2>4, <2>6
  <2> QED  BY <2>5, <2>6
<1>2. HasBound(n)
  BY <1>1
<1> QED
  BY <1>2

(* maxjid returns a natural number.                                         *)
LEMMA MaxjidType ==
    ASSUME NEW list \in [Slots -> Job]
    PROVE  maxjid(list) \in Nat
<1> DEFINE jids == {list[s].jid : s \in Slots} \cup {0}
           f == [s \in 1 .. MaxJobs |-> list[s].jid]
<1>1. f \in [1 .. MaxJobs -> Nat]
  BY DEF Slots, Job
<1>2. PICK b \in Nat : \A s \in 1 .. MaxJobs : f[s] <= b
  <2> HIDE DEF f
  <2> QED  BY <1>1, Bounded, JobListAssumption
<1>3. jids \subseteq Nat /\ jids # {} /\ \A j \in jids : j <= b
  BY <1>2 DEF Slots, Job
<1>4. Max(jids) \in jids
  <2> HIDE DEF jids
  <2> QED  BY <1>3, NatMax
<1> QED
  BY <1>3, <1>4 DEF maxjid

(* A scan stops at a slot that matches, if there is one.                    *)
LEMMA FirstType ==
    ASSUME NEW S, S \subseteq Slots
    PROVE  /\ First(S) \in S \cup {NoSlot}
           /\ First(S) = NoSlot <=> S = {}
           /\ S # {} => Min(S) \in S
<1>1. S \subseteq Nat /\ NoSlot \notin S
  BY JobListAssumption DEF Slots, NoSlot
<1> QED
  BY <1>1, MinOfNats DEF First

----------------------------------------------------------------------------
(* What the routines do to the list. *)

(* addjob fills a free slot or, if there is none, changes nothing.          *)
LEMMA AddjobEffect ==
    ASSUME ListTypeOK, NEW p \in Pids, NEW st \in States, addjob(p, st)
    PROVE  /\ ListTypeOK'
           /\ \/ jobs' = jobs
              \/ \E s \in Slots :
                   /\ jobs[s].pid = NoPid
                   /\ jobs' = [jobs EXCEPT ![s] = [pid |-> p, jid |-> nextjid, state |-> st]]
<1>1. CASE UNCHANGED listVars
  BY <1>1 DEF ListTypeOK, listVars
<1>2. CASE ~ UNCHANGED listVars
  <2> DEFINE s == First(PidSlots(NoPid))
  <2>1. s \in Slots /\ jobs[s].pid = NoPid
    <3>1. PidSlots(NoPid) \subseteq Slots /\ PidSlots(NoPid) # {}
      BY <1>2 DEF addjob, PidSlots
    <3>2. s \in PidSlots(NoPid)
      BY <3>1, FirstType DEF NoSlot
    <3> QED  BY <3>2 DEF PidSlots
  <2>2. /\ jobs' = [jobs EXCEPT ![s] = [pid |-> p, jid |-> nextjid, state |-> st]]
        /\ nextjid' = IF nextjid + 1 > MaxJobs THEN 1 ELSE nextjid + 1
    BY <1>2 DEF addjob
  <2> HIDE DEF s
  <2>3. ListTypeOK'
    BY <2>1, <2>2, JobListAssumption DEF ListTypeOK, Job
  <2> QED  BY <2>1, <2>2, <2>3
<1> QED
  BY <1>1, <1>2

(* getjobpid returns a slot with the pid, if there is one.                  *)
LEMMA GetjobpidResult ==
    ASSUME NEW p \in Pids
    PROVE  \/ /\ getjobpid(p) = NoSlot
              /\ \A s \in Slots : jobs[s].pid # p
           \/ /\ getjobpid(p) \in Slots
              /\ getjobpid(p) # NoSlot
              /\ jobs[getjobpid(p)].pid = p
<1>1. p # NoPid
  BY JobListAssumption
<1>2. PidSlots(p) \subseteq Slots /\ NoSlot \notin Slots
  BY DEF PidSlots, Slots, NoSlot
<1>3. getjobpid(p) = First(PidSlots(p))
  BY <1>1 DEF getjobpid
<1> QED
  BY <1>2, <1>3, FirstType DEF PidSlots

(* deletejob clears the slot with the pid, if there is one.                 *)
LEMMA DeletejobEffect ==
    ASSUME ListTypeOK, NEW p \in Pids, deletejob(p)
    PROVE  /\ ListTypeOK'
           /\ \/ jobs' = jobs /\ \A s \in Slots : jobs[s].pid # p
              \/ \E s \in Slots :
                   /\ jobs[s].pid = p
                   /\ jobs' = [jobs EXCEPT ![s] = clearjob]
<1>1. CASE getjobpid(p) = NoSlot
  <2>1. jobs' = jobs /\ nextjid' = nextjid
    BY <1>1 DEF deletejob, listVars
  <2> QED  BY <1>1, <2>1, GetjobpidResult DEF ListTypeOK
<1>2. CASE getjobpid(p) # NoSlot
  <2> DEFINE s == getjobpid(p)
  <2>1. s \in Slots /\ jobs[s].pid = p
    BY <1>2, GetjobpidResult
  <2>2. jobs' = [jobs EXCEPT ![s] = clearjob] /\ nextjid' = maxjid(jobs') + 1
    BY <1>2 DEF deletejob
  <2> HIDE DEF s
  <2>3. jobs' \in [Slots -> Job]
    <3>1. clearjob \in Job
      BY DEF clearjob, Job, NoJid, States
    <3> QED  BY <2>1, <2>2, <3>1 DEF ListTypeOK
  <2>4. maxjid(jobs') \in Nat
    BY <2>3, MaxjidType
  <2>5. nextjid' \in Nat \ {0}
    <3> DEFINE m == maxjid(jobs')
    <3>1. m \in Nat /\ nextjid' = m + 1
      BY <2>2, <2>4
    <3> HIDE DEF m
    <3> QED  BY <3>1
  <2>6. ListTypeOK'
    BY <2>3, <2>5 DEF ListTypeOK
  <2> QED  BY <2>1, <2>2, <2>6
<1> QED
  BY <1>1, <1>2

(* An assignment to a job's state keeps the types.                          *)
LEMMA SetstateType ==
    ASSUME ListTypeOK, NEW s \in Slots, NEW st \in States, setstate(s, st)
    PROVE  ListTypeOK'
BY DEF ListTypeOK, setstate, Job

(* fgpid is the pid of a job in the foreground, if there is one.            *)
LEMMA FgpidResult ==
    \/ fgpid = NoPid /\ FgSlots = {}
    \/ \E s \in FgSlots : fgpid = jobs[s].pid
<1>1. FgSlots \subseteq Slots
  BY DEF FgSlots
<1> QED
  BY <1>1, FirstType DEF fgpid

----------------------------------------------------------------------------
(* The control state of the shell. *)

Forking == pc \in {"setpgid", "addjob"}
Resuming == pc \in {"jid_pid", "jid_set", "jid_kill", "pid_kill", "pid_set", "call_wait"}

\* A handler with a pid in hand is on the stack.
HandlersActive ==
    /\ chld.at # "idle" => "chld" \in Active
    /\ \A h \in TtySignals : tty[h] # NoPid => h \in Active

\* SIGCHLD is blocked, and its handler idle, from the fork until addjob.
Control ==
    /\ blocked <=> Forking
    /\ Forking => /\ want \in {"FG", "BG"}
                  /\ pid \in Pids
                  /\ chld.at = "idle"
    /\ Resuming => want \in {"FG", "BG"} /\ slot \in Slots

TypeInv == TypeOK /\ HandlersActive /\ Control

----------------------------------------------------------------------------
(* The stack of handlers. *)

Handlers == {"chld"} \cup TtySignals

(* A delivered signal puts its handler on the stack.                        *)
LEMMA Push ==
    ASSUME NEW h \in Handlers, stack \in Seq(Handlers), stack' = <<h>> \o stack
    PROVE  /\ stack' \in Seq(Handlers)
           /\ h \in Active'
           /\ Active \subseteq Active'
<1>1. stack' \in Seq(Handlers)
  OBVIOUS
<1>2. Len(stack') = Len(stack) + 1 /\ stack'[1] = h
  OBVIOUS
<1>3. \A i \in 1 .. Len(stack) : i + 1 \in 1 .. Len(stack') /\ stack'[i + 1] = stack[i]
  OBVIOUS
<1>4. DOMAIN stack = 1 .. Len(stack) /\ DOMAIN stack' = 1 .. Len(stack') /\ Len(stack) \in Nat
  BY <1>1
<1>5. h \in Active'
  <2>1. 1 \in DOMAIN stack'
    BY <1>2, <1>4
  <2> QED  BY <1>2, <2>1 DEF Active
<1>6. Active \subseteq Active'
  BY <1>3, <1>4 DEF Active
<1> QED
  BY <1>1, <1>5, <1>6

(* A handler that returns takes itself off, and no other.                   *)
LEMMA Pop ==
    ASSUME stack \in Seq(Handlers), stack # <<>>, stack' = Tail(stack)
    PROVE  /\ stack' \in Seq(Handlers)
           /\ Active \subseteq Active' \cup {Head(stack)}
<1>1. stack' \in Seq(Handlers) /\ Len(stack') = Len(stack) - 1
  OBVIOUS
<1>2. \A i \in 1 .. Len(stack') : stack'[i] = stack[i + 1]
  OBVIOUS
<1>3. DOMAIN stack = 1 .. Len(stack) /\ DOMAIN stack' = 1 .. Len(stack') /\ Len(stack) \in Nat
  BY <1>1
<1>4. ASSUME NEW i \in DOMAIN stack PROVE stack[i] \in Active' \cup {Head(stack)}
  <2>1. CASE i = 1
    BY <2>1
  <2>2. CASE i # 1
    <3>1. i - 1 \in DOMAIN stack' /\ stack'[i - 1] = stack[i]
      BY <1>1, <1>2, <1>3, <2>2
    <3> QED  BY <3>1 DEF Active
  <2> QED  BY <2>1, <2>2
<1> QED
  BY <1>1, <1>4 DEF Active

(* The main program runs only when no handler has a pid in hand.            *)
LEMMA MainAlone ==
    ASSUME TypeInv, stack = <<>>
    PROVE  chld.at = "idle" /\ \A h \in TtySignals : tty[h] = NoPid
<1>1. Active = {}
  BY DEF Active
<1> QED
  BY <1>1 DEF TypeInv, HandlersActive

----------------------------------------------------------------------------
(* Types and control. *)

(* The initial state has the right types.                                   *)
LEMMA InitType == Init => TypeInv
<1> SUFFICES ASSUME Init PROVE TypeInv
  OBVIOUS
<1>1. ListTypeOK
  <2>1. clearjob \in Job
    BY DEF clearjob, Job, NoJid, States
  <2> QED  BY <2>1 DEF Init, initjobs, ListTypeOK
<1>2. chld \in [at: {"idle", "wait", "stop", "term"}, pid: Pids \cup {NoPid}]
  BY DEF Init, NoChld
<1>3. TypeOK
  <2>1. stack \in Seq(Handlers)
    BY DEF Init
  <2> QED  BY <1>1, <1>2, <2>1 DEF Init, TypeOK, ProcStates, Handlers
<1> QED
  BY <1>3 DEF Init, TypeInv, HandlersActive, Control, Forking, Resuming, NoChld

(* A step that leaves the job list alone keeps its type.                    *)
LEMMA ListKept == ListTypeOK /\ UNCHANGED listVars => ListTypeOK'
BY DEF ListTypeOK, listVars

(* A step that leaves the handlers alone keeps what is known of them.       *)
LEMMA HandlersKept == HandlersActive /\ UNCHANGED handlerVars => HandlersActive'
BY DEF HandlersActive, handlerVars, Active

(* An end of the shell changes nothing else.                                *)
LEMMA ShellEndsType ==
    ASSUME TypeInv, NEW how \in {"exited", "failed", "crashed"}, ShellEnds(how)
    PROVE  TypeInv'
<1>1. ListTypeOK'
  BY ListKept DEF TypeInv, TypeOK, ShellEnds
<1>2. HandlersActive'
  BY HandlersKept DEF TypeInv, ShellEnds
<1> QED
  BY <1>1, <1>2
  DEF TypeInv, TypeOK, Control, Forking, Resuming, ShellEnds, mainVars, handlerVars

(* A step of the main program keeps the types and the control state.        *)
LEMMA MainType ==
    ASSUME TypeInv, MainStep
    PROVE  TypeInv'
<1> USE DEF TypeInv, TypeOK, Control, Forking, Resuming, MainRuns, Goto, BackToPrompt,
            mainVars, handlerVars
<1>1. CASE EvalSetpgid
  <2>1. CASE proc[pid] \in {"child", "failed"}
    BY <1>1, <2>1, ListKept, HandlersKept DEF EvalSetpgid
  <2>2. CASE proc[pid] \notin {"child", "failed"}
    BY <1>1, <2>2, ShellEndsType DEF EvalSetpgid
  <2> QED  BY <2>1, <2>2
<1>2. CASE EvalAddjob
  <2>1. ListTypeOK'
    BY <1>2, AddjobEffect DEF EvalAddjob, States
  <2> QED  BY <1>2, <2>1, HandlersKept DEF EvalAddjob
<1>3. CASE EvalAnnounce
  BY <1>3, ListKept, HandlersKept DEF EvalAnnounce
<1>4. CASE WaitfgReturns
  BY <1>4, ListKept, HandlersKept DEF WaitfgReturns
<1>5. CASE JidReadPid
  <2>1. jobs[slot].pid \in Pids \cup {NoPid}
    BY <1>5 DEF JidReadPid, ListTypeOK, Job
  <2> QED  BY <1>5, <2>1, ListKept, HandlersKept DEF JidReadPid
<1>6. CASE JidSetState
  <2>1. ListTypeOK'
    BY <1>6, SetstateType DEF JidSetState, States
  <2> QED  BY <1>6, <2>1, HandlersKept DEF JidSetState
<1>7. CASE JidKill
  BY <1>7, ListKept, HandlersKept DEF JidKill, Continue, Proceed, ProcStates
<1>8. CASE PidKill
  BY <1>8, ListKept, HandlersKept DEF PidKill, Continue, ProcStates
<1>9. CASE PidSetState
  <2>1. ListTypeOK'
    BY <1>9, SetstateType DEF PidSetState, States
  <2> QED  BY <1>9, <2>1, HandlersKept DEF PidSetState, Proceed
<1>10. CASE CallWait
  <2>1. jobs[slot].pid \in Pids \cup {NoPid}
    BY <1>10 DEF CallWait, ListTypeOK, Job
  <2> QED  BY <1>10, <2>1, ListKept, HandlersKept DEF CallWait
<1> QED
  BY <1>1, <1>2, <1>3, <1>4, <1>5, <1>6, <1>7, <1>8, <1>9, <1>10 DEF MainStep

(* So does a command of the user, or a signal caught.                       *)
LEMMA UserType ==
    ASSUME TypeInv, UserStep
    PROVE  TypeInv'
<1> USE DEF TypeInv, TypeOK, Control, Forking, Resuming, MainRuns, mainVars, handlerVars
<1>1. CASE Quit \/ EvalForkFails \/ QuitCaught
  BY <1>1, ShellEndsType DEF Quit, EvalForkFails, QuitCaught
<1>2. ASSUME NEW w \in {"FG", "BG"}, NEW p \in Pids, EvalFork(w, p) PROVE TypeInv'
  BY <1>2, MainAlone, ListKept, HandlersKept DEF EvalFork, ProcStates
<1>3. ASSUME NEW w \in {"FG", "BG"}, NEW p \in Pids, FindByPid(w, p) PROVE TypeInv'
  BY <1>3, GetjobpidResult, ListKept, HandlersKept DEF FindByPid
<1>4. ASSUME NEW w \in {"FG", "BG"}, NEW j \in 1 .. MaxJid, FindByJid(w, j) PROVE TypeInv'
  <2>1. getjobjid(j) \in Slots
    BY <1>4, FirstType DEF FindByJid, getjobjid, JidSlots
  <2> QED  BY <1>4, <2>1, ListKept, HandlersKept DEF FindByJid
<1>5. ASSUME NEW h \in TtySignals, TtyCaught(h) PROVE TypeInv'
  <2>1. fgpid \in Pids \cup {NoPid}
    BY FgpidResult DEF FgSlots, ListTypeOK, Job
  <2>2. stack' \in Seq(Handlers) /\ h \in Active' /\ Active \subseteq Active'
    BY <1>5, Push DEF TtyCaught, Handlers
  <2>3. HandlersActive'
    BY <1>5, <2>1, <2>2 DEF TtyCaught, HandlersActive
  <2> QED  BY <1>5, <2>1, <2>2, <2>3, ListKept DEF TtyCaught, Handlers
<1> QED
  BY <1>1, <1>2, <1>3, <1>4, <1>5 DEF UserStep

(* So does a step of the kernel, of a handler or of a child.                *)
LEMMA HandlerType ==
    ASSUME TypeInv, ChldDelivered \/ ChldStep \/ \E h \in TtySignals : TtyForwarded(h)
    PROVE  TypeInv'
<1> USE DEF TypeInv, TypeOK, Control, Forking, Resuming, Runs, mainVars
<1>1. CASE ChldDelivered
  <2>1. stack' \in Seq(Handlers) /\ "chld" \in Active' /\ Active \subseteq Active'
    BY <1>1, Push DEF ChldDelivered, Handlers
  <2>2. HandlersActive'
    BY <1>1, <2>1 DEF ChldDelivered, HandlersActive
  <2> QED  BY <1>1, <2>1, <2>2, ListKept DEF ChldDelivered, Handlers
<1>2. ASSUME NEW p \in Pids, ChldWaitpid(p) PROVE TypeInv'
  <2>1. HandlersActive'
    BY <1>2 DEF ChldWaitpid, HandlersActive, Active
  <2> QED  BY <1>2, <2>1, ListKept DEF ChldWaitpid, ProcStates
<1>3. CASE ChldNoMore
  <2>1. stack' \in Seq(Handlers) /\ Active \subseteq Active' \cup {"chld"}
    BY <1>3, Pop DEF ChldNoMore, Return, Handlers
  <2>2. HandlersActive'
    BY <1>3, <2>1 DEF ChldNoMore, HandlersActive, NoChld, TtySignals
  <2> QED  BY <1>3, <2>1, <2>2, ListKept DEF ChldNoMore, NoChld, Handlers
<1>4. CASE ChldStopped
  <2>1. CASE ShellEnds("crashed")
    BY <2>1, ShellEndsType
  <2>2. CASE ~ ShellEnds("crashed")
    <3>1. chld.pid \in Pids /\ getjobpid(chld.pid) \in Slots
      <4>1. chld.pid # NoPid
        BY <1>4, <2>2 DEF ChldStopped, getjobpid
      <4> QED  BY <1>4, <2>2, <4>1, GetjobpidResult DEF ChldStopped
    <3>2. ListTypeOK'
      BY <1>4, <2>2, <3>1, SetstateType DEF ChldStopped, States
    <3>3. HandlersActive'
      BY <1>4, <2>2 DEF ChldStopped, HandlersActive, Active
    <3> QED  BY <1>4, <2>2, <3>2, <3>3 DEF ChldStopped
  <2> QED  BY <2>1, <2>2
<1>5. CASE ChldTerminated
  <2>1. ListTypeOK'
    <3>1. CASE chld.pid = NoPid
      BY <1>5, <3>1, ListKept DEF ChldTerminated, deletejob, getjobpid
    <3>2. CASE chld.pid # NoPid
      BY <1>5, <3>2, DeletejobEffect DEF ChldTerminated
    <3> QED  BY <3>1, <3>2
  <2>2. HandlersActive'
    BY <1>5 DEF ChldTerminated, HandlersActive, Active
  <2> QED  BY <1>5, <2>1, <2>2 DEF ChldTerminated
<1>6. ASSUME NEW h \in TtySignals, TtyForwarded(h) PROVE TypeInv'
  <2>1. stack' \in Seq(Handlers) /\ Active \subseteq Active' \cup {h}
    BY <1>6, Pop DEF TtyForwarded, Return, Handlers
  <2>2. HandlersActive'
    BY <1>6, <2>1 DEF TtyForwarded, HandlersActive, TtySignals
  <2>3. proc' \in [Pids -> ProcStates] /\ pending' \in BOOLEAN
    BY <1>6 DEF TtyForwarded, Interrupt, ProcStates
  <2>4. tty' \in [TtySignals -> Pids \cup {NoPid}]
    BY <1>6 DEF TtyForwarded
  <2> QED  BY <1>6, <2>1, <2>2, <2>3, <2>4, ListKept DEF TtyForwarded, Handlers
<1> HIDE DEF TypeInv
<1> QED
  BY <1>1, <1>2, <1>3, <1>4, <1>5, <1>6 DEF ChldStep

(* So does a step of a child.                                               *)
LEMMA ChildType ==
    ASSUME TypeInv, ChildStep
    PROVE  TypeInv'
<1>1. ASSUME NEW p \in Pids, NEW from, NEW to \in ProcStates,
             ChildSteps(p, from, to), pending' \in BOOLEAN
      PROVE  TypeInv'
  BY <1>1, ListKept, HandlersKept
  DEF TypeInv, TypeOK, Control, Forking, Resuming, mainVars, handlerVars, ChildSteps
<1>2. PICK p \in Pids : Exec(p) \/ ExecFails(p) \/ Ends(p) \/ Stops(p)
  BY DEF ChildStep
<1>3. pending' \in BOOLEAN
  BY <1>2 DEF Exec, ExecFails, Ends, Stops, TypeInv, TypeOK
<1> QED
  BY <1>1, <1>2, <1>3 DEF Exec, ExecFails, Ends, Stops, ProcStates

(* The types and the control state are kept by every step.                  *)
LEMMA NextType == TypeInv /\ [Next]_vars => TypeInv'
<1> SUFFICES ASSUME TypeInv, [Next]_vars PROVE TypeInv'
  OBVIOUS
<1>1. CASE UNCHANGED vars
  BY <1>1, ListKept, HandlersKept
  DEF vars, TypeInv, TypeOK, Control, Forking, Resuming, mainVars, handlerVars, listVars
<1>2. CASE Next
  BY <1>2, MainType, UserType, HandlerType, ChildType DEF Next
<1> QED
  BY <1>1, <1>2

(* Every variable of the shell keeps its type, whatever the number of job   *)
(* slots and of processes.                                                  *)
THEOREM TypeCorrect == Spec => []TypeOK
<1>1. TypeInv => TypeOK
  BY DEF TypeInv
<1> QED
  BY InitType, NextType, <1>1, PTL DEF Spec

----------------------------------------------------------------------------
(* No lost signals. *)

(* While a child has news, a SIGCHLD is pending or the handler is in its    *)
(* loop: kept by every step.  Only the kernel and the children give a child *)
(* news, and they raise SIGCHLD when they do; only the delivery takes the   *)
(* signal away, and only an empty answer of waitpid ends the loop.          *)
LEMMA SignalStep == TypeInv /\ NoLostChildSignal /\ [Next]_vars => NoLostChildSignal'
<1> SUFFICES ASSUME TypeInv, NoLostChildSignal, [Next]_vars, shell' = "up",
                    ~ pending', chld'.at = "idle"
             PROVE  Reportable' = {}
  BY DEF NoLostChildSignal
<1> USE DEF TypeInv, TypeOK, NoLostChildSignal, Reportable, mainVars, handlerVars, Runs
<1>1. CASE UNCHANGED vars
  BY <1>1 DEF vars
<1>2. CASE MainStep
  BY <1>2 DEF MainStep, EvalSetpgid, EvalAddjob, EvalAnnounce, WaitfgReturns, JidReadPid,
              JidSetState, JidKill, PidKill, PidSetState, CallWait, Continue, ShellEnds
<1>3. CASE ChldDelivered
  BY <1>3 DEF ChldDelivered
<1>4. CASE ChldStep
  BY <1>4 DEF ChldStep, ChldWaitpid, ChldNoMore, ChldStopped, ChldTerminated, ShellEnds
<1>5. ASSUME NEW h \in TtySignals, TtyForwarded(h) PROVE Reportable' = {}
  BY <1>5 DEF TtyForwarded, Interrupt
<1>6. CASE UserStep
  BY <1>6 DEF UserStep, Quit, EvalForkFails, QuitCaught, EvalFork, FindByPid, FindByJid,
              TtyCaught, ShellEnds, Dead
<1>7. CASE ChildStep
  BY <1>7 DEF ChildStep, Exec, ExecFails, Ends, Stops, ChildSteps, Dead
<1> QED
  BY <1>1, <1>2, <1>3, <1>4, <1>5, <1>6, <1>7 DEF Next

(* No child's end or stop goes unnoticed for want of a signal: while the    *)
(* shell is up and a child has something to report, a SIGCHLD is pending or *)
(* sigchld_handler is in its loop.                                          *)
THEOREM NoSignalLost == Spec => []NoLostChildSignal
<1>1. Init => NoLostChildSignal
  BY DEF Init, NoLostChildSignal, Reportable, Dead
<1> QED
  BY InitType, NextType, SignalStep, <1>1, PTL DEF Spec

----------------------------------------------------------------------------
(* The job list and the children. *)

\* Between the fork and addjob the new child exists and is not listed.
NewChild == Forking => /\ proc[pid] # "none"
                       /\ \A s \in Slots : jobs[s].pid # pid

UniquePids ==
    \A s, t \in Slots : jobs[s].pid = jobs[t].pid /\ jobs[s].pid # NoPid => s = t

ListedStates == \A s \in Slots : jobs[s].pid # NoPid => jobs[s].state # "UNDEF"

ListInv == NewChild /\ UniquePids /\ ListedStates /\ ListedJobsUnreaped

(* A step that leaves the list alone, and reaps no child, keeps ListInv.    *)
LEMMA ListInvKept ==
    ASSUME TypeInv, ListInv, jobs' = jobs,
           Forking' => Forking /\ pid' = pid,
           chld.at # "term" \/ chld' = chld,
           \A p \in Pids : proc'[p] = "none" => proc[p] = "none"
    PROVE  ListInv'
BY DEF ListInv, NewChild, UniquePids, ListedStates, ListedJobsUnreaped, TypeInv, TypeOK,
       ListTypeOK, Job, Control, Forking

(* So does an assignment to the state of a job.                             *)
LEMMA ListInvSetstate ==
    ASSUME TypeInv, ListInv, NEW s \in Slots, NEW st \in {"FG", "BG", "ST"},
           setstate(s, st), proc' = proc, Forking' => Forking /\ pid' = pid,
           chld.at # "term" \/ chld' = chld
    PROVE  ListInv'
<1>1. \A t \in Slots : /\ jobs'[t].pid = jobs[t].pid
                       /\ jobs'[t].state = IF t = s THEN st ELSE jobs[t].state
  BY DEF setstate, TypeInv, TypeOK, ListTypeOK, Job
<1> QED
  BY <1>1 DEF ListInv, NewChild, UniquePids, ListedStates, ListedJobsUnreaped, TypeInv,
              TypeOK, ListTypeOK, Job, Control, Forking

(* Every step keeps ListInv.                                                *)
LEMMA ListStep == TypeInv /\ ListInv /\ [Next]_vars => ListInv'
<1> SUFFICES ASSUME TypeInv, ListInv, [Next]_vars PROVE ListInv'
  OBVIOUS
<1> USE DEF listVars, mainVars, handlerVars, MainRuns, Runs, Forking, Goto, BackToPrompt
<1>1. CASE UNCHANGED vars
  BY <1>1, ListInvKept DEF vars
<1>2. CASE EvalSetpgid
  BY <1>2, ListInvKept DEF EvalSetpgid, ShellEnds
<1>3. CASE EvalAddjob
  <2>1. /\ pid \in Pids /\ want \in {"FG", "BG"} /\ pid # NoPid
        /\ proc[pid] # "none" /\ \A t \in Slots : jobs[t].pid # pid
    BY <1>3, JobListAssumption DEF EvalAddjob, TypeInv, Control, ListInv, NewChild
  <2>2. CASE jobs' = jobs
    BY <1>3, <2>2, ListInvKept DEF EvalAddjob
  <2>3. CASE \E s \in Slots :
               /\ jobs[s].pid = NoPid
               /\ jobs' = [jobs EXCEPT ![s] = [pid |-> pid, jid |-> nextjid, state |-> want]]
    <3>1. PICK s \in Slots :
             \A t \in Slots : /\ jobs'[t].pid = IF t = s THEN pid ELSE jobs[t].pid
                              /\ jobs'[t].state = IF t = s THEN want ELSE jobs[t].state
      BY <2>3 DEF TypeInv, TypeOK, ListTypeOK, Job
    <3> QED
      BY <1>3, <2>1, <3>1
      DEF EvalAddjob, ListInv, NewChild, UniquePids, ListedStates, ListedJobsUnreaped
  <2> QED  BY <1>3, <2>1, <2>2, <2>3, AddjobEffect DEF EvalAddjob, TypeInv, TypeOK, States
<1>4. CASE EvalAnnounce \/ WaitfgReturns \/ JidReadPid \/ CallWait
  BY <1>4, ListInvKept DEF EvalAnnounce, WaitfgReturns, JidReadPid, CallWait
<1>5. CASE JidKill \/ PidKill
  BY <1>5, ListInvKept DEF JidKill, PidKill, Proceed, Continue, TypeInv, TypeOK
<1>6. CASE JidSetState \/ PidSetState
  BY <1>6, ListInvSetstate
  DEF JidSetState, PidSetState, Proceed, TypeInv, Control, Resuming
<1>7. CASE ChldDelivered
  <2>1. chld.at = "idle"
    BY <1>7 DEF ChldDelivered, TypeInv, HandlersActive
  <2> QED  BY <1>7, <2>1, ListInvKept DEF ChldDelivered
<1>8. ASSUME NEW p \in Pids, ChldWaitpid(p) PROVE ListInv'
  <2>1. chld.at = "wait" /\ ~ Forking /\ ~ Forking' /\ jobs' = jobs
    BY <1>8 DEF ChldWaitpid, TypeInv, Control
  <2>2. \A q \in Pids : q # p => proc'[q] = proc[q]
    BY <1>8 DEF ChldWaitpid, TypeInv, TypeOK
  <2>3. proc'[p] = "none" => chld' = [at |-> "term", pid |-> p]
    BY <1>8 DEF ChldWaitpid, TypeInv, TypeOK
  <2>4. ListedJobsUnreaped'
    BY <2>1, <2>2, <2>3 DEF ListInv, ListedJobsUnreaped, TypeInv, TypeOK, ListTypeOK, Job
  <2> QED  BY <2>1, <2>4 DEF ListInv, NewChild, UniquePids, ListedStates
<1>9. CASE ChldNoMore
  BY <1>9, ListInvKept DEF ChldNoMore
<1>10. CASE ChldStopped
  <2>1. CASE getjobpid(chld.pid) = NoSlot
    BY <1>10, <2>1, ListInvKept DEF ChldStopped, ShellEnds
  <2>2. CASE getjobpid(chld.pid) # NoSlot
    <3>1. chld.pid \in Pids
      BY <1>10, <2>2 DEF getjobpid, TypeInv, TypeOK
    <3>2. getjobpid(chld.pid) \in Slots
      BY <2>2, <3>1, GetjobpidResult
    <3> QED  BY <1>10, <2>2, <3>2, ListInvSetstate DEF ChldStopped
  <2> QED  BY <2>1, <2>2
<1>11. CASE ChldTerminated
  <2>1. ~ Forking /\ ~ Forking' /\ proc' = proc /\ chld.at = "term"
    BY <1>11 DEF ChldTerminated, TypeInv, Control
  <2>2. CASE chld.pid = NoPid
    <3>1. jobs' = jobs
      BY <1>11, <2>2 DEF ChldTerminated, deletejob, getjobpid
    <3> QED
      BY <2>1, <2>2, <3>1
      DEF ListInv, NewChild, UniquePids, ListedStates, ListedJobsUnreaped
  <2>3. CASE chld.pid # NoPid
    <3>1. chld.pid \in Pids
      BY <2>3 DEF TypeInv, TypeOK
    <3>2. CASE jobs' = jobs /\ \A s \in Slots : jobs[s].pid # chld.pid
      BY <2>1, <3>2 DEF ListInv, NewChild, UniquePids, ListedStates, ListedJobsUnreaped
    <3>3. CASE \E s \in Slots : /\ jobs[s].pid = chld.pid
                                /\ jobs' = [jobs EXCEPT ![s] = clearjob]
      <4>1. PICK s \in Slots :
               /\ jobs[s].pid = chld.pid
               /\ \A t \in Slots :
                    /\ jobs'[t].pid = IF t = s THEN NoPid ELSE jobs[t].pid
                    /\ jobs'[t].state = IF t = s THEN "UNDEF" ELSE jobs[t].state
        BY <3>3 DEF TypeInv, TypeOK, ListTypeOK, clearjob
      <4>2. \A t \in Slots : jobs'[t].pid # NoPid => jobs[t].pid # chld.pid
        BY <2>3, <4>1 DEF ListInv, UniquePids
      <4> QED
        BY <2>1, <4>1, <4>2 DEF ListInv, NewChild, UniquePids, ListedStates, ListedJobsUnreaped
    <3> QED  BY <1>11, <3>1, <3>2, <3>3, DeletejobEffect DEF ChldTerminated, TypeInv, TypeOK
  <2> QED  BY <2>2, <2>3
<1>12. ASSUME NEW h \in TtySignals, TtyForwarded(h) PROVE ListInv'
  BY <1>12, ListInvKept DEF TtyForwarded, Interrupt, TypeInv, TypeOK
<1>13. CASE Quit \/ EvalForkFails \/ QuitCaught
  BY <1>13, ListInvKept DEF Quit, EvalForkFails, QuitCaught, ShellEnds
<1>14. ASSUME NEW w \in {"FG", "BG"}, NEW p \in Pids, EvalFork(w, p) PROVE ListInv'
  <2>1. chld.at = "idle"
    BY <1>14, MainAlone DEF EvalFork
  <2>2. \A s \in Slots : jobs[s].pid # p
    BY <1>14, <2>1, JobListAssumption DEF EvalFork, ListInv, ListedJobsUnreaped
  <2>3. proc'[p] = "child" /\ \A q \in Pids : q # p => proc'[q] = proc[q]
    BY <1>14 DEF EvalFork, TypeInv, TypeOK
  <2> QED
    BY <1>14, <2>2, <2>3
    DEF EvalFork, ListInv, NewChild, UniquePids, ListedStates, ListedJobsUnreaped,
        TypeInv, TypeOK, ListTypeOK, Job
<1>15. ASSUME NEW w \in {"FG", "BG"},
              \/ \E p \in Pids : FindByPid(w, p)
              \/ \E j \in 1 .. MaxJid : FindByJid(w, j)
       PROVE  ListInv'
  BY <1>15, ListInvKept DEF FindByPid, FindByJid
<1>16. ASSUME NEW h \in TtySignals, TtyCaught(h) PROVE ListInv'
  BY <1>16, ListInvKept DEF TtyCaught
<1>17. CASE ChildStep
  BY <1>17, ListInvKept
  DEF ChildStep, Exec, ExecFails, Ends, Stops, ChildSteps, TypeInv, TypeOK
<1> HIDE DEF listVars, mainVars, handlerVars, MainRuns, Runs, Forking, Goto, BackToPrompt
<1> QED
  BY <1>1, <1>2, <1>3, <1>4, <1>5, <1>6, <1>7, <1>8, <1>9, <1>10, <1>11, <1>12, <1>13, <1>14,
     <1>15, <1>16, <1>17 DEF Next, MainStep, ChldStep, UserStep

(* A pid on the job list is that of an unreaped child, or of the child      *)
(* whose end the SIGCHLD handler is recording.                              *)
THEOREM JobsUnreaped == Spec => []ListedJobsUnreaped
<1>1. Init => ListInv
  BY DEF Init, initjobs, clearjob, ListInv, NewChild, UniquePids, ListedStates,
         ListedJobsUnreaped, Forking
<1>2. ListInv => ListedJobsUnreaped
  BY DEF ListInv
<1> QED
  BY InitType, NextType, ListStep, <1>1, <1>2, PTL DEF Spec

----------------------------------------------------------------------------
(* The foreground. *)

\* The main program waits for a job that is in the foreground, or is about to.
ForegroundAwaited ==
    \A s \in FgSlots :
        \/ pc = "waitfg" /\ pid = jobs[s].pid
        \/ pc \in {"jid_kill", "call_wait"} /\ slot = s /\ want = "FG"

ForegroundInv == ForegroundAwaited /\ AtMostOneFg

(* A step that puts no job in the foreground, while the main program stays  *)
(* where it is, keeps ForegroundInv.                                        *)
LEMMA ForegroundKept ==
    ASSUME ForegroundInv, UNCHANGED mainVars, FgSlots' \subseteq FgSlots,
           \A s \in FgSlots' : jobs'[s].pid = jobs[s].pid
    PROVE  ForegroundInv'
BY DEF ForegroundInv, ForegroundAwaited, AtMostOneFg, mainVars

(* Every step keeps ForegroundInv.                                          *)
LEMMA ForegroundStep == TypeInv /\ ForegroundInv /\ [Next]_vars => ForegroundInv'
<1> SUFFICES ASSUME TypeInv, ForegroundInv, [Next]_vars PROVE ForegroundInv'
  OBVIOUS
<1> USE DEF ForegroundInv, ForegroundAwaited, AtMostOneFg, FgSlots, listVars, mainVars,
            MainRuns, Goto, BackToPrompt
<1>1. CASE UNCHANGED vars
  BY <1>1 DEF vars
<1>2. CASE EvalSetpgid \/ EvalAnnounce
  BY <1>2 DEF EvalSetpgid, EvalAnnounce, ShellEnds
<1>3. CASE EvalAddjob
  <2>1. FgSlots = {} /\ pid' = pid /\ pid \in Pids /\ want \in {"FG", "BG"}
    BY <1>3 DEF EvalAddjob, TypeInv, Control, Forking
  <2>2. CASE jobs' = jobs
    BY <2>1, <2>2
  <2>3. CASE \E s \in Slots :
               /\ jobs[s].pid = NoPid
               /\ jobs' = [jobs EXCEPT ![s] = [pid |-> pid, jid |-> nextjid, state |-> want]]
    <3>1. PICK s \in Slots :
             /\ jobs'[s].pid = pid /\ jobs'[s].state = want
             /\ \A t \in Slots : t # s => jobs'[t] = jobs[t]
      BY <2>3 DEF TypeInv, TypeOK, ListTypeOK
    <3>2. FgSlots' \subseteq {s}
      BY <2>1, <3>1
    <3>3. want = "FG" => pc' = "waitfg"
      BY <1>3 DEF EvalAddjob
    <3> QED  BY <2>1, <3>1, <3>2, <3>3
  <2> QED  BY <1>3, <2>1, <2>2, <2>3, AddjobEffect DEF EvalAddjob, TypeInv, TypeOK, States
<1>4. CASE WaitfgReturns
  \* The pid waited for would be the foreground pid.
  <2>1. FgSlots = {}
    <3> SUFFICES ASSUME NEW s \in FgSlots PROVE FALSE
      OBVIOUS
    <3>1. pid = jobs[s].pid /\ \A t \in FgSlots : t = s
      BY <1>4 DEF WaitfgReturns
    <3> HIDE DEF FgSlots
    <3>2. fgpid = jobs[s].pid
      BY <3>1, FgpidResult
    <3> QED  BY <1>4, <3>1, <3>2 DEF WaitfgReturns
  <2> QED  BY <1>4, <2>1 DEF WaitfgReturns
<1>5. CASE JidReadPid \/ CallWait
  BY <1>5 DEF JidReadPid, CallWait
<1>6. CASE JidSetState
  <2>1. FgSlots = {} /\ slot \in Slots
    BY <1>6 DEF JidSetState, TypeInv, Control, Resuming
  <2>2. \A t \in Slots : jobs'[t].state = IF t = slot THEN want ELSE jobs[t].state
    BY <1>6, <2>1 DEF JidSetState, setstate, TypeInv, TypeOK, ListTypeOK, Job
  <2> QED  BY <1>6, <2>1, <2>2 DEF JidSetState
<1>7. CASE JidKill
  BY <1>7 DEF JidKill, Proceed
<1>8. CASE PidKill
  BY <1>8 DEF PidKill
<1>9. CASE PidSetState
  <2>1. FgSlots = {} /\ slot \in Slots
    BY <1>9 DEF PidSetState, TypeInv, Control, Resuming
  <2>2. \A t \in Slots : jobs'[t].state = IF t = slot THEN want ELSE jobs[t].state
    BY <1>9, <2>1 DEF PidSetState, setstate, TypeInv, TypeOK, ListTypeOK, Job
  <2> QED  BY <1>9, <2>1, <2>2 DEF PidSetState, Proceed
<1>10. CASE ChldDelivered \/ (\E p \in Pids : ChldWaitpid(p)) \/ ChldNoMore
  BY <1>10 DEF ChldDelivered, ChldWaitpid, ChldNoMore
<1>11. CASE ChldStopped
  <2>1. CASE getjobpid(chld.pid) = NoSlot
    BY <1>11, <2>1 DEF ChldStopped, ShellEnds
  <2>2. CASE getjobpid(chld.pid) # NoSlot
    <3> DEFINE s == getjobpid(chld.pid)
    <3>1. jobs' = [jobs EXCEPT ![s].state = "ST"] /\ UNCHANGED mainVars
      BY <1>11, <2>2 DEF ChldStopped, setstate
    <3> HIDE DEF s
    <3>2. \A t \in Slots : /\ jobs'[t].pid = jobs[t].pid
                           /\ jobs'[t].state \in {"ST", jobs[t].state}
      BY <3>1 DEF TypeInv, TypeOK, ListTypeOK, Job
    <3> QED  BY <3>1, <3>2, ForegroundKept
  <2> QED  BY <2>1, <2>2
<1>12. CASE ChldTerminated
  <2>1. UNCHANGED mainVars
    BY <1>12 DEF ChldTerminated
  <2>2. CASE jobs' = jobs
    BY <2>1, <2>2
  <2>3. CASE \E s \in Slots : jobs' = [jobs EXCEPT ![s] = clearjob]
    <3>1. \A t \in Slots : jobs'[t] = jobs[t] \/ jobs'[t].state = "UNDEF"
      BY <2>3 DEF TypeInv, TypeOK, ListTypeOK, clearjob
    <3>2. FgSlots' \subseteq FgSlots /\ \A t \in FgSlots' : jobs'[t].pid = jobs[t].pid
      BY <3>1
    <3> QED  BY <2>1, <3>2, ForegroundKept
  <2>4. CASE chld.pid = NoPid
    BY <1>12, <2>2, <2>4 DEF ChldTerminated, deletejob, getjobpid
  <2>5. CASE chld.pid \in Pids
    BY <1>12, <2>2, <2>3, <2>5, DeletejobEffect DEF ChldTerminated, TypeInv, TypeOK
  <2> QED  BY <2>4, <2>5 DEF TypeInv, TypeOK
<1>13. ASSUME NEW h \in TtySignals, TtyForwarded(h) \/ TtyCaught(h) PROVE ForegroundInv'
  BY <1>13 DEF TtyForwarded, TtyCaught
<1>14. CASE Quit \/ EvalForkFails \/ QuitCaught
  BY <1>14 DEF Quit, EvalForkFails, QuitCaught, ShellEnds
<1>15. ASSUME NEW w \in {"FG", "BG"},
              \/ \E p \in Pids : EvalFork(w, p) \/ FindByPid(w, p)
              \/ \E j \in 1 .. MaxJid : FindByJid(w, j)
       PROVE  ForegroundInv'
  BY <1>15 DEF EvalFork, FindByPid, FindByJid
<1>16. CASE ChildStep
  BY <1>16 DEF ChildStep, Exec, ExecFails, Ends, Stops, ChildSteps
<1> HIDE DEF ForegroundInv
<1> QED
  BY <1>1, <1>2, <1>3, <1>4, <1>5, <1>6, <1>7, <1>8, <1>9, <1>10, <1>11, <1>12, <1>13, <1>14,
     <1>15, <1>16 DEF Next, MainStep, ChldStep, UserStep

(* There is never more than one job in the foreground.                      *)
THEOREM OneForeground == Spec => []AtMostOneFg
<1>1. Init => ForegroundInv
  BY DEF Init, initjobs, clearjob, ForegroundInv, ForegroundAwaited, AtMostOneFg, FgSlots
<1>2. ForegroundInv => AtMostOneFg
  BY DEF ForegroundInv
<1> QED
  BY InitType, NextType, ForegroundStep, <1>1, <1>2, PTL DEF Spec

(* The pid a terminal signal is on its way to is not that of a background   *)
(* job: kept by every step.  No bg command can run before the kill, since   *)
(* the main program waits for the handler.                                  *)
LEMMA BackgroundStep ==
    TypeInv /\ ListInv /\ BackgroundUntouched /\ [Next]_vars => BackgroundUntouched'
<1> SUFFICES ASSUME TypeInv, ListInv, BackgroundUntouched, [Next]_vars
             PROVE  BackgroundUntouched'
  OBVIOUS
<1> USE DEF BackgroundUntouched, listVars, handlerVars
<1>1. CASE stack = <<>> /\ UNCHANGED tty
  BY <1>1, MainAlone
<1>2. ASSUME NEW h \in TtySignals, TtyCaught(h) PROVE BackgroundUntouched'
  <2>1. PICK s \in FgSlots : fgpid = jobs[s].pid
    BY <1>2, FgpidResult DEF TtyCaught
  <2>2. \A t \in Slots : jobs[t].pid = fgpid => jobs[t].state = "FG"
    BY <1>2, <2>1 DEF TtyCaught, FgSlots, ListInv, UniquePids
  <2>3. jobs' = jobs /\ \A g \in TtySignals : tty'[g] = IF g = h THEN fgpid ELSE tty[g]
    BY <1>2 DEF TtyCaught, TypeInv, TypeOK
  <2> HIDE DEF listVars
  <2> QED  BY <2>2, <2>3
<1>3. ASSUME NEW h \in TtySignals, TtyForwarded(h) PROVE BackgroundUntouched'
  <2>1. jobs' = jobs /\ \A g \in TtySignals : tty'[g] = IF g = h THEN NoPid ELSE tty[g]
    BY <1>3 DEF TtyForwarded, TypeInv, TypeOK
  <2> QED  BY <2>1
<1>4. CASE ChldStopped
  <2>1. CASE jobs' = jobs /\ tty' = tty
    BY <2>1
  <2>2. CASE getjobpid(chld.pid) # NoSlot /\ setstate(getjobpid(chld.pid), "ST")
    <3> DEFINE s == getjobpid(chld.pid)
    <3>1. jobs' = [jobs EXCEPT ![s].state = "ST"] /\ tty' = tty
      BY <1>4, <2>2 DEF ChldStopped, setstate
    <3> HIDE DEF s
    <3>2. \A t \in Slots : jobs'[t].pid = jobs[t].pid /\ jobs'[t].state \in {"ST", jobs[t].state}
      BY <3>1 DEF TypeInv, TypeOK, ListTypeOK, Job
    <3> QED  BY <3>1, <3>2
  <2> QED  BY <1>4, <2>1, <2>2 DEF ChldStopped, ShellEnds
<1>5. CASE ChldTerminated
  <2>1. tty' = tty
    BY <1>5 DEF ChldTerminated
  <2>2. CASE jobs' = jobs
    BY <2>1, <2>2
  <2>3. CASE \E s \in Slots : jobs' = [jobs EXCEPT ![s] = clearjob]
    <3>1. \A t \in Slots : jobs'[t] = jobs[t] \/ jobs'[t].state = "UNDEF"
      BY <2>3 DEF TypeInv, TypeOK, ListTypeOK, clearjob
    <3> QED  BY <2>1, <3>1
  <2>4. CASE chld.pid = NoPid
    BY <1>5, <2>2, <2>4 DEF ChldTerminated, deletejob, getjobpid
  <2>5. CASE chld.pid \in Pids
    BY <1>5, <2>2, <2>3, <2>5, DeletejobEffect DEF ChldTerminated, TypeInv, TypeOK
  <2> QED  BY <2>4, <2>5 DEF TypeInv, TypeOK
<1>6. CASE ChldDelivered \/ (\E p \in Pids : ChldWaitpid(p)) \/ ChldNoMore \/ ChildStep
  BY <1>6 DEF ChldDelivered, ChldWaitpid, ChldNoMore, ChildStep, Exec, ExecFails, Ends, Stops,
              ChildSteps
<1>7. CASE Quit \/ EvalForkFails \/ QuitCaught \/ UNCHANGED vars
  BY <1>7 DEF Quit, EvalForkFails, QuitCaught, ShellEnds, vars
<1>8. CASE MainStep
  <2>1. stack = <<>> /\ UNCHANGED tty
    BY <1>8 DEF MainStep, EvalSetpgid, EvalAddjob, EvalAnnounce, WaitfgReturns, JidReadPid,
                JidSetState, JidKill, PidKill, PidSetState, CallWait, MainRuns, ShellEnds
  <2> QED  BY <1>1, <2>1
<1>9. ASSUME NEW w \in {"FG", "BG"},
             \/ \E p \in Pids : EvalFork(w, p) \/ FindByPid(w, p)
             \/ \E j \in 1 .. MaxJid : FindByJid(w, j)
      PROVE  BackgroundUntouched'
  BY <1>1, <1>9 DEF EvalFork, FindByPid, FindByJid, MainRuns
<1> HIDE DEF BackgroundUntouched
<1> QED
  BY <1>2, <1>3, <1>4, <1>5, <1>6, <1>7, <1>8, <1>9 DEF Next, ChldStep, UserStep

(* ctrl-c and ctrl-z never reach a job that the list shows in the           *)
(* background, however the handlers nest.                                   *)
THEOREM BackgroundSafe == Spec => []BackgroundUntouched
<1>1. Init => ListInv /\ BackgroundUntouched
  BY DEF Init, initjobs, clearjob, ListInv, NewChild, UniquePids, ListedStates,
         ListedJobsUnreaped, Forking, BackgroundUntouched
<1> QED
  BY InitType, NextType, ListStep, BackgroundStep, <1>1, PTL DEF Spec

----------------------------------------------------------------------------
(* The job list implements job control. *)

st == [p \in Pids |-> JobState(p)]

\* A listed job is in the state its slot shows; the others are not jobs.
ShownIsListed ==
    UniquePids => \A p \in Pids :
        /\ \A s \in Slots : jobs[s].pid = p => JobState(p) = jobs[s].state
        /\ (\A s \in Slots : jobs[s].pid # p) => JobState(p) = "none"

(* JobState reads the one slot with the pid.                                *)
LEMMA JobStateResult == ShownIsListed
<1> SUFFICES ASSUME UniquePids, NEW p \in Pids
             PROVE  /\ \A s \in Slots : jobs[s].pid = p => JobState(p) = jobs[s].state
                    /\ (\A s \in Slots : jobs[s].pid # p) => JobState(p) = "none"
  BY DEF ShownIsListed
<1>1. PidSlots(p) \subseteq Slots
  BY DEF PidSlots
<1>2. ASSUME NEW s \in Slots, jobs[s].pid = p PROVE JobState(p) = jobs[s].state
  <2>1. Min(PidSlots(p)) \in PidSlots(p)
    BY <1>1, <1>2, FirstType DEF PidSlots
  <2>2. Min(PidSlots(p)) = s
    BY <1>1, <1>2, <2>1, JobListAssumption DEF PidSlots, UniquePids
  <2> QED  BY <1>2, <2>1, <2>2 DEF JobState
<1>3. ASSUME \A s \in Slots : jobs[s].pid # p PROVE JobState(p) = "none"
  BY <1>3 DEF JobState, PidSlots
<1> QED
  BY <1>2, <1>3

(* The same of the next state.                                              *)
LEMMA JobStateResultNext == ShownIsListed'
BY JobStateResult, PTL

(* A step that changes the state shown of one job at most.                  *)
LEMMA ShownChanges ==
    ASSUME TypeInv, ListInv, ListInv', NEW s \in Slots,
           \A t \in Slots : t # s => jobs'[t] = jobs[t],
           NEW p \in Pids, jobs[s].pid \in {p, NoPid}, jobs'[s].pid \in {p, NoPid},
           \A t \in Slots : t # s => jobs[t].pid # p
    PROVE  Shown' = [Shown EXCEPT ![p] = JobState(p)']
<1>1. ASSUME NEW q \in Pids, q # p PROVE JobState(q)' = JobState(q)
  <2>1. jobs[s].pid # q /\ jobs'[s].pid # q
    BY <1>1, JobListAssumption
  <2>2. CASE \A t \in Slots : jobs[t].pid # q
    <3>1. \A t \in Slots : jobs'[t].pid # q
      BY <2>1, <2>2
    <3> QED
      BY <2>2, <3>1, JobStateResult, JobStateResultNext DEF ShownIsListed, ListInv
  <2>3. CASE \E t \in Slots : jobs[t].pid = q
    <3>1. PICK t \in Slots : t # s /\ jobs[t].pid = q /\ jobs'[t] = jobs[t]
      BY <2>1, <2>3
    <3> QED  BY <3>1, JobStateResult, JobStateResultNext DEF ShownIsListed, ListInv
  <2> QED  BY <2>2, <2>3
<1> QED
  BY <1>1 DEF Shown

(* A step that leaves the slots alone is a stutter.                         *)
LEMMA ShownKept == jobs' = jobs => Shown' = Shown
BY DEF Shown, JobState, PidSlots

(* No slot in the foreground, no job in the foreground.                     *)
LEMMA NoForegroundShown == ListInv /\ FgSlots = {} => Promise!NoForeground
<1> SUFFICES ASSUME ListInv, FgSlots = {}, NEW p \in Pids PROVE Shown[p] # "FG"
  BY DEF Promise!NoForeground
<1>1. JobState(p) # "FG"
  BY JobStateResult DEF ShownIsListed, ListInv, FgSlots
<1> QED
  BY <1>1 DEF Shown

(* An assignment to the state of a slot is a resumption (of a job that is   *)
(* not in the foreground, when nothing is), a stop, or a stutter: it may    *)
(* change nothing, or find the slot cleared meanwhile.                      *)
LEMMA SetstateImplements ==
    ASSUME TypeInv, ListInv, ListInv', NEW s \in Slots, NEW w \in {"FG", "BG", "ST"},
           setstate(s, w), w # "ST" => FgSlots = {}
    PROVE  Promise!Next \/ Shown' = Shown
<1>1. \A t \in Slots : /\ jobs'[t].pid = jobs[t].pid
                       /\ t # s => jobs'[t] = jobs[t]
                       /\ jobs'[s].state = w
  BY DEF setstate, TypeInv, TypeOK, ListTypeOK, Job
<1>2. CASE jobs[s].pid = NoPid
  <2>1. \A q \in Pids : q # jobs[s].pid
    BY <1>2, JobListAssumption
  <2>2. ASSUME NEW q \in Pids PROVE JobState(q)' = JobState(q)
    <3>1. CASE \A t \in Slots : jobs[t].pid # q
      <4>1. \A t \in Slots : jobs'[t].pid # q
        BY <1>1, <3>1
      <4> QED
        BY <3>1, <4>1, JobStateResult, JobStateResultNext DEF ShownIsListed, ListInv
    <3>2. CASE \E t \in Slots : jobs[t].pid = q
      <4>1. PICK t \in Slots : jobs[t].pid = q /\ jobs'[t] = jobs[t]
        BY <1>1, <2>1, <3>2
      <4> QED  BY <4>1, JobStateResult, JobStateResultNext DEF ShownIsListed, ListInv
    <3> QED  BY <3>1, <3>2
  <2> QED  BY <2>2 DEF Shown
<1>3. CASE jobs[s].pid # NoPid
  <2>1. PICK p \in Pids : p = jobs[s].pid
    BY <1>3 DEF TypeInv, TypeOK, ListTypeOK, Job
  <2>2. Shown' = [Shown EXCEPT ![p] = w]
    <3>1. JobState(p)' = w
      BY <1>1, <2>1, JobStateResultNext DEF ShownIsListed, ListInv
    <3>2. \A t \in Slots : t # s => jobs[t].pid # p
      BY <1>3, <2>1 DEF ListInv, UniquePids
    <3>3. Shown' = [Shown EXCEPT ![p] = JobState(p)']
      BY <1>1, <2>1, <3>2, ShownChanges
    <3> QED  BY <3>1, <3>3
  <2>3. Shown[p] \in {"FG", "BG", "ST"} /\ (w # "ST" => Shown[p] # "FG")
    <3>1. JobState(p) = jobs[s].state
      BY <2>1, JobStateResult DEF ShownIsListed, ListInv
    <3>2. jobs[s].state \in {"FG", "BG", "ST"} /\ (w # "ST" => jobs[s].state # "FG")
      BY <1>3 DEF ListInv, ListedStates, FgSlots, TypeInv, TypeOK, ListTypeOK, Job, States
    <3> QED  BY <3>1, <3>2 DEF Shown
  <2>4. CASE w = "ST" /\ Shown[p] = "ST"
    BY <2>2, <2>4 DEF Shown
  <2>5. CASE w = "ST" /\ Shown[p] # "ST"
    BY <2>2, <2>3, <2>5 DEF Promise!Next, Promise!Stop
  <2>6. CASE w # "ST"
    <3>1. Promise!NoForeground
      BY <2>6, NoForegroundShown
    <3> QED  BY <2>2, <2>3, <2>6, <3>1 DEF Promise!Next, Promise!Resume
  <2> QED  BY <2>4, <2>5, <2>6
<1> QED
  BY <1>2, <1>3

(* addjob starts a job, or finds the list full.                             *)
LEMMA AddjobImplements ==
    ASSUME TypeInv, ListInv, ListInv', ForegroundInv, EvalAddjob
    PROVE  Promise!Next \/ Shown' = Shown
<1>1. /\ pid \in Pids /\ want \in {"FG", "BG"}
      /\ \A t \in Slots : jobs[t].pid # pid
      /\ FgSlots = {}
  BY DEF EvalAddjob, TypeInv, Control, Forking, ListInv, NewChild, ForegroundInv,
         ForegroundAwaited
<1>2. CASE jobs' = jobs
  BY <1>2, ShownKept
<1>3. CASE \E s \in Slots :
             /\ jobs[s].pid = NoPid
             /\ jobs' = [jobs EXCEPT ![s] = [pid |-> pid, jid |-> nextjid, state |-> want]]
  <2>1. PICK s \in Slots :
           /\ jobs[s].pid = NoPid
           /\ jobs'[s].pid = pid /\ jobs'[s].state = want
           /\ \A t \in Slots : t # s => jobs'[t] = jobs[t]
    BY <1>3 DEF TypeInv, TypeOK, ListTypeOK
  <2>2. Shown' = [Shown EXCEPT ![pid] = want]
    <3>1. PICK p \in Pids : p = pid
      BY <1>1
    <3>2. JobState(p)' = want
      BY <2>1, <3>1, JobStateResultNext DEF ShownIsListed, ListInv
    <3>3. \A t \in Slots : t # s => jobs[t].pid # p
      BY <1>1, <3>1
    <3>4. Shown' = [Shown EXCEPT ![p] = JobState(p)']
      BY <2>1, <3>1, <3>3, ShownChanges
    <3> QED  BY <3>1, <3>2, <3>4
  <2>3. Shown[pid] = "none"
    BY <1>1, JobStateResult DEF ShownIsListed, ListInv, Shown
  <2>4. Promise!NoForeground
    BY <1>1, NoForegroundShown
  <2> QED  BY <1>1, <2>2, <2>3, <2>4 DEF Promise!Next, Promise!Start
<1> QED
  BY <1>1, <1>2, <1>3, AddjobEffect DEF EvalAddjob, TypeInv, TypeOK, States

(* deletejob ends a job, or finds none.                                     *)
LEMMA DeletejobImplements ==
    ASSUME TypeInv, ListInv, ListInv', ChldTerminated
    PROVE  Promise!Next \/ Shown' = Shown
<1>1. CASE chld.pid = NoPid
  <2>1. jobs' = jobs
    BY <1>1 DEF ChldTerminated, deletejob, getjobpid, listVars
  <2> QED  BY <2>1, ShownKept
<1>2. CASE chld.pid # NoPid
  <2>1. PICK p \in Pids : p = chld.pid
    BY <1>2 DEF TypeInv, TypeOK
  <2>2. CASE jobs' = jobs
    BY <2>2, ShownKept
  <2>3. CASE \E s \in Slots : jobs[s].pid = p /\ jobs' = [jobs EXCEPT ![s] = clearjob]
    <3>1. PICK s \in Slots :
             /\ jobs[s].pid = p
             /\ jobs'[s].pid = NoPid
             /\ \A t \in Slots : t # s => jobs'[t] = jobs[t]
      BY <2>3 DEF TypeInv, TypeOK, ListTypeOK, clearjob
    <3>2. \A t \in Slots : t # s => jobs[t].pid # p
      BY <1>2, <2>1, <3>1 DEF ListInv, UniquePids
    <3>3. JobState(p)' = "none"
      <4>1. \A t \in Slots : jobs'[t].pid # p
        BY <1>2, <2>1, <3>1, <3>2
      <4> QED  BY <4>1, JobStateResultNext DEF ShownIsListed, ListInv
    <3>4. Shown' = [Shown EXCEPT ![p] = "none"]
      BY <3>1, <3>2, <3>3, ShownChanges
    <3>5. Shown[p] # "none"
      <4>1. JobState(p) = jobs[s].state
        BY <3>1, JobStateResult DEF ShownIsListed, ListInv
      <4> QED  BY <4>1 DEF Shown, TypeInv, TypeOK, ListTypeOK, Job, States
    <3> QED  BY <3>4, <3>5 DEF Promise!Next, Promise!End
  <2> QED  BY <2>1, <2>2, <2>3, DeletejobEffect DEF ChldTerminated, TypeInv, TypeOK
<1> QED
  BY <1>1, <1>2

ImplInv == TypeInv /\ ListInv /\ ForegroundInv

(* Every step of the shell is a step of job control, or a stutter.          *)
LEMMA StepImplements == ImplInv /\ ListInv' /\ [Next]_vars => [Promise!Next]_Shown
<1> SUFFICES ASSUME ImplInv, ListInv', [Next]_vars
             PROVE  Promise!Next \/ Shown' = Shown
  OBVIOUS
<1> USE DEF ImplInv
<1>1. CASE EvalAddjob
  BY <1>1, AddjobImplements
<1>2. CASE JidSetState \/ PidSetState
  <2>1. slot \in Slots /\ want \in {"FG", "BG"} /\ setstate(slot, want) /\ FgSlots = {}
    BY <1>2 DEF JidSetState, PidSetState, TypeInv, Control, Resuming, ForegroundInv,
                ForegroundAwaited
  <2> QED  BY <2>1, SetstateImplements
<1>3. CASE ChldStopped
  <2>1. CASE getjobpid(chld.pid) = NoSlot
    BY <1>3, <2>1, ShownKept DEF ChldStopped, ShellEnds, listVars
  <2>2. CASE getjobpid(chld.pid) # NoSlot
    <3>1. chld.pid \in Pids
      BY <1>3, <2>2 DEF getjobpid, TypeInv, TypeOK
    <3>2. getjobpid(chld.pid) \in Slots
      BY <2>2, <3>1, GetjobpidResult
    <3> QED  BY <1>3, <2>2, <3>2, SetstateImplements DEF ChldStopped
  <2> QED  BY <2>1, <2>2
<1>4. CASE ChldTerminated
  BY <1>4, DeletejobImplements
<1>5. ASSUME ~ EvalAddjob, ~ JidSetState, ~ PidSetState, ~ ChldStopped, ~ ChldTerminated
      PROVE  jobs' = jobs
  <2> USE DEF listVars, vars
  <2>1. CASE MainStep
    BY <1>5, <2>1 DEF MainStep, EvalSetpgid, EvalAnnounce, WaitfgReturns, JidReadPid, JidKill,
                      PidKill, CallWait, ShellEnds
  <2>2. CASE ChldDelivered \/ ChldStep \/ \E h \in TtySignals : TtyForwarded(h)
    BY <1>5, <2>2 DEF ChldDelivered, ChldStep, ChldWaitpid, ChldNoMore, TtyForwarded
  <2>3. CASE UserStep
    BY <2>3 DEF UserStep, Quit, EvalForkFails, QuitCaught, EvalFork, FindByPid, FindByJid,
                TtyCaught, ShellEnds
  <2>4. CASE ChildStep
    BY <2>4 DEF ChildStep, Exec, ExecFails, Ends, Stops, ChildSteps
  <2> QED  BY <2>1, <2>2, <2>3, <2>4 DEF Next
<1> QED
  BY <1>1, <1>2, <1>3, <1>4, <1>5, ShownKept

(* The job list implements job control: jobs start only when nothing is in  *)
(* the foreground, and change state only as the header comment of tsh.c     *)
(* says (or, in the background, when something else stops them).            *)
THEOREM JobControlImplemented == Spec => ImplementsJobControl
<1>1. Init => ImplInv
  BY InitType
  DEF Init, initjobs, clearjob, ListInv, NewChild, UniquePids, ListedStates,
      ListedJobsUnreaped, Forking, ForegroundInv, ForegroundAwaited, AtMostOneFg, FgSlots, ImplInv
<1>2. Init => Promise!Init
  <2> SUFFICES ASSUME Init, NEW p \in Pids PROVE JobState(p) = "none"
    BY DEF Promise!Init, Shown
  <2>1. PidSlots(p) = {}
    BY JobListAssumption DEF Init, initjobs, clearjob, PidSlots
  <2> QED  BY <2>1 DEF JobState
<1>3. ImplInv /\ [Next]_vars => ImplInv'
  BY NextType, ListStep, ForegroundStep DEF ImplInv
<1>4. ImplInv /\ ImplInv' /\ [Next]_vars => [Promise!Next]_Shown
  BY StepImplements DEF ImplInv
<1> QED
  BY <1>1, <1>2, <1>3, <1>4, PTL DEF Spec, ImplementsJobControl, Promise!Spec
=============================================================================
