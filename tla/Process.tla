------------------------------- MODULE Process -------------------------------
(***************************************************************************)
(* utilmm::process: objects that fork, watch, signal and reap one child    *)
(* each, together with the part of the kernel they talk to (fork, execvp,  *)
(* waitpid, kill, the error pipe of start()) and the SIGINT handling that  *)
(* the class installs.                                                     *)
(*                                                                         *)
(* One thread of the program uses the class (mtx_processes is never        *)
(* locked, so the code supports no more).  What runs beside that thread:   *)
(* its children, SIGINT handlers, and foreign processes that take and give *)
(* back process ids.  A call that makes several system calls is one action *)
(* per system call; `caller' says where the thread is.                     *)
(***************************************************************************)
EXTENDS Integers, FiniteSets

CONSTANTS
  Objs,            \* the utilmm::process objects of the program
  NoObj,           \* no object
  Pids,            \* the process ids the kernel hands out (a bound)
  ExitCodes,       \* the exit codes of the programs that are started (a bound)
  InitHandlers,    \* SIGINT dispositions the program may start with
  IdleWait,        \* do callers call wait() on an object that is not running?
  Interrupts,      \* are SIGINT and killall() part of the instance?
  SetuidPrograms   \* can a started program refuse our signals (EPERM)?

\* 0 is no process id (for kill and waitpid it names the caller's group), and
\* exit(1) is how a child that cannot exec ends.
ASSUME ProcessAssumption ==
  /\ NoObj \notin Objs
  /\ Pids \subseteq Nat \ {0}
  /\ ExitCodes \subseteq Nat
  /\ {0, 1} \subseteq ExitCodes
  /\ InitHandlers \subseteq {"default", "ignored", "app", "killer"}
  /\ {IdleWait, Interrupts, SetuidPrograms} \subseteq BOOLEAN

VARIABLES
  managed,            \* managed_processes: the registered objects
  m_running, m_pid, m_normalexit, m_status, m_do_setpgid,
  caller,             \* the call the program's thread is in: op, object, child
  up,                 \* the program has not been ended by SIGINT
  handler,            \* the disposition of SIGINT
  old_sigint_handler, \* the handler sigint_handler calls, or "none"
  pending,            \* SIGINT is pending for the program
  st,                 \* kernel: what each process id stands for
  grp,                \* kernel: the process group of each child
  sig,                \* kernel: the processes that SIGINT was sent to
  code,               \* kernel: how a zombie ended
  setuid,             \* kernel: the processes that refuse our signals
  deaf,               \* kernel: the children that ignore SIGINT
  reports,            \* the children that wrote to their error pipe
  owner,              \* ghost: the object whose start() forked the child and
                      \* has not given it up by detach() or by throwing
  lost                \* ghost: the children whose start() threw

objVars    == <<m_running, m_pid, m_normalexit, m_status>>
signalVars == <<up, handler, old_sigint_handler, pending>>
childVars  == <<grp, code, setuid, deaf, reports, owner, lost>>
kernelVars == <<st, sig, childVars>>
vars == <<managed, objVars, m_do_setpgid, caller, signalVars, kernelVars>>

-----------------------------------------------------------------------------
(* State                                                                     *)

ChildStates  == {"forked", "setup", "report", "running", "zombie"}
KernelStates == ChildStates \cup {"free", "foreign"}
Signalled    == -1
Ops == {"none", "fork", "read", "read2", "kill", "wait", "dkill", "dwait"}
NoCall == [op |-> "none", obj |-> NoObj, child |-> 0]
Calling(op, o) == [op |-> op, obj |-> o, child |-> 0]

Init ==
  /\ managed = {}
  /\ m_running    = [o \in Objs |-> FALSE]
  /\ m_pid        = [o \in Objs |-> 0]
  /\ m_normalexit = [o \in Objs |-> TRUE]
  /\ m_status     = [o \in Objs |-> 0]
  /\ m_do_setpgid = [o \in Objs |-> FALSE]
  /\ caller = NoCall
  /\ up = TRUE
  /\ handler \in InitHandlers
  /\ old_sigint_handler = "none"
  /\ pending = FALSE
  /\ st   = [p \in Pids |-> "free"]
  /\ grp  = [p \in Pids |-> "program"]
  /\ code = [p \in Pids |-> 0]
  /\ sig = {} /\ setuid = {} /\ deaf = {} /\ reports = {} /\ lost = {}
  /\ owner = [p \in Pids |-> NoObj]

\* A signal is taken before the thread's next step.
At(op) == up /\ ~pending /\ caller.op = op
Idle   == At("none")
Return == caller' = NoCall

IsChild(p) == st[p] \in ChildStates
Alive(p)   == st[p] \in (ChildStates \ {"zombie"}) \cup {"foreign"}
\* setpgid(0, m_pgid) in the child takes it out of the program's group.
InGroup(p) == IsChild(p) /\ grp[p] # "own"

-----------------------------------------------------------------------------
(* waitpid() and process::wait(bool)                                         *)

\* The children waitpid(m_pid, ...) looks at: 0 stands for the whole group.
WaitTargets(o) ==
  {p \in Pids : IF m_pid[o] = 0 THEN InGroup(p) ELSE IsChild(p) /\ p = m_pid[o]}

\* Mutant: the exit code of a signalled program is left from an earlier run.
SetStatusKeepOld(o, p) ==
  /\ m_normalexit' = [m_normalexit EXCEPT ![o] = code[p] # Signalled]
  /\ m_status' = [m_status EXCEPT ![o] = IF code[p] = Signalled THEN @ ELSE code[p]]

\* Mutant: WEXITSTATUS is taken without asking WIFEXITED.
SetStatusRaw(o, p) ==
  /\ m_normalexit' = [m_normalexit EXCEPT ![o] = code[p] # Signalled]
  /\ m_status' = [m_status EXCEPT ![o] = code[p]]

SetStatus(o, p) ==
  /\ m_normalexit' = [m_normalexit EXCEPT ![o] = code[p] # Signalled]
  /\ m_status' = [m_status EXCEPT ![o] = IF code[p] = Signalled THEN 0 ELSE code[p]]

\* The kernel forgets a reaped child; its id may be handed out again.
Release(p) ==
  /\ st'     = [st EXCEPT ![p] = "free"]
  /\ grp'    = [grp EXCEPT ![p] = "program"]
  /\ code'   = [code EXCEPT ![p] = 0]
  /\ owner'  = [owner EXCEPT ![p] = NoObj]
  /\ sig'    = sig \ {p}
  /\ setuid' = setuid \ {p}
  /\ deaf'   = deaf \ {p}
  /\ reports' = reports \ {p}
  /\ lost'   = lost \ {p}

\* Mutant: wait(false) leaves m_running as it was.
ReapStillRunning(o, p) ==
  /\ st[p] = "zombie"
  /\ Release(p)
  /\ SetStatus(o, p)
  /\ UNCHANGED <<m_running, m_pid>>

\* wait_ret > 0.
Reap(o, p) ==
  /\ st[p] = "zombie"
  /\ Release(p)
  /\ SetStatus(o, p)
  /\ m_running' = [m_running EXCEPT ![o] = FALSE]
  /\ UNCHANGED m_pid

\* ECHILD: the child is taken to have terminated, without a status.
WaitError(o) ==
  /\ WaitTargets(o) = {}
  /\ m_running' = [m_running EXCEPT ![o] = FALSE]
  /\ UNCHANGED <<m_pid, m_normalexit, m_status, kernelVars>>

\* wait(true) once waitpid returns; wait(false) when there is something to say.
WaitReturns(o) ==
  \/ \E p \in WaitTargets(o) : Reap(o, p)
  \/ WaitError(o)

\* waitpid(..., WNOHANG) returned 0.
NothingToReap(o) ==
  /\ WaitTargets(o) # {}
  /\ \A p \in WaitTargets(o) : st[p] # "zombie"
  /\ UNCHANGED <<objVars, kernelVars>>

\* process::running(): its result is m_running'[o].
Running(o) ==
  \/ m_running[o] /\ (WaitReturns(o) \/ NothingToReap(o))
  \/ ~m_running[o] /\ UNCHANGED <<objVars, kernelVars>>

-----------------------------------------------------------------------------
(* The calls of the program's thread                                         *)

\* An object that does not exist has the values its constructor will give it.
ObjectGone(o) ==
  /\ m_running'    = [m_running EXCEPT ![o] = FALSE]
  /\ m_pid'        = [m_pid EXCEPT ![o] = 0]
  /\ m_normalexit' = [m_normalexit EXCEPT ![o] = TRUE]
  /\ m_status'     = [m_status EXCEPT ![o] = 0]
  /\ m_do_setpgid' = [m_do_setpgid EXCEPT ![o] = FALSE]

Construct(o) ==
  /\ Idle /\ o \notin managed
  /\ managed' = managed \cup {o}
  /\ UNCHANGED <<objVars, m_do_setpgid, caller, signalVars, kernelVars>>

SetPgid(o) ==
  /\ Idle /\ o \in managed
  /\ m_do_setpgid' = [m_do_setpgid EXCEPT ![o] = TRUE]
  /\ UNCHANGED <<managed, objVars, caller, signalVars, kernelVars>>

\* Mutant: start() does not ask whether a child is running.
StartCallUnchecked(o) ==
  /\ Idle /\ o \in managed
  /\ caller' = Calling("fork", o)
  /\ UNCHANGED <<managed, objVars, m_do_setpgid, signalVars, kernelVars>>

\* start(): `if (running()) throw already_running();'
StartCall(o) ==
  /\ Idle /\ o \in managed
  /\ Running(o)
  /\ caller' = IF m_running'[o] THEN NoCall ELSE Calling("fork", o)
  /\ UNCHANGED <<managed, m_do_setpgid, signalVars>>

StartForkFails ==
  /\ At("fork")
  /\ Return
  /\ UNCHANGED <<managed, objVars, m_do_setpgid, signalVars, kernelVars>>

\* The parent goes on to read the error pipe, whose write end it has closed.  A
\* disposition that ignores SIGINT is the child's too, and its program's.
StartFork ==
  /\ At("fork")
  /\ \E p \in Pids :
       /\ st[p] = "free"
       /\ st'    = [st EXCEPT ![p] = "forked"]
       /\ grp'   = [grp EXCEPT ![p] = IF m_do_setpgid[caller.obj] THEN "leaving" ELSE "program"]
       /\ owner' = [owner EXCEPT ![p] = caller.obj]
       /\ deaf'  = IF handler = "ignored" THEN deaf \cup {p} ELSE deaf
       /\ caller' = [op |-> "read", obj |-> caller.obj, child |-> p]
  /\ UNCHANGED <<managed, objVars, m_do_setpgid, signalVars, sig, code, setuid, reports, lost>>

\* The write end is closed on exec and on exit.
PipeEOF(p) == st[p] \in {"running", "zombie"}

\* The first read() returns 0: the child has got past execvp().
StartSucceeds ==
  /\ At("read") /\ PipeEOF(caller.child) /\ caller.child \notin reports
  /\ m_pid'     = [m_pid EXCEPT ![caller.obj] = caller.child]
  /\ m_running' = [m_running EXCEPT ![caller.obj] = TRUE]
  /\ Return
  /\ UNCHANGED <<managed, m_normalexit, m_status, m_do_setpgid, signalVars, kernelVars>>

\* unix_error leaves start(): m_pid and m_running keep their values and nobody
\* keeps the child's id.
GiveUp(p) ==
  /\ owner' = [owner EXCEPT ![p] = NoObj]
  /\ lost'  = lost \cup {p}

\* Any other outcome of the first read(), or the end of the second one.
StartThrows ==
  /\ \/ At("read") /\ caller.child \in reports
     \/ At("read2") /\ (caller.child \in reports \/ PipeEOF(caller.child))
  /\ GiveUp(caller.child)
  /\ Return
  /\ UNCHANGED <<managed, objVars, m_do_setpgid, signalVars, st, sig, grp, code, setuid, deaf, reports>>

IsRunning(o) ==
  /\ Idle /\ o \in managed
  /\ Running(o)
  /\ UNCHANGED <<managed, m_do_setpgid, caller, signalVars>>

\* wait(): the caller is blocked until WaitDone.
WaitCall(o) ==
  /\ Idle /\ o \in managed
  /\ IdleWait \/ m_running[o]
  /\ caller' = Calling("wait", o)
  /\ UNCHANGED <<managed, objVars, m_do_setpgid, signalVars, kernelVars>>

WaitDone ==
  /\ At("wait")
  /\ WaitReturns(caller.obj)
  /\ Return
  /\ UNCHANGED <<managed, m_do_setpgid, signalVars>>

Detach(o) ==
  /\ Idle /\ o \in managed
  /\ m_running' = [m_running EXCEPT ![o] = FALSE]
  /\ m_pid'     = [m_pid EXCEPT ![o] = 0]
  /\ owner' = [p \in Pids |-> IF owner[p] = o THEN NoObj ELSE owner[p]]
  /\ UNCHANGED <<managed, m_normalexit, m_status, m_do_setpgid, caller, signalVars,
                 st, sig, grp, code, setuid, deaf, reports, lost>>

\* Mutant: signal() does not ask whether the child is running.
SignalCallUnguarded(o) ==
  /\ Idle /\ o \in managed
  /\ caller' = Calling("kill", o)
  /\ UNCHANGED <<managed, objVars, m_do_setpgid, signalVars, kernelVars>>

\* signal(): `if (!running()) return;', then kill() in KillDone.
SignalCall(o) ==
  /\ Idle /\ o \in managed
  /\ Running(o)
  /\ caller' = IF m_running'[o] THEN Calling("kill", o) ELSE NoCall
  /\ UNCHANGED <<managed, m_do_setpgid, signalVars>>

\* What kill(pid, ...) addresses: 0 is the group.
Addressed(pid) == {p \in Pids : IF pid = 0 THEN InGroup(p) ELSE p = pid}

\* SIGINT sent to the processes of S: zombies ignore it, and kill() refuses
\* with EPERM the ones that run as another user.
Reached(S) == {p \in S : Alive(p) /\ p \notin setuid}
SendTo(S)  == sig' = sig \cup Reached(S)

\* kill() succeeds, or says ESRCH.
KillDone ==
  /\ At("kill") /\ m_pid[caller.obj] \notin setuid
  /\ SendTo(Addressed(m_pid[caller.obj]))
  /\ Return
  /\ UNCHANGED <<managed, objVars, m_do_setpgid, signalVars, st, childVars>>

\* EPERM: signal() throws unix_error.
KillDenied ==
  /\ At("kill") /\ m_pid[caller.obj] \in setuid
  /\ Return
  /\ UNCHANGED <<managed, objVars, m_do_setpgid, signalVars, kernelVars>>

-----------------------------------------------------------------------------
(* The destructor                                                            *)

\* deregister_process(), then signal() and wait(true) if m_running.  signal()
\* begins with running(); wait(true) follows even if that reaped the child.
Destroy(o) ==
  /\ Idle /\ o \in managed
  /\ managed' = managed \ {o}
  /\ \/ /\ ~m_running[o]
        /\ ObjectGone(o)
        /\ UNCHANGED <<caller, kernelVars>>
     \/ /\ m_running[o]
        /\ Running(o)
        /\ caller' = Calling(IF m_running'[o] THEN "dkill" ELSE "dwait", o)
        /\ UNCHANGED m_do_setpgid
  /\ UNCHANGED signalVars

\* Mutant: the destructor waits without having signalled the child.
DestroyKillForgotten ==
  /\ At("dkill") /\ m_pid[caller.obj] \notin setuid
  /\ caller' = Calling("dwait", caller.obj)
  /\ UNCHANGED <<managed, objVars, m_do_setpgid, signalVars, kernelVars>>

\* Mutant: the destructor signals the child and does not wait for it.
DestroyKillNoWait ==
  /\ At("dkill") /\ m_pid[caller.obj] \notin setuid
  /\ SendTo(Addressed(m_pid[caller.obj]))
  /\ Return
  /\ UNCHANGED <<managed, objVars, m_do_setpgid, signalVars, st, childVars>>

DestroyKill ==
  /\ At("dkill") /\ m_pid[caller.obj] \notin setuid
  /\ SendTo(Addressed(m_pid[caller.obj]))
  /\ caller' = Calling("dwait", caller.obj)
  /\ UNCHANGED <<managed, objVars, m_do_setpgid, signalVars, st, childVars>>

\* EPERM: unix_error leaves the destructor and wait() is not reached.
DestroyThrows ==
  /\ At("dkill") /\ m_pid[caller.obj] \in setuid
  /\ GiveUp(m_pid[caller.obj])
  /\ ObjectGone(caller.obj)
  /\ Return
  /\ UNCHANGED <<managed, signalVars, st, sig, grp, code, setuid, deaf, reports>>

DestroyWait ==
  /\ At("dwait")
  /\ \/ \E p \in WaitTargets(caller.obj) : st[p] = "zombie" /\ Release(p)
     \/ WaitTargets(caller.obj) = {} /\ UNCHANGED kernelVars
  /\ ObjectGone(caller.obj)
  /\ Return
  /\ UNCHANGED <<managed, signalVars>>

-----------------------------------------------------------------------------
(* SIGINT                                                                    *)

\* install_sigint_handler(): the static `setup' makes it happen once.
InstallHandler ==
  /\ Interrupts /\ Idle /\ handler # "utilmm"
  /\ old_sigint_handler' = IF handler \in {"app", "killer"} THEN handler ELSE "none"
  /\ handler' = "utilmm"
  /\ UNCHANGED <<managed, objVars, m_do_setpgid, caller, up, pending, kernelVars>>

\* The disposition that counts: sigint_handler calls the one it replaced.
InForce == IF handler = "utilmm" THEN old_sigint_handler ELSE handler

\* A handler of the application; a "killer" calls killall().
AppHandler == InForce \in {"app", "killer"}

\* SIGINT ends the program: the default action, and sigint_handler's abort().
Deadly == handler # "ignored" /\ ~AppHandler

\* killall(): kill(pid(), SIGINT) for the objects of S; 0 is the group, the
\* program included.
KillAddressed(S) == SendTo(UNION {Addressed(m_pid[o]) : o \in S})
KillsSelf(S) == \E o \in S : m_pid[o] = 0

\* If the program signals itself and does not survive that, it does not get to
\* the rest of the list.
Killall ==
  /\ Interrupts /\ Idle
  /\ \E S \in SUBSET managed :
       /\ S = managed \/ (Deadly /\ KillsSelf(S))
       /\ KillAddressed(S)
       /\ pending' = (KillsSelf(S) /\ handler # "ignored")
  /\ UNCHANGED <<managed, objVars, m_do_setpgid, caller, up, handler, old_sigint_handler,
                 st, childVars>>

\* SIGINT from outside: to the program, or (Ctrl-C) to its whole group.
Interrupt ==
  /\ Interrupts /\ up /\ ~pending /\ handler # "ignored"
  /\ pending' = TRUE
  /\ \/ UNCHANGED sig
     \/ SendTo({p \in Pids : InGroup(p)})
  /\ UNCHANGED <<managed, objVars, m_do_setpgid, caller, up, handler, old_sigint_handler,
                 st, childVars>>

SigintEnds ==
  /\ up /\ pending /\ Deadly
  /\ up' = FALSE /\ pending' = FALSE
  /\ UNCHANGED <<managed, objVars, m_do_setpgid, caller, handler, old_sigint_handler, kernelVars>>

\* The thread is in a read() that has nothing to return.
Blocked ==
  /\ caller.op \in {"read", "read2"}
  /\ ~PipeEOF(caller.child) /\ caller.child \notin reports

\* read() interrupted by a handler installed without SA_RESTART returns -1: the
\* first one is followed by the second, the second by the throw.  A signal that
\* comes before read() is entered changes nothing.
ReadInterrupted ==
  \/ UNCHANGED <<caller, owner, lost>>
  \/ /\ Blocked /\ caller.op = "read"
     /\ caller' = [caller EXCEPT !.op = "read2"]
     /\ UNCHANGED <<owner, lost>>
  \/ Blocked /\ caller.op = "read2" /\ GiveUp(caller.child) /\ Return

\* The application's handler, called by the kernel or by sigint_handler: if
\* it calls killall(), the kill(0, SIGINT) is pending again when it returns.
SigintHandled ==
  /\ up /\ pending /\ AppHandler
  /\ \/ InForce = "app" /\ UNCHANGED sig /\ pending' = FALSE
     \/ InForce = "killer" /\ KillAddressed(managed) /\ pending' = KillsSelf(managed)
  /\ ReadInterrupted
  /\ UNCHANGED <<managed, objVars, m_do_setpgid, up, handler, old_sigint_handler,
                 st, grp, code, setuid, deaf, reports>>

-----------------------------------------------------------------------------
(* The children and the other processes                                      *)

\* From fork to setpgid(), before chdir().
ChildSetup(p) ==
  /\ up /\ st[p] = "forked"
  /\ st'  = [st EXCEPT ![p] = "setup"]
  /\ grp' = [grp EXCEPT ![p] = IF @ = "leaving" THEN "own" ELSE @]
  /\ UNCHANGED <<managed, objVars, m_do_setpgid, caller, signalVars,
                 sig, code, setuid, deaf, reports, owner, lost>>

\* The program may be one of another user, or choose to ignore SIGINT itself.
ChildExecs(p) ==
  /\ up /\ st[p] = "setup"
  /\ st' = [st EXCEPT ![p] = "running"]
  /\ \/ UNCHANGED <<setuid, deaf>>
     \/ SetuidPrograms /\ setuid' = setuid \cup {p} /\ UNCHANGED deaf
     \/ Interrupts /\ deaf' = deaf \cup {p} /\ UNCHANGED setuid
  /\ UNCHANGED <<managed, objVars, m_do_setpgid, caller, signalVars,
                 sig, grp, code, reports, owner, lost>>

\* chdir() or execvp() fails: send_child_error().  If start() has thrown, the
\* read end is closed and SIGPIPE ends the child.
ChildRefuses(p) ==
  /\ up /\ st[p] = "setup"
  /\ IF caller.child = p
     THEN /\ st' = [st EXCEPT ![p] = "report"]
          /\ reports' = reports \cup {p}
          /\ UNCHANGED code
     ELSE /\ st' = [st EXCEPT ![p] = "zombie"]
          /\ code' = [code EXCEPT ![p] = Signalled]
          /\ UNCHANGED reports
  /\ UNCHANGED <<managed, objVars, m_do_setpgid, caller, signalVars,
                 sig, grp, setuid, deaf, owner, lost>>

Ends(p, c) ==
  /\ st'   = [st EXCEPT ![p] = "zombie"]
  /\ code' = [code EXCEPT ![p] = c]
  /\ UNCHANGED <<managed, objVars, m_do_setpgid, caller, signalVars,
                 sig, grp, setuid, deaf, reports, owner, lost>>

\* exit(1) at the end of send_child_error().
ChildExits1(p) == up /\ st[p] = "report" /\ Ends(p, 1)

\* A started program exits, or crashes.
ProgramEnds(p) ==
  /\ up /\ st[p] = "running"
  /\ \E c \in ExitCodes \cup {Signalled} : Ends(p, c)

BeforeExec(p) == st[p] \in {"forked", "setup", "report"}

\* SIGINT ends the child: its program, which starts with no handler, or before
\* the exec the copy of this program, unless that has the application's handler.
ChildKilled(p) ==
  /\ up /\ p \in sig \ deaf
  /\ st[p] = "running" \/ (BeforeExec(p) /\ ~AppHandler)
  /\ Ends(p, Signalled)

\* What kill(pid, ...) addresses in the child p: 0 is the group that p is in.
AddressedFrom(p, pid) == IF pid = 0 /\ ~InGroup(p) THEN {p} ELSE Addressed(pid)

\* The application's handler, called in the copy: killall() in it signals what it
\* does in the program, whose managed and m_pid the copy has.
ChildHandles(p) ==
  /\ up /\ BeforeExec(p) /\ p \in sig \ deaf
  /\ \/ /\ InForce = "app"
        /\ sig' = sig \ {p}
        /\ UNCHANGED pending
     \/ /\ InForce = "killer"
        /\ sig' = (sig \ {p}) \cup Reached(UNION {AddressedFrom(p, m_pid[o]) : o \in managed})
        /\ pending' = (pending \/ (KillsSelf(managed) /\ InGroup(p)))
  /\ UNCHANGED <<managed, objVars, m_do_setpgid, caller, up, handler, old_sigint_handler,
                 st, childVars>>

\* Processes that are not ours.
ForeignStarts(p) ==
  /\ up /\ st[p] = "free"
  /\ st' = [st EXCEPT ![p] = "foreign"]
  /\ UNCHANGED <<managed, objVars, m_do_setpgid, caller, signalVars, sig, childVars>>

ForeignEnds(p) ==
  /\ up /\ st[p] = "foreign"
  /\ st' = [st EXCEPT ![p] = "free"]
  /\ sig' = sig \ {p}
  /\ UNCHANGED <<managed, objVars, m_do_setpgid, caller, signalVars, childVars>>

-----------------------------------------------------------------------------
(* The specification                                                         *)

CallerStep ==
  \/ StartForkFails \/ StartFork \/ StartSucceeds \/ StartThrows
  \/ KillDone \/ KillDenied \/ WaitDone
  \/ DestroyKill \/ DestroyThrows \/ DestroyWait

NewCall(o) ==
  \/ Construct(o) \/ SetPgid(o) \/ StartCall(o) \/ IsRunning(o) \/ WaitCall(o)
  \/ Detach(o) \/ SignalCall(o) \/ Destroy(o)

SigintStep == InstallHandler \/ Killall \/ Interrupt \/ SigintEnds \/ SigintHandled

ChildStarts(p) == ChildSetup(p) \/ ChildExecs(p) \/ ChildRefuses(p) \/ ChildExits1(p)

KernelStep(p) ==
  \/ ChildStarts(p) \/ ProgramEnds(p) \/ ChildKilled(p) \/ ChildHandles(p)
  \/ ForeignStarts(p) \/ ForeignEnds(p)

Next ==
  \/ CallerStep
  \/ \E o \in Objs : NewCall(o)
  \/ SigintStep
  \/ \E p \in Pids : KernelStep(p)

Spec == Init /\ [][Next]_vars

\* The thread goes on with the call it is in between two signals, a signal is
\* delivered, a forked child reaches exec or exit(1), and SIGINT ends a child
\* that got it and does not ignore it.
FairSpec ==
  /\ Spec
  /\ SF_vars(CallerStep)
  /\ WF_vars(SigintEnds) /\ WF_vars(SigintHandled)
  /\ \A p \in Pids : WF_vars(ChildStarts(p)) /\ WF_vars(ChildKilled(p))

-----------------------------------------------------------------------------
(* Properties                                                                *)

\* Every variable keeps its type (process.hh:46-52, process.cc:66-69, 93).
TypeOK ==
  /\ managed \subseteq Objs
  /\ m_running \in [Objs -> BOOLEAN]
  /\ m_pid \in [Objs -> Pids \cup {0}]
  /\ m_normalexit \in [Objs -> BOOLEAN]
  /\ m_status \in [Objs -> ExitCodes]
  /\ m_do_setpgid \in [Objs -> BOOLEAN]
  /\ caller \in [op : Ops, obj : Objs \cup {NoObj}, child : Pids \cup {0}]
  /\ up \in BOOLEAN /\ pending \in BOOLEAN
  /\ handler \in {"default", "ignored", "app", "killer", "utilmm"}
  /\ old_sigint_handler \in {"none", "app", "killer"}
  /\ st \in [Pids -> KernelStates]
  /\ grp \in [Pids -> {"program", "leaving", "own"}]
  /\ code \in [Pids -> ExitCodes \cup {Signalled}]
  /\ owner \in [Pids -> Objs \cup {NoObj}]
  /\ {sig, setuid, deaf, reports, lost} \subseteq SUBSET Pids

\* m_running is never stale in the harmful direction: as long as it says TRUE,
\* m_pid is the id of the child this object forked, got past execvp() and has
\* not been reaped by anyone, so that the id cannot have been handed out again.
RunningOwnsChild ==
  \A o \in Objs : m_running[o] =>
    /\ m_pid[o] # 0
    /\ st[m_pid[o]] \in {"running", "zombie"}
    /\ owner[m_pid[o]] = o

\* No child gets out of reach: an unreaped child that was not given up (by
\* detach() or by an exception) is the one its object runs, or is starting.
EveryChildHeld ==
  \A p \in Pids : IsChild(p) /\ owner[p] # NoObj =>
    \/ caller.obj = owner[p] /\ caller.child = p
    \/ m_running[owner[p]] /\ m_pid[owner[p]] = p

\* Destroying an object that was not detached does not leave its child behind
\* (process.hh:112-113): once ~process() has returned there is no such child.
NoChildOutlivesObject ==
  \A p \in Pids : IsChild(p) /\ owner[p] # NoObj =>
    owner[p] \in managed \/ caller.obj = owner[p]

\* A start() that throws has not left its program running (process.hh:84): the
\* child whose start() threw is on its way out.
ThrownStartRunsNothing ==
  \A p \in lost : st[p] \in {"report", "zombie"} \/ p \in setuid

ReapedOwnChild(o) ==
  LET p == m_pid[o]
  IN  /\ st[p] = "zombie" /\ owner[p] = o /\ st'[p] = "free"
      /\ m_normalexit'[o] = (code[p] # Signalled)
      /\ m_status'[o] = IF code[p] = Signalled THEN 0 ELSE code[p]

\* exit_normal() and exit_status() tell the end of the process this object ran
\* last (process.hh:169-172): when m_running is dropped and the object neither
\* detached nor destroyed, it is because the object reaped its own child, and the
\* two fields are that child's.
ReapsOwnChild ==
  [][\A o \in Objs :
       m_running[o] /\ ~m_running'[o] /\ m_pid'[o] # 0 => ReapedOwnChild(o)]_vars

\* signal() and the destructor send a signal to nobody but the child that the
\* object started: not to a process that has got its id since, not to a group.
SignalsOnlyOwnChild ==
  [][KillDone \/ DestroyKill =>
       \A p \in sig' \ sig : owner[p] = caller.obj]_vars

\* start() returns or throws, whatever happens to the child.  Only a handler that
\* calls killall(), and so sends the program one SIGINT after the other, can
\* keep the thread for ever.
StartReturns ==
  caller.op \in {"fork", "read", "read2"} ~> caller.op = "none" \/ ~up \/ InForce = "killer"

\* The destructor waits for a child that runs on in spite of its SIGINT.
WaitsForDeaf ==
  /\ caller.op = "dwait"
  /\ m_pid[caller.obj] \in deaf /\ st[m_pid[caller.obj]] = "running"

\* ~process() returns when the child it has signalled ends.  That is not always:
\* the child runs on if it ignores SIGINT, as every child does that a program
\* started which ignores SIGINT itself, and nothing stronger is sent.
DestroyReturns ==
  caller.op \in {"dkill", "dwait"} ~>
    caller.op = "none" \/ ~up \/ InForce = "killer" \/ WaitsForDeaf

\* start() and ~process() come to an end, but for a handler that calls killall()
\* and for children that ignore SIGINT, which ~process() (process.cc:116-117)
\* waits for as long as they please.
CallsReturn == StartReturns /\ DestroyReturns

\* killall() signals the processes managed by the registered objects and
\* nothing else (process.hh:100).
KillallOnlyManaged ==
  [][Killall => \A p \in sig' \ sig : \E o \in managed : m_running[o] /\ m_pid[o] = p]_vars

=============================================================================
