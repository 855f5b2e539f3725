------------------------- MODULE ProcessHandleProofs -------------------------
(* Process implements ChildHandle, for every set of objects and process ids:  *)
(* every step of Process is one step of one handle, or none.                  *)
EXTENDS ProcessHandle, ProcessProofs

USE ProcessAssumption DEF ChildStates, KernelStates, Ops, NoCall, Calling, At, Idle, Return, Signalled

-----------------------------------------------------------------------------
(* What is seen of one object.                                               *)

Starting(o) == caller.obj = o /\ caller.op \in {"fork", "read", "read2"}
Closing(o)  == caller.obj = o /\ caller.op \in {"dkill", "dwait"}

PhaseOf(o) ==
  IF Starting(o) THEN "starting"
  ELSE IF Closing(o) THEN "closing"
  ELSE IF o \notin managed THEN "absent"
  ELSE IF m_running[o] THEN "running" ELSE "ready"

ProgramOf(o) ==
  IF ~m_running[o] THEN -3
  ELSE IF st[m_pid[o]] = "zombie" THEN code[m_pid[o]] ELSE -2

EndOf(o) == [normal |-> m_normalexit[o], status |-> m_status[o]]

LEMMA Views ==
  /\ phase = [o \in Objs |-> PhaseOf(o)] /\ phase' = [o \in Objs |-> PhaseOf(o)']
  /\ program = [o \in Objs |-> ProgramOf(o)] /\ program' = [o \in Objs |-> ProgramOf(o)']
  /\ result = [o \in Objs |-> EndOf(o)] /\ result' = [o \in Objs |-> EndOf(o)']
<1>1. phase = [o \in Objs |-> PhaseOf(o)] /\ phase' = [o \in Objs |-> PhaseOf(o)']
  BY DEF phase, PhaseOf, Starting, Closing
<1>2. program = [o \in Objs |-> ProgramOf(o)] /\ program' = [o \in Objs |-> ProgramOf(o)']
  BY DEF program, ProgramOf
<1>3. result = [o \in Objs |-> EndOf(o)] /\ result' = [o \in Objs |-> EndOf(o)']
  BY DEF result, EndOf
<1> QED
  BY <1>1, <1>2, <1>3

\* The program and the result of x stay; so does all of it.
Quiet(x) == ProgramOf(x)' = ProgramOf(x) /\ EndOf(x)' = EndOf(x)
Same(x)  == PhaseOf(x)' = PhaseOf(x) /\ Quiet(x)
Only(o)  == \A x \in Objs \ {o} : Same(x)

\* All stay: the handles stutter.  One changes: the functions change there.
LEMMA Stutter ==
  ASSUME \A x \in Objs : Same(x)
  PROVE  UNCHANGED Handle!vars
<1>1. phase' = phase /\ program' = program /\ result' = result
  BY Views DEF Same, Quiet
<1> QED
  BY <1>1 DEF Handle!vars

LEMMA One ==
  ASSUME NEW o \in Objs, Only(o)
  PROVE  /\ phase[o] = PhaseOf(o) /\ program[o] = ProgramOf(o) /\ result[o] = EndOf(o)
         /\ phase' = [phase EXCEPT ![o] = PhaseOf(o)']
         /\ program' = [program EXCEPT ![o] = ProgramOf(o)']
         /\ result' = [result EXCEPT ![o] = EndOf(o)']
         /\ ProgramOf(o)' = ProgramOf(o) => program' = program
         /\ EndOf(o)' = EndOf(o) => result' = result
         /\ PhaseOf(o)' = PhaseOf(o) => phase' = phase
  BY Views DEF Only, Same, Quiet

LEMMA MoveOne ==
  ASSUME NEW o \in Objs, Only(o), NEW from, NEW to, PhaseOf(o) = from, PhaseOf(o)' = to
  PROVE  Handle!Move(o, from, to)
  BY One DEF Handle!Move

-----------------------------------------------------------------------------
(* The invariant                                                             *)

\* The object whose destructor runs is not registered any more, and only a
\* program that changes its user refuses signals.
HandleInv ==
  /\ OwnInv
  /\ caller.op \in {"dkill", "dwait"} => caller.obj \notin managed
  /\ setuid # {} => SetuidPrograms

LEMMA HandleInvInit == Init => HandleInv
  BY InitOwn DEF Init, HandleInv

LEMMA HandleInvStep ==
  ASSUME ~IdleWait, HandleInv, [Next]_vars
  PROVE  HandleInv'
<1>1. OwnInv'
  BY OwnStep DEF HandleInv
<1>2. (caller.op \in {"dkill", "dwait"} => caller.obj \notin managed)'
  <2>1. CASE CallerStep
    <3>1. managed' = managed
      BY <2>1
      DEF CallerStep, StartForkFails, StartFork, StartSucceeds, StartThrows, KillDone, KillDenied,
          WaitDone, DestroyKill, DestroyThrows, DestroyWait
    <3>2. \/ caller'.op \in {"none", "read"}
          \/ caller.op = "dkill" /\ caller'.obj = caller.obj
      <4>1. CASE StartFork
        BY <4>1 DEF StartFork
      <4>2. CASE DestroyKill
        BY <4>2 DEF DestroyKill
      <4>3. CASE ~StartFork /\ ~DestroyKill
        <5>1. caller' = NoCall
          BY <2>1, <4>3
          DEF CallerStep, StartForkFails, StartSucceeds, StartThrows, KillDone, KillDenied,
              WaitDone, DestroyThrows, DestroyWait
        <5> QED
          BY <5>1
      <4> QED
        BY <4>1, <4>2, <4>3
    <3> QED
      BY <3>1, <3>2 DEF HandleInv
  <2>2. ASSUME NEW o \in Objs, NewCall(o)
        PROVE  (caller.op \in {"dkill", "dwait"} => caller.obj \notin managed)'
    <3>1. CASE Destroy(o)
      <4>1. CASE m_running[o]
        <5>1. managed' = managed \ {o} /\ caller' = Calling(IF m_running'[o] THEN "dkill" ELSE "dwait", o)
          BY <3>1, <4>1 DEF Destroy
        <5> QED
          BY <5>1
      <4>2. CASE ~m_running[o]
        BY <3>1, <4>2 DEF Destroy
      <4> QED
        BY <4>1, <4>2
    <3>2. CASE ~Destroy(o)
      <4>1. caller' \in {caller, NoCall, Calling("fork", o), Calling("wait", o), Calling("kill", o)}
            /\ caller.op = "none"
        BY <2>2, <3>2
        DEF NewCall, Construct, SetPgid, StartCall, IsRunning, WaitCall, Detach, SignalCall
      <4> QED
        BY <4>1
    <3> QED
      BY <3>1, <3>2
  <2>3. CASE SigintStep
    <3>1. managed' = managed
      BY <2>3 DEF SigintStep, InstallHandler, Killall, Interrupt, SigintEnds, SigintHandled
    <3>2. caller' = caller \/ caller'.op \in {"none", "read2"}
      <4>1. caller \in [op : Ops, obj : Objs \cup {NoObj}, child : Pids \cup {0}]
        BY DEF HandleInv, OwnInv, HeldInv, TypeOK
      <4>2. CASE SigintHandled
        <5>1. caller' \in {caller, [caller EXCEPT !.op = "read2"], NoCall}
          BY <4>2 DEF SigintHandled, ReadInterrupted
        <5> QED
          BY <4>1, <5>1
      <4>3. CASE ~SigintHandled
        BY <2>3, <4>3 DEF SigintStep, InstallHandler, Killall, Interrupt, SigintEnds
      <4> QED
        BY <4>2, <4>3
    <3> QED
      BY <3>1, <3>2 DEF HandleInv
  <2>4. ASSUME NEW p \in Pids, KernelStep(p)
        PROVE  (caller.op \in {"dkill", "dwait"} => caller.obj \notin managed)'
    BY <2>4
    DEF KernelStep, ChildStarts, ChildSetup, ChildExecs, ChildRefuses, ChildExits1,
        ProgramEnds, ChildKilled, ChildHandles, Ends, ForeignStarts, ForeignEnds, HandleInv
  <2>5. CASE UNCHANGED vars
    BY <2>5 DEF vars, HandleInv
  <2> QED
    BY <2>1, <2>2, <2>3, <2>4, <2>5 DEF Next
<1>3. (setuid # {} => SetuidPrograms)'
  <2>1. setuid' \subseteq setuid \/ SetuidPrograms
    <3>1. CASE CallerStep
      BY <3>1
      DEF CallerStep, StartForkFails, StartFork, StartSucceeds, StartThrows, KillDone, KillDenied,
          WaitDone, WaitReturns, WaitError, Reap, Release, DestroyKill, DestroyThrows, DestroyWait,
          kernelVars, childVars
    <3>2. ASSUME NEW o \in Objs, NewCall(o) PROVE setuid' \subseteq setuid
      <4>1. CASE Running(o)
        BY <4>1, RunningCases DEF WaitError, Reap, Release, kernelVars, childVars
      <4>2. CASE ~Running(o)
        BY <3>2, <4>2
        DEF NewCall, Construct, SetPgid, StartCall, IsRunning, WaitCall, Detach, SignalCall,
            Destroy, kernelVars, childVars
      <4> QED
        BY <4>1, <4>2
    <3>3. CASE SigintStep
      BY <3>3
      DEF SigintStep, InstallHandler, Killall, Interrupt, SigintEnds, SigintHandled,
          kernelVars, childVars
    <3>4. ASSUME NEW p \in Pids, KernelStep(p) PROVE setuid' \subseteq setuid \/ SetuidPrograms
      BY <3>4
      DEF KernelStep, ChildStarts, ChildSetup, ChildExecs, ChildRefuses, ChildExits1,
          ProgramEnds, ChildKilled, ChildHandles, Ends, ForeignStarts, ForeignEnds, childVars
    <3>5. CASE UNCHANGED vars
      BY <3>5 DEF vars, kernelVars, childVars
    <3> QED
      BY <3>1, <3>2, <3>3, <3>4, <3>5 DEF Next
  <2> QED
    BY <2>1 DEF HandleInv
<1> QED
  BY <1>1, <1>2, <1>3 DEF HandleInv

-----------------------------------------------------------------------------
(* What the parts of a step change of the view                               *)

\* A child that is not replaced shows what it did.
LEMMA QuietIf ==
  ASSUME NEW x \in Objs,
         m_running'[x] = m_running[x], m_normalexit'[x] = m_normalexit[x], m_status'[x] = m_status[x],
         m_running[x] => /\ m_pid'[x] = m_pid[x]
                         /\ st'[m_pid[x]] = st[m_pid[x]] /\ code'[m_pid[x]] = code[m_pid[x]]
  PROVE  Quiet(x)
  BY DEF Quiet, ProgramOf, EndOf

\* Nor does the kernel change what it shows, apart from programs and zombies.
LEMMA KernelQuiet ==
  ASSUME HandleInv, UNCHANGED objVars,
         \A p \in Pids : st[p] \in {"running", "zombie"} => st'[p] = st[p] /\ code'[p] = code[p]
  PROVE  \A x \in Objs : Quiet(x)
<1> TAKE x \in Objs
<1>1. m_running[x] => m_pid[x] \in Pids /\ st[m_pid[x]] \in {"running", "zombie"}
  BY DEF HandleInv, OwnInv, HeldInv, TypeOK, RunningOwnsChild
<1> QED
  BY <1>1, QuietIf DEF objVars

LEMMA PhaseSame ==
  ASSUME NEW x \in Objs, x \in managed' <=> x \in managed, m_running'[x] = m_running[x],
         Starting(x)' <=> Starting(x), Closing(x)' <=> Closing(x)
  PROVE  PhaseOf(x)' = PhaseOf(x)
  BY DEF PhaseOf

LEMMA OtherPhase ==
  ASSUME NEW o \in Objs, NEW x \in Objs \ {o}, m_running'[x] = m_running[x],
         x \in managed' <=> x \in managed,
         caller.obj \in {o, NoObj}, caller'.obj \in {o, NoObj}
  PROVE  PhaseOf(x)' = PhaseOf(x)
  BY PhaseSame DEF Starting, Closing

\* A wait that returns collects the end of the object's own program.
LEMMA Collects ==
  ASSUME HandleInv, NEW o \in Objs, m_running[o], WaitReturns(o)
  PROVE  /\ ProgramOf(o) \in Handle!Ends /\ ProgramOf(o)' = -3
         /\ EndOf(o)' = Handle!ResultOf(ProgramOf(o))
         /\ ~m_running'[o] /\ m_pid'[o] = m_pid[o]
         /\ \A x \in Objs \ {o} : m_running'[x] = m_running[x] /\ Quiet(x)
<1> DEFINE p == m_pid[o]
<1>1. Reap(o, p) /\ p \in Pids
  BY OwnTarget DEF WaitReturns, WaitError, WaitTargets, HandleInv
<1>2. st[p] = "zombie" /\ code[p] \in ExitCodes \cup {-1}
  BY <1>1 DEF Reap, HandleInv, OwnInv, HeldInv, TypeOK
<1>3. /\ m_running' = [m_running EXCEPT ![o] = FALSE] /\ m_pid' = m_pid
      /\ m_normalexit' = [m_normalexit EXCEPT ![o] = code[p] # -1]
      /\ m_status' = [m_status EXCEPT ![o] = IF code[p] = -1 THEN 0 ELSE code[p]]
      /\ st' = [st EXCEPT ![p] = "free"] /\ code' = [code EXCEPT ![p] = 0]
  BY <1>1 DEF Reap, SetStatus, Release
<1>4. /\ m_running \in [Objs -> BOOLEAN] /\ m_normalexit \in [Objs -> BOOLEAN]
      /\ m_status \in [Objs -> ExitCodes] /\ m_pid \in [Objs -> Pids \cup {0}]
      /\ st \in [Pids -> KernelStates] /\ code \in [Pids -> ExitCodes \cup {-1}]
  BY DEF HandleInv, OwnInv, HeldInv, TypeOK
<1>5. ProgramOf(o) = code[p] /\ ProgramOf(o)' = -3 /\ ~m_running'[o]
  BY <1>2, <1>3, <1>4 DEF ProgramOf
<1>6. EndOf(o)' = Handle!ResultOf(code[p])
  BY <1>3, <1>4 DEF EndOf, Handle!ResultOf, Handle!Signalled
<1>7. ASSUME NEW x \in Objs \ {o} PROVE m_running'[x] = m_running[x] /\ Quiet(x)
  <2>1. m_running[x] => m_pid[x] # p /\ m_pid[x] \in Pids
    BY <1>4 DEF HandleInv, OwnInv, RunningOwnsChild
  <2>2. /\ m_running'[x] = m_running[x] /\ m_normalexit'[x] = m_normalexit[x]
        /\ m_status'[x] = m_status[x] /\ m_pid'[x] = m_pid[x]
    BY <1>3, <1>4
  <2>3. m_running[x] => st'[m_pid[x]] = st[m_pid[x]] /\ code'[m_pid[x]] = code[m_pid[x]]
    BY <1>3, <1>4, <2>1
  <2> QED
    BY <2>2, <2>3, QuietIf
<1> QED
  BY <1>2, <1>3, <1>5, <1>6, <1>7 DEF Handle!Ends, Handle!Signalled

\* running() collects it, or changes nothing.
LEMMA RunningShows ==
  ASSUME HandleInv, NEW o \in Objs, Running(o)
  PROVE  \/ m_running[o] /\ WaitReturns(o) /\ ~m_running'[o]
         \/ /\ m_running' = m_running /\ m_pid' = m_pid /\ owner' = owner
            /\ \A x \in Objs : Quiet(x)
<1>1. CASE m_running[o] /\ WaitReturns(o)
  BY <1>1, Collects
<1>2. CASE UNCHANGED <<objVars, kernelVars>>
  BY <1>2, KernelQuiet DEF objVars, kernelVars, childVars
<1> QED
  BY <1>1, <1>2 DEF Running, NothingToReap

\* An object that goes shows nothing.
LEMMA GoneShows ==
  ASSUME HandleInv, NEW o \in Objs, ObjectGone(o)
  PROVE  /\ ProgramOf(o)' = Handle!NoProgram /\ EndOf(o)' = Handle!NoResult
         /\ \A x \in Objs \ {o} :
              /\ m_running'[x] = m_running[x] /\ m_pid'[x] = m_pid[x]
              /\ m_normalexit'[x] = m_normalexit[x] /\ m_status'[x] = m_status[x]
  BY DEF HandleInv, OwnInv, HeldInv, TypeOK, ObjectGone, ProgramOf, EndOf, Handle!NoProgram,
         Handle!NoResult

-----------------------------------------------------------------------------
(* The steps                                                                 *)

HandleStep == Handle!Next \/ UNCHANGED Handle!vars

\* The calls that the thread is not in do not speak of the object.
LEMMA CallerFacts ==
  ASSUME HandleInv
  PROVE  /\ caller.op = "none" => caller.obj = NoObj
         /\ caller.op # "none" => caller.obj \in Objs
         /\ caller.op \in {"fork", "read", "read2", "kill", "wait"} => caller.obj \in managed
         /\ caller.op \in {"fork", "read", "read2"} => ~m_running[caller.obj]
         /\ caller.op \in {"kill", "wait", "dkill"} => m_running[caller.obj]
         /\ caller.op \in {"dkill", "dwait"} => caller.obj \notin managed
         /\ \A o \in Objs : m_running[o] => o \in managed \/ caller.obj = o
  BY DEF HandleInv, OwnInv, HeldInv, CallerOK, CallerRuns, RunningManaged

\* start() gives up before or after fork().
LEMMA FailedStep ==
  ASSUME HandleInv, NEW o \in Objs, caller.obj = o,
         caller.op \in {"fork", "read", "read2"}, caller' = NoCall,
         UNCHANGED <<managed, objVars>>, \A x \in Objs : Quiet(x)
  PROVE  HandleStep
<1>1. PhaseOf(o) = "starting" /\ PhaseOf(o)' = "ready"
  BY CallerFacts DEF PhaseOf, Starting, Closing, objVars
<1>2. Only(o)
  BY OtherPhase DEF Only, Same, objVars
<1>3. Handle!Failed(o)
  BY <1>1, <1>2, One, MoveOne DEF Handle!Failed, Quiet
<1> QED
  BY <1>1, <1>3 DEF HandleStep, Handle!Next

LEMMA StartSucceedsStep ==
  ASSUME HandleInv, NEW o \in Objs, caller.obj = o, NEW p, caller.child = p, StartSucceeds
  PROVE  HandleStep
<1>1. /\ o \in managed /\ ~m_running[o] /\ p \in Pids /\ owner[p] = o
      /\ st[p] \in {"running", "zombie"} /\ code[p] \in ExitCodes \cup {-1}
      /\ m_pid' = [m_pid EXCEPT ![o] = p] /\ m_running' = [m_running EXCEPT ![o] = TRUE]
      /\ caller' = NoCall /\ managed' = managed /\ st' = st /\ code' = code
      /\ m_normalexit' = m_normalexit /\ m_status' = m_status
      /\ m_pid \in [Objs -> Pids \cup {0}] /\ m_running \in [Objs -> BOOLEAN]
  BY DEF StartSucceeds, HandleInv, OwnInv, HeldInv, TypeOK, CallerOK, PipeEOF, kernelVars, childVars
<1>2. PhaseOf(o) = "starting" /\ PhaseOf(o)' = "running"
  BY <1>1 DEF StartSucceeds, PhaseOf, Starting, Closing
<1>3. ProgramOf(o)' \in Handle!Ends \cup {Handle!Alive} /\ EndOf(o)' = EndOf(o)
  BY <1>1 DEF ProgramOf, EndOf, Handle!Ends, Handle!Alive, Handle!Signalled
<1>4. Only(o)
  <2> SUFFICES ASSUME NEW x \in Objs \ {o} PROVE Same(x)
    BY DEF Only
  <2>1. m_running'[x] = m_running[x] /\ m_pid'[x] = m_pid[x]
    BY <1>1
  <2>2. Quiet(x)
    BY <1>1, <2>1, QuietIf
  <2>3. PhaseOf(x)' = PhaseOf(x)
    BY <1>1, <2>1, OtherPhase
  <2> QED
    BY <2>2, <2>3 DEF Same
<1>5. Handle!Started(o)
  BY <1>1, <1>2, <1>3, <1>4, One, MoveOne DEF Handle!Started
<1> QED
  BY <1>1, <1>5 DEF HandleStep, Handle!Next

LEMMA WaitDoneStep ==
  ASSUME HandleInv, NEW o \in Objs, caller.obj = o, WaitDone
  PROVE  HandleStep
<1>1. /\ o \in managed /\ m_running[o] /\ WaitReturns(o)
      /\ caller' = NoCall /\ managed' = managed /\ caller.op = "wait"
  BY CallerFacts DEF WaitDone
<1>2. /\ ProgramOf(o) \in Handle!Ends /\ ProgramOf(o)' = -3
      /\ EndOf(o)' = Handle!ResultOf(ProgramOf(o)) /\ ~m_running'[o]
      /\ \A x \in Objs \ {o} : m_running'[x] = m_running[x] /\ Quiet(x)
  BY <1>1, Collects
<1>3. PhaseOf(o) = "running" /\ PhaseOf(o)' = "ready"
  BY <1>1, <1>2 DEF PhaseOf, Starting, Closing
<1>4. Only(o)
  BY <1>1, <1>2, OtherPhase DEF Only, Same
<1>5. Handle!Wait(o)
  BY <1>1, <1>2, <1>3, <1>4, One, MoveOne DEF Handle!Wait, Handle!Collect, Handle!NoProgram
<1> QED
  BY <1>1, <1>5 DEF HandleStep, Handle!Next

\* A call that begins with running() and collects the end of the program.
LEMMA CallCollects ==
  ASSUME HandleInv, NEW o \in Objs, o \in managed, caller.op = "none", m_running[o], WaitReturns(o),
         caller'.obj \in {o, NoObj}, managed' = managed \/ managed' = managed \ {o},
         NEW to, PhaseOf(o)' = to
  PROVE  Only(o) /\ Handle!Collect(o) /\ Handle!Move(o, "running", to)
<1>1. /\ ProgramOf(o) \in Handle!Ends /\ ProgramOf(o)' = -3
      /\ EndOf(o)' = Handle!ResultOf(ProgramOf(o)) /\ ~m_running'[o]
      /\ \A x \in Objs \ {o} : m_running'[x] = m_running[x] /\ Quiet(x)
  BY Collects
<1>2. PhaseOf(o) = "running" /\ caller.obj = NoObj
  BY CallerFacts DEF PhaseOf, Starting, Closing
<1>3. Only(o)
  BY <1>1, <1>2, OtherPhase DEF Only, Same
<1>4. Handle!Collect(o)
  BY <1>1, <1>3, One DEF Handle!Collect, Handle!NoProgram
<1> QED
  BY <1>2, <1>3, <1>4, MoveOne

\* A call that changes nothing that is seen.
LEMMA CallStutters ==
  ASSUME HandleInv, managed' = managed, m_running' = m_running, \A x \in Objs : Quiet(x),
         \A x \in Objs : (Starting(x)' <=> Starting(x)) /\ (Closing(x)' <=> Closing(x))
  PROVE  HandleStep
<1>1. \A x \in Objs : Same(x)
  BY PhaseSame DEF Same
<1> QED
  BY <1>1, Stutter DEF HandleStep

LEMMA StartCallStep ==
  ASSUME HandleInv, NEW o \in Objs, StartCall(o) PROVE HandleStep
<1>1. /\ caller.op = "none" /\ caller.obj = NoObj /\ o \in managed /\ Running(o) /\ managed' = managed
      /\ caller' = IF m_running'[o] THEN NoCall ELSE Calling("fork", o)
  BY CallerFacts DEF StartCall
<1>2. CASE m_running[o] /\ WaitReturns(o) /\ ~m_running'[o]
  <2>1. caller' = Calling("fork", o) /\ PhaseOf(o)' = "starting"
    BY <1>1, <1>2 DEF PhaseOf, Starting
  <2>2. Handle!Start(o)
    BY <1>1, <1>2, <2>1, CallCollects DEF Handle!Start
  <2> QED
    BY <2>2 DEF HandleStep, Handle!Next
<1>3. CASE m_running' = m_running /\ (\A x \in Objs : Quiet(x)) /\ ~m_running[o]
  <2>1. caller' = Calling("fork", o) /\ PhaseOf(o)' = "starting" /\ PhaseOf(o) = "ready"
    BY <1>1, <1>3 DEF PhaseOf, Starting, Closing
  <2>2. Only(o)
    BY <1>1, <1>3, <2>1, OtherPhase DEF Only, Same
  <2>3. Handle!Start(o)
    BY <1>3, <2>1, <2>2, One, MoveOne DEF Handle!Start, Quiet
  <2> QED
    BY <2>3 DEF HandleStep, Handle!Next
<1>4. CASE m_running' = m_running /\ (\A x \in Objs : Quiet(x)) /\ m_running[o]
  <2>1. caller' = NoCall
    BY <1>1, <1>4
  <2>2. \A x \in Objs : (Starting(x)' <=> Starting(x)) /\ (Closing(x)' <=> Closing(x))
    BY <1>1, <2>1 DEF Starting, Closing
  <2> QED
    BY <1>1, <1>4, <2>2, CallStutters
<1> QED
  BY <1>1, <1>2, <1>3, <1>4, RunningShows

\* running(), also at the beginning of signal().
LEMMA RunningStep ==
  ASSUME HandleInv, NEW o \in Objs, IsRunning(o) \/ SignalCall(o) PROVE HandleStep
<1>1. /\ caller.op = "none" /\ caller.obj = NoObj /\ o \in managed /\ Running(o) /\ managed' = managed
      /\ caller' \in {caller, NoCall, Calling("kill", o)}
  BY CallerFacts DEF IsRunning, SignalCall
<1>2. CASE m_running[o] /\ WaitReturns(o) /\ ~m_running'[o]
  <2>1. PhaseOf(o)' = "ready" /\ caller'.obj \in {o, NoObj}
    BY <1>1, <1>2 DEF PhaseOf, Starting, Closing
  <2>2. Handle!Wait(o)
    BY <1>1, <1>2, <2>1, CallCollects DEF Handle!Wait
  <2> QED
    BY <2>2 DEF HandleStep, Handle!Next
<1>3. CASE m_running' = m_running /\ \A x \in Objs : Quiet(x)
  <2>1. \A x \in Objs : (Starting(x)' <=> Starting(x)) /\ (Closing(x)' <=> Closing(x))
    BY <1>1 DEF Starting, Closing
  <2> QED
    BY <1>1, <1>3, <2>1, CallStutters
<1> QED
  BY <1>1, <1>2, <1>3, RunningShows

LEMMA ConstructStep ==
  ASSUME HandleInv, NEW o \in Objs, Construct(o) PROVE HandleStep
<1>1. /\ o \notin managed /\ managed' = managed \cup {o} /\ caller.op = "none" /\ caller' = caller
      /\ UNCHANGED objVars /\ st' = st /\ code' = code /\ caller.obj = NoObj /\ ~m_running[o]
  BY CallerFacts DEF Construct, kernelVars, childVars
<1>2. \A x \in Objs : Quiet(x)
  BY <1>1, KernelQuiet
<1>3. PhaseOf(o) = "absent" /\ PhaseOf(o)' = "ready"
  BY <1>1 DEF PhaseOf, Starting, Closing, objVars
<1>4. Only(o)
  BY <1>1, <1>2, OtherPhase DEF Only, Same, objVars
<1>5. Handle!Open(o)
  BY <1>2, <1>3, <1>4, One, MoveOne DEF Handle!Open, Quiet
<1> QED
  BY <1>5 DEF HandleStep, Handle!Next

LEMMA DetachStep ==
  ASSUME HandleInv, NEW o \in Objs, Detach(o) PROVE HandleStep
<1>1. /\ o \in managed /\ managed' = managed /\ caller.op = "none" /\ caller' = caller /\ caller.obj = NoObj
      /\ m_running' = [m_running EXCEPT ![o] = FALSE] /\ m_pid' = [m_pid EXCEPT ![o] = 0]
      /\ UNCHANGED <<m_normalexit, m_status>> /\ st' = st /\ code' = code
      /\ m_pid \in [Objs -> Pids \cup {0}] /\ m_running \in [Objs -> BOOLEAN]
  BY CallerFacts DEF Detach, HandleInv, OwnInv, HeldInv, TypeOK
<1>2. ASSUME NEW x \in Objs \ {o} PROVE Same(x)
  <2>1. m_running'[x] = m_running[x] /\ m_pid'[x] = m_pid[x]
    BY <1>1
  <2>2. Quiet(x) /\ PhaseOf(x)' = PhaseOf(x)
    BY <1>1, <2>1, QuietIf, OtherPhase
  <2> QED
    BY <2>2 DEF Same
<1>3. PhaseOf(o)' = "ready" /\ ProgramOf(o)' = -3 /\ EndOf(o)' = EndOf(o)
  BY <1>1 DEF PhaseOf, Starting, Closing, ProgramOf, EndOf
<1>4. CASE m_running[o]
  <2>1. PhaseOf(o) = "running"
    BY <1>1, <1>4 DEF PhaseOf, Starting, Closing
  <2>2. Handle!Detach(o)
    BY <1>2, <1>3, <2>1, One, MoveOne DEF Handle!Detach, Handle!NoProgram, Only
  <2> QED
    BY <2>2 DEF HandleStep, Handle!Next
<1>5. CASE ~m_running[o]
  <2>1. PhaseOf(o) = "ready" /\ ProgramOf(o) = -3
    BY <1>1, <1>5 DEF PhaseOf, Starting, Closing, ProgramOf
  <2>2. \A x \in Objs : Same(x)
    BY <1>2, <1>3, <2>1 DEF Same, Quiet
  <2> QED
    BY <2>2, Stutter DEF HandleStep
<1> QED
  BY <1>4, <1>5

LEMMA DestroyStep ==
  ASSUME HandleInv, NEW o \in Objs, Destroy(o) PROVE HandleStep
<1>1. caller.op = "none" /\ caller.obj = NoObj /\ o \in managed /\ managed' = managed \ {o}
  BY CallerFacts DEF Destroy
<1>2. CASE ~m_running[o]
  <2>1. ObjectGone(o) /\ caller' = caller /\ st' = st /\ code' = code
    BY <1>2 DEF Destroy, kernelVars, childVars
  <2>2. PhaseOf(o) = "ready" /\ PhaseOf(o)' = "absent"
    BY <1>1, <1>2, <2>1 DEF PhaseOf, Starting, Closing
  <2>3. ASSUME NEW x \in Objs \ {o} PROVE Same(x)
    <3>1. Quiet(x)
      BY <2>1, GoneShows, QuietIf
    <3>2. PhaseOf(x)' = PhaseOf(x)
      BY <1>1, <2>1, GoneShows, OtherPhase
    <3> QED
      BY <3>1, <3>2 DEF Same
  <2>4. Handle!Drop(o)
    BY <2>1, <2>2, <2>3, GoneShows, One, MoveOne DEF Handle!Drop, Handle!Forget, Only
  <2> QED
    BY <2>4 DEF HandleStep, Handle!Next
<1>3. CASE m_running[o]
  <2>1. /\ Running(o) /\ caller' = Calling(IF m_running'[o] THEN "dkill" ELSE "dwait", o)
        /\ PhaseOf(o)' = "closing" /\ PhaseOf(o) = "running"
    BY <1>1, <1>3 DEF Destroy, PhaseOf, Starting, Closing
  <2>2. CASE WaitReturns(o)
    <3>1. Handle!Close(o)
      BY <1>1, <1>3, <2>1, <2>2, CallCollects DEF Handle!Close
    <3> QED
      BY <3>1 DEF HandleStep, Handle!Next
  <2>3. CASE m_running' = m_running /\ \A x \in Objs : Quiet(x)
    <3>1. Only(o)
      BY <1>1, <2>1, <2>3, OtherPhase DEF Only, Same
    <3>2. Handle!Close(o)
      BY <2>1, <2>3, <3>1, One, MoveOne DEF Handle!Close, Quiet
    <3> QED
      BY <3>2 DEF HandleStep, Handle!Next
  <2> QED
    BY <2>1, <2>2, <2>3, RunningShows
<1> QED
  BY <1>2, <1>3

\* The destructor throws or has waited.
LEMMA CloseStep ==
  ASSUME HandleInv, NEW o \in Objs, caller.obj = o, DestroyThrows \/ DestroyWait
  PROVE  HandleStep
<1>1. /\ ObjectGone(o) /\ caller' = NoCall /\ managed' = managed /\ o \notin managed
      /\ caller.op \in {"dkill", "dwait"}
  BY CallerFacts DEF DestroyThrows, DestroyWait
<1>2. PhaseOf(o) = "closing" /\ PhaseOf(o)' = "absent"
  BY <1>1 DEF PhaseOf, Starting, Closing
<1>3. ASSUME NEW x \in Objs \ {o} PROVE m_running[x] => st'[m_pid[x]] = st[m_pid[x]] /\ code'[m_pid[x]] = code[m_pid[x]]
  <2> SUFFICES ASSUME m_running[x] PROVE st'[m_pid[x]] = st[m_pid[x]] /\ code'[m_pid[x]] = code[m_pid[x]]
    OBVIOUS
  <2>1. m_pid[x] \in Pids /\ IsChild(m_pid[x]) /\ owner[m_pid[x]] = x
    BY DEF HandleInv, OwnInv, HeldInv, TypeOK, RunningOwnsChild, IsChild
  <2>2. CASE UNCHANGED <<st, code>>
    BY <2>2
  <2>3. ASSUME NEW p \in WaitTargets(o), Release(p) PROVE p # m_pid[x]
    <3>1. CASE m_running[o]
      BY <2>1, <3>1, OwnTarget DEF HandleInv, OwnInv, RunningOwnsChild
    <3>2. CASE ~m_running[o]
      BY <1>1, <3>2 DEF WaitTargets, HandleInv, OwnInv, CallerRuns
    <3> QED
      BY <3>1, <3>2
  <2>4. CASE \E p \in WaitTargets(o) : Release(p)
    <3>1. PICK p \in WaitTargets(o) : Release(p)
      BY <2>4
    <3>2. p # m_pid[x] /\ st' = [st EXCEPT ![p] = "free"] /\ code' = [code EXCEPT ![p] = 0]
      BY <2>3, <3>1 DEF Release
    <3>3. st \in [Pids -> KernelStates] /\ code \in [Pids -> ExitCodes \cup {-1}]
      BY DEF HandleInv, OwnInv, HeldInv, TypeOK
    <3> QED
      BY <2>1, <3>2, <3>3
  <2> QED
    BY <2>2, <2>4 DEF DestroyThrows, DestroyWait, kernelVars, childVars
<1>4. ASSUME NEW x \in Objs \ {o} PROVE Same(x)
  <2>1. Quiet(x)
    BY <1>1, <1>3, GoneShows, QuietIf
  <2>2. PhaseOf(x)' = PhaseOf(x)
    BY <1>1, GoneShows, OtherPhase
  <2> QED
    BY <2>1, <2>2 DEF Same
<1>5. Handle!Move(o, "closing", "absent") /\ Handle!Forget(o)
  BY <1>1, <1>2, <1>4, GoneShows, One, MoveOne DEF Handle!Forget, Only
<1>6. CASE DestroyThrows
  <2>1. Handle!CloseThrows(o)
    BY <1>5, <1>6 DEF Handle!CloseThrows, DestroyThrows, HandleInv
  <2> QED
    BY <2>1 DEF HandleStep, Handle!Next
<1>7. CASE DestroyWait
  <2>1. ProgramOf(o) \in Handle!Ends \cup {Handle!NoProgram}
    <3>1. CASE m_running[o]
      <4>1. st[m_pid[o]] = "zombie" /\ m_pid[o] \in Pids
        BY <1>7, <3>1, OwnTarget DEF DestroyWait, HandleInv, WaitTargets
      <4>2. code[m_pid[o]] \in ExitCodes \cup {-1}
        BY <4>1 DEF HandleInv, OwnInv, HeldInv, TypeOK
      <4> QED
        BY <3>1, <4>1, <4>2 DEF ProgramOf, Handle!Ends, Handle!Signalled
    <3>2. CASE ~m_running[o]
      BY <3>2 DEF ProgramOf, Handle!NoProgram
    <3> QED
      BY <3>1, <3>2
  <2>2. program[o] = ProgramOf(o)
    BY Views
  <2>3. Handle!Closed(o)
    BY <1>5, <2>1, <2>2 DEF Handle!Closed
  <2> QED
    BY <2>3 DEF HandleStep, Handle!Next
<1> QED
  BY <1>6, <1>7

\* The end of a child is that of the program of its object, if that runs it.
LEMMA EndsStep ==
  ASSUME HandleInv, NEW p \in Pids, IsChild(p), st[p] # "zombie",
         NEW c \in ExitCodes \cup {-1}, Ends(p, c)
  PROVE  HandleStep
<1>1. /\ st' = [st EXCEPT ![p] = "zombie"] /\ code' = [code EXCEPT ![p] = c]
      /\ UNCHANGED <<managed, objVars, caller>>
      /\ st \in [Pids -> KernelStates] /\ code \in [Pids -> ExitCodes \cup {-1}]
  BY DEF Ends, HandleInv, OwnInv, HeldInv, TypeOK
<1>2. \A x \in Objs : PhaseOf(x)' = PhaseOf(x)
  BY <1>1 DEF PhaseOf, Starting, Closing, objVars
<1>3. ASSUME NEW x \in Objs, m_running[x] => m_pid[x] # p PROVE Same(x)
  <2>1. m_running[x] => m_pid[x] \in Pids
    BY DEF HandleInv, OwnInv, HeldInv, TypeOK, RunningOwnsChild
  <2>2. Quiet(x)
    BY <1>1, <1>3, <2>1, QuietIf DEF objVars
  <2> QED
    BY <1>2, <2>2 DEF Same
<1>4. CASE \A x \in Objs : m_running[x] => m_pid[x] # p
  BY <1>3, <1>4, Stutter DEF HandleStep
<1>5. CASE \E x \in Objs : m_running[x] /\ m_pid[x] = p
  <2>1. PICK o \in Objs : m_running[o] /\ m_pid[o] = p
    BY <1>5
  <2>2. Only(o)
    BY <1>3, <2>1 DEF Only, HandleInv, OwnInv, RunningOwnsChild
  <2>3. ProgramOf(o) = Handle!Alive /\ ProgramOf(o)' = c /\ c \in Handle!Ends /\ EndOf(o)' = EndOf(o)
    BY <1>1, <2>1 DEF ProgramOf, EndOf, objVars, Handle!Alive, Handle!Ends, Handle!Signalled
  <2>4. Handle!ProgramEnds(o)
    BY <1>2, <2>2, <2>3, One DEF Handle!ProgramEnds
  <2> QED
    BY <2>4 DEF HandleStep, Handle!Next
<1> QED
  BY <1>4, <1>5

LEMMA KernelSteps ==
  ASSUME HandleInv, NEW p \in Pids, KernelStep(p) PROVE HandleStep
<1>1. CASE ChildExits1(p) \/ ProgramEnds(p) \/ ChildKilled(p)
  <2>1. PICK c \in ExitCodes \cup {-1} : Ends(p, c) /\ IsChild(p) /\ st[p] # "zombie"
    BY <1>1 DEF ChildExits1, ProgramEnds, ChildKilled, BeforeExec, IsChild
  <2> QED
    BY <2>1, EndsStep
<1>2. CASE ChildSetup(p) \/ ChildExecs(p) \/ ChildRefuses(p) \/ ForeignStarts(p) \/ ForeignEnds(p)
         \/ ChildHandles(p)
  <2>1. UNCHANGED <<managed, objVars, caller>>
    BY <1>2 DEF ChildSetup, ChildExecs, ChildRefuses, ForeignStarts, ForeignEnds, ChildHandles
  <2>2. \A q \in Pids : st[q] \in {"running", "zombie"} => st'[q] = st[q] /\ code'[q] = code[q]
    <3>1. st \in [Pids -> KernelStates] /\ code \in [Pids -> ExitCodes \cup {-1}]
      BY DEF HandleInv, OwnInv, HeldInv, TypeOK
    <3>2. CASE ChildRefuses(p)
      BY <3>1, <3>2 DEF ChildRefuses
    <3>3. CASE ~ChildRefuses(p)
      BY <1>2, <3>1, <3>3 DEF ChildSetup, ChildExecs, ForeignStarts, ForeignEnds, ChildHandles, childVars
    <3> QED
      BY <3>2, <3>3
  <2>3. \A x \in Objs : Quiet(x)
    BY <2>1, <2>2, KernelQuiet
  <2> QED
    BY <2>1, <2>3, CallStutters DEF Starting, Closing, objVars
<1> QED
  BY <1>1, <1>2 DEF KernelStep, ChildStarts

\* Signals show nothing; one that interrupts start() for the second time ends it.
LEMMA SigintSteps ==
  ASSUME HandleInv, SigintStep PROVE HandleStep
<1>1. UNCHANGED <<managed, objVars>> /\ st' = st /\ code' = code
  BY DEF SigintStep, InstallHandler, Killall, Interrupt, SigintEnds, SigintHandled, kernelVars,
         childVars
<1>2. \A x \in Objs : Quiet(x)
  BY <1>1, KernelQuiet
<1>3. CASE caller' = caller
  BY <1>1, <1>2, <1>3, CallStutters DEF Starting, Closing, objVars
<1>4. CASE caller.op = "read" /\ caller' = [caller EXCEPT !.op = "read2"]
  <2>1. caller \in [op : Ops, obj : Objs \cup {NoObj}, child : Pids \cup {0}]
    BY DEF HandleInv, OwnInv, HeldInv, TypeOK
  <2>2. caller'.op = "read2" /\ caller'.obj = caller.obj
    BY <1>4, <2>1
  <2> QED
    BY <1>1, <1>2, <1>4, <2>2, CallStutters DEF Starting, Closing, objVars
<1>5. CASE caller.op = "read2" /\ caller' = NoCall
  BY <1>1, <1>2, <1>5, CallerFacts, FailedStep
<1>6. \/ caller' = caller
      \/ caller.op = "read" /\ caller' = [caller EXCEPT !.op = "read2"]
      \/ caller.op = "read2" /\ caller' = NoCall
  BY DEF SigintStep, InstallHandler, Killall, Interrupt, SigintEnds, SigintHandled,
         ReadInterrupted
<1> QED
  BY <1>3, <1>4, <1>5, <1>6

\* The steps of a call after its first one.
LEMMA CallerSteps ==
  ASSUME HandleInv, CallerStep PROVE HandleStep
<1> PICK o : o = caller.obj
  OBVIOUS
<1> PICK p : p = caller.child
  OBVIOUS
<1>1. caller.op # "none" => o \in Objs
  BY CallerFacts
<1>2. CASE StartForkFails \/ StartThrows
  <2>1. /\ caller.op \in {"fork", "read", "read2"} /\ caller' = NoCall
        /\ UNCHANGED <<managed, objVars>> /\ st' = st /\ code' = code
    BY <1>2 DEF StartForkFails, StartThrows, kernelVars, childVars
  <2>2. \A x \in Objs : Quiet(x)
    BY <2>1, KernelQuiet
  <2> QED
    BY <1>1, <2>1, <2>2, FailedStep
<1>3. CASE StartFork
  <2>1. PICK q \in Pids : /\ st[q] = "free" /\ st' = [st EXCEPT ![q] = "forked"]
                          /\ caller' = [op |-> "read", obj |-> caller.obj, child |-> q]
    BY <1>3 DEF StartFork
  <2>2. /\ UNCHANGED <<managed, objVars>> /\ code' = code /\ st \in [Pids -> KernelStates]
        /\ caller.op = "fork"
    BY <1>3 DEF StartFork, HandleInv, OwnInv, HeldInv, TypeOK
  <2>3. \A x \in Objs : Quiet(x)
    BY <2>1, <2>2, KernelQuiet
  <2> QED
    BY <2>1, <2>2, <2>3, CallStutters DEF Starting, Closing, objVars
<1>4. CASE StartSucceeds
  BY <1>1, <1>4, StartSucceedsStep DEF StartSucceeds
<1>5. CASE WaitDone
  BY <1>1, <1>5, WaitDoneStep DEF WaitDone
<1>6. CASE KillDone \/ KillDenied \/ DestroyKill
  <2>1. UNCHANGED <<managed, objVars>> /\ st' = st /\ code' = code
    BY <1>6 DEF KillDone, KillDenied, DestroyKill, kernelVars, childVars
  <2>2. \/ caller.op = "kill" /\ caller' = NoCall
        \/ caller.op = "dkill" /\ caller' = Calling("dwait", caller.obj)
    BY <1>6 DEF KillDone, KillDenied, DestroyKill
  <2>3. \A x \in Objs : Quiet(x)
    BY <2>1, KernelQuiet
  <2> QED
    BY <2>1, <2>2, <2>3, CallStutters DEF Starting, Closing, objVars
<1>7. CASE DestroyThrows \/ DestroyWait
  BY <1>1, <1>7, CloseStep DEF DestroyThrows, DestroyWait
<1> QED
  BY <1>2, <1>3, <1>4, <1>5, <1>6, <1>7 DEF CallerStep

\* The first steps.
LEMMA NewCallSteps ==
  ASSUME HandleInv, NEW o \in Objs, NewCall(o) PROVE HandleStep
<1>1. CASE SetPgid(o) \/ WaitCall(o)
  <2>1. /\ UNCHANGED <<managed, objVars>> /\ st' = st /\ code' = code /\ caller.op = "none"
        /\ caller' \in {caller, Calling("wait", o)}
    BY <1>1 DEF SetPgid, WaitCall, kernelVars, childVars
  <2>2. \A x \in Objs : Quiet(x)
    BY <2>1, KernelQuiet
  <2> QED
    BY <2>1, <2>2, CallStutters DEF Starting, Closing, objVars
<1> QED
  BY <1>1, ConstructStep, StartCallStep, RunningStep, DetachStep, DestroyStep DEF NewCall

\* A process object is a handle on one program at a time, for any number of
\* objects, process ids and exit codes and whatever the kernel does with the
\* ids, as long as the caller waits only for what runs.
THEOREM ProcessIsHandle ==
  ASSUME ~IdleWait
  PROVE  Spec => ImplementsChildHandle
<1>1. Init => Handle!Init
  BY DEF Init, Handle!Init, phase, program, result, Handle!NoProgram, Handle!NoResult
<1>2. HandleInv /\ [Next]_vars => [Handle!Next]_Handle!vars
  <2> SUFFICES ASSUME HandleInv, [Next]_vars PROVE HandleStep
    BY DEF HandleStep
  <2>1. CASE UNCHANGED vars
    <3>1. UNCHANGED <<managed, objVars, caller>> /\ st' = st /\ code' = code
      BY <2>1 DEF vars, kernelVars, childVars
    <3>2. \A x \in Objs : Quiet(x)
      BY <3>1, KernelQuiet
    <3> QED
      BY <3>1, <3>2, CallStutters DEF Starting, Closing, objVars
  <2> QED
    BY <2>1, CallerSteps, NewCallSteps, SigintSteps, KernelSteps DEF Next
<1>3. HandleInv /\ [Next]_vars => HandleInv'
  BY HandleInvStep
<1> QED
  BY <1>1, <1>2, <1>3, HandleInvInit, PTL DEF Spec, ImplementsChildHandle, Handle!Spec

=============================================================================
