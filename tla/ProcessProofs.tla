---------------------------- MODULE ProcessProofs ----------------------------
(* Proofs of the safety properties of Process for every set of objects,       *)
(* process ids and exit codes.                                                *)
EXTENDS Process, TLAPS

-----------------------------------------------------------------------------
(* The inductive invariants                                                  *)

\* Where the thread is determines what `caller' holds.
CallerOK ==
  /\ caller.op = "none" => caller.obj = NoObj
  /\ caller.op # "none" => caller.obj \in Objs
  /\ caller.op \in {"fork", "read", "read2", "kill", "wait"} => caller.obj \in managed
  /\ caller.op \in {"fork", "read", "read2"} => ~m_running[caller.obj]
  /\ caller.op \in {"read", "read2"} =>
       /\ caller.child \in Pids
       /\ IsChild(caller.child)
       /\ owner[caller.child] = caller.obj
  /\ caller.op \notin {"read", "read2"} => caller.child = 0

RunningManaged ==
  \A o \in Objs : m_running[o] => o \in managed \/ caller.obj = o

HeldInv == TypeOK /\ CallerOK /\ RunningManaged /\ EveryChildHeld

\* Needs callers that wait only for running objects.
CallerRuns ==
  /\ caller.op \in {"kill", "wait", "dkill"} => m_running[caller.obj]
  /\ caller.op = "dwait" /\ ~m_running[caller.obj] =>
       m_pid[caller.obj] # 0 /\ ~IsChild(m_pid[caller.obj])

OwnInv == HeldInv /\ RunningOwnsChild /\ CallerRuns

USE DEF ChildStates, KernelStates, Ops, NoCall, Calling, At, Idle, Return, Signalled

LEMMA InitHeld == Init => HeldInv
<1> SUFFICES ASSUME Init PROVE HeldInv
  OBVIOUS
<1>1. TypeOK
  <2>1. old_sigint_handler \in {"none", "app", "killer"} /\ up \in BOOLEAN /\ pending \in BOOLEAN
    BY DEF Init
  <2>2. handler \in {"default", "ignored", "app", "killer", "utilmm"}
    BY ProcessAssumption DEF Init
  <2>3. caller \in [op : Ops, obj : Objs \cup {NoObj}, child : Pids \cup {0}]
    BY DEF Init
  <2>4. m_status \in [Objs -> ExitCodes] /\ code \in [Pids -> ExitCodes \cup {Signalled}]
    BY ProcessAssumption DEF Init
  <2> QED
    BY <2>1, <2>2, <2>3, <2>4 DEF Init, TypeOK
<1>2. CallerOK
  BY DEF Init, CallerOK
<1>3. RunningManaged /\ EveryChildHeld
  BY DEF Init, RunningManaged, EveryChildHeld, IsChild
<1> QED
  BY <1>1, <1>2, <1>3 DEF HeldInv

\* What a call to running() can do.
LEMMA RunningCases ==
  ASSUME NEW o \in Objs, Running(o)
  PROVE  \/ m_running[o] /\ \E p \in WaitTargets(o) : Reap(o, p)
         \/ m_running[o] /\ WaitError(o)
         \/ UNCHANGED <<objVars, kernelVars>>
  BY DEF Running, WaitReturns, NothingToReap

\* Reaping keeps the types.
LEMMA ReapTypes ==
  ASSUME HeldInv, NEW o \in Objs, NEW p \in WaitTargets(o), Reap(o, p),
         UNCHANGED <<managed, m_do_setpgid, signalVars>>,
         caller' \in [op : Ops, obj : Objs \cup {NoObj}, child : Pids \cup {0}]
  PROVE  TypeOK'
  BY ProcessAssumption DEF HeldInv, TypeOK, Reap, Release, SetStatus, signalVars, WaitTargets

\* Reaping and ECHILD drop the only child that the object can hold.
LEMMA ReapHeld ==
  ASSUME HeldInv, NEW o \in Objs, NEW p \in WaitTargets(o), Reap(o, p),
         caller.child = 0, caller'.child = 0
  PROVE  EveryChildHeld'
  BY ProcessAssumption
  DEF HeldInv, TypeOK, EveryChildHeld, Reap, Release, IsChild, WaitTargets, InGroup, objVars

LEMMA WaitErrorHeld ==
  ASSUME HeldInv, NEW o \in Objs, WaitError(o), caller.child = 0, caller'.child = 0
  PROVE  EveryChildHeld'
  BY ProcessAssumption
  DEF HeldInv, TypeOK, EveryChildHeld, WaitError, IsChild, WaitTargets, InGroup, objVars,
      kernelVars, childVars

\* A call that begins with running() on an idle program.
LEMMA RunningHeld ==
  ASSUME HeldInv, NEW o \in Objs, o \in managed, Running(o), caller.op = "none",
         UNCHANGED <<m_do_setpgid, signalVars>>,
         NEW op \in {"none", "fork", "kill", "dkill", "dwait"},
         caller' = IF op = "none" THEN NoCall ELSE Calling(op, o),
         op = "fork" => ~m_running'[o],
         managed' = IF op \in {"dkill", "dwait"} THEN managed \ {o} ELSE managed
  PROVE  HeldInv'
<1>1. caller' \in [op : Ops, obj : Objs \cup {NoObj}, child : Pids \cup {0}]
  OBVIOUS
<1>2. caller.child = 0 /\ caller'.child = 0
  BY DEF HeldInv, CallerOK
<1>3. caller.obj = NoObj
  BY DEF HeldInv, CallerOK
<1>4. \A x \in Objs : m_running'[x] => m_running[x]
  BY RunningCases DEF HeldInv, TypeOK, Reap, WaitError, objVars
<1>5. CallerOK'
  BY ProcessAssumption DEF HeldInv, CallerOK
<1>6. RunningManaged'
  BY <1>3, <1>4, ProcessAssumption DEF HeldInv, RunningManaged, CallerOK
<1>7. TypeOK' /\ EveryChildHeld'
  <2>1. CASE \E p \in WaitTargets(o) : Reap(o, p)
    <3>1. PICK p \in WaitTargets(o) : Reap(o, p)
      BY <2>1
    <3>2. EveryChildHeld'
      BY <3>1, <1>2, ReapHeld
    <3>3. TypeOK'
      BY <3>1, <1>1, ProcessAssumption
      DEF HeldInv, TypeOK, Reap, Release, SetStatus, signalVars, WaitTargets
    <3> QED
      BY <3>2, <3>3
  <2>2. CASE WaitError(o)
    <3>1. EveryChildHeld'
      BY <2>2, <1>2, WaitErrorHeld
    <3>2. TypeOK'
      BY <2>2, <1>1 DEF HeldInv, TypeOK, WaitError, signalVars, kernelVars, childVars
    <3> QED
      BY <3>1, <3>2
  <2>3. CASE UNCHANGED <<objVars, kernelVars>>
    <3>1. TypeOK'
      BY <2>3, <1>1 DEF HeldInv, TypeOK, objVars, signalVars, kernelVars, childVars
    <3>2. EveryChildHeld'
      BY <2>3, <1>2, ProcessAssumption
      DEF HeldInv, TypeOK, EveryChildHeld, IsChild, objVars, kernelVars, childVars
    <3> QED
      BY <3>1, <3>2
  <2> QED
    BY <2>1, <2>2, <2>3, RunningCases
<1> QED
  BY <1>5, <1>6, <1>7 DEF HeldInv

LEMMA HeldStep == HeldInv /\ [Next]_vars => HeldInv'
<1> SUFFICES ASSUME HeldInv, [Next]_vars PROVE HeldInv'
  OBVIOUS
<1> USE ProcessAssumption
<1> USE DEF HeldInv, TypeOK, CallerOK, RunningManaged, EveryChildHeld, IsChild,
            objVars, signalVars, kernelVars, childVars
<1>1. ASSUME StartForkFails PROVE HeldInv'
  BY <1>1 DEF StartForkFails
<1>2. ASSUME StartFork PROVE HeldInv'
  BY <1>2 DEF StartFork
<1>3. ASSUME StartSucceeds PROVE HeldInv'
  BY <1>3 DEF StartSucceeds, PipeEOF
<1>4. ASSUME StartThrows PROVE HeldInv'
  BY <1>4 DEF StartThrows, PipeEOF, GiveUp
<1>5. ASSUME KillDone PROVE HeldInv'
  BY <1>5 DEF KillDone, SendTo, Reached, Addressed
<1>6. ASSUME KillDenied PROVE HeldInv'
  BY <1>6 DEF KillDenied
<1>7. ASSUME DestroyKill PROVE HeldInv'
  BY <1>7 DEF DestroyKill, SendTo, Reached, Addressed
<1>8. ASSUME DestroyThrows PROVE HeldInv'
  BY <1>8 DEF DestroyThrows, GiveUp, ObjectGone
<1>9. ASSUME NEW o \in Objs, Construct(o) PROVE HeldInv'
  BY <1>9 DEF Construct
<1>10. ASSUME NEW o \in Objs, SetPgid(o) PROVE HeldInv'
  BY <1>10 DEF SetPgid
<1>11. ASSUME NEW o \in Objs, WaitCall(o) PROVE HeldInv'
  BY <1>11 DEF WaitCall
<1>12. ASSUME NEW o \in Objs, Detach(o) PROVE HeldInv'
  BY <1>12 DEF Detach
<1>13. ASSUME InstallHandler PROVE HeldInv'
  BY <1>13 DEF InstallHandler
<1>14. ASSUME Killall PROVE HeldInv'
  BY <1>14 DEF Killall, KillAddressed, KillsSelf, SendTo, Reached, Addressed
<1>15. ASSUME Interrupt PROVE HeldInv'
  BY <1>15 DEF Interrupt, SendTo, Reached, InGroup
<1>16. ASSUME SigintEnds PROVE HeldInv'
  BY <1>16 DEF SigintEnds
<1>17. ASSUME SigintHandled PROVE HeldInv'
  <2>1. pending' \in BOOLEAN /\ sig' \subseteq Pids
    <3>1. KillsSelf(managed) \in BOOLEAN
      BY DEF KillsSelf
    <3>2. KillAddressed(managed) => sig' \subseteq Pids
      BY DEF KillAddressed, SendTo, Reached, Addressed
    <3> QED
      BY <1>17, <3>1, <3>2 DEF SigintHandled
  <2>2. CASE UNCHANGED <<caller, owner, lost>>
    BY <1>17, <2>1, <2>2 DEF SigintHandled
  <2>3. CASE Blocked /\ caller.op = "read" /\ caller' = [caller EXCEPT !.op = "read2"]
             /\ UNCHANGED <<owner, lost>>
    BY <1>17, <2>1, <2>3 DEF SigintHandled
  <2>4. CASE Blocked /\ caller.op = "read2" /\ GiveUp(caller.child) /\ Return
    <3>1. UNCHANGED <<managed, objVars, m_do_setpgid, up, handler, old_sigint_handler,
                      st, grp, code, setuid, deaf, reports>>
      BY <1>17 DEF SigintHandled
    <3> QED
      BY <2>1, <2>4, <3>1 DEF GiveUp
  <2> QED
    BY <1>17, <2>2, <2>3, <2>4 DEF SigintHandled, ReadInterrupted
<1>18. ASSUME NEW p \in Pids, ChildSetup(p) PROVE HeldInv'
  BY <1>18 DEF ChildSetup
<1>19. ASSUME NEW p \in Pids, ChildExecs(p) PROVE HeldInv'
  BY <1>19 DEF ChildExecs
<1>20. ASSUME NEW p \in Pids, ChildRefuses(p) PROVE HeldInv'
  <2>1. CASE caller.child = p
    BY <1>20, <2>1 DEF ChildRefuses
  <2>2. CASE caller.child # p
    <3>1. TypeOK'
      BY <1>20, <2>2 DEF ChildRefuses
    <3>2. \A q \in Pids : IsChild(q)' <=> IsChild(q)
      BY <1>20, <2>2 DEF ChildRefuses
    <3>3. CallerOK'
      BY <1>20, <3>2 DEF ChildRefuses
    <3>4. (RunningManaged /\ EveryChildHeld)'
      BY <1>20, <3>2 DEF ChildRefuses
    <3> QED
      BY <3>1, <3>3, <3>4
  <2> QED
    BY <2>1, <2>2
<1>21. ASSUME NEW p \in Pids, ChildExits1(p) PROVE HeldInv'
  BY <1>21 DEF ChildExits1, Ends
<1>22. ASSUME NEW p \in Pids, ProgramEnds(p) PROVE HeldInv'
  <2>1. PICK c \in ExitCodes \cup {Signalled} : Ends(p, c)
    BY <1>22 DEF ProgramEnds
  <2>2. TypeOK'
    BY <2>1 DEF Ends
  <2>3. (CallerOK /\ RunningManaged /\ EveryChildHeld)'
    BY <1>22, <2>1 DEF ProgramEnds, Ends
  <2> QED
    BY <2>2, <2>3
<1>23. ASSUME NEW p \in Pids, ChildKilled(p) PROVE HeldInv'
  BY <1>23 DEF ChildKilled, BeforeExec, Ends
<1>24. ASSUME NEW p \in Pids, ForeignStarts(p) PROVE HeldInv'
  BY <1>24 DEF ForeignStarts
<1>25. ASSUME NEW p \in Pids, ForeignEnds(p) PROVE HeldInv'
  BY <1>25 DEF ForeignEnds
<1>26. ASSUME WaitDone PROVE HeldInv'
  <2> DEFINE o == caller.obj
  <2>1. o \in Objs /\ caller.child = 0 /\ caller' = NoCall /\ o \in managed
        /\ UNCHANGED <<managed, m_do_setpgid, signalVars>>
    BY <1>26 DEF WaitDone
  <2>2. m_running' = [m_running EXCEPT ![o] = FALSE]
    BY <1>26 DEF WaitDone, WaitReturns, Reap, WaitError
  <2>3. (CallerOK /\ RunningManaged)'
    BY <2>1, <2>2
  <2>4. CASE \E p \in WaitTargets(o) : Reap(o, p)
    <3>1. PICK p \in WaitTargets(o) : Reap(o, p)
      BY <2>4
    <3>2. EveryChildHeld'
      BY <3>1, <2>1, ReapHeld
    <3>3. TypeOK'
      BY <3>1, <2>1 DEF Reap, Release, SetStatus, WaitTargets
    <3> QED
      BY <3>2, <3>3, <2>3
  <2>5. CASE WaitError(o)
    <3>1. EveryChildHeld'
      BY <2>5, <2>1, WaitErrorHeld
    <3>2. TypeOK'
      BY <2>5, <2>1 DEF WaitError
    <3> QED
      BY <3>1, <3>2, <2>3
  <2> QED
    BY <1>26, <2>4, <2>5 DEF WaitDone, WaitReturns
<1>27. ASSUME DestroyWait PROVE HeldInv'
  BY <1>27 DEF DestroyWait, Release, WaitTargets, InGroup, ObjectGone
<1>28. ASSUME NEW o \in Objs, StartCall(o) PROVE HeldInv'
  BY <1>28, RunningHeld DEF StartCall
<1>29. ASSUME NEW o \in Objs, IsRunning(o) PROVE HeldInv'
  <2>1. caller = NoCall
    BY <1>29 DEF IsRunning
  <2> QED
    BY <1>29, <2>1, RunningHeld DEF IsRunning
<1>30. ASSUME NEW o \in Objs, SignalCall(o) PROVE HeldInv'
  BY <1>30, RunningHeld DEF SignalCall
<1>31. ASSUME NEW o \in Objs, Destroy(o) PROVE HeldInv'
  <2>1. CASE m_running[o]
    <3>1. /\ o \in managed /\ Running(o) /\ caller.op = "none"
          /\ managed' = managed \ {o}
          /\ UNCHANGED <<m_do_setpgid, signalVars>>
          /\ caller' = Calling(IF m_running'[o] THEN "dkill" ELSE "dwait", o)
      BY <1>31, <2>1 DEF Destroy
    <3>2. CASE m_running'[o]
      <4>1. caller' = Calling("dkill", o)
        BY <3>1, <3>2
      <4> HIDE DEF HeldInv, signalVars
      <4> QED
        BY <3>1, <4>1, RunningHeld
    <3>3. CASE ~m_running'[o]
      <4>1. caller' = Calling("dwait", o)
        BY <3>1, <3>3
      <4> HIDE DEF HeldInv, signalVars
      <4> QED
        BY <3>1, <4>1, RunningHeld
    <3> QED
      BY <3>2, <3>3
  <2>2. CASE ~m_running[o]
    <3>1. /\ ObjectGone(o) /\ managed' = managed \ {o}
          /\ UNCHANGED <<caller, signalVars, kernelVars>>
      BY <1>31, <2>2 DEF Destroy
    <3>2. TypeOK'
      BY <3>1 DEF ObjectGone
    <3>3. caller.op = "none"
      BY <1>31 DEF Destroy
    <3>4. CallerOK'
      BY <3>1, <3>3
    <3>5. (RunningManaged /\ EveryChildHeld)'
      BY <2>2, <3>1, <3>3 DEF ObjectGone
    <3> QED
      BY <3>2, <3>4, <3>5
  <2> QED
    BY <2>1, <2>2
<1>32. CASE UNCHANGED vars
  BY <1>32 DEF vars
<1>33. ASSUME NEW p \in Pids, ChildHandles(p) PROVE HeldInv'
  <2>1. sig' \subseteq Pids
    <3>1. CASE InForce = "app"
      BY <1>33, <3>1 DEF ChildHandles
    <3>2. CASE InForce = "killer"
      <4> DEFINE S == UNION {AddressedFrom(p, m_pid[o]) : o \in managed}
      <4>1. \A pid : AddressedFrom(p, pid) \subseteq Pids
        BY DEF AddressedFrom, Addressed
      <4>2. S \subseteq Pids
        BY <4>1
      <4>3. sig' = (sig \ {p}) \cup Reached(S)
        BY <1>33, <3>2 DEF ChildHandles
      <4> HIDE DEF S
      <4> QED
        BY <4>2, <4>3 DEF Reached
    <3> QED
      BY <1>33, <3>1, <3>2 DEF ChildHandles
  <2>2. pending' \in BOOLEAN
    <3>1. KillsSelf(managed) \in BOOLEAN
      BY DEF KillsSelf
    <3>2. InGroup(p) \in BOOLEAN
      BY DEF InGroup
    <3>3. pending' \in {pending, pending \/ (KillsSelf(managed) /\ InGroup(p))}
      BY <1>33 DEF ChildHandles
    <3> QED
      BY <3>1, <3>2, <3>3
  <2> QED
    BY <1>33, <2>1, <2>2 DEF ChildHandles
<1> QED
  BY <1>1, <1>2, <1>3, <1>4, <1>5, <1>6, <1>7, <1>8, <1>9, <1>10, <1>11, <1>12, <1>13, <1>14, <1>15, <1>16, <1>17, <1>18, <1>19, <1>20, <1>21, <1>22, <1>23, <1>24, <1>25, <1>26, <1>27, <1>28, <1>29, <1>30, <1>31, <1>32, <1>33
  DEF Next, CallerStep, NewCall, SigintStep, KernelStep, ChildStarts

-----------------------------------------------------------------------------
(* Theorems, whoever calls wait()                                            *)

LEMMA HeldAlways == Spec => []HeldInv
  BY InitHeld, HeldStep, PTL DEF Spec

\* Every variable keeps its type, for any number of objects and of processes.
THEOREM TypeCorrect == Spec => []TypeOK
<1>1. HeldInv => TypeOK
  BY DEF HeldInv
<1> QED
  BY <1>1, HeldAlways, PTL

\* An unreaped child is out of reach only after detach() or an exception: it
\* needs no discipline of the callers, since wait() on the wrong child reaps it.
THEOREM ChildrenHeld == Spec => []EveryChildHeld
<1>1. HeldInv => EveryChildHeld
  BY DEF HeldInv
<1> QED
  BY <1>1, HeldAlways, PTL

\* A child does not outlive its object, unless it was detached or an exception
\* left the object.
THEOREM ChildrenEndWithObject == Spec => []NoChildOutlivesObject
<1>1. HeldInv => NoChildOutlivesObject
  BY ProcessAssumption
  DEF HeldInv, TypeOK, EveryChildHeld, RunningManaged, NoChildOutlivesObject
<1> QED
  BY <1>1, HeldAlways, PTL

-----------------------------------------------------------------------------
(* Theorems for callers that wait only for running objects                   *)

LEMMA InitOwn == Init => OwnInv
  BY InitHeld, ProcessAssumption DEF Init, OwnInv, RunningOwnsChild, CallerRuns

\* A running object waits for its own child and never sees ECHILD.
LEMMA OwnTarget ==
  ASSUME OwnInv, NEW o \in Objs, m_running[o]
  PROVE  WaitTargets(o) = {m_pid[o]}
  BY ProcessAssumption
  DEF OwnInv, HeldInv, TypeOK, RunningOwnsChild, WaitTargets, IsChild

\* running() on an idle program keeps what it does not reap.
LEMMA RunningOwn ==
  ASSUME OwnInv, NEW o \in Objs, Running(o)
  PROVE  /\ RunningOwnsChild'
         /\ m_pid' = m_pid
         /\ m_running[o] /\ ~m_running'[o] => m_pid[o] # 0 /\ ~IsChild(m_pid[o])'
<1> USE ProcessAssumption
<1>1. CASE m_running[o] /\ \E p \in WaitTargets(o) : Reap(o, p)
  <2>1. Reap(o, m_pid[o]) /\ m_pid[o] \in Pids
    BY <1>1, OwnTarget DEF WaitTargets
  <2> QED
    BY <1>1, <2>1 DEF OwnInv, HeldInv, TypeOK, RunningOwnsChild, Reap, Release, IsChild
<1>2. CASE m_running[o] /\ WaitError(o)
  BY <1>2, OwnTarget DEF WaitError
<1>3. CASE UNCHANGED <<objVars, kernelVars>>
  BY <1>3 DEF OwnInv, HeldInv, TypeOK, RunningOwnsChild, objVars, kernelVars, childVars
<1> QED
  BY <1>1, <1>2, <1>3, RunningCases

LEMMA OwnStep ==
  ASSUME ~IdleWait
  PROVE  OwnInv /\ [Next]_vars => OwnInv'
<1> SUFFICES ASSUME OwnInv, [Next]_vars PROVE (RunningOwnsChild /\ CallerRuns)'
  BY HeldStep DEF OwnInv
<1> USE ProcessAssumption
<1>a. HeldInv /\ TypeOK /\ CallerOK /\ RunningOwnsChild /\ CallerRuns
  BY DEF OwnInv, HeldInv
<1> USE <1>a
<1> USE DEF RunningOwnsChild, CallerRuns, IsChild,
            objVars, signalVars, kernelVars, childVars
<1>1. ASSUME StartForkFails PROVE (RunningOwnsChild /\ CallerRuns)'
  BY <1>1 DEF TypeOK, CallerOK, StartForkFails
<1>2. ASSUME StartFork PROVE (RunningOwnsChild /\ CallerRuns)'
  BY <1>2 DEF TypeOK, CallerOK, StartFork
<1>3. ASSUME StartSucceeds PROVE (RunningOwnsChild /\ CallerRuns)'
  BY <1>3 DEF TypeOK, CallerOK, StartSucceeds, PipeEOF
<1>4. ASSUME StartThrows PROVE (RunningOwnsChild /\ CallerRuns)'
  BY <1>4 DEF TypeOK, CallerOK, StartThrows, PipeEOF, GiveUp
<1>5. ASSUME KillDone PROVE (RunningOwnsChild /\ CallerRuns)'
  BY <1>5 DEF TypeOK, CallerOK, KillDone
<1>6. ASSUME KillDenied PROVE (RunningOwnsChild /\ CallerRuns)'
  BY <1>6 DEF TypeOK, CallerOK, KillDenied
<1>7. ASSUME DestroyKill PROVE (RunningOwnsChild /\ CallerRuns)'
  BY <1>7 DEF TypeOK, CallerOK, DestroyKill
<1>8. ASSUME DestroyThrows PROVE (RunningOwnsChild /\ CallerRuns)'
  BY <1>8 DEF TypeOK, CallerOK, DestroyThrows, GiveUp, ObjectGone
<1>9. ASSUME NEW o \in Objs, Construct(o) PROVE (RunningOwnsChild /\ CallerRuns)'
  BY <1>9 DEF TypeOK, CallerOK, Construct
<1>10. ASSUME NEW o \in Objs, SetPgid(o) PROVE (RunningOwnsChild /\ CallerRuns)'
  BY <1>10 DEF TypeOK, CallerOK, SetPgid
<1>11. ASSUME NEW o \in Objs, WaitCall(o) PROVE (RunningOwnsChild /\ CallerRuns)'
  BY <1>11 DEF TypeOK, CallerOK, WaitCall
<1>12. ASSUME NEW o \in Objs, Detach(o) PROVE (RunningOwnsChild /\ CallerRuns)'
  BY <1>12 DEF TypeOK, CallerOK, Detach
<1>13. ASSUME InstallHandler PROVE (RunningOwnsChild /\ CallerRuns)'
  BY <1>13 DEF TypeOK, CallerOK, InstallHandler
<1>14. ASSUME Killall PROVE (RunningOwnsChild /\ CallerRuns)'
  BY <1>14 DEF TypeOK, CallerOK, Killall
<1>15. ASSUME Interrupt PROVE (RunningOwnsChild /\ CallerRuns)'
  BY <1>15 DEF TypeOK, CallerOK, Interrupt
<1>16. ASSUME SigintEnds PROVE (RunningOwnsChild /\ CallerRuns)'
  BY <1>16 DEF TypeOK, CallerOK, SigintEnds
<1>17. ASSUME SigintHandled PROVE (RunningOwnsChild /\ CallerRuns)'
  BY <1>17 DEF TypeOK, CallerOK, SigintHandled, ReadInterrupted, Blocked, GiveUp
<1>18. ASSUME NEW p \in Pids, ChildSetup(p) PROVE (RunningOwnsChild /\ CallerRuns)'
  BY <1>18 DEF TypeOK, CallerOK, ChildSetup
<1>19. ASSUME NEW p \in Pids, ChildExecs(p) PROVE (RunningOwnsChild /\ CallerRuns)'
  BY <1>19 DEF TypeOK, CallerOK, ChildExecs
<1>20. ASSUME NEW p \in Pids, ChildRefuses(p) PROVE (RunningOwnsChild /\ CallerRuns)'
  <2>1. \A q \in Pids : /\ IsChild(q)' <=> IsChild(q)
                        /\ st[q] \in {"running", "zombie"} => st'[q] = st[q]
    BY <1>20 DEF TypeOK, ChildRefuses
  <2>2. UNCHANGED <<m_running, m_pid, owner, caller>>
    BY <1>20 DEF ChildRefuses
  <2>3. \A o \in Objs : m_running[o] => m_pid[o] \in Pids
    BY DEF TypeOK
  <2>4. RunningOwnsChild'
    BY <2>1, <2>2, <2>3
  <2>5. CASE caller.op = "dwait"
    <3>1. caller.obj \in Objs /\ m_pid[caller.obj] \in Pids \cup {0}
      BY <2>5 DEF TypeOK, CallerOK
    <3> QED
      BY <2>1, <2>2, <2>4, <2>5, <3>1
  <2>6. CASE caller.op # "dwait"
    BY <2>2, <2>4, <2>6
  <2> QED
    BY <2>5, <2>6
<1>21. ASSUME NEW p \in Pids, ChildExits1(p) PROVE (RunningOwnsChild /\ CallerRuns)'
  BY <1>21 DEF TypeOK, CallerOK, ChildExits1, Ends
<1>22. ASSUME NEW p \in Pids, ProgramEnds(p) PROVE (RunningOwnsChild /\ CallerRuns)'
  BY <1>22 DEF TypeOK, CallerOK, ProgramEnds, Ends
<1>23. ASSUME NEW p \in Pids, ChildKilled(p) PROVE (RunningOwnsChild /\ CallerRuns)'
  BY <1>23 DEF TypeOK, CallerOK, ChildKilled, BeforeExec, Ends
<1>24. ASSUME NEW p \in Pids, ForeignStarts(p) PROVE (RunningOwnsChild /\ CallerRuns)'
  BY <1>24 DEF TypeOK, CallerOK, ForeignStarts
<1>25. ASSUME NEW p \in Pids, ForeignEnds(p) PROVE (RunningOwnsChild /\ CallerRuns)'
  BY <1>25 DEF TypeOK, CallerOK, ForeignEnds
<1>26. ASSUME WaitDone PROVE (RunningOwnsChild /\ CallerRuns)'
  <2>1. WaitTargets(caller.obj) = {m_pid[caller.obj]} /\ caller.obj \in Objs
    BY <1>26, OwnTarget DEF WaitDone, CallerOK
  <2>2. Reap(caller.obj, m_pid[caller.obj]) /\ caller' = NoCall
    BY <1>26, <2>1 DEF WaitDone, WaitReturns, WaitError
  <2>3. \A x \in Objs : m_running[x] /\ x # caller.obj => m_pid[x] # m_pid[caller.obj]
    BY <1>26, <2>1 DEF WaitDone, TypeOK
  <2> QED
    BY <2>1, <2>2, <2>3 DEF TypeOK, Reap, Release
<1>27. ASSUME DestroyWait PROVE (RunningOwnsChild /\ CallerRuns)'
  <2> DEFINE o == caller.obj
  <2>1. o \in Objs /\ caller' = NoCall /\ ObjectGone(o)
    BY <1>27 DEF DestroyWait, CallerOK
  <2>2. CASE m_running[o]
    <3>1. WaitTargets(o) = {m_pid[o]}
      BY <2>1, <2>2, OwnTarget
    <3>2. Release(m_pid[o])
      BY <1>27, <3>1 DEF DestroyWait
    <3>3. \A x \in Objs : m_running[x] /\ x # o => m_pid[x] # m_pid[o]
      BY <2>1, <2>2 DEF TypeOK
    <3> QED
      BY <2>1, <3>2, <3>3 DEF TypeOK, Release, ObjectGone
  <2>3. CASE ~m_running[o]
    <3>1. WaitTargets(o) = {}
      BY <1>27, <2>3 DEF WaitTargets, DestroyWait
    <3> QED
      BY <1>27, <2>1, <3>1 DEF TypeOK, DestroyWait, ObjectGone
  <2> QED
    BY <2>2, <2>3
<1>28. ASSUME NEW o \in Objs, StartCall(o) PROVE (RunningOwnsChild /\ CallerRuns)'
  BY <1>28, RunningOwn DEF TypeOK, CallerOK, StartCall
<1>29. ASSUME NEW o \in Objs, IsRunning(o) PROVE (RunningOwnsChild /\ CallerRuns)'
  BY <1>29, RunningOwn DEF TypeOK, CallerOK, IsRunning
<1>30. ASSUME NEW o \in Objs, SignalCall(o) PROVE (RunningOwnsChild /\ CallerRuns)'
  BY <1>30, RunningOwn DEF TypeOK, CallerOK, SignalCall
<1>31. ASSUME NEW o \in Objs, Destroy(o) PROVE (RunningOwnsChild /\ CallerRuns)'
  <2>1. CASE m_running[o]
    BY <1>31, <2>1, RunningOwn DEF TypeOK, CallerOK, Destroy
  <2>2. CASE ~m_running[o]
    BY <1>31, <2>2 DEF TypeOK, CallerOK, Destroy, ObjectGone
  <2> QED
    BY <2>1, <2>2
<1>32. CASE UNCHANGED vars
  BY <1>32 DEF vars
<1>33. ASSUME NEW p \in Pids, ChildHandles(p) PROVE (RunningOwnsChild /\ CallerRuns)'
  BY <1>33 DEF TypeOK, CallerOK, ChildHandles
<1> QED
  BY <1>1, <1>2, <1>3, <1>4, <1>5, <1>6, <1>7, <1>8, <1>9, <1>10, <1>11, <1>12, <1>13, <1>14, <1>15, <1>16, <1>17, <1>18, <1>19, <1>20, <1>21, <1>22, <1>23, <1>24, <1>25, <1>26, <1>27, <1>28, <1>29, <1>30, <1>31, <1>32, <1>33
  DEF Next, CallerStep, NewCall, SigintStep, KernelStep, ChildStarts

LEMMA OwnAlways ==
  ASSUME ~IdleWait
  PROVE  Spec => []OwnInv
  BY InitOwn, OwnStep, PTL DEF Spec

\* As long as m_running says so, m_pid is the object's own unreaped child.
THEOREM RunningIsOwn ==
  ASSUME ~IdleWait
  PROVE  Spec => []RunningOwnsChild
<1>1. OwnInv => RunningOwnsChild
  BY DEF OwnInv
<1> QED
  BY <1>1, OwnAlways, PTL

\* signal() and the destructor signal the object's own child only.
THEOREM SignalsOwn ==
  ASSUME ~IdleWait
  PROVE  Spec => SignalsOnlyOwnChild
<1>1. OwnInv /\ [Next]_vars =>
        [KillDone \/ DestroyKill => \A p \in sig' \ sig : owner[p] = caller.obj]_vars
  <2> SUFFICES ASSUME OwnInv, KillDone \/ DestroyKill, NEW p \in sig' \ sig
               PROVE  owner[p] = caller.obj
    OBVIOUS
  <2>1. p \in Addressed(m_pid[caller.obj])
    BY DEF KillDone, DestroyKill, SendTo, Reached
  <2>2. caller.obj \in Objs /\ m_running[caller.obj]
    BY DEF KillDone, DestroyKill, OwnInv, HeldInv, CallerOK, CallerRuns
  <2> QED
    BY <2>1, <2>2 DEF OwnInv, RunningOwnsChild, Addressed
<1> QED
  BY <1>1, OwnAlways, PTL DEF Spec, SignalsOnlyOwnChild

LEMMA WaitReaps ==
  ASSUME OwnInv, NEW o \in Objs, m_running[o], WaitReturns(o), NEW x \in Objs,
         m_running[x], ~m_running'[x]
  PROVE  ReapedOwnChild(x)
<1>1. Reap(o, m_pid[o]) /\ m_pid[o] \in Pids
  BY OwnTarget DEF WaitReturns, WaitError, WaitTargets
<1>2. x = o
  BY <1>1 DEF Reap, OwnInv, HeldInv, TypeOK
<1> QED
  BY <1>1, <1>2
  DEF Reap, Release, SetStatus, ReapedOwnChild, OwnInv, HeldInv, TypeOK, RunningOwnsChild

LEMMA RunningReaps ==
  ASSUME OwnInv, NEW o \in Objs, Running(o), NEW x \in Objs, m_running[x], ~m_running'[x]
  PROVE  ReapedOwnChild(x)
  BY WaitReaps DEF Running, NothingToReap, objVars

\* exit_normal() and exit_status() are those of the program the object ran last.
THEOREM StatusIsOwn ==
  ASSUME ~IdleWait
  PROVE  Spec => ReapsOwnChild
<1> DEFINE Reaped == \A o \in Objs :
      m_running[o] /\ ~m_running'[o] /\ m_pid'[o] # 0 => ReapedOwnChild(o)
<1>1. OwnInv /\ [Next]_vars => [Reaped]_vars
  <2> SUFFICES ASSUME OwnInv, Next, NEW x \in Objs,
                      m_running[x], ~m_running'[x], m_pid'[x] # 0
               PROVE  ReapedOwnChild(x)
    OBVIOUS
  <2>1. CASE CallerStep
    <3>1. CASE WaitDone
      <4>1. caller.obj \in Objs /\ m_running[caller.obj] /\ WaitReturns(caller.obj)
        BY <3>1 DEF WaitDone, OwnInv, HeldInv, CallerOK, CallerRuns
      <4> QED
        BY <4>1, WaitReaps
    <3>2. CASE ~WaitDone
      BY <2>1, <3>2
      DEF CallerStep, StartForkFails, StartFork, StartSucceeds, StartThrows, KillDone,
          KillDenied, DestroyKill, DestroyThrows, DestroyWait, ObjectGone, objVars,
          OwnInv, HeldInv, TypeOK
    <3> QED
      BY <3>1, <3>2
  <2>2. CASE \E o \in Objs : NewCall(o)
    <3>1. PICK o \in Objs : NewCall(o)
      BY <2>2
    <3>2. CASE Running(o)
      BY <3>2, RunningReaps
    <3>3. CASE ~Running(o)
      BY <3>1, <3>3
      DEF NewCall, Construct, SetPgid, StartCall, IsRunning, WaitCall, Detach, SignalCall,
          Destroy, ObjectGone, objVars, OwnInv, HeldInv, TypeOK
    <3> QED
      BY <3>2, <3>3
  <2>3. CASE SigintStep \/ \E p \in Pids : KernelStep(p)
    BY <2>3
    DEF SigintStep, InstallHandler, Killall, Interrupt, SigintEnds, SigintHandled,
        KernelStep, ChildStarts, ChildSetup, ChildExecs, ChildRefuses, ChildExits1,
        ProgramEnds, ChildKilled, ChildHandles, Ends, ForeignStarts, ForeignEnds, objVars
  <2> QED
    BY <2>1, <2>2, <2>3 DEF Next
<1> QED
  BY <1>1, OwnAlways, PTL DEF Spec, ReapsOwnChild

=============================================================================
