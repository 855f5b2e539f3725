---------------------------- MODULE ProcessHandle ----------------------------
(* Process, with its pids, waitpid() and kill(), implements ChildHandle.      *)
EXTENDS Process

phase == [o \in Objs |->
  IF caller.obj = o /\ caller.op \in {"fork", "read", "read2"} THEN "starting"
  ELSE IF caller.obj = o /\ caller.op \in {"dkill", "dwait"} THEN "closing"
  ELSE IF o \notin managed THEN "absent"
  ELSE IF m_running[o] THEN "running" ELSE "ready"]

\* NoProgram and Alive of ChildHandle are -3 and -2.
program == [o \in Objs |->
  IF ~m_running[o] THEN -3
  ELSE IF st[m_pid[o]] = "zombie" THEN code[m_pid[o]] ELSE -2]

result == [o \in Objs |-> [normal |-> m_normalexit[o], status |-> m_status[o]]]

Handle == INSTANCE ChildHandle WITH phase <- phase, program <- program, result <- result

\* A process object is a handle on one program at a time: whatever the kernel
\* does with process ids, the result it reports is the one of the program it
\* started last, and its destructor returns when that program has ended.
ImplementsChildHandle == Handle!Spec

=============================================================================
