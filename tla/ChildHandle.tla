----------------------------- MODULE ChildHandle -----------------------------
(***************************************************************************)
(* What utilmm::process promises to a caller who waits only for what runs: *)
(* an object is a handle on one program at a time.  No process ids, no     *)
(* kernel and no signals: a started program ends on its own, the handle    *)
(* keeps the result of the last program it has seen end and of no other,   *)
(* and closing the handle takes until the program has ended.               *)
(***************************************************************************)
EXTENDS Integers

CONSTANTS
  Objs, ExitCodes,
  SetuidPrograms   \* can a program refuse the signal of the destructor?

Signalled == -1   \* the program ended, but not by exit()
Alive     == -2
NoProgram == -3

Ends == ExitCodes \cup {Signalled}

VARIABLES phase, program, result
vars == <<phase, program, result>>

Phases == {"absent", "ready", "starting", "running", "closing"}
NoResult == [normal |-> TRUE, status |-> 0]
ResultOf(end) == [normal |-> end # Signalled, status |-> IF end = Signalled THEN 0 ELSE end]

Init ==
  /\ phase   = [o \in Objs |-> "absent"]
  /\ program = [o \in Objs |-> NoProgram]
  /\ result  = [o \in Objs |-> NoResult]

Move(o, from, to) == phase[o] = from /\ phase' = [phase EXCEPT ![o] = to]

\* The end of the program is taken note of.
Collect(o) ==
  /\ program[o] \in Ends
  /\ result'  = [result EXCEPT ![o] = ResultOf(program[o])]
  /\ program' = [program EXCEPT ![o] = NoProgram]

Open(o)  == Move(o, "absent", "ready") /\ UNCHANGED <<program, result>>
Start(o) ==
  \/ Move(o, "ready", "starting") /\ UNCHANGED <<program, result>>
  \/ Move(o, "running", "starting") /\ Collect(o)
Started(o) ==
  /\ Move(o, "starting", "running")
  /\ \E p \in Ends \cup {Alive} : program' = [program EXCEPT ![o] = p]
  /\ UNCHANGED result
Failed(o) == Move(o, "starting", "ready") /\ UNCHANGED <<program, result>>
ProgramEnds(o) ==
  /\ program[o] = Alive
  /\ \E e \in Ends : program' = [program EXCEPT ![o] = e]
  /\ UNCHANGED <<phase, result>>
Wait(o) == Move(o, "running", "ready") /\ Collect(o)
Detach(o) ==
  /\ Move(o, "running", "ready")
  /\ program' = [program EXCEPT ![o] = NoProgram]
  /\ UNCHANGED result

\* The destructor, of an idle handle and of a running one.
Forget(o) ==
  /\ program' = [program EXCEPT ![o] = NoProgram]
  /\ result'  = [result EXCEPT ![o] = NoResult]
Drop(o)  == Move(o, "ready", "absent") /\ Forget(o)
Close(o) ==
  /\ Move(o, "running", "closing")
  /\ Collect(o) \/ UNCHANGED <<program, result>>
Closed(o) ==
  /\ program[o] \in Ends \cup {NoProgram}
  /\ Move(o, "closing", "absent") /\ Forget(o)
\* The program cannot be signalled and the destructor throws.
CloseThrows(o) == SetuidPrograms /\ Move(o, "closing", "absent") /\ Forget(o)

Next == \E o \in Objs :
  \/ Open(o) \/ Start(o) \/ Started(o) \/ Failed(o) \/ ProgramEnds(o)
  \/ Wait(o) \/ Detach(o) \/ Drop(o) \/ Close(o) \/ Closed(o) \/ CloseThrows(o)

Spec == Init /\ [][Next]_vars
=============================================================================
