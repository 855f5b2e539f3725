------------------------------ MODULE PkgConfig ------------------------------
(***************************************************************************)
(* utilmm::pkgconfig: every question is put to a pkg-config program whose  *)
(* output comes through a pipe.  It has some pieces to write, unless it    *)
(* fails first; a signal may interrupt either side.                        *)
(***************************************************************************)
EXTENDS Naturals

CONSTANTS Chunks,        \* the pieces of output at most, a bound
          MaxQuestions   \* questions asked in a behaviour, a bound

ASSUME PkgAssumption == Chunks \in Nat /\ MaxQuestions \in Nat

VARIABLES question,   \* what the program asks, "none" outside of a call
          at,         \* where run() is
          child,      \* "none", "running", or how it ended
          output,     \* the pieces it will have written if it does not fail
          written,    \* the pieces that are in the pipe
          writer,     \* who holds the write end
          read,       \* the pieces that have been read
          reply,      \* what the last question came to
          asked,      \* how many were asked
          ends,       \* the read ends that are open
          zombies,    \* children that have ended and that nobody will wait for
          strays      \* children that go on to run and that no object knows

pkgVars == <<question, at, child, output, written, writer, read, reply, asked, ends, zombies, strays>>

Questions == {"exists", "get", "run", "packages", "construct"}
PkgTypeOK ==
    /\ question \in Questions \cup {"none"}
    /\ at \in {"out", "start", "read", "wait", "judge"}
    /\ child \in {"none", "running", "exit 0", "exit 1", "killed"}
    /\ output \in 0 .. Chunks /\ written \in 0 .. output /\ read \in 0 .. written
    /\ writer \subseteq {"us", "child"}
    /\ asked \in 0 .. MaxQuestions /\ ends \in 0 .. MaxQuestions /\ zombies \in 0 .. MaxQuestions
    /\ strays \in 0 .. MaxQuestions

None == [says |-> "nothing", of |-> "none", saw |-> "none", whole |-> FALSE]
PkgInit ==
    /\ question = "none" /\ at = "out" /\ child = "none"
    /\ output = 0 /\ written = 0 /\ writer = {} /\ read = 0
    /\ reply = None /\ asked = 0 /\ ends = 0 /\ zombies = 0 /\ strays = 0

(* The answers, given an exception of run() or its output.                 *)
Says(outcome) ==
    CASE question = "exists" /\ outcome = "output"    -> "true"
      [] question = "exists" /\ outcome = "not_found" -> "false"
      [] question = "construct" /\ outcome = "output" -> "object"
      [] question = "get" /\ outcome \in {"not_found", "pkgconfig_error"} -> "default"
      [] OTHER -> outcome

(* The call ends: ~process() interrupts a child that has not been waited   *)
(* for and waits for it, and closes what is left of the redirection.       *)
Ends(outcome) ==
    /\ reply' = [says |-> Says(outcome), of |-> question, saw |-> child, whole |-> read = output]
    /\ question' = "none" /\ at' = "out" /\ child' = "none"
    /\ output' = 0 /\ written' = 0 /\ writer' = {} /\ read' = 0
    /\ UNCHANGED <<asked, ends>>
-----------------------------------------------------------------------------
(* run() makes a pipe, whose write end is for the child.                   *)
Ask ==
    /\ at = "out" /\ asked < MaxQuestions
    /\ question' \in Questions
    /\ at' = "start" /\ writer' = {"us"}
    /\ asked' = asked + 1 /\ ends' = ends + 1
    /\ UNCHANGED <<child, output, written, read, reply, zombies, strays>>

(* /dev/null cannot be opened or fork() fails.                             *)
StartThrows ==
    /\ at = "start"
    /\ Ends("unix_error")
    /\ UNCHANGED <<zombies, strays>>

(* execvp() fails: the object does not know the child.                     *)
NoProgram ==
    /\ at = "start"
    /\ Ends("unix_error")
    /\ zombies' = zombies + 1
    /\ UNCHANGED strays

(* A signal interrupts start(), which waits for the child to execute: it   *)
(* throws, and the child goes on to run pkg-config.                        *)
StartInterrupted ==
    /\ at = "start"
    /\ Ends("unix_error")
    /\ strays' = strays + 1
    /\ UNCHANGED zombies

StrayEnds ==
    /\ strays > 0
    /\ strays' = strays - 1 /\ zombies' = zombies + 1
    /\ UNCHANGED <<question, at, child, output, written, writer, read, reply, asked, ends>>

WriterKept == {"us", "child"}     \* mutant: start() does not close its copy
WriterLeft == {"child"}

Started ==
    /\ at = "start"
    /\ at' = "read" /\ child' = "running" /\ writer' = WriterLeft
    /\ output' \in 0 .. Chunks
    /\ UNCHANGED <<question, written, read, reply, asked, ends, zombies, strays>>

(* The child.                                                              *)
ChildWrites ==
    /\ child = "running" /\ written < output
    /\ written' = written + 1
    /\ UNCHANGED <<question, at, child, output, writer, read, reply, asked, ends, zombies, strays>>

ChildEnds ==
    /\ child = "running"
    /\ \/ child' = "exit 0" /\ written = output
       \/ child' \in {"exit 1", "killed"}
    /\ writer' = writer \ {"child"}
    /\ UNCHANGED <<question, at, output, written, read, reply, asked, ends, zombies, strays>>

(* read() until the end of the file; a signal interrupts one that waits,   *)
(* while process::wait() goes on waiting after one.                        *)
AtPause == read = written /\ (writer = {} \/ read > 0)    \* mutant: one buffer is enough
AtEnd == read = written /\ writer = {}

ReadSome ==
    /\ at = "read" /\ read < written
    /\ read' \in read + 1 .. written
    /\ UNCHANGED <<question, at, child, output, written, writer, reply, asked, ends, zombies, strays>>

ReadEnds ==
    /\ at = "read" /\ AtEnd
    /\ at' = "wait"
    /\ UNCHANGED <<question, child, output, written, writer, read, reply, asked, ends, zombies, strays>>

Interrupted ==
    /\ at = "read" /\ read = written /\ writer # {}
    /\ Ends("unix_error")
    /\ UNCHANGED <<zombies, strays>>

(* process::wait()                                                         *)
Waited ==
    /\ at = "wait" /\ child # "running"
    /\ at' = "judge"
    /\ UNCHANGED <<question, child, output, written, writer, read, reply, asked, ends, zombies, strays>>

(* exit_normal() and exit_status().  packages() wants some output.         *)
Judged ==
    /\ at = "judge"
    /\ Ends(CASE child = "killed" -> "pkgconfig_error"
              [] child = "exit 1" -> "not_found"
              [] OTHER -> IF question = "packages" /\ read = 0 THEN "out_of_range" ELSE "output")
    /\ UNCHANGED <<zombies, strays>>

PkgStep == Started \/ ReadSome \/ ReadEnds \/ Waited \/ Judged \/ ChildEnds
PkgNext == \/ PkgStep \/ Ask \/ StartThrows \/ NoProgram \/ StartInterrupted
           \/ ChildWrites \/ StrayEnds \/ Interrupted
PkgSpec == PkgInit /\ [][PkgNext]_pkgVars /\ WF_pkgVars(PkgStep)
-----------------------------------------------------------------------------
AnswersTrue ==
    reply # None =>
        CASE reply.says \in {"true", "object", "output"} -> reply.saw = "exit 0" /\ reply.whole
          [] reply.says = "false" -> reply.of = "exists" /\ reply.saw = "exit 1"
          [] reply.says = "default" -> reply.of = "get" /\ reply.saw \in {"exit 1", "killed"}
          [] reply.says = "not_found" -> reply.of \notin {"exists", "get"} /\ reply.saw = "exit 1"
          [] OTHER -> TRUE

CallsLeave == /\ at = "out" => child = "none" /\ writer = {}
              /\ ends = asked /\ zombies + strays + (IF at = "out" THEN 0 ELSE 1) <= asked

(* A question has the answer that the exit of the program gives, with all  *)
(* of its output: nobody takes a part for the whole, an exit for a signal  *)
(* or a failure of the system for an absent package.  The call has waited  *)
(* for the child that start() told the object of, and there is at most one *)
(* other, of a start() that threw after fork(); every call leaves the read *)
(* end of its pipe open, which nobody closes.                              *)
PackageAnswered == PkgTypeOK /\ AnswersTrue /\ CallsLeave

(* A question comes to an end.                                             *)
QuestionEnds == at # "out" ~> at = "out"
=============================================================================
