----------------------------- MODULE Descriptors -----------------------------
(***************************************************************************)
(* File descriptors: auto_close, tempfile, and the redirections and the    *)
(* error pipe of process, on the descriptor table of one program.          *)
(*                                                                         *)
(* Descriptors are numbers that are used again, so that whoever closes one *)
(* twice closes what another part of the program has opened since.  Who    *)
(* has to close a descriptor is a matter of convention: `owner' follows it.*)
(* A FILE* stands for the descriptor below it.  The program may close its  *)
(* own standard streams, and may hand the descriptor of its tempfile to an *)
(* object as process.hh:124-129 shows it, although the tempfile will close *)
(* it as well.                                                             *)
(***************************************************************************)
EXTENDS Integers, FiniteSets, FiniteSetsExt

CONSTANTS
  Objs,       \* the utilmm::process objects
  Fds,        \* the descriptors of the program (a bound), but for 0
  Files,      \* the files that are opened
  StdFile,    \* what descriptors 1 and 2 are when the program starts
  Pipe,       \* an error pipe
  NoFile      \* the descriptor is closed

ASSUME DescriptorsAssumption ==
  /\ Fds \subseteq Nat \ {0} /\ IsFiniteSet(Fds)
  /\ {1, 2} \subseteq Fds
  /\ {StdFile, Pipe, NoFile} \cap Files = {}
  /\ NoFile \notin {StdFile, Pipe} /\ Pipe # StdFile

VARIABLES
  file,       \* kernel: what each descriptor stands for
  m_fileno,   \* the descriptor (or stream) of each auto_close, or -1
  temp,       \* the tempfile object: "none", "named" or "anonymous"
  lent,       \* what of the tempfile an object has been given: "nothing", its
              \* "handle", or its "stream"
  crossed,    \* ~tempfile() has closed what was given away: the program goes on
              \* without a file that somebody needs, or with broken memory
  child,      \* the standard streams of the child that was forked last
  threw,      \* did the last start() throw?
  owner,      \* ghost: who has to close the descriptor
  wanted      \* ghost: where the next child of an object is to write to

vars == <<file, m_fileno, temp, lent, crossed, child, threw, owner, wanted>>

-----------------------------------------------------------------------------
(* State                                                                     *)

Streams == {"Stdout", "Stderr"}
StdFd(s) == IF s = "Stdout" THEN 1 ELSE 2

\* The auto_close objects: m_stdout and m_stderr of each process, one of the
\* program's own, and m_guard of the tempfile.
Guard     == <<"program", "guard">>
TempGuard == <<"program", "temp">>
Guards    == (Objs \X Streams) \cup {Guard, TempGuard}
Program   == <<"program", "itself">>
Nobody    == <<"program", "nobody">>
Forgotten == <<"program", "forgotten">>

\* Mutant: one case of the switch falls through to the other.
GetStreamSame(o, s) == <<o, "Stdout">>
GetStream(o, s) == <<o, s>>

Init ==
  /\ file = [d \in Fds |-> IF d \in {1, 2} THEN StdFile ELSE NoFile]
  /\ owner = [d \in Fds |-> IF d \in {1, 2} THEN Program ELSE Nobody]
  /\ m_fileno = [g \in Guards |-> -1]
  /\ temp = "none" /\ lent = "nothing" /\ crossed = FALSE
  /\ child = [s \in Streams |-> NoFile]
  /\ threw = FALSE
  /\ wanted = [o \in Objs |-> [s \in Streams |-> NoFile]]

Open(d) == file[d] # NoFile
Unused  == {d \in Fds : ~Open(d)}

\* The descriptors open(), dup() and pipe() give out: the lowest ones.
Lowest == Min(Unused)
Next2  == Min(Unused \ {Lowest})
Room(n) == Cardinality(Unused) >= n

\* The program may hand d over, or close it.
Own(d) == Open(d) /\ owner[d] = Program

\* d is the tempfile's, and handle() gives it to the program.
OfTemp(d) == temp = "named" /\ lent = "nothing" /\ d = m_fileno[TempGuard]

\* The tempfile has been given to an object.
Lends(d, what) == lent' = IF OfTemp(d) THEN what ELSE lent

-----------------------------------------------------------------------------
(* auto_close                                                                *)

\* Mutant: reset() does not close what the object has.
HeldForgotten(g) == {}

\* What close() closes.
Held(g) == {m_fileno[g]} \ {-1}

\* The table after some descriptors have been closed, and their owners.
Closing(t, D) == [d \in Fds |-> IF d \in D THEN NoFile ELSE t[d]]
Disowned(D)   == [d \in Fds |-> IF d \in D THEN Nobody ELSE owner[d]]

\* Mutant: close() does not detach().
CloseKeepsFileno(g) ==
  /\ file' = Closing(file, Held(g))
  /\ owner' = Disowned(Held(g))
  /\ UNCHANGED m_fileno

\* Mutant: detach() sets m_fileno to 0.
CloseToZero(g) ==
  /\ file' = Closing(file, Held(g))
  /\ owner' = Disowned(Held(g))
  /\ m_fileno' = [m_fileno EXCEPT ![g] = 0]

\* close(), and the destructor.
Close(g) ==
  /\ file' = Closing(file, Held(g))
  /\ owner' = Disowned(Held(g))
  /\ m_fileno' = [m_fileno EXCEPT ![g] = -1]

\* reset(fileno) for a descriptor f on d that has been opened, or handed over.
Reset(g, d, f) ==
  /\ file' = [Closing(file, Held(g) \ {d}) EXCEPT ![d] = f]
  /\ owner' = [Disowned(Held(g)) EXCEPT ![d] = g]
  /\ m_fileno' = [m_fileno EXCEPT ![g] = d]

-----------------------------------------------------------------------------
(* What the program does by itself                                           *)

ProgramOpens(f) ==
  /\ Room(1)
  /\ file' = [file EXCEPT ![Lowest] = f]
  /\ owner' = [owner EXCEPT ![Lowest] = Program]
  /\ UNCHANGED <<m_fileno, temp, lent, crossed, child, threw, wanted>>

ProgramCloses(d) ==
  /\ Own(d)
  /\ file' = Closing(file, {d})
  /\ owner' = Disowned({d})
  /\ UNCHANGED <<m_fileno, temp, lent, crossed, child, threw, wanted>>

GuardReset(d) ==
  /\ Own(d)
  /\ Reset(Guard, d, file[d])
  /\ UNCHANGED <<temp, lent, crossed, child, threw, wanted>>

GuardClose ==
  /\ Close(Guard)
  /\ UNCHANGED <<temp, lent, crossed, child, threw, wanted>>

\* detach(): the descriptor is the program's again.
GuardDetach ==
  /\ m_fileno[Guard] # -1
  /\ owner' = [owner EXCEPT ![m_fileno[Guard]] = Program]
  /\ m_fileno' = [m_fileno EXCEPT ![Guard] = -1]
  /\ UNCHANGED <<file, temp, lent, crossed, child, threw, wanted>>

-----------------------------------------------------------------------------
(* tempfile                                                                  *)

TempCreate(kind, f) ==
  /\ temp = "none" /\ kind \in {"named", "anonymous"} /\ Room(1)
  /\ temp' = kind
  /\ Reset(TempGuard, Lowest, f)
  /\ UNCHANGED <<lent, crossed, child, threw, wanted>>

\* If its descriptor was given away and is closed already, close() fails, which
\* is caught; if the number is in use, that is closed; and a stream that was
\* closed is freed memory.
TempDestroy ==
  /\ temp # "none"
  /\ temp' = "none" /\ lent' = "nothing"
  /\ Close(TempGuard)
  /\ crossed' = (lent = "stream" \/ (lent = "handle" /\ Open(m_fileno[TempGuard])))
  /\ UNCHANGED <<child, threw, wanted>>

\* handle() says 0 if there is no name, and the stream is lost.
TempDetach ==
  /\ temp # "none"
  /\ temp' = "anonymous" /\ lent' = "nothing"
  /\ m_fileno' = [m_fileno EXCEPT ![TempGuard] = -1]
  /\ owner' = [d \in Fds |-> IF d \notin Held(TempGuard) \/ lent # "nothing" THEN owner[d]
                             ELSE IF temp = "named" THEN Program ELSE Forgotten]
  /\ UNCHANGED <<file, crossed, child, threw, wanted>>

-----------------------------------------------------------------------------
(* process::redirect_to()                                                    *)

Wants(o, s, f) == wanted' = [wanted EXCEPT ![o][s] = f]

\* redirect_to(s, d, true): the object owns d from now on.
RedirectGiven(o, s, d) ==
  /\ Own(d) \/ OfTemp(d)
  /\ Reset(GetStream(o, s), d, file[d])
  /\ Wants(o, s, file[d]) /\ Lends(d, "handle")
  /\ UNCHANGED <<temp, crossed, child, threw>>

\* Mutant: redirect_to(s, d, false) does not dup().
RedirectUncopied(o, s, d) ==
  /\ Open(d) /\ owner[d] = Program /\ Room(1)
  /\ m_fileno' = [m_fileno EXCEPT ![GetStream(o, s)] = d]
  /\ file' = Closing(file, Held(GetStream(o, s)))
  /\ owner' = Disowned(Held(GetStream(o, s)))
  /\ Wants(o, s, file[d])
  /\ UNCHANGED <<temp, lent, crossed, child, threw>>

\* redirect_to(s, d, false).
RedirectCopied(o, s, d) ==
  /\ Open(d) /\ owner[d] \notin {Nobody, Forgotten} /\ Room(1)
  /\ Reset(GetStream(o, s), Lowest, file[d])
  /\ Wants(o, s, file[d])
  /\ UNCHANGED <<temp, lent, crossed, child, threw>>

\* redirect_to(s, path).
RedirectOpened(o, s, f) ==
  /\ Room(1)
  /\ Reset(GetStream(o, s), Lowest, f)
  /\ Wants(o, s, f)
  /\ UNCHANGED <<temp, lent, crossed, child, threw>>

\* redirect_to(s, stream, true), for a stream of the program on d: the object
\* takes a copy, and then the stream is closed.
RedirectStreamGiven(o, s, d) ==
  LET g == GetStream(o, s)
  IN  /\ Own(d) \/ OfTemp(d)
      /\ Room(1)
      /\ file' = [Closing(file, Held(g) \cup {d}) EXCEPT ![Lowest] = file[d]]
      /\ owner' = [Disowned(Held(g) \cup {d}) EXCEPT ![Lowest] = g]
      /\ m_fileno' = [m_fileno EXCEPT ![g] = Lowest]
      /\ Wants(o, s, file[d]) /\ Lends(d, "stream")
      /\ UNCHANGED <<temp, crossed, child, threw>>

\* redirect_to(s, stream, false): the copy is copied again, and the first one
\* forgotten.
RedirectStreamKept(o, s, d) ==
  LET g == GetStream(o, s)
  IN  /\ Open(d) /\ owner[d] = Program /\ Room(2)
      /\ file' = [Closing(file, Held(g)) EXCEPT ![Lowest] = file[d], ![Next2] = file[d]]
      /\ owner' = [Disowned(Held(g)) EXCEPT ![Lowest] = Forgotten, ![Next2] = g]
      /\ m_fileno' = [m_fileno EXCEPT ![g] = Next2]
      /\ Wants(o, s, file[d])
      /\ UNCHANGED <<temp, lent, crossed, child, threw>>

\* redirect_to(s, InvalidHandle, true): reset(-1).  (erase_redirection() opens a
\* file with an empty name: it throws and changes nothing.)
RedirectInvalid(o, s) ==
  /\ Close(GetStream(o, s))
  /\ Wants(o, s, NoFile)
  /\ UNCHANGED <<temp, lent, crossed, child, threw>>

-----------------------------------------------------------------------------
(* process::start()                                                          *)

\* output_file::redirect() in the child, on its own table t: dup2().
Redirected(t, o, s) ==
  LET d == m_fileno[GetStream(o, s)]
  IN  IF d = -1 THEN t ELSE [t EXCEPT ![StdFd(s)] = t[d]]

\* Mutant: the child closes write_guard, too.
ChildClosesPipe(t, o, r) ==
  LET u == Redirected(Redirected(t, o, "Stdout"), o, "Stderr")
  IN  Closing(u, {r} \cup {d \in Fds : u[d] = Pipe})

\* The table of the child when it calls execvp(): read_guard, which is on
\* descriptor r, is closed after the redirections.
ChildTable(t, o, r) == Closing(Redirected(Redirected(t, o, "Stdout"), o, "Stderr"), {r})

\* What the parent closes: the redirections (and, when start() ends, both ends
\* of the pipe).
ParentCloses(o) == UNION {Held(GetStream(o, s)) : s \in Streams}

\* fork() succeeds; the child executes the program, which closes its end of the
\* pipe (FD_CLOEXEC), or it reports an error, which the parent sees if that
\* descriptor is still the pipe.  (A start() that throws before fork() closes
\* the pipe and leaves everything as it was.)
Start(o, fails) ==
  /\ Room(2)
  /\ LET piped == [file EXCEPT ![Lowest] = Pipe, ![Next2] = Pipe]
         table == ChildTable(piped, o, Lowest)
     IN  /\ child' = [s \in Streams |-> Closing(table, {Next2})[StdFd(s)]]
         /\ threw' = (fails /\ table[Next2] = Pipe)
  /\ file' = Closing(file, ParentCloses(o))
  /\ owner' = Disowned(ParentCloses(o))
  /\ m_fileno' = [g \in Guards |-> IF g \in {GetStream(o, s) : s \in Streams} THEN -1 ELSE m_fileno[g]]
  /\ wanted' = [wanted EXCEPT ![o] = [s \in Streams |-> NoFile]]
  /\ UNCHANGED <<temp, lent, crossed>>

\* ~process(): m_stdout and m_stderr are destroyed; another object may follow.
Destroy(o) ==
  /\ file' = Closing(file, ParentCloses(o))
  /\ owner' = Disowned(ParentCloses(o))
  /\ m_fileno' = [g \in Guards |-> IF g \in {o} \X Streams THEN -1 ELSE m_fileno[g]]
  /\ wanted' = [wanted EXCEPT ![o] = [s \in Streams |-> NoFile]]
  /\ UNCHANGED <<temp, lent, crossed, child, threw>>

-----------------------------------------------------------------------------
ProgramStep ==
  \/ \E f \in Files : ProgramOpens(f)
  \/ \E d \in Fds : ProgramCloses(d) \/ GuardReset(d)
  \/ GuardClose \/ GuardDetach

TempStep ==
  \/ \E kind \in {"named", "anonymous"}, f \in Files : TempCreate(kind, f)
  \/ TempDestroy \/ TempDetach

Redirect(o, s) ==
  \/ \E d \in Fds :
       \/ RedirectGiven(o, s, d) \/ RedirectCopied(o, s, d)
       \/ RedirectStreamGiven(o, s, d) \/ RedirectStreamKept(o, s, d)
  \/ \E f \in Files : RedirectOpened(o, s, f)
  \/ RedirectInvalid(o, s)

Next ==
  /\ ~crossed
  /\ \/ ProgramStep \/ TempStep
     \/ \E o \in Objs :
          \/ \E s \in Streams : Redirect(o, s)
          \/ \E fails \in BOOLEAN : Start(o, fails)
          \/ Destroy(o)

Spec == Init /\ [][Next]_vars

-----------------------------------------------------------------------------
(* Properties                                                                *)

\* Every variable keeps its type.
TypeOK ==
  /\ file \in [Fds -> Files \cup {StdFile, NoFile}]
  /\ m_fileno \in [Guards -> Fds \cup {-1}]
  /\ temp \in {"none", "named", "anonymous"}
  /\ lent \in {"nothing", "handle", "stream"} /\ crossed \in BOOLEAN
  /\ child \in [Streams -> Files \cup {StdFile, Pipe, NoFile}]
  /\ threw \in BOOLEAN
  /\ owner \in [Fds -> Guards \cup {Program, Nobody, Forgotten}]
  /\ wanted \in [Objs -> [Streams -> Files \cup {StdFile, NoFile}]]

\* An auto_close object has an open descriptor of its own, so that close() cannot
\* fail and cannot close what has got the same number since - all but one: the
\* guard of a tempfile whose handle() was given to redirect_to(.., true), as
\* process.hh:124-129 tells users to do, never has, for the object owns the
\* descriptor and may have closed it.  That holds until ~tempfile() acts on it.
GuardsOwn ==
  ~crossed => \A g \in Guards : m_fileno[g] # -1 =>
    ((Open(m_fileno[g]) /\ owner[m_fileno[g]] = g) <=> ~(g = TempGuard /\ lent # "nothing"))

\* No descriptor is lost: an open one is known to the program or to the object
\* that will close it.  The exceptions are the two calls that forget one.
NothingLost ==
  \A d \in Fds : Open(d) =>
    \/ owner[d] \in {Program, Forgotten}
    \/ owner[d] \in Guards /\ m_fileno[owner[d]] = d

\* The library never closes, or puts another file in the place of, a descriptor
\* of the program that was not handed over (process.hh:139-142), but where a
\* tempfile that was handed over still has its number when it is destroyed.
KeepsProgramFiles ==
  [][\A d \in Fds : owner[d] = Program /\ file'[d] # file[d] =>
       \/ ProgramCloses(d)
       \/ \E o \in Objs, s \in Streams : RedirectStreamGiven(o, s, d)
       \/ TempDestroy /\ lent # "nothing" /\ d = m_fileno[TempGuard]]_vars

\* Where the child of an object is to write to (process.hh:122): to what it was
\* told, and for the rest to where the program itself writes.
Aim(o, s) == IF wanted[o][s] = NoFile THEN file[StdFd(s)] ELSE wanted[o][s]

\* A program that is started writes there.  Two things go wrong if the program
\* has closed its descriptors 1 or 2: the pipe of start() may get such a number,
\* and then the child has no such stream, redirected or not; and if it is the
\* redirection of stderr that has got number 1, that of stdout replaces it.
ChildWritesWhereWanted ==
  [][\A o \in Objs : Start(o, FALSE) =>
       \A s \in Streams :
         child'[s] = IF StdFd(s) \in {Lowest, Next2} THEN NoFile
                     ELSE IF m_fileno[<<o, s>>] = 1 THEN Aim(o, "Stdout")
                     ELSE Aim(o, s)]_vars

\* start() throws if and only if the program could not be executed
\* (process.hh:84), unless the pipe for the report has got the number of a stream
\* that is redirected: then the report goes to where the child was to write.
FailureReported ==
  [][\A o \in Objs, fails \in BOOLEAN : Start(o, fails) =>
       threw' = (fails /\ \A s \in Streams : StdFd(s) = Next2 => wanted[o][s] = NoFile)]_vars

=============================================================================
