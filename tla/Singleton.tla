------------------------------ MODULE Singleton ------------------------------
(***************************************************************************)
(* The phoenix singletons of utilmm::singleton: use<Ty> objects attach to  *)
(* and detach from reference counted instances that a server keeps in a    *)
(* map; the server itself lives as long as the map has something in it.    *)
(*                                                                         *)
(* attach() and detach() run the constructor and the destructor of Ty with *)
(* the recursive mutex held, and those may attach to and detach from other *)
(* singletons, so that the server is reentered, and may be deleted, below  *)
(* one of its own member functions.  `stack' is that call stack.           *)
(***************************************************************************)
EXTENDS Integers, Sequences, FiniteSets, SequencesExt

CONSTANTS
  Threads,
  NoThread,
  Types,        \* the types Ty of the singletons
  Programs,     \* what the singletons are like, one record for each program
  MaxUses       \* bound: use<> objects per thread and type

ASSUME SingletonAssumption ==
  /\ NoThread \notin Threads /\ IsFiniteSet(Threads) /\ IsFiniteSet(Types)
  /\ Programs \subseteq [members  : [Types -> Seq(Types)],
                          ctorUses : [Types -> Seq(Types)],
                          dtorUses : [Types -> Seq(Types)],
                          throwing : SUBSET Types]
  /\ MaxUses \in Nat \ {0}

VARIABLES
  program,      \* the program that runs, one of Programs
  clients,      \* use<> objects outside singletons, per thread and type
  server,       \* the_instance # 0
  mapped,       \* the keys of singletons
  ref,          \* ref_counter of the mapped instances
  live,         \* number of constructed and not destroyed instances per type
  holder,       \* the thread that holds sing_mtx
  stack,        \* its calls of attach and detach, the innermost first
  undefined     \* the program has run into undefined behaviour or
                \* std::terminate() and died

vars == <<program, clients, server, mapped, ref, live, holder, stack, undefined>>

-----------------------------------------------------------------------------
(* Calls                                                                     *)

Members  == program.members    \* the types of the use<> members of each type
CtorUses == program.ctorUses   \* types its constructor uses for a moment
DtorUses == program.dtorUses   \* types its destructor uses for a moment
Throwing == program.throwing   \* the types whose constructor may throw

\* stale: the server on which this call runs has been deleted.
Call(op, t, keep) ==
  [op |-> op, type |-> t, keep |-> keep, entered |-> FALSE,
   todo |-> <<>>, held |-> <<>>, throwing |-> FALSE, stale |-> FALSE]

Top == Head(stack)
Running == ~undefined /\ stack # <<>>
Entering(op) == Running /\ Top.op = op /\ ~Top.entered
InBody(op)   == Running /\ Top.op = op /\ Top.entered

\* The calls that constructing and destroying an object makes: a member is
\* kept until the destructor, a local use<> is not.
Moments(ts) ==
  [i \in 1 .. 2 * Len(ts) |->
     Call(IF i % 2 = 1 THEN "attach" ELSE "detach", ts[(i + 1) \div 2], FALSE)]
Attaches(ts) == [i \in DOMAIN ts |-> Call("attach", ts[i], TRUE)]
Detaches(ts) == [i \in DOMAIN ts |-> Call("detach", Reverse(ts)[i], FALSE)]
Construction(t) == Attaches(Members[t]) \o Moments(CtorUses[t])
Destruction(t)  == Moments(DtorUses[t]) \o Detaches(Members[t])

\* The frames below, once the innermost call has returned.
Returned(frames) ==
  IF Len(frames) < 2 THEN <<>>
  ELSE LET caller == frames[2]
       IN  <<[caller EXCEPT !.held = IF Top.keep THEN Append(@, Top.type) ELSE @]>>
             \o Tail(Tail(frames))

Init ==
  /\ program \in Programs
  /\ clients = [th \in Threads |-> [t \in Types |-> 0]]
  /\ server = FALSE
  /\ mapped = {}
  /\ ref  = [t \in Types |-> 0]
  /\ live = [t \in Types |-> 0]
  /\ holder = NoThread
  /\ stack = <<>>
  /\ undefined = FALSE

-----------------------------------------------------------------------------
(* The outermost calls, made by use<>::use() and use<>::~use()               *)

BeginAttach(th, t) ==
  /\ ~undefined /\ holder = NoThread
  /\ clients[th][t] < MaxUses
  /\ holder' = th
  /\ stack' = <<Call("attach", t, FALSE)>>
  /\ UNCHANGED <<program, clients, server, mapped, ref, live, undefined>>

BeginDetach(th, t) ==
  /\ ~undefined /\ holder = NoThread
  /\ clients[th][t] > 0
  /\ holder' = th
  /\ stack' = <<Call("detach", t, FALSE)>>
  /\ UNCHANGED <<program, clients, server, mapped, ref, live, undefined>>

\* The innermost call returns; the outermost one releases sing_mtx, and its
\* thread has one use<> more or one less.
Return(frames, delta) ==
  /\ stack' = Returned(frames)
  /\ IF Len(frames) > 1 THEN UNCHANGED <<clients, holder>>
     ELSE /\ holder' = NoThread
          /\ clients' = [clients EXCEPT ![holder][Top.type] = @ + delta]

-----------------------------------------------------------------------------
(* server::attach                                                            *)

Enter(body) == <<[Top EXCEPT !.entered = TRUE, !.todo = body]>> \o Tail(stack)

\* instance() makes a server if there is none; find() finds the name.
AttachFound ==
  /\ Entering("attach") /\ Top.type \in mapped
  /\ ref' = [ref EXCEPT ![Top.type] = @ + 1]
  /\ Return(stack, 1)
  /\ UNCHANGED <<program, server, mapped, live, undefined>>

\* find() does not: factory.create() begins to construct a wrapper<Ty>.
AttachCreates ==
  /\ Entering("attach") /\ Top.type \notin mapped
  /\ server' = TRUE
  /\ stack' = Enter(Construction(Top.type))
  /\ UNCHANGED <<program, clients, mapped, ref, live, holder, undefined>>

\* Mutant: sing_mtx is not recursive.
NextCallBlocked ==
  /\ Running /\ Top.entered /\ Top.todo # <<>> /\ holder = NoThread
  /\ UNCHANGED vars

\* A constructor or a destructor makes its next call.
NextCall ==
  /\ Running /\ Top.entered /\ Top.todo # <<>>
  /\ stack' = <<Head(Top.todo), [Top EXCEPT !.todo = Tail(@)]>> \o Tail(stack)
  /\ UNCHANGED <<program, clients, server, mapped, ref, live, holder, undefined>>

Constructed == InBody("attach") /\ Top.todo = <<>> /\ ~Top.throwing

\* insert() keeps an entry that is there already; then incr_ref().
AttachInserts ==
  /\ Constructed /\ ~Top.stale
  /\ live' = [live EXCEPT ![Top.type] = @ + 1]
  /\ mapped' = mapped \cup {Top.type}
  /\ ref' = [ref EXCEPT ![Top.type] = IF Top.type \in mapped THEN @ + 1 ELSE 1]
  /\ Return(stack, 1)
  /\ UNCHANGED <<program, server, undefined>>

\* insert() on a server that create() has deleted: into memory that is not its
\* own any more, or to an end.
AttachInsertsStale ==
  /\ Constructed /\ Top.stale
  /\ \/ /\ live' = [live EXCEPT ![Top.type] = @ + 1]
        /\ Return(stack, 1)
        /\ UNCHANGED undefined
     \/ undefined' = TRUE /\ UNCHANGED <<live, clients, holder, stack>>
  /\ UNCHANGED <<program, server, mapped, ref>>

\* Mutant: the members of a half constructed instance are not destroyed.
UnwindingLeaks(frame) == [frame EXCEPT !.throwing = TRUE, !.todo = <<>>, !.held = <<>>]

\* The constructor throws: its members are destroyed in reverse order.
Unwinding(frame) ==
  [frame EXCEPT !.throwing = TRUE, !.todo = Detaches(frame.held), !.held = <<>>]

ConstructorThrows ==
  /\ Constructed /\ Top.type \in Throwing
  /\ stack' = <<Unwinding(Top)>> \o Tail(stack)
  /\ UNCHANGED <<program, clients, server, mapped, ref, live, holder, undefined>>

Thrown == InBody("attach") /\ Top.throwing /\ Top.todo = <<>>

\* The exception leaves attach(), and the constructor that called it.
ExceptionLeaves ==
  /\ Thrown
  /\ IF Len(stack) = 1
     THEN stack' = <<>> /\ holder' = NoThread
     ELSE /\ stack[2].op = "attach"
          /\ stack' = <<Unwinding(stack[2])>> \o Tail(Tail(stack))
          /\ UNCHANGED holder
  /\ UNCHANGED <<program, clients, server, mapped, ref, live, undefined>>

\* A destructor that has called it lets no exception out: std::terminate().
DestructorThrows ==
  /\ Thrown /\ Len(stack) > 1 /\ stack[2].op = "detach"
  /\ undefined' = TRUE
  /\ UNCHANGED <<program, clients, server, mapped, ref, live, holder, stack>>

-----------------------------------------------------------------------------
(* server::detach, and dummy::detach that deletes the server                 *)

\* Mutant: decr_ref() compares with < instead of <=.
LastReferenceLate(t) == ref[t] < 1

LastReference(t) == ref[t] <= 1

DetachKeeps ==
  /\ Entering("detach") /\ Top.type \in mapped /\ ~LastReference(Top.type)
  /\ ref' = [ref EXCEPT ![Top.type] = @ - 1]
  /\ Return(stack, -1)
  /\ UNCHANGED <<program, server, mapped, live, undefined>>

\* The entry is erased before the instance is deleted.
DetachDestroys ==
  /\ Entering("detach") /\ Top.type \in mapped /\ LastReference(Top.type)
  /\ ref' = [ref EXCEPT ![Top.type] = 0]
  /\ mapped' = mapped \ {Top.type}
  /\ stack' = Enter(Destruction(Top.type))
  /\ UNCHANGED <<program, clients, server, live, holder, undefined>>

\* find() returned end().
DetachMissing ==
  /\ Entering("detach") /\ Top.type \notin mapped
  /\ undefined' = TRUE
  /\ UNCHANGED <<program, clients, server, mapped, ref, live, holder, stack>>

\* Mutant: dummy::detach() deletes the server whatever server::detach() says.
ServerAlwaysDeleted(empty) ==
  /\ server' = FALSE /\ mapped' = {}
  /\ ref' = [t \in Types |-> 0]
  /\ Return([i \in DOMAIN stack |-> [stack[i] EXCEPT !.stale = TRUE]], -1)

\* `delete server::the_instance' (of 0 when it is gone already) makes every
\* call below run on a deleted server.
ServerDeletedIf(empty) ==
  IF empty
  THEN /\ server' = FALSE /\ mapped' = {}
       /\ ref' = [t \in Types |-> 0]
       /\ Return([i \in DOMAIN stack |-> [stack[i] EXCEPT !.stale = TRUE]], -1)
  ELSE /\ UNCHANGED <<server, mapped, ref>>
       /\ Return(stack, -1)

\* `return singletons.empty()'. It reads a deleted map if a detach() that the
\* destructor has made was the one that emptied it: that is undefined, and it
\* may be the end (DetachDies) or say anything.
DetachReturns ==
  /\ InBody("detach") /\ Top.todo = <<>>
  /\ live' = [live EXCEPT ![Top.type] = @ - 1]
  /\ \E empty \in BOOLEAN :
       /\ Top.stale \/ empty = (mapped = {})
       /\ ServerDeletedIf(empty)
  /\ UNCHANGED <<program, undefined>>

DetachDies ==
  /\ InBody("detach") /\ Top.todo = <<>> /\ Top.stale
  /\ undefined' = TRUE
  /\ UNCHANGED <<program, clients, server, mapped, ref, live, holder, stack>>

-----------------------------------------------------------------------------
Step ==
  \/ AttachFound \/ AttachCreates \/ NextCall
  \/ AttachInserts \/ AttachInsertsStale \/ ConstructorThrows
  \/ ExceptionLeaves \/ DestructorThrows
  \/ DetachKeeps \/ DetachDestroys \/ DetachMissing \/ DetachReturns
  \/ DetachDies

Next ==
  \/ \E th \in Threads, t \in Types : BeginAttach(th, t) \/ BeginDetach(th, t)
  \/ Step

Spec == Init /\ [][Next]_vars

\* The thread that holds the mutex goes on.
FairSpec == Spec /\ WF_vars(Step)

-----------------------------------------------------------------------------
(* Properties                                                                *)

Free == holder = NoThread /\ ~undefined

\* Constructors use other singletons as members only and not for a moment:
\* what happens otherwise is the subject of ClientsHaveInstance.
Lasting == \A t \in Types : CtorUses[t] = <<>>

\* What a destructor uses for a moment can be constructed without an exception.
Nothrow(ts) == ts \cap Throwing = {} /\ \A t \in ts : ToSet(Members[t]) \subseteq ts
Quiet == \E ts \in SUBSET Types : Nothrow(ts) /\ \A t \in Types : ToSet(DtorUses[t]) \subseteq ts

\* No singleton uses itself, in as many steps as may be.
Uses(t) == ToSet(Members[t]) \cup ToSet(DtorUses[t])
Acyclic == \A ts \in SUBSET Types : ts # {} => \E t \in ts : Uses(t) \cap ts = {}

\* The use<> objects of a type: those of the program, and those that are
\* members of the singletons that exist.
ClientUses(t) == {c \in Threads \X (1 .. MaxUses) : c[2] <= clients[c[1]][t]}
Entries(s, x) == {i \in DOMAIN s : s[i] = x}
MemberUses(t) == UNION {{u} \X Entries(Members[u], t) : u \in mapped}

\* Every variable keeps its type.
TypeOK ==
  /\ clients \in [Threads -> [Types -> 0 .. MaxUses]]
  /\ server \in BOOLEAN /\ undefined \in BOOLEAN
  /\ mapped \subseteq Types
  /\ ref \in [Types -> Nat] /\ live \in [Types -> Nat]
  /\ holder \in Threads \cup {NoThread}
  /\ (holder = NoThread) = (stack = <<>>)

\* A detach() is about to ask the map of a server that has been deleted below it
\* whether it is empty.
AsksDeletedMap ==
  stack # <<>> /\ Top.op = "detach" /\ Top.entered /\ Top.todo = <<>> /\ Top.stale

\* Where behaviour is undefined, in programs whose destructors need no
\* constructor that may throw. They do run into it, as soon as the last
\* singleton to go holds a use<> or its destructor uses one, but in one place
\* only, the question to a deleted map: no lookup finds nothing, no entry goes to
\* a deleted server, no exception leaves a destructor. And if there is an answer,
\* no singleton is deleted for it, as there is none.
Defined ==
  /\ TypeOK
  /\ Lasting /\ Quiet =>
       /\ undefined => AsksDeletedMap
       /\ AsksDeletedMap => mapped = {}

\* ref_counter counts the use<> objects.
RefCountsUses ==
  Lasting /\ Free => \A t \in mapped :
    ref[t] = Cardinality(ClientUses(t)) + Cardinality(MemberUses(t))

\* A singleton exists if and only if it is needed (use.hh:103): by a client, or
\* by a singleton that exists.
ExistsIffNeeded ==
  Lasting /\ Free => \A t \in Types :
    t \in mapped <=> (\E th \in Threads : clients[th][t] > 0)
                    \/ \E u \in mapped : t \in ToSet(Members[u])

\* There is never more than one instance (use.hh:102), not even during a call,
\* of types that do not use themselves.
AtMostOne == Lasting /\ Acyclic => \A t \in Types : live[t] <= 1

\* Whoever has a use<Ty> reaches an instance (wrapper.hh:38, the postcondition
\* of attach()).
ClientsHaveInstance ==
  Free => \A th \in Threads, t \in Types : clients[th][t] > 0 => t \in mapped

\* The members of an instance that can be reached can be reached too, also
\* while other instances are being constructed and destroyed.
MembersExist == Lasting => \A t \in mapped : ToSet(Members[t]) \subseteq mapped

\* The server exists exactly as long as there are singletons (use.hh:107-110).
\* Not if the constructor of the first singleton throws before it has attached a
\* member: attach() has created the server, and no detach() will delete it.
ServerIffSingletons ==
  Lasting /\ Free /\ (\A t \in Throwing : Members[t] # <<>>) => server = (mapped # {})

\* Instances and the server live exactly as long as the documentation says.
Lifetimes == ExistsIffNeeded /\ AtMostOne /\ MembersExist /\ ServerIffSingletons

\* Every call comes to an end.
CallsReturn == stack # <<>> ~> stack = <<>> \/ undefined

=============================================================================
