------------------------------- MODULE Sockets -------------------------------
(***************************************************************************)
(* utilmm::base_socket, socket and server_socket, and the threads that use *)
(* them.  An object is known by its descriptor.  A constructor is as many  *)
(* steps as it makes system calls, so that threads meet in between.        *)
(***************************************************************************)
EXTENDS Naturals, FiniteSets

CONSTANTS Callers,        \* the threads
          Sockets,        \* the descriptors that socket() and accept() return
          Strings,        \* the addresses that they write
          Backlog,        \* the connections that may wait at a server
          Nowhere, Stale  \* where an address leads that is free, or whose file
                          \* has lost its socket

ASSUME SocketsAssumption ==
    /\ Sockets \subseteq Nat /\ Sockets # {} /\ Strings # {} /\ Backlog \in Nat
    /\ Nowhere \notin Sockets /\ Stale \notin Sockets

VARIABLES sock,      \* what each descriptor is, see Kinds
          leads,     \* the socket an address leads to
          call,      \* what a thread is about to do: to which socket, and with
                     \* which address
          promised,  \* the connections that waited when try_wait() last told a
                     \* thread yes, 0 if it did not
          taken      \* how many other threads have accepted there since then,
                     \* counted up to promised

socketVars == <<sock, leads, call, promised, taken>>

Domains == {"Unix", "Inet"}
Addresses == {"path", "host:1"}
Kinds == [owner : {"object", "constructor", "lost", "closed"},
          m_domain : Domains \cup {"unset"}, family : Domains, stream : BOOLEAN,
          state : {"new", "bound", "listening", "connected"}, waiting : 0 .. Backlog]
Calls == [does : {"nothing", "connect", "reconnect", "bind", "listen", "accept"},
          on : Sockets, with : Strings]

SocketsTypeOK ==
    /\ sock \in [Sockets -> Kinds]
    /\ leads \in [Addresses -> Sockets \cup {Nowhere, Stale}]
    /\ call \in [Callers -> Calls]
    /\ promised \in [Callers -> 0 .. Backlog] /\ taken \in [Callers -> 0 .. Backlog]

NoSocket == [owner |-> "closed", m_domain |-> "Unix", family |-> "Unix",
             stream |-> TRUE, state |-> "new", waiting |-> 0]
NoCall == [does |-> "nothing", on |-> CHOOSE f \in Sockets : TRUE,
           with |-> CHOOSE s \in Strings : TRUE]

SocketsInit ==
    /\ sock = [f \in Sockets |-> NoSocket]
    /\ leads = [a \in Addresses |-> Nowhere]
    /\ call = [t \in Callers |-> NoCall]
    /\ promised = [t \in Callers |-> 0] /\ taken = [t \in Callers |-> 0]

(* to_sockaddr(): the string says where to, or it throws: the path is too  *)
(* long, there is no port, the port has more than 16 bits or the host is   *)
(* not found.  A domain that is neither makes an empty address, which      *)
(* nobody accepts.                                                         *)
ToSockaddr(d, s) ==
    CASE d = "Unix" /\ s # "a path of 108 characters" -> "path"
      [] d = "Inet" /\ s = "host:1"                   -> "host:1"
      [] OTHER                                        -> "none"
Family(a) == IF a = "path" THEN "Unix" ELSE "Inet"

(* What the program reads from an m_domain that was never set.             *)
Read(f) == IF sock[f].m_domain = "unset" THEN Domains \cup {"unset"} ELSE {sock[f].m_domain}

Idle(t) == call[t].does = "nothing"
Free == {f \in Sockets : sock[f].owner = "closed"}
Lowest(fs) == {f \in fs : \A g \in fs : f <= g}
Listening == {f \in Sockets : sock[f].owner = "object" /\ sock[f].state = "listening"}

Goes(t, what) == call' = [call EXCEPT ![t].does = what]
Returns(t) == call' = [call EXCEPT ![t] = NoCall]
Becomes(f, owner, state) == sock' = [sock EXCEPT ![f].owner = owner, ![f].state = state]
Told(t, n) == promised' = [promised EXCEPT ![t] = n] /\ taken' = [taken EXCEPT ![t] = 0]

(* close(): who waits there is gone and an Internet address is free again, *)
(* but nobody removes the file of a Unix one.                              *)
Close(f) ==
    /\ sock' = [sock EXCEPT ![f] = NoSocket]
    /\ leads' = [a \in Addresses |->
                    IF leads[a] # f THEN leads[a] ELSE IF a = "path" THEN Stale ELSE Nowhere]
-----------------------------------------------------------------------------
(* The constructors of socket and server_socket begin with that of         *)
(* base_socket, which throws if no descriptor is left.                     *)
OpenSocket(t) ==
    /\ Idle(t)
    /\ \E f \in Lowest(Free), d \in Domains, s \in Strings, str \in BOOLEAN, does \in {"connect", "bind"} :
          /\ sock' = [sock EXCEPT ![f] = [NoSocket EXCEPT
                         !.owner = "constructor", !.m_domain = d, !.family = d, !.stream = str]]
          /\ call' = [call EXCEPT ![t] = [does |-> does, on |-> f, with |-> s]]
    /\ Told(t, 0)
    /\ UNCHANGED leads

(* An exception that leaves a constructor destroys the base_socket; one    *)
(* that leaves connect() does not.                                         *)
Throw(t) ==
    /\ Returns(t)
    /\ IF call[t].does # "reconnect" THEN Close(call[t].on) ELSE UNCHANGED <<sock, leads>>
    /\ UNCHANGED <<promised, taken>>

(* connect(2) needs a server that listens there, and waits while that has  *)
(* no room; one of datagrams asks nobody, but wants the socket of a path.  *)
(* Any call may fail for reasons of the system besides: a signal, old      *)
(* connections of a port, no memory.                                       *)
To(t) == {ToSockaddr(d, call[t].with) : d \in Read(call[t].on)}
Fits(t, a) == a # "none" /\ Family(a) = sock[call[t].on].family
Server(a) == {f \in Sockets : f = leads[a] /\ sock[f].state = "listening"}
Connectable(t, a) ==
    /\ Fits(t, a)
    /\ IF sock[call[t].on].stream THEN sock[call[t].on].state = "new" /\ Server(a) # {}
       ELSE Family(a) = "Inet" \/ \E f \in Sockets : f = leads[a] /\ ~sock[f].stream

Connect(t) ==
    /\ call[t].does \in {"connect", "reconnect"}
    /\ \E a \in To(t) :
       /\ Connectable(t, a)
       /\ IF sock[call[t].on].stream
          THEN \E g \in Server(a) :
              /\ sock[g].waiting < Backlog
              /\ sock' = [sock EXCEPT ![g].waiting = @ + 1, ![call[t].on].owner = "object",
                                      ![call[t].on].state = "connected"]
          ELSE Becomes(call[t].on, "object", "connected")
    /\ Returns(t)
    /\ UNCHANGED <<leads, promised, taken>>

ConnectThrows(t) == call[t].does \in {"connect", "reconnect"} /\ Throw(t)

(* bind(2) wants an address that is free.                                  *)
Bindable(t, a) == Fits(t, a) /\ leads[a] = Nowhere

Bind(t) ==
    /\ call[t].does = "bind"
    /\ \E a \in To(t) : Bindable(t, a) /\ leads' = [leads EXCEPT ![a] = call[t].on]
    /\ Becomes(call[t].on, "constructor", "bound")
    /\ Goes(t, "listen")
    /\ UNCHANGED <<promised, taken>>

BindThrows(t) == call[t].does = "bind" /\ Throw(t)

Listen(t) ==
    /\ call[t].does = "listen" /\ sock[call[t].on].stream
    /\ Becomes(call[t].on, "object", "listening")
    /\ Returns(t)
    /\ UNCHANGED <<leads, promised, taken>>

(* There is no listen(2) for datagrams.                                    *)
ListenThrows(t) == call[t].does = "listen" /\ Throw(t)
-----------------------------------------------------------------------------
(* server_socket::try_wait() asks select(2) and does not wait; what wait() *)
(* returns from is what try_wait() would say yes to.                       *)
AnyAnswer(f) == 1          \* mutant: select() returns 0 and that is not an error
Pending(f) == sock[f].waiting

TryWait(t) ==
    /\ Idle(t)
    /\ \E f \in Listening :
          /\ call' = [call EXCEPT ![t] = [NoCall EXCEPT !.on = f]]
          /\ Told(t, Pending(f))
    /\ UNCHANGED <<sock, leads>>

(* accept() of the server that has just been asked, or of any other; it    *)
(* has no argument that would keep it from waiting.                        *)
CallAccept(t) ==
    /\ Idle(t)
    /\ \E f \in Listening :
          /\ call' = [call EXCEPT ![t] = [NoCall EXCEPT !.does = "accept", !.on = f]]
          /\ IF f = call[t].on THEN UNCHANGED <<promised, taken>> ELSE Told(t, 0)
    /\ UNCHANGED <<sock, leads>>

(* A connection is taken if there is a descriptor for it; the object has   *)
(* no domain, and is not made if new throws.  Whoever was told of it is    *)
(* not told that it is gone.                                               *)
Beaten(t) == {u \in Callers \ {t} : call[u].on = call[t].on /\ taken[u] < promised[u]}

Accept(t) ==
    /\ call[t].does = "accept" /\ sock[call[t].on].waiting > 0
    /\ \E g \in Lowest(Free), owner \in {"object", "lost"} :
          sock' = [sock EXCEPT ![call[t].on].waiting = @ - 1,
                               ![g] = [NoSocket EXCEPT !.owner = owner, !.m_domain = "unset",
                                          !.family = sock[call[t].on].family, !.state = "connected"]]
    /\ promised' = [promised EXCEPT ![t] = 0]
    /\ taken' = [u \in Callers |-> IF u = t THEN 0 ELSE IF u \in Beaten(t) THEN taken[u] + 1 ELSE taken[u]]
    /\ Returns(t)
    /\ UNCHANGED leads

AcceptThrows(t) ==
    /\ call[t].does = "accept"
    /\ Returns(t) /\ Told(t, 0)
    /\ UNCHANGED <<sock, leads>>

(* socket::connect() of an object that exists.                             *)
Reconnect(t) ==
    /\ Idle(t)
    /\ \E f \in Sockets, s \in Strings :
          /\ sock[f].owner = "object" /\ sock[f].state \in {"new", "connected"}
          /\ call' = [call EXCEPT ![t] = [does |-> "reconnect", on |-> f, with |-> s]]
    /\ Told(t, 0)
    /\ UNCHANGED <<sock, leads>>

(* socket(fd) takes a socket that the program has opened.                  *)
Adopt(f) ==
    /\ f \in Lowest(Free)
    /\ \E d \in Domains : sock' = [sock EXCEPT ![f] = [NoSocket EXCEPT
                              !.owner = "object", !.m_domain = "unset", !.family = d]]
    /\ UNCHANGED <<leads, call, promised, taken>>

(* ~base_socket(), of an object that no call is using.                     *)
Destroy(f) ==
    /\ sock[f].owner = "object"
    /\ \A t \in Callers : call[t].on = f => Idle(t)
    /\ Close(f)
    /\ call' = [t \in Callers |-> IF call[t].on = f THEN NoCall ELSE call[t]]
    /\ promised' = [t \in Callers |-> IF call[t].on = f THEN 0 ELSE promised[t]]
    /\ taken' = [t \in Callers |-> IF call[t].on = f THEN 0 ELSE taken[t]]

Unlink ==
    /\ leads["path"] # Nowhere
    /\ leads' = [leads EXCEPT !["path"] = Nowhere]
    /\ UNCHANGED <<sock, call, promised, taken>>

SocketsNext ==
    \/ \E t \in Callers :
          \/ OpenSocket(t) \/ Connect(t) \/ ConnectThrows(t)
          \/ Bind(t) \/ BindThrows(t) \/ Listen(t) \/ ListenThrows(t)
          \/ TryWait(t) \/ CallAccept(t) \/ Accept(t) \/ AcceptThrows(t) \/ Reconnect(t)
    \/ \E f \in Sockets : Adopt(f) \/ Destroy(f)
    \/ Unlink

SocketsSpec == SocketsInit /\ [][SocketsNext]_socketVars
-----------------------------------------------------------------------------
(* A descriptor that is open has one owner, which knows it: a constructor  *)
(* that is running or a live object; only a socket that accept() could     *)
(* make no object of is lost.  An address leads to a socket that is bound  *)
(* to it, and connections wait where somebody listens.                     *)
Building(f) == {t \in Callers : call[t].does \in {"connect", "bind", "listen"} /\ call[t].on = f}
DescriptorsOwned ==
    /\ \A f \in Sockets :
        /\ Cardinality(Building(f)) = IF sock[f].owner = "constructor" THEN 1 ELSE 0
        /\ sock[f].owner = "lost" => sock[f].state = "connected"
        /\ sock[f].waiting > 0 => f \in Listening
    /\ \A a \in Addresses : leads[a] \in Sockets =>
          sock[leads[a]].state \in {"bound", "listening"} /\ sock[leads[a]].family = Family(a)

(* Of the connections that waited when try_wait() said yes those still     *)
(* wait that no other thread has accepted since: accept() finds none, and  *)
(* waits, only when others have taken them all.  The documentation says    *)
(* that it will return a socket.                                           *)
AcceptAnswers == \A t \in Callers : sock[call[t].on].waiting + taken[t] >= promised[t]

(* socket and server_socket: every descriptor has one owner, addresses     *)
(* lead to sockets, and a connection that try_wait() told of waits until   *)
(* somebody accepts it.                                                    *)
SocketsOwned == SocketsTypeOK /\ DescriptorsOwned /\ AcceptAnswers
=============================================================================
