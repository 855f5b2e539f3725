----------------------------- MODULE ObjectPool ------------------------------
(***************************************************************************)
(* utilmm::pools::object_pool and use, with the threads that share a pool. *)
(* A thread calls get() or put(), or constructs and destroys a `use', which*)
(* are the same calls; each holds the mutex of the pool from end to end.   *)
(***************************************************************************)
EXTENDS Naturals, Sequences

CONSTANTS Threads, NoThread,
          Objects      \* the addresses that new can return

ASSUME ObjectAssumption == NoThread \notin Threads /\ Objects # {}

VARIABLES exists,      \* the pool has not been destroyed
          holder,      \* m_mutex: the thread that has locked it
          m_available,
          pc,          \* what each thread does
          object,      \* ... and with which object
          uses,        \* the objects that a thread has
          made         \* the objects that were constructed and not deleted

objectVars == <<exists, holder, m_available, pc, object, uses, made>>

ObjectTypeOK ==
    /\ exists \in BOOLEAN /\ holder \in Threads \cup {NoThread}
    /\ m_available \in Seq(Objects)
    /\ pc \in [Threads -> {"out", "lock get", "get", "pop", "lock put", "put"}]
    /\ object \in [Threads -> Objects]
    /\ uses \in [Threads -> SUBSET Objects]
    /\ made \subseteq Objects

ObjectInit ==
    /\ exists = TRUE /\ holder = NoThread /\ m_available = <<>>
    /\ pc = [t \in Threads |-> "out"]
    /\ object = [t \in Threads |-> CHOOSE o \in Objects : TRUE]
    /\ uses = [t \in Threads |-> {}] /\ made = {}

CallGet(t) ==
    /\ exists /\ pc[t] = "out"
    /\ pc' = [pc EXCEPT ![t] = "lock get"]
    /\ UNCHANGED <<exists, holder, m_available, object, uses, made>>

CallPut(t) ==
    /\ exists /\ pc[t] = "out"
    /\ \E o \in uses[t] :
          /\ uses' = [uses EXCEPT ![t] = @ \ {o}]
          /\ object' = [object EXCEPT ![t] = o]
    /\ pc' = [pc EXCEPT ![t] = "lock put"]
    /\ UNCHANGED <<exists, holder, m_available, made>>

(* mutex::scoped_lock                                                      *)
LockUnasked(t) ==        \* mutant: the mutex is not waited for
    /\ pc[t] \in {"lock get", "lock put"}
    /\ holder' = t
    /\ pc' = [pc EXCEPT ![t] = IF @ = "lock get" THEN "get" ELSE "put"]
    /\ UNCHANGED <<exists, m_available, object, uses, made>>

Lock(t) ==
    /\ pc[t] \in {"lock get", "lock put"} /\ holder = NoThread
    /\ holder' = t
    /\ pc' = [pc EXCEPT ![t] = IF @ = "lock get" THEN "get" ELSE "put"]
    /\ UNCHANGED <<exists, m_available, object, uses, made>>

Leave(t) == holder' = NoThread /\ pc' = [pc EXCEPT ![t] = "out"]

(* get(): if nothing is there, new T() makes something; if it throws, the  *)
(* mutex is unlocked and nothing else has happened.                        *)
Create(t) ==
    /\ pc[t] = "get" /\ m_available = <<>>
    /\ \E o \in Objects \ made :
          made' = made \cup {o} /\ m_available' = <<o>>
    /\ UNCHANGED <<exists, holder, pc, object, uses>>

CreateThrows(t) ==
    /\ pc[t] = "get" /\ m_available = <<>>
    /\ Leave(t)
    /\ UNCHANGED <<exists, m_available, object, uses, made>>

Front(t) ==
    /\ pc[t] = "get" /\ m_available # <<>>
    /\ object' = [object EXCEPT ![t] = Head(m_available)]
    /\ pc' = [pc EXCEPT ![t] = "pop"]
    /\ UNCHANGED <<exists, holder, m_available, uses, made>>

PopFront(t) ==
    /\ pc[t] = "pop" /\ m_available # <<>>
    /\ m_available' = Tail(m_available)
    /\ uses' = [uses EXCEPT ![t] = @ \cup {object[t]}]
    /\ Leave(t)
    /\ UNCHANGED <<exists, object, made>>

(* put()                                                                   *)
PushBack(t) ==
    /\ pc[t] = "put"
    /\ m_available' = Append(m_available, object[t])
    /\ Leave(t)
    /\ UNCHANGED <<exists, object, uses, made>>

(* ~object_pool() deletes what is there; what threads have is theirs.      *)
Waiting == {m_available[i] : i \in DOMAIN m_available}
DestroyObjectPool ==
    /\ exists /\ \A t \in Threads : pc[t] = "out"
    /\ exists' = FALSE
    /\ made' = made \ Waiting /\ m_available' = <<>>
    /\ UNCHANGED <<holder, pc, object, uses>>

ObjectStep == \E t \in Threads : \/ Create(t) \/ CreateThrows(t) \/ Front(t)
                                 \/ PopFront(t) \/ PushBack(t)
ObjectNext == \/ ObjectStep \/ DestroyObjectPool
              \/ \E t \in Threads : CallGet(t) \/ CallPut(t) \/ Lock(t)

(* The thread that has the mutex goes on.                                  *)
ObjectSpec == ObjectInit /\ [][ObjectNext]_objectVars /\ WF_objectVars(ObjectStep)
-----------------------------------------------------------------------------
Inside == {t \in Threads : pc[t] \in {"get", "pop", "put"}}
Putting(t) == IF pc[t] \in {"lock put", "put"} THEN {object[t]} ELSE {}

OneInside == Inside = IF holder = NoThread THEN {} ELSE {holder}
AvailableOnce == \A i, j \in DOMAIN m_available : m_available[i] = m_available[j] => i = j
HadOnce == \A t, u \in Threads : t # u => (uses[t] \cup Putting(t)) \cap (uses[u] \cup Putting(u)) = {}
NotGivenTwice == \A t \in Threads : /\ uses[t] \cap Putting(t) = {}
                                    /\ (uses[t] \cup Putting(t)) \cap Waiting = {}
NoneLost == made = Waiting \cup UNION {uses[t] \cup Putting(t) : t \in Threads}
PopsFront == \A t \in Threads : pc[t] = "pop" => m_available # <<>> /\ object[t] = Head(m_available)
ObjectsOwned == /\ OneInside /\ AvailableOnce /\ HadOnce /\ NotGivenTwice
                /\ NoneLost /\ PopsFront

(* Every object that was constructed is in one place: once in the pool, in *)
(* the use of one thread, or on its way back.  So no two threads have the  *)
(* same object, and none is lost.                                          *)
ObjectsInOnePlace == ObjectTypeOK /\ ObjectsOwned

(* A call that has the mutex returns it.                                   *)
MutexReturned == holder # NoThread ~> holder = NoThread
=============================================================================
