----------------------------- MODULE DynamicPool -----------------------------
(***************************************************************************)
(* utilmm::pools::dynamic_pool, whose buffers have one size that grows     *)
(* with the requests, and dynamic_auto, which holds one of them.  The pool *)
(* knows the buffers that were given back, not those that are in use; a    *)
(* buffer carries its size in front of it.                                 *)
(***************************************************************************)
EXTENDS Naturals, Sequences

CONSTANTS Buffers,    \* the addresses that new can return
          Autos,      \* the dynamic_auto objects
          Sizes       \* the sizes that the program asks for

ASSUME PoolAssumption == Sizes \subseteq Nat /\ Autos \cap {"pool", "program", "lost"} = {}

VARIABLES pool_up,     \* the pool has not been destroyed
          m_size,
          m_free,
          allocated,   \* the buffers that exist
          size,        \* their headers
          owner,       \* the program or a dynamic_auto that has a buffer, "lost"
                       \* for nobody, "pool" if it was given back
          wanted,      \* the size that the last allocate() of it was for
          faults       \* a buffer was deleted that did not exist

poolVars == <<pool_up, m_size, m_free, allocated, size, owner, wanted, faults>>

InFree == {m_free[i] : i \in DOMAIN m_free}

PoolTypeOK ==
    /\ pool_up \in BOOLEAN /\ faults \in BOOLEAN
    /\ m_size \in {0} \cup Sizes
    /\ m_free \in Seq(Buffers)
    /\ allocated \subseteq Buffers
    /\ size \in [Buffers -> {0} \cup Sizes] /\ wanted \in [Buffers -> {0} \cup Sizes]
    /\ owner \in [Buffers -> {"pool", "program", "lost"} \cup Autos]

PoolInit ==
    /\ pool_up = TRUE /\ m_size = 0 /\ m_free = <<>>
    /\ allocated = {} /\ faults = FALSE
    /\ size = [b \in Buffers |-> 0] /\ wanted = [b \in Buffers |-> 0]
    /\ owner = [b \in Buffers |-> "pool"]

(* delete[] of some buffers.                                               *)
DeleteAll(bs) ==
    /\ allocated' = allocated \ bs
    /\ faults' = (faults \/ ~(bs \subseteq allocated))

(* A request that is larger than the size of the pool sweeps the buffers   *)
(* that wait in it, which are too small.                                   *)
SizeFor(n) == IF m_size < n THEN n ELSE m_size
FreeKeptFor(n) == m_free                       \* mutant: they are not swept
FreeFor(n) == IF m_size < n THEN <<>> ELSE m_free
SweptFor(n) == InFree \ {FreeFor(n)[i] : i \in DOMAIN FreeFor(n)}

(* allocate(n) finds nothing to use again: new returns another buffer, or  *)
(* throws after the sweep.                                                 *)
AllocateNew(n) ==
    /\ pool_up /\ FreeFor(n) = <<>>
    /\ m_size' = SizeFor(n) /\ m_free' = <<>>
    /\ faults' = (faults \/ ~(SweptFor(n) \subseteq allocated))
    /\ \/ \E b \in Buffers \ (allocated \ SweptFor(n)) :
             /\ allocated' = (allocated \ SweptFor(n)) \cup {b}
             /\ size' = [size EXCEPT ![b] = SizeFor(n)]
             /\ wanted' = [wanted EXCEPT ![b] = n]
             /\ owner' = [owner EXCEPT ![b] = "program"]
       \/ /\ allocated' = allocated \ SweptFor(n)
          /\ UNCHANGED <<size, wanted, owner>>
    /\ UNCHANGED pool_up

Back(s) == s[Len(s)]
PopBack(s) == SubSeq(s, 1, Len(s) - 1)

AllocateAgain(n) ==
    /\ pool_up /\ FreeFor(n) # <<>>
    /\ m_size' = SizeFor(n) /\ m_free' = PopBack(FreeFor(n))
    /\ wanted' = [wanted EXCEPT ![Back(FreeFor(n))] = n]
    /\ owner' = [owner EXCEPT ![Back(FreeFor(n))] = "program"]
    /\ UNCHANGED <<pool_up, allocated, size, faults>>

(* deallocate(b): a buffer of another size than the pool has now is not    *)
(* kept.  (Nothing happens for a null pointer.)                            *)
Deallocate(b) ==
    /\ pool_up /\ b \in allocated /\ owner[b] = "program"
    /\ IF size[b] # m_size
       THEN DeleteAll({b}) /\ UNCHANGED m_free
       ELSE m_free' = Append(m_free, b) /\ UNCHANGED <<allocated, faults>>
    /\ owner' = [owner EXCEPT ![b] = "pool"]
    /\ UNCHANGED <<pool_up, m_size, size, wanted>>

(* The pool goes; the buffers that are in use stay.                        *)
DestroyPool ==
    /\ pool_up
    /\ DeleteAll(InFree)
    /\ pool_up' = FALSE /\ m_size' = 0 /\ m_free' = <<>>
    /\ UNCHANGED <<size, owner, wanted>>

(* dynamic_auto.  reset() does not delete what it had.                     *)
Holds(a) == {b \in allocated : owner[b] = a}
Wrap(a, b) ==
    /\ Holds(a) = {} /\ b \in allocated /\ owner[b] = "program"
    /\ owner' = [owner EXCEPT ![b] = a]
    /\ UNCHANGED <<pool_up, m_size, m_free, allocated, size, wanted, faults>>

ResetAuto(a, b) ==
    /\ Holds(a) # {} /\ b \in allocated /\ owner[b] = "program"
    /\ owner' = [c \in Buffers |-> IF c = b THEN a
                                  ELSE IF c \in Holds(a) THEN "lost" ELSE owner[c]]
    /\ UNCHANGED <<pool_up, m_size, m_free, allocated, size, wanted, faults>>

ReleaseAuto(a) ==
    /\ Holds(a) # {}
    /\ owner' = [c \in Buffers |-> IF c \in Holds(a) THEN "program" ELSE owner[c]]
    /\ UNCHANGED <<pool_up, m_size, m_free, allocated, size, wanted, faults>>

(* The destructor deletes the buffer itself, also if the pool is gone.     *)
DestroyAuto(a) ==
    /\ Holds(a) # {}
    /\ DeleteAll(Holds(a))
    /\ owner' = [c \in Buffers |-> IF c \in Holds(a) THEN "pool" ELSE owner[c]]
    /\ UNCHANGED <<pool_up, m_size, m_free, size, wanted>>

PoolNext ==
    \/ \E n \in Sizes : AllocateNew(n) \/ AllocateAgain(n)
    \/ \E b \in Buffers : Deallocate(b)
    \/ DestroyPool
    \/ \E a \in Autos : \/ ReleaseAuto(a) \/ DestroyAuto(a)
                        \/ \E b \in Buffers : Wrap(a, b) \/ ResetAuto(a, b)

PoolSpec == PoolInit /\ [][PoolNext]_poolVars
-----------------------------------------------------------------------------
FreeOnce == \A i, j \in DOMAIN m_free : m_free[i] = m_free[j] => i = j
FreeSized == \A i \in DOMAIN m_free : size[m_free[i]] = m_size
FreeAreGivenBack == InFree = {b \in allocated : owner[b] = "pool"}
PoolOwns == ~faults /\ FreeOnce /\ FreeSized /\ FreeAreGivenBack

LargeEnough == \A b \in allocated : owner[b] # "pool" => wanted[b] <= size[b]

(* The buffers that wait in the pool exist, are there once, have the size  *)
(* of the pool and are in nobody's use, and every other buffer that exists *)
(* has an owner: none is handed out twice, deleted twice or leaked (but    *)
(* for those that dynamic_auto::reset() loses), however the pool grows in  *)
(* between and even if it goes first; and a buffer that is in use is as    *)
(* large as it was asked to be.                                            *)
BuffersOwned == PoolTypeOK /\ PoolOwns /\ LargeEnough
=============================================================================
