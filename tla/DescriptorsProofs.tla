-------------------------- MODULE DescriptorsProofs --------------------------
(* Proofs of the properties of Descriptors for every number of objects,        *)
(* descriptors and files.                                                      *)
EXTENDS Descriptors, FiniteSetTheorems, TLAPS

-----------------------------------------------------------------------------
(* The inductive invariant                                                   *)

\* What an object has and nobody has taken over: a tempfile whose descriptor was
\* given to an object has nothing, although it still knows the number.
Lent(g) == g = TempGuard /\ lent # "nothing"
has == [g \in Guards |-> IF Lent(g) THEN -1 ELSE m_fileno[g]]

OwnersHave == \A g \in Guards : has[g] # -1 => Open(has[g]) /\ owner[has[g]] = g
OpenIsKnown ==
  \A d \in Fds : Open(d) =>
    owner[d] \in {Program, Forgotten} \/ (owner[d] \in Guards /\ has[owner[d]] = d)

\* What is closed belongs to nobody.
ClosedIsNobodys == \A d \in Fds : ~Open(d) => owner[d] = Nobody

Descriptions == Files \cup {StdFile}
TableTypes ==
  /\ file \in [Fds -> Descriptions \cup {NoFile}]
  /\ has \in [Guards -> Fds \cup {-1}]
  /\ owner \in [Fds -> Guards \cup {Program, Nobody, Forgotten}]

TableOK == TableTypes /\ OwnersHave /\ OpenIsKnown /\ ClosedIsNobodys

\* An object whose stream is to be redirected has the descriptor for it.
WantedHeld ==
  \A o \in Objs, s \in Streams :
    wanted[o][s] = IF has[<<o, s>>] = -1 THEN NoFile ELSE file[has[<<o, s>>]]

Inv ==
  /\ TypeOK /\ NothingLost
  /\ ~crossed => TableOK /\ WantedHeld /\ (lent # "nothing" => temp = "named")

-----------------------------------------------------------------------------
(* The lowest unused descriptors                                             *)

\* A set of natural numbers that is not empty has a smallest element.
LEMMA MinIsElement ==
  ASSUME NEW T \in SUBSET Nat, T # {}
  PROVE  Min(T) \in T
<1>1. PICK n \in T : TRUE
  OBVIOUS
<1> DEFINE S == 0 .. n
           Below == {k \in T : k <= n}
           Intervals == {0 .. k : k \in Below}
<1>2. IsWellFoundedOn(StrictSubsetOrdering(S), FiniteSubsetsOf(S))
  BY FS_StrictSubsetOrderingWellFounded
<1>3. Intervals \subseteq FiniteSubsetsOf(S)
  <2> SUFFICES ASSUME NEW k \in Below PROVE 0 .. k \in FiniteSubsetsOf(S)
    OBVIOUS
  <2> QED
    BY FS_Interval DEF FiniteSubsetsOf
<1>4. Intervals # {}
  <2>1. n \in Below
    OBVIOUS
  <2> QED
    BY <2>1
<1>5. PICK X \in Intervals : \A Y \in Intervals : ~(<<Y, X>> \in StrictSubsetOrdering(S))
  <2> HIDE DEF Intervals, S
  <2> QED
    BY <1>2, <1>3, <1>4, WFMin
<1>6. PICK m \in Below : X = 0 .. m
  OBVIOUS
<1>7. ASSUME NEW k \in T, k < m
      PROVE  FALSE
  <2>1. k \in Below /\ 0 .. k \in Intervals
    BY <1>7
  <2>2. 0 .. k \subseteq 0 .. m /\ 0 .. k # 0 .. m
    <3>1. m \in 0 .. m /\ m \notin 0 .. k
      BY <1>7
    <3> QED
      BY <1>7, <3>1
  <2>3. <<0 .. k, X>> \in StrictSubsetOrdering(S)
    BY <1>6, <2>1, <2>2 DEF StrictSubsetOrdering
  <2> QED
    BY <1>5, <2>1, <2>3
<1>8. \A k \in T : m =< k
  BY <1>7
<1> QED
  BY <1>8 DEF Min

LEMMA LowestUnused ==
  /\ Room(1) => Lowest \in Unused
  /\ Room(2) => Lowest \in Unused /\ Next2 \in Unused /\ Next2 # Lowest
<1>1. Unused \in SUBSET Nat /\ IsFiniteSet(Unused)
  <2>1. Unused \in SUBSET Fds
    BY DEF Unused
  <2> QED
    BY <2>1, DescriptorsAssumption, FS_Subset
<1>2. ASSUME NEW n \in {1, 2}, Room(n)
      PROVE  Lowest \in Unused
  <2>1. Unused # {}
    BY <1>2, FS_EmptySet DEF Room
  <2> QED
    BY <1>1, <2>1, MinIsElement DEF Lowest
<1>3. ASSUME Room(2)
      PROVE  Next2 \in Unused \ {Lowest}
  <2>1. Lowest \in Unused
    BY <1>2, <1>3
  <2>2. Cardinality(Unused \ {Lowest}) = Cardinality(Unused) - 1 /\ IsFiniteSet(Unused \ {Lowest})
    BY <1>1, <2>1, FS_RemoveElement
  <2>3. Cardinality(Unused \ {Lowest}) # 0
    BY <1>1, <1>3, <2>2, FS_CardinalityType DEF Room
  <2>4. Unused \ {Lowest} # {}
    BY <2>3, FS_EmptySet
  <2> QED
    BY <1>1, <2>4, MinIsElement DEF Next2
<1> QED
  BY <1>2, <1>3

-----------------------------------------------------------------------------
(* Closing and handing over                                                  *)

\* The owners of a descriptor are different things.
LEMMA OwnersDistinct ==
  /\ Guard \in Guards /\ TempGuard \in Guards /\ Guard # TempGuard
  /\ \A o \in Objs, s \in Streams : <<o, s>> \in Guards \ {Guard, TempGuard}
  /\ Program \notin Guards /\ Nobody \notin Guards /\ Forgotten \notin Guards
  /\ Program # Nobody /\ Program # Forgotten /\ Nobody # Forgotten
  BY DEF Guards, Guard, TempGuard, Program, Nobody, Forgotten, Streams

HeldBy(g) == {has[g]} \ {-1}

\* A step leaves the auto_close objects but for those in G alone.
Keeps(G) ==
  \A g \in Guards \ G :
    /\ has'[g] = has[g]
    /\ has[g] # -1 => file'[has[g]] = file[has[g]]

\* A step leaves the descriptors of the program but for those in D alone.
KeepsProgram(D) ==
  \A e \in Fds \ D : owner[e] = Program => file'[e] = file[e] /\ owner'[e] = Program

\* Before a step: nothing has been closed under its owner.
Sound == Inv /\ ~crossed

LEMMA InvTable ==
  ASSUME Sound
  PROVE  TableOK
  BY DEF Sound, Inv

LEMMA FdsNatural == -1 \notin Fds /\ NoFile \notin Descriptions /\ Pipe \notin Descriptions
  BY DescriptorsAssumption DEF Descriptions

\* Objects that have lent nothing have what they know, and so it is after a step
\* that does not lend.
LEMMA HasFacts ==
  ASSUME TypeOK
  PROVE  /\ has \in [Guards -> Fds \cup {-1}]
         /\ \A g \in Guards : ~Lent(g) => has[g] = m_fileno[g] /\ Held(g) = HeldBy(g)
         /\ lent # "nothing" => has[TempGuard] = -1
<1>1. \A g \in Guards : m_fileno[g] \in Fds \cup {-1}
  BY DEF TypeOK
<1> QED
  BY <1>1, OwnersDistinct DEF has, Lent, Held, HeldBy

\* close() of the objects in G.
LEMMA CloseStep ==
  ASSUME TableOK, NEW G \in SUBSET Guards, NEW C, C = UNION {HeldBy(g) : g \in G},
         file' = Closing(file, C), owner' = Disowned(C),
         has' = [g \in Guards |-> IF g \in G THEN -1 ELSE has[g]]
  PROVE  TableOK' /\ Keeps(G) /\ KeepsProgram({})
<1> USE FdsNatural, OwnersDistinct
<1>1. \A d \in Fds : d \in C <=> \E g \in G : has[g] = d
  BY DEF HeldBy, TableOK, TableTypes
<1>2. \A d \in Fds : file'[d] = (IF d \in C THEN NoFile ELSE file[d])
  BY DEF Closing
<1>3. \A d \in Fds : owner'[d] = (IF d \in C THEN Nobody ELSE owner[d])
  BY DEF Disowned
<1>4. \A d \in Fds : d \in C => owner[d] \in G
  BY <1>1 DEF TableOK, TableTypes, OwnersHave
<1>5. /\ file' \in [Fds -> Descriptions \cup {NoFile}]
      /\ has' \in [Guards -> Fds \cup {-1}]
      /\ owner' \in [Fds -> Guards \cup {Program, Nobody, Forgotten}]
  BY DEF Closing, Disowned, TableOK, TableTypes
<1>6. ASSUME NEW g \in Guards, has[g] # -1, has[g] \in C
      PROVE  g \in G
  BY <1>4, <1>6 DEF TableOK, TableTypes, OwnersHave
<1>7. OwnersHave'
  BY <1>2, <1>3, <1>6 DEF TableOK, TableTypes, OwnersHave, Open
<1>8. OpenIsKnown'
  <2> SUFFICES ASSUME NEW d \in Fds, file'[d] # NoFile
               PROVE  \/ owner'[d] \in {Program, Forgotten}
                      \/ owner'[d] \in Guards /\ has'[owner'[d]] = d
    BY DEF OpenIsKnown, Open
  <2>1. d \notin C /\ owner'[d] = owner[d] /\ file[d] # NoFile
    BY <1>2, <1>3
  <2>2. CASE owner[d] \in {Program, Forgotten}
    BY <2>1, <2>2
  <2>3. CASE owner[d] \in Guards /\ has[owner[d]] = d
    BY <1>1, <2>1, <2>3
  <2> QED
    BY <2>1, <2>2, <2>3 DEF TableOK, TableTypes, OpenIsKnown, Open
<1>9. Keeps(G)
  BY <1>2, <1>6 DEF Keeps, TableOK, TableTypes
<1>10. KeepsProgram({})
  BY <1>2, <1>3, <1>4 DEF KeepsProgram
<1>11. ClosedIsNobodys'
  BY <1>2, <1>3 DEF ClosedIsNobodys, TableOK, TableTypes, Open
<1> QED
  BY <1>5, <1>7, <1>8, <1>9, <1>10, <1>11 DEF TableOK, TableTypes

\* close() of one object that has lent nothing.
LEMMA CloseOne ==
  ASSUME Sound, NEW g \in Guards, Close(g), ~Lent(g), ~Lent(g)', g = TempGuard \/ lent' = lent
  PROVE  TableOK' /\ Keeps({g}) /\ KeepsProgram({}) /\ has'[g] = -1
<1>0. TableOK /\ TypeOK
  BY InvTable DEF Sound, Inv
<1>1. HeldBy(g) = UNION {HeldBy(h) : h \in {g}} /\ Held(g) = HeldBy(g)
  BY <1>0, HasFacts
<1>2. has' = [h \in Guards |-> IF h \in {g} THEN -1 ELSE has[h]]
  BY <1>0 DEF Close, TypeOK, has, Lent
<1>3. has'[g] = -1
  BY <1>2
<1>4. file' = Closing(file, HeldBy(g)) /\ owner' = Disowned(HeldBy(g))
  BY <1>1 DEF Close
<1> QED
  BY <1>0, <1>1, <1>2, <1>3, <1>4, CloseStep

\* The object g closes what it has and gets d, a descriptor of f; the descriptors
\* in D are closed, those in X stand for f and are forgotten, and the objects in L
\* have lent what they had.
Moved(g, d, f, D, X, L) ==
  /\ \A e \in Fds : file'[e] = IF e \in X \cup {d} THEN f
                               ELSE IF e \in HeldBy(g) \cup D THEN NoFile ELSE file[e]
  /\ \A e \in Fds : owner'[e] = IF e = d THEN g ELSE IF e \in X THEN Forgotten
                                ELSE IF e \in HeldBy(g) \cup D THEN Nobody ELSE owner[e]
  /\ \A h \in Guards : has'[h] = IF h = g THEN d ELSE IF h \in L THEN -1 ELSE has[h]

\* When it may: what is closed is the program's, or has been lent.
MayMove(g, d, f, D, X, L) ==
  /\ g \in Guards /\ d \in Fds /\ f \in Descriptions
  /\ D \in SUBSET Fds /\ X \in SUBSET Fds /\ L \in SUBSET (Guards \ {g})
  /\ ~Open(d) \/ owner[d] \in L \cup {Program}
  /\ d \notin D \cup X
  /\ \A e \in D : owner[e] \in L \cup {Program}
  /\ \A e \in X : ~Open(e)
  /\ \A h \in L : has[h] \in D \cup {d}

KeepsBut(g, L) == Keeps({g} \cup L)

LEMMA MoveStep ==
  ASSUME TableOK, NEW g, NEW d, NEW f, NEW D, NEW X, NEW L,
         MayMove(g, d, f, D, X, L), TableTypes', Moved(g, d, f, D, X, L)
  PROVE  /\ TableOK' /\ KeepsBut(g, L) /\ KeepsProgram(D \cup {d})
         /\ has'[g] = d /\ file'[d] = f
<1> USE FdsNatural, OwnersDistinct DEF MayMove
<1>1. \A h \in Guards \ L : has[h] \notin X \cup D \cup {d}
  BY DEF TableOK, TableTypes, OwnersHave
<1>2. \A e \in Fds : file'[e] = IF e \in X \cup {d} THEN f
                               ELSE IF e \in HeldBy(g) \cup D THEN NoFile ELSE file[e]
  BY DEF Moved
<1>3. \A e \in Fds : owner'[e] = IF e = d THEN g ELSE IF e \in X THEN Forgotten
                                ELSE IF e \in HeldBy(g) \cup D THEN Nobody ELSE owner[e]
  BY DEF Moved
<1>4. \A h \in Guards : has'[h] = IF h = g THEN d ELSE IF h \in L THEN -1 ELSE has[h]
  BY DEF Moved
<1>6. \A h \in Guards \ {g} : has[h] \notin HeldBy(g)
  BY DEF HeldBy, TableOK, TableTypes, OwnersHave
<1>7. OwnersHave'
  BY <1>1, <1>2, <1>3, <1>4, <1>6 DEF TableOK, TableTypes, OwnersHave, Open
<1>8. OpenIsKnown'
  <2> SUFFICES ASSUME NEW e \in Fds, file'[e] # NoFile
               PROVE  \/ owner'[e] \in {Program, Forgotten}
                      \/ owner'[e] \in Guards /\ has'[owner'[e]] = e
    BY DEF OpenIsKnown, Open
  <2>1. CASE e \in X \cup {d}
    BY <1>3, <1>4, <2>1
  <2>2. CASE e \notin X \cup {d}
    <3>1. e \notin HeldBy(g) \cup D /\ owner'[e] = owner[e] /\ file[e] # NoFile
      BY <1>2, <1>3, <2>2
    <3>2. owner[e] # g \/ has[g] # e
      BY <3>1 DEF HeldBy
    <3>3. owner[e] \notin L \/ has[owner[e]] # e
      BY <2>2, <3>1
    <3> QED
      BY <1>4, <3>1, <3>2, <3>3 DEF TableOK, TableTypes, OpenIsKnown, Open
  <2> QED
    BY <2>1, <2>2
<1>9. KeepsBut(g, L)
  BY <1>1, <1>2, <1>4, <1>6 DEF KeepsBut, Keeps, TableOK, TableTypes
<1>10. KeepsProgram(D \cup {d})
  <2> SUFFICES ASSUME NEW e \in Fds \ (D \cup {d}), owner[e] = Program
               PROVE  file'[e] = file[e] /\ owner'[e] = Program
    BY DEF KeepsProgram
  <2>1. e \notin X
    BY DEF TableOK, TableTypes, ClosedIsNobodys
  <2>2. e \notin HeldBy(g)
    BY DEF HeldBy, TableOK, TableTypes, OwnersHave
  <2> QED
    BY <1>2, <1>3, <2>1, <2>2
<1>11. ClosedIsNobodys'
  BY <1>2, <1>3 DEF ClosedIsNobodys, TableOK, TableTypes, Open
<1> QED
  BY <1>2, <1>4, <1>7, <1>8, <1>9, <1>10, <1>11 DEF TableOK, TableTypes

\* The objects that lend d.
Lenders(d) == IF OfTemp(d) THEN {TempGuard} ELSE {}

LEMMA LendersFacts ==
  ASSUME Sound, NEW d \in Fds, NEW g \in Guards \ {TempGuard}
  PROVE  /\ Lenders(d) \in SUBSET (Guards \ {g})
         /\ Own(d) \/ OfTemp(d) => Open(d) /\ owner[d] \in Lenders(d) \cup {Program}
         /\ \A h \in Lenders(d) : has[h] = d
         /\ {g} \cup Lenders(d) \subseteq {g, TempGuard}
<1>1. TableOK /\ TypeOK
  BY InvTable DEF Sound, Inv
<1>2. OfTemp(d) => has[TempGuard] = d
  BY <1>1, HasFacts, OwnersDistinct DEF OfTemp, Lent
<1>3. OfTemp(d) => Open(d) /\ owner[d] = TempGuard
  BY <1>1, <1>2, FdsNatural, OwnersDistinct DEF TableOK, OwnersHave
<1> QED
  BY <1>2, <1>3, OwnersDistinct DEF Lenders, Own

\* reset() to a descriptor that nobody, the program, or a tempfile that lends it
\* has.
MayReset(g, d, f, L) ==
  /\ g \in Guards /\ d \in Fds /\ f \in Descriptions
  /\ ~Lent(g) /\ L \in SUBSET (Guards \ {g})
  /\ ~Open(d) \/ owner[d] \in L \cup {Program}
  /\ \A h \in L : has[h] = d

LendsAll(L) == \A h \in Guards : Lent(h)' <=> h \in L \/ Lent(h)

LEMMA ResetStep ==
  ASSUME Sound, NEW g, NEW d, NEW f, NEW L, MayReset(g, d, f, L), LendsAll(L), Reset(g, d, f)
  PROVE  /\ TableOK' /\ KeepsBut(g, L) /\ KeepsProgram({d})
         /\ has'[g] = d /\ file'[d] = f
<1> USE DEF MayReset, LendsAll
<1> DEFINE D == {}
           X == {}
<1>0. TableOK /\ TypeOK /\ Held(g) = HeldBy(g)
  BY InvTable, HasFacts DEF Sound, Inv
<1>1. D \in SUBSET Fds /\ X \in SUBSET Fds /\ d \notin D \cup X /\ D \cup {d} = {d}
  OBVIOUS
<1>2. MayMove(g, d, f, D, X, L)
  BY DEF MayMove
<1>3. has' = [h \in Guards |-> IF h = g THEN d ELSE IF h \in L THEN -1 ELSE has[h]]
  <2>1. \A h \in Guards : m_fileno'[h] = IF h = g THEN d ELSE m_fileno[h]
    BY <1>0 DEF Reset, TypeOK
  <2>2. has' = [h \in Guards |-> IF Lent(h)' THEN -1 ELSE m_fileno'[h]]
    BY DEF has
  <2>3. ~Lent(g)'
    OBVIOUS
  <2> QED
    BY <2>1, <2>2, <2>3 DEF has
<1>4. Moved(g, d, f, D, X, L)
  BY <1>0, <1>3 DEF Moved, Reset, Closing, Disowned, TableOK, TableTypes
<1>5. TableTypes'
  BY <1>0, <1>3, OwnersDistinct DEF Reset, Closing, Disowned, TableOK, TableTypes
<1> HIDE DEF D, X
<1>6. /\ TableOK' /\ KeepsBut(g, L) /\ KeepsProgram(D \cup {d})
      /\ has'[g] = d /\ file'[d] = f
  BY <1>0, <1>2, <1>4, <1>5, MoveStep, Zenon
<1> QED
  BY <1>1, <1>6

-----------------------------------------------------------------------------
(* Steps                                                                     *)

\* Nothing is lost in a sound table.
LEMMA TableLosesNothing ==
  ASSUME TypeOK, TableOK
  PROVE  NothingLost
  BY FdsNatural, OwnersDistinct, HasFacts
  DEF TableOK, TableTypes, OpenIsKnown, NothingLost, has, TypeOK

LEMMA TableLosesNothingNext ==
  ASSUME TypeOK', TableOK'
  PROVE  NothingLost'
  BY TableLosesNothing, PTL

\* What is left of the types.
RestTypes ==
  /\ m_fileno \in [Guards -> Fds \cup {-1}]
  /\ temp \in {"none", "named", "anonymous"}
  /\ lent \in {"nothing", "handle", "stream"} /\ crossed \in BOOLEAN
  /\ child \in [Streams -> Files \cup {StdFile, Pipe, NoFile}]
  /\ threw \in BOOLEAN
  /\ wanted \in [Objs -> [Streams -> Descriptions \cup {NoFile}]]

LEMMA TypesSplit ==
  ASSUME TypeOK
  PROVE  RestTypes
  BY DEF TypeOK, RestTypes, Descriptions

LEMMA InvFromTable ==
  ASSUME TableOK', WantedHeld', RestTypes', lent' # "nothing" => temp' = "named"
  PROVE  Inv'
<1>1. TypeOK'
  BY DEF TypeOK, RestTypes, TableOK, TableTypes, Descriptions
<1>2. NothingLost'
  BY <1>1, TableLosesNothingNext
<1> QED
  BY <1>1, <1>2 DEF Inv

\* Nothing changes for an object whose redirections and descriptors do not.
LEMMA WantedKept ==
  ASSUME Sound, NEW G, Keeps(G), NEW o \in Objs, NEW s \in Streams, <<o, s>> \notin G,
         wanted'[o][s] = wanted[o][s]
  PROVE  wanted'[o][s] = IF has'[<<o, s>>] = -1 THEN NoFile ELSE file'[has'[<<o, s>>]]
<1>1. <<o, s>> \in Guards \ G /\ WantedHeld
  BY OwnersDistinct DEF Sound, Inv
<1>2. has'[<<o, s>>] = has[<<o, s>>]
  BY <1>1 DEF Keeps
<1>3. has[<<o, s>>] # -1 => file'[has[<<o, s>>]] = file[has[<<o, s>>]]
  BY <1>1 DEF Keeps
<1>4. wanted[o][s] = IF has[<<o, s>>] = -1 THEN NoFile ELSE file[has[<<o, s>>]]
  BY <1>1 DEF WantedHeld
<1> HIDE DEF has
<1> QED
  BY <1>2, <1>3, <1>4

\* What a step may do to the descriptors of the program.
HandedOver ==
  \A d \in Fds : owner[d] = Program /\ file'[d] # file[d] =>
    \/ ProgramCloses(d)
    \/ \E o \in Objs, s \in Streams : RedirectStreamGiven(o, s, d)
    \/ TempDestroy /\ lent # "nothing" /\ d = m_fileno[TempGuard]

\* A step after which the program has all its descriptors.
LEMMA KeepsAll ==
  ASSUME KeepsProgram({})
  PROVE  HandedOver
  BY DEF KeepsProgram, HandedOver

\* What is not open is nobody's.
LEMMA Unowned ==
  ASSUME Sound, NEW d \in Fds, ~Open(d)
  PROVE  owner[d] # Program
  BY InvTable, OwnersDistinct DEF TableOK, ClosedIsNobodys

\* A step that uses d for something else, or hands it over.
LEMMA KeepsMost ==
  ASSUME Sound, NEW d \in Fds, KeepsProgram({d}), ~Open(d) \/ file'[d] = file[d]
  PROVE  HandedOver
  BY Unowned DEF KeepsProgram, HandedOver

\* A step that has nothing to do with the redirections.
LEMMA WantedAll ==
  ASSUME Sound, NEW G, G \subseteq {Guard, TempGuard}, Keeps(G), wanted' = wanted
  PROVE  WantedHeld'
<1>1. ASSUME NEW o \in Objs, NEW s \in Streams
      PROVE  wanted'[o][s] = IF has'[<<o, s>>] = -1 THEN NoFile ELSE file'[has'[<<o, s>>]]
  <2>1. <<o, s>> \notin G
    BY OwnersDistinct
  <2> QED
    BY <2>1, WantedKept
<1> QED
  BY <1>1 DEF WantedHeld

\* Most steps lend nothing and give nothing back.
NothingLent == UNCHANGED <<temp, lent, crossed>>

LEMMA StillHas ==
  ASSUME TypeOK, NothingLent, NEW g \in Guards \ {TempGuard}
  PROVE  ~Lent(g) /\ ~Lent(g)' /\ LendsAll({})
  BY DEF Lent, NothingLent, LendsAll

LEMMA KeepsOne ==
  ASSUME NEW g, KeepsBut(g, {})
  PROVE  Keeps({g})
<1>1. {g} \cup {} = {g}
  OBVIOUS
<1> QED
  BY <1>1 DEF KeepsBut

LEMMA ProgramStepInv ==
  ASSUME Sound, ProgramStep
  PROVE  Inv' /\ HandedOver
<1>0. TableOK /\ TypeOK /\ RestTypes /\ (lent # "nothing" => temp = "named")
  BY InvTable, TypesSplit DEF Sound, Inv
<1>a. Guard \in Guards \ {TempGuard}
  BY OwnersDistinct
<1> USE FdsNatural, OwnersDistinct
<1>1. ASSUME NEW f \in Files, ProgramOpens(f)
      PROVE  Inv' /\ HandedOver
  <2>1. Lowest \in Fds /\ ~Open(Lowest)
    BY <1>1, LowestUnused DEF ProgramOpens, Unused
  <2>a. has' = has
    BY <1>1 DEF ProgramOpens, has, Lent
  <2>2. TableOK' /\ Keeps({}) /\ KeepsProgram({Lowest})
    BY <1>0, <1>1, <2>1, <2>a
    DEF ProgramOpens, TableOK, TableTypes, OwnersHave, OpenIsKnown, ClosedIsNobodys, Open, Keeps,
        KeepsProgram, Descriptions
  <2>3. HandedOver
    BY <2>1, <2>2, KeepsMost
  <2>4. WantedHeld'
    BY <1>1, <2>2, WantedAll DEF ProgramOpens
  <2> QED
    BY <1>0, <1>1, <2>2, <2>3, <2>4, InvFromTable DEF ProgramOpens, RestTypes
<1>2. ASSUME NEW d \in Fds, ProgramCloses(d)
      PROVE  Inv' /\ HandedOver
  <2>a. has' = has
    BY <1>2 DEF ProgramCloses, has, Lent
  <2>1. TableOK' /\ Keeps({}) /\ KeepsProgram({d})
    BY <1>0, <1>2, <2>a
    DEF ProgramCloses, Own, TableOK, TableTypes, OwnersHave, OpenIsKnown, ClosedIsNobodys, Open, Keeps,
        KeepsProgram, Closing, Disowned
  <2>3. HandedOver
    BY <1>2, <2>1 DEF HandedOver, KeepsProgram
  <2>4. WantedHeld'
    BY <1>2, <2>1, WantedAll DEF ProgramCloses
  <2> QED
    BY <1>0, <1>2, <2>1, <2>4, <2>3, InvFromTable DEF ProgramCloses, RestTypes
<1>3. ASSUME NEW d \in Fds, GuardReset(d)
      PROVE  Inv' /\ HandedOver
  <2>1. /\ Open(d) /\ owner[d] = Program /\ Reset(Guard, d, file[d]) /\ file[d] \in Descriptions
        /\ NothingLent /\ wanted' = wanted
    BY <1>0, <1>3 DEF GuardReset, Own, Open, TableOK, TableTypes, NothingLent
  <2>a. ~Lent(Guard) /\ LendsAll({})
    BY <1>0, <1>a, <2>1, StillHas
  <2>b. MayReset(Guard, d, file[d], {})
    BY <1>a, <2>1, <2>a DEF MayReset
  <2>2. TableOK' /\ KeepsBut(Guard, {}) /\ KeepsProgram({d}) /\ file'[d] = file[d]
    BY <2>1, <2>a, <2>b, ResetStep, Zenon
  <2>c. Keeps({Guard})
    BY <2>2, KeepsOne
  <2>3. HandedOver
    BY <2>2, KeepsMost
  <2>4. WantedHeld'
    BY <2>1, <2>c, WantedAll
  <2>5. RestTypes'
    BY <1>0, <1>3 DEF GuardReset, Reset, RestTypes
  <2> QED
    BY <1>0, <2>1, <2>2, <2>3, <2>4, <2>5, InvFromTable DEF NothingLent
<1>4. ASSUME GuardClose
      PROVE  Inv' /\ HandedOver
  <2>1. Close(Guard) /\ NothingLent /\ wanted' = wanted
    BY <1>4 DEF GuardClose, NothingLent
  <2>2. TableOK' /\ Keeps({Guard}) /\ KeepsProgram({})
    BY <1>0, <1>a, <2>1, StillHas, CloseOne DEF NothingLent
  <2>3. HandedOver
    BY <2>2, KeepsAll
  <2>4. WantedHeld'
    BY <2>1, <2>2, WantedAll
  <2>5. RestTypes'
    BY <1>0, <1>4 DEF GuardClose, Close, RestTypes
  <2> QED
    BY <1>0, <2>1, <2>2, <2>3, <2>4, <2>5, InvFromTable DEF NothingLent
<1>5. ASSUME GuardDetach
      PROVE  Inv' /\ HandedOver
  <2>a. /\ has[Guard] = m_fileno[Guard] /\ has[Guard] \in Fds
        /\ has' = [has EXCEPT ![Guard] = -1]
    BY <1>0, <1>5, HasFacts DEF GuardDetach, has, Lent, TypeOK
  <2>b. file' = file /\ owner' = [owner EXCEPT ![has[Guard]] = Program]
    BY <1>5, <2>a DEF GuardDetach
  <2>1. TableOK' /\ Keeps({Guard}) /\ KeepsProgram({})
    <3> HIDE DEF has
    <3> QED
      BY <1>0, <2>a, <2>b
      DEF TableOK, TableTypes, OwnersHave, OpenIsKnown, ClosedIsNobodys, Open, Keeps, KeepsProgram
  <2>2. HandedOver
    BY <2>1, KeepsAll
  <2>3. WantedHeld'
    BY <1>5, <2>1, WantedAll DEF GuardDetach
  <2> QED
    BY <1>0, <1>5, <2>1, <2>2, <2>3, InvFromTable DEF GuardDetach, RestTypes
<1> QED
  BY <1>1, <1>2, <1>3, <1>4, <1>5 DEF ProgramStep

\* ~tempfile() of one that has been lent closes what may be another's.
LEMMA TempCrosses ==
  ASSUME Sound, TempDestroy, lent # "nothing"
  PROVE  Inv' /\ HandedOver
<1>0. TableOK /\ TypeOK /\ NothingLost
  BY InvTable DEF Sound, Inv
<1> USE FdsNatural, OwnersDistinct
<1>1. \A d \in Fds : file'[d] = (IF d \in Held(TempGuard) THEN NoFile ELSE file[d])
  BY DEF TempDestroy, Close, Closing
<1>2. \A d \in Fds : owner'[d] = (IF d \in Held(TempGuard) THEN Nobody ELSE owner[d])
  BY DEF TempDestroy, Close, Disowned
<1>3. has[TempGuard] = -1 /\ \A d \in Fds : Open(d) => owner[d] # TempGuard
  BY <1>0, HasFacts DEF TableOK, OpenIsKnown
<1>4. TypeOK'
  BY <1>0 DEF TypeOK, TempDestroy, Close, Closing, Disowned
<1>5. m_fileno' = [m_fileno EXCEPT ![TempGuard] = -1]
  BY DEF TempDestroy, Close
<1>6. NothingLost'
  <2> SUFFICES ASSUME NEW d \in Fds, file'[d] # NoFile
               PROVE  \/ owner'[d] \in {Program, Forgotten}
                      \/ owner'[d] \in Guards /\ m_fileno'[owner'[d]] = d
    BY DEF NothingLost, Open
  <2>1. owner'[d] = owner[d] /\ Open(d)
    BY <1>1, <1>2 DEF Open
  <2>2. CASE owner[d] \in {Program, Forgotten}
    BY <2>1, <2>2
  <2>3. CASE owner[d] \in Guards /\ m_fileno[owner[d]] = d
    BY <1>0, <1>3, <1>5, <2>1, <2>3 DEF TypeOK
  <2> QED
    BY <1>0, <2>1, <2>2, <2>3 DEF NothingLost
<1>7. ASSUME NEW d \in Fds, file'[d] # file[d]
      PROVE  d = m_fileno[TempGuard]
  BY <1>1, <1>7 DEF Held
<1>8. HandedOver
  BY <1>7 DEF HandedOver
<1>9. ASSUME ~crossed'
      PROVE  TableOK' /\ WantedHeld' /\ (lent' # "nothing" => temp' = "named")
  <2>1. m_fileno[TempGuard] \in Fds => ~Open(m_fileno[TempGuard])
    BY <1>0, <1>9 DEF TempDestroy, TypeOK
  <2>2. file' = file /\ owner' = owner
    BY <1>0, <1>1, <1>2, <1>4, <2>1 DEF TypeOK, TableOK, TableTypes, ClosedIsNobodys, Open, Held
  <2>3. has' = has
    BY <1>0, <1>5 DEF has, Lent, TypeOK, TempDestroy
  <2>4. wanted' = wanted /\ lent' = "nothing"
    BY DEF TempDestroy
  <2> HIDE DEF has
  <2>5. WantedHeld'
    BY <2>2, <2>3, <2>4 DEF WantedHeld, Sound, Inv
  <2> QED
    BY <1>0, <2>2, <2>3, <2>4, <2>5
    DEF TableOK, TableTypes, OwnersHave, OpenIsKnown, ClosedIsNobodys, Open
<1> QED
  BY <1>4, <1>6, <1>8, <1>9 DEF Inv

LEMMA TempStepInv ==
  ASSUME Sound, TempStep
  PROVE  Inv' /\ HandedOver
<1>0. TableOK /\ TypeOK /\ RestTypes /\ (lent # "nothing" => temp = "named")
  BY InvTable, TypesSplit DEF Sound, Inv
<1> USE FdsNatural, OwnersDistinct
<1>1. ASSUME NEW kind \in {"named", "anonymous"}, NEW f \in Files, TempCreate(kind, f)
      PROVE  Inv' /\ HandedOver
  <2>1. Lowest \in Fds /\ ~Open(Lowest) /\ f \in Descriptions
    BY <1>1, LowestUnused DEF TempCreate, Unused, Descriptions
  <2>a. lent = "nothing" /\ lent' = "nothing" /\ Reset(TempGuard, Lowest, f) /\ wanted' = wanted
    BY <1>0, <1>1 DEF TempCreate
  <2>b. MayReset(TempGuard, Lowest, f, {}) /\ LendsAll({})
    BY <2>1, <2>a DEF Lent, MayReset, LendsAll
  <2>2. TableOK' /\ KeepsBut(TempGuard, {}) /\ KeepsProgram({Lowest})
    BY <2>a, <2>b, ResetStep, Zenon
  <2>c. Keeps({TempGuard})
    BY <2>2, KeepsOne
  <2>3. HandedOver
    BY <2>1, <2>2, KeepsMost
  <2>4. WantedHeld'
    BY <2>a, <2>c, WantedAll
  <2>5. RestTypes'
    BY <1>0, <1>1, <2>1 DEF TempCreate, Reset, RestTypes
  <2> QED
    BY <2>a, <2>2, <2>3, <2>4, <2>5, InvFromTable
<1>2. ASSUME TempDestroy, lent = "nothing"
      PROVE  Inv' /\ HandedOver
  <2>a. Close(TempGuard) /\ ~Lent(TempGuard) /\ ~Lent(TempGuard)' /\ wanted' = wanted /\ lent' = lent
    BY <1>2 DEF TempDestroy, Lent
  <2>1. TableOK' /\ Keeps({TempGuard}) /\ KeepsProgram({})
    BY <2>a, CloseOne
  <2>2. HandedOver
    BY <2>1, KeepsAll
  <2>3. WantedHeld'
    BY <2>a, <2>1, WantedAll
  <2>4. RestTypes'
    BY <1>0, <1>2 DEF TempDestroy, Close, RestTypes
  <2> QED
    BY <1>2, <2>a, <2>1, <2>2, <2>3, <2>4, InvFromTable
<1>3. ASSUME TempDetach
      PROVE  Inv' /\ HandedOver
  <2>a. /\ has' = [has EXCEPT ![TempGuard] = -1] /\ file' = file /\ wanted' = wanted
        /\ \E x \in {Program, Forgotten} :
             owner' = [d \in Fds |-> IF d \notin HeldBy(TempGuard) THEN owner[d] ELSE x]
    <3>1. has' = [has EXCEPT ![TempGuard] = -1]
      BY <1>0, <1>3 DEF TempDetach, has, Lent, TypeOK
    <3>2. CASE lent = "nothing"
      BY <1>0, <1>3, <3>1, <3>2, HasFacts DEF TempDetach, Lent
    <3>3. CASE lent # "nothing"
      <4>1. HeldBy(TempGuard) = {}
        BY <1>0, <3>3, HasFacts DEF HeldBy
      <4> QED
        BY <1>0, <1>3, <3>1, <3>3, <4>1 DEF TempDetach, TypeOK
    <3> QED
      BY <3>2, <3>3
  <2>1. TableOK' /\ Keeps({TempGuard}) /\ KeepsProgram({})
    <3> HIDE DEF has
    <3> QED
      BY <1>0, <2>a
      DEF HeldBy, TableOK, TableTypes, OwnersHave, OpenIsKnown, ClosedIsNobodys, Open, Keeps,
          KeepsProgram
  <2>2. HandedOver
    BY <2>1, KeepsAll
  <2>3. WantedHeld'
    BY <2>a, <2>1, WantedAll
  <2>4. RestTypes'
    BY <1>0, <1>3 DEF TempDetach, RestTypes
  <2> QED
    BY <1>3, <2>1, <2>2, <2>3, <2>4, InvFromTable DEF TempDetach
<1> QED
  BY <1>1, <1>2, <1>3, TempCrosses DEF TempStep

\* redirect_to() changes one redirection.
LEMMA WantedOne ==
  ASSUME Sound, NEW o \in Objs, NEW s \in Streams, NEW f \in Descriptions \cup {NoFile},
         NEW G, Keeps(G), G \subseteq {<<o, s>>, TempGuard}, Wants(o, s, f),
         f = IF has'[<<o, s>>] = -1 THEN NoFile ELSE file'[has'[<<o, s>>]]
  PROVE  /\ WantedHeld'
         /\ wanted' \in [Objs -> [Streams -> Descriptions \cup {NoFile}]]
<1>1. wanted \in [Objs -> [Streams -> Descriptions \cup {NoFile}]]
  BY DEF Sound, Inv, TypeOK, Descriptions
<1>2. ASSUME NEW o2 \in Objs, NEW s2 \in Streams
      PROVE  wanted'[o2][s2] = IF has'[<<o2, s2>>] = -1 THEN NoFile
                               ELSE file'[has'[<<o2, s2>>]]
  <2>1. CASE o2 = o /\ s2 = s
    <3>1. wanted'[o][s] = f
      BY <1>1 DEF Wants
    <3> QED
      BY <2>1, <3>1
  <2>2. CASE ~(o2 = o /\ s2 = s)
    <3>1. <<o2, s2>> \notin G
      BY <2>2, OwnersDistinct
    <3>2. wanted'[o2][s2] = wanted[o2][s2]
      BY <1>1, <2>2 DEF Wants
    <3> QED
      BY <3>1, <3>2, WantedKept
  <2> QED
    BY <2>1, <2>2
<1>3. WantedHeld'
  BY <1>2 DEF WantedHeld
<1>4. wanted' \in [Objs -> [Streams -> Descriptions \cup {NoFile}]]
  BY <1>1 DEF Wants
<1> QED
  BY <1>3, <1>4

\* What the calls of redirect_to() leave alone.
LEMMA RedirectFrame ==
  ASSUME Sound, TableOK', WantedHeld', UNCHANGED <<temp, crossed, child, threw>>,
         m_fileno' \in [Guards -> Fds \cup {-1}],
         lent' = lent \/ (lent' \in {"handle", "stream"} /\ temp = "named"),
         wanted' \in [Objs -> [Streams -> Descriptions \cup {NoFile}]]
  PROVE  Inv'
<1>1. RestTypes /\ (lent # "nothing" => temp = "named")
  BY TypesSplit DEF Sound, Inv
<1>2. RestTypes'
  BY <1>1 DEF RestTypes
<1> QED
  BY <1>1, <1>2, InvFromTable

\* A call of redirect_to() that gives the object d, a descriptor of f, and that
\* lends what the objects in L had.
LEMMA RedirectDone ==
  ASSUME Sound, NEW o \in Objs, NEW s \in Streams, NEW f \in Descriptions, NEW d \in Fds,
         NEW L, L \in SUBSET {TempGuard},
         TableOK', KeepsBut(<<o, s>>, L), has'[<<o, s>>] = d, file'[d] = f, Wants(o, s, f)
  PROVE  WantedHeld' /\ wanted' \in [Objs -> [Streams -> Descriptions \cup {NoFile}]]
<1>1. {<<o, s>>} \cup L \subseteq {<<o, s>>, TempGuard} /\ Keeps({<<o, s>>} \cup L)
  BY DEF KeepsBut
<1>2. f = IF has'[<<o, s>>] = -1 THEN NoFile ELSE file'[has'[<<o, s>>]]
  BY FdsNatural
<1> QED
  BY <1>1, <1>2, WantedOne

LEMMA RedirectInv ==
  ASSUME Sound, NEW o \in Objs, NEW s \in Streams, Redirect(o, s)
  PROVE  Inv' /\ HandedOver
<1> DEFINE g == <<o, s>>
<1>0. /\ TableOK /\ TypeOK /\ g \in Guards \ {TempGuard} /\ GetStream(o, s) = g
      /\ ~Lent(g) /\ Held(g) = HeldBy(g)
  <2>1. TableOK /\ TypeOK /\ g \in Guards \ {TempGuard} /\ GetStream(o, s) = g
    BY InvTable, OwnersDistinct DEF GetStream, Sound, Inv
  <2> HIDE DEF g
  <2>2. ~Lent(g)
    BY <2>1 DEF Lent
  <2> QED
    BY <2>1, <2>2, HasFacts
<1>b. \A d2 \in Fds : m_fileno \in [Guards -> Fds \cup {-1}] /\ [m_fileno EXCEPT ![g] = d2] \in [Guards -> Fds \cup {-1}]
  BY <1>0 DEF TypeOK
<1> HIDE DEF g
<1>a. g = <<o, s>>
  BY DEF g
<1>c. {} \in SUBSET (Guards \ {g}) /\ {} \in SUBSET {TempGuard} /\ \A h \in {} : FALSE
  OBVIOUS
<1> USE FdsNatural
<1>1. ASSUME NEW d \in Fds, RedirectGiven(o, s, d)
      PROVE  Inv' /\ HandedOver
  <2>1. /\ Reset(g, d, file[d]) /\ Wants(o, s, file[d]) /\ Lends(d, "handle")
        /\ Own(d) \/ OfTemp(d)
    BY <1>0, <1>1 DEF RedirectGiven
  <2>2. /\ Lenders(d) \in SUBSET (Guards \ {g}) /\ Lenders(d) \in SUBSET {TempGuard}
        /\ Open(d) /\ owner[d] \in Lenders(d) \cup {Program}
        /\ \A h \in Lenders(d) : has[h] = d
    BY <1>0, <2>1, LendersFacts DEF Lenders
  <2>3. LendsAll(Lenders(d)) /\ (lent' = lent \/ (lent' \in {"handle", "stream"} /\ temp = "named"))
    BY <2>1 DEF Lends, Lenders, Lent, OfTemp, LendsAll
  <2>4. file[d] \in Descriptions
    BY <1>0, <2>2 DEF Open, TableOK, TableTypes
  <2>a. MayReset(g, d, file[d], Lenders(d))
    BY <1>0, <2>2, <2>4 DEF MayReset
  <2>5. /\ TableOK' /\ KeepsBut(g, Lenders(d)) /\ KeepsProgram({d})
        /\ has'[g] = d /\ file'[d] = file[d]
    BY <2>1, <2>3, <2>a, ResetStep, Zenon
  <2>6. HandedOver
    BY <2>5, KeepsMost
  <2>7. WantedHeld' /\ wanted' \in [Objs -> [Streams -> Descriptions \cup {NoFile}]]
    BY <1>a, <2>1, <2>2, <2>4, <2>5, RedirectDone
  <2>8. m_fileno' \in [Guards -> Fds \cup {-1}] /\ UNCHANGED <<temp, crossed, child, threw>>
    BY <1>1, <1>b, <2>1 DEF RedirectGiven, Reset
  <2> QED
    BY <2>3, <2>5, <2>6, <2>7, <2>8, RedirectFrame
<1>2. ASSUME NEW f \in Descriptions, NEW d \in Fds, ~Open(d), Reset(g, d, f), Wants(o, s, f),
             UNCHANGED <<temp, lent, crossed, child, threw>>
      PROVE  Inv' /\ HandedOver
  <2>1. LendsAll({}) /\ MayReset(g, d, f, {})
    BY <1>0, <1>2 DEF Lent, LendsAll, MayReset
  <2>2. /\ TableOK' /\ KeepsBut(g, {}) /\ KeepsProgram({d})
        /\ has'[g] = d /\ file'[d] = f
    BY <1>2, <2>1, ResetStep, Zenon
  <2>3. HandedOver
    BY <1>2, <2>2, KeepsMost
  <2>4. WantedHeld' /\ wanted' \in [Objs -> [Streams -> Descriptions \cup {NoFile}]]
    BY <1>2, <1>a, <1>c, <2>2, RedirectDone
  <2>5. m_fileno' \in [Guards -> Fds \cup {-1}]
    BY <1>2, <1>b DEF Reset
  <2> QED
    BY <1>2, <2>2, <2>3, <2>4, <2>5, RedirectFrame
<1>3. ASSUME NEW d \in Fds, RedirectCopied(o, s, d)
      PROVE  Inv' /\ HandedOver
  <2>1. /\ Reset(g, Lowest, file[d]) /\ Wants(o, s, file[d]) /\ file[d] \in Descriptions
        /\ Lowest \in Fds /\ ~Open(Lowest)
        /\ UNCHANGED <<temp, lent, crossed, child, threw>>
    BY <1>0, <1>3, LowestUnused DEF RedirectCopied, Open, TableOK, TableTypes, Unused
  <2> QED
    BY <1>2, <2>1
<1>4. ASSUME NEW f \in Files, RedirectOpened(o, s, f)
      PROVE  Inv' /\ HandedOver
  <2>1. /\ Reset(g, Lowest, f) /\ Wants(o, s, f) /\ f \in Descriptions
        /\ Lowest \in Fds /\ ~Open(Lowest)
        /\ UNCHANGED <<temp, lent, crossed, child, threw>>
    BY <1>0, <1>4, LowestUnused DEF RedirectOpened, Unused, Descriptions
  <2> QED
    BY <1>2, <2>1
<1>5. ASSUME NEW d \in Fds, RedirectStreamGiven(o, s, d)
      PROVE  Inv' /\ HandedOver
  <2> DEFINE D == {d}
             X == {}
             L == Lenders(d)
             low == Lowest
             f == file[d]
  <2>1. /\ Own(d) \/ OfTemp(d)
        /\ file' = [Closing(file, HeldBy(g) \cup {d}) EXCEPT ![low] = f]
        /\ owner' = [Disowned(HeldBy(g) \cup {d}) EXCEPT ![low] = g]
        /\ m_fileno' = [m_fileno EXCEPT ![g] = low]
        /\ Wants(o, s, f) /\ Lends(d, "stream")
    BY <1>0, <1>5 DEF RedirectStreamGiven
  <2>2. /\ L \in SUBSET (Guards \ {g}) /\ L \in SUBSET {TempGuard}
        /\ Open(d) /\ owner[d] \in L \cup {Program}
        /\ \A h \in L : has[h] = d
    BY <1>0, <2>1, LendersFacts DEF Lenders
  <2>3. /\ \A h \in Guards : Lent(h)' <=> h \in L \/ Lent(h)
        /\ lent' = lent \/ (lent' \in {"handle", "stream"} /\ temp = "named")
    BY <2>1 DEF Lends, Lenders, Lent, OfTemp
  <2>4. f \in Descriptions /\ low \in Fds /\ ~Open(low) /\ low # d
    BY <1>0, <1>5, <2>2, LowestUnused DEF RedirectStreamGiven, Open, TableOK, TableTypes, Unused
  <2> HIDE DEF L, low, f
  <2>5. has' = [h \in Guards |-> IF h = g THEN low ELSE IF h \in L THEN -1 ELSE has[h]]
    <3>1. \A h \in Guards : m_fileno'[h] = IF h = g THEN low ELSE m_fileno[h]
      BY <1>0, <2>1 DEF TypeOK
    <3>2. has' = [h \in Guards |-> IF Lent(h)' THEN -1 ELSE m_fileno'[h]]
      BY DEF has
    <3>3. ~Lent(g)'
      BY <1>0, <2>2, <2>3
    <3> QED
      BY <2>3, <3>1, <3>2, <3>3 DEF has
  <2>6. Moved(g, low, f, D, X, L)
    BY <1>0, <2>1, <2>4, <2>5 DEF Moved, Closing, Disowned, TableOK, TableTypes
  <2>7. TableTypes'
    BY <1>0, <2>1, <2>4, <2>5, OwnersDistinct DEF Closing, Disowned, TableOK, TableTypes
  <2>8. MayMove(g, low, f, D, X, L)
    BY <1>0, <2>2, <2>4 DEF MayMove
  <2> HIDE DEF D, X
  <2>9. /\ TableOK' /\ KeepsBut(g, L) /\ KeepsProgram(D \cup {low})
        /\ has'[g] = low /\ file'[low] = f
    BY <1>0, <2>6, <2>7, <2>8, MoveStep, Zenon
  <2>10. HandedOver
    <3>1. owner[low] # Program
      BY <2>4, Unowned
    <3> QED
      BY <1>5, <2>9, <3>1 DEF HandedOver, KeepsProgram, D
  <2>11. WantedHeld' /\ wanted' \in [Objs -> [Streams -> Descriptions \cup {NoFile}]]
    BY <1>a, <2>1, <2>2, <2>4, <2>9, RedirectDone
  <2>12. m_fileno' \in [Guards -> Fds \cup {-1}] /\ UNCHANGED <<temp, crossed, child, threw>>
    BY <1>5, <1>b, <2>1, <2>4 DEF RedirectStreamGiven
  <2> QED
    BY <2>3, <2>9, <2>10, <2>11, <2>12, RedirectFrame
<1>6. ASSUME NEW d \in Fds, RedirectStreamKept(o, s, d)
      PROVE  Inv' /\ HandedOver
  <2> DEFINE D == {}
             X == {Lowest}
             L == {}
             f == file[d]
  <2>1. /\ Wants(o, s, f) /\ f \in Descriptions
        /\ Lowest \in Fds /\ ~Open(Lowest) /\ Next2 \in Fds /\ ~Open(Next2) /\ Next2 # Lowest
        /\ UNCHANGED <<temp, lent, crossed, child, threw>>
    BY <1>0, <1>6, LowestUnused DEF RedirectStreamKept, Open, TableOK, TableTypes, Unused
  <2>2. /\ file' = [Closing(file, HeldBy(g)) EXCEPT ![Lowest] = f, ![Next2] = f]
        /\ owner' = [Disowned(HeldBy(g)) EXCEPT ![Lowest] = Forgotten, ![Next2] = g]
        /\ m_fileno' = [m_fileno EXCEPT ![g] = Next2]
    BY <1>0, <1>6 DEF RedirectStreamKept
  <2> HIDE DEF f
  <2>3. has' = [h \in Guards |-> IF h = g THEN Next2 ELSE IF h \in L THEN -1 ELSE has[h]]
    <3>1. \A h \in Guards : m_fileno'[h] = IF h = g THEN Next2 ELSE m_fileno[h]
      BY <1>0, <2>2 DEF TypeOK
    <3>2. has' = [h \in Guards |-> IF Lent(h)' THEN -1 ELSE m_fileno'[h]]
      BY DEF has
    <3>3. \A h \in Guards : Lent(h)' = Lent(h)
      BY <2>1 DEF Lent
    <3> QED
      BY <1>0, <3>1, <3>2, <3>3 DEF has
  <2>4. Moved(g, Next2, f, D, X, L)
    BY <1>0, <2>1, <2>2, <2>3 DEF Moved, Closing, Disowned, TableOK, TableTypes
  <2>5. TableTypes'
    BY <1>0, <2>1, <2>2, <2>3, OwnersDistinct DEF Closing, Disowned, TableOK, TableTypes
  <2>6. /\ MayMove(g, Next2, f, D, X, L)
        /\ D \cup {Next2} = {Next2} /\ L \in SUBSET {TempGuard}
    BY <1>0, <2>1 DEF MayMove
  <2> HIDE DEF D, X, L
  <2>7. /\ TableOK' /\ KeepsBut(g, L) /\ KeepsProgram(D \cup {Next2})
        /\ has'[g] = Next2 /\ file'[Next2] = f
    BY <1>0, <2>4, <2>5, <2>6, MoveStep, Zenon
  <2>8. HandedOver
    BY <2>1, <2>6, <2>7, KeepsMost
  <2>9. WantedHeld' /\ wanted' \in [Objs -> [Streams -> Descriptions \cup {NoFile}]]
    BY <1>a, <1>c, <2>1, <2>6, <2>7, RedirectDone
  <2>10. m_fileno' \in [Guards -> Fds \cup {-1}]
    BY <1>b, <2>1, <2>2
  <2> QED
    BY <2>1, <2>7, <2>8, <2>9, <2>10, RedirectFrame
<1>7. ASSUME RedirectInvalid(o, s)
      PROVE  Inv' /\ HandedOver
  <2>1. Close(g) /\ Wants(o, s, NoFile) /\ UNCHANGED <<temp, lent, crossed, child, threw>>
    BY <1>0, <1>7 DEF RedirectInvalid
  <2>2. ~Lent(g)' /\ lent' = lent
    BY <1>0, <2>1 DEF Lent
  <2>3. TableOK' /\ Keeps({g}) /\ KeepsProgram({}) /\ has'[g] = -1
    BY <1>0, <2>1, <2>2, CloseOne
  <2>4. HandedOver
    BY <2>3, KeepsAll
  <2>5. WantedHeld' /\ wanted' \in [Objs -> [Streams -> Descriptions \cup {NoFile}]]
    BY <1>a, <2>1, <2>3, WantedOne
  <2>6. m_fileno' \in [Guards -> Fds \cup {-1}]
    BY <1>0, <2>1 DEF Close, TypeOK
  <2> QED
    BY <2>1, <2>3, <2>4, <2>5, <2>6, RedirectFrame
<1> QED
  BY <1>1, <1>3, <1>4, <1>5, <1>6, <1>7 DEF Redirect

\* start() and the destructor close the redirections of their object.
LEMMA ParentStep ==
  ASSUME Sound, NEW o \in Objs,
         file' = Closing(file, ParentCloses(o)), owner' = Disowned(ParentCloses(o)),
         m_fileno' = [g \in Guards |-> IF g \in {o} \X Streams THEN -1 ELSE m_fileno[g]],
         wanted' = [wanted EXCEPT ![o] = [s \in Streams |-> NoFile]],
         UNCHANGED <<temp, lent, crossed>>
  PROVE  /\ TableOK' /\ HandedOver /\ WantedHeld'
         /\ m_fileno' \in [Guards -> Fds \cup {-1}]
         /\ wanted' \in [Objs -> [Streams -> Descriptions \cup {NoFile}]]
<1> DEFINE G == {o} \X Streams
<1>1. TableOK /\ TypeOK /\ G \in SUBSET (Guards \ {TempGuard})
  <2>1. G \in SUBSET Guards
    BY DEF Guards
  <2>2. TempGuard \notin G
    BY OwnersDistinct
  <2> HIDE DEF G
  <2> QED
    BY <2>1, <2>2, InvTable DEF Sound, Inv
<1>2. ParentCloses(o) = UNION {HeldBy(g) : g \in G}
  <2>1. \A s \in Streams : GetStream(o, s) \in G
    BY DEF GetStream
  <2>2. \A g \in G : \E s \in Streams : g = GetStream(o, s)
    BY DEF GetStream
  <2> HIDE DEF G
  <2>3. \A g \in G : g \in Guards /\ ~Lent(g)
    BY <1>1 DEF Lent
  <2>4. \A g \in G : Held(g) = HeldBy(g)
    BY <1>1, <2>3, HasFacts
  <2> QED
    BY <2>1, <2>2, <2>4 DEF ParentCloses
<1>3. m_fileno' = [g \in Guards |-> IF g \in G THEN -1 ELSE m_fileno[g]]
  OBVIOUS
<1> HIDE DEF G
<1>a. has' = [g \in Guards |-> IF g \in G THEN -1 ELSE has[g]]
  <2>1. \A g \in Guards : Lent(g)' = Lent(g)
    BY DEF Lent
  <2>2. has' = [h \in Guards |-> IF Lent(h)' THEN -1 ELSE m_fileno'[h]]
    BY DEF has
  <2> QED
    BY <1>3, <2>1, <2>2 DEF has
<1>4. TableOK' /\ Keeps(G) /\ KeepsProgram({})
  <2>1. G \in SUBSET Guards
    BY <1>1
  <2> QED
    BY <1>1, <1>2, <1>a, <2>1, CloseStep
<1>5. HandedOver
  BY <1>4, KeepsAll
<1>6. wanted \in [Objs -> [Streams -> Descriptions \cup {NoFile}]]
  BY DEF Sound, Inv, TypeOK, Descriptions
<1>7. ASSUME NEW o2 \in Objs, NEW s2 \in Streams
      PROVE  wanted'[o2][s2] = IF has'[<<o2, s2>>] = -1 THEN NoFile
                               ELSE file'[has'[<<o2, s2>>]]
  <2>1. CASE o2 = o
    <3>1. <<o2, s2>> \in G /\ <<o2, s2>> \in Guards
      BY <1>1, <2>1 DEF G
    <3>2. has'[<<o2, s2>>] = -1
      BY <1>a, <3>1
    <3> QED
      BY <1>6, <2>1, <3>2
  <2>2. CASE o2 # o
    <3>1. <<o2, s2>> \notin G
      BY <2>2 DEF G
    <3>2. wanted'[o2][s2] = wanted[o2][s2]
      BY <1>6, <2>2
    <3> QED
      BY <1>4, <3>1, <3>2, WantedKept
  <2> QED
    BY <2>1, <2>2
<1>8. WantedHeld'
  BY <1>7 DEF WantedHeld
<1>9. wanted' \in [Objs -> [Streams -> Descriptions \cup {NoFile}]]
  BY <1>6
<1>10. m_fileno' \in [Guards -> Fds \cup {-1}]
  BY <1>1, <1>3 DEF TypeOK
<1> QED
  BY <1>4, <1>5, <1>8, <1>9, <1>10

\* The table of the child, when start() is called with room for the pipe.
LEMMA ChildTableType ==
  ASSUME TypeOK, NEW o \in Objs, NEW T, NEW t \in [Fds -> T], NEW r \in Fds
  PROVE  ChildTable(t, o, r) \in [Fds -> T \cup {NoFile}]
<1>1. ASSUME NEW u \in [Fds -> T], NEW s \in Streams
      PROVE  Redirected(u, o, s) \in [Fds -> T]
  <2>1. <<o, s>> \in Guards
    BY OwnersDistinct
  <2>2. m_fileno[<<o, s>>] \in Fds \cup {-1}
    BY <2>1 DEF TypeOK
  <2> QED
    BY <2>2 DEF Redirected, GetStream
<1>2. "Stdout" \in Streams /\ "Stderr" \in Streams
  BY DEF Streams
<1>3. Redirected(Redirected(t, o, "Stdout"), o, "Stderr") \in [Fds -> T]
  BY <1>1, <1>2
<1> QED
  BY <1>3 DEF ChildTable, Closing

LEMMA StartInv ==
  ASSUME Sound, NEW o \in Objs, NEW fails \in BOOLEAN, Start(o, fails)
  PROVE  Inv' /\ HandedOver
<1>0. TypeOK /\ TableOK /\ RestTypes /\ (lent # "nothing" => temp = "named")
  BY InvTable, TypesSplit DEF Sound, Inv
<1>1. /\ TableOK' /\ HandedOver /\ WantedHeld'
      /\ m_fileno' \in [Guards -> Fds \cup {-1}]
      /\ wanted' \in [Objs -> [Streams -> Descriptions \cup {NoFile}]]
  <2>1. {GetStream(o, s) : s \in Streams} = {o} \X Streams
    BY DEF GetStream
  <2>2. m_fileno' = [g \in Guards |-> IF g \in {o} \X Streams THEN -1 ELSE m_fileno[g]]
    BY <2>1 DEF Start
  <2> QED
    BY <2>2, ParentStep DEF Start
<1>2. child' \in [Streams -> Files \cup {StdFile, Pipe, NoFile}] /\ threw' \in BOOLEAN
  <2> DEFINE T == Files \cup {StdFile, Pipe, NoFile}
             piped == [file EXCEPT ![Lowest] = Pipe, ![Next2] = Pipe]
             table == ChildTable(piped, o, Lowest)
  <2>1. Lowest \in Fds /\ Next2 \in Fds
    BY LowestUnused DEF Start, Unused
  <2>2. piped \in [Fds -> T]
    BY <1>0, <2>1 DEF TypeOK
  <2>3. table \in [Fds -> T \cup {NoFile}]
    <3> HIDE DEF piped, T
    <3> QED
      BY <1>0, <2>1, <2>2, ChildTableType
  <2>4. /\ child' = [s \in Streams |-> Closing(table, {Next2})[StdFd(s)]]
        /\ threw' = (fails /\ table[Next2] = Pipe)
    BY DEF Start
  <2> HIDE DEF table
  <2>5. \A s \in Streams : StdFd(s) \in Fds
    BY DescriptorsAssumption DEF StdFd
  <2>6. \A s \in Streams : Closing(table, {Next2})[StdFd(s)] \in T
    BY <2>3, <2>5 DEF Closing
  <2> QED
    BY <2>4, <2>6
<1>3. UNCHANGED <<temp, lent, crossed>>
  BY DEF Start
<1>4. RestTypes'
  BY <1>0, <1>1, <1>2, <1>3 DEF RestTypes
<1> QED
  BY <1>0, <1>1, <1>3, <1>4, InvFromTable

LEMMA DestroyInv ==
  ASSUME Sound, NEW o \in Objs, Destroy(o)
  PROVE  Inv' /\ HandedOver
<1>1. /\ TableOK' /\ HandedOver /\ WantedHeld'
      /\ m_fileno' \in [Guards -> Fds \cup {-1}]
      /\ wanted' \in [Objs -> [Streams -> Descriptions \cup {NoFile}]]
  BY ParentStep DEF Destroy
<1> QED
  BY <1>1, RedirectFrame DEF Destroy

-----------------------------------------------------------------------------
(* The theorems                                                              *)

LEMMA InitInv == Init => Inv
<1> SUFFICES ASSUME Init PROVE Inv
  OBVIOUS
<1> USE FdsNatural, OwnersDistinct, DescriptorsAssumption
<1>1. TypeOK
  BY DEF Init, TypeOK
<1>2. has = [g \in Guards |-> -1]
  BY DEF Init, has, Lent
<1>3. TableOK
  BY <1>1, <1>2
  DEF Init, TypeOK, TableOK, TableTypes, OwnersHave, OpenIsKnown, ClosedIsNobodys, Open, Descriptions
<1>4. WantedHeld
  BY <1>2 DEF Init, WantedHeld
<1>5. NothingLost
  BY <1>1, <1>3, TableLosesNothing
<1> QED
  BY <1>1, <1>3, <1>4, <1>5 DEF Inv, Init

LEMMA StepInv ==
  ASSUME Inv, Next
  PROVE  Inv' /\ HandedOver
<1>0. Sound
  BY DEF Sound, Next
<1>1. CASE ProgramStep
  BY <1>0, <1>1, ProgramStepInv
<1>2. CASE TempStep
  BY <1>0, <1>2, TempStepInv
<1>3. CASE \E o \in Objs : \E s \in Streams : Redirect(o, s)
  BY <1>0, <1>3, RedirectInv
<1>4. CASE \E o \in Objs : \E fails \in BOOLEAN : Start(o, fails)
  BY <1>0, <1>4, StartInv
<1>5. CASE \E o \in Objs : Destroy(o)
  BY <1>0, <1>5, DestroyInv
<1> QED
  BY <1>1, <1>2, <1>3, <1>4, <1>5 DEF Next

LEMMA NextInv == Inv /\ [Next]_vars => Inv'
<1>1. ASSUME Inv, UNCHANGED vars
      PROVE  Inv'
  <2>1. has' = has
    BY <1>1 DEF vars, has, Lent
  <2>2. TypeOK' /\ NothingLost' /\ (crossed' <=> crossed)
    BY <1>1 DEF vars, Inv, TypeOK, NothingLost, Open
  <2>3. TableOK => TableOK'
    BY <1>1, <2>1
    DEF vars, TableOK, TableTypes, OwnersHave, OpenIsKnown, ClosedIsNobodys, Open
  <2>4. WantedHeld => WantedHeld'
    BY <1>1, <2>1 DEF vars, WantedHeld
  <2> QED
    BY <1>1, <2>2, <2>3, <2>4 DEF vars, Inv
<1> QED
  BY <1>1, StepInv

LEMMA InvAlways == Spec => []Inv
  BY InitInv, NextInv, PTL DEF Spec

\* Every variable of Descriptors keeps its type (auto_close, tempfile and the
\* redirections of process), for any number of objects and descriptors.
THEOREM DescriptorTypes == Spec => []TypeOK
<1>1. Inv => TypeOK
  BY DEF Inv
<1> QED
  BY <1>1, InvAlways, PTL

\* Until ~tempfile() closes what had been given away: every auto_close object has
\* an open descriptor of its own, so that close() cannot fail and closes nothing
\* else - except the guard of a tempfile whose handle() or stream was given to an
\* object (process.hh:124-129), which never has.
THEOREM GuardsHaveTheirOwn == Spec => []GuardsOwn
<1>1. Inv => GuardsOwn
  <2> SUFFICES ASSUME Inv, ~crossed, NEW g \in Guards, m_fileno[g] # -1
               PROVE  (Open(m_fileno[g]) /\ owner[m_fileno[g]] = g) <=> ~Lent(g)
    BY DEF GuardsOwn, Lent
  <2>0. TableOK /\ TypeOK /\ m_fileno[g] \in Fds
    BY DEF Inv, TypeOK
  <2>1. CASE Lent(g)
    <3>1. has[g] = -1
      BY <2>0, <2>1, HasFacts DEF Lent
    <3>2. ~(Open(m_fileno[g]) /\ owner[m_fileno[g]] = g)
      BY <2>0, <3>1, OwnersDistinct, FdsNatural DEF TableOK, OpenIsKnown
    <3> QED
      BY <2>1, <3>2
  <2>2. CASE ~Lent(g)
    <3>1. has[g] = m_fileno[g]
      BY <2>0, <2>2, HasFacts
    <3>2. Open(m_fileno[g]) /\ owner[m_fileno[g]] = g
      BY <2>0, <3>1 DEF TableOK, OwnersHave
    <3> QED
      BY <2>2, <3>2
  <2> QED
    BY <2>1, <2>2
<1> QED
  BY <1>1, InvAlways, PTL

\* No descriptor is lost, but for those that detach() of a tempfile without a name
\* and redirect_to(stream, false) forget.
THEOREM NoneLost == Spec => []NothingLost
<1>1. Inv => NothingLost
  BY DEF Inv
<1> QED
  BY <1>1, InvAlways, PTL

\* The library closes or replaces no descriptor of the program that was not handed
\* over to redirect_to(), but for ~tempfile() of a tempfile that was.
THEOREM ProgramFilesKept == Spec => KeepsProgramFiles
<1>1. Inv /\ [Next]_vars =>
        [\A d \in Fds : owner[d] = Program /\ file'[d] # file[d] =>
           \/ ProgramCloses(d)
           \/ \E o \in Objs, s \in Streams : RedirectStreamGiven(o, s, d)
           \/ TempDestroy /\ lent # "nothing" /\ d = m_fileno[TempGuard]]_vars
  <2> SUFFICES ASSUME Inv, Next
               PROVE  HandedOver
    BY DEF HandedOver
  <2> QED
    BY StepInv
<1> QED
  BY <1>1, InvAlways, PTL DEF Spec, KeepsProgramFiles

\* What the program of a child finds on its standard streams, and what start()
\* says, whichever of the standard streams the program has closed.
LEMMA StartResult ==
  ASSUME Sound, NEW o \in Objs, NEW fails \in BOOLEAN, Start(o, fails)
  PROVE  /\ \A s \in Streams :
              child'[s] = IF StdFd(s) \in {Lowest, Next2} THEN NoFile
                          ELSE IF m_fileno[<<o, s>>] = 1 THEN Aim(o, "Stdout")
                          ELSE Aim(o, s)
         /\ threw' = (fails /\ \A s \in Streams : StdFd(s) = Next2 => wanted[o][s] = NoFile)
<1> DEFINE low == Lowest
           nxt == Next2
           piped == [file EXCEPT ![low] = Pipe, ![nxt] = Pipe]
           table == ChildTable(piped, o, low)
<1> USE FdsNatural
<1>0. TableOK /\ TypeOK /\ WantedHeld
  BY InvTable DEF Sound, Inv
<1>1. low \in Fds /\ ~Open(low) /\ nxt \in Fds /\ ~Open(nxt) /\ nxt # low
  BY LowestUnused DEF Start, Unused
<1>2. 1 \in Fds /\ 2 \in Fds
  BY DescriptorsAssumption
<1>5. /\ child' = [s \in Streams |-> Closing(table, {nxt})[StdFd(s)]]
      /\ threw' = (fails /\ table[nxt] = Pipe)
  BY DEF Start
<1>a. {Lowest, Next2} = {low, nxt} /\ Next2 = nxt
  OBVIOUS
<1> HIDE DEF low, nxt
<1>4. /\ piped[low] = Pipe /\ piped[nxt] = Pipe
      /\ \A d \in Fds : d \notin {low, nxt} => piped[d] = file[d]
      /\ \A d \in Fds : Open(d) => d \notin {low, nxt}
      /\ piped \in [Fds -> Descriptions \cup {Pipe, NoFile}]
  BY <1>0, <1>1 DEF TableOK, TableTypes
<1> HIDE DEF piped
<1>6. ASSUME NEW s \in Streams
      PROVE  /\ m_fileno[<<o, s>>] \in Fds \cup {-1}
             /\ m_fileno[<<o, s>>] = -1 <=> wanted[o][s] = NoFile
             /\ m_fileno[<<o, s>>] # -1 =>
                  /\ m_fileno[<<o, s>>] \notin {low, nxt}
                  /\ file[m_fileno[<<o, s>>]] = wanted[o][s]
             /\ wanted[o][s] # Pipe
  <2>1. <<o, s>> \in Guards \ {TempGuard}
    BY OwnersDistinct
  <2>2. m_fileno[<<o, s>>] \in Fds \cup {-1} /\ has[<<o, s>>] = m_fileno[<<o, s>>]
    BY <1>0, <2>1, HasFacts DEF Lent
  <2>3. m_fileno[<<o, s>>] # -1 => Open(m_fileno[<<o, s>>])
    BY <1>0, <2>1, <2>2 DEF TableOK, OwnersHave
  <2>4. wanted[o][s] = IF m_fileno[<<o, s>>] = -1 THEN NoFile ELSE file[m_fileno[<<o, s>>]]
    BY <1>0, <2>2 DEF WantedHeld
  <2>5. wanted[o][s] # Pipe
    BY <1>0, DescriptorsAssumption DEF TypeOK
  <2> QED
    BY <1>4, <2>2, <2>3, <2>4, <2>5 DEF Open
<1> DEFINE out == m_fileno[<<o, "Stdout">>]
           err == m_fileno[<<o, "Stderr">>]
           first == Redirected(piped, o, "Stdout")
           second == Redirected(first, o, "Stderr")
<1>7. "Stdout" \in Streams /\ "Stderr" \in Streams
  BY DEF Streams
<1>8. \A d \in Fds : first[d] = IF d = 1 /\ out # -1 THEN piped[out] ELSE piped[d]
  BY <1>2, <1>4 DEF Redirected, GetStream, StdFd
<1>9. first \in [Fds -> Descriptions \cup {Pipe, NoFile}]
  BY <1>4, <1>6, <1>7 DEF Redirected, GetStream, StdFd
<1>10. \A d \in Fds : second[d] = IF d = 2 /\ err # -1 THEN first[err] ELSE first[d]
  <2> HIDE DEF first
  <2> QED
    BY <1>2, <1>9 DEF Redirected, GetStream, StdFd
<1>11. \A d \in Fds : table[d] = IF d = low THEN NoFile ELSE second[d]
  BY DEF ChildTable, Closing
<1> HIDE DEF first, second, table
<1>b. /\ out \in Fds \cup {-1} /\ (out = -1 <=> wanted[o]["Stdout"] = NoFile)
      /\ out # -1 => piped[out] = wanted[o]["Stdout"]
      /\ err \in Fds \cup {-1} /\ (err = -1 <=> wanted[o]["Stderr"] = NoFile)
      /\ err # -1 => piped[err] = wanted[o]["Stderr"] /\ err \notin {low, nxt}
      /\ err # -1 => file[err] = wanted[o]["Stderr"]
      /\ wanted[o]["Stdout"] # Pipe /\ wanted[o]["Stderr"] # Pipe
  BY <1>4, <1>6, <1>7
<1> HIDE DEF out, err
<1>12. table[nxt] = Pipe <=>
         /\ nxt = 1 => wanted[o]["Stdout"] = NoFile
         /\ nxt = 2 => wanted[o]["Stderr"] = NoFile
  BY <1>1, <1>2, <1>4, <1>8, <1>10, <1>11, <1>b
<1>c. (\A s \in Streams : StdFd(s) = nxt => wanted[o][s] = NoFile) <=>
         /\ nxt = 1 => wanted[o]["Stdout"] = NoFile
         /\ nxt = 2 => wanted[o]["Stderr"] = NoFile
  BY DEF Streams, StdFd
<1>13. /\ child'["Stdout"] = IF nxt = 1 THEN NoFile ELSE table[1]
       /\ child'["Stderr"] = IF nxt = 2 THEN NoFile ELSE table[2]
  BY <1>2, <1>5, <1>7 DEF Closing, StdFd
<1>14. child'["Stdout"] = IF 1 \in {low, nxt} THEN NoFile ELSE Aim(o, "Stdout")
  <2>1. 1 \notin {low, nxt} => table[1] = IF out # -1 THEN piped[out] ELSE file[1]
    BY <1>2, <1>4, <1>8, <1>10, <1>11
  <2> QED
    BY <1>11, <1>13, <1>2, <1>b, <2>1 DEF Aim, StdFd
<1>15. child'["Stderr"] = IF 2 \in {low, nxt} THEN NoFile
                          ELSE IF err = 1 THEN Aim(o, "Stdout") ELSE Aim(o, "Stderr")
  <2>1. 2 \notin {low, nxt} => table[2] = IF err # -1 THEN first[err] ELSE file[2]
    BY <1>2, <1>4, <1>8, <1>10, <1>11
  <2>2. err # -1 => first[err] = IF err = 1 /\ out # -1 THEN piped[out] ELSE piped[err]
    BY <1>8, <1>b
  <2>3. err = 1 => piped[1] = file[1]
    BY <1>2, <1>4, <1>b
  <2> QED
    BY <1>11, <1>13, <1>2, <1>b, <2>1, <2>2, <2>3 DEF Aim, StdFd
<1>16. \A s \in Streams :
              child'[s] = IF StdFd(s) \in {low, nxt} THEN NoFile
                          ELSE IF m_fileno[<<o, s>>] = 1 THEN Aim(o, "Stdout")
                          ELSE Aim(o, s)
  <2>1. err = m_fileno[<<o, "Stderr">>]
    BY DEF err
  <2> QED
    BY <1>14, <1>15, <2>1 DEF Streams, StdFd
<1> QED
  BY <1>5, <1>12, <1>16, <1>a, <1>c

\* A child writes where its object was told to redirect it to, except, in a
\* program that has closed its own standard streams, in the two cases that
\* ChildWritesWhereWanted names (process::redirect_to, process::start).
THEOREM ChildrenWriteRight == Spec => ChildWritesWhereWanted
<1>1. Inv /\ [Next]_vars =>
        [\A o \in Objs : Start(o, FALSE) =>
           \A s \in Streams :
             child'[s] = IF StdFd(s) \in {Lowest, Next2} THEN NoFile
                         ELSE IF m_fileno[<<o, s>>] = 1 THEN Aim(o, "Stdout")
                         ELSE Aim(o, s)]_vars
  <2> SUFFICES ASSUME Inv, Next, NEW o \in Objs, Start(o, FALSE)
               PROVE  \A s \in Streams :
                        child'[s] = IF StdFd(s) \in {Lowest, Next2} THEN NoFile
                                    ELSE IF m_fileno[<<o, s>>] = 1 THEN Aim(o, "Stdout")
                                    ELSE Aim(o, s)
    OBVIOUS
  <2>1. Sound /\ FALSE \in BOOLEAN
    BY DEF Sound, Next
  <2> QED
    BY <2>1, StartResult
<1> QED
  BY <1>1, InvAlways, PTL DEF Spec, ChildWritesWhereWanted

\* start() throws if and only if the program could not be executed, except that a
\* report that the child writes after a redirection has taken the number of the
\* pipe is lost, and then start() never throws.
THEOREM FailuresReported == Spec => FailureReported
<1>1. Inv /\ [Next]_vars =>
        [\A o \in Objs, fails \in BOOLEAN : Start(o, fails) =>
           threw' = (fails /\ \A s \in Streams : StdFd(s) = Next2 => wanted[o][s] = NoFile)]_vars
  <2> SUFFICES ASSUME Inv, Next, NEW o \in Objs, NEW fails \in BOOLEAN, Start(o, fails)
               PROVE  threw' = (fails /\ \A s \in Streams :
                                           StdFd(s) = Next2 => wanted[o][s] = NoFile)
    OBVIOUS
  <2>1. Sound
    BY DEF Sound, Next
  <2> QED
    BY <2>1, StartResult
<1> QED
  BY <1>1, InvAlways, PTL DEF Spec, FailureReported

=============================================================================
