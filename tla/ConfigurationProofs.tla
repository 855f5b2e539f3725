------------------------ MODULE ConfigurationProofs -------------------------
(***************************************************************************)
(* Proofs about the parts of utilmm that read what users write, for texts, *)
(* files, options and directories of any number and length.                *)
(***************************************************************************)
EXTENDS Configuration, SequenceTheorems, FiniteSetTheorems, WellFoundedInduction, TLAPS

-----------------------------------------------------------------------------
(* Induction over natural numbers                                          *)

(* A set of natural numbers that is not empty has a smallest element.      *)
LEMMA SmallestNumber ==
  ASSUME NEW S \in SUBSET Nat, S # {}
  PROVE  \E m \in S : \A n \in S : m <= n
<1>1. PICK x \in S : \A y \in S : ~(<<y, x>> \in OpToRel(<, Nat))
  BY NatLessThanWellFounded, WFMin
<1>2. \A y \in S : ~(y < x)
  BY <1>1 DEF OpToRel
<1> QED
  BY <1>2

Least(S) == CHOOSE n \in S : \A m \in S : n <= m

LEMMA LeastOf ==
  ASSUME NEW S \in SUBSET Nat, S # {}
  PROVE  /\ Least(S) \in S /\ \A n \in S : Least(S) <= n
         /\ \A n \in S : (\A m \in S : n <= m) => n = Least(S)
<1>1. PICK x \in S : \A n \in S : x <= n
  BY SmallestNumber
<1>2. Least(S) \in S /\ \A n \in S : Least(S) <= n
  BY <1>1 DEF Least
<1>3. ASSUME NEW n \in S, \A m \in S : n <= m
      PROVE  n = Least(S)
  <2>1. n \in Nat /\ Least(S) \in Nat /\ n <= Least(S) /\ Least(S) <= n
    BY <1>2, <1>3
  <2> QED
    BY <2>1
<1> QED
  BY <1>2, <1>3

-----------------------------------------------------------------------------
(* A file is looked for in the order of Candidates                         *)

Paths == Seq(Entries)
FinderKnown ==
  /\ path \in Seq(Paths)
  /\ wanted \in Files /\ system \in Systems

(* The file without its directories, and the directories.                  *)
LEMMA FileParts ==
  ASSUME NEW f \in Files
  PROVE  /\ f \in Paths /\ Finder!Last(f) \in Entries /\ Finder!Before(f) \in Paths
         /\ Finder!Before(f) \o <<Finder!Last(f)>> = f
<1>1. f \in Seq(Entries) /\ f # <<>>
  BY FinderAssumption
<1>2. Len(f) \in Nat \ {0}
  BY <1>1
<1>3. Finder!Last(f) \in Entries /\ Finder!Before(f) \in Seq(Entries)
  BY <1>1, <1>2 DEF Finder!Last, Finder!Before
<1>4. Len(Finder!Before(f)) = Len(f) - 1
  <2>1. \A n \in 1 .. Len(f) - 1 : f[n] \in Entries
    BY <1>1, <1>2
  <2> DEFINE last == Len(f) - 1
  <2>2. last \in Nat
    BY <1>2
  <2> HIDE DEF last
  <2>3. Len(SubSeq(f, 1, last)) = IF 1 <= last THEN last - 1 + 1 ELSE 0
    BY <2>1, <2>2, SubSeqProperties DEF last
  <2>4. Len(SubSeq(f, 1, last)) = last
    BY <2>2, <2>3
  <2> QED
    BY <2>4 DEF Finder!Before, last
<1>5. \A n \in 1 .. Len(f) : (Finder!Before(f) \o <<Finder!Last(f)>>)[n] = f[n]
  BY <1>1, <1>2, <1>3, <1>4 DEF Finder!Last, Finder!Before
<1>6. Finder!Before(f) \o <<Finder!Last(f)>> \in Seq(Entries)
  BY <1>3
<1>7. Len(Finder!Before(f) \o <<Finder!Last(f)>>) = Len(f)
  BY <1>2, <1>3, <1>4
<1>8. Finder!Before(f) \o <<Finder!Last(f)>> = f
  BY <1>1, <1>5, <1>6, <1>7, SeqEqual
<1> QED
  BY <1>1, <1>3, <1>8 DEF Paths

(* The path of a candidate, put together in either order.                  *)
LEMMA SamePath ==
  ASSUME NEW f \in Files, NEW d \in Paths, NEW b \in Paths
  PROVE  (d \o (b \o Finder!Before(f))) \o <<Finder!Last(f)>> = (d \o b) \o f
<1>1. PICK r, last : r = Finder!Before(f) /\ last = <<Finder!Last(f)>>
  OBVIOUS
<1>2. r \in Paths /\ Finder!Last(f) \in Entries /\ r \o last = f
  BY <1>1, FileParts
<1>3. /\ d \in Seq(Entries) /\ b \in Seq(Entries)
      /\ r \in Seq(Entries) /\ last \in Seq(Entries)
  BY <1>1, <1>2 DEF Paths
<1>4. PICK e : e = d \o b
  OBVIOUS
<1>5. d \o (b \o r) = e \o r /\ e \in Seq(Entries)
  BY <1>3, <1>4
<1>6. (e \o r) \o last = e \o (r \o last)
  BY <1>3, <1>5
<1> QED
  BY <1>1, <1>2, <1>4, <1>5, <1>6

(* search(): the current directory, then the first directory that has the  *)
(* file.                                                                   *)
Having(file, directories) == {n \in DOMAIN directories : directories[n] \o file \in disk}
LEMMA Searched ==
  ASSUME NEW file, file # <<>>, NEW directories, DOMAIN directories \subseteq Nat
  PROVE  Finder!Search(file, directories) =
           IF Finder!Here(file) \in disk THEN Finder!Here(file)
           ELSE IF Having(file, directories) = {} THEN Finder!Nowhere
           ELSE directories[Least(Having(file, directories))] \o file
  BY DEF Finder!Search, Having, Least

(* Sequences put together.                                                 *)
LEMMA Prepended ==
  ASSUME NEW S, NEW x \in S, NEW A \in Seq(S)
  PROVE  /\ <<x>> \o A \in Seq(S) /\ Len(<<x>> \o A) = 1 + Len(A)
         /\ (<<x>> \o A)[1] = x /\ \A n \in 1 .. Len(A) : (<<x>> \o A)[1 + n] = A[n]
  OBVIOUS

LEMMA Appended ==
  ASSUME NEW S, NEW A \in Seq(S), NEW B \in Seq(S), NEW c, c = A \o B
  PROVE  /\ c \in Seq(S) /\ Len(c) = Len(A) + Len(B)
         /\ \A n \in 1 .. Len(A) : c[n] = A[n]
         /\ \A n \in 1 .. Len(B) : c[Len(A) + n] = B[n]
  OBVIOUS

LEMMA ThreeParts ==
  ASSUME NEW S, NEW x \in S, NEW A \in Seq(S), NEW B \in Seq(S), NEW c
  PROVE  c = <<x>> \o A \o B =>
           /\ c \in Seq(S) /\ Len(c) = 1 + Len(A) + Len(B) /\ c[1] = x
           /\ \A n \in 1 .. Len(A) : c[1 + n] = A[n]
           /\ \A n \in 1 .. Len(B) : c[1 + Len(A) + n] = B[n]
<1>1. PICK p : p = <<x>> \o A
  OBVIOUS
<1>2. /\ p \in Seq(S) /\ Len(p) = 1 + Len(A) /\ p[1] = x
      /\ \A n \in 1 .. Len(A) : p[1 + n] = A[n]
  BY <1>1, Prepended
<1>3. SUFFICES ASSUME c = p \o B
               PROVE  /\ c \in Seq(S) /\ Len(c) = 1 + Len(A) + Len(B) /\ c[1] = x
                      /\ \A n \in 1 .. Len(A) : c[1 + n] = A[n]
                      /\ \A n \in 1 .. Len(B) : c[1 + Len(A) + n] = B[n]
  BY <1>1
<1>4. p \in Seq(S)
  BY <1>2
<1>5. /\ c \in Seq(S) /\ Len(c) = Len(p) + Len(B)
      /\ \A n \in 1 .. Len(p) : c[n] = p[n]
      /\ \A n \in 1 .. Len(B) : c[Len(p) + n] = B[n]
  BY <1>3, <1>4, Appended
<1>6. 1 \in 1 .. Len(p) /\ \A n \in 1 .. Len(A) : 1 + n \in 1 .. Len(p)
  BY <1>2
<1> QED
  BY <1>2, <1>5, <1>6

(* findSystemConfig() finds the first candidate that there is.             *)
LEMMA FindsFirst ==
  ASSUME FinderKnown
  PROVE  LET c     == Finder!Candidates(wanted, system, path)
             there == {n \in DOMAIN c : c[n] \in disk}
         IN  Finder!FindSystemConfig(wanted, system) =
               IF there = {} THEN Finder!Nowhere ELSE c[Least(there)]
<1> DEFINE l     == <<Finder!Last(wanted)>>
           here  == Finder!Here(l)
           high  == <<system[1], system[2]>>
           low   == <<system[1]>>
           A     == [n \in DOMAIN path |-> path[n] \o high \o wanted]
           B     == [n \in DOMAIN path |-> path[n] \o low \o wanted]
           c     == Finder!Candidates(wanted, system, path)
           there == {n \in DOMAIN c : c[n] \in disk}
           N     == Len(path)
<1> SUFFICES Finder!FindSystemConfig(wanted, system) =
               IF there = {} THEN Finder!Nowhere ELSE c[Least(there)]
  OBVIOUS
<1>1. /\ wanted \in Files /\ path \in Seq(Paths) /\ N \in Nat /\ DOMAIN path = 1 .. N
      /\ l \in Paths /\ high \in Paths /\ low \in Paths /\ wanted \in Paths
  <2>1. system \in Seq(Entries) /\ Len(system) >= 2
    BY FinderAssumption DEF FinderKnown
  <2>2. system[1] \in Entries /\ system[2] \in Entries
    BY <2>1
  <2>3. wanted \in Files /\ path \in Seq(Paths)
    BY DEF FinderKnown
  <2>4. l \in Seq(Entries) /\ high \in Seq(Entries) /\ low \in Seq(Entries)
    <3>1. Finder!Last(wanted) \in Entries
      BY <2>3, FileParts
    <3> QED
      BY <2>2, <3>1
  <2>5. wanted \in Paths
    BY <2>3, FileParts
  <2>6. N \in Nat /\ DOMAIN path = 1 .. N
    BY <2>3
  <2> QED
    BY <2>3, <2>4, <2>5, <2>6 DEF Paths
<1>2. /\ A \in [1 .. N -> Paths] /\ B \in [1 .. N -> Paths]
      /\ A \in Seq(Paths) /\ B \in Seq(Paths) /\ Len(A) = N /\ Len(B) = N
  <2>1. \A n \in 1 .. N : path[n] \in Paths
    BY <1>1
  <2>2. \A n \in 1 .. N : path[n] \o high \o wanted \in Paths /\ path[n] \o low \o wanted \in Paths
    BY <1>1, <2>1 DEF Paths
  <2> QED
    BY <1>1, <2>2
<1>3. here \in Paths /\ here # <<>>
  <2> DEFINE x == Finder!Last(wanted)
  <2>1. here = <<".">> \o <<x>>
    BY DEF Finder!Here
  <2>2. "." \in Entries /\ x \in Entries
    BY <1>1, FileParts, FinderAssumption
  <2> HIDE DEF x, here
  <2>3. <<x>> \in Seq(Entries) /\ Len(<<x>>) = 1
    BY <2>2
  <2>4. here \in Seq(Entries) /\ Len(here) = 1 + 1
    BY <2>1, <2>2, <2>3, Prepended
  <2>5. here # <<>>
    <3>1. Len(here) # Len(<< >>)
      BY <2>4
    <3> QED
      BY <3>1
  <2> QED
    BY <2>4, <2>5 DEF Paths
<1>4. /\ c = <<here>> \o A \o B /\ DOMAIN c = 1 .. 1 + N + N
      /\ c[1] = here /\ \A n \in 1 .. N : c[1 + n] = A[n] /\ c[1 + N + n] = B[n]
  <2>1. c = <<here>> \o A \o B
    BY DEF Finder!Candidates
  <2> HIDE DEF A, B, c, N, here
  <2>2. /\ N \in Nat /\ A \in Seq(Paths) /\ B \in Seq(Paths) /\ here \in Paths
        /\ Len(A) = N /\ Len(B) = N
    BY <1>1, <1>2, <1>3
  <2>3. /\ c \in Seq(Paths) /\ Len(c) = 1 + Len(A) + Len(B) /\ c[1] = here
        /\ \A n \in 1 .. Len(A) : c[1 + n] = A[n]
        /\ \A n \in 1 .. Len(B) : c[1 + Len(A) + n] = B[n]
    <3>1. A \in Seq(Paths) /\ B \in Seq(Paths) /\ here \in Paths
      BY <2>2
    <3> QED
      BY <2>1, <3>1, ThreeParts
  <2>4. DOMAIN c = 1 .. Len(c)
    BY <2>3
  <2> QED
    BY <2>1, <2>2, <2>3, <2>4
<1>20. \A n \in 1 .. N : 1 + n \in 1 .. 1 + N + N /\ 1 + N + n \in 1 .. 1 + N + N
  <2> HIDE DEF N
  <2> QED
    BY <1>1
<1> HIDE DEF A, B, c, N, here
<1>5. ASSUME NEW b \in Paths, NEW n \in 1 .. N
      PROVE  (path[n] \o (b \o Finder!Before(wanted))) \o l = (path[n] \o b) \o wanted
  <2>1. path[n] \in Paths
    BY <1>1, <1>5
  <2> QED
    BY <1>1, <1>5, <2>1, SamePath
<1>6. ASSUME NEW b \in Paths, NEW places,
             places = [n \in DOMAIN path |-> path[n] \o b \o wanted]
      PROVE  LET having == {n \in 1 .. N : places[n] \in disk}
             IN  Finder!Find(l, b \o Finder!Before(wanted)) =
                   IF here \in disk THEN here
                   ELSE IF having = {} THEN Finder!Nowhere ELSE places[Least(having)]
  <2> DEFINE D == [n \in DOMAIN path |-> path[n] \o (b \o Finder!Before(wanted))]
             having == {n \in 1 .. N : places[n] \in disk}
  <2>1. DOMAIN D = 1 .. N /\ \A n \in 1 .. N : D[n] \o l = places[n]
    BY <1>1, <1>5, <1>6
  <2>2. Finder!Find(l, b \o Finder!Before(wanted)) = Finder!Search(l, D)
    BY DEF Finder!Find
  <2>0. having \in SUBSET Nat /\ having \subseteq 1 .. N
    BY <1>1
  <2> HIDE DEF D
  <2>3. Having(l, D) = having
    BY <2>1 DEF Having
  <2>4. l # <<>> /\ DOMAIN D \subseteq Nat
    BY <1>1, <2>1
  <2>5. Finder!Search(l, D) =
          IF here \in disk THEN here
          ELSE IF having = {} THEN Finder!Nowhere ELSE D[Least(having)] \o l
    BY <2>3, <2>4, Searched DEF here
  <2>6. having # {} => Least(having) \in 1 .. N
    <3> HIDE DEF having
    <3> QED
      BY <2>0, LeastOf
  <2> QED
    BY <2>1, <2>2, <2>5, <2>6
<1> DEFINE inA == {n \in 1 .. N : A[n] \in disk}
           inB == {n \in 1 .. N : B[n] \in disk}
<1>15. inA \in SUBSET Nat /\ inB \in SUBSET Nat
  BY <1>1
<1>16. there \in SUBSET Nat
  BY <1>1, <1>4
<1>17. inA # {} => Least(inA) \in inA /\ \A n \in inA : Least(inA) <= n
  <2> HIDE DEF inA
  <2> QED
    BY <1>15, LeastOf
<1>18. inB # {} => Least(inB) \in inB /\ \A n \in inB : Least(inB) <= n
  <2> HIDE DEF inB
  <2> QED
    BY <1>15, LeastOf
<1>19. ASSUME NEW n \in there, \A m \in there : n <= m
       PROVE  there # {} /\ n = Least(there)
  <2> HIDE DEF there
  <2> QED
    BY <1>16, <1>19, LeastOf
<1>7. /\ Finder!Find(l, high \o Finder!Before(wanted)) =
           IF here \in disk THEN here
           ELSE IF inA = {} THEN Finder!Nowhere ELSE A[Least(inA)]
      /\ Finder!Find(l, low \o Finder!Before(wanted)) =
           IF here \in disk THEN here
           ELSE IF inB = {} THEN Finder!Nowhere ELSE B[Least(inB)]
  BY <1>1, <1>6 DEF A, B
<1>8. Finder!FindSystemConfig(wanted, system) =
        IF Finder!Find(l, high \o Finder!Before(wanted)) # Finder!Nowhere
        THEN Finder!Find(l, high \o Finder!Before(wanted))
        ELSE Finder!Find(l, low \o Finder!Before(wanted))
  BY DEF Finder!FindSystemConfig
<1>9. \A n \in 1 .. N : A[n] # Finder!Nowhere
  <2> SUFFICES ASSUME NEW n \in 1 .. N PROVE A[n] # <<>>
    BY DEF Finder!Nowhere
  <2>1. path[n] \in Paths /\ Len(high) = 2
    BY <1>1
  <2>2. A[n] = path[n] \o high \o wanted
    BY <1>1 DEF A
  <2> QED
    BY <1>1, <2>1, <2>2 DEF Paths
<1>11. CASE here \in disk
  <2>1. 1 \in there /\ \A n \in there : 1 <= n
    BY <1>1, <1>4, <1>11
  <2>2. Least(there) = 1 /\ there # {}
    BY <1>19, <2>1
  <2>3. Finder!FindSystemConfig(wanted, system) = here
    BY <1>3, <1>7, <1>8, <1>11 DEF Finder!Nowhere
  <2> QED
    BY <1>4, <2>2, <2>3
<1>12. CASE here \notin disk /\ inA # {}
  <2> DEFINE a == Least(inA)
  <2>1. a \in inA /\ \A n \in inA : a <= n
    BY <1>12, <1>17
  <2>2. 1 + a \in there
    <3>1. a \in 1 .. N /\ A[a] \in disk
      BY <2>1
    <3>2. 1 + a \in 1 .. 1 + N + N /\ c[1 + a] = A[a]
      BY <1>4, <1>20, <3>1
    <3> QED
      BY <1>4, <3>1, <3>2
  <2>3. ASSUME NEW n \in there PROVE 1 + a <= n
    <3>1. n # 1 /\ n \in 1 .. 1 + N + N
      BY <1>4, <1>12
    <3>2. CASE n <= 1 + N
      <4>1. n - 1 \in 1 .. N /\ n = 1 + (n - 1)
        BY <1>1, <3>1, <3>2
      <4>2. n - 1 \in inA
        BY <1>4, <4>1
      <4>3. a \in Nat /\ a <= n - 1
        BY <1>1, <2>1, <4>2
      <4> QED
        BY <3>1, <4>3
    <3> QED
      BY <1>1, <2>1, <3>1, <3>2
  <2>4. Least(there) = 1 + a /\ there # {}
    BY <1>19, <2>2, <2>3
  <2>5. Finder!FindSystemConfig(wanted, system) = A[a]
    BY <1>7, <1>8, <1>9, <1>12, <2>1
  <2> QED
    BY <1>4, <2>1, <2>4, <2>5
<1>13. CASE here \notin disk /\ inA = {} /\ inB # {}
  <2> DEFINE b == Least(inB)
  <2>1. b \in inB /\ \A n \in inB : b <= n
    BY <1>13, <1>18
  <2>2. 1 + N + b \in there
    <3>1. b \in 1 .. N /\ B[b] \in disk
      BY <2>1
    <3>2. 1 + N + b \in 1 .. 1 + N + N /\ c[1 + N + b] = B[b]
      BY <1>4, <1>20, <3>1
    <3> QED
      BY <1>4, <3>1, <3>2
  <2>3. ASSUME NEW n \in there PROVE 1 + N + b <= n
    <3>1. n # 1 /\ n \in 1 .. 1 + N + N
      BY <1>4, <1>13
    <3>2. ~(n <= 1 + N)
      <4> SUFFICES ASSUME n <= 1 + N PROVE FALSE
        OBVIOUS
      <4>1. n - 1 \in 1 .. N /\ n = 1 + (n - 1)
        BY <1>1, <3>1
      <4> QED
        BY <1>4, <1>13, <4>1
    <3>3. n - 1 - N \in 1 .. N /\ n = 1 + N + (n - 1 - N)
      BY <1>1, <3>1, <3>2
    <3>4. n - 1 - N \in inB
      BY <1>4, <3>3
    <3>5. b \in Nat /\ b <= n - 1 - N
      BY <1>1, <2>1, <3>4
    <3> QED
      BY <1>1, <3>1, <3>5
  <2>4. Least(there) = 1 + N + b /\ there # {}
    BY <1>19, <2>2, <2>3
  <2>5. Finder!FindSystemConfig(wanted, system) = B[b]
    BY <1>7, <1>8, <1>13, <2>1
  <2> QED
    BY <1>4, <2>1, <2>4, <2>5
<1>14. CASE here \notin disk /\ inA = {} /\ inB = {}
  <2>1. ASSUME NEW n \in there PROVE FALSE
    <3>1. n # 1 /\ n \in 1 .. 1 + N + N
      BY <1>4, <1>14
    <3>2. CASE n <= 1 + N
      <4>1. n - 1 \in 1 .. N /\ n = 1 + (n - 1)
        BY <1>1, <3>1, <3>2
      <4> QED
        BY <1>4, <1>14, <4>1
    <3>3. CASE n > 1 + N
      <4>1. n - 1 - N \in 1 .. N /\ n = 1 + N + (n - 1 - N)
        BY <1>1, <3>1, <3>3
      <4>2. PICK m \in 1 .. N : n = 1 + N + m
        BY <4>1
      <4>3. m \in inB
        BY <1>4, <4>2
      <4> QED
        BY <1>14, <4>3
    <3> QED
      BY <1>1, <3>1, <3>2, <3>3
  <2>2. Finder!FindSystemConfig(wanted, system) = Finder!Nowhere
    BY <1>7, <1>8, <1>14
  <2> QED
    BY <2>1, <2>2
<1> QED
  BY <1>11, <1>12, <1>13, <1>14

-----------------------------------------------------------------------------
(* The composition                                                         *)

FinderInv ==
  part = "finder" =>
    /\ FinderKnown
    /\ answer # Finder!Pending => answer = Finder!FindSystemConfig(wanted, system)

LEMMA FinderInvInit == Init => FinderInv
<1> SUFFICES ASSUME Init, part = "finder" PROVE FinderInv
  BY DEF FinderInv
<1>1. Finder!FinderInit
  BY DEF Init
<1>2. wanted \in Files /\ system \in Systems /\ answer = Finder!Pending
  BY <1>1 DEF Finder!FinderInit
<1>3. PICK n \in 0 .. MaxPath : path \in [1 .. n -> {<<d>> : d \in Directories}]
  BY <1>1 DEF Finder!FinderInit
<1>4. \A d \in Directories : <<d>> \in Paths
  BY FinderAssumption DEF Paths
<1>5. {<<d>> : d \in Directories} \subseteq Paths
  BY <1>4
<1>6. n \in Nat
  BY FinderAssumption
<1>7. path \in Seq(Paths)
  BY <1>3, <1>5, <1>6
<1> QED
  BY <1>2, <1>7 DEF FinderInv, FinderKnown

LEMMA FinderInvStep == FinderInv /\ [Next]_allVars => FinderInv'
<1> SUFFICES ASSUME FinderInv, [Next]_allVars, part' = "finder" PROVE FinderInv'
  BY DEF FinderInv
<1>1. ASSUME Finder!Ask, part = "finder" PROVE FinderInv'
  <2>1. /\ path' = path /\ wanted' = wanted /\ system' = system /\ disk' = disk
        /\ answer' = Finder!FindSystemConfig(wanted, system)
    BY <1>1 DEF Finder!Ask
  <2>2. FinderKnown'
    BY <1>1, <2>1 DEF FinderInv, FinderKnown
  <2>3. Finder!FindSystemConfig(wanted, system)' = Finder!FindSystemConfig(wanted, system)
    BY <2>1 DEF Finder!FindSystemConfig, Finder!Find, Finder!Search
  <2> QED
    BY <2>1, <2>2, <2>3 DEF FinderInv
<1>2. CASE UNCHANGED allVars
  <2>1. /\ part' = part /\ path' = path /\ wanted' = wanted /\ system' = system
        /\ disk' = disk /\ answer' = answer
    BY <1>2 DEF allVars, otherVars
  <2>2. FinderKnown'
    BY <2>1 DEF FinderInv, FinderKnown
  <2>3. Finder!FindSystemConfig(wanted, system)' = Finder!FindSystemConfig(wanted, system)
    BY <2>1 DEF Finder!FindSystemConfig, Finder!Find, Finder!Search
  <2> QED
    BY <2>1, <2>2, <2>3 DEF FinderInv
<1>3. ASSUME Next PROVE Finder!Ask /\ part = "finder"
  BY <1>3 DEF Next
<1> QED
  <2>1. Next \/ UNCHANGED allVars
    OBVIOUS
  <2> QED
    BY <1>1, <1>2, <1>3, <2>1

(* For every path and every set of files that exist, findSystemConfig()    *)
(* returns the first place that has the file: in the current directory, and*)
(* not where the documentation looks first, then below BASE/ID, then below *)
(* BASE; or the empty string when no place has it.                         *)
THEOREM FinderKeepsPriority == Spec => []PriorityKept
<1>1. FinderInv => PriorityKept
  BY FindsFirst DEF FinderInv, PriorityKept, Finder!PriorityKept, Least
<1> QED
  BY <1>1, FinderInvInit, FinderInvStep, PTL DEF Spec

-----------------------------------------------------------------------------
(* A description of an option means what the documentation says            *)

(* What a description is made of.                                          *)
Tokens == Words \cup Forms!Types \cup Forms!Separators \cup {"!", "*", "true", Forms!Bar}

(* What no separator is in.                                                *)
Fabric == Words \cup {Forms!Bar}

(* What a sequence begins with.                                            *)
LEMMA Beginning ==
  ASSUME NEW S, NEW a \in Seq(S), NEW b \in Seq(S)
  PROVE  /\ a \o b \in Seq(S)
         /\ a = <<>> => a \o b = b
         /\ a # <<>> => a \o b # <<>> /\ (a \o b)[1] = a[1]
<1>1. a = <<>> => a \o b = b
  BY ConcatEmptySeq
<1>2. ASSUME a # <<>> PROVE a \o b # <<>> /\ (a \o b)[1] = a[1]
  <2>1. Len(a) \in Nat \ {0}
    BY <1>2
  <2>2. 1 \in 1 .. Len(a) /\ Len(a \o b) = Len(a) + Len(b) /\ Len(b) \in Nat
    BY <2>1
  <2>3. (a \o b)[1] = a[1]
    BY <2>2, Appended
  <2>4. Len(a \o b) # 0
    BY <2>1, <2>2
  <2>5. a \o b # <<>>
    BY <2>4
  <2> QED
    BY <2>3, <2>5
<1> QED
  BY <1>1, <1>2

(* Sequences of tokens put together.                                       *)
Joined(x, y) == x \o y
LEMMA JoinedFacts ==
  \A x, y \in Seq(Tokens) :
     /\ Joined(x, y) \in Seq(Tokens) /\ Len(Joined(x, y)) = Len(x) + Len(y)
     /\ x = <<>> => Joined(x, y) = y
     /\ x # <<>> => Joined(x, y) # <<>> /\ Joined(x, y)[1] = x[1]
     /\ y = <<>> => Joined(x, y) = x
<1> SUFFICES ASSUME NEW x \in Seq(Tokens), NEW y \in Seq(Tokens)
             PROVE  /\ x \o y \in Seq(Tokens) /\ Len(x \o y) = Len(x) + Len(y)
                    /\ x = <<>> => x \o y = y
                    /\ x # <<>> => x \o y # <<>> /\ (x \o y)[1] = x[1]
                    /\ y = <<>> => x \o y = x
  BY Zenon DEF Joined
<1>1. x \o y \in Seq(Tokens) /\ Len(x \o y) = Len(x) + Len(y)
  OBVIOUS
<1>2. x = <<>> => x \o y = y
  BY ConcatEmptySeq
<1>3. y = <<>> => x \o y = x
  BY ConcatEmptySeq
<1>4. x # <<>> => x \o y # <<>> /\ (x \o y)[1] = x[1]
  BY Beginning
<1> QED
  BY <1>1, <1>2, <1>3, <1>4

(* One part in front of another.                                           *)
LEMMA JoinedFirst ==
  ASSUME NEW x \in Seq(Tokens), NEW y \in Seq(Tokens), NEW z
  PROVE  z = Joined(x, y) => /\ x = <<>> => z = y
                             /\ y = <<>> => z = x
                             /\ x # <<>> => z # <<>> /\ z[1] = x[1]
<1>1. /\ x = <<>> => Joined(x, y) = y
      /\ y = <<>> => Joined(x, y) = x
      /\ x # <<>> => Joined(x, y) # <<>> /\ Joined(x, y)[1] = x[1]
  BY JoinedFacts
<1> QED
  BY <1>1, Zenon

(* How long two parts together are.                                        *)
LEMMA JoinedLength ==
  \A x, y \in Seq(Tokens) :
     Joined(x, y) \in Seq(Tokens) /\ Len(Joined(x, y)) = Len(x) + Len(y)
  BY JoinedFacts, Zenon

(* Parts may be put together from either end.                              *)
LEMMA JoinedAssociative ==
  \A x, y, z \in Seq(Tokens) :
     Joined(x, y) \in Seq(Tokens) /\ Joined(Joined(x, y), z) = Joined(x, Joined(y, z))
<1> SUFFICES ASSUME NEW x \in Seq(Tokens), NEW y \in Seq(Tokens), NEW z \in Seq(Tokens)
             PROVE  x \o y \in Seq(Tokens) /\ (x \o y) \o z = x \o (y \o z)
  BY Zenon DEF Joined
<1> QED
  OBVIOUS

(* advance() takes what stands between a place and the next separator that *)
(* it looks for.                                                           *)
Free(b, allowed) == \A n \in 1 .. Len(b) : b[n] \notin allowed
Stops(r, allowed) == r # <<>> => r[1] \in allowed
ReadAs(f, b, r, end) ==
  /\ r = <<>> => f = [text |-> b, delim |-> "", at |-> end]
  /\ r # <<>> => f = [text |-> b, delim |-> r[1], at |-> end + 1]

(* advance() returns a text that is free of what it looks for, and stops   *)
(* at what comes behind the text.                                          *)
LEMMA AdvanceTo ==
  ASSUME NEW a \in Seq(Tokens), NEW b \in Seq(Tokens), NEW r \in Seq(Tokens), NEW allowed,
         Free(b, allowed), Stops(r, allowed)
  PROVE  ReadAs(Forms!Advance(Joined(Joined(a, b), r), allowed, Len(a) + 1), b, r, Len(Joined(a, b)))
<1>0. (\A n \in 1 .. Len(b) : b[n] \notin allowed) /\ (r # <<>> => r[1] \in allowed)
  BY DEF Free, Stops
<1>1. PICK c, d : c = a \o b /\ d = c \o r /\ d = Joined(Joined(a, b), r)
  BY Zenon DEF Joined
<1>2. /\ c \in Seq(Tokens) /\ Len(c) = Len(a) + Len(b)
      /\ \A n \in 1 .. Len(a) : c[n] = a[n]
      /\ \A n \in 1 .. Len(b) : c[Len(a) + n] = b[n]
  BY <1>1, Appended
<1>3. c \in Seq(Tokens)
  BY <1>2
<1>4. /\ d \in Seq(Tokens) /\ Len(d) = Len(c) + Len(r)
      /\ \A n \in 1 .. Len(c) : d[n] = c[n]
      /\ \A n \in 1 .. Len(r) : d[Len(c) + n] = r[n]
  <2>1. d = c \o r
    BY <1>1
  <2> QED
    BY <1>3, <2>1, Appended
<1>5. PICK la \in Nat, lb \in Nat, lr \in Nat : la = Len(a) /\ lb = Len(b) /\ lr = Len(r)
  OBVIOUS
<1>6. /\ Len(d) = la + lb + lr
      /\ \A n \in 1 .. lb : d[la + n] = b[n] /\ b[n] \notin allowed
      /\ \A n \in 1 .. lr : d[la + lb + n] = r[n]
      /\ lr = 0 <=> r = <<>>
  <2>1. \A n \in 1 .. lb : la + n \in 1 .. Len(c) /\ c[la + n] = b[n]
    <3>1. Len(c) = la + lb /\ \A n \in 1 .. lb : c[la + n] = b[n]
      BY <1>2, <1>5, Zenon
    <3> QED
      BY <1>5, <3>1
  <2> QED
    BY <1>0, <1>2, <1>4, <1>5, <2>1
<1>7. SubSeq(d, la + 1, la + lb) = b
  <2>1. PICK m \in Int, z \in Int : m = la + 1 /\ z = la + lb
    BY <1>5
  <2>2. \A n \in m .. z : d[n] \in Tokens
    <3>1. \A n \in m .. z : n \in 1 .. Len(d)
      BY <1>5, <1>6, <2>1
    <3> QED
      BY <1>4, <3>1
  <2>3. PICK sub : sub = SubSeq(d, m, z)
    OBVIOUS
  <2>4. /\ sub \in Seq(Tokens) /\ Len(sub) = (IF m <= z THEN z - m + 1 ELSE 0)
        /\ \A n \in 1 .. z - m + 1 : sub[n] = d[m + n - 1]
    BY <2>2, <2>3, SubSeqProperties
  <2>5. Len(sub) = lb /\ z - m + 1 = lb
    BY <1>5, <2>1, <2>4
  <2>6. \A n \in 1 .. lb : sub[n] = d[la + n]
    <3>1. \A n \in 1 .. lb : m + n - 1 = la + n
      BY <1>5, <2>1
    <3> QED
      BY <2>4, <2>5, <3>1
  <2>7. sub = b
    BY <1>5, <1>6, <2>4, <2>5, <2>6, SeqEqual
  <2> QED
    BY <2>1, <2>3, <2>7
<1> DEFINE found == {n \in la + 1 .. Len(d) : d[n] \in allowed}
<1>8. \A n \in found : n \in la + lb + 1 .. Len(d)
  <2> SUFFICES ASSUME NEW n \in la + 1 .. Len(d), n <= la + lb PROVE d[n] \notin allowed
    BY <1>4, <1>5
  <2>1. n - la \in 1 .. lb /\ la + (n - la) = n
    BY <1>5
  <2> QED
    BY <1>6, <2>1
<1>9. Forms!Advance(d, allowed, la + 1) =
        LET stop == CHOOSE n \in found : \A m \in found : n <= m
        IN  IF found = {} THEN [text |-> SubSeq(d, la + 1, Len(d)), delim |-> "", at |-> Len(d)]
            ELSE [text |-> SubSeq(d, la + 1, stop - 1), delim |-> d[stop], at |-> stop]
  BY DEF Forms!Advance
<1>12. Len(Joined(a, b)) = la + lb
  BY <1>5, JoinedLength
<1>10. CASE r = <<>>
  <2>1. Len(d) = la + lb
    BY <1>5, <1>6, <1>10
  <2>2. found = {}
    BY <1>8, <2>1
  <2>3. Forms!Advance(d, allowed, la + 1) =
          [text |-> SubSeq(d, la + 1, la + lb), delim |-> "", at |-> la + lb]
    BY <1>9, <2>1, <2>2, Zenon
  <2> QED
    BY <1>1, <1>5, <1>7, <1>10, <1>12, <2>3, Zenon DEF ReadAs
<1>11. CASE r # <<>>
  <2>1. PICK s \in Nat : s = la + lb + 1
    OBVIOUS
  <2>2. s \in found /\ d[s] = r[1]
    <3>1. 1 \in 1 .. lr
      BY <1>5, <1>6, <1>11
    <3> QED
      BY <1>0, <1>5, <1>6, <1>11, <2>1, <3>1
  <2>3. \A n \in found : s <= n
    BY <1>8, <2>1
  <2>4. found \in SUBSET Nat
    BY <1>4, <1>5
  <2>5. s = CHOOSE n \in found : \A m \in found : n <= m
    <3> HIDE DEF found
    <3> QED
      BY <2>2, <2>3, <2>4, LeastOf DEF Least
  <2>6. s - 1 = la + lb
    BY <2>1
  <2>7. found # {}
    BY <2>2
  <2>8. Forms!Advance(d, allowed, la + 1) = [text |-> SubSeq(d, la + 1, s - 1), delim |-> d[s], at |-> s]
    <3> HIDE DEF found
    <3> QED
      BY <1>9, <2>5, <2>7, Zenon
  <2>9. Forms!Advance(d, allowed, la + 1) = [text |-> b, delim |-> r[1], at |-> la + lb + 1]
    BY <1>7, <2>1, <2>2, <2>6, <2>8, Zenon
  <2> QED
    BY <1>1, <1>5, <1>11, <1>12, <2>9, Zenon DEF ReadAs
<1> QED
  BY <1>10, <1>11, Zenon

(* The same behind the separator that introduces a part.                   *)
LEMMA AdvanceBehind ==
  ASSUME NEW a \in Seq(Tokens), NEW u \in Seq(Tokens), Len(u) = 1, NEW b \in Seq(Tokens),
         NEW r \in Seq(Tokens), NEW allowed, Free(b, allowed), Stops(r, allowed)
  PROVE  ReadAs(Forms!Advance(Joined(Joined(a, Joined(u, b)), r), allowed, Len(a) + 1 + 1), b, r,
                Len(Joined(a, Joined(u, b))))
<1>1. PICK c \in Seq(Tokens) : c = Joined(a, u)
  BY JoinedLength
<1>2. Len(c) = Len(a) + 1
  <2>1. Len(Joined(a, u)) = Len(a) + Len(u)
    BY JoinedLength, Zenon
  <2> QED
    BY <1>1, <2>1
<1>3. Joined(a, Joined(u, b)) = Joined(c, b)
  BY <1>1, JoinedAssociative
<1>4. ReadAs(Forms!Advance(Joined(Joined(c, b), r), allowed, Len(c) + 1), b, r, Len(Joined(c, b)))
  BY AdvanceTo
<1> QED
  BY <1>2, <1>3, <1>4

(* A part that is there stands behind its separator.                       *)
LEMMA ThenOf ==
  ASSUME NEW S, NEW sign \in S, NEW piece,
         piece # Forms!Absent => piece \in Seq(S)
  PROVE  /\ Forms!Then(sign, piece) \in Seq(S)
         /\ piece = Forms!Absent => Forms!Then(sign, piece) = <<>>
         /\ piece # Forms!Absent => /\ Forms!Then(sign, piece) = <<sign>> \o piece
                                    /\ Forms!Then(sign, piece) # <<>>
                                    /\ Forms!Then(sign, piece)[1] = sign
<1>1. CASE piece = Forms!Absent
  <2>1. Forms!Then(sign, piece) = <<>>
    BY <1>1 DEF Forms!Then
  <2> QED
    BY <1>1, <2>1
<1>2. CASE piece # Forms!Absent
  <2>1. Forms!Then(sign, piece) = <<sign>> \o piece
    BY <1>2 DEF Forms!Then
  <2>2. <<sign>> \in Seq(S) /\ <<sign>> # <<>> /\ <<sign>>[1] = sign
    OBVIOUS
  <2>3. piece \in Seq(S)
    BY <1>2
  <2> QED
    BY <1>2, <2>1, <2>2, <2>3, Beginning
<1> QED
  BY <1>1, <1>2

(* What the parts of a description are.                                    *)
Shaped(p) ==
  /\ p.required \in BOOLEAN /\ p.multiple \in BOOLEAN /\ p.sign \in {"=", "?"}
  /\ p.key \in Seq(Fabric) /\ p.long \in Seq(Fabric)
  /\ p.short # Forms!Absent => p.short \in Seq(Fabric)
  /\ p.type # Forms!Absent => p.type \in Seq(Fabric \cup Forms!Types)
  /\ p.default # Forms!Absent => p.default \in Seq(Fabric \cup {"true"})
  /\ p.help # Forms!Absent => p.help \in Seq(Tokens)

(* The help text of a description is a sequence.                           *)
LEMMA Triple ==
  ASSUME NEW S, NEW x \in S, NEW y \in S
  PROVE  <<>> \in Seq(S) /\ <<x, y, x>> \in Seq(S)
  OBVIOUS

(* The fields of a description, one by one.                                *)
LEMMA PartsFields ==
  ASSUME NEW w, NEW c, NEW n, NEW p \in Forms!Parts(w, c, n)
  PROVE  /\ p.required \in BOOLEAN
         /\ p.multiple \in BOOLEAN
         /\ p.sign \in {"=", "?"}
         /\ p.key \in {<<>>, <<w>>}
         /\ p.long \in {<<>>, <<w>>, Forms!Barred(w, w)}
         /\ p.short \in {Forms!Absent, <<>>, <<c>>, <<w>>, Forms!Barred(c, w)}
         /\ p.type \in {Forms!Absent, <<>>, <<w>>, Forms!Barred("int", w)} \cup {<<t>> : t \in Forms!Types}
         /\ p.default \in Forms!Some(w) \cup {<<n>>, <<"true">>, Forms!Barred(n, w)}
         /\ p.help \in {Forms!Absent, <<>>, <<w, ",", w>>}
<1>1. p.required \in BOOLEAN
  BY Zenon DEF Forms!Parts
<1>2. p.multiple \in BOOLEAN
  BY Zenon DEF Forms!Parts
<1>3. p.sign \in {"=", "?"}
  BY Zenon DEF Forms!Parts
<1>4. p.key \in {<<>>, <<w>>}
  BY Zenon DEF Forms!Parts
<1>5. p.long \in {<<>>, <<w>>, Forms!Barred(w, w)}
  BY Zenon DEF Forms!Parts
<1>6. p.short \in {Forms!Absent, <<>>, <<c>>, <<w>>, Forms!Barred(c, w)}
  BY Zenon DEF Forms!Parts
<1>7. p.type \in {Forms!Absent, <<>>, <<w>>, Forms!Barred("int", w)} \cup {<<t>> : t \in Forms!Types}
  BY Zenon DEF Forms!Parts
<1>8. p.default \in Forms!Some(w) \cup {<<n>>, <<"true">>, Forms!Barred(n, w)}
  BY Zenon DEF Forms!Parts
<1>9. p.help \in {Forms!Absent, <<>>, <<w, ",", w>>}
  BY Zenon DEF Forms!Parts
<1> QED
  BY <1>1, <1>2, <1>3, <1>4, <1>5, <1>6, <1>7, <1>8, <1>9, Zenon

(* Every part of a description is a sequence of words.                     *)
LEMMA PartsShaped ==
  ASSUME NEW w \in Words, NEW c \in Letters, NEW n \in Numbers, NEW p \in Forms!Parts(w, c, n)
  PROVE  Shaped(p)
<1>1. c \in Fabric /\ n \in Fabric /\ w \in Fabric
  BY WordAssumption DEF Fabric
<1>b. /\ Forms!Barred(w, w) \in Seq(Fabric) /\ Forms!Barred(c, w) \in Seq(Fabric)
      /\ Forms!Barred("int", w) \in Seq(Fabric \cup Forms!Types)
      /\ Forms!Barred(n, w) \in Seq(Fabric \cup {"true"})
  <2>1. Forms!Bar \in Fabric /\ "int" \in Forms!Types
    BY DEF Fabric, Forms!Types
  <2>2. ASSUME NEW S, NEW x \in S, NEW y \in S, NEW z \in S
        PROVE  <<x, y, z>> \in Seq(S)
    OBVIOUS
  <2> QED
    BY <1>1, <2>1, <2>2, Zenon DEF Forms!Barred
<1>2. /\ p.required \in BOOLEAN
      /\ p.multiple \in BOOLEAN
      /\ p.sign \in {"=", "?"}
      /\ p.key \in {<<>>, <<w>>}
      /\ p.long \in {<<>>, <<w>>, Forms!Barred(w, w)}
      /\ p.short \in {Forms!Absent, <<>>, <<c>>, <<w>>, Forms!Barred(c, w)}
      /\ p.type \in {Forms!Absent, <<>>, <<w>>, Forms!Barred("int", w)} \cup {<<t>> : t \in Forms!Types}
      /\ p.default \in Forms!Some(w) \cup {<<n>>, <<"true">>, Forms!Barred(n, w)}
      /\ p.help \in {Forms!Absent, <<>>, <<w, ",", w>>}
  BY PartsFields, Zenon
<1>3. <<>> \in Seq(Fabric) /\ <<w>> \in Seq(Fabric) /\ <<c>> \in Seq(Fabric)
  BY <1>1
<1>4. ASSUME NEW x \in {Forms!Absent, <<>>, <<w>>, Forms!Barred("int", w)} \cup {<<t>> : t \in Forms!Types}, x # Forms!Absent
      PROVE  x \in Seq(Fabric \cup Forms!Types)
  <2>1. \A t \in Forms!Types : <<t>> \in Seq(Fabric \cup Forms!Types)
    OBVIOUS
  <2>2. <<>> \in Seq(Fabric \cup Forms!Types) /\ <<w>> \in Seq(Fabric \cup Forms!Types)
    BY <1>1
  <2> QED
    BY <1>4, <1>b, <2>1, <2>2, Zenon
<1>5. ASSUME NEW x \in Forms!Some(w) \cup {<<n>>, <<"true">>, Forms!Barred(n, w)}, x # Forms!Absent
      PROVE  x \in Seq(Fabric \cup {"true"})
  <2>1. <<n>> \in Seq(Fabric \cup {"true"}) /\ <<"true">> \in Seq(Fabric \cup {"true"})
    BY <1>1
  <2>2. <<>> \in Seq(Fabric \cup {"true"}) /\ <<w>> \in Seq(Fabric \cup {"true"})
    BY <1>1
  <2> QED
    BY <1>5, <1>b, <2>1, <2>2, Zenon DEF Forms!Some
<1>6. ASSUME NEW x \in {Forms!Absent, <<>>, <<w, ",", w>>}, x # Forms!Absent
      PROVE  x \in Seq(Tokens)
  <2>1. w \in Tokens /\ "," \in Tokens
    BY DEF Tokens, Forms!Separators
  <2>2. PICK u \in Tokens : u = ","
    BY <2>1
  <2>4. w \in Tokens
    BY <2>1
  <2>3. <<>> \in Seq(Tokens) /\ <<w, u, w>> \in Seq(Tokens)
    BY <2>4, Triple
  <2> QED
    BY <1>6, <2>2, <2>3, Zenon
<1> QED
  <2>1. p.key \in Seq(Fabric) /\ p.long \in Seq(Fabric) /\ (p.short # Forms!Absent => p.short \in Seq(Fabric))
    BY <1>2, <1>3, <1>b, Zenon
  <2>2. p.type # Forms!Absent => p.type \in Seq(Fabric \cup Forms!Types)
    <3>1. p.type \in {Forms!Absent, <<>>, <<w>>, Forms!Barred("int", w)} \cup {<<t>> : t \in Forms!Types}
      BY <1>2, Zenon
    <3> QED
      BY <1>4, <3>1, Zenon
  <2>3. p.default # Forms!Absent => p.default \in Seq(Fabric \cup {"true"})
    BY <1>2, <1>5, Zenon
  <2>4. p.help # Forms!Absent => p.help \in Seq(Tokens)
    BY <1>2, <1>6, Zenon
  <2>5. p.required \in BOOLEAN /\ p.multiple \in BOOLEAN /\ p.sign \in {"=", "?"}
    BY <1>2, Zenon
  <2> QED
    BY <2>1, <2>2, <2>3, <2>4, <2>5, Zenon DEF Shaped

(* The flags in front of the key.                                          *)
LEMMA FlagsOf ==
  ASSUME NEW d
  PROVE  /\ Forms!Flags(d).required = (Len(d) > 0 /\ d[1] = "!")
         /\ (Len(d) > 0 /\ d[1] = "!") =>
              /\ Forms!Flags(d).multiple = (Len(d) >= 2 /\ d[2] = "*")
              /\ (Len(d) >= 2 /\ d[2] = "*") => Forms!Flags(d).at = 2 + 1
              /\ ~(Len(d) >= 2 /\ d[2] = "*") => Forms!Flags(d).at = 2
         /\ ~(Len(d) > 0 /\ d[1] = "!") =>
              /\ Forms!Flags(d).multiple = (Len(d) >= 1 /\ d[1] = "*")
              /\ (Len(d) >= 1 /\ d[1] = "*") => Forms!Flags(d).at = 1 + 1
              /\ ~(Len(d) >= 1 /\ d[1] = "*") => Forms!Flags(d).at = 1
<1> DEFINE q == Len(d) > 0 /\ d[1] = "!"
           c == IF q THEN 2 ELSE 1
           m == Len(d) >= c /\ d[c] = "*"
<1>1. Forms!Flags(d) = [required |-> q, multiple |-> m, at |-> IF m THEN c + 1 ELSE c]
  BY Zenon DEF Forms!Flags
<1>2. /\ Forms!Flags(d).required = q /\ Forms!Flags(d).multiple = m
      /\ Forms!Flags(d).at = IF m THEN c + 1 ELSE c
  <2> DEFINE at == IF m THEN c + 1 ELSE c
  <2>1. Forms!Flags(d) = [required |-> q, multiple |-> m, at |-> at]
    BY <1>1
  <2> HIDE DEF q, c, m, at
  <2>2. Forms!Flags(d).required = q
    BY <2>1
  <2>3. Forms!Flags(d).multiple = m
    BY <2>1
  <2>4. Forms!Flags(d).at = at
    BY <2>1
  <2> QED
    BY <2>2, <2>3, <2>4 DEF at
<1>3. q => c = 2
  BY Zenon
<1>4. ~q => c = 1
  BY Zenon
<1>5. (m => Forms!Flags(d).at = c + 1) /\ (~m => Forms!Flags(d).at = c)
  <2> HIDE DEF m, c
  <2> QED
    BY <1>2, Zenon
<1>6. m = (Len(d) >= c /\ d[c] = "*")
  BY Zenon
<1> HIDE DEF q, c, m
<1>7. ASSUME q
      PROVE  /\ Forms!Flags(d).multiple = (Len(d) >= 2 /\ d[2] = "*")
             /\ (Len(d) >= 2 /\ d[2] = "*") => Forms!Flags(d).at = 2 + 1
             /\ ~(Len(d) >= 2 /\ d[2] = "*") => Forms!Flags(d).at = 2
  BY <1>2, <1>3, <1>5, <1>6, <1>7, Zenon
<1>8. ASSUME ~q
      PROVE  /\ Forms!Flags(d).multiple = (Len(d) >= 1 /\ d[1] = "*")
             /\ (Len(d) >= 1 /\ d[1] = "*") => Forms!Flags(d).at = 1 + 1
             /\ ~(Len(d) >= 1 /\ d[1] = "*") => Forms!Flags(d).at = 1
  BY <1>2, <1>4, <1>5, <1>6, <1>8, Zenon
<1> QED
  BY <1>2, <1>7, <1>8, Zenon DEF q

(* The flags as tokens.                                                    *)
FlagTokens(required, multiple) ==
  (IF required THEN <<"!">> ELSE <<>>) \o (IF multiple THEN <<"*">> ELSE <<>>)

(* Two flags are two tokens.                                               *)
LEMMA Both ==
  ASSUME NEW S, NEW x \in S, NEW y \in S
  PROVE  <<x>> \o <<y>> = <<x, y>>
<1>1. PICK a, b : a = <<x>> /\ b = <<x, y>>
  OBVIOUS
<1>2. /\ a \in Seq(S) /\ <<y>> \in Seq(S) /\ b \in Seq(S)
      /\ Len(a) = 1 /\ Len(b) = 2 /\ b[1] = x /\ b[2] = y /\ a[1] = x
  BY <1>1
<1>3. PICK c : c = a \o <<y>>
  OBVIOUS
<1>4. c \in Seq(S) /\ Len(c) = 2 /\ c[1] = x /\ c[2] = y
  BY <1>2, <1>3
<1>5. \A n \in 1 .. 2 : b[n] = c[n]
  BY <1>2, <1>4
<1>6. b = c
  BY <1>2, <1>4, <1>5, SeqEqual
<1> QED
  BY <1>1, <1>3, <1>6

(* The flags are read off the front of a description.                      *)
LEMMA FlagsRead ==
  ASSUME NEW required \in BOOLEAN, NEW multiple \in BOOLEAN,
         NEW rest \in Seq(Tokens), rest # <<>>, rest[1] \notin {"!", "*"}
  PROVE  LET F == FlagTokens(required, multiple)
             flags == Forms!Flags(F \o rest)
         IN  /\ F \in Seq(Tokens)
             /\ flags.required = required /\ flags.multiple = multiple
             /\ flags.at = Len(F) + 1
<1>1. PICK d : d = FlagTokens(required, multiple) \o rest
  OBVIOUS
<1>2. PICK x \in Tokens, y \in Tokens : x = "!" /\ y = "*"
  BY DEF Tokens
<1>3. Len(rest) \in Nat \ {0}
  OBVIOUS
<1>4. CASE required /\ multiple
  <2>0. FlagTokens(required, multiple) = <<x>> \o <<y>>
    BY <1>2, <1>4, Zenon DEF FlagTokens
  <2>1. FlagTokens(required, multiple) = <<x, y>>
    BY <2>0, Both
  <2>2. d = <<x, y>> \o rest /\ <<x, y>> \in Seq(Tokens) /\ Len(<<x, y>>) = 2
    BY <1>1, <2>1
  <2>3. Len(d) >= 2 /\ d[1] = x /\ d[2] = y
    BY <1>3, <2>2
  <2>4. Len(d) > 0
    BY <2>2, <2>3
  <2>5. Forms!Flags(d).required = TRUE /\ Forms!Flags(d).multiple = TRUE /\ Forms!Flags(d).at = 2 + 1
    BY <1>2, <2>3, <2>4, FlagsOf, Zenon
  <2> QED
    BY <1>1, <1>4, <2>1, <2>2, <2>5, Zenon
<1>5. CASE required /\ ~multiple
  <2>1. FlagTokens(required, multiple) = <<x>>
    BY <1>2, <1>5 DEF FlagTokens
  <2>2. d = <<x>> \o rest /\ <<x>> \in Seq(Tokens) /\ Len(<<x>>) = 1
    BY <1>1, <2>1
  <2>3. Len(d) >= 2 /\ d[1] = x /\ d[2] = rest[1]
    BY <1>3, <2>2
  <2>4. Len(d) > 0 /\ d[2] # "*"
    BY <2>2, <2>3
  <2>5. Forms!Flags(d).required = TRUE /\ Forms!Flags(d).multiple = FALSE /\ Forms!Flags(d).at = 2
    BY <1>2, <2>3, <2>4, FlagsOf, Zenon
  <2>6. 2 = 1 + 1
    OBVIOUS
  <2> QED
    BY <1>1, <1>5, <2>1, <2>2, <2>5, <2>6, Zenon
<1>6. CASE ~required /\ multiple
  <2>1. FlagTokens(required, multiple) = <<y>>
    BY <1>2, <1>6 DEF FlagTokens
  <2>2. d = <<y>> \o rest /\ <<y>> \in Seq(Tokens) /\ Len(<<y>>) = 1
    BY <1>1, <2>1
  <2>3. Len(d) >= 1 /\ d[1] = y
    BY <1>3, <2>2
  <2>4. Len(d) > 0 /\ d[1] # "!" /\ d[1] = "*"
    BY <1>2, <2>2, <2>3
  <2>5. Forms!Flags(d).required = FALSE /\ Forms!Flags(d).multiple = TRUE /\ Forms!Flags(d).at = 1 + 1
    BY <2>3, <2>4, FlagsOf, Zenon
  <2> QED
    BY <1>1, <1>6, <2>1, <2>2, <2>5, Zenon
<1>7. CASE ~required /\ ~multiple
  <2>1. FlagTokens(required, multiple) = <<>>
    BY <1>7 DEF FlagTokens
  <2>2. d = rest /\ <<>> \in Seq(Tokens) /\ Len(<<>>) = 0
    BY <1>1, <2>1, ConcatEmptySeq
  <2>3. d[1] # "!" /\ d[1] # "*"
    BY <2>2
  <2>5. Forms!Flags(d).required = FALSE /\ Forms!Flags(d).multiple = FALSE /\ Forms!Flags(d).at = 1
    BY <2>3, FlagsOf, Zenon
  <2>6. 1 = 0 + 1
    OBVIOUS
  <2> QED
    BY <1>1, <1>7, <2>1, <2>2, <2>5, <2>6, Zenon
<1> QED
  BY <1>4, <1>5, <1>6, <1>7

(* No separator is inside a part.                                          *)
LEMMA WordsAreTokens ==
  /\ \A s \in Seq(Fabric) : s \in Seq(Tokens) /\ \A n \in 1 .. Len(s) : s[n] \in Fabric
  /\ \A s \in Seq(Fabric \cup Forms!Types) :
        s \in Seq(Tokens) /\ \A n \in 1 .. Len(s) : s[n] \in Fabric \cup Forms!Types
  /\ \A s \in Seq(Fabric \cup {"true"}) :
        s \in Seq(Tokens) /\ \A n \in 1 .. Len(s) : s[n] \in Fabric \cup {"true"}
<1>1. Fabric \subseteq Tokens /\ Fabric \cup Forms!Types \subseteq Tokens /\ Fabric \cup {"true"} \subseteq Tokens
  BY DEF Tokens, Fabric
<1>2. ASSUME NEW S, S \subseteq Tokens, NEW s \in Seq(S)
      PROVE  s \in Seq(Tokens) /\ \A n \in 1 .. Len(s) : s[n] \in S
  BY <1>2
<1> QED
  BY <1>1, <1>2

(* No word is a separator or a flag.                                       *)
LEMMA NoSeparator ==
  /\ \A x \in Fabric : x \notin {":", ",", "=", "?", "!", "*"}
  /\ \A x \in Forms!Types : x \notin {":", ",", "=", "?", "!", "*"}
  /\ "true" # ":"
<1>1. \A x \in Fabric : x \notin {":", ",", "=", "?", "!", "*"}
  BY WordAssumption DEF Separators, Fabric, Forms!Bar
<1>2. \A x \in Forms!Types : x \notin {":", ",", "=", "?", "!", "*"}
  BY DEF Forms!Types
<1> QED
  BY <1>1, <1>2

(* The stages of the scanner, one after another.                           *)
Begun(d, required, multiple, key, F, P, r2) ==
  /\ F = FlagTokens(required, multiple) /\ P = <<":">>
  /\ d = Joined(F, Joined(key, Joined(P, r2))) /\ d = Joined(Joined(F, key), Joined(P, r2))
KeyFound(d, required, multiple, key, end) ==
  /\ Forms!Flags(d).required = required /\ Forms!Flags(d).multiple = multiple
  /\ Forms!Key(d).text = key /\ Forms!Key(d).delim = ":" /\ Forms!Key(d).at = end

(* The key is what stands between the flags and the first colon.           *)
LEMMA KeyRead ==
  ASSUME NEW required \in BOOLEAN, NEW multiple \in BOOLEAN, NEW K \in Seq(Fabric),
         NEW r2 \in Seq(Tokens), NEW d, NEW F \in Seq(Tokens), NEW P,
         Begun(d, required, multiple, K, F, P, r2)
  PROVE  KeyFound(d, required, multiple, K, Len(Joined(Joined(F, K), P)))
<1>0. /\ F = FlagTokens(required, multiple) /\ P = <<":">>
      /\ d = Joined(F, Joined(K, Joined(P, r2))) /\ d = Joined(Joined(F, K), Joined(P, r2))
  BY DEF Begun
<1>1. K \in Seq(Tokens) /\ \A n \in 1 .. Len(K) : K[n] \in Fabric
  BY WordsAreTokens
<1>3. PICK u \in Tokens : u = ":"
  BY DEF Tokens, Forms!Separators
<1>4. P \in Seq(Tokens) /\ P # <<>> /\ P[1] = u /\ Len(P) = 1
  BY <1>0, <1>3
<1>5. PICK r1 \in Seq(Tokens) : r1 = Joined(P, r2) /\ r1 # <<>> /\ r1[1] = u
  BY <1>4, JoinedFacts
<1>6. PICK rest \in Seq(Tokens) : rest = Joined(K, r1)
  BY <1>1, JoinedFacts
<1>8. rest # <<>> /\ rest[1] \notin {"!", "*"}
  <2>1. CASE K = <<>>
    <3>1. rest = r1
      BY <1>1, <1>6, <2>1, JoinedFacts
    <3>2. u \notin {"!", "*"}
      BY <1>3
    <3> QED
      BY <1>5, <3>1, <3>2, Zenon
  <2>2. CASE K # <<>>
    <3>1. rest # <<>> /\ rest[1] = K[1]
      BY <1>1, <1>6, <2>2, JoinedFacts
    <3>2. K[1] \in Fabric
      BY <2>2
    <3> QED
      BY <3>1, <3>2, NoSeparator, Zenon
  <2> QED
    BY <2>1, <2>2
<1>9. /\ Forms!Flags(d).required = required /\ Forms!Flags(d).multiple = multiple
      /\ Forms!Flags(d).at = Len(F) + 1
  <2>1. d = Joined(F, rest)
    BY <1>0, <1>5, <1>6, Zenon
  <2>2. PICK e : e = FlagTokens(required, multiple) \o rest
    OBVIOUS
  <2>3. /\ Forms!Flags(e).required = required /\ Forms!Flags(e).multiple = multiple
        /\ Forms!Flags(e).at = Len(FlagTokens(required, multiple)) + 1
    BY <1>8, <2>2, FlagsRead, ZenonT(30)
  <2>4. e = d
    BY <1>0, <2>1, <2>2, Zenon DEF Joined
  <2> QED
    BY <1>0, <2>3, <2>4, Zenon
<1>10. PICK T \in Seq(Tokens) : T = K
  BY <1>1
<1>13. ReadAs(Forms!Advance(Joined(Joined(F, T), r1), {u}, Len(F) + 1), T, r1, Len(Joined(F, T)))
  <2>1. PICK allowed : allowed = {u}
    OBVIOUS
  <2>2. Free(T, allowed)
    BY <1>1, <1>3, <1>10, <2>1, NoSeparator DEF Free
  <2>3. Stops(r1, allowed)
    BY <1>5, <2>1 DEF Stops
  <2>4. ReadAs(Forms!Advance(Joined(Joined(F, T), r1), allowed, Len(F) + 1), T, r1, Len(Joined(F, T)))
    BY <2>2, <2>3, AdvanceTo
  <2> QED
    BY <2>1, <2>4, Zenon
<1>14. Forms!Key(d) = [text |-> K, delim |-> r1[1], at |-> Len(Joined(F, K)) + 1]
  <2>1. Forms!Key(d) = Forms!Advance(Joined(Joined(F, T), r1), {u}, Len(F) + 1)
    BY <1>0, <1>3, <1>5, <1>9, <1>10, Zenon DEF Forms!Key
  <2> QED
    BY <1>5, <1>10, <1>13, <2>1, Zenon DEF ReadAs
<1>15. Len(Joined(Joined(F, T), P)) = Len(Joined(F, T)) + 1
  <2>1. Joined(F, T) \in Seq(Tokens)
    BY JoinedLength, Zenon
  <2>2. Len(Joined(Joined(F, T), P)) = Len(Joined(F, T)) + Len(P)
    BY <1>4, <2>1, JoinedLength, Zenon
  <2> QED
    BY <1>4, <2>2
<1>16. Forms!Key(d).text = K /\ Forms!Key(d).delim = r1[1] /\ Forms!Key(d).at = Len(Joined(F, K)) + 1
  BY <1>14
<1> QED
  BY <1>3, <1>5, <1>9, <1>10, <1>15, <1>16, Zenon DEF KeyFound

(* No part holds a token that ends it.                                     *)
LEMMA PiecesFree ==
  ASSUME NEW X, X \subseteq {":", ",", "=", "?"}
  PROVE  /\ \A s \in Seq(Fabric) : s \in Seq(Tokens) /\ Free(s, X)
         /\ \A s \in Seq(Fabric \cup Forms!Types) : s \in Seq(Tokens) /\ Free(s, X)
         /\ X = {":"} => \A s \in Seq(Fabric \cup {"true"}) : s \in Seq(Tokens) /\ Free(s, X)
<1>1. \A x \in Fabric : x \notin X
  BY NoSeparator, Zenon
<1>2. \A x \in Forms!Types : x \notin X
  BY NoSeparator, Zenon
<1>3. ASSUME NEW s \in Seq(Fabric)
      PROVE  s \in Seq(Tokens) /\ Free(s, X)
  BY <1>1, WordsAreTokens, Zenon DEF Free
<1>4. ASSUME NEW s \in Seq(Fabric \cup Forms!Types)
      PROVE  s \in Seq(Tokens) /\ Free(s, X)
  BY <1>1, <1>2, WordsAreTokens, Zenon DEF Free
<1>5. ASSUME X = {":"}, NEW s \in Seq(Fabric \cup {"true"})
      PROVE  s \in Seq(Tokens) /\ Free(s, X)
  <2>1. "true" \notin X
    BY <1>5, NoSeparator
  <2> QED
    BY <1>1, <1>5, <2>1, WordsAreTokens, Zenon DEF Free
<1> QED
  BY <1>3, <1>4, <1>5

(* The fields of what advance() returns.                                   *)
LEMMA ReadFields ==
  ASSUME NEW f, NEW b, NEW r, NEW e, ReadAs(f, b, r, e)
  PROVE  /\ f.text = b
         /\ r = <<>> => f.delim = ""
         /\ r # <<>> => f.delim = r[1] /\ f.at = e + 1
<1>1. CASE r = <<>>
  <2>1. f = [text |-> b, delim |-> "", at |-> e]
    BY <1>1, Zenon DEF ReadAs
  <2>2. f.text = b /\ f.delim = ""
    BY <2>1
  <2> QED
    BY <1>1, <2>2, Zenon
<1>2. CASE r # <<>>
  <2>1. f = [text |-> b, delim |-> r[1], at |-> e + 1]
    BY <1>2, Zenon DEF ReadAs
  <2>2. f.text = b /\ f.delim = r[1] /\ f.at = e + 1
    BY <2>1
  <2> QED
    BY <1>2, <2>2, Zenon
<1> QED
  BY <1>1, <1>2, Zenon

(* A record of advance() with another text.                                *)
LEMMA WithText ==
  ASSUME NEW f, NEW b, NEW c, NEW e, NEW t, f = [text |-> b, delim |-> c, at |-> e]
  PROVE  [f EXCEPT !.text = t] = [text |-> t, delim |-> c, at |-> e]
  OBVIOUS

(* The stage of a part that is left out reads no text.                     *)
LEMMA ReadNoText ==
  ASSUME NEW f, NEW b, NEW r, NEW e, ReadAs(f, b, r, e)
  PROVE  ReadAs([f EXCEPT !.text = <<>>], <<>>, r, e)
<1>1. CASE r = <<>>
  <2>1. PICK c : c = ""
    OBVIOUS
  <2>2. f = [text |-> b, delim |-> c, at |-> e]
    BY <1>1, <2>1, Zenon DEF ReadAs
  <2>3. [f EXCEPT !.text = <<>>] = [text |-> <<>>, delim |-> c, at |-> e]
    BY <2>2, WithText
  <2> QED
    BY <1>1, <2>1, <2>3, Zenon DEF ReadAs
<1>2. CASE r # <<>>
  <2>1. f = [text |-> b, delim |-> r[1], at |-> e + 1]
    BY <1>2, Zenon DEF ReadAs
  <2>2. [f EXCEPT !.text = <<>>] = [text |-> <<>>, delim |-> r[1], at |-> e + 1]
    BY <2>1
  <2> QED
    BY <1>2, <2>2, Zenon DEF ReadAs
<1> QED
  BY <1>1, <1>2, Zenon

(* The long name is read up to what comes behind it.                       *)
LEMMA LongRead ==
  ASSUME NEW d, NEW L \in Seq(Fabric), NEW a2 \in Seq(Tokens), NEW r3 \in Seq(Tokens),
         Stops(r3, {",", "=", "?", ":"}), Forms!Key(d).at = Len(a2)
  PROVE  d = Joined(Joined(a2, L), r3) => ReadAs(Forms!Long(d), L, r3, Len(Joined(a2, L)))
<1>1. PICK allowed : allowed = {",", "=", "?", ":"}
  OBVIOUS
<1>2. L \in Seq(Tokens) /\ Free(L, allowed) /\ Stops(r3, allowed)
  BY <1>1, PiecesFree
<1>3. PICK T \in Seq(Tokens) : T = L
  BY <1>2
<1>4. Free(T, allowed) /\ Stops(r3, allowed)
  BY <1>2, <1>3
<1>5. ReadAs(Forms!Advance(Joined(Joined(a2, T), r3), allowed, Len(a2) + 1), T, r3, Len(Joined(a2, T)))
  BY <1>4, AdvanceTo
<1> QED
  BY <1>1, <1>3, <1>5, Zenon DEF Forms!Long

(* A short name that is there is read,                                     *)
LEMMA ShortGiven ==
  ASSUME NEW d, NEW short \in Seq(Fabric), NEW a3 \in Seq(Tokens), NEW r4 \in Seq(Tokens),
         NEW L, NEW r3, ReadAs(Forms!Long(d), L, r3, Len(a3)), r3 # <<>>, r3[1] = ",",
         Stops(r4, {"=", "?", ":"}), NEW u \in Seq(Tokens), Len(u) = 1
  PROVE  d = Joined(Joined(a3, Joined(u, short)), r4) =>
           Forms!Long(d).delim = "," /\ ReadAs(Forms!Short(d), short, r4, Len(Joined(a3, Joined(u, short))))
<1>1. PICK allowed : allowed = {"=", "?", ":"}
  OBVIOUS
<1>2. short \in Seq(Tokens) /\ Free(short, allowed) /\ Stops(r4, allowed)
  BY <1>1, PiecesFree
<1>3. PICK T \in Seq(Tokens) : T = short
  BY <1>2
<1>4. Free(T, allowed) /\ Stops(r4, allowed)
  BY <1>2, <1>3
<1>5. ReadAs(Forms!Advance(Joined(Joined(a3, Joined(u, T)), r4), allowed, Len(a3) + 1 + 1), T, r4,
             Len(Joined(a3, Joined(u, T))))
  BY <1>4, AdvanceBehind
<1>6. Forms!Long(d).delim = "," /\ Forms!Long(d).at = Len(a3) + 1
  BY ReadFields
<1>7. Forms!Short(d) = Forms!Advance(d, allowed, Len(a3) + 1 + 1)
  BY <1>1, <1>6, Zenon DEF Forms!Short
<1> QED
  BY <1>3, <1>5, <1>6, <1>7, Zenon

(* and one that is left out is not.                                        *)
LEMMA ShortLeft ==
  ASSUME NEW d, NEW L, NEW r3, NEW e, ReadAs(Forms!Long(d), L, r3, e), Stops(r3, {"=", "?", ":"})
  PROVE  Forms!Long(d).delim # "," /\ ReadAs(Forms!Short(d), <<>>, r3, e)
<1>1. Forms!Long(d).delim # ","
  <2>1. CASE r3 = <<>>
    <3>1. Forms!Long(d).delim = ""
      BY <2>1, ReadFields, Zenon
    <3> QED
      BY <3>1
  <2>2. CASE r3 # <<>>
    <3>1. Forms!Long(d).delim = r3[1]
      BY <2>2, ReadFields, Zenon
    <3>2. r3[1] \in {"=", "?", ":"}
      BY <2>2 DEF Stops
    <3> QED
      BY <3>1, <3>2
  <2> QED
    BY <2>1, <2>2
<1>2. Forms!Short(d) = [Forms!Long(d) EXCEPT !.text = <<>>]
  BY <1>1, Zenon DEF Forms!Short
<1>3. ReadAs([Forms!Long(d) EXCEPT !.text = <<>>], <<>>, r3, e)
  BY ReadNoText
<1> QED
  BY <1>1, <1>2, <1>3, Zenon

(* The type of an argument that is there is read,                          *)
LEMMA ArgumentGiven ==
  ASSUME NEW d, NEW type \in Seq(Fabric \cup Forms!Types), NEW a4 \in Seq(Tokens), NEW r5 \in Seq(Tokens),
         NEW s, NEW r4, ReadAs(Forms!Short(d), s, r4, Len(a4)), r4 # <<>>, NEW sign \in {"=", "?"},
         r4[1] = sign, Stops(r5, {",", ":"}), NEW u \in Seq(Tokens), Len(u) = 1
  PROVE  d = Joined(Joined(a4, Joined(u, type)), r5) =>
           /\ Forms!HasArgument(d) /\ (Forms!Optional(d) <=> sign = "?")
           /\ ReadAs(Forms!Argument(d), type, r5, Len(Joined(a4, Joined(u, type))))
<1>1. PICK allowed : allowed = {",", ":"}
  OBVIOUS
<1>2. type \in Seq(Tokens) /\ Free(type, allowed) /\ Stops(r5, allowed)
  BY <1>1, PiecesFree
<1>3. PICK T \in Seq(Tokens) : T = type
  BY <1>2
<1>4. Free(T, allowed) /\ Stops(r5, allowed)
  BY <1>2, <1>3
<1>5. ReadAs(Forms!Advance(Joined(Joined(a4, Joined(u, T)), r5), allowed, Len(a4) + 1 + 1), T, r5,
             Len(Joined(a4, Joined(u, T))))
  BY <1>4, AdvanceBehind
<1>6. Forms!Short(d).delim = sign /\ Forms!Short(d).at = Len(a4) + 1
  BY ReadFields
<1>7. Forms!Argument(d) = Forms!Advance(d, allowed, Len(a4) + 1 + 1)
  BY <1>1, <1>6, Zenon DEF Forms!Argument
<1>8. Forms!HasArgument(d) /\ (Forms!Optional(d) <=> sign = "?")
  BY <1>6, Zenon DEF Forms!HasArgument, Forms!Optional
<1> QED
  BY <1>3, <1>5, <1>7, <1>8, Zenon

(* and one that is left out is not.                                        *)
LEMMA ArgumentLeft ==
  ASSUME NEW d, NEW s, NEW r4, NEW e, ReadAs(Forms!Short(d), s, r4, e), Stops(r4, {":"})
  PROVE  ~Forms!HasArgument(d) /\ ~Forms!Optional(d)
<1>1. Forms!Short(d).delim \notin {"=", "?"}
  <2>1. CASE r4 = <<>>
    <3>1. Forms!Short(d).delim = ""
      BY <2>1, ReadFields, Zenon
    <3> QED
      BY <3>1
  <2>2. CASE r4 # <<>>
    <3>1. Forms!Short(d).delim = r4[1]
      BY <2>2, ReadFields, Zenon
    <3>2. r4[1] = ":"
      BY <2>2 DEF Stops
    <3> QED
      BY <3>1, <3>2
  <2> QED
    BY <2>1, <2>2
<1> QED
  BY <1>1, Zenon DEF Forms!HasArgument, Forms!Optional

(* A default value that is there is read,                                  *)
LEMMA DefaultGiven ==
  ASSUME NEW d, NEW default \in Seq(Fabric \cup {"true"}), NEW a5 \in Seq(Tokens), NEW H \in Seq(Tokens),
         NEW s, NEW r5, ReadAs(Forms!Argument(d), s, r5, Len(a5)), r5 # <<>>, r5[1] = ",",
         Forms!HasArgument(d), Stops(H, {":"}), NEW u \in Seq(Tokens), Len(u) = 1
  PROVE  d = Joined(Joined(a5, Joined(u, default)), H) =>
           Forms!HasDefault(d) /\ Forms!Default(d) = default
<1>1. PICK allowed : allowed = {":"}
  OBVIOUS
<1>2. default \in Seq(Tokens) /\ Free(default, allowed) /\ Stops(H, allowed)
  BY <1>1, PiecesFree
<1>3. PICK T \in Seq(Tokens) : T = default
  BY <1>2
<1>4. Free(T, allowed) /\ Stops(H, allowed)
  BY <1>2, <1>3
<1>5. ReadAs(Forms!Advance(Joined(Joined(a5, Joined(u, T)), H), allowed, Len(a5) + 1 + 1), T, H,
             Len(Joined(a5, Joined(u, T))))
  BY <1>4, AdvanceBehind
<1>6. Forms!Argument(d).delim = "," /\ Forms!Argument(d).at = Len(a5) + 1
  BY ReadFields
<1>7. Forms!HasDefault(d)
  BY <1>6, Zenon DEF Forms!HasDefault
<1>8. Forms!Default(d) = Forms!Advance(d, allowed, Len(a5) + 1 + 1).text
  BY <1>1, <1>6, <1>7, Zenon DEF Forms!Default
<1>9. Forms!Advance(Joined(Joined(a5, Joined(u, T)), H), allowed, Len(a5) + 1 + 1).text = T
  BY <1>5, ReadFields, Zenon
<1> QED
  BY <1>3, <1>7, <1>8, <1>9, Zenon

(* and one that is left out is not,                                        *)
LEMMA DefaultLeft ==
  ASSUME NEW d, NEW s, NEW r5, NEW e, ReadAs(Forms!Argument(d), s, r5, e), Stops(r5, {":"})
  PROVE  ~Forms!HasDefault(d) /\ Forms!Default(d) = <<>>
<1>1. Forms!Argument(d).delim # ","
  <2>1. CASE r5 = <<>>
    <3>1. Forms!Argument(d).delim = ""
      BY <2>1, ReadFields, Zenon
    <3> QED
      BY <3>1
  <2>2. CASE r5 # <<>>
    <3>1. Forms!Argument(d).delim = r5[1]
      BY <2>2, ReadFields, Zenon
    <3>2. r5[1] = ":"
      BY <2>2 DEF Stops
    <3> QED
      BY <3>1, <3>2
  <2> QED
    BY <2>1, <2>2
<1> QED
  BY <1>1, Zenon DEF Forms!HasDefault, Forms!Default

(* nor is one without an argument.                                         *)
LEMMA NoDefault ==
  ASSUME NEW d, ~Forms!HasArgument(d)
  PROVE  ~Forms!HasDefault(d) /\ Forms!Default(d) = <<>> /\ Forms!Type(d) = ""
  BY Zenon DEF Forms!HasDefault, Forms!Default, Forms!Type

(* A part behind its separator, put together with the rest.                *)
LEMMA ThenRead ==
  ASSUME NEW sign \in Tokens, NEW piece, piece # Forms!Absent => piece \in Seq(Tokens)
  PROVE  /\ Forms!Then(sign, piece) \in Seq(Tokens)
         /\ piece = Forms!Absent => Forms!Then(sign, piece) = <<>>
         /\ piece # Forms!Absent =>
              /\ Forms!Then(sign, piece) # <<>> /\ Forms!Then(sign, piece)[1] = sign
              /\ \E u \in Seq(Tokens) : Len(u) = 1 /\ Forms!Then(sign, piece) = Joined(u, piece)
<1>1. <<sign>> \in Seq(Tokens) /\ Len(<<sign>>) = 1
  OBVIOUS
<1>2. /\ Forms!Then(sign, piece) \in Seq(Tokens)
      /\ piece = Forms!Absent => Forms!Then(sign, piece) = <<>>
      /\ piece # Forms!Absent =>
           /\ Forms!Then(sign, piece) # <<>> /\ Forms!Then(sign, piece)[1] = sign
           /\ Forms!Then(sign, piece) = <<sign>> \o piece
  BY ThenOf
<1> QED
  BY <1>1, <1>2, Zenon DEF Joined

(* What stands behind a part begins with the next part that there is.      *)
LEMMA StopsBehind ==
  ASSUME NEW x \in Seq(Tokens), NEW y \in Seq(Tokens), NEW X, NEW Y,
         Stops(x, X), Stops(y, Y)
  PROVE  /\ Stops(Joined(x, y), X \cup Y) /\ Joined(x, y) \in Seq(Tokens)
         /\ x = <<>> => Joined(x, y) = y
         /\ x # <<>> => Joined(x, y) # <<>> /\ Joined(x, y)[1] = x[1]
<1>1. /\ Joined(x, y) \in Seq(Tokens)
      /\ x = <<>> => Joined(x, y) = y
      /\ x # <<>> => Joined(x, y) # <<>> /\ Joined(x, y)[1] = x[1]
  BY JoinedFacts, Zenon
<1>2. CASE x = <<>>
  BY <1>1, <1>2, Zenon DEF Stops
<1>3. CASE x # <<>>
  <2>1. x[1] \in X
    BY <1>3, Zenon DEF Stops
  <2>2. Joined(x, y)[1] \in X \cup Y
    BY <1>1, <1>3, <2>1, Zenon
  <2> QED
    BY <1>1, <2>2, Zenon DEF Stops
<1> QED
  BY <1>2, <1>3

(* The description that is put together of these parts,                    *)
Said(required, multiple, key, long, short, sign, type, default, help) ==
  FlagTokens(required, multiple) \o key \o <<":">> \o long \o Forms!Then(",", short)
  \o Forms!Then(sign, type)
  \o (IF type = Forms!Absent THEN <<>> ELSE Forms!Then(",", default)) \o Forms!Then(":", help)

(* and what the stages of the scanner read of it.                          *)
Understood(d, required, multiple, key, long, short, sign, type, default) ==
  /\ Forms!Flags(d).required = required /\ Forms!Flags(d).multiple = multiple
  /\ Forms!Key(d).text = key /\ Forms!Key(d).delim = ":" /\ Forms!Long(d).text = long
  /\ Forms!Long(d).delim = "," <=> short # Forms!Absent
  /\ short # Forms!Absent => Forms!Short(d).text = short
  /\ short = Forms!Absent => Forms!Short(d).text = <<>>
  /\ Forms!HasArgument(d) <=> type # Forms!Absent
  /\ type # Forms!Absent => Forms!Argument(d).text = type /\ (Forms!Optional(d) <=> sign = "?")
  /\ type = Forms!Absent => ~Forms!Optional(d)
  /\ Forms!HasDefault(d) <=> type # Forms!Absent /\ default # Forms!Absent
  /\ Forms!HasDefault(d) => Forms!Default(d) = default
  /\ ~Forms!HasDefault(d) => Forms!Default(d) = <<>>

(* The scanner reads the parts that a description was put together of.     *)
LEMMA SaidUnderstood ==
  ASSUME NEW required \in BOOLEAN, NEW multiple \in BOOLEAN,
         NEW K \in Seq(Fabric), NEW L \in Seq(Fabric),
         NEW short, short # Forms!Absent => short \in Seq(Fabric), NEW sign \in {"=", "?"},
         NEW type, type # Forms!Absent => type \in Seq(Fabric \cup Forms!Types),
         NEW default, default # Forms!Absent => default \in Seq(Fabric \cup {"true"}),
         NEW help, help # Forms!Absent => help \in Seq(Tokens)
  PROVE  Understood(Said(required, multiple, K, L, short, sign, type, default, help),
                    required, multiple, K, L, short, sign, type, default)
<1> DEFINE F  == FlagTokens(required, multiple)
           P  == <<":">>
           A  == Forms!Then(",", short)
           T  == Forms!Then(sign, type)
           D  == IF type = Forms!Absent THEN <<>> ELSE Forms!Then(",", default)
           H  == Forms!Then(":", help)
           a1 == Joined(F, K)
           a2 == Joined(a1, P)
           a3 == Joined(a2, L)
           a4 == Joined(a3, A)
           a5 == Joined(a4, T)
           r5 == Joined(D, H)
           r4 == Joined(T, r5)
           r3 == Joined(A, r4)
           r2 == Joined(L, r3)
           r1 == Joined(P, r2)
           d  == Joined(Joined(a5, D), H)
<1>1. {":", ",", "=", "?", "!", "*"} \subseteq Tokens
  BY DEF Tokens, Forms!Separators
<1>2. /\ ":" \in Tokens /\ "," \in Tokens /\ sign \in Tokens
      /\ K \in Seq(Tokens) /\ L \in Seq(Tokens)
      /\ short # Forms!Absent => short \in Seq(Tokens)
      /\ type # Forms!Absent => type \in Seq(Tokens)
      /\ default # Forms!Absent => default \in Seq(Tokens)
  BY <1>1, WordsAreTokens, Zenon
<1>3. F \in Seq(Tokens)
  <2>1. PICK x \in Tokens, y \in Tokens : x = "!" /\ y = "*"
    BY <1>1
  <2>2. <<>> \in Seq(Tokens) /\ <<x>> \in Seq(Tokens) /\ <<y>> \in Seq(Tokens)
    OBVIOUS
  <2>3. /\ (IF required THEN <<"!">> ELSE <<>>) \in Seq(Tokens)
        /\ (IF multiple THEN <<"*">> ELSE <<>>) \in Seq(Tokens)
    BY <2>1, <2>2, Zenon
  <2> QED
    BY <2>3, JoinedFacts, Zenon DEF FlagTokens, Joined
<1>4. P \in Seq(Tokens)
  <2>1. PICK x \in Tokens : x = ":"
    BY <1>1
  <2>2. <<x>> \in Seq(Tokens)
    OBVIOUS
  <2> QED
    BY <2>1, <2>2, Zenon
<1>5. /\ A \in Seq(Tokens)
      /\ short = Forms!Absent => A = <<>>
      /\ short # Forms!Absent => /\ A # <<>> /\ A[1] = ","
                                 /\ \E u \in Seq(Tokens) : Len(u) = 1 /\ A = Joined(u, short)
  BY <1>2, ThenRead, Zenon
<1>6. /\ T \in Seq(Tokens)
      /\ type = Forms!Absent => T = <<>>
      /\ type # Forms!Absent => /\ T # <<>> /\ T[1] = sign
                                /\ \E u \in Seq(Tokens) : Len(u) = 1 /\ T = Joined(u, type)
  BY <1>2, ThenRead, Zenon
<1>7. /\ D \in Seq(Tokens)
      /\ (type = Forms!Absent \/ default = Forms!Absent) => D = <<>>
      /\ (type # Forms!Absent /\ default # Forms!Absent) =>
           /\ D # <<>> /\ D[1] = ","
           /\ \E u \in Seq(Tokens) : Len(u) = 1 /\ D = Joined(u, default)
  <2>1. <<>> \in Seq(Tokens)
    OBVIOUS
  <2>2. /\ Forms!Then(",", default) \in Seq(Tokens)
        /\ default = Forms!Absent => Forms!Then(",", default) = <<>>
        /\ default # Forms!Absent =>
             /\ Forms!Then(",", default) # <<>> /\ Forms!Then(",", default)[1] = ","
             /\ \E u \in Seq(Tokens) : Len(u) = 1 /\ Forms!Then(",", default) = Joined(u, default)
    BY <1>2, ThenRead, Zenon
  <2> QED
    BY <2>1, <2>2, Zenon
<1>8. H \in Seq(Tokens) /\ Stops(H, {":"})
  <2>1. /\ H \in Seq(Tokens)
        /\ help = Forms!Absent => H = <<>>
        /\ help # Forms!Absent => /\ H # <<>> /\ H[1] = ":"
                                  /\ \E u \in Seq(Tokens) : Len(u) = 1 /\ H = Joined(u, help)
    BY <1>2, ThenRead, Zenon
  <2> QED
    BY <2>1, Zenon DEF Stops
<1>9. Said(required, multiple, K, L, short, sign, type, default, help) = d
  <2>1. Said(required, multiple, K, L, short, sign, type, default, help) =
          F \o K \o P \o L \o A \o T \o D \o H
    BY Zenon DEF Said
  <2> HIDE DEF F, P, A, T, D, H
  <2>2. d = F \o K \o P \o L \o A \o T \o D \o H
    BY Zenon DEF Joined
  <2> QED
    BY <2>1, <2>2, Zenon
<1> HIDE DEF F, P, A, T, D, H
<1>14. /\ a1 = Joined(F, K) /\ a2 = Joined(a1, P) /\ a3 = Joined(a2, L) /\ a4 = Joined(a3, A)
       /\ a5 = Joined(a4, T) /\ r5 = Joined(D, H) /\ r4 = Joined(T, r5) /\ r3 = Joined(A, r4)
       /\ r2 = Joined(L, r3) /\ r1 = Joined(P, r2) /\ d = Joined(Joined(a5, D), H)
  OBVIOUS
<1> HIDE DEF a1, a2, a3, a4, a5, r1, r2, r3, r4, r5, d
<1>10. /\ d = Joined(F, Joined(K, r1)) /\ d = Joined(a1, r1) /\ d = Joined(a2, r2)
       /\ d = Joined(a3, r3) /\ d = Joined(a4, r4) /\ d = Joined(a5, r5)
       /\ a1 \in Seq(Tokens) /\ a2 \in Seq(Tokens) /\ a3 \in Seq(Tokens) /\ a4 \in Seq(Tokens)
       /\ a5 \in Seq(Tokens) /\ r1 \in Seq(Tokens) /\ r2 \in Seq(Tokens) /\ r3 \in Seq(Tokens)
       /\ r4 \in Seq(Tokens) /\ r5 \in Seq(Tokens)
  <2>1. /\ F \in Seq(Tokens) /\ K \in Seq(Tokens) /\ P \in Seq(Tokens) /\ L \in Seq(Tokens)
        /\ A \in Seq(Tokens) /\ T \in Seq(Tokens) /\ D \in Seq(Tokens) /\ H \in Seq(Tokens)
    BY <1>2, <1>3, <1>4, <1>5, <1>6, <1>7, <1>8, Zenon
  <2>2. a1 \in Seq(Tokens) /\ r5 \in Seq(Tokens)
    BY <1>14, <2>1, JoinedAssociative, Zenon
  <2>3. a2 \in Seq(Tokens) /\ r4 \in Seq(Tokens)
    BY <1>14, <2>1, <2>2, JoinedAssociative, Zenon
  <2>4. a3 \in Seq(Tokens) /\ r3 \in Seq(Tokens)
    BY <1>14, <2>1, <2>3, JoinedAssociative, Zenon
  <2>5. a4 \in Seq(Tokens) /\ r2 \in Seq(Tokens)
    BY <1>14, <2>1, <2>4, JoinedAssociative, Zenon
  <2>6. a5 \in Seq(Tokens) /\ r1 \in Seq(Tokens)
    BY <1>14, <2>1, <2>5, JoinedAssociative, Zenon
  <2>7. d = Joined(a5, r5)
    BY <1>14, <2>1, <2>6, JoinedAssociative
  <2>8. d = Joined(a4, r4)
    BY <1>14, <2>1, <2>2, <2>5, <2>7, JoinedAssociative
  <2>9. d = Joined(a3, r3)
    BY <1>14, <2>1, <2>3, <2>4, <2>8, JoinedAssociative
  <2>10. d = Joined(a2, r2)
    BY <1>14, <2>1, <2>3, <2>4, <2>9, JoinedAssociative
  <2>11. d = Joined(a1, r1)
    BY <1>14, <2>1, <2>2, <2>5, <2>10, JoinedAssociative
  <2>12. d = Joined(F, Joined(K, r1))
    BY <1>14, <2>1, <2>6, <2>11, JoinedAssociative
  <2> QED
    BY <2>2, <2>3, <2>4, <2>5, <2>6, <2>7, <2>8, <2>9, <2>10, <2>11, <2>12, Zenon
(* What follows each part.                                                 *)
<1>12. Stops(D, {","}) /\ Stops(T, {"=", "?"}) /\ Stops(A, {","})
  BY <1>5, <1>6, <1>7, Zenon DEF Stops
<1>13. /\ Stops(r5, {",", ":"})
       /\ D = <<>> => r5 = H
       /\ D # <<>> => r5 # <<>> /\ r5[1] = D[1]
  <2>1. Stops(r5, {","} \cup {":"})
    BY <1>7, <1>8, <1>12, <1>14, StopsBehind, Zenon
  <2>2. {","} \cup {":"} = {",", ":"}
    OBVIOUS
  <2>3. /\ D = <<>> => r5 = H
        /\ D # <<>> => r5 # <<>> /\ r5[1] = D[1]
    BY <1>7, <1>8, <1>14, JoinedFacts, Zenon
  <2> QED
    BY <2>1, <2>2, <2>3, Zenon
<1>15. /\ Stops(r4, {"=", "?", ":"})
       /\ type = Forms!Absent => r4 = H
       /\ type # Forms!Absent => r4 # <<>> /\ r4[1] = sign
  <2>1. CASE type = Forms!Absent
    <3>1. T = <<>> /\ D = <<>>
      BY <1>6, <1>7, <2>1, Zenon
    <3>2. r5 = H
      BY <1>13, <3>1, Zenon
    <3>3. r4 = H
      BY <1>10, <1>14, <3>1, <3>2, <1>6, JoinedFacts, Zenon
    <3>4. Stops(r4, {"=", "?", ":"})
      BY <1>8, <3>3, Zenon DEF Stops
    <3> QED
      BY <2>1, <3>3, <3>4, Zenon
  <2>2. CASE type # Forms!Absent
    <3>1. T \in Seq(Tokens) /\ T # <<>> /\ T[1] = sign
      BY <1>6, <2>2, Zenon
    <3>4. r4 = Joined(T, r5) /\ r5 \in Seq(Tokens)
      BY <1>10, <1>14, Zenon
    <3>2. r4 # <<>> /\ r4[1] = sign
      BY <3>1, <3>4, JoinedFirst, Zenon
    <3>3. Stops(r4, {"=", "?", ":"})
      BY <3>2 DEF Stops
    <3> QED
      BY <2>2, <3>2, <3>3, Zenon
  <2> QED
    BY <2>1, <2>2
<1>16. /\ Stops(r3, {",", "=", "?", ":"})
       /\ short = Forms!Absent => r3 = r4
       /\ short # Forms!Absent => r3 # <<>> /\ r3[1] = ","
  <2>1. CASE short = Forms!Absent
    <3>1. A = <<>>
      BY <1>5, <2>1, Zenon
    <3>4. r3 = Joined(A, r4) /\ r4 \in Seq(Tokens) /\ A \in Seq(Tokens)
      BY <1>5, <1>10, <1>14, Zenon
    <3>2. r3 = r4
      BY <3>1, <3>4, JoinedFirst, Zenon
    <3>3. Stops(r3, {",", "=", "?", ":"})
      BY <1>15, <3>2, Zenon DEF Stops
    <3> QED
      BY <2>1, <3>2, <3>3, Zenon
  <2>2. CASE short # Forms!Absent
    <3>1. A \in Seq(Tokens) /\ A # <<>> /\ A[1] = ","
      BY <1>5, <2>2, Zenon
    <3>4. r3 = Joined(A, r4) /\ r4 \in Seq(Tokens)
      BY <1>10, <1>14, Zenon
    <3>5. r3 # <<>> /\ r3[1] = A[1]
      BY <3>1, <3>4, JoinedFirst
    <3>2. r3 # <<>> /\ r3[1] = ","
      BY <3>1, <3>5, Zenon
    <3>3. Stops(r3, {",", "=", "?", ":"})
      BY <3>2 DEF Stops
    <3> QED
      BY <2>2, <3>2, <3>3, Zenon
  <2> QED
    BY <2>1, <2>2
(* What each stage reads.                                                  *)
<1>17. KeyFound(d, required, multiple, K, Len(a2))
  <2>1. Begun(d, required, multiple, K, F, P, r2)
    BY <1>10, <1>14, Zenon DEF F, P, Begun
  <2>2. F \in Seq(Tokens)
    BY <1>3
  <2>3. r2 \in Seq(Tokens)
    BY <1>10
  <2>4. KeyFound(d, required, multiple, K, Len(Joined(Joined(F, K), P)))
    BY <2>1, <2>2, <2>3, KeyRead
  <2> QED
    BY <1>14, <2>4, Zenon
<1>24. /\ Forms!Flags(d).required = required /\ Forms!Flags(d).multiple = multiple
       /\ Forms!Key(d).text = K /\ Forms!Key(d).delim = ":" /\ Forms!Key(d).at = Len(a2)
  BY <1>17, Zenon DEF KeyFound
<1>18. ReadAs(Forms!Long(d), L, r3, Len(a3))
  <2>1. a2 \in Seq(Tokens) /\ r3 \in Seq(Tokens) /\ d = Joined(Joined(a2, L), r3)
    BY <1>10, <1>14, Zenon
  <2>2. ReadAs(Forms!Long(d), L, r3, Len(Joined(a2, L)))
    BY <1>16, <1>24, <2>1, LongRead, Zenon
  <2> QED
    BY <1>14, <2>2, Zenon
<1>19. /\ Forms!Long(d).text = L /\ (Forms!Long(d).delim = "," <=> short # Forms!Absent)
       /\ short # Forms!Absent => ReadAs(Forms!Short(d), short, r4, Len(a4))
       /\ short = Forms!Absent => ReadAs(Forms!Short(d), <<>>, r4, Len(a4))
  <2>1. Forms!Long(d).text = L
    BY <1>18, ReadFields, Zenon
  <2>2. CASE short = Forms!Absent
    <3>1. A = <<>> /\ r3 = r4
      BY <1>5, <1>16, <2>2, Zenon
    <3>5. a4 = Joined(a3, A) /\ a3 \in Seq(Tokens) /\ A \in Seq(Tokens)
      BY <1>5, <1>10, <1>14, Zenon
    <3>2. a4 = a3
      BY <3>1, <3>5, JoinedFirst, Zenon
    <3>3. Stops(r3, {"=", "?", ":"})
      BY <1>15, <3>1, Zenon
    <3>4. Forms!Long(d).delim # "," /\ ReadAs(Forms!Short(d), <<>>, r3, Len(a3))
      BY <1>18, <3>3, ShortLeft, Zenon
    <3> QED
      BY <2>1, <2>2, <3>1, <3>2, <3>4, Zenon
  <2>3. CASE short # Forms!Absent
    <3>1. PICK u \in Seq(Tokens) : Len(u) = 1 /\ A = Joined(u, short)
      BY <1>5, <2>3, Zenon
    <3>2. /\ a3 \in Seq(Tokens) /\ r4 \in Seq(Tokens) /\ short \in Seq(Fabric)
          /\ r3 # <<>> /\ r3[1] = ","
      BY <1>10, <1>16, <2>3, Zenon
    <3>3. d = Joined(Joined(a3, Joined(u, short)), r4)
      BY <1>10, <1>14, <3>1, Zenon
    <3>4. Forms!Long(d).delim = "," /\ ReadAs(Forms!Short(d), short, r4, Len(Joined(a3, Joined(u, short))))
      BY <1>15, <1>18, <3>1, <3>2, <3>3, ShortGiven
    <3> QED
      BY <1>14, <2>1, <2>3, <3>1, <3>4, Zenon
  <2> QED
    BY <2>2, <2>3
<1>20. /\ short # Forms!Absent => Forms!Short(d).text = short
       /\ short = Forms!Absent => Forms!Short(d).text = <<>>
       /\ \E s : ReadAs(Forms!Short(d), s, r4, Len(a4))
  BY <1>19, ReadFields, Zenon
<1>21. PICK s : ReadAs(Forms!Short(d), s, r4, Len(a4))
  BY <1>20, Zenon
<1>22. CASE type = Forms!Absent
  <2>1. Stops(r4, {":"})
    BY <1>8, <1>15, <1>22, Zenon
  <2>2. ~Forms!HasArgument(d) /\ ~Forms!Optional(d)
    BY <1>21, <2>1, ArgumentLeft, Zenon
  <2>3. ~Forms!HasDefault(d) /\ Forms!Default(d) = <<>>
    BY <2>2, NoDefault, Zenon
  <2>4. Understood(d, required, multiple, K, L, short, sign, type, default)
    BY <1>24, <1>19, <1>20, <1>22, <2>2, <2>3, Zenon DEF Understood
  <2> QED
    BY <1>9, <2>4, Zenon
<1>23. CASE type # Forms!Absent
  <2>1. PICK u \in Seq(Tokens) : Len(u) = 1 /\ T = Joined(u, type)
    BY <1>6, <1>23, Zenon
  <2>2. /\ a4 \in Seq(Tokens) /\ r5 \in Seq(Tokens) /\ type \in Seq(Fabric \cup Forms!Types)
        /\ r4 # <<>> /\ r4[1] = sign
    BY <1>10, <1>15, <1>23, Zenon
  <2>3. d = Joined(Joined(a4, Joined(u, type)), r5)
    BY <1>10, <1>14, <2>1, Zenon
  <2>4. /\ Forms!HasArgument(d) /\ (Forms!Optional(d) <=> sign = "?")
        /\ ReadAs(Forms!Argument(d), type, r5, Len(Joined(a4, Joined(u, type))))
    BY <1>13, <1>21, <2>1, <2>2, <2>3, ArgumentGiven
  <2>5. ReadAs(Forms!Argument(d), type, r5, Len(a5)) /\ Forms!Argument(d).text = type
    BY <1>14, <2>1, <2>4, ReadFields, Zenon
  <2>6. CASE default = Forms!Absent
    <3>1. r5 = H
      BY <1>7, <1>13, <2>6, Zenon
    <3>2. ~Forms!HasDefault(d) /\ Forms!Default(d) = <<>>
      BY <1>8, <2>5, <3>1, DefaultLeft, Zenon
    <3>3. Understood(d, required, multiple, K, L, short, sign, type, default)
      BY <1>24, <1>19, <1>20, <1>23, <2>4, <2>5, <2>6, <3>2, Zenon DEF Understood
    <3> QED
      BY <1>9, <3>3, Zenon
  <2>7. CASE default # Forms!Absent
    <3>1. PICK v \in Seq(Tokens) : Len(v) = 1 /\ D = Joined(v, default)
      BY <1>7, <1>23, <2>7, Zenon
    <3>2. /\ a5 \in Seq(Tokens) /\ H \in Seq(Tokens) /\ default \in Seq(Fabric \cup {"true"})
          /\ r5 # <<>> /\ r5[1] = ","
      BY <1>7, <1>8, <1>10, <1>13, <1>23, <2>7, Zenon
    <3>3. d = Joined(Joined(a5, Joined(v, default)), H)
      BY <1>14, <3>1, Zenon
    <3>4. Forms!HasDefault(d) /\ Forms!Default(d) = default
      BY <1>8, <2>4, <2>5, <3>1, <3>2, <3>3, DefaultGiven
    <3>5. Understood(d, required, multiple, K, L, short, sign, type, default)
      BY <1>24, <1>19, <1>20, <1>23, <2>4, <2>5, <2>7, <3>4, Zenon DEF Understood
    <3> QED
      BY <1>9, <3>5, Zenon
  <2> QED
    BY <2>6, <2>7
<1> QED
  BY <1>22, <1>23

(* A text of one token.                                                    *)
LEMMA OneToken ==
  ASSUME NEW S, NEW x \in Seq(S), NEW N
  PROVE  Len(x) = 1 /\ x[1] \in N <=> x \in {<<y>> : y \in N}
<1>1. ASSUME Len(x) = 1, x[1] \in N
      PROVE  x \in {<<y>> : y \in N}
  <2>1. x = <<x[1]>>
    BY <1>1
  <2> QED
    BY <1>1, <2>1, Zenon
<1>2. ASSUME x \in {<<y>> : y \in N}
      PROVE  Len(x) = 1 /\ x[1] \in N
  <2>1. PICK y \in N : x = <<y>>
    BY <1>2, Zenon
  <2> QED
    BY <2>1
<1> QED
  BY <1>1, <1>2, Zenon

(* What is refused.                                                        *)
Bad(p) ==
  LET typed == p.type # Forms!Absent
      known == p.type \in {<<t>> : t \in Forms!Types}
      given == typed /\ p.default # Forms!Absent
  IN \/ Len(p.long) # 1
     \/ p.short # Forms!Absent /\ (Len(p.short) # 1 \/ p.short[1] \notin Letters)
     \/ typed /\ ~known
     \/ typed /\ p.sign = "?" /\ ~given
     \/ given /\ p.sign = "=" /\ p.required
     \/ given /\ p.type = <<"int">> /\ p.default \notin {<<n>> : n \in Numbers}
     \/ given /\ p.type = <<"bool">> /\ p.default \notin {<<b>> : b \in Booleans}

(* The constructor refuses this, and nothing else.                         *)
LEMMA RejectedIfBad ==
  ASSUME NEW w \in Words, NEW c \in Letters, NEW n \in Numbers, NEW p \in Forms!Parts(w, c, n),
         NEW d, Understood(d, p.required, p.multiple, p.key, p.long, p.short, p.sign, p.type, p.default)
  PROVE  Forms!Rejected(d) <=> Bad(p)
<1>1. /\ Forms!Flags(d).required = p.required
      /\ Forms!Key(d).text = p.key /\ Forms!Key(d).delim = ":" /\ Forms!Long(d).text = p.long
      /\ Forms!Long(d).delim = "," <=> p.short # Forms!Absent
      /\ p.short # Forms!Absent => Forms!Short(d).text = p.short
      /\ p.short = Forms!Absent => Forms!Short(d).text = <<>>
      /\ Forms!HasArgument(d) <=> p.type # Forms!Absent
      /\ p.type # Forms!Absent => Forms!Argument(d).text = p.type /\ (Forms!Optional(d) <=> p.sign = "?")
      /\ p.type = Forms!Absent => ~Forms!Optional(d)
      /\ Forms!HasDefault(d) <=> p.type # Forms!Absent /\ p.default # Forms!Absent
      /\ Forms!HasDefault(d) => Forms!Default(d) = p.default
  BY Zenon DEF Understood
<1>2. /\ p.long \in {<<>>, <<w>>, Forms!Barred(w, w)} /\ p.short \in {Forms!Absent, <<>>, <<c>>, <<w>>, Forms!Barred(c, w)}
      /\ p.sign \in {"=", "?"}
  BY PartsFields, Zenon
<1>3. Shaped(p)
  BY PartsShaped, Zenon
<1>4. Forms!Key(d).delim # ""
  <2>1. ":" # ""
    OBVIOUS
  <2> QED
    BY <1>1, <2>1, Zenon
<1>5. ~Forms!Identifier(Forms!Long(d).text) <=> Len(p.long) # 1
  <2>1. ~Forms!Identifier(<<>>) /\ Len(<<>>) # 1
    BY DEF Forms!Identifier
  <2>2. Forms!Identifier(<<w>>) /\ Len(<<w>>) = 1
    BY DEF Forms!Identifier
  <2>3. ~Forms!Identifier(Forms!Barred(w, w)) /\ Len(Forms!Barred(w, w)) # 1
    <3>1. Forms!Bar \notin Words \cup Forms!Types
      BY WordAssumption DEF Forms!Bar, Forms!Types
    <3>2. /\ 2 \in DOMAIN Forms!Barred(w, w) /\ Forms!Barred(w, w)[2] = Forms!Bar
          /\ Len(Forms!Barred(w, w)) = 3
      BY DEF Forms!Barred
    <3> QED
      BY <3>1, <3>2 DEF Forms!Identifier
  <2> QED
    BY <1>1, <1>2, <2>1, <2>2, <2>3, Zenon
<1>6. (Forms!Long(d).delim = "," /\ ~Forms!OneCharacter(Forms!Short(d).text))
      <=> (p.short # Forms!Absent /\ (Len(p.short) # 1 \/ p.short[1] \notin Letters))
  <2>1. ASSUME NEW x \in {<<>>, <<c>>, <<w>>, Forms!Barred(c, w)}
        PROVE  ~Forms!OneCharacter(x) <=> (Len(x) # 1 \/ x[1] \notin Letters)
    <3>1. CASE x = <<>>
      BY <3>1 DEF Forms!OneCharacter
    <3>2. ASSUME NEW y, x = <<y>>
          PROVE  ~Forms!OneCharacter(x) <=> (Len(x) # 1 \/ x[1] \notin Letters)
      BY <3>2 DEF Forms!OneCharacter
    <3>3. CASE x = Forms!Barred(c, w)
      <4>1. Len(x) = 3
        BY <3>3 DEF Forms!Barred
      <4>2. \A y : Len(<<y>>) = 1
        OBVIOUS
      <4> QED
        BY <4>1, <4>2 DEF Forms!OneCharacter
    <3> QED
      BY <2>1, <3>1, <3>2, <3>3, Zenon
  <2>2. p.short # Forms!Absent => p.short \in {<<>>, <<c>>, <<w>>, Forms!Barred(c, w)}
    BY <1>2, Zenon
  <2> QED
    BY <1>1, <2>1, <2>2, Zenon
<1>7. (Forms!HasArgument(d) /\ Forms!Argument(d).text \notin {<<t>> : t \in Forms!Types})
      <=> (p.type # Forms!Absent /\ p.type \notin {<<t>> : t \in Forms!Types})
  BY <1>1, Zenon
<1>8. (Forms!HasArgument(d) /\ Forms!HasDefault(d) /\ Forms!Flags(d).required /\ ~Forms!Optional(d))
      <=> (p.type # Forms!Absent /\ p.default # Forms!Absent /\ p.sign = "=" /\ p.required)
  <2>1. p.sign = "=" <=> ~(p.sign = "?")
    BY <1>2
  <2> QED
    BY <1>1, <2>1, Zenon
<1>9. (Forms!HasArgument(d) /\ ~Forms!HasDefault(d) /\ Forms!Optional(d))
      <=> (p.type # Forms!Absent /\ p.sign = "?" /\ ~(p.type # Forms!Absent /\ p.default # Forms!Absent))
  BY <1>1, Zenon
<1>10. ASSUME p.type # Forms!Absent, p.type \in {<<t>> : t \in Forms!Types}
       PROVE  (Forms!HasArgument(d) /\ Forms!HasDefault(d) /\ ~Forms!CheckArgument(Forms!Type(d), Forms!Default(d)))
              <=> /\ p.type # Forms!Absent /\ p.default # Forms!Absent
                  /\ \/ p.type = <<"int">> /\ p.default \notin {<<m>> : m \in Numbers}
                     \/ p.type = <<"bool">> /\ p.default \notin {<<b>> : b \in Booleans}
  <2>1. PICK t \in Forms!Types : p.type = <<t>>
    BY <1>10, Zenon
  <2>2. Forms!Type(d) = t
    <3>1. Forms!Type(d) = <<t>>[1]
      BY <1>1, <1>10, <2>1, Zenon DEF Forms!Type
    <3> QED
      BY <3>1
  <2>3. (p.type = <<"int">> <=> t = "int") /\ (p.type = <<"bool">> <=> t = "bool")
    <3>1. \A x, y : <<x>> = <<y>> <=> x = y
      OBVIOUS
    <3> QED
      BY <2>1, <3>1, Zenon
  <2>4. CASE p.default = Forms!Absent
    BY <1>1, <2>4, Zenon
  <2>5. CASE p.default # Forms!Absent
    <3>1. Forms!HasArgument(d) /\ Forms!HasDefault(d) /\ Forms!Default(d) = p.default
      BY <1>1, <1>10, <2>5, Zenon
    <3>2. p.default \in Seq(Fabric \cup {"true"})
      BY <1>3, <2>5, Zenon DEF Shaped
    <3>3. /\ Len(p.default) = 1 /\ p.default[1] \in Numbers <=> p.default \in {<<m>> : m \in Numbers}
          /\ Len(p.default) = 1 /\ p.default[1] \in Booleans <=> p.default \in {<<b>> : b \in Booleans}
      BY <3>2, OneToken, Zenon
    <3>4. "int" # "bool"
      OBVIOUS
    <3>5. CASE t = "int"
      <4>1. Forms!CheckArgument(t, p.default) <=> Len(p.default) = 1 /\ p.default[1] \in Numbers
        BY <3>4, <3>5, Zenon DEF Forms!CheckArgument
      <4> QED
        BY <1>10, <2>2, <2>3, <2>5, <3>1, <3>3, <3>4, <3>5, <4>1, Zenon
    <3>6. CASE t = "bool"
      <4>1. Forms!CheckArgument(t, p.default) <=> Len(p.default) = 1 /\ p.default[1] \in Booleans
        BY <3>4, <3>6, Zenon DEF Forms!CheckArgument
      <4> QED
        BY <1>10, <2>2, <2>3, <2>5, <3>1, <3>3, <3>4, <3>6, <4>1, Zenon
    <3>7. CASE t # "int" /\ t # "bool"
      <4>1. Forms!CheckArgument(t, p.default)
        BY <3>7, Zenon DEF Forms!CheckArgument
      <4> QED
        BY <2>2, <2>3, <3>1, <3>7, <4>1, Zenon
    <3> QED
      BY <3>5, <3>6, <3>7
  <2> QED
    BY <2>4, <2>5
<1>11. CASE p.type # Forms!Absent /\ p.type \notin {<<t>> : t \in Forms!Types}
  <2>1. Forms!Rejected(d)
    BY <1>7, <1>11, Zenon DEF Forms!Rejected
  <2>2. Bad(p)
    BY <1>11, Zenon DEF Bad
  <2> QED
    BY <2>1, <2>2
<1>12. CASE p.type # Forms!Absent => p.type \in {<<t>> : t \in Forms!Types}
  <2>1. (Forms!HasArgument(d) /\ Forms!HasDefault(d) /\ ~Forms!CheckArgument(Forms!Type(d), Forms!Default(d)))
         <=> /\ p.type # Forms!Absent /\ p.default # Forms!Absent
             /\ \/ p.type = <<"int">> /\ p.default \notin {<<m>> : m \in Numbers}
                \/ p.type = <<"bool">> /\ p.default \notin {<<b>> : b \in Booleans}
    <3>1. CASE p.type = Forms!Absent
      BY <1>1, <3>1, Zenon
    <3>2. CASE p.type # Forms!Absent
      BY <1>10, <1>12, <3>2, Zenon
    <3> QED
      BY <3>1, <3>2
  <2>2. Forms!Rejected(d) <=>
          \/ ~Forms!Identifier(Forms!Long(d).text)
          \/ (Forms!Long(d).delim = "," /\ ~Forms!OneCharacter(Forms!Short(d).text))
          \/ (Forms!HasArgument(d) /\ Forms!Argument(d).text \notin {<<t>> : t \in Forms!Types})
          \/ (Forms!HasArgument(d) /\ Forms!HasDefault(d) /\ Forms!Flags(d).required /\ ~Forms!Optional(d))
          \/ (Forms!HasArgument(d) /\ Forms!HasDefault(d) /\ ~Forms!CheckArgument(Forms!Type(d), Forms!Default(d)))
          \/ (Forms!HasArgument(d) /\ ~Forms!HasDefault(d) /\ Forms!Optional(d))
    BY <1>4, Zenon DEF Forms!Rejected
  <2>3. Forms!Rejected(d) <=>
          \/ Len(p.long) # 1
          \/ (p.short # Forms!Absent /\ (Len(p.short) # 1 \/ p.short[1] \notin Letters))
          \/ (p.type # Forms!Absent /\ p.type \notin {<<t>> : t \in Forms!Types})
          \/ (p.type # Forms!Absent /\ p.default # Forms!Absent /\ p.sign = "=" /\ p.required)
          \/ (/\ p.type # Forms!Absent /\ p.default # Forms!Absent
              /\ \/ p.type = <<"int">> /\ p.default \notin {<<m>> : m \in Numbers}
                 \/ p.type = <<"bool">> /\ p.default \notin {<<b>> : b \in Booleans})
          \/ (p.type # Forms!Absent /\ p.sign = "?" /\ ~(p.type # Forms!Absent /\ p.default # Forms!Absent))
    BY <1>5, <1>6, <1>7, <1>8, <1>9, <2>1, <2>2, ZenonT(30)
  <2> QED
    BY <2>3, ZenonT(30) DEF Bad
<1> QED
  BY <1>11, <1>12

(* The constructor makes of a description what its parts mean.             *)
LEMMA OptionMeant ==
  ASSUME NEW w \in Words, NEW c \in Letters, NEW n \in Numbers, NEW p \in Forms!Parts(w, c, n)
  PROVE  Forms!Option(Forms!Spelled(p)) = Forms!Meant(p)
<1> DEFINE d == Forms!Spelled(p)
<1>1. Understood(d, p.required, p.multiple, p.key, p.long, p.short, p.sign, p.type, p.default)
  <2>1. d = Said(p.required, p.multiple, p.key, p.long, p.short, p.sign, p.type, p.default, p.help)
    BY Zenon DEF Forms!Spelled, Said, FlagTokens
  <2>2. Shaped(p)
    BY PartsShaped, Zenon
  <2>3. /\ p.required \in BOOLEAN /\ p.multiple \in BOOLEAN /\ p.sign \in {"=", "?"}
        /\ p.key \in Seq(Fabric) /\ p.long \in Seq(Fabric)
        /\ p.short # Forms!Absent => p.short \in Seq(Fabric)
        /\ p.type # Forms!Absent => p.type \in Seq(Fabric \cup Forms!Types)
        /\ p.default # Forms!Absent => p.default \in Seq(Fabric \cup {"true"})
        /\ p.help # Forms!Absent => p.help \in Seq(Tokens)
    BY <2>2, Zenon DEF Shaped
  <2>4. Understood(Said(p.required, p.multiple, p.key, p.long, p.short, p.sign, p.type, p.default, p.help),
                   p.required, p.multiple, p.key, p.long, p.short, p.sign, p.type, p.default)
    BY <2>3, SaidUnderstood, Zenon
  <2> QED
    BY <2>1, <2>4, Zenon
<1> HIDE DEF d
<1>2. Forms!Rejected(d) <=> Bad(p)
  BY <1>1, RejectedIfBad, Zenon
<1>3. /\ Forms!Flags(d).required = p.required /\ Forms!Flags(d).multiple = p.multiple
      /\ Forms!Key(d).text = p.key /\ Forms!Long(d).text = p.long
      /\ p.short # Forms!Absent => Forms!Short(d).text = p.short
      /\ p.short = Forms!Absent => Forms!Short(d).text = <<>>
      /\ Forms!HasArgument(d) <=> p.type # Forms!Absent
      /\ p.type # Forms!Absent => Forms!Argument(d).text = p.type /\ (Forms!Optional(d) <=> p.sign = "?")
      /\ p.type = Forms!Absent => ~Forms!Optional(d)
      /\ Forms!HasDefault(d) <=> p.type # Forms!Absent /\ p.default # Forms!Absent
      /\ Forms!HasDefault(d) => Forms!Default(d) = p.default
      /\ ~Forms!HasDefault(d) => Forms!Default(d) = <<>>
  BY <1>1, Zenon DEF Understood
<1>4. CASE Bad(p)
  <2>1. Forms!Option(d) = Forms!BadSyntax
    BY <1>2, <1>4, Zenon DEF Forms!Option
  <2>2. Forms!Meant(p) = Forms!BadSyntax
    BY <1>4, Zenon DEF Forms!Meant, Bad
  <2> QED
    BY <2>1, <2>2, Zenon DEF d
<1>5. CASE ~Bad(p)
  <2> DEFINE key      == IF p.key = <<>> THEN p.long ELSE p.key
             short    == IF p.short = Forms!Absent THEN <<>> ELSE p.short
             optional == p.type # Forms!Absent /\ p.sign = "?"
             given    == p.type # Forms!Absent /\ p.default # Forms!Absent
             type     == IF p.type # Forms!Absent THEN p.type[1] ELSE ""
             default  == IF given THEN p.default ELSE <<>>
  <2>1. Forms!Option(d) =
          [valid |-> TRUE, required |-> Forms!Flags(d).required, multiple |-> Forms!Flags(d).multiple,
           key |-> IF Forms!Key(d).text = <<>> THEN Forms!Long(d).text ELSE Forms!Key(d).text,
           long |-> Forms!Long(d).text, short |-> Forms!Short(d).text,
           argument |-> Forms!HasArgument(d), optional |-> Forms!Optional(d), type |-> Forms!Type(d),
           hasDefault |-> Forms!HasDefault(d), default |-> Forms!Default(d)]
    BY <1>2, <1>5, Zenon DEF Forms!Option
  <2>2. Forms!Meant(p) =
          [valid |-> TRUE, required |-> p.required, multiple |-> p.multiple,
           key |-> key, long |-> p.long, short |-> short,
           argument |-> p.type # Forms!Absent, optional |-> optional, type |-> type,
           hasDefault |-> given, default |-> default]
    BY <1>5, Zenon DEF Forms!Meant, Bad
  <2>3. (IF Forms!Key(d).text = <<>> THEN Forms!Long(d).text ELSE Forms!Key(d).text) = key
    BY <1>3, Zenon
  <2>4. Forms!Short(d).text = short
    BY <1>3, Zenon
  <2>5. /\ Forms!HasArgument(d) = (p.type # Forms!Absent)
        /\ Forms!Optional(d) = optional
        /\ Forms!HasDefault(d) = given
    <3>1. Forms!HasArgument(d) \in BOOLEAN /\ Forms!Optional(d) \in BOOLEAN /\ Forms!HasDefault(d) \in BOOLEAN
      BY DEF Forms!HasArgument, Forms!Optional, Forms!HasDefault
    <3>2. (p.type # Forms!Absent) \in BOOLEAN /\ optional \in BOOLEAN /\ given \in BOOLEAN
      OBVIOUS
    <3>3. /\ Forms!HasArgument(d) <=> (p.type # Forms!Absent)
          /\ Forms!Optional(d) <=> optional
          /\ Forms!HasDefault(d) <=> given
      BY <1>3, Zenon
    <3>4. \A x, y \in BOOLEAN : (x <=> y) => x = y
      OBVIOUS
    <3> QED
      BY <3>1, <3>2, <3>3, <3>4, Zenon
  <2>6. Forms!Type(d) = type
    BY <1>3, Zenon DEF Forms!Type
  <2>7. Forms!Default(d) = default
    BY <1>3, Zenon
  <2> HIDE DEF key, short, optional, given, type, default
  <2>8. Forms!Option(d) = Forms!Meant(p)
    BY <1>3, <2>1, <2>2, <2>3, <2>4, <2>5, <2>6, <2>7, Zenon
  <2> QED
    BY <2>8, Zenon DEF d
<1> QED
  BY <1>4, <1>5

(* A description is put together of parts, and once the constructor has    *)
(* run, the option is what those parts mean.                               *)
OptionInv ==
  part = "cmdline_option" =>
    /\ \E w \in Words, c \in Letters, n \in Numbers : parts \in Forms!Parts(w, c, n)
    /\ option # Forms!NotYet => option = Forms!Meant(parts)

LEMMA OptionInvInit == Init => OptionInv
<1> SUFFICES ASSUME Init, part = "cmdline_option" PROVE OptionInv
  BY DEF OptionInv
<1>1. Forms!OptionInit
  BY DEF Init
<1>2. /\ option = Forms!NotYet
      /\ \E w \in Sampled, c \in Sampled \cap Letters, n \in Sampled \cap Numbers :
            parts \in Forms!Parts(w, c, n)
  BY <1>1, Zenon DEF Forms!OptionInit
<1>3. PICK w \in Sampled, c \in Sampled \cap Letters, n \in Sampled \cap Numbers :
        parts \in Forms!Parts(w, c, n)
  BY <1>2, Zenon
<1>4. w \in Words /\ c \in Letters /\ n \in Numbers
  BY <1>3, FormsAssumption, Zenon
<1> QED
  BY <1>2, <1>3, <1>4, Zenon DEF OptionInv

LEMMA OptionInvStep == OptionInv /\ [Next]_allVars => OptionInv'
<1> SUFFICES ASSUME OptionInv, [Next]_allVars, part' = "cmdline_option" PROVE OptionInv'
  BY DEF OptionInv
<1>1. ASSUME Forms!Construct, part = "cmdline_option" PROVE OptionInv'
  <2>1. PICK w \in Words, c \in Letters, n \in Numbers : parts \in Forms!Parts(w, c, n)
    BY <1>1, Zenon DEF OptionInv
  <2>2. parts' = parts /\ option' = Forms!Option(Forms!Spelled(parts))
    BY <1>1, Zenon DEF Forms!Construct
  <2>3. option' = Forms!Meant(parts)
    BY <2>1, <2>2, OptionMeant, Zenon
  <2>4. parts' \in Forms!Parts(w, c, n) /\ option' = Forms!Meant(parts')
    BY <2>1, <2>2, <2>3, Zenon
  <2> QED
    BY <2>4, Zenon DEF OptionInv
<1>2. CASE UNCHANGED allVars
  <2>1. part' = part /\ parts' = parts /\ option' = option
    BY <1>2 DEF allVars, otherVars
  <2> QED
    BY <2>1, Zenon DEF OptionInv
<1>3. ASSUME Next PROVE Forms!Construct /\ part = "cmdline_option"
  BY <1>3 DEF Next
<1> QED
  <2>1. Next \/ UNCHANGED allVars
    OBVIOUS
  <2> QED
    BY <1>1, <1>2, <1>3, <2>1

(* For all words, letters and numbers, and whichever of its parts are left *)
(* out, empty, wrong or barred, a description makes the option that its    *)
(* parts mean (commandline.hh:95), or the constructor throws, for what it  *)
(* refuses and for nothing else.                                           *)
THEOREM OptionsMeanParts == Spec => []OptionMeansParts
<1>1. OptionInv => OptionMeansParts
  BY Zenon DEF OptionInv, OptionMeansParts, Forms!OptionMeansParts
<1> QED
  BY <1>1, OptionInvInit, OptionInvStep, PTL DEF Spec

-----------------------------------------------------------------------------
(* Texts put together piece by piece                                       *)

(* Induction, with a set in the place of the predicate.                    *)
LEMMA EveryNumber ==
  ASSUME NEW S, 0 \in S, \A n \in Nat : n \in S => n + 1 \in S
  PROVE  \A n \in Nat : n \in S
<1> SUFFICES ASSUME NEW n \in Nat, n \notin S PROVE FALSE
  OBVIOUS
<1> DEFINE out == {m \in Nat : m \notin S}
<1>1. out \in SUBSET Nat /\ out # {}
  OBVIOUS
<1> HIDE DEF out
<1>2. PICK m \in out : \A x \in out : m <= x
  BY <1>1, LeastOf
<1>3. m \in Nat /\ m \notin S
  BY <1>2 DEF out
<1>4. m # 0 /\ m - 1 \in Nat /\ (m - 1) + 1 = m
  BY <1>3
<1>5. m - 1 \in S
  <2>1. m - 1 \notin out
    BY <1>2, <1>3, <1>4
  <2> QED
    BY <1>4, <2>1 DEF out
<1> QED
  BY <1>3, <1>4, <1>5

(* The recursive function that puts pieces together.                       *)
Concatenates(f, piece, n) ==
  f = [x \in 0 .. n |-> IF x = 0 THEN <<>> ELSE f[x - 1] \o piece[x]]

(* One piece more,                                                         *)
LEMMA ConcatenatesStep ==
  ASSUME NEW piece, NEW n \in Nat, NEW f, Concatenates(f, piece, n)
  PROVE  \E g : Concatenates(g, piece, n + 1)
<1> DEFINE g == [x \in 0 .. n + 1 |-> IF x = n + 1 THEN f[n] \o piece[x] ELSE f[x]]
           h == [x \in 0 .. n + 1 |-> IF x = 0 THEN <<>> ELSE g[x - 1] \o piece[x]]
<1>1. ASSUME NEW x \in 0 .. n + 1 PROVE g[x] = h[x]
  <2>1. CASE x = n + 1
    <3>1. x # 0 /\ x - 1 \in 0 .. n + 1 /\ x - 1 # n + 1 /\ x - 1 = n
      BY <2>1
    <3>2. g[x - 1] = f[n]
      BY <3>1
    <3> QED
      BY <2>1, <3>1, <3>2
  <2>2. CASE x # n + 1
    <3>1. x \in 0 .. n
      BY <2>2
    <3>2. x # 0 => x - 1 \in 0 .. n + 1 /\ x - 1 # n + 1
      BY <3>1
    <3>3. x # 0 => g[x - 1] = f[x - 1]
      BY <3>2
    <3>4. f[x] = IF x = 0 THEN <<>> ELSE f[x - 1] \o piece[x]
      BY <3>1, Zenon DEF Concatenates
    <3>5. g[x] = f[x]
      BY <2>2
    <3>6. h[x] = IF x = 0 THEN <<>> ELSE g[x - 1] \o piece[x]
      OBVIOUS
    <3> HIDE DEF g, h
    <3> QED
      BY <3>3, <3>4, <3>5, <3>6
  <2> QED
    BY <2>1, <2>2
<1>2. g = h
  <2> HIDE DEF h
  <2>1. DOMAIN g = DOMAIN h /\ h = [x \in DOMAIN h |-> h[x]]
    BY DEF h
  <2> QED
    BY <1>1, <2>1
<1>3. Concatenates(g, piece, n + 1)
  BY <1>2 DEF Concatenates
<1> QED
  BY <1>3

(* so that the function exists for any number of pieces.                   *)
LEMMA ConcatenationExists ==
  ASSUME NEW piece
  PROVE  \A n \in Nat : \E f : Concatenates(f, piece, n)
<1> DEFINE S == {n \in Nat : \E f : Concatenates(f, piece, n)}
<1>1. 0 \in S
  <2> DEFINE f == [x \in 0 .. 0 |-> <<>>]
  <2>1. f = [x \in 0 .. 0 |-> IF x = 0 THEN <<>> ELSE f[x - 1] \o piece[x]]
    <3>1. \A x \in 0 .. 0 : x = 0
      OBVIOUS
    <3> QED
      BY <3>1
  <2>2. Concatenates(f, piece, 0)
    BY <2>1 DEF Concatenates
  <2> QED
    BY <2>2
<1>2. \A n \in Nat : n \in S => n + 1 \in S
  BY ConcatenatesStep
<1> HIDE DEF S
<1>3. \A n \in Nat : n \in S
  BY <1>1, <1>2, EveryNumber
<1> QED
  BY <1>3 DEF S

(* A text that has been put together of pieces of S, one by one.           *)
Together(f, piece, n, S) ==
  /\ f[0] = <<>> /\ n \in Nat
  /\ \A x \in 1 .. n : f[x] = f[x - 1] \o piece[x] /\ piece[x] \in Seq(S)

(* The recursive function puts a text together.                            *)
LEMMA TogetherIs ==
  ASSUME NEW piece, NEW n \in Nat, NEW f, Concatenates(f, piece, n), NEW S,
         \A x \in 1 .. n : piece[x] \in Seq(S)
  PROVE  Together(f, piece, n, S)
<1>1. \A x \in 0 .. n : f[x] = IF x = 0 THEN <<>> ELSE f[x - 1] \o piece[x]
  BY Zenon DEF Concatenates
<1>2. f[0] = <<>>
  BY <1>1
<1>3. ASSUME NEW x \in 1 .. n PROVE f[x] = f[x - 1] \o piece[x]
  <2>1. x \in 0 .. n /\ x # 0
    OBVIOUS
  <2> QED
    BY <1>1, <2>1, Zenon
<1> QED
  BY <1>2, <1>3 DEF Together

(* Every beginning of the text is a sequence of S.                         *)
LEMMA TogetherTyped ==
  ASSUME NEW f, NEW piece, NEW n, NEW S, Together(f, piece, n, S)
  PROVE  \A x \in 0 .. n : f[x] \in Seq(S)
<1> DEFINE T == {x \in Nat : x <= n => f[x] \in Seq(S)}
<1>0. n \in Nat
  BY DEF Together
<1>1. 0 \in T
  <2>1. f[0] = <<>> /\ <<>> \in Seq(S)
    BY DEF Together
  <2> QED
    BY <2>1
<1>2. ASSUME NEW x \in Nat, x \in T PROVE x + 1 \in T
  <2> SUFFICES ASSUME x + 1 <= n PROVE f[x + 1] \in Seq(S)
    OBVIOUS
  <2>1. x + 1 \in 1 .. n /\ (x + 1) - 1 = x /\ x <= n
    BY <1>0
  <2>2. f[x + 1] = f[(x + 1) - 1] \o piece[x + 1] /\ piece[x + 1] \in Seq(S)
    BY <2>1 DEF Together
  <2>3. f[x] \in Seq(S)
    BY <1>2, <2>1
  <2> QED
    BY <2>1, <2>2, <2>3
<1> HIDE DEF T
<1>3. \A x \in Nat : x \in T
  BY <1>1, <1>2, EveryNumber
<1>4. \A x \in 0 .. n : x \in Nat /\ x <= n
  BY <1>0
<1> QED
  BY <1>3, <1>4 DEF T

(* It is the same text while the pieces are the same,                      *)
LEMMA TogetherSame ==
  ASSUME NEW f, NEW p, NEW n, NEW S, Together(f, p, n, S),
         NEW g, NEW q, NEW m, NEW R, Together(g, q, m, R),
         NEW k \in Nat, k <= n, k <= m, \A x \in 1 .. k : p[x] = q[x]
  PROVE  f[k] = g[k]
<1> DEFINE T == {x \in Nat : x <= k => f[x] = g[x]}
<1>0. n \in Nat /\ m \in Nat
  BY DEF Together
<1>1. 0 \in T
  BY DEF Together
<1>2. ASSUME NEW x \in Nat, x \in T PROVE x + 1 \in T
  <2> SUFFICES ASSUME x + 1 <= k PROVE f[x + 1] = g[x + 1]
    OBVIOUS
  <2>1. x + 1 \in 1 .. n /\ x + 1 \in 1 .. m /\ x + 1 \in 1 .. k /\ (x + 1) - 1 = x /\ x <= k
    BY <1>0
  <2>2. f[x + 1] = f[(x + 1) - 1] \o p[x + 1] /\ g[x + 1] = g[(x + 1) - 1] \o q[x + 1]
    BY <2>1 DEF Together
  <2>3. f[x] = g[x] /\ p[x + 1] = q[x + 1]
    BY <1>2, <2>1
  <2> QED
    BY <2>1, <2>2, <2>3
<1> HIDE DEF T
<1>3. \A x \in Nat : x \in T
  BY <1>1, <1>2, EveryNumber
<1> QED
  BY <1>3 DEF T

Skips(f, a, b) == f[b] = f[a]

(* empty pieces add nothing to it,                                         *)
LEMMA TogetherSkips ==
  ASSUME NEW f, NEW piece, NEW n, NEW S, Together(f, piece, n, S),
         NEW a \in Nat, NEW b \in Nat, a <= b, b <= n,
         \A x \in a + 1 .. b : piece[x] = <<>>
  PROVE  Skips(f, a, b)
<1> DEFINE T == {x \in Nat : a <= x /\ x <= b => f[x] = f[a]}
<1>0. n \in Nat /\ \A x \in 0 .. n : f[x] \in Seq(S)
  BY TogetherTyped DEF Together
<1>1. 0 \in T
  BY DEF Together
<1>2. ASSUME NEW x \in Nat, x \in T PROVE x + 1 \in T
  <2> SUFFICES ASSUME a <= x + 1, x + 1 <= b PROVE f[x + 1] = f[a]
    OBVIOUS
  <2>1. CASE x + 1 = a
    BY <2>1
  <2>2. CASE x + 1 # a
    <3>1. a <= x /\ x <= b /\ x + 1 \in 1 .. n /\ x + 1 \in a + 1 .. b /\ (x + 1) - 1 = x /\ x \in 0 .. n
      BY <1>0, <2>2
    <3>2. f[x + 1] = f[(x + 1) - 1] \o piece[x + 1]
      BY <3>1 DEF Together
    <3>3. f[x] = f[a] /\ piece[x + 1] = <<>> /\ f[x] \in Seq(S)
      BY <1>0, <1>2, <3>1
    <3> QED
      BY <3>1, <3>2, <3>3, ConcatEmptySeq
  <2> QED
    BY <2>1, <2>2
<1> HIDE DEF T
<1>3. \A x \in Nat : x \in T
  BY <1>1, <1>2, EveryNumber
<1> QED
  BY <1>3 DEF T, Skips

StretchOf(S, s, a, b, u) ==
  u \in Seq(S) /\ Len(u) = b + 1 - a /\ \A x \in 1 .. Len(u) : u[x] = s[a + x - 1]

(* Which characters a stretch has.                                         *)
LEMMA StretchIs ==
  ASSUME NEW S, NEW s \in Seq(S), NEW a \in Nat \ {0}, NEW b \in Nat, a <= b + 1, b <= Len(s),
         NEW u, u = SubSeq(s, a, b)
  PROVE  StretchOf(S, s, a, b, u)
BY DEF StretchOf

(* A stretch of a text, one character longer.                              *)
LEMMA OneMore ==
  ASSUME NEW S, NEW s \in Seq(S), NEW A \in Seq(S), NEW a \in Nat \ {0}, NEW b \in Nat,
         a <= b + 1, b + 1 <= Len(s)
  PROVE  (A \o SubSeq(s, a, b)) \o <<s[b + 1]>> = A \o SubSeq(s, a, b + 1)
<1>1. PICK u, v : u = SubSeq(s, a, b) /\ v = SubSeq(s, a, b + 1)
  OBVIOUS
<1>2. /\ u \in Seq(S) /\ Len(u) = b + 1 - a /\ \A x \in 1 .. Len(u) : u[x] = s[a + x - 1]
      /\ v \in Seq(S) /\ Len(v) = b + 2 - a /\ \A x \in 1 .. Len(v) : v[x] = s[a + x - 1]
  <2>1. a <= (b + 1) + 1 /\ b <= Len(s) /\ b + 1 \in Nat /\ (b + 1) + 1 - a = b + 2 - a
    OBVIOUS
  <2>2. StretchOf(S, s, a, b, u) /\ StretchOf(S, s, a, b + 1, v)
    BY <1>1, <2>1, StretchIs, Zenon
  <2> QED
    BY <2>1, <2>2, Zenon DEF StretchOf
<1>3. PICK w : w = <<s[b + 1]>>
  OBVIOUS
<1>4. w \in Seq(S) /\ Len(w) = 1 /\ w[1] = s[b + 1]
  <2>1. s[b + 1] \in S
    BY ElementOfSeq
  <2> QED
    BY <1>3, <2>1
<1>5. PICK c : c = u \o w
  OBVIOUS
<1>6. u \in Seq(S) /\ w \in Seq(S)
  BY <1>2, <1>4
<1>7. /\ c \in Seq(S) /\ Len(c) = Len(u) + Len(w)
      /\ \A x \in 1 .. Len(u) : c[x] = u[x]
      /\ \A x \in 1 .. Len(w) : c[Len(u) + x] = w[x]
  BY <1>5, <1>6, Appended
<1>8. Len(c) = Len(v)
  BY <1>2, <1>4, <1>7
<1>9. ASSUME NEW x \in 1 .. Len(c) PROVE c[x] = v[x]
  <2>1. x \in 1 .. Len(v) /\ v[x] = s[a + x - 1]
    BY <1>2, <1>8
  <2>2. CASE x \in 1 .. Len(u)
    BY <1>2, <1>7, <2>1, <2>2
  <2>3. CASE x \notin 1 .. Len(u)
    <3>1. x = Len(u) + 1 /\ a + x - 1 = b + 1
      BY <1>2, <1>8, <2>3
    <3>2. c[Len(u) + 1] = w[1]
      BY <1>4, <1>7
    <3> QED
      BY <1>4, <2>1, <3>1, <3>2
  <2> QED
    BY <2>2, <2>3
<1>10. c = v
  BY <1>2, <1>7, <1>8, <1>9, SeqEqual
<1>11. (A \o u) \o w = A \o (u \o w)
  BY <1>6
<1> QED
  BY <1>1, <1>3, <1>5, <1>10, <1>11

(* and a stretch of single characters is copied.                           *)
Stretch(piece, s, a, b, n) ==
  /\ a \in Nat /\ b \in Nat /\ a <= b /\ b <= n /\ b <= Len(s)
  /\ \A x \in a + 1 .. b : piece[x] = <<s[x]>>

Copies(f, s, a, b) == f[b] = f[a] \o SubSeq(s, a + 1, b)

(* A stretch of single characters is copied.                               *)
LEMMA TogetherCopies ==
  ASSUME NEW f, NEW piece, NEW n, NEW S, Together(f, piece, n, S), NEW s \in Seq(S),
         NEW a, NEW b, Stretch(piece, s, a, b, n)
  PROVE  Copies(f, s, a, b)
<1>12. /\ a \in Nat /\ b \in Nat /\ a <= b /\ b <= n /\ b <= Len(s)
       /\ \A x \in a + 1 .. b : piece[x] = <<s[x]>>
  BY DEF Stretch
<1> DEFINE Copied(x) == f[a] \o SubSeq(s, a + 1, x)
           T == {x \in Nat : a <= x /\ x <= b => f[x] = Copied(x)}
<1>0. n \in Nat /\ \A x \in 0 .. n : f[x] \in Seq(S)
  BY TogetherTyped DEF Together
<1>13. f[0] = <<>> /\ \A x \in 1 .. n : f[x] = f[x - 1] \o piece[x]
  BY DEF Together
<1>10. f[a] \in Seq(S) /\ Copied(a) = f[a]
  <2>1. f[a] \in Seq(S) /\ SubSeq(s, a + 1, a) = <<>>
    BY <1>0, <1>12
  <2> QED
    BY <2>1, ConcatEmptySeq
<1>11. ASSUME NEW x \in Nat, a <= x, x + 1 <= Len(s)
       PROVE  Copied(x) \o <<s[x + 1]>> = Copied(x + 1)
  <2>1. a + 1 \in Nat \ {0} /\ a + 1 <= x + 1
    BY <1>11, <1>12
  <2> QED
    BY <1>10, <1>11, <1>12, <2>1, OneMore
<1> HIDE DEF Copied
<1>1. 0 \in T
  <2> SUFFICES ASSUME a <= 0 PROVE f[0] = Copied(0)
    OBVIOUS
  <2>1. a = 0
    BY <1>12
  <2> QED
    BY <1>10, <2>1
<1>2. ASSUME NEW x \in Nat, x \in T PROVE x + 1 \in T
  <2> SUFFICES ASSUME a <= x + 1, x + 1 <= b PROVE f[x + 1] = Copied(x + 1)
    OBVIOUS
  <2>1. CASE x + 1 = a
    BY <1>10, <2>1
  <2>2. CASE x + 1 # a
    <3>1. a <= x /\ x <= b /\ x + 1 \in 1 .. n /\ x + 1 \in a + 1 .. b /\ (x + 1) - 1 = x /\ x + 1 <= Len(s)
      BY <1>0, <1>12, <2>2
    <3>2. f[x + 1] = f[(x + 1) - 1] \o piece[x + 1]
      BY <1>13, <3>1
    <3>3. f[x] = Copied(x) /\ piece[x + 1] = <<s[x + 1]>>
      BY <1>2, <1>12, <3>1
    <3> QED
      BY <1>11, <3>1, <3>2, <3>3
  <2> QED
    BY <2>1, <2>2
<1> HIDE DEF T
<1>3. \A x \in Nat : x \in T
  BY <1>1, <1>2, EveryNumber
<1>4. f[b] = Copied(b)
  BY <1>3, <1>12 DEF T
<1> QED
  BY <1>4 DEF Copied, Copies

-----------------------------------------------------------------------------
(* shell_expand() replaces every reference once                            *)

Characters == Expand!Characters
TextKnown == source \in Seq(Characters) /\ environment \in Environments
CharacterPieces == [q \in 1 .. Len(source) |-> Expand!Piece(q)]

(* What stands for a character is a text.                                  *)
LEMMA CharacterPieceTyped ==
  ASSUME TextKnown, NEW q \in 1 .. Len(source)
  PROVE  Expand!Piece(q) \in Seq(Characters)
<1>1. source[q] \in Characters
  BY ElementOfSeq DEF TextKnown
<1>2. <<source[q]>> \in Seq(Characters) /\ <<>> \in Seq(Characters)
  BY <1>1
<1>3. ASSUME NEW name PROVE Expand!Getenv(name) \in Seq(Characters)
  <2>1. CASE name \in DOMAIN environment
    <3>1. Expand!Getenv(name) = environment[name]
      BY <2>1, Zenon DEF Expand!Getenv
    <3> QED
      BY <2>1, <3>1, ExpandAssumption, Zenon DEF TextKnown, Characters
  <2>2. CASE name \notin DOMAIN environment
    BY <1>2, <2>2, Zenon DEF Expand!Getenv
  <2> QED
    BY <2>1, <2>2
<1> QED
  BY <1>2, <1>3, Zenon DEF Expand!Piece

(* The expansion is put together of what stands for each character.        *)
LEMMA ExpansionIs ==
  ASSUME TextKnown
  PROVE  Together(Expand!Expansion, CharacterPieces, Len(source), Characters)
<1>0. Len(source) \in Nat
  BY DEF TextKnown
<1>1. PICK n \in Nat : n = Len(source)
  BY <1>0
<1>2. PICK f : Concatenates(f, CharacterPieces, n)
  BY ConcatenationExists
<1>3. ASSUME NEW x \in 0 .. n, x # 0 PROVE CharacterPieces[x] = Expand!Piece(x)
  <2>1. x \in 1 .. n
    BY <1>3
  <2> QED
    BY <1>1, <2>1 DEF CharacterPieces
<1>4. ASSUME NEW g
      PROVE  Concatenates(g, CharacterPieces, n)
             <=> g = [x \in 0 .. Len(source) |-> IF x = 0 THEN <<>> ELSE g[x - 1] \o Expand!Piece(x)]
  <2>1. \A x \in 0 .. n : (IF x = 0 THEN <<>> ELSE g[x - 1] \o CharacterPieces[x])
                           = (IF x = 0 THEN <<>> ELSE g[x - 1] \o Expand!Piece(x))
    BY <1>3, Zenon
  <2>2. [x \in 0 .. n |-> IF x = 0 THEN <<>> ELSE g[x - 1] \o CharacterPieces[x]]
        = [x \in 0 .. n |-> IF x = 0 THEN <<>> ELSE g[x - 1] \o Expand!Piece(x)]
    BY <2>1, Zenon
  <2> QED
    BY <1>1, <2>2, Zenon DEF Concatenates
<1>5. Expand!Expansion = CHOOSE g : g = [x \in 0 .. Len(source) |-> IF x = 0 THEN <<>> ELSE g[x - 1] \o Expand!Piece(x)]
  BY Zenon DEF Expand!Expansion
<1>6. Concatenates(Expand!Expansion, CharacterPieces, n)
  BY <1>2, <1>4, <1>5, Zenon
<1>7. \A q \in 1 .. n : CharacterPieces[q] \in Seq(Characters)
  <2> SUFFICES ASSUME NEW q \in 1 .. n PROVE CharacterPieces[q] \in Seq(Characters)
    OBVIOUS
  <2>1. q \in 0 .. n /\ q # 0 /\ q \in 1 .. Len(source)
    BY <1>1
  <2> QED
    BY <1>3, <2>1, CharacterPieceTyped, Zenon
<1> QED
  BY <1>1, <1>6, <1>7, TogetherIs, Zenon

(* The first reference, and where its name ends.                           *)
LEMMA FirstIs ==
  ASSUME TextKnown, NEW P \in Nat, Expand!Found(P) # {}
  PROVE  /\ Expand!First(P) \in Nat /\ P <= Expand!First(P) /\ Expand!First(P) + 1 <= Len(source)
         /\ source[Expand!First(P)] = "$" /\ source[Expand!First(P) + 1] \in ShellLetters
         /\ \A q \in Expand!Found(P) : Expand!First(P) <= q
<1> DEFINE S == Expand!Found(P)
<1>1. S \in SUBSET Nat /\ S # {}
  BY DEF Expand!Found, TextKnown
<1>2. Expand!First(P) = Least(S)
  BY Zenon DEF Expand!First, Least
<1>3. Least(S) \in S /\ \A q \in S : Least(S) <= q
  <2> HIDE DEF S
  <2> QED
    BY <1>1, LeastOf
<1>4. Expand!First(P) \in Expand!Found(P)
  BY <1>2, <1>3
<1> QED
  BY <1>2, <1>3, <1>4 DEF Expand!Found, TextKnown

(* The name of a reference is as long as it can be.                        *)
LEMMA RunEndIs ==
  ASSUME TextKnown, NEW p \in Nat, p + 1 <= Len(source), source[p + 1] \in ShellLetters
  PROVE  /\ Expand!RunEnd(p) \in p + 1 .. Len(source)
         /\ \A q \in p + 1 .. Expand!RunEnd(p) : source[q] \in ShellLetters
         /\ Expand!RunEnd(p) = Len(source) \/ source[Expand!RunEnd(p) + 1] \notin ShellLetters
<1>1. PICK N \in Nat : N = Len(source)
  BY DEF TextKnown
<1> DEFINE out == {x \in Nat : x \in p + 1 .. N + 1 /\ (x = N + 1 \/ source[x] \notin ShellLetters)}
<1>2. out \in SUBSET Nat /\ N + 1 \in out
  BY <1>1
<1>3. PICK m \in out : \A x \in out : m <= x
  <2> HIDE DEF out
  <2> QED
    BY <1>2, LeastOf
<1>4. /\ m \in p + 1 .. N + 1 /\ (m = N + 1 \/ source[m] \notin ShellLetters)
      /\ \A x \in p + 1 .. N : x < m => source[x] \in ShellLetters
  BY <1>1, <1>3
<1>5. m # p + 1
  BY <1>1, <1>4
<1>6. PICK e : e = m - 1
  OBVIOUS
<1>7. /\ e \in p + 1 .. N /\ \A q \in p + 1 .. e : source[q] \in ShellLetters
      /\ e = N \/ source[e + 1] \notin ShellLetters
  <2>1. e \in p + 1 .. N /\ e + 1 = m
    BY <1>1, <1>4, <1>5, <1>6
  <2>2. \A q \in p + 1 .. e : q \in p + 1 .. N /\ q < m
    BY <1>1, <2>1, <1>4
  <2> QED
    BY <1>1, <1>4, <2>1, <2>2
<1> HIDE DEF out
<1> QED
  BY <1>1, <1>7, Zenon DEF Expand!RunEnd

(* In front of the first reference every character stands for itself, and  *)
(* in the reference the dollar stands for all.                             *)
LEMMA PlainPiece ==
  ASSUME TextKnown, NEW P \in Nat, P # 0, NEW b \in Nat, b <= Len(source),
         P <= Len(source) => ~Expand!Referring(P),
         \A x \in P .. b : x \notin Expand!Found(P)
  PROVE  \A q \in P .. b : Expand!Piece(q) = <<source[q]>> /\ ~Expand!Referring(q)
<1> SUFFICES ASSUME NEW q \in P .. b
             PROVE  Expand!Piece(q) = <<source[q]>> /\ ~Expand!Referring(q)
  OBVIOUS
<1>0. q \in Nat /\ P <= q /\ q <= Len(source) /\ P <= Len(source) /\ Len(source) \in Nat
  BY DEF TextKnown
<1>1. ASSUME Expand!Referring(q) PROVE FALSE
  <2>1. PICK d \in 1 .. q - 1 : source[d] = "$" /\ \A x \in d + 1 .. q : source[x] \in ShellLetters
    BY <1>1, Zenon DEF Expand!Referring
  <2>2. d + 1 \in d + 1 .. q
    BY <1>0, <2>1
  <2>3. source[d + 1] \in ShellLetters
    BY <2>1, <2>2, Zenon
  <2>4. CASE P <= d
    <3>1. d \in P .. Len(source) - 1 /\ d \in P .. b
      BY <1>0, <2>1, <2>4
    <3>2. d \in Expand!Found(P)
      BY <2>1, <2>3, <3>1, Zenon DEF Expand!Found
    <3> QED
      BY <3>1, <3>2
  <2>5. CASE ~(P <= d)
    <3>1. d \in 1 .. P - 1 /\ \A x \in d + 1 .. P : x \in d + 1 .. q
      BY <1>0, <2>1, <2>5
    <3>2. Expand!Referring(P)
      BY <2>1, <3>1, Zenon DEF Expand!Referring
    <3> QED
      BY <1>0, <3>2
  <2> QED
    BY <2>4, <2>5
<1>2. ASSUME source[q] = "$", q < Len(source), source[q + 1] \in ShellLetters PROVE FALSE
  <2>1. q \in P .. Len(source) - 1
    BY <1>0, <1>2
  <2>2. q \in Expand!Found(P)
    BY <1>2, <2>1, Zenon DEF Expand!Found
  <2> QED
    BY <2>2
<1> QED
  BY <1>1, <1>2, Zenon DEF Expand!Piece

(* The value stands for the whole reference.                               *)
LEMMA ReferencePieces ==
  ASSUME TextKnown, NEW p \in Nat, p # 0, NEW e \in p + 1 .. Len(source), source[p] = "$",
         \A q \in p + 1 .. e : source[q] \in ShellLetters, e = Expand!RunEnd(p)
  PROVE  /\ Expand!Piece(p) = Expand!Getenv(SubSeq(source, p + 1, e))
         /\ \A q \in p + 1 .. e : Expand!Piece(q) = <<>>
<1>0. Len(source) \in Nat /\ e \in Nat /\ p + 1 <= e /\ e <= Len(source) /\ p + 1 \in p + 1 .. e
  BY DEF TextKnown
<1>1. ~Expand!Referring(p)
  <2> SUFFICES ASSUME Expand!Referring(p) PROVE FALSE
    OBVIOUS
  <2>1. PICK d \in 1 .. p - 1 : \A x \in d + 1 .. p : source[x] \in ShellLetters
    BY Zenon DEF Expand!Referring
  <2>2. p \in d + 1 .. p
    BY <2>1
  <2> QED
    BY <2>1, <2>2, ExpandAssumption
<1>2. p < Len(source) /\ source[p + 1] \in ShellLetters
  BY <1>0
<1>3. ASSUME NEW q \in p + 1 .. e PROVE Expand!Piece(q) = <<>>
  <2>1. p \in 1 .. q - 1 /\ \A x \in p + 1 .. q : x \in p + 1 .. e
    BY <1>0
  <2>2. Expand!Referring(q)
    BY <2>1, Zenon DEF Expand!Referring
  <2> QED
    BY <2>2, Zenon DEF Expand!Piece
<1>4. Expand!Piece(p) = Expand!Getenv(SubSeq(source, p + 1, e))
  BY <1>1, <1>2, Zenon DEF Expand!Piece
<1> QED
  BY <1>3, <1>4

(* What one round of the loop adds to the expansion, and the rest.         *)
LEMMA MatchExpands ==
  ASSUME TextKnown, NEW P \in Nat, P # 0, P <= Len(source) => ~Expand!Referring(P),
         Expand!Found(P) # {}, NEW p, p = Expand!First(P), NEW e, e = Expand!RunEnd(p)
  PROVE  /\ e \in Nat /\ P <= e /\ e <= Len(source)
         /\ e < Len(source) => ~Expand!Referring(e + 1)
         /\ Expand!Expansion[e] = Expand!Expansion[P - 1] \o SubSeq(source, P, p - 1)
                                   \o Expand!Getenv(SubSeq(source, p + 1, e))
<1>1. /\ p \in Nat /\ P <= p /\ p + 1 <= Len(source) /\ source[p] = "$"
      /\ source[p + 1] \in ShellLetters /\ \A q \in Expand!Found(P) : p <= q
  BY FirstIs
<1>2. /\ e \in p + 1 .. Len(source) /\ \A q \in p + 1 .. e : source[q] \in ShellLetters
      /\ e = Len(source) \/ source[e + 1] \notin ShellLetters
  BY <1>1, RunEndIs
<1>3. Len(source) \in Nat /\ source \in Seq(Characters)
  BY DEF TextKnown
<1>4. Together(Expand!Expansion, CharacterPieces, Len(source), Characters)
  BY ExpansionIs
<1>5. \A q \in 1 .. Len(source) : CharacterPieces[q] = Expand!Piece(q)
  BY DEF CharacterPieces
<1>6. p - 1 \in Nat /\ P - 1 \in Nat /\ P - 1 <= p - 1 /\ p - 1 <= Len(source) /\ (P - 1) + 1 = P /\ p # 0
      /\ e \in Nat /\ p <= e /\ e <= Len(source) /\ p \in 1 .. Len(source) /\ P <= e
  BY <1>1, <1>2, <1>3
<1>7. \A q \in P .. p - 1 : CharacterPieces[q] = <<source[q]>>
  <2>1. \A x \in P .. p - 1 : x \notin Expand!Found(P)
    BY <1>1, <1>6
  <2>2. \A q \in P .. p - 1 : Expand!Piece(q) = <<source[q]>>
    BY <1>6, <2>1, PlainPiece
  <2>3. \A q \in P .. p - 1 : q \in 1 .. Len(source)
    BY <1>3, <1>6
  <2> QED
    BY <1>5, <2>2, <2>3, Zenon
<1>8. /\ Expand!Piece(p) = Expand!Getenv(SubSeq(source, p + 1, e))
      /\ \A q \in p + 1 .. e : Expand!Piece(q) = <<>>
  BY <1>1, <1>2, <1>6, ReferencePieces
<1>9. Expand!Expansion[p - 1] = Expand!Expansion[P - 1] \o SubSeq(source, P, p - 1)
  <2>1. \A q \in (P - 1) + 1 .. p - 1 : CharacterPieces[q] = <<source[q]>>
    BY <1>6, <1>7
  <2>2. Expand!Expansion[p - 1] = Expand!Expansion[P - 1] \o SubSeq(source, (P - 1) + 1, p - 1)
    <3>1. Stretch(CharacterPieces, source, P - 1, p - 1, Len(source))
      BY <1>6, <2>1, Zenon DEF Stretch
    <3> QED
      <4>1. Copies(Expand!Expansion, source, P - 1, p - 1)
        BY <1>3, <1>4, <3>1, TogetherCopies, Zenon
      <4> QED
        BY <4>1, Zenon DEF Copies
  <2> QED
    BY <1>6, <2>2
<1>10. Expand!Expansion[p] = Expand!Expansion[p - 1] \o Expand!Getenv(SubSeq(source, p + 1, e))
  <2>1. Expand!Expansion[p] = Expand!Expansion[p - 1] \o CharacterPieces[p]
    BY <1>4, <1>6, Zenon DEF Together
  <2> QED
    BY <1>5, <1>6, <1>8, <2>1, Zenon
<1>11. Expand!Expansion[e] = Expand!Expansion[p]
  <2>1. \A q \in p + 1 .. e : q \in 1 .. Len(source)
    BY <1>3, <1>6
  <2>2. \A q \in p + 1 .. e : CharacterPieces[q] = <<>>
    BY <1>5, <1>8, <2>1, Zenon
  <2>3. Skips(Expand!Expansion, p, e)
    BY <1>1, <1>4, <1>6, <2>2, TogetherSkips, Zenon
  <2> QED
    BY <2>3, Zenon DEF Skips
<1>12. ASSUME e < Len(source), Expand!Referring(e + 1) PROVE FALSE
  <2>1. PICK d \in 1 .. (e + 1) - 1 : \A x \in d + 1 .. e + 1 : source[x] \in ShellLetters
    BY <1>12, Zenon DEF Expand!Referring
  <2>2. e + 1 \in d + 1 .. e + 1
    BY <1>6, <2>1
  <2> QED
    BY <1>2, <1>12, <2>1, <2>2
<1> QED
  BY <1>6, <1>9, <1>10, <1>11, <1>12, Zenon

(* What follows the last reference stands for itself.                      *)
LEMMA RestExpands ==
  ASSUME TextKnown, NEW P \in Nat, P # 0, P <= Len(source) + 1,
         P <= Len(source) => ~Expand!Referring(P), Expand!Found(P) = {}
  PROVE  Expand!Expansion[Len(source)]
           = Expand!Expansion[P - 1] \o SubSeq(source, P, Len(source))
<1>1. PICK N \in Nat : N = Len(source)
  BY DEF TextKnown
<1>2. Together(Expand!Expansion, CharacterPieces, N, Characters) /\ source \in Seq(Characters)
  BY <1>1, ExpansionIs DEF TextKnown
<1>3. P - 1 \in Nat /\ P - 1 <= N /\ (P - 1) + 1 = P
  BY <1>1
<1>4. \A q \in P .. N : Expand!Piece(q) = <<source[q]>>
  BY <1>1, PlainPiece
<1>5. \A q \in P .. N : q \in 1 .. N
  BY <1>1
<1>6. \A q \in (P - 1) + 1 .. N : CharacterPieces[q] = <<source[q]>>
  BY <1>1, <1>3, <1>4, <1>5 DEF CharacterPieces
<1>7. Expand!Expansion[N] = Expand!Expansion[P - 1] \o SubSeq(source, (P - 1) + 1, N)
  <2>1. N <= N /\ N <= Len(source)
    BY <1>1
  <2>2. Stretch(CharacterPieces, source, P - 1, N, N)
    BY <1>3, <1>6, <2>1, Zenon DEF Stretch
  <2> QED
    <3>1. Copies(Expand!Expansion, source, P - 1, N)
      BY <1>2, <2>2, TogetherCopies, Zenon
    <3> QED
      BY <3>1, Zenon DEF Copies
<1> QED
  BY <1>1, <1>3, <1>7

(* What has been written is the expansion of what has been read, and the   *)
(* search does not go on inside a reference.                               *)
ExpandInv ==
  part = "shell_expand" =>
    /\ TextKnown /\ Len(source) <= MaxText
    /\ last_match \in 0 .. Len(source) + 2
    /\ last_match <= Len(source) + 1 =>
          /\ expanded = Expand!Expansion[Expand!Position - 1]
          /\ Expand!Position <= Len(source) => ~Expand!Referring(Expand!Position)
    /\ last_match = Len(source) + 2 => expanded = Expand!Expansion[Len(source)]

(* Nothing has been read and nothing written,                              *)
LEMMA ExpandInvInit == Init => ExpandInv
<1> SUFFICES ASSUME Init, part = "shell_expand" PROVE ExpandInv
  BY DEF ExpandInv
<1>1. Expand!ExpandInit
  BY DEF Init
<1>2. environment \in Environments /\ last_match = 0 /\ expanded = <<>> /\ source \in Expand!Everything
  BY <1>1, Zenon DEF Expand!ExpandInit
<1>3. PICK n \in 0 .. MaxText : source \in [1 .. n -> Characters]
  BY <1>2 DEF Expand!Everything, Characters
<1>4. n \in Nat /\ n <= MaxText
  BY <1>3, ExpandAssumption
<1>5. source \in Seq(Characters) /\ Len(source) = n
  BY <1>3, <1>4
<1>6. TextKnown
  BY <1>2, <1>5 DEF TextKnown
<1>7. Expand!Position = 1
  BY <1>2 DEF Expand!Position
<1>8. Expand!Expansion[0] = <<>>
  BY <1>6, ExpansionIs, Zenon DEF Together
<1>9. ~Expand!Referring(1)
  BY DEF Expand!Referring
<1>10. expanded = Expand!Expansion[Expand!Position - 1]
  <2>1. Expand!Position - 1 = 0
    BY <1>7
  <2> QED
    BY <1>2, <1>8, <2>1
<1>11. last_match \in 0 .. Len(source) + 2 /\ last_match # Len(source) + 2
  BY <1>2, <1>4, <1>5
<1> QED
  BY <1>4, <1>5, <1>6, <1>7, <1>9, <1>10, <1>11 DEF ExpandInv

(* (the expansion depends on the text and on the environment alone)        *)
LEMMA ExpansionSame ==
  ASSUME source' = source, environment' = environment
  PROVE  /\ Expand!Expansion' = Expand!Expansion
         /\ \A P : Expand!Referring(P)' <=> Expand!Referring(P)
  BY DEF Expand!Expansion, Expand!Referring, Expand!Piece, Expand!Getenv, Expand!RunEnd

(* every round writes the expansion of what it reads,                      *)
LEMMA ExpandInvStep == ExpandInv /\ [Next]_allVars => ExpandInv'
<1> SUFFICES ASSUME ExpandInv, [Next]_allVars, part' = "shell_expand" PROVE ExpandInv'
  BY DEF ExpandInv
<1>0. ASSUME source' = source, environment' = environment, last_match' = last_match,
             expanded' = expanded, part = "shell_expand"
      PROVE  ExpandInv'
  <2>1. Expand!Position' = Expand!Position
    BY <1>0 DEF Expand!Position
  <2>2. Expand!Expansion' = Expand!Expansion /\ \A P : Expand!Referring(P)' <=> Expand!Referring(P)
    BY <1>0, ExpansionSame
  <2>3. /\ TextKnown /\ Len(source) <= MaxText
        /\ last_match \in 0 .. Len(source) + 2
        /\ last_match <= Len(source) + 1 =>
              /\ expanded = Expand!Expansion[Expand!Position - 1]
              /\ Expand!Position <= Len(source) => ~Expand!Referring(Expand!Position)
        /\ last_match = Len(source) + 2 => expanded = Expand!Expansion[Len(source)]
    BY <1>0 DEF ExpandInv
  <2>4. TextKnown'
    BY <1>0, <2>3, Zenon DEF TextKnown
  <2>5. Expand!Referring(Expand!Position)' <=> Expand!Referring(Expand!Position)
    BY <1>0, <2>1 DEF Expand!Referring
  <2> QED
    BY <1>0, <2>1, <2>2, <2>3, <2>4, <2>5, Zenon DEF ExpandInv
<1>1. ASSUME Expand!ExpandNext, part = "shell_expand" PROVE ExpandInv'
  <2> DEFINE P == Expand!Position
             N == Len(source)
  <2>1. /\ TextKnown /\ N <= MaxText /\ last_match \in 0 .. N + 2
        /\ last_match <= N + 1 =>
              /\ expanded = Expand!Expansion[P - 1]
              /\ P <= N => ~Expand!Referring(P)
    BY <1>1 DEF ExpandInv
  <2>2. N \in Nat
    BY <2>1 DEF TextKnown
  <2>3. source' = source /\ environment' = environment
    BY <1>1 DEF Expand!ExpandNext, Expand!Match, Expand!Rest
  <2>4. /\ Expand!Expansion' = Expand!Expansion
        /\ \A q : Expand!Referring(q)' <=> Expand!Referring(q)
    BY <2>3, ExpansionSame
  <2>5. TextKnown' /\ Len(source') = N
    BY <2>1, <2>3, Zenon DEF TextKnown
  <2>6. last_match <= N + 1 => P \in Nat /\ P # 0 /\ P <= N + 1
    BY <2>1, <2>2 DEF Expand!Position
  <2> HIDE DEF P, N
  <2>7. CASE Expand!Match
    <3> DEFINE p == Expand!First(P)
               e == Expand!RunEnd(p)
    <3>1. /\ last_match <= N /\ Expand!Found(P) # {}
          /\ expanded' = expanded \o SubSeq(source, P, p - 1)
                                  \o Expand!Getenv(SubSeq(source, p + 1, e))
          /\ last_match' = e + 1
      BY <2>7 DEF Expand!Match, P, N
    <3>2. last_match <= N + 1
      BY <2>1, <2>2, <3>1
    <3>3. P \in Nat /\ P # 0 /\ (P <= N => ~Expand!Referring(P)) /\ expanded = Expand!Expansion[P - 1]
      BY <2>1, <2>6, <3>2, Zenon
    <3>4. /\ e \in Nat /\ P <= e /\ e <= Len(source)
          /\ e < Len(source) => ~Expand!Referring(e + 1)
          /\ Expand!Expansion[e] = Expand!Expansion[P - 1] \o SubSeq(source, P, p - 1)
                                   \o Expand!Getenv(SubSeq(source, p + 1, e))
      BY <2>1, <3>1, <3>3, MatchExpands, Zenon DEF N
    <3> HIDE DEF p, e
    <3>5. expanded' = Expand!Expansion[e]
      BY <3>1, <3>3, <3>4, Zenon
    <3>6. e <= N /\ (e + 1 <= N => ~Expand!Referring(e + 1))
      BY <2>2, <3>4 DEF N
    <3>7. last_match' \in 0 .. N + 2 /\ last_match' # 0 /\ last_match' # N + 2
      BY <2>2, <3>1, <3>4, <3>6
    <3>8. Expand!Position' = e + 1 /\ (e + 1) - 1 = e
      BY <3>1, <3>4, <3>7 DEF Expand!Position
    <3>9. Expand!Referring(Expand!Position)' <=> Expand!Referring(e + 1)
      BY <2>3, <3>8 DEF Expand!Referring
    <3> QED
      BY <2>1, <2>3, <2>4, <2>5, <3>5, <3>6, <3>7, <3>8, <3>9, Zenon DEF ExpandInv
  <2>8. CASE Expand!Rest
    <3>1. /\ last_match <= N + 1 /\ Expand!Found(P) = {}
          /\ expanded' = expanded \o SubSeq(source, P, N) /\ last_match' = N + 2
      BY <2>8 DEF Expand!Rest, P, N
    <3>2. P \in Nat /\ P # 0 /\ P <= N + 1 /\ (P <= N => ~Expand!Referring(P)) /\ expanded = Expand!Expansion[P - 1]
      BY <2>1, <2>6, <3>1, Zenon
    <3>3. Expand!Expansion[N] = Expand!Expansion[P - 1] \o SubSeq(source, P, N)
      BY <2>1, <3>1, <3>2, RestExpands, Zenon DEF N
    <3>4. expanded' = Expand!Expansion[N]
      BY <3>1, <3>2, <3>3, Zenon
    <3>5. last_match' \in 0 .. N + 2 /\ ~(last_match' <= N + 1)
      BY <2>2, <3>1
    <3> QED
      BY <2>1, <2>3, <2>4, <2>5, <3>4, <3>5, Zenon DEF ExpandInv
  <2> QED
    BY <1>1, <2>7, <2>8 DEF Expand!ExpandNext
<1>2. CASE UNCHANGED allVars
  <2>1. /\ part' = part /\ source' = source /\ environment' = environment
        /\ last_match' = last_match /\ expanded' = expanded
    BY <1>2 DEF allVars, otherVars
  <2> QED
    BY <1>0, <2>1
<1>3. ASSUME Next PROVE Expand!ExpandNext /\ part = "shell_expand"
  BY <1>3 DEF Next
<1> QED
  <2>1. Next \/ UNCHANGED allVars
    OBVIOUS
  <2> QED
    BY <1>1, <1>2, <1>3, <2>1

(* and in the end all has been read.                                       *)
LEMMA ExpandInvExact ==
  ASSUME ExpandInv, part = "shell_expand"
  PROVE  Expand!ExpandTypeOK /\ Expand!ExpandsOnce
<1>1. /\ TextKnown /\ Len(source) <= MaxText
      /\ last_match \in 0 .. Len(source) + 2
      /\ last_match <= Len(source) + 1 => expanded = Expand!Expansion[Expand!Position - 1]
      /\ last_match = Len(source) + 2 => expanded = Expand!Expansion[Len(source)]
  BY DEF ExpandInv
<1>2. Len(source) \in Nat /\ MaxText \in Nat /\ source \in Seq(Characters)
  BY <1>1, ExpandAssumption DEF TextKnown
<1>3. \A q \in 0 .. Len(source) : Expand!Expansion[q] \in Seq(Characters)
  BY <1>1, ExpansionIs, TogetherTyped, Zenon
<1>4. expanded \in Seq(Characters)
  <2>1. CASE last_match = Len(source) + 2
    <3>1. Len(source) \in 0 .. Len(source)
      BY <1>2
    <3> QED
      BY <1>1, <1>3, <2>1, <3>1, Zenon
  <2>2. CASE last_match # Len(source) + 2
    <3>1. last_match <= Len(source) + 1 /\ Expand!Position - 1 \in 0 .. Len(source)
      BY <1>1, <1>2, <2>2 DEF Expand!Position
    <3> QED
      BY <1>1, <1>3, <3>1, Zenon
  <2> QED
    BY <2>1, <2>2
<1>5. last_match \in 0 .. MaxText + 2
  BY <1>1, <1>2
<1> QED
  BY <1>1, <1>2, <1>4, <1>5, Zenon DEF Expand!ExpandTypeOK, Expand!ExpandsOnce, Characters

-----------------------------------------------------------------------------
(* join() undoes split()                                                   *)

JoinPieces(list, sep) == [n \in 1 .. Len(list) |-> IF n = 1 THEN list[1] ELSE sep \o list[n]]

(* The recursive function of Join.                                         *)
Joining(f, list, sep) ==
  f = [n \in 0 .. Len(list) |->
         IF n = 0 THEN <<>> ELSE IF n = 1 THEN list[1] ELSE f[n - 1] \o sep \o list[n]]

JoinPieceIs(S, list, sep, x) ==
  /\ list[x] \in Seq(S) /\ JoinPieces(list, sep)[x] \in Seq(S)
  /\ JoinPieces(list, sep)[x] = IF x = 1 THEN list[1] ELSE sep \o list[x]

(* What join() writes for one piece.                                       *)
LEMMA JoinPieceTyped ==
  ASSUME NEW S, NEW list \in Seq(Seq(S)), NEW sep \in Seq(S), NEW x \in 1 .. Len(list)
  PROVE  JoinPieceIs(S, list, sep, x)
<1>1. list[x] \in Seq(S)
  BY ElementOfSeq
<1>2. sep \o list[x] \in Seq(S)
  BY <1>1
<1>3. JoinPieces(list, sep)[x] = IF x = 1 THEN list[1] ELSE sep \o list[x]
  BY Zenon DEF JoinPieces
<1> QED
  BY <1>1, <1>2, <1>3, Zenon DEF JoinPieceIs

Associate(a, b, c) == a \o (b \o c) = (a \o b) \o c

(* Texts may be put together from either end.                              *)
LEMMA Associates ==
  ASSUME NEW S, NEW a \in Seq(S), NEW b \in Seq(S), NEW c \in Seq(S)
  PROVE  Associate(a, b, c)
BY DEF Associate

(* The recursive function of Join exists,                                  *)
LEMMA JoiningExists ==
  ASSUME NEW S, NEW list \in Seq(Seq(S)), NEW sep \in Seq(S)
  PROVE  \E f : Joining(f, list, sep)
<1>1. PICK n \in Nat : n = Len(list)
  OBVIOUS
<1>2. PICK f : Concatenates(f, JoinPieces(list, sep), n)
  BY ConcatenationExists
<1>3. \A x \in 1 .. n : /\ list[x] \in Seq(S)
                        /\ JoinPieces(list, sep)[x] \in Seq(S)
                        /\ JoinPieces(list, sep)[x] = IF x = 1 THEN list[1] ELSE sep \o list[x]
  <2>1. \A x \in 1 .. n : JoinPieceIs(S, list, sep, x)
    BY <1>1, JoinPieceTyped, Zenon
  <2> QED
    BY <2>1, Zenon DEF JoinPieceIs
<1>4. Together(f, JoinPieces(list, sep), n, S)
  BY <1>2, <1>3, TogetherIs, Zenon
<1>5. \A x \in 0 .. n : f[x] \in Seq(S)
  BY <1>4, TogetherTyped
<1>6. ASSUME NEW x \in 0 .. n
      PROVE (IF x = 0 THEN <<>> ELSE f[x - 1] \o JoinPieces(list, sep)[x])
            = IF x = 0 THEN <<>> ELSE IF x = 1 THEN list[1] ELSE f[x - 1] \o sep \o list[x]
  <2>1. CASE x = 0
    BY <2>1
  <2>2. CASE x = 1
    <3>1. x \in 1 .. n /\ x - 1 = 0
      BY <2>2
    <3>2. f[x - 1] = <<>> /\ JoinPieces(list, sep)[x] = list[1] /\ list[1] \in Seq(S)
      BY <1>3, <1>4, <2>2, <3>1 DEF Together
    <3> QED
      BY <2>2, <3>2, ConcatEmptySeq
  <2>3. CASE x # 0 /\ x # 1
    <3>1. x \in 1 .. n /\ x - 1 \in 0 .. n
      BY <2>3
    <3>2. f[x - 1] \in Seq(S) /\ list[x] \in Seq(S) /\ JoinPieces(list, sep)[x] = sep \o list[x]
      BY <1>3, <1>5, <2>3, <3>1
    <3>3. Associate(f[x - 1], sep, list[x])
      BY <3>2, Associates, Zenon
    <3> QED
      BY <2>3, <3>2, <3>3, Zenon DEF Associate
  <2> QED
    BY <2>1, <2>2, <2>3
<1>7. Joining(f, list, sep)
  <2>1. [x \in 0 .. n |-> IF x = 0 THEN <<>> ELSE f[x - 1] \o JoinPieces(list, sep)[x]]
        = [x \in 0 .. n |-> IF x = 0 THEN <<>> ELSE IF x = 1 THEN list[1] ELSE f[x - 1] \o sep \o list[x]]
    BY <1>6, Zenon
  <2> QED
    BY <1>1, <1>2, <2>1, Zenon DEF Joining, Concatenates
<1> QED
  BY <1>7

JoinTexts(list, sep) == CHOOSE f : Joining(f, list, sep)

(* and puts together what it writes for each piece.                        *)
LEMMA JoinIs ==
  ASSUME NEW S, NEW list \in Seq(Seq(S)), NEW sep \in Seq(S)
  PROVE  /\ Together(JoinTexts(list, sep), JoinPieces(list, sep), Len(list), S)
         /\ Pieces!Join(list, sep) = JoinTexts(list, sep)[Len(list)]
<1>1. PICK n \in Nat : n = Len(list)
  OBVIOUS
<1>2. PICK f : f = JoinTexts(list, sep)
  OBVIOUS
<1>3. Joining(f, list, sep)
  BY <1>2, JoiningExists, Zenon DEF JoinTexts
<1>4. \A x \in 0 .. n : f[x] = IF x = 0 THEN <<>> ELSE IF x = 1 THEN list[1] ELSE f[x - 1] \o sep \o list[x]
  BY <1>1, <1>3, Zenon DEF Joining
<1>5. \A x \in 1 .. n : /\ list[x] \in Seq(S)
                        /\ JoinPieces(list, sep)[x] \in Seq(S)
                        /\ JoinPieces(list, sep)[x] = IF x = 1 THEN list[1] ELSE sep \o list[x]
  <2>1. \A x \in 1 .. n : JoinPieceIs(S, list, sep, x)
    BY <1>1, JoinPieceTyped, Zenon
  <2> QED
    BY <2>1, Zenon DEF JoinPieceIs
<1> DEFINE T == {x \in Nat : x <= n => f[x] \in Seq(S)}
<1>6. f[0] = <<>>
  <2>1. 0 \in 0 .. n
    OBVIOUS
  <2> QED
    BY <1>4, <2>1, Zenon
<1>7. 0 \in T
  <2>1. <<>> \in Seq(S)
    OBVIOUS
  <2> QED
    BY <1>6, <2>1
<1>8. ASSUME NEW x \in Nat, x \in T PROVE x + 1 \in T
  <2> SUFFICES ASSUME x + 1 <= n PROVE f[x + 1] \in Seq(S)
    OBVIOUS
  <2>1. x + 1 \in 1 .. n /\ x + 1 \in 0 .. n /\ x + 1 # 0 /\ x <= n /\ (x + 1) - 1 = x
    OBVIOUS
  <2>2. f[x] \in Seq(S) /\ list[x + 1] \in Seq(S)
    BY <1>5, <1>8, <2>1
  <2>3. f[x + 1] = IF x + 1 = 1 THEN list[1] ELSE f[(x + 1) - 1] \o sep \o list[x + 1]
    BY <1>4, <2>1, Zenon
  <2>4. f[x] \o sep \o list[x + 1] \in Seq(S)
    BY <2>2
  <2> QED
    BY <2>1, <2>2, <2>3, <2>4
<1> HIDE DEF T
<1>9. \A x \in Nat : x \in T
  BY <1>7, <1>8, EveryNumber
<1>10. \A x \in 0 .. n : f[x] \in Seq(S)
  BY <1>9 DEF T
<1>11. ASSUME NEW x \in 1 .. n PROVE f[x] = f[x - 1] \o JoinPieces(list, sep)[x]
  <2>1. x \in 0 .. n /\ x # 0 /\ x - 1 \in 0 .. n
    OBVIOUS
  <2>2. f[x] = IF x = 1 THEN list[1] ELSE f[x - 1] \o sep \o list[x]
    BY <1>4, <2>1, Zenon
  <2>3. list[x] \in Seq(S) /\ f[x - 1] \in Seq(S)
        /\ JoinPieces(list, sep)[x] = IF x = 1 THEN list[1] ELSE sep \o list[x]
    BY <1>5, <1>10, <2>1
  <2>4. CASE x = 1
    <3>1. f[x - 1] = <<>>
      BY <1>6, <2>4
    <3> QED
      BY <2>2, <2>3, <2>4, <3>1, ConcatEmptySeq
  <2>5. CASE x # 1
    <3>1. Associate(f[x - 1], sep, list[x])
      BY <2>3, Associates, Zenon
    <3> QED
      BY <2>2, <2>3, <2>5, <3>1, Zenon DEF Associate
  <2> QED
    BY <2>4, <2>5
<1>12. Together(f, JoinPieces(list, sep), n, S)
  BY <1>5, <1>6, <1>11 DEF Together
<1>13. Pieces!Join(list, sep) = f[Len(list)]
  BY <1>2, Zenon DEF Pieces!Join, JoinTexts, Joining
<1> QED
  BY <1>1, <1>2, <1>12, <1>13, Zenon

(* What join() makes of one piece more.                                    *)
JoinedUp(list, sep) == IF list = <<>> THEN <<>> ELSE Pieces!Join(list, sep) \o sep
JoinsOneMore(list, sep, x) == Pieces!Join(Append(list, x), sep) = JoinedUp(list, sep) \o x

(* It is a text,                                                           *)
LEMMA JoinTyped ==
  ASSUME NEW S, NEW list \in Seq(Seq(S)), NEW sep \in Seq(S)
  PROVE  Pieces!Join(list, sep) \in Seq(S) /\ JoinedUp(list, sep) \in Seq(S)
<1>1. Pieces!Join(list, sep) = JoinTexts(list, sep)[Len(list)]
      /\ Together(JoinTexts(list, sep), JoinPieces(list, sep), Len(list), S)
  BY JoinIs, Zenon
<1>2. Len(list) \in 0 .. Len(list)
  OBVIOUS
<1>3. Pieces!Join(list, sep) \in Seq(S)
  BY <1>1, <1>2, TogetherTyped, Zenon
<1>4. PICK t : t = Pieces!Join(list, sep)
  OBVIOUS
<1>5. t \o sep \in Seq(S) /\ <<>> \in Seq(S)
  BY <1>3, <1>4
<1> QED
  BY <1>3, <1>4, <1>5, Zenon DEF JoinedUp

(* and one piece more comes behind a separator.                            *)
LEMMA JoinAppend ==
  ASSUME NEW S, NEW list \in Seq(Seq(S)), NEW sep \in Seq(S), NEW x \in Seq(S)
  PROVE  JoinsOneMore(list, sep, x)
<1>1. PICK n \in Nat : n = Len(list)
  OBVIOUS
<1>2. PICK more : more = Append(list, x)
  OBVIOUS
<1>3. more \in Seq(Seq(S)) /\ Len(more) = n + 1 /\ more[n + 1] = x /\ \A m \in 1 .. n : more[m] = list[m]
  BY <1>1, <1>2
<1>4. PICK f, g : f = JoinTexts(list, sep) /\ g = JoinTexts(more, sep)
  OBVIOUS
<1>5. Together(f, JoinPieces(list, sep), n, S) /\ Pieces!Join(list, sep) = f[n]
  BY <1>1, <1>4, JoinIs, Zenon
<1>6. Together(g, JoinPieces(more, sep), n + 1, S) /\ Pieces!Join(more, sep) = g[n + 1]
  BY <1>3, <1>4, JoinIs, Zenon
<1>7. \A m \in 1 .. n + 1 : JoinPieces(more, sep)[m] = IF m = 1 THEN more[1] ELSE sep \o more[m]
  <2>1. \A m \in 1 .. n + 1 : JoinPieceIs(S, more, sep, m)
    BY <1>3, JoinPieceTyped, Zenon
  <2> QED
    BY <2>1, Zenon DEF JoinPieceIs
<1>8. \A m \in 1 .. n : JoinPieces(list, sep)[m] = IF m = 1 THEN list[1] ELSE sep \o list[m]
  <2>1. \A m \in 1 .. n : JoinPieceIs(S, list, sep, m)
    BY <1>1, JoinPieceTyped, Zenon
  <2> QED
    BY <2>1, Zenon DEF JoinPieceIs
<1>9. ASSUME NEW m \in 1 .. n PROVE JoinPieces(list, sep)[m] = JoinPieces(more, sep)[m]
  <2>1. m \in 1 .. n + 1 /\ 1 \in 1 .. n
    OBVIOUS
  <2>2. more[m] = list[m] /\ more[1] = list[1]
    BY <1>3, <2>1
  <2> QED
    BY <1>7, <1>8, <2>1, <2>2, Zenon
<1>10. f[n] = g[n]
  <2>1. n <= n /\ n <= n + 1
    OBVIOUS
  <2> QED
    BY <1>5, <1>6, <1>9, <2>1, TogetherSame
<1>11. g[n + 1] = g[n] \o JoinPieces(more, sep)[n + 1]
  <2>1. n + 1 \in 1 .. n + 1 /\ (n + 1) - 1 = n
    OBVIOUS
  <2> QED
    BY <1>6, <2>1 DEF Together
<1>12. JoinPieces(more, sep)[n + 1] = IF n = 0 THEN x ELSE sep \o x
  <2>1. n + 1 \in 1 .. n + 1 /\ (n + 1 = 1 <=> n = 0)
    OBVIOUS
  <2>2. n + 1 = 1 => more[1] = x
    BY <1>3
  <2> QED
    BY <1>3, <1>7, <2>1, <2>2, Zenon
<1>13. CASE n = 0
  <2>1. list = <<>> /\ g[n] = <<>>
    <3>1. g[0] = <<>>
      BY <1>6 DEF Together
    <3>2. list = <<>>
      BY <1>1, <1>13, EmptySeq
    <3> QED
      BY <1>13, <3>1, <3>2, Zenon
  <2>2. JoinedUp(list, sep) = <<>>
    BY <2>1 DEF JoinedUp
  <2> QED
    BY <1>2, <1>6, <1>11, <1>12, <1>13, <2>1, <2>2, Zenon DEF JoinsOneMore
<1>14. CASE n # 0
  <2>1. list # <<>>
    BY <1>1, <1>14
  <2>2. f[n] \in Seq(S)
    BY <1>5, JoinTyped, Zenon
  <2>3. Associate(f[n], sep, x)
    BY <2>2, Associates, Zenon
  <2>4. JoinedUp(list, sep) = f[n] \o sep
    BY <1>5, <2>1, Zenon DEF JoinedUp
  <2> QED
    BY <1>2, <1>6, <1>10, <1>11, <1>12, <1>14, <2>3, <2>4, Zenon DEF JoinsOneMore, Associate
<1> QED
  BY <1>13, <1>14

(* A prefix of a text, and what follows it.                                *)
Prefix(s, a) == SubSeq(s, 1, a)
Grows(s, a, b) == Prefix(s, a) \o SubSeq(s, a + 1, b) = Prefix(s, b)

(* A prefix and what follows it are a longer prefix.                       *)
LEMMA PrefixGrows ==
  ASSUME NEW S, NEW s \in Seq(S), NEW a \in Nat, NEW b \in Nat, a <= b, b <= Len(s)
  PROVE  Grows(s, a, b)
<1>1. PICK u, v, w : u = SubSeq(s, 1, a) /\ v = SubSeq(s, a + 1, b) /\ w = SubSeq(s, 1, b)
  OBVIOUS
<1>2. /\ u \in Seq(S) /\ Len(u) = a /\ \A x \in 1 .. a : u[x] = s[x]
      /\ v \in Seq(S) /\ Len(v) = b - a /\ \A x \in 1 .. b - a : v[x] = s[a + x]
      /\ w \in Seq(S) /\ Len(w) = b /\ \A x \in 1 .. b : w[x] = s[x]
  <2>1. /\ 1 \in Nat \ {0} /\ a + 1 \in Nat \ {0} /\ 1 <= a + 1 /\ a + 1 <= b + 1 /\ 1 <= b + 1
        /\ a <= Len(s)
    OBVIOUS
  <2>2. StretchOf(S, s, 1, a, u) /\ StretchOf(S, s, a + 1, b, v) /\ StretchOf(S, s, 1, b, w)
    BY <1>1, <2>1, StretchIs, Zenon
  <2>3. /\ u \in Seq(S) /\ Len(u) = a + 1 - 1 /\ \A x \in 1 .. Len(u) : u[x] = s[1 + x - 1]
        /\ v \in Seq(S) /\ Len(v) = b + 1 - (a + 1) /\ \A x \in 1 .. Len(v) : v[x] = s[(a + 1) + x - 1]
        /\ w \in Seq(S) /\ Len(w) = b + 1 - 1 /\ \A x \in 1 .. Len(w) : w[x] = s[1 + x - 1]
    BY <2>2, Zenon DEF StretchOf
  <2>4. a + 1 - 1 = a /\ b + 1 - (a + 1) = b - a /\ b + 1 - 1 = b
    OBVIOUS
  <2>5. \A x \in Nat : 1 + x - 1 = x /\ (a + 1) + x - 1 = a + x
    OBVIOUS
  <2>6. \A n, x : x \in 1 .. n => x \in Nat
    BY SMT
  <2> QED
    BY <2>3, <2>4, <2>5, <2>6, Zenon
<1>3. PICK c : c = u \o v
  OBVIOUS
<1>4. /\ c \in Seq(S) /\ Len(c) = Len(u) + Len(v)
      /\ \A x \in 1 .. Len(u) : c[x] = u[x]
      /\ \A x \in 1 .. Len(v) : c[Len(u) + x] = v[x]
  <2>1. u \in Seq(S) /\ v \in Seq(S)
    BY <1>2
  <2> QED
    BY <1>3, <2>1, Appended
<1>5. Len(c) = Len(w)
  BY <1>2, <1>4
<1>6. ASSUME NEW x \in 1 .. Len(c) PROVE c[x] = w[x]
  <2>1. CASE x <= a
    BY <1>2, <1>4, <1>5, <2>1
  <2>2. CASE ~(x <= a)
    <3>1. x - a \in 1 .. b - a /\ a + (x - a) = x /\ x \in 1 .. b
      BY <1>2, <1>5, <2>2
    <3>2. c[a + (x - a)] = v[x - a] /\ v[x - a] = s[a + (x - a)]
      BY <1>2, <1>4, <3>1
    <3> QED
      BY <1>2, <3>1, <3>2
  <2> QED
    BY <2>1, <2>2
<1>7. c = w
  BY <1>2, <1>4, <1>5, <1>6, SeqEqual
<1> QED
  BY <1>1, <1>3, <1>7, Zenon DEF Grows, Prefix

(* A stretch of the string without the separator is a good piece.          *)
LEMMA NoneInside ==
  ASSUME NEW S, NEW s \in Seq(S), NEW sep \in Seq(S), NEW a \in Nat \ {0}, NEW b \in Nat,
         a <= b + 1, b <= Len(s), \A q \in a .. b : ~Pieces!Occurs(sep, s, q),
         NEW x, x = SubSeq(s, a, b)
  PROVE  \A p \in DOMAIN x : ~Pieces!Occurs(sep, x, p)
<1> SUFFICES ASSUME NEW p \in DOMAIN x, Pieces!Occurs(sep, x, p) PROVE FALSE
  OBVIOUS
<1>1. x \in Seq(S) /\ Len(x) = b + 1 - a /\ \A n \in 1 .. Len(x) : x[n] = s[a + n - 1]
  <2>1. StretchOf(S, s, a, b, x)
    BY StretchIs, Zenon
  <2> QED
    BY <2>1, Zenon DEF StretchOf
<1>2. p \in 1 .. Len(x) /\ Len(x) \in Nat /\ Len(sep) \in Nat /\ Len(s) \in Nat
  BY <1>1
<1>3. p + Len(sep) - 1 <= Len(x) /\ SubSeq(x, p, p + Len(sep) - 1) = sep
  BY Zenon DEF Pieces!Occurs
<1>4. PICK L \in Nat : L = Len(sep)
  BY <1>2
<1>5. PICK q : q = a + p - 1
  OBVIOUS
<1>6. q \in a .. b /\ q + L - 1 <= Len(s) /\ q \in Nat \ {0}
  <2>1. Len(x) = b + 1 - a /\ p \in 1 .. Len(x) /\ p + L - 1 <= Len(x) /\ Len(s) \in Nat
    BY <1>1, <1>2, <1>3, <1>4
  <2>2. PICK n \in Nat : n = Len(s)
    BY <2>1
  <2>3. b <= n
    BY <2>2
  <2>4. p \in 1 .. b + 1 - a /\ p + L - 1 <= b + 1 - a
    BY <2>1
  <2>5. q \in a .. b /\ q + L - 1 <= b /\ q \in Nat \ {0}
    BY <1>5, <2>4
  <2>6. q + L - 1 <= n
    BY <2>3, <2>5
  <2> QED
    BY <2>2, <2>5, <2>6, Zenon
<1>15. q + L - 1 \in Nat
  BY <1>4, <1>6
<1>12. PICK e \in Nat : e = q + L - 1
  BY <1>15, Zenon
<1>7. PICK u : u = SubSeq(s, q, e)
  OBVIOUS
<1>8. u \in Seq(S) /\ Len(u) = L /\ \A n \in 1 .. L : u[n] = s[q + n - 1]
  <2>1. q <= e + 1 /\ e <= Len(s) /\ e + 1 - q = L
    BY <1>4, <1>6, <1>12
  <2>2. StretchOf(S, s, q, e, u)
    BY <1>6, <1>7, <1>12, <2>1, StretchIs, Zenon
  <2>3. u \in Seq(S) /\ Len(u) = e + 1 - q /\ \A n \in 1 .. Len(u) : u[n] = s[q + n - 1]
    BY <2>2, Zenon DEF StretchOf
  <2> QED
    BY <2>1, <2>3, Zenon
<1>9. ASSUME NEW n \in 1 .. L PROVE u[n] = sep[n]
  <2>3. PICK d \in Nat : d = p + L - 1
    BY <1>2, <1>4
  <2>4. d <= Len(x) /\ p \in Nat \ {0} /\ p <= d + 1 /\ d + 1 - p = L /\ sep = SubSeq(x, p, d)
    <3>1. p + Len(sep) - 1 = d
      BY <1>4, <2>3
    <3>2. sep = SubSeq(x, p, d)
      BY <1>3, <3>1, Zenon
    <3>3. p \in Nat \ {0} /\ p <= d + 1 /\ d + 1 - p = L
      BY <1>2, <1>4, <2>3
    <3> QED
      BY <1>3, <3>1, <3>2, <3>3, Zenon
  <2>1. sep[n] = x[p + n - 1] /\ p + n - 1 \in 1 .. Len(x)
    <3>1. x \in Seq(S)
      BY <1>1
    <3>2. StretchOf(S, x, p, d, sep)
      BY <2>3, <2>4, <3>1, StretchIs, Zenon
    <3>3. sep[n] = x[p + n - 1]
      BY <1>4, <3>2, Zenon DEF StretchOf
    <3>4. n \in Nat /\ p \in Nat /\ n >= 1 /\ n <= L /\ d + 1 - p = L /\ d <= Len(x) /\ p >= 1 /\ Len(x) \in Nat
      BY <1>2, <1>4, <2>4
    <3>5. p + n - 1 \in 1 .. Len(x)
      BY <2>3, <3>4
    <3> QED
      BY <3>3, <3>5, Zenon
  <2>2. x[p + n - 1] = s[a + (p + n - 1) - 1] /\ a + (p + n - 1) - 1 = q + n - 1
    <3>1. \A m \in 1 .. Len(x) : x[m] = s[a + m - 1]
      BY <1>1
    <3>2. x[p + n - 1] = s[a + (p + n - 1) - 1]
      BY <2>1, <3>1
    <3>3. a + (p + n - 1) - 1 = q + n - 1
      BY <1>2, <1>4, <1>5
    <3> QED
      BY <3>2, <3>3
  <2> QED
    BY <1>8, <2>1, <2>2
<1>10. u = sep
  BY <1>4, <1>8, <1>9, SeqEqual
<1>13. q + Len(sep) - 1 = e
  BY <1>4, <1>12
<1>14. e <= Len(s)
  BY <1>4, <1>6, <1>12
<1>11. Pieces!Occurs(sep, s, q)
  BY <1>7, <1>10, <1>13, <1>14, Zenon DEF Pieces!Occurs
<1> QED
  BY <1>6, <1>11

-----------------------------------------------------------------------------
StringsKnown ==
  /\ string \in Seq(Alphabet) /\ separator \in Seq(Alphabet)
  /\ ignore_empty \in BOOLEAN /\ split \in BOOLEAN

(* find() finds the first separator.                                       *)
LEMMA FoundIs ==
  ASSUME StringsKnown, NEW P \in Nat, P # 0, from = P, Pieces!Occurrences(P) # {}
  PROVE  /\ Pieces!Found \in P .. Len(string) + 1
         /\ Pieces!Occurs(separator, string, Pieces!Found)
         /\ \A q \in P .. Pieces!Found - 1 : ~Pieces!Occurs(separator, string, q)
<1> DEFINE S == Pieces!Occurrences(P)
<1>0. Len(string) \in Nat
  BY DEF StringsKnown
<1>1. S \in SUBSET Nat /\ S # {}
  BY <1>0 DEF Pieces!Occurrences
<1>2. Pieces!Found = Least(S)
  BY Zenon DEF Pieces!Found, Least
<1>3. Least(S) \in S /\ \A q \in S : Least(S) <= q
  <2> HIDE DEF S
  <2> QED
    BY <1>1, LeastOf
<1>4. Pieces!Found \in S /\ \A q \in S : Pieces!Found <= q
  BY <1>2, <1>3
<1>5. Pieces!Found \in P .. Len(string) + 1 /\ Pieces!Occurs(separator, string, Pieces!Found)
  BY <1>4, Zenon DEF Pieces!Occurrences
<1>6. ASSUME NEW q \in P .. Pieces!Found - 1, Pieces!Occurs(separator, string, q) PROVE FALSE
  <2>1. q \in P .. Len(string) + 1 /\ ~(Pieces!Found <= q)
    BY <1>0, <1>5
  <2>2. q \in S
    BY <1>6, <2>1, Zenon DEF Pieces!Occurrences
  <2> QED
    BY <1>4, <2>1, <2>2
<1> QED
  BY <1>5, <1>6

(* The characters that are kept.                                           *)
KeptPieces == [n \in 1 .. Len(string) |-> IF <<string[n]>> = separator THEN <<>> ELSE <<string[n]>>]

IsCharacter(s, q) == SubSeq(s, q, q) = <<s[q]>>

(* A stretch of one character.                                             *)
LEMMA CharacterAlone ==
  ASSUME NEW S, NEW s \in Seq(S), NEW q \in 1 .. Len(s)
  PROVE  IsCharacter(s, q)
<1>1. PICK u, w : u = SubSeq(s, q, q) /\ w = <<s[q]>>
  OBVIOUS
<1>2. s[q] \in S
  BY ElementOfSeq
<1>3. u \in Seq(S) /\ Len(u) = 1 /\ \A x \in 1 .. Len(u) : u[x] = s[q + x - 1]
  <2>1. q \in Nat \ {0} /\ q \in Nat /\ q <= q + 1 /\ q <= Len(s) /\ q + 1 - q = 1
    OBVIOUS
  <2>2. StretchOf(S, s, q, q, u)
    BY <1>1, <2>1, StretchIs, Zenon
  <2> QED
    BY <2>1, <2>2, Zenon DEF StretchOf
<1>4. w \in Seq(S) /\ Len(w) = 1 /\ w[1] = s[q]
  BY <1>1, <1>2
<1>5. ASSUME NEW x \in 1 .. Len(u) PROVE u[x] = w[x]
  <2>1. x = 1 /\ q + x - 1 = q
    BY <1>3
  <2> QED
    BY <1>3, <1>4, <2>1
<1>6. u = w
  BY <1>3, <1>4, <1>5, SeqEqual
<1> QED
  BY <1>1, <1>6, Zenon DEF IsCharacter

(* What is kept of a character is a text.                                  *)
LEMMA KeptPieceTyped ==
  ASSUME StringsKnown, NEW n \in 1 .. Len(string)
  PROVE  (IF <<string[n]>> = separator THEN <<>> ELSE <<string[n]>>) \in Seq(Alphabet)
<1>1. string[n] \in Alphabet
  BY ElementOfSeq DEF StringsKnown
<1>2. <<string[n]>> \in Seq(Alphabet) /\ <<>> \in Seq(Alphabet)
  BY <1>1
<1> QED
  BY <1>2, Zenon

(* What is kept is put together of what is kept of each character.         *)
LEMMA KeptIs ==
  ASSUME StringsKnown
  PROVE  Together(Pieces!Kept, KeptPieces, Len(string), Alphabet)
<1>0. Len(string) \in Nat
  BY DEF StringsKnown
<1>1. PICK n \in Nat : n = Len(string)
  BY <1>0
<1>2. PICK f : Concatenates(f, KeptPieces, n)
  BY ConcatenationExists
<1> DEFINE Piece(x) == IF <<string[x]>> = separator THEN <<>> ELSE <<string[x]>>
<1>3. ASSUME NEW x \in 0 .. n, x # 0 PROVE KeptPieces[x] = Piece(x)
  <2>1. x \in 1 .. n
    BY <1>3
  <2> QED
    BY <1>1, <2>1, Zenon DEF KeptPieces
<1>4. ASSUME NEW g
      PROVE  Concatenates(g, KeptPieces, n)
             <=> g = [x \in 0 .. Len(string) |-> IF x = 0 THEN <<>> ELSE g[x - 1] \o Piece(x)]
  <2> HIDE DEF Piece
  <2>1. \A x \in 0 .. n : (IF x = 0 THEN <<>> ELSE g[x - 1] \o KeptPieces[x])
                           = (IF x = 0 THEN <<>> ELSE g[x - 1] \o Piece(x))
    BY <1>3, Zenon
  <2>2. [x \in 0 .. n |-> IF x = 0 THEN <<>> ELSE g[x - 1] \o KeptPieces[x]]
        = [x \in 0 .. n |-> IF x = 0 THEN <<>> ELSE g[x - 1] \o Piece(x)]
    BY <2>1, Zenon
  <2> QED
    BY <1>1, <2>2, Zenon DEF Concatenates
<1>5. Pieces!Kept = CHOOSE g : g = [x \in 0 .. Len(string) |-> IF x = 0 THEN <<>> ELSE g[x - 1] \o Piece(x)]
  BY Zenon DEF Pieces!Kept
<1>6. Concatenates(Pieces!Kept, KeptPieces, n)
  <2> HIDE DEF Piece
  <2> QED
    BY <1>2, <1>4, <1>5, Zenon
<1>7. \A q \in 1 .. n : KeptPieces[q] \in Seq(Alphabet)
  <2> SUFFICES ASSUME NEW q \in 1 .. n PROVE KeptPieces[q] \in Seq(Alphabet)
    OBVIOUS
  <2>1. q \in 0 .. n /\ q # 0 /\ q \in 1 .. Len(string)
    BY <1>1
  <2>2. Piece(q) \in Seq(Alphabet)
    BY <2>1, KeptPieceTyped, Zenon
  <2> QED
    BY <1>3, <2>1, <2>2, Zenon
<1> QED
  BY <1>1, <1>6, <1>7, TogetherIs, Zenon

KeptFrom(a, b) == Pieces!Kept[b] = Pieces!Kept[a] \o SubSeq(string, a + 1, b)

(* All of a stretch without the separator is kept, and the separator not.  *)
LEMMA KeepsStretch ==
  ASSUME StringsKnown, Len(separator) = 1, NEW a \in Nat, NEW b \in Nat, a <= b, b <= Len(string),
         \A q \in a + 1 .. b : ~Pieces!Occurs(separator, string, q)
  PROVE  KeptFrom(a, b)
<1>0. string \in Seq(Alphabet) /\ Len(string) \in Nat
  BY DEF StringsKnown
<1>1. ASSUME NEW q \in a + 1 .. b PROVE KeptPieces[q] = <<string[q]>>
  <2>1. q \in 1 .. Len(string) /\ q \in Nat /\ q + Len(separator) - 1 = q /\ q <= Len(string)
    BY <1>0
  <2>2. SubSeq(string, q, q) = <<string[q]>>
    <3>1. IsCharacter(string, q)
      BY <1>0, <2>1, CharacterAlone, Zenon
    <3> QED
      BY <3>1, Zenon DEF IsCharacter
  <2>3. SubSeq(string, q, q) # separator
    BY <1>1, <2>1, Zenon DEF Pieces!Occurs
  <2> QED
    BY <2>1, <2>2, <2>3, Zenon DEF KeptPieces
<1>2. Stretch(KeptPieces, string, a, b, Len(string))
  BY <1>1, Zenon DEF Stretch
<1>3. Copies(Pieces!Kept, string, a, b)
  BY <1>0, <1>2, KeptIs, TogetherCopies, Zenon
<1> QED
  BY <1>3, Zenon DEF Copies, KeptFrom

(* A separator of one character is not kept.                               *)
LEMMA KeepsNone ==
  ASSUME StringsKnown, Len(separator) = 1, NEW q \in 1 .. Len(string),
         Pieces!Occurs(separator, string, q)
  PROVE  Pieces!Kept[q] = Pieces!Kept[q - 1]
<1>0. string \in Seq(Alphabet) /\ Len(string) \in Nat
  BY DEF StringsKnown
<1>1. q \in Nat /\ q + Len(separator) - 1 = q /\ q - 1 \in 0 .. Len(string)
  BY <1>0
<1>2. SubSeq(string, q, q) = <<string[q]>>
  <2>1. IsCharacter(string, q)
    BY <1>0, CharacterAlone, Zenon
  <2> QED
    BY <2>1, Zenon DEF IsCharacter
<1>3. SubSeq(string, q, q) = separator
  BY <1>1, Zenon DEF Pieces!Occurs
<1>4. KeptPieces[q] = <<>>
  BY <1>2, <1>3, Zenon DEF KeptPieces
<1>5. Pieces!Kept[q] = Pieces!Kept[q - 1] \o KeptPieces[q]
  BY KeptIs, Zenon DEF Together
<1>6. Pieces!Kept[q - 1] \in Seq(Alphabet)
  BY <1>1, KeptIs, TogetherTyped, Zenon
<1> QED
  BY <1>4, <1>5, <1>6, ConcatEmptySeq, Zenon

(* A piece as split() makes them,                                          *)
PieceGood(x) ==
  /\ \A p \in DOMAIN x : ~Pieces!Occurs(separator, x, p)
  /\ ignore_empty => x # <<>>
PiecesGood(list) == list \in Seq(Seq(Alphabet)) /\ \A n \in 1 .. Len(list) : PieceGood(list[n])

(* and the pieces of the first b characters, before and after a separator. *)
PiecesOf(list, b) ==
  /\ ~ignore_empty => list # <<>> /\ Pieces!Join(list, separator) = Prefix(string, b)
  /\ Len(separator) = 1 => Pieces!Join(list, <<>>) = Pieces!Kept[b]
PiecesBefore(list, a) ==
  /\ ~ignore_empty => JoinedUp(list, separator) = Prefix(string, a)
  /\ Len(separator) = 1 => Pieces!Join(list, <<>>) = Pieces!Kept[a]

(* Without a separator nothing stands between the pieces.                  *)
LEMMA JoinNothing ==
  ASSUME NEW S, NEW list \in Seq(Seq(S))
  PROVE  JoinedUp(list, <<>>) = Pieces!Join(list, <<>>)
<1>1. <<>> \in Seq(S)
  OBVIOUS
<1>2. Pieces!Join(list, <<>>) \in Seq(S)
  BY <1>1, JoinTyped, Zenon
<1>3. CASE list = <<>>
  <2>1. Len(list) = 0 /\ 0 \in Nat
    BY <1>3
  <2>2. /\ Together(JoinTexts(list, <<>>), JoinPieces(list, <<>>), Len(list), S)
        /\ Pieces!Join(list, <<>>) = JoinTexts(list, <<>>)[Len(list)]
    BY <1>1, JoinIs, Zenon
  <2>3. Pieces!Join(list, <<>>) = <<>>
    BY <2>1, <2>2, Zenon DEF Together
  <2> QED
    BY <1>3, <2>3, Zenon DEF JoinedUp
<1>4. CASE list # <<>>
  <2>1. JoinedUp(list, <<>>) = Pieces!Join(list, <<>>) \o <<>>
    BY <1>4, Zenon DEF JoinedUp
  <2> QED
    BY <1>2, <2>1, ConcatEmptySeq, Zenon
<1> QED
  BY <1>3, <1>4

IsAppended(S, list, x, more) ==
  /\ more \in Seq(S) /\ Len(more) = Len(list) + 1 /\ more[Len(list) + 1] = x
  /\ more # <<>> /\ \A n \in 1 .. Len(list) : more[n] = list[n]

(* A list with one piece more.                                             *)
LEMMA OneAppended ==
  ASSUME NEW S, NEW list \in Seq(S), NEW x \in S, NEW more, more = Append(list, x)
  PROVE  IsAppended(S, list, x, more)
BY DEF IsAppended

(* A piece that split() finds goes on with the string.                     *)
LEMMA PieceAdded ==
  ASSUME StringsKnown, NEW list, PiecesGood(list), NEW a \in Nat, NEW b \in Nat, PiecesBefore(list, a),
         a <= b, b <= Len(string), \A q \in a + 1 .. b : ~Pieces!Occurs(separator, string, q),
         NEW more, more = IF a < b \/ ~ignore_empty THEN Append(list, SubSeq(string, a + 1, b)) ELSE list
  PROVE  PiecesGood(more) /\ PiecesOf(more, b)
<1>1. PICK x : x = SubSeq(string, a + 1, b)
  OBVIOUS
<1>2. string \in Seq(Alphabet) /\ separator \in Seq(Alphabet) /\ <<>> \in Seq(Alphabet) /\ ignore_empty \in BOOLEAN
  BY DEF StringsKnown
<1>3. x \in Seq(Alphabet) /\ Len(x) = b - a
  BY <1>1, <1>2
<1>4. list \in Seq(Seq(Alphabet)) /\ \A n \in 1 .. Len(list) : PieceGood(list[n])
  BY DEF PiecesGood
<1>5. \A p \in DOMAIN x : ~Pieces!Occurs(separator, x, p)
  <2>1. a + 1 \in Nat \ {0} /\ a + 1 <= b + 1
    OBVIOUS
  <2> QED
    BY <1>1, <1>2, <2>1, NoneInside, Zenon
<1>6. Grows(string, a, b)
  BY <1>2, PrefixGrows, Zenon
<1>7. Len(separator) = 1 => KeptFrom(a, b)
  BY KeepsStretch, Zenon
<1>8. JoinsOneMore(list, separator, x) /\ JoinsOneMore(list, <<>>, x)
  BY <1>2, <1>3, <1>4, JoinAppend, Zenon
<1>9. JoinedUp(list, <<>>) = Pieces!Join(list, <<>>)
  BY <1>4, JoinNothing
<1>10. CASE a < b \/ ~ignore_empty
  <2>1. more = Append(list, x)
    BY <1>1, <1>10, Zenon
  <2>6. list \in Seq(Seq(Alphabet)) /\ x \in Seq(Alphabet)
    BY <1>3, <1>4
  <2>7. /\ more \in Seq(Seq(Alphabet)) /\ Len(more) = Len(list) + 1 /\ more[Len(list) + 1] = x
        /\ more # <<>> /\ \A n \in 1 .. Len(list) : more[n] = list[n]
    <3>1. IsAppended(Seq(Alphabet), list, x, more)
      BY <2>1, <2>6, OneAppended, Zenon
    <3> QED
      BY <3>1, Zenon DEF IsAppended
  <2>2. PieceGood(x)
    <3>1. ignore_empty => x # <<>>
      <4>1. a < b => Len(x) # 0
        BY <1>3
      <4>2. Len(<<>>) = 0
        OBVIOUS
      <4> QED
        BY <1>10, <4>1, <4>2, Zenon
    <3> QED
      BY <1>5, <3>1, Zenon DEF PieceGood
  <2>3. PiecesGood(more)
    <3>2. ASSUME NEW n \in 1 .. Len(more) PROVE PieceGood(more[n])
      <4>1. n \in 1 .. Len(list) \/ n = Len(list) + 1
        BY <1>4, <2>7
      <4> QED
        BY <1>4, <2>2, <2>7, <4>1, Zenon
    <3> QED
      BY <2>7, <3>2, Zenon DEF PiecesGood
  <2>4. ASSUME ~ignore_empty PROVE more # <<>> /\ Pieces!Join(more, separator) = Prefix(string, b)
    <3>2. Pieces!Join(more, separator) = JoinedUp(list, separator) \o x
      BY <1>8, <2>1, Zenon DEF JoinsOneMore
    <3>3. JoinedUp(list, separator) = Prefix(string, a)
      BY <2>4, Zenon DEF PiecesBefore
    <3>4. Prefix(string, a) \o x = Prefix(string, b)
      BY <1>1, <1>6, Zenon DEF Grows
    <3> QED
      BY <2>7, <3>2, <3>3, <3>4, Zenon
  <2>5. ASSUME Len(separator) = 1 PROVE Pieces!Join(more, <<>>) = Pieces!Kept[b]
    <3>1. Pieces!Join(more, <<>>) = JoinedUp(list, <<>>) \o x
      BY <1>8, <2>1, Zenon DEF JoinsOneMore
    <3>2. Pieces!Join(list, <<>>) = Pieces!Kept[a]
      BY <2>5, Zenon DEF PiecesBefore
    <3>3. Pieces!Kept[b] = Pieces!Kept[a] \o x
      BY <1>1, <1>7, <2>5, Zenon DEF KeptFrom
    <3> QED
      BY <1>9, <3>1, <3>2, <3>3, Zenon
  <2> QED
    BY <2>3, <2>4, <2>5, Zenon DEF PiecesOf
<1>11. CASE ~(a < b) /\ ignore_empty
  <2>1. more = list /\ a = b /\ PiecesGood(more)
    BY <1>4, <1>11 DEF PiecesGood
  <2>2. Len(separator) = 1 => Pieces!Join(more, <<>>) = Pieces!Kept[b]
    BY <2>1, Zenon DEF PiecesBefore
  <2> QED
    BY <1>11, <2>1, <2>2, Zenon DEF PiecesOf
<1> QED
  BY <1>10, <1>11, <1>2

(* The search goes on behind the separator.                                *)
LEMMA SeparatorAdded ==
  ASSUME StringsKnown, NEW list, PiecesGood(list), NEW b \in Nat, PiecesOf(list, b),
         Pieces!Occurs(separator, string, b + 1), NEW c, c = b + Len(separator)
  PROVE  c \in Nat /\ c <= Len(string) /\ PiecesBefore(list, c)
<1>1. string \in Seq(Alphabet) /\ separator \in Seq(Alphabet)
  BY DEF StringsKnown
<1>2. Len(string) \in Nat /\ Len(separator) \in Nat
  BY <1>1
<1>3. (b + 1) + Len(separator) - 1 <= Len(string)
      /\ SubSeq(string, b + 1, (b + 1) + Len(separator) - 1) = separator
  BY Zenon DEF Pieces!Occurs
<1>4. c \in Nat /\ c <= Len(string) /\ b <= c /\ (b + 1) + Len(separator) - 1 = c
  BY <1>2, <1>3
<1>5. SubSeq(string, b + 1, c) = separator
  BY <1>3, <1>4, Zenon
<1>6. Grows(string, b, c)
  BY <1>1, <1>4, PrefixGrows, Zenon
<1>7. ASSUME ~ignore_empty PROVE JoinedUp(list, separator) = Prefix(string, c)
  <2>1. list # <<>> /\ Pieces!Join(list, separator) = Prefix(string, b)
    BY <1>7, Zenon DEF PiecesOf
  <2>2. JoinedUp(list, separator) = Prefix(string, b) \o separator
    BY <2>1, Zenon DEF JoinedUp
  <2> QED
    BY <1>5, <1>6, <2>2, Zenon DEF Grows
<1>8. ASSUME Len(separator) = 1 PROVE Pieces!Join(list, <<>>) = Pieces!Kept[c]
  <2>1. c = b + 1 /\ c \in 1 .. Len(string) /\ c - 1 = b
    BY <1>2, <1>4, <1>8
  <2>2. Pieces!Occurs(separator, string, c)
    BY <2>1, Zenon
  <2>3. Pieces!Kept[c] = Pieces!Kept[c - 1]
    BY <1>8, <2>1, <2>2, KeepsNone
  <2>4. Pieces!Join(list, <<>>) = Pieces!Kept[b]
    BY <1>8, Zenon DEF PiecesOf
  <2> QED
    BY <2>1, <2>3, <2>4, Zenon
<1> QED
  BY <1>4, <1>7, <1>8, Zenon DEF PiecesBefore

(* The pieces are those of what has been searched.                         *)
PiecesInv ==
  part = "split" =>
    /\ StringsKnown /\ PiecesGood(pieces)
    /\ from \in Nat \ {0} /\ from <= Len(string) + 1
    /\ ~split => PiecesBefore(pieces, from - 1)
    /\ split => PiecesOf(pieces, Len(string))

(* The arguments are texts.                                                *)
LEMMA StringIs ==
  ASSUME NEW n \in Nat, NEW s \in Pieces!Strings(n)
  PROVE  s \in Seq(Alphabet)
<1>1. PICK m \in 0 .. n : s \in [1 .. m -> Alphabet]
  BY DEF Pieces!Strings
<1> QED
  BY <1>1

(* There are no pieces of nothing,                                         *)
LEMMA PiecesInvInit == Init => PiecesInv
<1> SUFFICES ASSUME Init, part = "split" PROVE PiecesInv
  BY DEF PiecesInv
<1>1. Pieces!SplitInit
  BY DEF Init
<1>2. /\ string \in Pieces!Strings(MaxString) /\ separator \in Pieces!Strings(MaxSeparator)
      /\ ignore_empty \in BOOLEAN /\ from = 1 /\ pieces = <<>> /\ split = FALSE
  BY <1>1, Zenon DEF Pieces!SplitInit
<1>3. string \in Seq(Alphabet) /\ separator \in Seq(Alphabet)
  BY <1>2, StringIs, SplitAssumption, Zenon
<1>4. StringsKnown
  BY <1>2, <1>3, Zenon DEF StringsKnown
<1>5. <<>> \in Seq(Seq(Alphabet)) /\ Len(<<>>) = 0 /\ 1 .. 0 = {}
  OBVIOUS
<1>6. PiecesGood(pieces)
  BY <1>2, <1>5, Zenon DEF PiecesGood
<1>7. from \in Nat \ {0} /\ from <= Len(string) + 1 /\ from - 1 = 0
  BY <1>2, <1>3
<1>8. Prefix(string, 0) = <<>>
  BY <1>3 DEF Prefix
<1>9. JoinedUp(<<>>, separator) = <<>> /\ JoinedUp(<<>>, <<>>) = <<>>
  BY Zenon DEF JoinedUp
<1>10. Pieces!Join(<<>>, <<>>) = <<>>
  BY <1>5, <1>9, JoinNothing
<1>11. Pieces!Kept[0] = <<>>
  BY <1>4, KeptIs, Zenon DEF Together
<1>12. PiecesBefore(pieces, from - 1)
  BY <1>2, <1>7, <1>8, <1>9, <1>10, <1>11, Zenon DEF PiecesBefore
<1> QED
  BY <1>2, <1>4, <1>6, <1>7, <1>12, Zenon DEF PiecesInv

SameStrings == string' = string /\ separator' = separator /\ ignore_empty' = ignore_empty

(* (they depend on the arguments alone)                                    *)
LEMMA PiecesSame ==
  ASSUME SameStrings
  PROVE  /\ PiecesGood(pieces)' <=> PiecesGood(pieces')
         /\ PiecesBefore(pieces, from - 1)' <=> PiecesBefore(pieces', from' - 1)
         /\ PiecesOf(pieces, Len(string))' <=> PiecesOf(pieces', Len(string))
<1>1. Pieces!Kept' = Pieces!Kept
  BY DEF SameStrings, Pieces!Kept
<1>2. PiecesGood(pieces)' <=> PiecesGood(pieces')
  BY DEF SameStrings, PiecesGood, PieceGood, Pieces!Occurs
<1>3. PiecesBefore(pieces, from - 1)' <=> PiecesBefore(pieces', from' - 1)
  BY <1>1, Zenon DEF SameStrings, PiecesBefore, JoinedUp, Prefix, Pieces!Join
<1>4. PiecesOf(pieces, Len(string))' <=> PiecesOf(pieces', Len(string))
  BY <1>1, Zenon DEF SameStrings, PiecesOf, Prefix, Pieces!Join
<1> QED
  BY <1>2, <1>3, <1>4

(* every step of split() adds the piece up to the next separator,          *)
LEMMA PiecesInvStep == PiecesInv /\ [Next]_allVars => PiecesInv'
<1> SUFFICES ASSUME PiecesInv, [Next]_allVars, part' = "split" PROVE PiecesInv'
  BY DEF PiecesInv
<1>1. ASSUME Pieces!SplitNext, part = "split" PROVE PiecesInv'
  <2>1. /\ StringsKnown /\ PiecesGood(pieces)
        /\ from \in Nat \ {0} /\ from <= Len(string) + 1
        /\ ~split => PiecesBefore(pieces, from - 1)
    BY <1>1 DEF PiecesInv
  <2>2. Len(string) \in Nat /\ Len(separator) \in Nat /\ separator \in Seq(Alphabet) /\ string \in Seq(Alphabet)
    BY <2>1 DEF StringsKnown
  <2>3. SameStrings /\ ~split
    BY <1>1 DEF Pieces!SplitNext, Pieces!Piece, Pieces!LastPiece, SameStrings
  <2>4. /\ PiecesGood(pieces)' <=> PiecesGood(pieces')
        /\ PiecesBefore(pieces, from - 1)' <=> PiecesBefore(pieces', from' - 1)
        /\ PiecesOf(pieces, Len(string))' <=> PiecesOf(pieces', Len(string))
    BY <2>3, PiecesSame
  <2>5. PICK a \in Nat : from = a + 1 /\ from - 1 = a
    <3>1. from - 1 \in Nat /\ from = (from - 1) + 1
      BY <2>1
    <3> QED
      BY <3>1
  <2>6. PiecesBefore(pieces, a)
    BY <2>1, <2>3, <2>5, Zenon
  <2>7. CASE Pieces!Piece
    <3>1. /\ Pieces!Occurrences(from) # {}
          /\ pieces' = IF Pieces!Found > from \/ ~ignore_empty
                       THEN Append(pieces, SubSeq(string, from, Pieces!Found - 1)) ELSE pieces
          /\ from' = Pieces!Found + Len(separator) /\ split' = split
      BY <2>7, Zenon DEF Pieces!Piece
    <3>2. /\ Pieces!Found \in from .. Len(string) + 1
          /\ Pieces!Occurs(separator, string, Pieces!Found)
          /\ \A q \in from .. Pieces!Found - 1 : ~Pieces!Occurs(separator, string, q)
      BY <2>1, <3>1, FoundIs
    <3>3. PICK b \in Nat : Pieces!Found = b + 1 /\ Pieces!Found - 1 = b
      <4>1. Pieces!Found - 1 \in Nat /\ Pieces!Found = (Pieces!Found - 1) + 1
        BY <2>1, <2>2, <3>2
      <4> QED
        BY <4>1
    <3>4. a <= b /\ b <= Len(string) /\ (Pieces!Found > from <=> a < b)
      BY <2>2, <2>5, <3>2, <3>3
    <3>5. pieces' = IF a < b \/ ~ignore_empty THEN Append(pieces, SubSeq(string, a + 1, b)) ELSE pieces
      BY <2>5, <3>1, <3>3, <3>4, Zenon
    <3>6. \A q \in a + 1 .. b : ~Pieces!Occurs(separator, string, q)
      BY <2>5, <3>2, <3>3, Zenon
    <3>7. PiecesGood(pieces') /\ PiecesOf(pieces', b)
      BY <2>1, <2>6, <3>4, <3>5, <3>6, PieceAdded, Zenon
    <3>8. PICK c : c = b + Len(separator)
      OBVIOUS
    <3>9. c \in Nat /\ c <= Len(string) /\ PiecesBefore(pieces', c)
      <4>1. Pieces!Occurs(separator, string, b + 1)
        BY <3>2, <3>3, Zenon
      <4> QED
        BY <2>1, <3>7, <3>8, <4>1, SeparatorAdded, Zenon
    <3>10. from' = c + 1 /\ from' - 1 = c /\ from' \in Nat \ {0} /\ from' <= Len(string) + 1
      BY <2>2, <3>1, <3>3, <3>8, <3>9
    <3> QED
      BY <2>1, <2>3, <2>4, <3>1, <3>7, <3>9, <3>10, Zenon DEF PiecesInv, StringsKnown, SameStrings
  <2>8. CASE Pieces!LastPiece
    <3>1. /\ Pieces!Occurrences(from) = {}
          /\ pieces' = IF from <= Len(string) \/ ~ignore_empty
                       THEN Append(pieces, SubSeq(string, from, Len(string))) ELSE pieces
          /\ from' = from /\ split' = TRUE
      BY <2>8, Zenon DEF Pieces!LastPiece
    <3>2. PICK b \in Nat : b = Len(string)
      BY <2>2
    <3>3. a <= b /\ b <= Len(string) /\ (from <= Len(string) <=> a < b)
      BY <2>1, <2>5, <3>2
    <3>4. pieces' = IF a < b \/ ~ignore_empty THEN Append(pieces, SubSeq(string, a + 1, b)) ELSE pieces
      BY <2>5, <3>1, <3>2, <3>3, Zenon
    <3>5. ASSUME NEW q \in a + 1 .. b, Pieces!Occurs(separator, string, q) PROVE FALSE
      <4>1. q \in from .. Len(string) + 1
        BY <2>5, <3>2
      <4>2. q \in Pieces!Occurrences(from)
        BY <3>5, <4>1, Zenon DEF Pieces!Occurrences
      <4> QED
        BY <3>1, <4>2
    <3>6. PiecesGood(pieces') /\ PiecesOf(pieces', b)
      BY <2>1, <2>6, <3>3, <3>4, <3>5, PieceAdded, Zenon
    <3> QED
      BY <2>1, <2>3, <2>4, <3>1, <3>2, <3>6, Zenon DEF PiecesInv, StringsKnown, SameStrings
  <2> QED
    BY <1>1, <2>7, <2>8 DEF Pieces!SplitNext
<1>2. ASSUME string' = string, separator' = separator, ignore_empty' = ignore_empty,
             from' = from, pieces' = pieces, split' = split, part = "split"
      PROVE  PiecesInv'
  <2>1. SameStrings
    BY <1>2 DEF SameStrings
  <2>2. /\ StringsKnown /\ PiecesGood(pieces)
        /\ from \in Nat \ {0} /\ from <= Len(string) + 1
        /\ ~split => PiecesBefore(pieces, from - 1)
        /\ split => PiecesOf(pieces, Len(string))
    BY <1>2 DEF PiecesInv
  <2>3. /\ PiecesGood(pieces)' <=> PiecesGood(pieces')
        /\ PiecesBefore(pieces, from - 1)' <=> PiecesBefore(pieces', from' - 1)
        /\ PiecesOf(pieces, Len(string))' <=> PiecesOf(pieces', Len(string))
    BY <2>1, PiecesSame
  <2>4. StringsKnown'
    BY <1>2, <2>2, Zenon DEF StringsKnown
  <2> QED
    BY <1>2, <2>2, <2>3, <2>4, Zenon DEF PiecesInv
<1>3. CASE UNCHANGED allVars
  <2>1. /\ string' = string /\ separator' = separator /\ ignore_empty' = ignore_empty
        /\ from' = from /\ pieces' = pieces /\ split' = split /\ part' = part
    BY <1>3 DEF allVars, pieceVars
  <2> QED
    BY <1>2, <2>1
<1>4. ASSUME Next PROVE Pieces!SplitNext /\ part = "split"
  BY <1>4 DEF Next
<1> QED
  <2>1. Next \/ UNCHANGED allVars
    OBVIOUS
  <2> QED
    BY <1>1, <1>3, <1>4, <2>1

(* and in the end join() puts the string together again.                   *)
LEMMA PiecesInvExact ==
  ASSUME PiecesInv, part = "split"
  PROVE  Pieces!JoinsBack
<1> SUFFICES ASSUME split PROVE Pieces!JoinsBack
  BY Zenon DEF Pieces!JoinsBack
<1>1. StringsKnown /\ PiecesGood(pieces) /\ PiecesOf(pieces, Len(string))
  BY Zenon DEF PiecesInv
<1>2. Prefix(string, Len(string)) = string
  <2>1. string \in Seq(Alphabet)
    BY <1>1 DEF StringsKnown
  <2>2. PICK u : u = SubSeq(string, 1, Len(string))
    OBVIOUS
  <2>3. u \in Seq(Alphabet) /\ Len(u) = Len(string) /\ \A x \in 1 .. Len(u) : u[x] = string[x]
    BY <2>1, <2>2
  <2>4. u = string
    BY <2>1, <2>3, SeqEqual
  <2> QED
    BY <2>2, <2>4, Zenon DEF Prefix
<1>3. DOMAIN pieces = 1 .. Len(pieces)
  BY <1>1 DEF PiecesGood
<1>4. \A n \in DOMAIN pieces : PieceGood(pieces[n])
  BY <1>1, <1>3, Zenon DEF PiecesGood
<1>5. \A n \in DOMAIN pieces : \A p \in DOMAIN pieces[n] : ~Pieces!Occurs(separator, pieces[n], p)
  BY <1>4, Zenon DEF PieceGood
<1>6. ignore_empty => <<>> \notin {pieces[n] : n \in DOMAIN pieces}
  BY <1>4, Zenon DEF PieceGood
<1>7. ~ignore_empty => Pieces!Join(pieces, separator) = string
  BY <1>1, <1>2, Zenon DEF PiecesOf
<1>8. Len(separator) = 1 => Pieces!Join(pieces, <<>>) = Pieces!Kept[Len(string)]
  BY <1>1, Zenon DEF PiecesOf
<1> QED
  BY <1>5, <1>6, <1>7, <1>8, Zenon DEF Pieces!JoinsBack

(* shell_expand() has replaced every reference once when it returns, and   *)
(* split() has taken the string apart so that join() puts it together.     *)
THEOREM TextsAreExact == Spec => []TextsExact
<1> DEFINE Inv == ExpandInv /\ PiecesInv
<1>1. Init => Inv
  BY ExpandInvInit, PiecesInvInit
<1>2. Inv /\ [Next]_allVars => Inv'
  BY ExpandInvStep, PiecesInvStep
<1>3. Inv => TextsExact
  BY ExpandInvExact, PiecesInvExact, Zenon DEF TextsExact
<1> QED
  BY <1>1, <1>2, <1>3, PTL DEF Spec

-----------------------------------------------------------------------------
(* parse() does what the arguments say                                     *)

(* The arguments and the options of a command line.                        *)
ArgvKnown ==
  /\ options \in OptionLists /\ Len(argv) \in Nat /\ DOMAIN argv = 1 .. Len(argv)
  /\ \A p \in DOMAIN argv : argv[p] \in Arguments(options)

Kinds == {"plain", "short", "long", "long=", "short="}

(* What an argument is made of.                                            *)
LEMMA ArgumentIs ==
  ASSUME ArgvKnown, NEW p \in 1 .. Len(argv)
  PROVE  /\ argv[p].kind \in Kinds
         /\ argv[p].kind \in {"plain", "long="} => argv[p].text \in Plain
<1> DEFINE longs == {options[n].long : n \in DOMAIN options}
           shorts == {options[n].short : n \in DOMAIN options}
<1>1. argv[p] \in Arguments(options)
  BY DEF ArgvKnown
<1>2. \/ argv[p] \in [kind : {"plain"}, text : Plain]
      \/ argv[p] \in [kind : {"short"}, name : shorts \cup {<<>>}]
      \/ argv[p] \in [kind : {"long"}, name : longs \cup {Unknown}]
      \/ argv[p] \in [kind : {"long="}, name : longs, text : Plain]
      \/ argv[p] \in [kind : {"short="}, name : shorts, text : Plain]
  BY <1>1, Zenon DEF Arguments
<1> HIDE DEF longs, shorts
<1>3. CASE argv[p] \in [kind : {"plain"}, text : Plain]
  BY <1>3 DEF Kinds
<1>7. CASE argv[p] \in [kind : {"short="}, name : shorts, text : Plain]
  BY <1>7 DEF Kinds
<1>4. CASE argv[p] \in [kind : {"short"}, name : shorts \cup {<<>>}]
  <2>1. argv[p].kind = "short"
    BY <1>4
  <2> QED
    BY <2>1 DEF Kinds
<1>5. CASE argv[p] \in [kind : {"long"}, name : longs \cup {Unknown}]
  <2>1. argv[p].kind = "long"
    BY <1>5
  <2> QED
    BY <2>1 DEF Kinds
<1>6. CASE argv[p] \in [kind : {"long="}, name : longs, text : Plain]
  BY <1>6 DEF Kinds
<1> QED
  BY <1>2, <1>3, <1>4, <1>5, <1>6, <1>7

OptionIs(o) ==
  /\ o.valid /\ o.key \in Keys
  /\ o.hasDefault => o.default \in Values
  /\ o.argument \/ o.type = ""

(* The options are those a program may declare,                            *)
LEMMA OptionsAre ==
  ASSUME ArgvKnown
  PROVE  /\ Len(options) \in Nat /\ DOMAIN options = 1 .. Len(options)
         /\ \A n \in DOMAIN options : OptionIs(options[n])
BY OptionAssumption, Zenon DEF ArgvKnown, OptionIs

(* and an argument that names one of them stands for one.                  *)
LEMMA MatchIs ==
  ASSUME ArgvKnown, NEW a, Matching(a) # {}
  PROVE  OptionIs(Match(a))
<1> DEFINE S == Matching(a)
<1>1. S \in SUBSET Nat /\ S # {} /\ S \subseteq DOMAIN options
  BY OptionsAre DEF Matching
<1>2. Match(a) = options[Least(S)]
  BY Zenon DEF Match, Least
<1>3. Least(S) \in S
  <2> HIDE DEF S
  <2> QED
    BY <1>1, LeastOf
<1>4. Least(S) \in DOMAIN options
  BY <1>1, <1>3
<1>5. OptionIs(options[Least(S)])
  <2> HIDE DEF S
  <2> QED
    BY <1>4, OptionsAre, Zenon
<1> QED
  BY <1>2, <1>5, Zenon

Obeyed(m) == m \in 0 .. Len(argv) /\ \A p \in 1 .. m : ~Refused(p)

(* An argument that is not refused has a value of the config_set.          *)
LEMMA GivenTyped ==
  ASSUME ArgvKnown, NEW p \in 1 .. Len(argv), ~IsPlain(p), ~Refused(p)
  PROVE  Given(p) \in Values
<1>1. Matching(argv[p]) # {}
  BY Zenon DEF Refused
<1>2. OptionIs(Match(argv[p]))
  BY <1>1, MatchIs
<1>3. Plain \subseteq Values /\ True \in Values
  BY OptionAssumption
<1>4. argv[p].kind = "long=" => argv[p].text \in Values
  BY <1>3, ArgumentIs
<1>5. ASSUME p < Len(argv), Consumed(p + 1) PROVE argv[p + 1].text \in Values
  <2>1. p + 1 \in 1 .. Len(argv)
    BY <1>5 DEF ArgvKnown
  <2>2. argv[p + 1].kind = "plain"
    BY <1>5, Zenon DEF Consumed, IsPlain
  <2> QED
    BY <1>3, <2>1, <2>2, ArgumentIs
<1> QED
  BY <1>2, <1>3, <1>4, <1>5, Zenon DEF Given, DefaultValue, OptionIs

-----------------------------------------------------------------------------
CountPieces(k, m) == [p \in 1 .. m |-> IF Counts(k, m, p) THEN <<Given(p)>> ELSE <<>>]
Before(k, m) == IF Replaces(k, m) = {} THEN before.values[k] ELSE <<>>
AddedIn(f, k, m) == /\ Together(f, CountPieces(k, m), m, Values)
                    /\ After(k, m) = Before(k, m) \o f[m]

LineKnown == ArgvKnown /\ \A k \in Keys : before.values[k] \in Seq(Values)

(* What an argument adds to a key is a list of values.                     *)
LEMMA CountPieceIs ==
  ASSUME ArgvKnown, NEW k, NEW m, Obeyed(m)
  PROVE  \A p \in 1 .. m : CountPieces(k, m)[p] \in Seq(Values)
<1> SUFFICES ASSUME NEW p \in 1 .. m PROVE CountPieces(k, m)[p] \in Seq(Values)
  OBVIOUS
<1>1. CountPieces(k, m)[p] = IF Counts(k, m, p) THEN <<Given(p)>> ELSE <<>>
  BY Zenon DEF CountPieces
<1>2. <<>> \in Seq(Values)
  OBVIOUS
<1>3. ASSUME Counts(k, m, p) PROVE <<Given(p)>> \in Seq(Values)
  <2>1. p \in 1 .. Len(argv) /\ ~Refused(p)
    BY DEF Obeyed, ArgvKnown
  <2>2. Given(p) \in Values
    BY <1>3, <2>1, GivenTyped, Zenon DEF Counts, Uses
  <2> QED
    BY <2>2
<1> QED
  BY <1>1, <1>2, <1>3, Zenon

(* The function that adds them up exists,                                  *)
LEMMA AddedExists ==
  ASSUME ArgvKnown, NEW k, NEW m, Obeyed(m)
  PROVE  \E f : AddedIn(f, k, m)
<1>0. m \in Nat
  BY DEF Obeyed, ArgvKnown
<1> DEFINE Piece(p) == IF Counts(k, m, p) THEN <<Given(p)>> ELSE <<>>
           Adds(g) == g = [p \in 0 .. m |-> IF p = 0 THEN <<>> ELSE g[p - 1] \o Piece(p)]
           f == CHOOSE g : Adds(g)
<1>1. After(k, m) = Before(k, m) \o f[m]
  BY Zenon DEF After, Before
<1>2. ASSUME NEW g PROVE Concatenates(g, CountPieces(k, m), m) <=> Adds(g)
  <2>1. ASSUME NEW p \in 0 .. m, p # 0 PROVE CountPieces(k, m)[p] = Piece(p)
    <3>1. p \in 1 .. m
      BY <1>0, <2>1
    <3> QED
      BY <3>1, Zenon DEF CountPieces
  <2> HIDE DEF Piece
  <2>2. \A p \in 0 .. m : (IF p = 0 THEN <<>> ELSE g[p - 1] \o CountPieces(k, m)[p])
                           = (IF p = 0 THEN <<>> ELSE g[p - 1] \o Piece(p))
    BY <2>1, Zenon
  <2>3. [p \in 0 .. m |-> IF p = 0 THEN <<>> ELSE g[p - 1] \o CountPieces(k, m)[p]]
        = [p \in 0 .. m |-> IF p = 0 THEN <<>> ELSE g[p - 1] \o Piece(p)]
    BY <2>2, Zenon
  <2> QED
    BY <2>3, Zenon DEF Concatenates
<1>3. PICK g : Concatenates(g, CountPieces(k, m), m)
  BY <1>0, ConcatenationExists
<1>4. Adds(f)
  <2>1. Adds(g)
    BY <1>2, <1>3, Zenon
  <2> HIDE DEF Adds
  <2> QED
    BY <2>1, Zenon
<1>5. Concatenates(f, CountPieces(k, m), m)
  <2> HIDE DEF f, Adds
  <2> QED
    BY <1>2, <1>4, Zenon
<1>6. \A p \in 1 .. m : CountPieces(k, m)[p] \in Seq(Values)
  BY CountPieceIs
<1> HIDE DEF f
<1>7. Together(f, CountPieces(k, m), m, Values)
  BY <1>0, <1>5, <1>6, TogetherIs, Zenon
<1> QED
  BY <1>1, <1>7, Zenon DEF AddedIn

(* What one argument more does to a key.                                   *)
AfterKeeps(k, m) == After(k, m + 1) = After(k, m)
AfterAdds(k, m) == After(k, m + 1) = Append(After(k, m), Given(m + 1))
AfterSets(k, m) == After(k, m + 1) = <<Given(m + 1)>>

(* so the key has a list of values after any number of arguments,          *)
LEMMA AfterTyped ==
  ASSUME LineKnown, NEW k \in Keys, NEW m, Obeyed(m)
  PROVE  After(k, m) \in Seq(Values)
<1>1. PICK f : AddedIn(f, k, m)
  BY AddedExists, Zenon DEF LineKnown
<1>2. m \in Nat
  BY DEF Obeyed, LineKnown, ArgvKnown
<1>3. m \in 0 .. m
  BY <1>2
<1>4. f[m] \in Seq(Values)
  BY <1>1, <1>3, TogetherTyped, Zenon DEF AddedIn
<1>5. Before(k, m) \in Seq(Values)
  <2>1. <<>> \in Seq(Values)
    OBVIOUS
  <2> QED
    BY <2>1, Zenon DEF Before, LineKnown
<1>6. Before(k, m) \o f[m] \in Seq(Values)
  BY <1>4, <1>5
<1> QED
  BY <1>1, <1>6, Zenon DEF AddedIn

(* and after none of them what it had before.                              *)
LEMMA AfterNothing ==
  ASSUME LineKnown, NEW k \in Keys
  PROVE  After(k, 0) = before.values[k]
<1>1. Obeyed(0)
  BY DEF Obeyed, LineKnown, ArgvKnown
<1>2. PICK f : AddedIn(f, k, 0)
  BY <1>1, AddedExists, Zenon DEF LineKnown
<1>3. f[0] = <<>>
  BY <1>2, Zenon DEF AddedIn, Together
<1>4. Replaces(k, 0) = {}
  BY DEF Replaces
<1>5. After(k, 0) = before.values[k] \o <<>>
  BY <1>2, <1>3, <1>4, Zenon DEF AddedIn, Before
<1>6. before.values[k] \in Seq(Values)
  BY DEF LineKnown
<1> QED
  BY <1>5, <1>6, ConcatEmptySeq, Zenon

(* One argument more may be one more that replaces.                        *)
LEMMA ReplacesOneMore ==
  ASSUME NEW k, NEW m \in Nat
  PROVE  Replaces(k, m + 1) = IF Uses(k, m + 1) /\ ~Match(argv[m + 1]).multiple
                              THEN Replaces(k, m) \cup {m + 1} ELSE Replaces(k, m)
<1>1. \A p : p \in 1 .. m + 1 <=> p \in 1 .. m \/ p = m + 1
  OBVIOUS
<1> QED
  BY <1>1, Zenon DEF Replaces

(* The values from before the argument are the same if it replaces none.   *)
LEMMA AddedSame ==
  ASSUME LineKnown, NEW k \in Keys, NEW m \in Nat, Obeyed(m + 1),
         Uses(k, m + 1) => Match(argv[m + 1]).multiple
  PROVE  /\ Obeyed(m)
         /\ \E f, g : /\ AddedIn(f, k, m) /\ AddedIn(g, k, m + 1)
                      /\ Before(k, m + 1) = Before(k, m) /\ g[m] = f[m]
                      /\ g[m + 1] = f[m] \o CountPieces(k, m + 1)[m + 1]
<1>1. Obeyed(m)
  BY DEF Obeyed, LineKnown, ArgvKnown
<1>2. PICK f : AddedIn(f, k, m)
  BY <1>1, AddedExists, Zenon DEF LineKnown
<1>3. PICK g : AddedIn(g, k, m + 1)
  BY AddedExists, Zenon DEF LineKnown
<1>4. Replaces(k, m + 1) = Replaces(k, m)
  BY ReplacesOneMore
<1>5. Before(k, m + 1) = Before(k, m)
  BY <1>4, Zenon DEF Before
<1>6. ASSUME NEW p \in 1 .. m PROVE CountPieces(k, m)[p] = CountPieces(k, m + 1)[p]
  <2>1. p \in 1 .. m + 1
    OBVIOUS
  <2>2. Counts(k, m, p) <=> Counts(k, m + 1, p)
    BY <1>4, Zenon DEF Counts
  <2> QED
    BY <2>1, <2>2, Zenon DEF CountPieces
<1>7. m <= m /\ m <= m + 1 /\ m + 1 \in 1 .. m + 1 /\ (m + 1) - 1 = m
  OBVIOUS
<1>8. Together(f, CountPieces(k, m), m, Values) /\ Together(g, CountPieces(k, m + 1), m + 1, Values)
  BY <1>2, <1>3, Zenon DEF AddedIn
<1>9. g[m] = f[m]
  BY <1>6, <1>7, <1>8, TogetherSame
<1>10. g[m + 1] = g[m] \o CountPieces(k, m + 1)[m + 1]
  BY <1>7, <1>8 DEF Together
<1> QED
  BY <1>1, <1>2, <1>3, <1>5, <1>9, <1>10, Zenon

(* An argument of another key keeps the values,                            *)
LEMMA NotUsed ==
  ASSUME LineKnown, NEW k \in Keys, NEW m \in Nat, Obeyed(m + 1), ~Uses(k, m + 1)
  PROVE  AfterKeeps(k, m)
<1>1. PICK f, g : /\ AddedIn(f, k, m) /\ AddedIn(g, k, m + 1)
                  /\ Before(k, m + 1) = Before(k, m)
                  /\ g[m + 1] = f[m] \o CountPieces(k, m + 1)[m + 1]
  BY AddedSame, Zenon
<1>2. m + 1 \in 1 .. m + 1 /\ m \in 0 .. m
  OBVIOUS
<1>3. CountPieces(k, m + 1)[m + 1] = <<>>
  BY <1>2, Zenon DEF CountPieces, Counts
<1>4. f[m] \in Seq(Values)
  BY <1>1, <1>2, TogetherTyped, Zenon DEF AddedIn
<1>5. g[m + 1] = f[m]
  BY <1>1, <1>3, <1>4, ConcatEmptySeq, Zenon
<1> QED
  BY <1>1, <1>5, Zenon DEF AddedIn, AfterKeeps

(* one of a multiple option adds its own,                                  *)
LEMMA MultipleUsed ==
  ASSUME LineKnown, NEW k \in Keys, NEW m \in Nat, Obeyed(m + 1),
         Uses(k, m + 1), Match(argv[m + 1]).multiple
  PROVE  AfterAdds(k, m)
<1>0. PICK f, g : /\ AddedIn(f, k, m) /\ AddedIn(g, k, m + 1)
                  /\ Before(k, m + 1) = Before(k, m)
                  /\ g[m + 1] = f[m] \o CountPieces(k, m + 1)[m + 1]
  BY AddedSame, Zenon
<1>1. Obeyed(m) /\ Replaces(k, m + 1) = Replaces(k, m)
  BY AddedSame, ReplacesOneMore
<1>2. m + 1 \in 1 .. m + 1 /\ m \in 0 .. m /\ \A q \in 1 .. m : q <= m + 1
  OBVIOUS
<1>3. Counts(k, m + 1, m + 1)
  BY <1>1, <1>2, Zenon DEF Counts, Replaces
<1>4. CountPieces(k, m + 1)[m + 1] = <<Given(m + 1)>>
  BY <1>2, <1>3, Zenon DEF CountPieces
<1>5. f[m] \in Seq(Values)
  BY <1>0, <1>2, TogetherTyped, Zenon DEF AddedIn
<1>6. Before(k, m) \in Seq(Values) /\ Given(m + 1) \in Values
  <2>1. <<>> \in Seq(Values)
    OBVIOUS
  <2>2. Before(k, m) \in Seq(Values)
    BY <2>1, Zenon DEF Before, LineKnown
  <2>3. m + 1 \in 1 .. Len(argv) /\ ~Refused(m + 1)
    BY <1>2 DEF Obeyed, LineKnown, ArgvKnown
  <2>4. Given(m + 1) \in Values
    BY <2>3, GivenTyped, Zenon DEF Uses, LineKnown
  <2> QED
    BY <2>2, <2>4
<1>7. PICK v : v = <<Given(m + 1)>>
  OBVIOUS
<1>8. v \in Seq(Values)
  BY <1>6, <1>7
<1>9. Associate(Before(k, m), f[m], v)
  BY <1>5, <1>6, <1>8, Associates, Zenon
<1>10. After(k, m + 1) = After(k, m) \o v
  BY <1>0, <1>4, <1>7, <1>9, Zenon DEF AddedIn, Associate
<1>11. After(k, m) \in Seq(Values)
  BY <1>1, AfterTyped, Zenon
<1>12. After(k, m) \o <<Given(m + 1)>> = Append(After(k, m), Given(m + 1))
  BY <1>6, <1>11
<1> QED
  BY <1>7, <1>10, <1>12, Zenon DEF AfterAdds

(* and one of any other option is the only value from then on.             *)
LEMMA SingleUsed ==
  ASSUME LineKnown, NEW k \in Keys, NEW m \in Nat, Obeyed(m + 1),
         Uses(k, m + 1), ~Match(argv[m + 1]).multiple
  PROVE  AfterSets(k, m)
<1>1. PICK g : AddedIn(g, k, m + 1)
  BY AddedExists, Zenon DEF LineKnown
<1>2. Replaces(k, m + 1) = Replaces(k, m) \cup {m + 1}
  BY ReplacesOneMore
<1>3. /\ m + 1 \in 1 .. m + 1 /\ 0 \in Nat /\ m \in Nat /\ 0 <= m /\ m <= m + 1 /\ (m + 1) - 1 = m
      /\ \A q \in 0 + 1 .. m : q \in 1 .. m + 1 /\ ~(m + 1 <= q)
      /\ \A q \in 1 .. m : q <= m + 1
  OBVIOUS
<1>4. Before(k, m + 1) = <<>>
  BY <1>2, Zenon DEF Before
<1>5. \A q \in 0 + 1 .. m : CountPieces(k, m + 1)[q] = <<>>
  <2> SUFFICES ASSUME NEW q \in 0 + 1 .. m PROVE CountPieces(k, m + 1)[q] = <<>>
    OBVIOUS
  <2>1. ~Counts(k, m + 1, q)
    BY <1>2, <1>3, Zenon DEF Counts
  <2> QED
    BY <1>3, <2>1, Zenon DEF CountPieces
<1>6. Together(g, CountPieces(k, m + 1), m + 1, Values)
  BY <1>1, Zenon DEF AddedIn
<1>7. Skips(g, 0, m)
  BY <1>3, <1>5, <1>6, TogetherSkips
<1>8. g[m] = <<>>
  BY <1>6, <1>7, Zenon DEF Skips, Together
<1>9. Counts(k, m + 1, m + 1)
  <2>1. m + 1 <= m + 1
    OBVIOUS
  <2>2. \A q \in Replaces(k, m + 1) : q <= m + 1
    BY <1>2, <1>3, <2>1, Zenon DEF Replaces
  <2> QED
    BY <2>2, Zenon DEF Counts
<1>10. CountPieces(k, m + 1)[m + 1] = <<Given(m + 1)>>
  BY <1>3, <1>9, Zenon DEF CountPieces
<1>11. g[m + 1] = g[m] \o CountPieces(k, m + 1)[m + 1]
  BY <1>3, <1>6, Zenon DEF Together
<1>12. Given(m + 1) \in Values
  <2>1. m + 1 \in 1 .. Len(argv) /\ ~Refused(m + 1)
    BY <1>3 DEF Obeyed, LineKnown, ArgvKnown
  <2> QED
    BY <2>1, GivenTyped, Zenon DEF Uses, LineKnown
<1>13. PICK v : v = <<Given(m + 1)>>
  OBVIOUS
<1>14. v \in Seq(Values)
  BY <1>12, <1>13
<1>15. After(k, m + 1) = <<>> \o (<<>> \o v)
  BY <1>1, <1>4, <1>8, <1>10, <1>11, <1>13, Zenon DEF AddedIn
<1> QED
  BY <1>13, <1>14, <1>15, ConcatEmptySeq, Zenon DEF AfterSets

Used(k, m) == \E p \in 1 .. m : Uses(k, p)

(* An argument that names the key leaves it a value,                       *)
LEMMA AfterEmptyStep ==
  ASSUME LineKnown, NEW k \in Keys, NEW m \in Nat, Obeyed(m + 1),
         After(k, m) = <<>> <=> ~Used(k, m) /\ before.values[k] = <<>>
  PROVE  After(k, m + 1) = <<>> <=> ~Used(k, m + 1) /\ before.values[k] = <<>>
<1>1. \A p : p \in 1 .. m + 1 <=> p \in 1 .. m \/ p = m + 1
  OBVIOUS
<1>2. CASE ~Uses(k, m + 1)
  <2>1. AfterKeeps(k, m)
    BY <1>2, NotUsed, Zenon
  <2>2. Used(k, m + 1) <=> Used(k, m)
    BY <1>1, <1>2, Zenon DEF Used
  <2> QED
    BY <2>1, <2>2, Zenon DEF AfterKeeps
<1>3. CASE Uses(k, m + 1)
  <2>1. Used(k, m + 1)
    BY <1>1, <1>3, Zenon DEF Used
  <2>2. \A v : <<v>> # <<>>
    OBVIOUS
  <2>3. CASE ~Match(argv[m + 1]).multiple
    <3>1. AfterSets(k, m)
      BY <1>3, <2>3, SingleUsed, Zenon
    <3> QED
      BY <2>1, <2>2, <3>1, Zenon DEF AfterSets
  <2>4. CASE Match(argv[m + 1]).multiple
    <3>1. AfterAdds(k, m) /\ Obeyed(m)
      BY <1>3, <2>4, MultipleUsed, AddedSame, Zenon
    <3>2. m + 1 \in 1 .. Len(argv) /\ ~Refused(m + 1)
      BY DEF Obeyed, LineKnown, ArgvKnown
    <3>3. Given(m + 1) \in Values
      BY <1>3, <3>2, GivenTyped, Zenon DEF Uses, LineKnown
    <3>4. After(k, m) \in Seq(Values)
      BY <3>1, AfterTyped, Zenon
    <3>5. Append(After(k, m), Given(m + 1)) # <<>>
      BY <3>3, <3>4
    <3> QED
      BY <2>1, <3>1, <3>5, Zenon DEF AfterAdds
  <2> QED
    BY <2>3, <2>4
<1> QED
  BY <1>2, <1>3

(* so a key has none only if it had none and no argument named it.         *)
LEMMA AfterEmpty ==
  ASSUME LineKnown, NEW k \in Keys, NEW m \in Nat, Obeyed(m)
  PROVE  After(k, m) = <<>> <=> ~Used(k, m) /\ before.values[k] = <<>>
<1> DEFINE Right(x) == After(k, x) = <<>> <=> ~Used(k, x) /\ before.values[k] = <<>>
           T == {x \in Nat : x <= m => Right(x)}
<1>1. Right(0)
  <2>1. ~Used(k, 0)
    BY DEF Used
  <2> QED
    BY <2>1, AfterNothing, Zenon
<1>2. ASSUME NEW x \in Nat, x \in T PROVE x + 1 \in T
  <2> SUFFICES ASSUME x + 1 <= m PROVE Right(x + 1)
    OBVIOUS
  <2>1. x <= m /\ Obeyed(x + 1)
    BY DEF Obeyed, LineKnown, ArgvKnown
  <2>2. Right(x)
    <3> HIDE DEF Right
    <3> QED
      BY <1>2, <2>1
  <2> QED
    BY <2>1, <2>2, AfterEmptyStep, Zenon
<1> HIDE DEF Right
<1>3. 0 \in T
  BY <1>1
<1> HIDE DEF T
<1>4. \A x \in Nat : x \in T
  BY <1>2, <1>3, EveryNumber
<1>5. Right(m)
  BY <1>4 DEF T
<1> QED
  BY <1>5 DEF Right

(* The plain arguments that are left.                                      *)
LeftPieces == [p \in 1 .. Len(argv) |-> IF IsPlain(p) /\ ~Consumed(p) THEN <<argv[p].text>> ELSE <<>>]

(* What an argument leaves is itself or nothing.                           *)
LEMMA LeftPieceIs ==
  ASSUME ArgvKnown, NEW p \in 1 .. Len(argv)
  PROVE  /\ LeftPieces[p] = IF IsPlain(p) /\ ~Consumed(p) THEN <<argv[p].text>> ELSE <<>>
         /\ LeftPieces[p] \in Seq(Plain)
<1>1. IsPlain(p) => argv[p].text \in Plain
  BY ArgumentIs DEF IsPlain
<1>2. IsPlain(p) => <<argv[p].text>> \in Seq(Plain)
  BY <1>1
<1>3. <<>> \in Seq(Plain)
  OBVIOUS
<1> QED
  BY <1>2, <1>3, Zenon DEF LeftPieces

(* The recursive function puts together what the arguments leave,          *)
LEMMA LeftIs ==
  ASSUME ArgvKnown
  PROVE  Together(Left, LeftPieces, Len(argv), Plain)
<1>1. PICK n \in Nat : n = Len(argv)
  BY DEF ArgvKnown
<1> DEFINE Piece(p) == IF IsPlain(p) /\ ~Consumed(p) THEN <<argv[p].text>> ELSE <<>>
           Adds(g) == g = [p \in 0 .. Len(argv) |-> IF p = 0 THEN <<>> ELSE g[p - 1] \o Piece(p)]
<1>2. Left = CHOOSE g : Adds(g)
  BY Zenon DEF Left
<1>3. ASSUME NEW g PROVE Concatenates(g, LeftPieces, n) <=> Adds(g)
  <2>1. ASSUME NEW p \in 0 .. n, p # 0 PROVE LeftPieces[p] = Piece(p)
    <3>1. p \in 1 .. Len(argv)
      BY <1>1, <2>1
    <3> QED
      BY <3>1, Zenon DEF LeftPieces
  <2> HIDE DEF Piece
  <2>2. \A p \in 0 .. n : (IF p = 0 THEN <<>> ELSE g[p - 1] \o LeftPieces[p])
                           = (IF p = 0 THEN <<>> ELSE g[p - 1] \o Piece(p))
    BY <2>1, Zenon
  <2>3. [p \in 0 .. n |-> IF p = 0 THEN <<>> ELSE g[p - 1] \o LeftPieces[p]]
        = [p \in 0 .. n |-> IF p = 0 THEN <<>> ELSE g[p - 1] \o Piece(p)]
    BY <2>2, Zenon
  <2> QED
    BY <1>1, <2>3, Zenon DEF Concatenates
<1>4. PICK g : Concatenates(g, LeftPieces, n)
  BY ConcatenationExists
<1>5. Concatenates(Left, LeftPieces, n)
  <2>1. Adds(g)
    BY <1>3, <1>4, Zenon
  <2> HIDE DEF Adds
  <2>2. Adds(Left)
    BY <1>2, <2>1, Zenon
  <2> QED
    BY <1>3, <2>2, Zenon
<1>6. \A p \in 1 .. n : LeftPieces[p] \in Seq(Plain)
  BY <1>1, LeftPieceIs, Zenon
<1> QED
  BY <1>1, <1>5, <1>6, TogetherIs, Zenon

LeftGrows(p) ==
  /\ Left[p - 1] \in Seq(Plain) /\ Left[p] \in Seq(Plain)
  /\ IsPlain(p) /\ ~Consumed(p) => Left[p] = Append(Left[p - 1], argv[p].text)
  /\ ~(IsPlain(p) /\ ~Consumed(p)) => Left[p] = Left[p - 1]

(* one argument after the other.                                           *)
LEMMA LeftStep ==
  ASSUME ArgvKnown, NEW p \in 1 .. Len(argv)
  PROVE  LeftGrows(p)
<1>1. Together(Left, LeftPieces, Len(argv), Plain)
  BY LeftIs
<1>2. p \in 0 .. Len(argv) /\ p - 1 \in 0 .. Len(argv)
  BY DEF ArgvKnown
<1>3. Left[p - 1] \in Seq(Plain) /\ Left[p] \in Seq(Plain)
  BY <1>1, <1>2, TogetherTyped, Zenon
<1>4. Left[p] = Left[p - 1] \o LeftPieces[p]
  BY <1>1, Zenon DEF Together
<1>5. LeftPieces[p] = IF IsPlain(p) /\ ~Consumed(p) THEN <<argv[p].text>> ELSE <<>>
  BY Zenon DEF LeftPieces
<1>6. ASSUME IsPlain(p), ~Consumed(p) PROVE Left[p] = Append(Left[p - 1], argv[p].text)
  <2>1. argv[p].text \in Plain
    BY <1>6, ArgumentIs DEF IsPlain
  <2>2. Left[p - 1] \o <<argv[p].text>> = Append(Left[p - 1], argv[p].text)
    BY <1>3, <2>1
  <2> QED
    BY <1>4, <1>5, <1>6, <2>2, Zenon
<1>7. ASSUME ~(IsPlain(p) /\ ~Consumed(p)) PROVE Left[p] = Left[p - 1]
  BY <1>3, <1>4, <1>5, <1>7, ConcatEmptySeq, Zenon
<1> QED
  BY <1>3, <1>6, <1>7, Zenon DEF LeftGrows

(* What parse() does with an argument is what the argument says.           *)
LEMMA FollowedIs ==
  ASSUME ArgvKnown, i \in 1 .. Len(argv)
  PROVE  /\ Followed <=> i < Len(argv) /\ IsPlain(i + 1)
         /\ TakesNext(argv[i], Match(argv[i])) <=> i < Len(argv) /\ Consumed(i + 1)
<1>1. i + 1 > 1 /\ (i + 1) - 1 = i
  OBVIOUS
<1>2. Followed <=> i < Len(argv) /\ IsPlain(i + 1)
  BY Zenon DEF Followed, IsPlain
<1> QED
  BY <1>1, <1>2, Zenon DEF TakesNext, Consumed

(* The value it writes is the one given,                                   *)
LEMMA ValueIsGiven ==
  ASSUME ArgvKnown, i \in 1 .. Len(argv)
  PROVE  ValueOf(argv[i], Match(argv[i])) = Given(i)
<1>1. TakesNext(argv[i], Match(argv[i])) <=> i < Len(argv) /\ Consumed(i + 1)
  BY FollowedIs
<1>2. TakesNext(argv[i], Match(argv[i])) => argv[i].kind # "long="
  BY DEF TakesNext
<1>3. CASE TakesNext(argv[i], Match(argv[i]))
  BY <1>1, <1>2, <1>3, Zenon DEF ValueOf, Given
<1>4. CASE ~TakesNext(argv[i], Match(argv[i])) /\ argv[i].kind = "long="
  BY <1>1, <1>4, Zenon DEF ValueOf, Given
<1>5. CASE ~TakesNext(argv[i], Match(argv[i])) /\ argv[i].kind # "long="
  BY <1>1, <1>5, Zenon DEF ValueOf, Given, DefaultValue
<1> QED
  BY <1>3, <1>4, <1>5

(* and it writes one just where the argument is not refused.               *)
LEMMA FitsIsObeyed ==
  ASSUME ArgvKnown, i \in 1 .. Len(argv), ~IsPlain(i)
  PROVE  Refused(i) <=> Matching(argv[i]) = {} \/ ~Fits(argv[i], Match(argv[i]))
<1> DEFINE a == argv[i]
           o == Match(argv[i])
<1>1. CASE Matching(a) = {}
  BY <1>1, Zenon DEF Refused
<1>2. CASE Matching(a) # {}
  <2>1. OptionIs(o)
    BY <1>2, MatchIs
  <2>2. a.kind \in {"short", "long", "long="}
    <3>1. a.kind # "short="
      BY <1>2 DEF Matching, Names
    <3> QED
      BY <3>1, ArgumentIs DEF IsPlain, Kinds
  <2>3. Wrong(a, o) <=> \/ a.kind = "short" /\ o.argument /\ ~o.optional /\ ~Followed
                        \/ a.kind = "long" /\ o.argument /\ ~o.optional
                        \/ a.kind = "long=" /\ ~o.argument
    <3> HIDE DEF a, o
    <3>1. CASE a.kind = "short"
      BY <3>1 DEF Wrong
    <3>2. CASE a.kind = "long"
      BY <3>2 DEF Wrong
    <3>3. CASE a.kind = "long="
      BY <3>3 DEF Wrong
    <3> QED
      BY <2>2, <3>1, <3>2, <3>3
  <2>4. ~Followed <=> i = Len(argv) \/ ~IsPlain(i + 1)
    <3>1. i < Len(argv) <=> i # Len(argv)
      <4>1. Len(argv) \in Nat
        BY DEF ArgvKnown
      <4> QED
        BY <4>1
    <3> QED
      BY <3>1, FollowedIs, Zenon
  <2>5. ValueOf(a, o) = Given(i)
    BY ValueIsGiven
  <2>6. ~CheckArgument(o.type, Given(i)) => o.argument /\ o.type # "string"
    BY <2>1 DEF CheckArgument, OptionIs
  <2>7. Fits(a, o) <=> ~Wrong(a, o) /\ CheckArgument(o.type, Given(i))
    BY <2>5, Zenon DEF Fits
  <2>8. Refused(i) <=> \/ o.argument /\ ~o.optional /\ a.kind = "long"
                       \/ o.argument /\ ~o.optional /\ a.kind = "short" /\ (i = Len(argv) \/ ~IsPlain(i + 1))
                       \/ ~o.argument /\ a.kind = "long="
                       \/ o.argument /\ o.type # "string" /\ ~CheckArgument(o.type, Given(i))
    BY <1>2, Zenon DEF Refused
  <2> HIDE DEF a, o
  <2> QED
    BY <1>2, <2>3, <2>4, <2>6, <2>7, <2>8, Zenon DEF a, o
<1> QED
  BY <1>1, <1>2

(* The config_set that is written to.                                      *)
SetKnown(set) == set \in C!SetType({1, 2})

Writes(set, k, vs, new) ==
  /\ SetKnown(new) /\ new.children = set.children /\ new.values[k] = vs
  /\ \A j \in Keys : j # k => new.values[j] = set.values[j]

(* insert() of the config_set appends a value to one key,                  *)
LEMMA InsertWrites ==
  ASSUME NEW set, SetKnown(set), NEW k \in Keys, NEW v \in Values
  PROVE  Writes(set, k, Append(set.values[k], v), C!Insert(set, k, v))
<1>1. PICK w : w = Append(set.values[k], v)
  OBVIOUS
<1>2. set.values[k] \in Seq(Values)
  BY DEF SetKnown, C!SetType
<1>3. w \in Seq(Values)
  BY <1>1, <1>2
<1>4. PICK e : e = [set EXCEPT !.values[k] = w]
  OBVIOUS
<1>5. Writes(set, k, w, e)
  BY <1>3, <1>4 DEF Writes, SetKnown, C!SetType
<1>6. C!Insert(set, k, v) = e
  BY <1>1, <1>4 DEF C!Insert
<1> QED
  BY <1>1, <1>5, <1>6, Zenon

(* and set() makes it the only one.                                        *)
LEMMA ReplaceWrites ==
  ASSUME NEW set, SetKnown(set), NEW k \in Keys, NEW v \in Values
  PROVE  Writes(set, k, <<v>>, C!Replace(set, k, v))
<1>1. PICK vs : vs = <<v>>
  OBVIOUS
<1>2. vs \in Seq(Values) /\ vs = Append(<<>>, v) /\ <<>> \in Seq(Values)
  BY <1>1
<1>3. C!Replace(set, k, v) = [[set EXCEPT !.values[k] = <<>>] EXCEPT !.values[k] = Append(@, v)]
  BY DEF C!Replace, C!Insert, C!Erase
<1>4. PICK e : e = [set EXCEPT !.values[k] = <<>>]
  OBVIOUS
<1>5. Writes(set, k, <<>>, e)
  BY <1>2, <1>4 DEF Writes, SetKnown, C!SetType
<1>6. Writes(e, k, Append(e.values[k], v), C!Insert(e, k, v))
  BY <1>5, InsertWrites DEF Writes
<1>7. C!Replace(set, k, v) = C!Insert(e, k, v)
  BY <1>4, Zenon DEF C!Replace, C!Erase
<1> QED
  BY <1>1, <1>2, <1>5, <1>6, <1>7, Zenon DEF Writes

(* What has been read, and what has been set by default.                   *)
ReadOf(c, m, r) ==
  Obeyed(m) /\ (\A k \in Keys : c.values[k] = After(k, m)) /\ r = Left[m]
ReadTo(c, n, r) == ReadOf(c, n - 1, r) /\ (n <= Len(argv) => ~Consumed(n))

Earlier(k, n) == {x \in Defaults(k) : x < n}
Has(k, n) == Known(k) \/ Earlier(k, n) # {}
DefaultsTo(c, n, r) ==
  /\ Obeyed(Len(argv)) /\ r = Left[Len(argv)]
  /\ \A k \in Keys : c.values[k] = IF Known(k) \/ Earlier(k, n) = {} THEN After(k, Len(argv))
                                   ELSE <<FirstDefault(k)>>
  /\ \A x \in 1 .. n - 1 : options[x].required => Has(options[x].key, n)

(* What is true when parse() returns, and when it throws.                  *)
Returned(c, rest) ==
  /\ \A p \in DOMAIN argv : ~Refused(p)
  /\ \A k \in Keys : c.values[k] =
        IF Known(k) \/ Defaults(k) = {} THEN After(k, Len(argv)) ELSE <<FirstDefault(k)>>
  /\ \A n \in DOMAIN options : options[n].required => C!Exists(c, options[n].key)
  /\ rest = Left[Len(argv)]
Threw(c, n) ==
  \/ /\ n <= Len(argv) /\ Refused(n)
     /\ \A p \in 1 .. n - 1 : ~Refused(p)
     /\ \A k \in Keys : c.values[k] = After(k, n - 1)
  \/ /\ \A p \in DOMAIN argv : ~Refused(p)
     /\ \E x \in DOMAIN options : options[x].required /\ ~C!Exists(c, options[x].key)

(* A plain argument remains unless an option has taken it.                 *)
LEMMA PlainRead ==
  ASSUME LineKnown, NEW c, NEW m \in Nat, NEW r, ReadOf(c, m, r), m + 1 <= Len(argv), IsPlain(m + 1)
  PROVE  /\ Consumed(m + 1) => ReadOf(c, m + 1, r)
         /\ ~Consumed(m + 1) => ReadOf(c, m + 1, Append(r, argv[m + 1].text))
<1>1. Obeyed(m) /\ (\A k \in Keys : c.values[k] = After(k, m)) /\ r = Left[m]
  BY Zenon DEF ReadOf
<1>2. m + 1 \in 1 .. Len(argv) /\ (m + 1) - 1 = m /\ m + 1 \in 0 .. Len(argv)
      /\ \A p : p \in 1 .. m + 1 <=> p \in 1 .. m \/ p = m + 1
  BY DEF LineKnown, ArgvKnown
<1>3. ~Refused(m + 1) /\ \A k : ~Uses(k, m + 1)
  BY Zenon DEF Refused, Uses
<1>4. Obeyed(m + 1)
  BY <1>1, <1>2, <1>3, Zenon DEF Obeyed
<1>5. \A k \in Keys : AfterKeeps(k, m)
  BY <1>3, <1>4, NotUsed, Zenon
<1>6. \A k \in Keys : c.values[k] = After(k, m + 1)
  BY <1>1, <1>5, Zenon DEF AfterKeeps
<1>7. LeftGrows(m + 1)
  BY <1>2, LeftStep, Zenon DEF LineKnown
<1>8. /\ Consumed(m + 1) => r = Left[m + 1]
      /\ ~Consumed(m + 1) => Append(r, argv[m + 1].text) = Left[m + 1]
  BY <1>1, <1>2, <1>7, Zenon DEF LeftGrows
<1> QED
  BY <1>4, <1>6, <1>8, Zenon DEF ReadOf

(* An option writes its value to its key and to no other.                  *)
LEMMA OptionRead ==
  ASSUME LineKnown, NEW c, NEW m \in Nat, NEW r, ReadOf(c, m, r), m + 1 <= Len(argv), ~IsPlain(m + 1),
         ~Refused(m + 1), SetKnown(c), NEW d, d = Added(c, Match(argv[m + 1]), Given(m + 1))
  PROVE  SetKnown(d) /\ d.children = c.children /\ ReadOf(d, m + 1, r)
<1>1. Obeyed(m) /\ (\A k \in Keys : c.values[k] = After(k, m)) /\ r = Left[m]
  BY Zenon DEF ReadOf
<1>2. m + 1 \in 1 .. Len(argv) /\ (m + 1) - 1 = m /\ m + 1 \in 0 .. Len(argv)
      /\ \A p : p \in 1 .. m + 1 <=> p \in 1 .. m \/ p = m + 1
  BY DEF LineKnown, ArgvKnown
<1>3. Obeyed(m + 1)
  BY <1>1, <1>2, Zenon DEF Obeyed
<1>4. PICK o : o = Match(argv[m + 1])
  OBVIOUS
<1>5. PICK v : v = Given(m + 1)
  OBVIOUS
<1>6. v \in Values
  BY <1>2, <1>5, GivenTyped, Zenon DEF LineKnown
<1>7. o.key \in Keys
  <2>1. Matching(argv[m + 1]) # {}
    BY Zenon DEF Refused
  <2> QED
    BY <1>4, <2>1, MatchIs, Zenon DEF OptionIs, LineKnown
<1>8. \A k : Uses(k, m + 1) <=> k = o.key
  BY <1>4, Zenon DEF Uses
<1>9. LeftGrows(m + 1)
  BY <1>2, LeftStep, Zenon DEF LineKnown
<1>10. r = Left[m + 1]
  BY <1>1, <1>2, <1>9, Zenon DEF LeftGrows
<1>11. PICK vs : vs = IF o.multiple THEN Append(c.values[o.key], v) ELSE <<v>>
  OBVIOUS
<1>12. Writes(c, o.key, vs, d)
  <2>1. CASE o.multiple
    <3>1. d = C!Insert(c, o.key, v) /\ vs = Append(c.values[o.key], v)
      BY <1>4, <1>5, <1>11, <2>1, Zenon DEF Added
    <3> QED
      BY <1>6, <1>7, <3>1, InsertWrites, Zenon
  <2>2. CASE ~o.multiple
    <3>1. d = C!Replace(c, o.key, v) /\ vs = <<v>>
      BY <1>4, <1>5, <1>11, <2>2, Zenon DEF Added
    <3> QED
      BY <1>6, <1>7, <3>1, ReplaceWrites, Zenon
  <2> QED
    BY <2>1, <2>2
<1>13. vs = After(o.key, m + 1)
  <2>1. CASE o.multiple
    <3>1. AfterAdds(o.key, m)
      BY <1>3, <1>4, <1>7, <1>8, <2>1, MultipleUsed, Zenon
    <3> QED
      BY <1>1, <1>5, <1>7, <1>11, <2>1, <3>1, Zenon DEF AfterAdds
  <2>2. CASE ~o.multiple
    <3>1. AfterSets(o.key, m)
      BY <1>3, <1>4, <1>7, <1>8, <2>2, SingleUsed, Zenon
    <3> QED
      BY <1>5, <1>11, <2>2, <3>1, Zenon DEF AfterSets
  <2> QED
    BY <2>1, <2>2
<1>14. ASSUME NEW k \in Keys PROVE d.values[k] = After(k, m + 1)
  <2>1. CASE k = o.key
    BY <1>12, <1>13, <2>1, Zenon DEF Writes
  <2>2. CASE k # o.key
    <3>1. AfterKeeps(k, m)
      BY <1>3, <1>8, <2>2, NotUsed, Zenon
    <3>2. d.values[k] = c.values[k]
      BY <1>12, <2>2, Zenon DEF Writes
    <3> QED
      BY <1>1, <3>1, <3>2, Zenon DEF AfterKeeps
  <2> QED
    BY <2>1, <2>2
<1> QED
  BY <1>3, <1>10, <1>12, <1>14, Zenon DEF ReadOf, Writes

(* A key exists if it was given, or has had its default.                   *)
LEMMA KeyExists ==
  ASSUME LineKnown, NEW c, NEW n, NEW r, DefaultsTo(c, n, r), c.children = before.children,
         NEW k \in Keys
  PROVE  C!Exists(c, k) <=> Has(k, n)
<1>1. Obeyed(Len(argv)) /\ Len(argv) \in Nat /\ DOMAIN argv = 1 .. Len(argv)
  BY Zenon DEF DefaultsTo, LineKnown, ArgvKnown
<1>2. After(k, Len(argv)) = <<>> <=> ~Used(k, Len(argv)) /\ before.values[k] = <<>>
  BY <1>1, AfterEmpty, Zenon
<1>3. Known(k) <=> Used(k, Len(argv)) \/ before.values[k] # <<>> \/ before.children[k] # <<>>
  BY <1>1, Zenon DEF Known, Used, C!Exists
<1>4. c.values[k] = IF Known(k) \/ Earlier(k, n) = {} THEN After(k, Len(argv)) ELSE <<FirstDefault(k)>>
  BY Zenon DEF DefaultsTo
<1>5. \A v : <<v>> # <<>>
  OBVIOUS
<1>6. CASE Known(k)
  BY <1>2, <1>3, <1>4, <1>6, Zenon DEF C!Exists, Has
<1>7. CASE ~Known(k) /\ Earlier(k, n) = {}
  BY <1>2, <1>3, <1>4, <1>7, Zenon DEF C!Exists, Has
<1>8. CASE ~Known(k) /\ Earlier(k, n) # {}
  BY <1>4, <1>5, <1>8, Zenon DEF C!Exists, Has
<1> QED
  BY <1>6, <1>7, <1>8

(* Before the second loop no option has given its default.                 *)
LEMMA DefaultsStart ==
  ASSUME LineKnown, NEW c, NEW r, ReadOf(c, Len(argv), r)
  PROVE  DefaultsTo(c, 1, r)
<1>1. \A k : Earlier(k, 1) = {}
  BY OptionsAre DEF Earlier, Defaults, LineKnown
<1>2. \A x : x \notin 1 .. 1 - 1
  OBVIOUS
<1> QED
  BY <1>1, <1>2, Zenon DEF DefaultsTo, ReadOf

(* One option more may be one more that has a default.                     *)
LEMMA EarlierOneMore ==
  ASSUME LineKnown, NEW k, NEW n \in 1 .. Len(options)
  PROVE  Earlier(k, n + 1) = IF options[n].key = k /\ options[n].hasDefault
                             THEN Earlier(k, n) \cup {n} ELSE Earlier(k, n)
<1>1. Len(options) \in Nat /\ DOMAIN options = 1 .. Len(options)
  BY OptionsAre DEF LineKnown
<1>2. \A x \in DOMAIN options : x < n + 1 <=> x < n \/ x = n
  BY <1>1
<1>3. ~(n < n)
  BY <1>1
<1> QED
  BY <1>1, <1>2, <1>3, Zenon DEF Earlier, Defaults

(* A round gives the default to a key that has nothing,                    *)
LEMMA DefaultsStep ==
  ASSUME LineKnown, NEW c, NEW n \in 1 .. Len(options), NEW r, DefaultsTo(c, n, r), SetKnown(c),
         c.children = before.children, NEW o, o = options[n],
         ~(~C!Exists(c, o.key) /\ o.required),
         NEW d, d = IF ~C!Exists(c, o.key) /\ o.hasDefault THEN C!Replace(c, o.key, DefaultValue(o)) ELSE c
  PROVE  SetKnown(d) /\ d.children = c.children /\ DefaultsTo(d, n + 1, r)
<1>1. Len(options) \in Nat /\ DOMAIN options = 1 .. Len(options)
      /\ \A x \in DOMAIN options : OptionIs(options[x])
  BY OptionsAre DEF LineKnown
<1>2. OptionIs(o) /\ o.key \in Keys
  BY <1>1, Zenon DEF OptionIs
<1>3. C!Exists(c, o.key) <=> Has(o.key, n)
  BY <1>2, KeyExists, Zenon
<1>4. \A k : Earlier(k, n + 1) = IF o.key = k /\ o.hasDefault THEN Earlier(k, n) \cup {n} ELSE Earlier(k, n)
  BY EarlierOneMore
<1>5. /\ Obeyed(Len(argv)) /\ r = Left[Len(argv)]
      /\ \A k \in Keys : c.values[k] = IF Known(k) \/ Earlier(k, n) = {} THEN After(k, Len(argv))
                                       ELSE <<FirstDefault(k)>>
      /\ \A x \in 1 .. n - 1 : options[x].required => Has(options[x].key, n)
  BY Zenon DEF DefaultsTo
<1>6. \A k : Has(k, n) => Has(k, n + 1)
  BY <1>4, Zenon DEF Has
<1>7. ASSUME NEW x \in 1 .. (n + 1) - 1, options[x].required PROVE Has(options[x].key, n + 1)
  <2>1. x \in 1 .. n - 1 \/ x = n
    OBVIOUS
  <2>2. CASE x = n
    BY <1>3, <1>6, <1>7, <2>2, Zenon
  <2>3. CASE x \in 1 .. n - 1
    BY <1>5, <1>6, <1>7, <2>3, Zenon
  <2> QED
    BY <2>1, <2>2, <2>3
<1>8. CASE ~C!Exists(c, o.key) /\ o.hasDefault
  <2>1. DefaultValue(o) = o.default /\ o.default \in Values
    BY <1>2, <1>8, Zenon DEF DefaultValue, OptionIs
  <2>2. d = C!Replace(c, o.key, o.default)
    BY <1>8, <2>1, Zenon
  <2>3. Writes(c, o.key, <<o.default>>, d)
    BY <1>2, <2>1, <2>2, ReplaceWrites, Zenon
  <2>4. ~Known(o.key) /\ Earlier(o.key, n) = {}
    BY <1>3, <1>8, Zenon DEF Has
  <2>5. n \in Defaults(o.key) /\ Defaults(o.key) \in SUBSET Nat /\ \A x \in Defaults(o.key) : n <= x
    <3>1. n \in Defaults(o.key)
      BY <1>1, <1>8, Zenon DEF Defaults
    <3>2. Defaults(o.key) \subseteq DOMAIN options
      BY DEF Defaults
    <3>3. ASSUME NEW x \in Defaults(o.key) PROVE ~(x < n)
      BY <2>4, Zenon DEF Earlier
    <3>4. \A x \in DOMAIN options : x \in Nat /\ (~(x < n) => n <= x)
      BY <1>1
    <3> QED
      BY <3>1, <3>2, <3>3, <3>4
  <2>6. n = Least(Defaults(o.key))
    BY <2>5, LeastOf
  <2>7. FirstDefault(o.key) = o.default
    BY <2>6, Zenon DEF FirstDefault, Least
  <2>8. ASSUME NEW k \in Keys
        PROVE d.values[k] = IF Known(k) \/ Earlier(k, n + 1) = {} THEN After(k, Len(argv)) ELSE <<FirstDefault(k)>>
    <3>1. CASE k = o.key
      <4>1. Earlier(k, n + 1) # {}
        BY <1>4, <1>8, <3>1, Zenon
      <4>2. d.values[k] = <<FirstDefault(k)>>
        BY <2>3, <2>7, <3>1, Zenon DEF Writes
      <4> QED
        BY <2>4, <3>1, <4>1, <4>2, Zenon
    <3>2. CASE k # o.key
      <4>1. Earlier(k, n + 1) = Earlier(k, n) /\ d.values[k] = c.values[k]
        BY <1>4, <2>3, <3>2, Zenon DEF Writes
      <4> QED
        BY <1>5, <4>1, Zenon
    <3> QED
      BY <3>1, <3>2
  <2> QED
    BY <1>5, <1>7, <2>3, <2>8, Zenon DEF DefaultsTo, Writes
<1>9. CASE ~(~C!Exists(c, o.key) /\ o.hasDefault)
  <2>1. d = c
    BY <1>9, Zenon
  <2>2. ASSUME NEW k \in Keys
        PROVE c.values[k] = IF Known(k) \/ Earlier(k, n + 1) = {} THEN After(k, Len(argv)) ELSE <<FirstDefault(k)>>
    <3>1. CASE o.key = k /\ o.hasDefault
      <4>1. Has(k, n) /\ Earlier(k, n + 1) # {}
        BY <1>3, <1>4, <1>9, <3>1, Zenon
      <4>2. Known(k) \/ Earlier(k, n) # {}
        BY <4>1, Zenon DEF Has
      <4> QED
        BY <1>5, <4>1, <4>2, Zenon
    <3>2. CASE ~(o.key = k /\ o.hasDefault)
      <4>1. Earlier(k, n + 1) = Earlier(k, n)
        BY <1>4, <3>2, Zenon
      <4> QED
        BY <1>5, <4>1, Zenon
    <3> QED
      BY <3>1, <3>2
  <2> QED
    BY <1>5, <1>7, <2>1, <2>2, Zenon DEF DefaultsTo
<1> QED
  BY <1>8, <1>9

(* and after the last of them all is as a call that returns leaves it.     *)
LEMMA DefaultsEnd ==
  ASSUME LineKnown, NEW c, NEW r, DefaultsTo(c, Len(options) + 1, r), c.children = before.children
  PROVE  Returned(c, r)
<1>1. Len(options) \in Nat /\ DOMAIN options = 1 .. Len(options)
      /\ \A x \in DOMAIN options : OptionIs(options[x])
  BY OptionsAre DEF LineKnown
<1>2. PICK n \in Nat : n = Len(options)
  BY <1>1
<1>3. ASSUME NEW k PROVE Earlier(k, n + 1) = Defaults(k)
  <2>1. \A x \in DOMAIN options : x < n + 1
    BY <1>1, <1>2
  <2> QED
    BY <2>1, Zenon DEF Earlier, Defaults
<1>4. DefaultsTo(c, n + 1, r)
  BY <1>2
<1>5. \A p \in DOMAIN argv : ~Refused(p)
  BY <1>4, Zenon DEF DefaultsTo, Obeyed, LineKnown, ArgvKnown
<1>6. ASSUME NEW x \in DOMAIN options, options[x].required PROVE C!Exists(c, options[x].key)
  <2>1. x \in 1 .. (n + 1) - 1
    BY <1>1, <1>2
  <2>2. Has(options[x].key, n + 1) /\ options[x].key \in Keys
    BY <1>1, <1>4, <1>6, <2>1, Zenon DEF DefaultsTo, OptionIs
  <2> QED
    BY <1>4, <2>2, KeyExists, Zenon
<1> QED
  BY <1>3, <1>4, <1>5, <1>6, Zenon DEF Returned, DefaultsTo

LineFrame ==
  /\ ArgvKnown /\ Len(argv) <= MaxArguments
  /\ SetKnown(config) /\ SetKnown(before) /\ config.children = before.children
  /\ stage \in {"idle", "arguments", "defaults"}
  /\ i \in 1 .. Len(argv) + 1 /\ next \in 1 .. Len(options) + 1
  /\ remains \in Seq(Plain) /\ m_remaining \in Seq(Plain)
  /\ outcome \in {"none", "parsed", "commandline_error"}
  /\ parses \in 0 .. MaxParses

Reading == next = 1 /\ ReadTo(config, i, remains)
Filling == i = Len(argv) + 1 /\ DefaultsTo(config, next, remains)
Resting == /\ outcome = "parsed" => Returned(config, m_remaining)
           /\ outcome = "commandline_error" => Threw(config, i)

(* The config_set holds what the arguments before i say, and then the      *)
(* defaults of the options before next.                                    *)
LineInv ==
  part = "command_line" =>
    /\ LineFrame
    /\ stage = "arguments" => Reading
    /\ stage = "defaults" => Filling
    /\ stage = "idle" => Resting

(* The frame is what the lemmas on the arguments suppose.                  *)
LEMMA FrameKnown == ASSUME LineFrame PROVE LineKnown
<1>1. \A k \in Keys : before.values[k] \in Seq(Values)
  BY DEF LineFrame, SetKnown, C!SetType
<1> QED
  BY <1>1, Zenon DEF LineKnown, LineFrame

(* The numbers and lists of the frame.                                     *)
LEMMA FrameTyped ==
  ASSUME LineFrame
  PROVE  /\ Len(argv) \in Nat /\ Len(options) \in Nat /\ i \in Nat /\ next \in Nat
         /\ DOMAIN argv = 1 .. Len(argv) /\ DOMAIN options = 1 .. Len(options)
         /\ MaxArguments \in Nat /\ MaxParses \in Nat
<1>1. ArgvKnown /\ i \in 1 .. Len(argv) + 1 /\ next \in 1 .. Len(options) + 1
  BY Zenon DEF LineFrame
<1>2. Len(argv) \in Nat /\ Len(options) \in Nat /\ DOMAIN argv = 1 .. Len(argv) /\ DOMAIN options = 1 .. Len(options)
  BY <1>1, OptionsAre DEF ArgvKnown
<1>3. i \in Nat /\ next \in Nat
  BY <1>1, <1>2
<1> QED
  BY <1>2, <1>3, OptionAssumption

(* The invariant says what a call means.                                   *)
LEMMA LineInvObeys ==
  ASSUME LineInv, part = "command_line"
  PROVE  LineTypeOK /\ ParseObeys
<1>1. LineFrame
  BY Zenon DEF LineInv
<1>2. ParseObeys
  <2>1. stage = "idle" => Resting
    BY Zenon DEF LineInv
  <2>2. config.children = before.children
    BY <1>1, Zenon DEF LineFrame
  <2> QED
    BY <2>1, <2>2, Zenon DEF ParseObeys, Resting, Returned, Threw
<1>3. \A n \in DOMAIN options : options[n].valid /\ options[n].key \in Keys
  BY <1>1, OptionsAre, Zenon DEF LineFrame, OptionIs
<1> QED
  BY <1>1, <1>2, <1>3, Zenon DEF LineTypeOK, LineFrame, SetKnown, ArgvKnown

(* A call begins.                                                          *)
LineStart ==
  /\ options \in OptionLists /\ argv \in Vectors(options, MaxArguments)
  /\ i = 1 /\ next = 1 /\ remains = <<>> /\ stage = "arguments" /\ outcome = "none"
  /\ before = config /\ SetKnown(config)
  /\ m_remaining \in Seq(Plain) /\ parses \in 0 .. MaxParses

(* The arguments of a call are no more than fit the bound.                 *)
LEMMA VectorIs ==
  ASSUME NEW list, NEW n \in Nat, NEW vector \in Vectors(list, n)
  PROVE  /\ Len(vector) \in Nat /\ Len(vector) <= n /\ DOMAIN vector = 1 .. Len(vector)
         /\ \A p \in DOMAIN vector : vector[p] \in Arguments(list)
<1>1. PICK m \in 0 .. n : vector \in [1 .. m -> Arguments(list)]
  BY Zenon DEF Vectors
<1>2. m \in Nat /\ m <= n
  BY <1>1
<1> HIDE DEF Arguments
<1>3. Len(vector) = m
  BY <1>1, <1>2
<1> QED
  BY <1>1, <1>2, <1>3

(* A call starts with nothing read and nothing left.                       *)
LEMMA LineStarts == LineStart => LineFrame /\ Reading
<1> SUFFICES ASSUME LineStart PROVE LineFrame /\ Reading
  OBVIOUS
<1>1. options \in OptionLists /\ argv \in Vectors(options, MaxArguments) /\ MaxArguments \in Nat
  BY OptionAssumption DEF LineStart
<1>2. /\ Len(argv) \in Nat /\ Len(argv) <= MaxArguments /\ DOMAIN argv = 1 .. Len(argv)
      /\ \A p \in DOMAIN argv : argv[p] \in Arguments(options)
  BY <1>1, VectorIs, Zenon
<1>3. ArgvKnown
  BY <1>1, <1>2, Zenon DEF ArgvKnown
<1>4. Len(options) \in Nat
  BY <1>3, OptionsAre
<1>5. 1 \in 1 .. Len(argv) + 1 /\ 1 \in 1 .. Len(options) + 1 /\ <<>> \in Seq(Plain)
  BY <1>2, <1>4
<1>6. /\ i = 1 /\ next = 1 /\ remains = <<>> /\ stage = "arguments" /\ outcome = "none"
      /\ before = config /\ SetKnown(config)
      /\ m_remaining \in Seq(Plain) /\ parses \in 0 .. MaxParses
  BY Zenon DEF LineStart
<1>7. LineFrame
  BY <1>2, <1>3, <1>5, <1>6, Zenon DEF LineFrame
<1>8. Obeyed(0) /\ 1 - 1 = 0 /\ ~Consumed(1)
  BY <1>2 DEF Obeyed, Consumed
<1>9. \A k \in Keys : config.values[k] = After(k, 0)
  BY <1>6, <1>7, FrameKnown, AfterNothing, Zenon
<1>10. Left[0] = <<>>
  BY <1>3, LeftIs, Zenon DEF Together
<1>11. ReadOf(config, 0, remains)
  BY <1>6, <1>8, <1>9, <1>10, Zenon DEF ReadOf
<1> QED
  BY <1>6, <1>7, <1>8, <1>11, Zenon DEF Reading, ReadTo

(* The invariant holds before the first call.                              *)
LEMMA LineInvInit == Init => LineInv
<1> SUFFICES ASSUME Init, part = "command_line" PROVE LineInv
  BY DEF LineInv
<1>1. LineInit
  BY DEF Init
<1>2. /\ options \in OptionLists /\ before = config
      /\ config \in {C!EmptySet(C!NoSet)} \cup {C!InsertChild(C!EmptySet(C!NoSet), k, 2) : k \in Keys}
      /\ stage = "idle" /\ argv = <<>> /\ i = 1 /\ next = 1
      /\ remains = <<>> /\ m_remaining = <<>> /\ outcome = "none" /\ parses = 0
  BY <1>1, Zenon DEF LineInit
<1>3. Len(argv) = 0 /\ DOMAIN argv = 1 .. Len(argv) /\ Len(argv) <= MaxArguments /\ parses \in 0 .. MaxParses
      /\ DOMAIN argv = {} /\ Len(argv) \in Nat
  <2>1. MaxArguments \in Nat /\ MaxParses \in Nat
    BY OptionAssumption
  <2>2. argv = <<>> /\ parses = 0
    BY <1>2
  <2>3. Len(argv) = 0 /\ DOMAIN argv = 1 .. Len(argv) /\ DOMAIN argv = {}
    BY <2>2
  <2> QED
    BY <2>1, <2>2, <2>3
<1>4. ArgvKnown
  BY <1>2, <1>3, Zenon DEF ArgvKnown
<1>5. Len(options) \in Nat
  BY <1>4, OptionsAre
<1>6. SetKnown(C!EmptySet(C!NoSet))
  <2>1. PICK vs, cs : vs = [k \in Keys |-> <<>>] /\ cs = [k \in Keys |-> <<>>]
    OBVIOUS
  <2>2. vs \in [Keys -> Seq(Values)] /\ cs \in [Keys -> Seq({1, 2})]
    BY <2>1
  <2>3. C!EmptySet(C!NoSet) = [parent |-> 0, values |-> vs, children |-> cs]
    BY <2>1 DEF C!EmptySet, C!NoSet
  <2> QED
    BY <2>2, <2>3 DEF SetKnown, C!SetType, C!NoSet
<1>7. ASSUME NEW k \in Keys PROVE SetKnown(C!InsertChild(C!EmptySet(C!NoSet), k, 2))
  <2>1. PICK e : e = C!EmptySet(C!NoSet)
    OBVIOUS
  <2>2. PICK w : w = Append(e.children[k], 2)
    OBVIOUS
  <2>3. SetKnown(e)
    BY <1>6, <2>1
  <2>4. e.children[k] \in Seq({1, 2})
    BY <2>3 DEF SetKnown, C!SetType
  <2>5. w \in Seq({1, 2})
    BY <2>2, <2>4
  <2>6. PICK d : d = [e EXCEPT !.children[k] = w]
    OBVIOUS
  <2>7. SetKnown(d)
    BY <2>3, <2>5, <2>6 DEF SetKnown, C!SetType
  <2>8. C!InsertChild(e, k, 2) = d
    BY <2>2, <2>6 DEF C!InsertChild
  <2> QED
    BY <2>1, <2>7, <2>8, Zenon
<1>8. SetKnown(config)
  BY <1>2, <1>6, <1>7, Zenon
<1>9. 1 \in 1 .. Len(argv) + 1 /\ 1 \in 1 .. Len(options) + 1 /\ <<>> \in Seq(Plain)
  BY <1>3, <1>5
<1>10. LineFrame
  BY <1>2, <1>3, <1>4, <1>8, <1>9, Zenon DEF LineFrame
<1>11. Resting /\ stage # "arguments" /\ stage # "defaults"
  BY <1>2 DEF Resting
<1> QED
  BY <1>10, <1>11, Zenon DEF LineInv

-----------------------------------------------------------------------------
(* The steps of a call do not change what it is about.                     *)
SameArguments == options' = options /\ argv' = argv /\ before' = before

(* What an argument means depends on the options and arguments alone,      *)
LEMMA PositionsSame ==
  ASSUME SameArguments
  PROVE  /\ ArgvKnown' <=> ArgvKnown
         /\ \A p : Consumed(p)' <=> Consumed(p)
         /\ \A p : Refused(p)' <=> Refused(p)
         /\ \A p : Given(p)' = Given(p)
         /\ \A k, p : Uses(k, p)' <=> Uses(k, p)
<1>1. options' = options /\ argv' = argv /\ before' = before
  BY DEF SameArguments
<1>2. ArgvKnown' <=> ArgvKnown
  BY <1>1, Zenon DEF ArgvKnown
<1>3. \A a : Match(a)' = Match(a) /\ Matching(a)' = Matching(a)
  BY <1>1 DEF Match, Matching
<1>4. \A p : IsPlain(p)' <=> IsPlain(p)
  BY <1>1 DEF IsPlain
<1>5. \A p : Consumed(p)' <=> Consumed(p)
  BY <1>1 DEF Consumed, IsPlain, Match, Matching
<1>6. \A p : Given(p)' = Given(p)
  BY <1>1 DEF Given, Consumed, IsPlain, Match, Matching
<1>7. \A k, p : Uses(k, p)' <=> Uses(k, p)
  BY <1>1 DEF Uses, IsPlain, Match, Matching
<1>8. \A p : Refused(p)' <=> Refused(p)
  BY <1>1 DEF Refused, Given, Consumed, IsPlain, Match, Matching
<1> QED
  BY <1>2, <1>5, <1>6, <1>7, <1>8

(* and what they amount to on the config_set before the call besides.      *)
LEMMA TextsSame ==
  ASSUME SameArguments
  PROVE  /\ \A k, m : After(k, m)' = After(k, m)
         /\ Left' = Left
         /\ \A k : Known(k)' <=> Known(k)
         /\ \A k, n : Earlier(k, n)' = Earlier(k, n)
         /\ \A k : Defaults(k)' = Defaults(k)
         /\ \A k : FirstDefault(k)' = FirstDefault(k)
<1>1. options' = options /\ argv' = argv /\ before' = before
  BY DEF SameArguments
<1>2. \A k, m : After(k, m)' = After(k, m)
  BY <1>1 DEF After, Counts, Replaces, Uses, Given, Consumed, IsPlain, Match, Matching
<1>3. Left' = Left
  BY <1>1 DEF Left, Consumed, IsPlain, Match, Matching
<1>4. \A k : Known(k)' <=> Known(k)
  BY <1>1 DEF Known, Uses, IsPlain, Match, Matching
<1>5. \A k, n : Earlier(k, n)' = Earlier(k, n)
  BY <1>1 DEF Earlier, Defaults
<1>6. \A k : Defaults(k)' = Defaults(k)
  BY <1>1 DEF Defaults
<1>7. \A k : FirstDefault(k)' = FirstDefault(k)
  BY <1>1 DEF FirstDefault, Defaults
<1> QED
  BY <1>2, <1>3, <1>4, <1>5, <1>6, <1>7

(* So the parts of the invariant change with the state only.               *)
LEMMA InvSame ==
  ASSUME SameArguments
  PROVE  /\ Reading' <=> next' = 1 /\ ReadTo(config', i', remains')
         /\ Filling' <=> i' = Len(argv) + 1 /\ DefaultsTo(config', next', remains')
         /\ Resting' <=> /\ outcome' = "parsed" => Returned(config', m_remaining')
                         /\ outcome' = "commandline_error" => Threw(config', i')
<1>1. options' = options /\ argv' = argv /\ before' = before
  BY DEF SameArguments
<1>2. /\ ArgvKnown' <=> ArgvKnown
      /\ \A p : Consumed(p)' <=> Consumed(p)
      /\ \A p : Refused(p)' <=> Refused(p)
  BY PositionsSame
<1>3. /\ \A k, m : After(k, m)' = After(k, m)
      /\ Left' = Left
      /\ \A k : Known(k)' <=> Known(k)
      /\ \A k, n : Earlier(k, n)' = Earlier(k, n)
      /\ \A k : Defaults(k)' = Defaults(k)
      /\ \A k : FirstDefault(k)' = FirstDefault(k)
  BY TextsSame
<1>4. Reading' <=> next' = 1 /\ ReadTo(config', i', remains')
  BY <1>1, <1>2, <1>3, Zenon DEF Reading, ReadTo, ReadOf, Obeyed
<1>5. Filling' <=> i' = Len(argv) + 1 /\ DefaultsTo(config', next', remains')
  BY <1>1, <1>2, <1>3, Zenon DEF Filling, DefaultsTo, Has, Obeyed
<1>6. Resting' <=> /\ outcome' = "parsed" => Returned(config', m_remaining')
                   /\ outcome' = "commandline_error" => Threw(config', i')
  BY <1>1, <1>2, <1>3, Zenon DEF Resting, Returned, Threw, C!Exists
<1> QED
  BY <1>4, <1>5, <1>6

LineFacts ==
  /\ part = "command_line" /\ LineFrame
  /\ stage = "arguments" => Reading
  /\ stage = "defaults" => Filling

(* A step that goes on with the call, and what has to be shown of it.      *)
Goes ==
  /\ SameArguments /\ part' = "command_line"
  /\ SetKnown(config') /\ config'.children = config.children
  /\ i' \in 1 .. Len(argv) + 1 /\ next' \in 1 .. Len(options) + 1
  /\ remains' \in Seq(Plain) /\ m_remaining' \in Seq(Plain)
  /\ outcome' \in {"none", "parsed", "commandline_error"} /\ parses' = parses

(* Every step inside a call keeps the frame.                               *)
LEMMA FrameStep ==
  ASSUME LineFrame, Goes
  PROVE  stage' \in {"idle", "arguments", "defaults"} => LineFrame'
<1>1. ArgvKnown'
  BY PositionsSame, Zenon DEF LineFrame, Goes
<1>2. SetKnown(config)' /\ SetKnown(before)'
  BY Zenon DEF Goes, SameArguments, LineFrame, SetKnown
<1> QED
  BY <1>1, <1>2, Zenon DEF LineFrame, Goes, SameArguments

(* A step to the first loop,                                               *)
LEMMA GoesReading ==
  ASSUME LineFrame, Goes, stage' = "arguments", next' = 1, ReadTo(config', i', remains')
  PROVE  LineInv'
BY InvSame, FrameStep, Zenon DEF LineInv, Goes

(* to the second one,                                                      *)
LEMMA GoesFilling ==
  ASSUME LineFrame, Goes, stage' = "defaults", i' = Len(argv) + 1, DefaultsTo(config', next', remains')
  PROVE  LineInv'
BY InvSame, FrameStep, Zenon DEF LineInv, Goes

(* and to the end of the call.                                             *)
LEMMA GoesResting ==
  ASSUME LineFrame, Goes, stage' = "idle",
         outcome' = "parsed" => Returned(config', m_remaining'),
         outcome' = "commandline_error" => Threw(config', i')
  PROVE  LineInv'
BY InvSame, FrameStep, Zenon DEF LineInv, Goes

(* The argument that the loop looks at.                                    *)
LEMMA Place ==
  ASSUME LineFrame
  PROVE  \E m \in Nat : i = m + 1 /\ i - 1 = m /\ m <= Len(argv) /\ (i <= Len(argv) <=> m + 1 <= Len(argv))
<1>1. i \in 1 .. Len(argv) + 1 /\ Len(argv) \in Nat
  BY FrameTyped, Zenon DEF LineFrame
<1>2. i - 1 \in Nat /\ i = (i - 1) + 1 /\ i - 1 <= Len(argv) /\ (i <= Len(argv) <=> (i - 1) + 1 <= Len(argv))
  BY <1>1
<1> QED
  BY <1>2, Zenon

(* Every step of parse() keeps the invariant: a plain argument,            *)
LEMMA PlainArgumentKeeps == LineFacts /\ PlainArgument /\ part' = part => LineInv'
<1> SUFFICES ASSUME LineFacts, PlainArgument, part' = part PROVE LineInv'
  OBVIOUS
<1>1. /\ stage = "arguments" /\ i <= Len(argv) /\ argv[i].kind = "plain"
      /\ remains' = Append(remains, argv[i].text) /\ i' = i + 1
      /\ options' = options /\ config' = config /\ stage' = stage /\ argv' = argv /\ next' = next
      /\ m_remaining' = m_remaining /\ outcome' = outcome /\ before' = before /\ parses' = parses
  BY DEF PlainArgument
<1>2. LineFrame /\ next = 1 /\ ReadTo(config, i, remains) /\ part = "command_line"
  BY <1>1, Zenon DEF LineFacts, Reading
<1>3. LineKnown
  BY <1>2, FrameKnown
<1>4. PICK m \in Nat : i = m + 1 /\ i - 1 = m /\ m <= Len(argv) /\ (i <= Len(argv) <=> m + 1 <= Len(argv))
  BY <1>2, Place
<1>5. Len(argv) \in Nat
  BY <1>2, FrameTyped
<1>6. ReadOf(config, m, remains) /\ ~Consumed(m + 1) /\ m + 1 <= Len(argv) /\ IsPlain(m + 1)
  BY <1>1, <1>2, <1>4, Zenon DEF ReadTo, IsPlain
<1>7. ReadOf(config, m + 1, remains')
  BY <1>1, <1>3, <1>4, <1>6, PlainRead, Zenon
<1>8. i' = (m + 1) + 1 /\ i' - 1 = m + 1 /\ i' \in 1 .. Len(argv) + 1
  BY <1>1, <1>4, <1>5
<1>9. ~Consumed(i')
  BY <1>1, <1>4, <1>8 DEF Consumed
<1>10. ReadTo(config', i', remains')
  BY <1>1, <1>7, <1>8, <1>9, Zenon DEF ReadTo
<1>11. remains' \in Seq(Plain)
  <2>1. argv[i].text \in Plain
    <3>1. i \in 1 .. Len(argv) /\ ArgvKnown
      BY <1>1, <1>2, <1>4, <1>5 DEF LineFrame
    <3> QED
      BY <1>1, <3>1, ArgumentIs
  <2>2. remains \in Seq(Plain)
    BY <1>2, Zenon DEF LineFrame
  <2> QED
    BY <1>1, <2>1, <2>2
<1>12. Goes
  BY <1>1, <1>2, <1>8, <1>11, Zenon DEF Goes, SameArguments, LineFrame
<1> QED
  BY <1>1, <1>2, <1>10, <1>12, GoesReading, Zenon

(* an option,                                                              *)
LEMMA OptionArgumentKeeps == LineFacts /\ OptionArgument /\ part' = part => LineInv'
<1> SUFFICES ASSUME LineFacts, OptionArgument, part' = part PROVE LineInv'
  OBVIOUS
<1> DEFINE o == Match(argv[i])
<1>1. /\ stage = "arguments" /\ i <= Len(argv) /\ argv[i].kind # "plain" /\ Matching(argv[i]) # {}
      /\ Fits(argv[i], o) /\ config' = Added(config, o, ValueOf(argv[i], o))
      /\ i' = IF TakesNext(argv[i], o) THEN i + 2 ELSE i + 1
      /\ options' = options /\ stage' = stage /\ argv' = argv /\ next' = next /\ remains' = remains
      /\ m_remaining' = m_remaining /\ outcome' = outcome /\ before' = before /\ parses' = parses
  BY Zenon DEF OptionArgument, IsOption
<1>2. LineFrame /\ next = 1 /\ ReadTo(config, i, remains) /\ part = "command_line"
  BY <1>1, Zenon DEF LineFacts, Reading
<1>3. LineKnown /\ ArgvKnown
  BY <1>2, FrameKnown DEF LineFrame
<1>4. PICK m \in Nat : i = m + 1 /\ i - 1 = m /\ m <= Len(argv) /\ (i <= Len(argv) <=> m + 1 <= Len(argv))
  BY <1>2, Place
<1>5. Len(argv) \in Nat /\ i \in 1 .. Len(argv)
  <2>1. Len(argv) \in Nat
    BY <1>2, FrameTyped
  <2> QED
    BY <1>1, <1>4, <2>1
<1>6. ReadOf(config, m, remains) /\ m + 1 <= Len(argv) /\ ~IsPlain(i)
  BY <1>1, <1>2, <1>4, Zenon DEF ReadTo, IsPlain
<1>7. ~Refused(i)
  BY <1>1, <1>3, <1>5, <1>6, FitsIsObeyed, Zenon
<1>8. ValueOf(argv[i], o) = Given(i)
  BY <1>3, <1>5, ValueIsGiven
<1>9. SetKnown(config)
  BY <1>2, Zenon DEF LineFrame
<1>10. SetKnown(config') /\ config'.children = config.children /\ ReadOf(config', m + 1, remains)
  <2>1. ~IsPlain(m + 1) /\ ~Refused(m + 1) /\ config' = Added(config, Match(argv[m + 1]), Given(m + 1))
    BY <1>1, <1>4, <1>6, <1>7, <1>8, Zenon
  <2> HIDE DEF o
  <2> QED
    BY <1>3, <1>4, <1>6, <1>9, <2>1, OptionRead, Zenon
<1>11. TakesNext(argv[i], o) <=> i < Len(argv) /\ Consumed(i + 1)
  BY <1>3, <1>5, FollowedIs
<1> HIDE DEF o
<1>12. CASE TakesNext(argv[i], o)
  <2>1. i' = i + 2 /\ i < Len(argv) /\ Consumed(i + 1)
    BY <1>1, <1>11, <1>12
  <2>2. /\ (m + 1) + 1 = i + 1 /\ m + 1 \in Nat /\ (m + 1) + 1 <= Len(argv)
        /\ i' - 1 = (m + 1) + 1 /\ i' \in 1 .. Len(argv) + 1
    BY <1>4, <1>5, <2>1
  <2>3. Consumed((m + 1) + 1) /\ IsPlain((m + 1) + 1)
    BY <2>1, <2>2, Zenon DEF Consumed
  <2>4. ReadOf(config', (m + 1) + 1, remains)
    BY <1>3, <1>10, <2>2, <2>3, PlainRead, Zenon
  <2>5. ~Consumed(i')
    BY <2>2, <2>3 DEF Consumed, IsPlain
  <2>6. ReadTo(config', i', remains')
    BY <1>1, <2>2, <2>4, <2>5, Zenon DEF ReadTo
  <2>7. Goes
    BY <1>1, <1>2, <1>10, <2>2, Zenon DEF Goes, SameArguments, LineFrame
  <2> QED
    BY <1>1, <1>2, <2>6, <2>7, GoesReading, Zenon
<1>13. CASE ~TakesNext(argv[i], o)
  <2>1. i' = i + 1 /\ ~(i < Len(argv) /\ Consumed(i + 1))
    BY <1>1, <1>11, <1>13
  <2>2. i' - 1 = m + 1 /\ i' \in 1 .. Len(argv) + 1 /\ (i' <= Len(argv) => i < Len(argv))
    BY <1>4, <1>5, <2>1
  <2>3. ReadTo(config', i', remains')
    BY <1>1, <1>10, <2>1, <2>2, Zenon DEF ReadTo
  <2>4. Goes
    BY <1>1, <1>2, <1>10, <2>2, Zenon DEF Goes, SameArguments, LineFrame
  <2> QED
    BY <1>1, <1>2, <2>3, <2>4, GoesReading, Zenon
<1> QED
  BY <1>12, <1>13

(* an argument that is refused,                                            *)
LEMMA BadArgumentKeeps == LineFacts /\ BadArgument /\ part' = part => LineInv'
<1> SUFFICES ASSUME LineFacts, BadArgument, part' = part PROVE LineInv'
  OBVIOUS
<1>1. /\ stage = "arguments" /\ i <= Len(argv) /\ argv[i].kind # "plain"
      /\ Matching(argv[i]) # {} => ~Fits(argv[i], Match(argv[i]))
      /\ outcome' = "commandline_error" /\ stage' = "idle" /\ argv' = argv /\ next' = 1 /\ remains' = <<>>
      /\ options' = options /\ config' = config /\ i' = i /\ m_remaining' = m_remaining
      /\ before' = before /\ parses' = parses
  BY Zenon DEF BadArgument, IsOption, Leave
<1>2. LineFrame /\ next = 1 /\ ReadTo(config, i, remains) /\ part = "command_line"
  BY <1>1, Zenon DEF LineFacts, Reading
<1>3. ArgvKnown /\ Len(argv) \in Nat /\ i \in 1 .. Len(argv) + 1 /\ next \in 1 .. Len(options) + 1
      /\ config.children = before.children
  BY <1>2, FrameTyped DEF LineFrame
<1>4. i \in 1 .. Len(argv) /\ ~IsPlain(i)
  BY <1>1, <1>3 DEF IsPlain
<1>5. Refused(i)
  BY <1>1, <1>3, <1>4, FitsIsObeyed, Zenon
<1>6. Threw(config', i')
  BY <1>1, <1>2, <1>5, Zenon DEF Threw, ReadTo, ReadOf, Obeyed
<1>7. Goes
  <2>1. <<>> \in Seq(Plain)
    OBVIOUS
  <2> QED
    BY <1>1, <1>2, <1>3, <2>1, Zenon DEF Goes, SameArguments, LineFrame
<1> QED
  BY <1>1, <1>2, <1>6, <1>7, GoesResting

(* the end of the arguments,                                               *)
LEMMA ArgumentsDoneKeeps == LineFacts /\ ArgumentsDone /\ part' = part => LineInv'
<1> SUFFICES ASSUME LineFacts, ArgumentsDone, part' = part PROVE LineInv'
  OBVIOUS
<1>1. /\ stage = "arguments" /\ i > Len(argv) /\ stage' = "defaults"
      /\ options' = options /\ config' = config /\ argv' = argv /\ i' = i /\ next' = next /\ remains' = remains
      /\ m_remaining' = m_remaining /\ outcome' = outcome /\ before' = before /\ parses' = parses
  BY DEF ArgumentsDone
<1>2. LineFrame /\ next = 1 /\ ReadTo(config, i, remains) /\ part = "command_line"
  BY <1>1, Zenon DEF LineFacts, Reading
<1>3. LineKnown /\ Len(argv) \in Nat /\ i \in 1 .. Len(argv) + 1
  BY <1>2, FrameKnown, FrameTyped DEF LineFrame
<1>4. i = Len(argv) + 1 /\ i - 1 = Len(argv)
  BY <1>1, <1>3
<1>5. DefaultsTo(config, 1, remains)
  BY <1>2, <1>3, <1>4, DefaultsStart, Zenon DEF ReadTo
<1>6. Goes
  BY <1>1, <1>2, Zenon DEF Goes, SameArguments, LineFrame
<1> QED
  BY <1>1, <1>2, <1>4, <1>5, <1>6, GoesFilling, Zenon

(* a default,                                                              *)
LEMMA SetDefaultKeeps == LineFacts /\ SetDefault /\ part' = part => LineInv'
<1> SUFFICES ASSUME LineFacts, SetDefault, part' = part PROVE LineInv'
  OBVIOUS
<1>1. PICK o : o = options[next]
  OBVIOUS
<1>2. /\ stage = "defaults" /\ next <= Len(options)
      /\ ~(~C!Exists(config, o.key) /\ o.required)
      /\ config' = IF ~C!Exists(config, o.key) /\ o.hasDefault
                   THEN C!Replace(config, o.key, DefaultValue(o)) ELSE config
      /\ next' = next + 1
      /\ options' = options /\ stage' = stage /\ argv' = argv /\ i' = i /\ remains' = remains
      /\ m_remaining' = m_remaining /\ outcome' = outcome /\ before' = before /\ parses' = parses
  BY <1>1, Zenon DEF SetDefault, Missing
<1>3. LineFrame /\ i = Len(argv) + 1 /\ DefaultsTo(config, next, remains) /\ part = "command_line"
  BY <1>2, Zenon DEF LineFacts, Filling
<1>4. LineKnown /\ Len(options) \in Nat /\ next \in 1 .. Len(options) + 1 /\ SetKnown(config)
      /\ config.children = before.children
  BY <1>3, FrameKnown, FrameTyped DEF LineFrame
<1>5. next \in 1 .. Len(options) /\ next' \in 1 .. Len(options) + 1
  BY <1>2, <1>4
<1>6. SetKnown(config') /\ config'.children = config.children /\ DefaultsTo(config', next', remains)
  BY <1>1, <1>2, <1>3, <1>4, <1>5, DefaultsStep, Zenon
<1>7. Goes
  BY <1>2, <1>3, <1>5, <1>6, Zenon DEF Goes, SameArguments, LineFrame
<1> QED
  BY <1>2, <1>3, <1>6, <1>7, GoesFilling, Zenon

(* a required option that is missing,                                      *)
LEMMA RequiredMissingKeeps == LineFacts /\ RequiredMissing /\ part' = part => LineInv'
<1> SUFFICES ASSUME LineFacts, RequiredMissing, part' = part PROVE LineInv'
  OBVIOUS
<1>1. /\ stage = "defaults" /\ next <= Len(options)
      /\ ~C!Exists(config, options[next].key) /\ options[next].required
      /\ outcome' = "commandline_error" /\ stage' = "idle" /\ argv' = argv /\ next' = 1 /\ remains' = <<>>
      /\ options' = options /\ config' = config /\ i' = i /\ m_remaining' = m_remaining
      /\ before' = before /\ parses' = parses
  BY Zenon DEF RequiredMissing, Missing, Leave
<1>2. LineFrame /\ i = Len(argv) + 1 /\ DefaultsTo(config, next, remains) /\ part = "command_line"
  BY <1>1, Zenon DEF LineFacts, Filling
<1>3. Len(options) \in Nat /\ next \in 1 .. Len(options) + 1 /\ DOMAIN options = 1 .. Len(options)
      /\ DOMAIN argv = 1 .. Len(argv)
  BY <1>2, FrameTyped DEF LineFrame
<1>4. next \in DOMAIN options /\ 1 \in 1 .. Len(options) + 1
  BY <1>1, <1>3
<1>5. Threw(config', i')
  BY <1>1, <1>2, <1>3, <1>4, Zenon DEF Threw, DefaultsTo, Obeyed
<1>6. Goes
  <2>1. <<>> \in Seq(Plain)
    OBVIOUS
  <2> QED
    BY <1>1, <1>2, <1>4, <2>1, Zenon DEF Goes, SameArguments, LineFrame
<1> QED
  BY <1>1, <1>2, <1>5, <1>6, GoesResting

(* the return,                                                             *)
LEMMA ParsedKeeps == LineFacts /\ Parsed /\ part' = part => LineInv'
<1> SUFFICES ASSUME LineFacts, Parsed, part' = part PROVE LineInv'
  OBVIOUS
<1>1. /\ stage = "defaults" /\ next > Len(options) /\ m_remaining' = remains
      /\ outcome' = "parsed" /\ stage' = "idle" /\ argv' = argv /\ next' = 1 /\ remains' = <<>>
      /\ options' = options /\ config' = config /\ i' = i /\ before' = before /\ parses' = parses
  BY Zenon DEF Parsed, Leave
<1>2. LineFrame /\ i = Len(argv) + 1 /\ DefaultsTo(config, next, remains) /\ part = "command_line"
  BY <1>1, Zenon DEF LineFacts, Filling
<1>3. LineKnown /\ Len(options) \in Nat /\ next \in 1 .. Len(options) + 1 /\ config.children = before.children
  BY <1>2, FrameKnown, FrameTyped DEF LineFrame
<1>4. next = Len(options) + 1 /\ 1 \in 1 .. Len(options) + 1
  BY <1>1, <1>3
<1>5. Returned(config', m_remaining')
  BY <1>1, <1>2, <1>3, <1>4, DefaultsEnd, Zenon
<1>6. Goes
  <2>1. <<>> \in Seq(Plain)
    OBVIOUS
  <2> QED
    BY <1>1, <1>2, <1>4, <2>1, Zenon DEF Goes, SameArguments, LineFrame
<1> QED
  BY <1>1, <1>2, <1>5, <1>6, GoesResting

(* and the call itself.                                                    *)
LEMMA ParseKeeps == LineFacts /\ Parse /\ part' = part => LineInv'
<1>1. ASSUME LineFacts, Parse, part' = part PROVE LineStart'
  <2>1. /\ parses < MaxParses /\ argv' \in Vectors(options, MaxArguments - Len(argv))
        /\ i' = 1 /\ next' = 1 /\ remains' = <<>> /\ stage' = "arguments" /\ outcome' = "none"
        /\ before' = config /\ parses' = parses + 1
        /\ options' = options /\ config' = config /\ m_remaining' = m_remaining
    BY <1>1, Zenon DEF Parse
  <2>2. LineFrame
    BY <1>1 DEF LineFacts
  <2>3. options \in OptionLists /\ Len(argv) \in Nat /\ Len(argv) <= MaxArguments /\ parses \in 0 .. MaxParses
        /\ SetKnown(config) /\ m_remaining \in Seq(Plain) /\ MaxArguments \in Nat /\ MaxParses \in Nat
    BY <2>2, OptionAssumption DEF LineFrame, ArgvKnown
  <2>4. \A n \in 0 .. MaxArguments - Len(argv) : n \in 0 .. MaxArguments
    BY <2>3
  <2>5. argv' \in Vectors(options, MaxArguments)
    BY <2>1, <2>4, Zenon DEF Vectors
  <2>6. parses' \in 0 .. MaxParses
    BY <2>1, <2>3
  <2>7. argv' \in Vectors(options', MaxArguments)
    BY <2>1, <2>5
  <2>8. Vectors(options, MaxArguments)' = Vectors(options', MaxArguments)
    BY DEF Vectors, Arguments
  <2> QED
    BY <2>1, <2>3, <2>6, <2>7, <2>8, Zenon DEF LineStart, SetKnown
<1>2. LineStart' => LineFrame' /\ Reading'
  BY LineStarts, PTL
<1>3. ASSUME Parse PROVE stage' = "arguments"
  BY <1>3 DEF Parse
<1> QED
  BY <1>1, <1>2, <1>3 DEF LineInv

(* The other parts of the module leave the variables alone.                *)
LEMMA LineInvStep == LineInv /\ [Next]_allVars => LineInv'
<1> SUFFICES ASSUME LineInv, [Next]_allVars, part' = "command_line" PROVE LineInv'
  BY DEF LineInv
<1>1. ASSUME LineNext, part = "command_line" PROVE LineInv'
  <2>1. LineFacts /\ part' = part
    BY <1>1, Zenon DEF LineInv, LineFacts
  <2> QED
    BY <1>1, <2>1, ParseKeeps, PlainArgumentKeeps, OptionArgumentKeeps, BadArgumentKeeps,
       ArgumentsDoneKeeps, SetDefaultKeeps, RequiredMissingKeeps, ParsedKeeps, Zenon DEF LineNext
<1>2. CASE UNCHANGED allVars
  <2>1. /\ options' = options /\ config' = config /\ stage' = stage /\ argv' = argv /\ i' = i
        /\ next' = next /\ remains' = remains /\ m_remaining' = m_remaining /\ outcome' = outcome
        /\ before' = before /\ parses' = parses /\ part' = part
    BY <1>2 DEF allVars, lineVars
  <2>2. LineFrame /\ (stage = "arguments" => Reading) /\ (stage = "defaults" => Filling) /\ (stage = "idle" => Resting)
    BY <2>1 DEF LineInv
  <2>3. Goes
    BY <2>1, <2>2, Zenon DEF Goes, SameArguments, LineFrame
  <2>4. CASE stage = "arguments"
    BY <2>1, <2>2, <2>3, <2>4, GoesReading DEF Reading
  <2>5. CASE stage = "defaults"
    BY <2>1, <2>2, <2>3, <2>5, GoesFilling DEF Filling
  <2>6. CASE stage = "idle"
    BY <2>1, <2>2, <2>3, <2>6, GoesResting DEF Resting
  <2>7. stage \in {"idle", "arguments", "defaults"}
    BY <2>2, Zenon DEF LineFrame
  <2> QED
    BY <2>4, <2>5, <2>6, <2>7
<1>3. ASSUME Next PROVE LineNext /\ part = "command_line"
  BY <1>3 DEF Next
<1> QED
  <2>1. Next \/ UNCHANGED allVars
    OBVIOUS
  <2> QED
    BY <1>1, <1>2, <1>3, <2>1

(* parse() gives every key the arguments of its options, or its default,   *)
(* leaves the other plain arguments, and throws at the first that is wrong.*)
THEOREM CommandLineIsObeyed == Spec => []CommandLineObeyed
<1>1. Init => LineInv
  BY LineInvInit
<1>2. LineInv /\ [Next]_allVars => LineInv'
  BY LineInvStep
<1>3. LineInv => CommandLineObeyed
  BY LineInvObeys DEF CommandLineObeyed
<1> QED
  BY <1>1, <1>2, <1>3, PTL DEF Spec

-----------------------------------------------------------------------------
(* A file makes the tree that its text describes                           *)

(* ConfigFile counts as this module does.                                  *)
LEMMA ReaderCounts == ASSUME NEW S PROVE Reader!Cardinality(S) = Cardinality(S)
  BY DEF Reader!Cardinality, Cardinality

(* One number more in a set of numbers.                                    *)
LEMMA OneNumberMore ==
  ASSUME NEW n \in Nat, NEW S \in SUBSET (1 .. n)
  PROVE  /\ IsFiniteSet(S) /\ Cardinality(S) \in 0 .. n
         /\ Cardinality(S \cup {n + 1}) = Cardinality(S) + 1
<1>1. IsFiniteSet(1 .. n) /\ Cardinality(1 .. n) = n
  BY FS_Interval
<1>2. IsFiniteSet(S) /\ Cardinality(S) <= n
  BY <1>1, FS_Subset
<1>3. Cardinality(S) \in Nat
  BY <1>2, FS_CardinalityType
<1>4. n + 1 \notin S
  OBVIOUS
<1>5. Cardinality(S \cup {n + 1}) = Cardinality(S) + 1
  BY <1>2, <1>4, FS_AddElement
<1> QED
  BY <1>2, <1>3, <1>5

(* The lines that open and close up to one, and one line more.             *)
LEMMA Brackets ==
  ASSUME NEW t, NEW n \in Nat
  PROVE  /\ Reader!Openings(t, n) \in SUBSET (1 .. n) /\ Reader!Closings(t, n) \in SUBSET (1 .. n)
         /\ Reader!Openings(t, n + 1) =
              IF Reader!Opens(t, n + 1) THEN Reader!Openings(t, n) \cup {n + 1} ELSE Reader!Openings(t, n)
         /\ Reader!Closings(t, n + 1) =
              IF Reader!Closes(t, n + 1) THEN Reader!Closings(t, n) \cup {n + 1} ELSE Reader!Closings(t, n)
<1>1. \A m : m \in 1 .. n + 1 <=> m \in 1 .. n \/ m = n + 1
  OBVIOUS
<1> QED
  BY <1>1 DEF Reader!Openings, Reader!Closings

LEMMA BracketsCounted ==
  ASSUME NEW t, NEW n \in Nat
  PROVE  /\ Cardinality(Reader!Openings(t, n)) \in 0 .. n /\ Cardinality(Reader!Closings(t, n)) \in 0 .. n
         /\ Cardinality(Reader!Openings(t, n + 1)) =
              Cardinality(Reader!Openings(t, n)) + IF Reader!Opens(t, n + 1) THEN 1 ELSE 0
         /\ Cardinality(Reader!Closings(t, n + 1)) =
              Cardinality(Reader!Closings(t, n)) + IF Reader!Closes(t, n + 1) THEN 1 ELSE 0
<1>1. PICK A : A = Reader!Openings(t, n) /\ A \in SUBSET (1 .. n)
  BY Brackets
<1>2. PICK B : B = Reader!Closings(t, n) /\ B \in SUBSET (1 .. n)
  BY Brackets
<1>3. /\ Cardinality(A) \in 0 .. n /\ Cardinality(A \cup {n + 1}) = Cardinality(A) + 1
      /\ Cardinality(B) \in 0 .. n /\ Cardinality(B \cup {n + 1}) = Cardinality(B) + 1
  BY <1>1, <1>2, OneNumberMore
<1>4. /\ Reader!Openings(t, n + 1) = IF Reader!Opens(t, n + 1) THEN A \cup {n + 1} ELSE A
      /\ Reader!Closings(t, n + 1) = IF Reader!Closes(t, n + 1) THEN B \cup {n + 1} ELSE B
  BY <1>1, <1>2, Brackets
<1> QED
  BY <1>1, <1>2, <1>3, <1>4

(* Depths are whole numbers, and a line changes them by one at most.       *)
LEMMA DepthIs ==
  ASSUME NEW t, NEW n \in Nat \ {0}
  PROVE  /\ Reader!Depth(t, n) \in Int /\ Reader!Depth(t, 1) = 0
         /\ Reader!SetOf(t, n) \in 1 .. n + 1
         /\ Reader!Depth(t, n + 1) = Reader!Depth(t, n) + (IF Reader!Opens(t, n) THEN 1 ELSE 0)
                                                      - (IF Reader!Closes(t, n) THEN 1 ELSE 0)
         /\ Reader!SetOf(t, n) = Reader!SetOf(t, n - 1) + (IF Reader!Opens(t, n) THEN 1 ELSE 0)
<1>1. PICK m \in Nat : m = n - 1 /\ n = m + 1
  OBVIOUS
<1>2. /\ Cardinality(Reader!Openings(t, m)) \in Nat /\ Cardinality(Reader!Closings(t, m)) \in Nat
      /\ Cardinality(Reader!Openings(t, n)) \in 0 .. n
      /\ Cardinality(Reader!Openings(t, n)) =
           Cardinality(Reader!Openings(t, m)) + IF Reader!Opens(t, n) THEN 1 ELSE 0
      /\ Cardinality(Reader!Closings(t, n)) =
           Cardinality(Reader!Closings(t, m)) + IF Reader!Closes(t, n) THEN 1 ELSE 0
  BY <1>1, BracketsCounted
<1>3. /\ Reader!Depth(t, n) = Cardinality(Reader!Openings(t, m)) - Cardinality(Reader!Closings(t, m))
      /\ Reader!Depth(t, n + 1) = Cardinality(Reader!Openings(t, n)) - Cardinality(Reader!Closings(t, n))
  <2>1. (n + 1) - 1 = n
    OBVIOUS
  <2> QED
    BY <1>1, <2>1, ReaderCounts DEF Reader!Depth
<1>4. Reader!Depth(t, 1) = 0
  <2>1. Cardinality(Reader!Openings(t, 0)) = 0 /\ Cardinality(Reader!Closings(t, 0)) = 0
    BY BracketsCounted
  <2>2. 1 - 1 = 0
    OBVIOUS
  <2> QED
    BY <2>1, <2>2, ReaderCounts DEF Reader!Depth
<1>5. /\ Reader!SetOf(t, n) = 1 + Cardinality(Reader!Openings(t, n))
      /\ Reader!SetOf(t, n - 1) = 1 + Cardinality(Reader!Openings(t, m))
  BY <1>1, ReaderCounts DEF Reader!SetOf
<1>6. Reader!Opens(t, n) \in BOOLEAN /\ Reader!Closes(t, n) \in BOOLEAN
  BY DEF Reader!Opens, Reader!Closes
<1> QED
  BY <1>2, <1>3, <1>4, <1>5, <1>6

(* Only what comes before a line says where it is.                         *)
Agree(t, r, n) == \A m \in 1 .. n : r[m] = t[m]

LEMMA SameStart ==
  ASSUME NEW t, NEW r, NEW n \in Nat, Agree(t, r, n)
  PROVE  /\ \A m \in 1 .. n : /\ Reader!Opens(r, m) = Reader!Opens(t, m)
                              /\ Reader!Closes(r, m) = Reader!Closes(t, m)
         /\ \A m \in 0 .. n : Reader!SetOf(r, m) = Reader!SetOf(t, m)
         /\ \A m \in 1 .. n + 1 : /\ Reader!Depth(r, m) = Reader!Depth(t, m)
                                  /\ Reader!Waiting(r, m) = Reader!Waiting(t, m)
<1>1. \A m \in 1 .. n : /\ Reader!Opens(r, m) = Reader!Opens(t, m)
                        /\ Reader!Closes(r, m) = Reader!Closes(t, m)
  BY DEF Agree, Reader!Opens, Reader!Closes
<1>2. ASSUME NEW m \in 0 .. n
      PROVE  /\ Reader!Openings(r, m) = Reader!Openings(t, m)
             /\ Reader!Closings(r, m) = Reader!Closings(t, m)
  <2>1. \A j \in 1 .. m : j \in 1 .. n
    OBVIOUS
  <2> QED
    BY <1>1, <2>1 DEF Reader!Openings, Reader!Closings
<1>3. \A m \in 0 .. n : Reader!SetOf(r, m) = Reader!SetOf(t, m)
  BY <1>2 DEF Reader!SetOf
<1>4. ASSUME NEW m \in 1 .. n + 1
      PROVE  /\ Reader!Depth(r, m) = Reader!Depth(t, m)
             /\ Reader!Waiting(r, m) = Reader!Waiting(t, m)
  <2>1. m - 1 \in 0 .. n
    OBVIOUS
  <2>2. Reader!Depth(r, m) = Reader!Depth(t, m)
    BY <1>2, <2>1 DEF Reader!Depth
  <2>3. \A j \in 1 .. m - 1 : r[j] = t[j]
    BY <2>1 DEF Agree
  <2>4. \A j \in 1 .. m - 1 : \A k \in j + 1 .. m - 1 : k \in 1 .. m - 1
    OBVIOUS
  <2>5. Reader!Waiting(r, m) = Reader!Waiting(t, m)
    BY <2>3, <2>4 DEF Reader!Waiting
  <2> QED
    BY <2>2, <2>5
<1> QED
  BY <1>1, <1>3, <1>4

LEMMA SamePlace ==
  ASSUME NEW t, NEW r, NEW n \in Nat, Agree(t, r, n)
  PROVE  /\ \A m \in 1 .. n : Reader!Legal(r, m) = Reader!Legal(t, m)
         /\ \A m \in 1 .. n + 1 : \A b \in 1 .. m - 1 : Reader!Encloses(r, b, m) <=> Reader!Encloses(t, b, m)
         /\ \A m \in 1 .. n + 1 : \A a : Reader!Within(r, m, a) <=> Reader!Within(t, m, a)
<1>1. \A m \in 1 .. n : Reader!Legal(r, m) = Reader!Legal(t, m)
  <2>1. \A m \in 1 .. n : m \in 1 .. n + 1 /\ r[m] = t[m]
    BY DEF Agree
  <2> QED
    BY <2>1, SameStart, Zenon DEF Reader!Legal
<1>2. ASSUME NEW m \in 1 .. n + 1, NEW b \in 1 .. m - 1
      PROVE  Reader!Encloses(r, b, m) <=> Reader!Encloses(t, b, m)
  <2>1. b \in 1 .. n /\ b \in 1 .. n + 1 /\ \A j \in b + 1 .. m : j \in 1 .. n + 1
    OBVIOUS
  <2>2. Reader!Opens(r, b) = Reader!Opens(t, b) /\ \A j \in 1 .. n + 1 : Reader!Depth(r, j) = Reader!Depth(t, j)
    BY <2>1, SameStart
  <2> QED
    BY <2>1, <2>2 DEF Reader!Encloses
<1>3. ASSUME NEW m \in 1 .. n + 1, NEW a
      PROVE  Reader!Within(r, m, a) <=> Reader!Within(t, m, a)
  <2>1. \A b \in 1 .. m - 1 : b \in 0 .. n
    OBVIOUS
  <2>2. Reader!Depth(r, m) = Reader!Depth(t, m) /\ \A b \in 1 .. m - 1 : Reader!SetOf(r, b) = Reader!SetOf(t, b)
    BY <2>1, SameStart
  <2> QED
    BY <1>2, <2>2 DEF Reader!Within
<1> QED
  BY <1>1, <1>2, <1>3

(* The opening line of a set is one, and so is the innermost set.          *)
LEMMA WithinOne ==
  ASSUME NEW t, NEW n \in Nat \ {0}, \A m \in 1 .. n : Reader!Depth(t, m) >= 0,
         NEW a, NEW c, Reader!Within(t, n, a), Reader!Within(t, n, c)
  PROVE  a = c
<1>1. \A m \in 1 .. n : Reader!Depth(t, m) \in Nat
  <2>1. \A m \in 1 .. n : m \in Nat \ {0}
    OBVIOUS
  <2> QED
    BY <2>1, DepthIs
<1>2. ASSUME NEW b \in 1 .. n - 1, NEW d \in 1 .. n - 1, Reader!Encloses(t, b, n), Reader!Encloses(t, d, n)
      PROVE  ~(b < d)
  <2> SUFFICES ASSUME b < d PROVE FALSE
    OBVIOUS
  <2>1. d \in b + 1 .. n /\ b \in 1 .. n /\ d \in 1 .. n /\ n \in 1 .. n
    OBVIOUS
  <2>2. Reader!Depth(t, d) > Reader!Depth(t, b)
    BY <1>2, <2>1 DEF Reader!Encloses
  <2>3. Reader!Depth(t, n) = Reader!Depth(t, b) + 1 /\ Reader!Depth(t, n) = Reader!Depth(t, d) + 1
    BY <1>2 DEF Reader!Encloses
  <2> QED
    BY <1>1, <2>1, <2>2, <2>3
<1>3. ASSUME NEW b \in 1 .. n - 1, Reader!Encloses(t, b, n) PROVE Reader!Depth(t, n) # 0
  <2>1. b \in 1 .. n /\ Reader!Depth(t, n) = Reader!Depth(t, b) + 1
    BY <1>3 DEF Reader!Encloses
  <2> QED
    BY <1>1, <2>1
<1>4. CASE a = Reader!Root \/ c = Reader!Root
  BY <1>3, <1>4 DEF Reader!Within
<1>5. CASE a # Reader!Root /\ c # Reader!Root
  <2>1. PICK b \in 1 .. n - 1 : Reader!Encloses(t, b, n) /\ Reader!SetOf(t, b) = a
    BY <1>5 DEF Reader!Within
  <2>2. PICK d \in 1 .. n - 1 : Reader!Encloses(t, d, n) /\ Reader!SetOf(t, d) = c
    BY <1>5 DEF Reader!Within
  <2>3. ~(b < d) /\ ~(d < b)
    BY <1>2, <2>1, <2>2
  <2>4. b = d
    BY <2>3
  <2> QED
    BY <2>1, <2>2, <2>4
<1> QED
  BY <1>4, <1>5

(* Behind an opening line its own set is the innermost one,                *)
LEMMA BehindOpening ==
  ASSUME NEW t, NEW n \in Nat \ {0}, Reader!Opens(t, n)
  PROVE  Reader!Within(t, n + 1, Reader!SetOf(t, n)) /\ Reader!SetOf(t, n) # Reader!Root
<1>1. ~Reader!Closes(t, n)
  BY DEF Reader!Opens, Reader!Closes
<1>2. /\ Reader!Depth(t, n) \in Int /\ Reader!Depth(t, n + 1) = Reader!Depth(t, n) + 1
      /\ Reader!SetOf(t, n) = Reader!SetOf(t, n - 1) + 1
  <2>1. /\ Reader!Depth(t, n) \in Int /\ Reader!SetOf(t, n) \in Int
        /\ Reader!Depth(t, n + 1) = Reader!Depth(t, n) + 1 - 0
        /\ Reader!SetOf(t, n) = Reader!SetOf(t, n - 1) + 1
    BY <1>1, DepthIs
  <2> QED
    BY <2>1
<1>3. Reader!SetOf(t, n - 1) \in Nat \ {0}
  <2>1. n - 1 \in Nat
    OBVIOUS
  <2>2. Cardinality(Reader!Openings(t, n - 1)) \in Nat
    BY <2>1, BracketsCounted
  <2> QED
    BY <2>2, ReaderCounts DEF Reader!SetOf
<1>4. Reader!SetOf(t, n) # Reader!Root
  BY <1>2, <1>3 DEF Reader!Root
<1>5. \A m \in n + 1 .. n + 1 : m = n + 1
  OBVIOUS
<1>6. Reader!Depth(t, n + 1) > Reader!Depth(t, n)
  BY <1>2
<1>7. Reader!Encloses(t, n, n + 1)
  BY <1>2, <1>5, <1>6 DEF Reader!Encloses
<1>8. n \in 1 .. (n + 1) - 1
  OBVIOUS
<1> QED
  BY <1>4, <1>7, <1>8 DEF Reader!Within

(* behind a closing line it is the one that the opening line was within,   *)
LEMMA BehindClosing ==
  ASSUME NEW t, NEW n \in Nat \ {0}, Reader!Closes(t, n),
         NEW b \in 1 .. n - 1, Reader!Encloses(t, b, n), NEW a, Reader!Within(t, b, a)
  PROVE  Reader!Within(t, n + 1, a) /\ Reader!Depth(t, n + 1) = Reader!Depth(t, b)
<1>1. ~Reader!Opens(t, n)
  BY DEF Reader!Opens, Reader!Closes
<1>2. \A m \in 1 .. n : Reader!Depth(t, m) \in Int
  <2>1. \A m \in 1 .. n : m \in Nat \ {0}
    OBVIOUS
  <2> QED
    BY <2>1, DepthIs
<1>3. Reader!Depth(t, n + 1) = Reader!Depth(t, b)
  <2>1. Reader!Depth(t, n + 1) = Reader!Depth(t, n) + 0 - 1
    BY <1>1, DepthIs
  <2>2. Reader!Depth(t, n) = Reader!Depth(t, b) + 1 /\ b \in 1 .. n
    BY DEF Reader!Encloses
  <2> QED
    BY <1>2, <2>1, <2>2
<1>4. CASE a = Reader!Root
  BY <1>3, <1>4 DEF Reader!Within
<1>5. CASE a # Reader!Root
  <2>1. PICK c \in 1 .. b - 1 : Reader!Encloses(t, c, b) /\ Reader!SetOf(t, c) = a
    BY <1>5 DEF Reader!Within
  <2>2. /\ Reader!Opens(t, c) /\ Reader!Depth(t, b) = Reader!Depth(t, c) + 1
        /\ \A m \in c + 1 .. b : Reader!Depth(t, m) > Reader!Depth(t, c)
    BY <2>1 DEF Reader!Encloses
  <2>3. \A m \in b + 1 .. n : Reader!Depth(t, m) > Reader!Depth(t, b)
    BY DEF Reader!Encloses
  <2>4. ASSUME NEW m \in c + 1 .. n + 1 PROVE Reader!Depth(t, m) > Reader!Depth(t, c)
    <3>1. m \in c + 1 .. b \/ m \in b + 1 .. n \/ m = n + 1
      OBVIOUS
    <3>2. c \in 1 .. n /\ b \in 1 .. n /\ (m \in b + 1 .. n => m \in 1 .. n)
      OBVIOUS
    <3>3. Reader!Depth(t, c) \in Int /\ Reader!Depth(t, b) \in Int /\ (m \in b + 1 .. n => Reader!Depth(t, m) \in Int)
      BY <1>2, <3>2
    <3> QED
      BY <1>3, <2>2, <2>3, <3>1, <3>3
  <2>5. Reader!Encloses(t, c, n + 1)
    BY <1>3, <2>2, <2>4 DEF Reader!Encloses
  <2>6. c \in 1 .. (n + 1) - 1
    OBVIOUS
  <2> QED
    BY <1>3, <1>5, <2>1, <2>5, <2>6 DEF Reader!Within
<1> QED
  BY <1>3, <1>4, <1>5

(* and behind any other line it is the same as before.                     *)
LEMMA BehindOther ==
  ASSUME NEW t, NEW n \in Nat \ {0}, ~Reader!Opens(t, n), ~Reader!Closes(t, n),
         NEW a, Reader!Within(t, n, a)
  PROVE  Reader!Within(t, n + 1, a) /\ Reader!Depth(t, n + 1) = Reader!Depth(t, n)
<1>1. Reader!Depth(t, n + 1) = Reader!Depth(t, n)
  <2>1. Reader!Depth(t, n + 1) = Reader!Depth(t, n) + 0 - 0 /\ Reader!Depth(t, n) \in Int
    BY DepthIs
  <2> QED
    BY <2>1
<1>2. CASE a = Reader!Root
  BY <1>1, <1>2 DEF Reader!Within
<1>3. CASE a # Reader!Root
  <2>1. PICK b \in 1 .. n - 1 : Reader!Encloses(t, b, n) /\ Reader!SetOf(t, b) = a
    BY <1>3 DEF Reader!Within
  <2>2. /\ Reader!Opens(t, b) /\ Reader!Depth(t, n) = Reader!Depth(t, b) + 1
        /\ \A m \in b + 1 .. n : Reader!Depth(t, m) > Reader!Depth(t, b)
    BY <2>1 DEF Reader!Encloses
  <2>3. \A m \in b + 1 .. n + 1 : m \in b + 1 .. n \/ m = n + 1
    OBVIOUS
  <2>4. n \in b + 1 .. n /\ b \in 1 .. (n + 1) - 1
    OBVIOUS
  <2>5. \A m \in b + 1 .. n + 1 : Reader!Depth(t, m) > Reader!Depth(t, b)
    BY <1>1, <2>2, <2>3, <2>4
  <2>6. Reader!Encloses(t, b, n + 1)
    BY <1>1, <2>2, <2>5 DEF Reader!Encloses
  <2> QED
    BY <1>1, <1>3, <2>1, <2>4, <2>6 DEF Reader!Within
<1> QED
  BY <1>1, <1>2, <1>3

(* What is listed: one element for each number of a set, in their order.   *)
Listed(s, I, f) == Len(s) = Cardinality(I) /\ \A n \in I : s[Reader!Rank(I, n)] = f[n]

LEMMA RankIs ==
  ASSUME NEW n \in Nat, NEW I \in SUBSET (1 .. n)
  PROVE  /\ \A m \in I : /\ Reader!Rank(I, m) \in 1 .. Cardinality(I)
                         /\ Reader!Rank(I \cup {n + 1}, m) = Reader!Rank(I, m)
         /\ Reader!Rank(I \cup {n + 1}, n + 1) = Cardinality(I) + 1
<1>1. IsFiniteSet(I) /\ Cardinality(I) \in 0 .. n /\ Cardinality(I \cup {n + 1}) = Cardinality(I) + 1
  BY OneNumberMore
<1>2. ASSUME NEW m \in I
      PROVE  /\ Reader!Rank(I, m) \in 1 .. Cardinality(I)
             /\ Reader!Rank(I \cup {n + 1}, m) = Reader!Rank(I, m)
  <2> DEFINE R == {j \in I : j <= m}
  <2>1. R \in SUBSET I /\ m \in R
    OBVIOUS
  <2>2. {j \in I \cup {n + 1} : j <= m} = R
    OBVIOUS
  <2>3. Reader!Rank(I, m) = Cardinality(R)
    BY ReaderCounts DEF Reader!Rank
  <2>4. Reader!Rank(I \cup {n + 1}, m) = Cardinality(R)
    BY <2>2, ReaderCounts DEF Reader!Rank
  <2> HIDE DEF R
  <2>5. IsFiniteSet(R) /\ Cardinality(R) <= Cardinality(I)
    BY <1>1, <2>1, FS_Subset
  <2>6. Cardinality(R) \in Nat /\ Cardinality(R) # 0
    BY <2>1, <2>5, FS_CardinalityType, FS_EmptySet
  <2> QED
    BY <1>1, <2>3, <2>4, <2>5, <2>6
<1>3. {j \in I \cup {n + 1} : j <= n + 1} = I \cup {n + 1}
  <2>1. \A j \in I \cup {n + 1} : j <= n + 1
    OBVIOUS
  <2> QED
    BY <2>1
<1>4. Reader!Rank(I \cup {n + 1}, n + 1) = Cardinality(I) + 1
  BY <1>1, <1>3, ReaderCounts DEF Reader!Rank
<1> QED
  BY <1>2, <1>4

(* One number and one element more.                                        *)
LEMMA ListedMore ==
  ASSUME NEW n \in Nat, NEW I \in SUBSET (1 .. n), NEW S, NEW s \in Seq(S), NEW v \in S,
         NEW f, NEW g, Listed(s, I, f), \A m \in I : g[m] = f[m], g[n + 1] = v
  PROVE  Listed(Append(s, v), I \cup {n + 1}, g)
<1>1. PICK r : r = Append(s, v)
  OBVIOUS
<1>2. Len(r) = Len(s) + 1 /\ (\A m \in 1 .. Len(s) : r[m] = s[m]) /\ r[Len(s) + 1] = v
  BY <1>1
<1>3. Cardinality(I) \in Nat /\ Cardinality(I \cup {n + 1}) = Cardinality(I) + 1
  <2>1. Cardinality(I) \in 0 .. n /\ Cardinality(I \cup {n + 1}) = Cardinality(I) + 1
    BY OneNumberMore, Zenon
  <2> QED
    BY <2>1
<1>4. Len(s) = Cardinality(I) /\ \A m \in I : s[Reader!Rank(I, m)] = f[m]
  BY DEF Listed
<1>5. PICK J : J = I \cup {n + 1}
  OBVIOUS
<1>6. \A m \in I : Reader!Rank(I, m) \in 1 .. Len(s) /\ Reader!Rank(J, m) = Reader!Rank(I, m)
  BY <1>4, <1>5, RankIs
<1>7. Reader!Rank(J, n + 1) = Len(s) + 1
  BY <1>4, <1>5, RankIs
<1>8. Len(r) = Cardinality(J)
  BY <1>2, <1>3, <1>4, <1>5
<1>9. ASSUME NEW m \in J PROVE r[Reader!Rank(J, m)] = g[m]
  <2>1. CASE m \in I
    BY <1>2, <1>4, <1>6, <2>1
  <2>2. CASE m = n + 1
    BY <1>2, <1>7, <2>2
  <2> QED
    BY <1>5, <2>1, <2>2
<1>10. Listed(r, J, g)
  BY <1>8, <1>9 DEF Listed
<1> QED
  BY <1>1, <1>5, <1>10

LEMMA ListedSame ==
  ASSUME NEW s, NEW I, NEW f, NEW g, Listed(s, I, f), \A m \in I : g[m] = f[m]
  PROVE  Listed(s, I, g)
  BY DEF Listed

LEMMA ListedNothing ==
  ASSUME NEW f PROVE Listed(<<>>, {}, f)
  BY FS_EmptySet DEF Listed

(* The sets are numbered.                                                  *)
LEMMA SetsNumbered ==
  ASSUME NEW t, NEW n \in Nat
  PROVE  /\ Reader!SetOf(t, n) \in 1 .. n + 1
         /\ 1 .. Reader!SetOf(t, n) = {1} \cup {Reader!SetOf(t, m) : m \in Reader!Openings(t, n)}
<1> DEFINE N(m) == Reader!SetOf(t, m)
           T(m) == {N(j) : j \in Reader!Openings(t, m)}
           Q == {m \in Nat : N(m) \in 1 .. m + 1 /\ 1 .. N(m) = {1} \cup T(m)}
<1>1. 0 \in Q
  <2>1. Cardinality(Reader!Openings(t, 0)) = 0
    BY BracketsCounted
  <2>2. N(0) = 1
    BY <2>1, ReaderCounts DEF Reader!SetOf
  <2>3. Reader!Openings(t, 0) = {}
    BY DEF Reader!Openings
  <2>4. T(0) = {}
    BY <2>3
  <2>5. 1 .. 1 = {1} /\ 1 \in 1 .. 0 + 1
    OBVIOUS
  <2> HIDE DEF N, T
  <2> QED
    BY <2>2, <2>4, <2>5
<1>2. ASSUME NEW m \in Nat, m \in Q PROVE m + 1 \in Q
  <2>1. N(m) \in 1 .. m + 1 /\ 1 .. N(m) = {1} \cup T(m)
    BY <1>2
  <2>2. N(m + 1) = N(m) + IF Reader!Opens(t, m + 1) THEN 1 ELSE 0
    <3>1. m + 1 \in Nat \ {0} /\ (m + 1) - 1 = m
      OBVIOUS
    <3>2. N(m + 1) = N((m + 1) - 1) + IF Reader!Opens(t, m + 1) THEN 1 ELSE 0
      BY <3>1, DepthIs
    <3> QED
      BY <3>1, <3>2
  <2>3. Reader!Openings(t, m + 1) =
          IF Reader!Opens(t, m + 1) THEN Reader!Openings(t, m) \cup {m + 1} ELSE Reader!Openings(t, m)
    BY Brackets
  <2>4. CASE Reader!Opens(t, m + 1)
    <3>1. T(m + 1) = T(m) \cup {N(m + 1)}
      BY <2>3, <2>4
    <3> HIDE DEF N, T
    <3>2. N(m + 1) = N(m) + 1 /\ N(m) \in Nat
      BY <2>1, <2>2, <2>4
    <3>3. 1 .. N(m) + 1 = 1 .. N(m) \cup {N(m) + 1}
      BY <3>2
    <3>4. N(m + 1) \in 1 .. (m + 1) + 1
      BY <2>1, <3>2
    <3> QED
      BY <2>1, <3>1, <3>2, <3>3, <3>4
  <2>5. CASE ~Reader!Opens(t, m + 1)
    <3>1. T(m + 1) = T(m)
      BY <2>3, <2>5
    <3> HIDE DEF N, T
    <3>2. N(m + 1) = N(m)
      BY <2>1, <2>2, <2>5
    <3>3. N(m + 1) \in 1 .. (m + 1) + 1
      BY <2>1, <3>2
    <3> QED
      BY <2>1, <3>1, <3>2, <3>3
  <2> QED
    BY <2>4, <2>5
<1>3. n \in Q
  <2> HIDE DEF Q
  <2> QED
    BY <1>1, <1>2, EveryNumber
<1> QED
  BY <1>3

(* What the lines of a text give, and the texts whose lines are legal.     *)
Text == Seq(Reader!Lines)
ValuesOf(t) == [m \in DOMAIN t |-> t[m].value]
SetsOf(t) == [m \in DOMAIN t |-> Reader!SetOf(t, m)]
Deep(t) == \A m \in 1 .. Len(t) + 1 : Reader!Depth(t, m) >= 0

(* What is known of a text when a line l has been added to it, in the set  *)
(* a.                                                                      *)
LineAdded(t, r, l, a) ==
  /\ r \in Text /\ Len(r) = Len(t) + 1 /\ Agree(t, r, Len(t)) /\ r[Len(t) + 1] = l
  /\ (Reader!Opens(r, Len(t) + 1) <=> l.kind \in {"name", "name open"})
  /\ (Reader!Closes(r, Len(t) + 1) <=> l.kind = "close")
  /\ Reader!SetOf(r, Len(t) + 1) =
       Reader!SetOf(t, Len(t)) + IF l.kind \in {"name", "name open"} THEN 1 ELSE 0
  /\ \A c : Reader!Within(r, Len(t) + 1, c) <=> c = a
LinesKept(t, r) ==
  \A m \in 1 .. Len(t) : /\ Reader!Opens(r, m) = Reader!Opens(t, m) /\ r[m] = t[m]
                         /\ Reader!SetOf(r, m) = Reader!SetOf(t, m)
                         /\ \A c : Reader!Within(r, m, c) <=> Reader!Within(t, m, c)

LEMMA LineIs ==
  ASSUME NEW t \in Text, NEW l \in Reader!Lines, Deep(t),
         NEW a, Reader!Within(t, Len(t) + 1, a)
  PROVE  LineAdded(t, Append(t, l), l, a) /\ LinesKept(t, Append(t, l))
<1>1. PICK r : r = Append(t, l)
  OBVIOUS
<1>2. PICK n \in Nat : n = Len(t)
  BY DEF Text
<1>3. r \in Text /\ Len(r) = n + 1 /\ r[n + 1] = l /\ \A m \in 1 .. n : r[m] = t[m]
  BY <1>1, <1>2 DEF Text
<1>4. Agree(t, r, n)
  BY <1>3 DEF Agree
<1>5. n + 1 \in 1 .. n + 1 /\ n + 1 \in Nat \ {0} /\ \A m \in 1 .. n : m \in 1 .. n + 1
  OBVIOUS
<1>6. \A c : Reader!Within(r, n + 1, c) <=> Reader!Within(t, n + 1, c)
  BY <1>4, <1>5, SamePlace, Zenon
<1>7. \A m \in 1 .. n + 1 : Reader!Depth(t, m) >= 0
  BY <1>2 DEF Deep
<1>8. \A c : Reader!Within(t, n + 1, c) => c = a
  BY <1>2, <1>5, <1>7, WithinOne
<1>11. Reader!Opens(r, n + 1) <=> l.kind \in {"name", "name open"}
  BY <1>3 DEF Reader!Opens
<1>12. Reader!SetOf(r, n + 1) = Reader!SetOf(t, n) + IF l.kind \in {"name", "name open"} THEN 1 ELSE 0
  <2>1. Reader!SetOf(r, n + 1) = Reader!SetOf(r, (n + 1) - 1) + IF Reader!Opens(r, n + 1) THEN 1 ELSE 0
    BY <1>5, DepthIs
  <2>2. (n + 1) - 1 = n /\ n \in 0 .. n
    OBVIOUS
  <2>3. Reader!SetOf(r, n) = Reader!SetOf(t, n)
    BY <1>4, <2>2, SameStart
  <2> QED
    BY <1>11, <2>1, <2>2, <2>3
<1>9. LineAdded(t, r, l, a)
  BY <1>2, <1>3, <1>4, <1>6, <1>8, <1>11, <1>12 DEF LineAdded, Reader!Closes
<1>10. LinesKept(t, r)
  <2>1. \A m \in 1 .. n : Reader!Opens(r, m) = Reader!Opens(t, m)
    BY <1>4, SameStart, Zenon
  <2>3. \A m \in 1 .. n : m \in 0 .. n
    OBVIOUS
  <2>4. \A m \in 1 .. n : Reader!SetOf(r, m) = Reader!SetOf(t, m)
    BY <1>4, <2>3, SameStart, Zenon
  <2>2. \A m \in 1 .. n : \A c : Reader!Within(r, m, c) <=> Reader!Within(t, m, c)
    BY <1>4, <1>5, SamePlace, Zenon
  <2> QED
    BY <1>2, <1>3, <2>1, <2>2, <2>4 DEF LinesKept
<1> QED
  BY <1>1, <1>9, <1>10

(* The lines that give a set c its values and its children: l is one more. *)
LineGives(t, r, l, a, c, k) ==
  LET n == Len(t) + 1
  IN  /\ Reader!Valued(t, c, k) \in SUBSET (1 .. Len(t)) /\ Reader!Opened(t, c, k) \in SUBSET (1 .. Len(t))
      /\ Reader!Valued(r, c, k) = IF l.kind = "attribute" /\ l.key = k /\ c = a
                                  THEN Reader!Valued(t, c, k) \cup {n} ELSE Reader!Valued(t, c, k)
      /\ Reader!Opened(r, c, k) = IF l.kind \in {"name", "name open"} /\ l.key = k /\ c = a
                                  THEN Reader!Opened(t, c, k) \cup {n} ELSE Reader!Opened(t, c, k)

LEMMA LinesWithin ==
  ASSUME NEW t \in Text, NEW r, NEW l, NEW a, LineAdded(t, r, l, a), LinesKept(t, r), NEW c, NEW k
  PROVE  LineGives(t, r, l, a, c, k)
<1>1. PICK n \in Nat : n = Len(t)
  BY DEF Text
<1>2. DOMAIN t = 1 .. n /\ DOMAIN r = 1 .. n + 1
  <2>1. r \in Text /\ Len(r) = n + 1
    BY <1>1 DEF LineAdded
  <2> QED
    BY <1>1, <2>1 DEF Text
<1>3. \A m : m \in 1 .. n + 1 <=> m \in 1 .. n \/ m = n + 1
  OBVIOUS
<1>4. /\ r[n + 1] = l /\ (Reader!Opens(r, n + 1) <=> l.kind \in {"name", "name open"})
      /\ Reader!Within(r, n + 1, c) <=> c = a
  BY <1>1 DEF LineAdded
<1>5. \A m \in 1 .. n : /\ Reader!Opens(r, m) = Reader!Opens(t, m) /\ r[m] = t[m]
                        /\ Reader!Within(r, m, c) <=> Reader!Within(t, m, c)
  BY <1>1 DEF LinesKept
<1>6. /\ \A m : m \in Reader!Valued(t, c, k) <=>
                  m \in 1 .. n /\ t[m].kind = "attribute" /\ t[m].key = k /\ Reader!Within(t, m, c)
      /\ \A m : m \in Reader!Valued(r, c, k) <=>
                  m \in 1 .. n + 1 /\ r[m].kind = "attribute" /\ r[m].key = k /\ Reader!Within(r, m, c)
  BY <1>2 DEF Reader!Valued
<1>7. /\ \A m : m \in Reader!Opened(t, c, k) <=>
                  m \in 1 .. n /\ Reader!Opens(t, m) /\ t[m].key = k /\ Reader!Within(t, m, c)
      /\ \A m : m \in Reader!Opened(r, c, k) <=>
                  m \in 1 .. n + 1 /\ Reader!Opens(r, m) /\ r[m].key = k /\ Reader!Within(r, m, c)
  BY <1>2 DEF Reader!Opened
<1>8. /\ Reader!Valued(t, c, k) \in SUBSET (1 .. n) /\ Reader!Opened(t, c, k) \in SUBSET (1 .. n)
  BY <1>6, <1>7
<1>9. Reader!Valued(r, c, k) = IF l.kind = "attribute" /\ l.key = k /\ c = a
                               THEN Reader!Valued(t, c, k) \cup {n + 1} ELSE Reader!Valued(t, c, k)
  <2>1. ASSUME NEW m
        PROVE  m \in Reader!Valued(r, c, k) <=>
                 m \in Reader!Valued(t, c, k) \/ (m = n + 1 /\ l.kind = "attribute" /\ l.key = k /\ c = a)
    <3>1. CASE m \in 1 .. n
      <4>1. m \in 1 .. n + 1 /\ m # n + 1
        BY <3>1
      <4>2. r[m] = t[m] /\ (Reader!Within(r, m, c) <=> Reader!Within(t, m, c))
        BY <1>5, <3>1
      <4> QED
        BY <1>6, <3>1, <4>1, <4>2, Zenon
    <3>2. CASE m = n + 1
      <4>1. n + 1 \notin 1 .. n /\ n + 1 \in 1 .. n + 1
        OBVIOUS
      <4> QED
        BY <1>4, <1>6, <3>2, <4>1, Zenon
    <3>3. CASE m \notin 1 .. n /\ m # n + 1
      BY <1>3, <1>6, <3>3, Zenon
    <3> QED
      BY <3>1, <3>2, <3>3
  <2> QED
    BY <2>1
<1>10. Reader!Opened(r, c, k) = IF l.kind \in {"name", "name open"} /\ l.key = k /\ c = a
                               THEN Reader!Opened(t, c, k) \cup {n + 1} ELSE Reader!Opened(t, c, k)
  <2>1. ASSUME NEW m
        PROVE  m \in Reader!Opened(r, c, k) <=>
                 m \in Reader!Opened(t, c, k) \/ (m = n + 1 /\ l.kind \in {"name", "name open"} /\ l.key = k /\ c = a)
    <3>1. CASE m \in 1 .. n
      <4>1. m \in 1 .. n + 1 /\ m # n + 1
        BY <3>1
      <4>2. /\ Reader!Opens(r, m) = Reader!Opens(t, m) /\ r[m] = t[m]
            /\ Reader!Within(r, m, c) <=> Reader!Within(t, m, c)
        BY <1>5, <3>1
      <4> QED
        BY <1>7, <3>1, <4>1, <4>2
    <3>2. CASE m = n + 1
      <4>1. n + 1 \notin 1 .. n /\ n + 1 \in 1 .. n + 1
        OBVIOUS
      <4> QED
        BY <1>4, <1>7, <3>2, <4>1, Zenon
    <3>3. CASE m \notin 1 .. n /\ m # n + 1
      BY <1>3, <1>7, <3>3, Zenon
    <3> QED
      BY <3>1, <3>2, <3>3
  <2> QED
    BY <2>1
<1> QED
  BY <1>1, <1>8, <1>9, <1>10 DEF LineGives

(* The sets that the constructor has made of a text.                       *)
SetDescribed(set, a, t) ==
  \A k \in FileKeys : /\ Listed(set.values[k], Reader!Valued(t, a, k), ValuesOf(t))
                      /\ Listed(set.children[k], Reader!Opened(t, a, k), SetsOf(t))
Described(h, t) ==
  /\ DOMAIN h = 1 .. Reader!SetOf(t, Len(t))
  /\ h[1].parent = 0
  /\ \A m \in 1 .. Len(t) : Reader!Opens(t, m) => Reader!Within(t, m, h[Reader!SetOf(t, m)].parent)
  /\ \A a \in DOMAIN h : SetDescribed(h[a], a, t)

(* Sets, and the two ways in which they change.                            *)
SetKnownIn(set, S) ==
  /\ set.parent \in S \cup {0}
  /\ \A k \in FileKeys : set.values[k] \in Seq(FileValues) /\ set.children[k] \in Seq(S)
HeapKnown(h, n) == DOMAIN h = 1 .. n /\ \A a \in 1 .. n : SetKnownIn(h[a], 1 .. n)

SameLinks(set, new) == new.parent = set.parent /\ \A k \in FileKeys : new.children[k] = set.children[k]
SameValues(set, new) == \A k \in FileKeys : new.values[k] = set.values[k]
ValueAdded(h, g, a, k, v) ==
  /\ DOMAIN g = DOMAIN h /\ \A b \in DOMAIN h : SameLinks(h[b], g[b])
  /\ \A b \in DOMAIN h : b # a => SameValues(h[b], g[b])
  /\ g[a].values[k] = Append(h[a].values[k], v)
  /\ \A j \in FileKeys : j # k => g[a].values[j] = h[a].values[j]
SetAdded(h, g, a, k, c) ==
  /\ DOMAIN g = DOMAIN h \cup {c}
  /\ \A b \in DOMAIN h : SameValues(h[b], g[b]) /\ g[b].parent = h[b].parent
  /\ \A b \in DOMAIN h : b # a => SameLinks(h[b], g[b])
  /\ g[a].children[k] = Append(h[a].children[k], c)
  /\ \A j \in FileKeys : j # k => g[a].children[j] = h[a].children[j]
  /\ g[c].parent = a
  /\ \A j \in FileKeys : g[c].values[j] = <<>> /\ g[c].children[j] = <<>>

(* What was listed still is.                                               *)
LEMMA StillListed ==
  ASSUME NEW t \in Text, NEW r, NEW l, NEW a, LineAdded(t, r, l, a), LinesKept(t, r)
  PROVE  /\ \A m \in 1 .. Len(t) : ValuesOf(r)[m] = ValuesOf(t)[m] /\ SetsOf(r)[m] = SetsOf(t)[m]
         /\ ValuesOf(r)[Len(t) + 1] = l.value /\ SetsOf(r)[Len(t) + 1] = Reader!SetOf(r, Len(t) + 1)
<1>1. PICK n \in Nat : n = Len(t)
  BY DEF Text
<1>2. r \in Text /\ Len(r) = n + 1 /\ r[n + 1] = l
  BY <1>1 DEF LineAdded
<1>3. DOMAIN t = 1 .. n /\ DOMAIN r = 1 .. n + 1
  BY <1>1, <1>2 DEF Text
<1>4. \A m \in 1 .. n : r[m] = t[m] /\ Reader!SetOf(r, m) = Reader!SetOf(t, m)
  BY <1>1 DEF LinesKept
<1>5. n + 1 \in 1 .. n + 1 /\ \A m \in 1 .. n : m \in 1 .. n + 1
  OBVIOUS
<1> QED
  BY <1>1, <1>2, <1>3, <1>4, <1>5 DEF ValuesOf, SetsOf

(* A line that says nothing of a set leaves it described.                  *)
LEMMA StillDescribed ==
  ASSUME NEW t \in Text, NEW r, NEW l, NEW a, LineAdded(t, r, l, a), LinesKept(t, r),
         NEW set, NEW c, SetDescribed(set, c, t),
         c # a \/ l.kind \notin {"attribute", "name", "name open"}
  PROVE  SetDescribed(set, c, r)
<1> SUFFICES ASSUME NEW k \in FileKeys
             PROVE  /\ Listed(set.values[k], Reader!Valued(r, c, k), ValuesOf(r))
                    /\ Listed(set.children[k], Reader!Opened(r, c, k), SetsOf(r))
  BY DEF SetDescribed
<1>1. /\ Listed(set.values[k], Reader!Valued(t, c, k), ValuesOf(t))
      /\ Listed(set.children[k], Reader!Opened(t, c, k), SetsOf(t))
  BY DEF SetDescribed
<1>2. /\ Reader!Valued(t, c, k) \subseteq 1 .. Len(t) /\ Reader!Opened(t, c, k) \subseteq 1 .. Len(t)
      /\ Reader!Valued(r, c, k) = Reader!Valued(t, c, k) /\ Reader!Opened(r, c, k) = Reader!Opened(t, c, k)
  <2>1. LineGives(t, r, l, a, c, k)
    BY LinesWithin, Zenon
  <2> QED
    BY <2>1 DEF LineGives
<1>3. \A m \in 1 .. Len(t) : ValuesOf(r)[m] = ValuesOf(t)[m] /\ SetsOf(r)[m] = SetsOf(t)[m]
  BY StillListed
<1> QED
  BY <1>1, <1>2, <1>3, ListedSame

(* The sets of opening lines have numbers, and stay where they are.        *)
LEMMA OpenedBefore ==
  ASSUME NEW t \in Text, NEW m \in 1 .. Len(t), Reader!Opens(t, m)
  PROVE  Reader!SetOf(t, m) \in 1 .. Reader!SetOf(t, Len(t))
<1>1. Len(t) \in Nat
  BY DEF Text
<1>2. m \in Reader!Openings(t, Len(t))
  BY DEF Reader!Openings
<1> QED
  BY <1>1, <1>2, SetsNumbered

LEMMA ParentsStay ==
  ASSUME NEW t \in Text, NEW r, NEW l, NEW a, LineAdded(t, r, l, a), LinesKept(t, r),
         NEW h, NEW g, Described(h, t), \A b \in DOMAIN h : g[b].parent = h[b].parent
  PROVE  /\ g[1].parent = 0
         /\ \A m \in 1 .. Len(t) : Reader!Opens(r, m) => Reader!Within(r, m, g[Reader!SetOf(r, m)].parent)
<1>1. DOMAIN h = 1 .. Reader!SetOf(t, Len(t)) /\ h[1].parent = 0
  BY DEF Described
<1>2. g[1].parent = 0
  <2>1. Len(t) \in Nat
    BY DEF Text
  <2>2. Reader!SetOf(t, Len(t)) \in 1 .. Len(t) + 1
    BY <2>1, SetsNumbered
  <2>3. 1 \in 1 .. Reader!SetOf(t, Len(t))
    BY <2>1, <2>2
  <2> QED
    BY <1>1, <2>3
<1>3. ASSUME NEW m \in 1 .. Len(t), Reader!Opens(r, m)
      PROVE  Reader!Within(r, m, g[Reader!SetOf(r, m)].parent)
  <2>1. /\ Reader!Opens(t, m) /\ Reader!SetOf(r, m) = Reader!SetOf(t, m)
        /\ \A c : Reader!Within(r, m, c) <=> Reader!Within(t, m, c)
    BY <1>3 DEF LinesKept
  <2>2. Reader!SetOf(t, m) \in DOMAIN h
    BY <1>1, <2>1, OpenedBefore
  <2>3. Reader!Within(t, m, h[Reader!SetOf(t, m)].parent)
    BY <2>1 DEF Described
  <2>4. g[Reader!SetOf(r, m)].parent = h[Reader!SetOf(t, m)].parent
    BY <2>1, <2>2
  <2> QED
    BY <2>1, <2>3, <2>4
<1> QED
  BY <1>2, <1>3

GivesNothing(l) == l.kind \notin {"attribute", "name", "name open"}

(* A line that gives no set anything,                                      *)
LEMMA DescribedSame ==
  ASSUME NEW t \in Text, NEW r, NEW l, NEW a, LineAdded(t, r, l, a), LinesKept(t, r),
         NEW h, Described(h, t), GivesNothing(l)
  PROVE  Described(h, r)
<1>1. PICK n \in Nat : n = Len(t)
  BY DEF Text
<1>2. Len(r) = n + 1 /\ ~Reader!Opens(r, n + 1) /\ Reader!SetOf(r, n + 1) = Reader!SetOf(t, n) + 0
  BY <1>1 DEF LineAdded, GivesNothing
<1>3. Reader!SetOf(t, n) \in 1 .. n + 1
  BY SetsNumbered
<1>4. DOMAIN h = 1 .. Reader!SetOf(r, Len(r))
  <2>1. Reader!SetOf(r, Len(r)) = Reader!SetOf(t, n)
    BY <1>2, <1>3
  <2> QED
    BY <1>1, <2>1 DEF Described
<1>5. /\ h[1].parent = 0
      /\ \A m \in 1 .. Len(t) : Reader!Opens(r, m) => Reader!Within(r, m, h[Reader!SetOf(r, m)].parent)
  BY ParentsStay
<1>6. \A m \in 1 .. n + 1 : m \in 1 .. n \/ m = n + 1
  OBVIOUS
<1>7. \A m \in 1 .. Len(r) : Reader!Opens(r, m) => Reader!Within(r, m, h[Reader!SetOf(r, m)].parent)
  BY <1>1, <1>2, <1>5, <1>6
<1>8. ASSUME NEW b \in DOMAIN h PROVE SetDescribed(h[b], b, r)
  <2>1. SetDescribed(h[b], b, t)
    BY DEF Described
  <2> QED
    BY <2>1, StillDescribed DEF GivesNothing
<1> QED
  BY <1>4, <1>5, <1>7, <1>8 DEF Described

(* a line that gives one a value,                                          *)
LEMMA DescribedValue ==
  ASSUME NEW t \in Text, NEW r, NEW l, NEW a, LineAdded(t, r, l, a), LinesKept(t, r),
         NEW h, Described(h, t), HeapKnown(h, Reader!SetOf(t, Len(t))), a \in DOMAIN h,
         l.kind = "attribute", l.key \in FileKeys, l.value \in FileValues,
         NEW g, ValueAdded(h, g, a, l.key, l.value)
  PROVE  Described(g, r)
<1>1. PICK n \in Nat : n = Len(t)
  BY DEF Text
<1>2. Len(r) = n + 1 /\ ~Reader!Opens(r, n + 1) /\ Reader!SetOf(r, n + 1) = Reader!SetOf(t, n) + 0
  BY <1>1 DEF LineAdded
<1>3. Reader!SetOf(t, n) \in 1 .. n + 1
  BY SetsNumbered
<1>9. DOMAIN g = DOMAIN h /\ \A b \in DOMAIN h : SameLinks(h[b], g[b])
  BY DEF ValueAdded
<1>4. DOMAIN g = 1 .. Reader!SetOf(r, Len(r))
  <2>1. Reader!SetOf(r, Len(r)) = Reader!SetOf(t, n)
    BY <1>2, <1>3
  <2> QED
    BY <1>1, <1>9, <2>1 DEF Described
<1>10. \A b \in DOMAIN h : g[b].parent = h[b].parent
  BY <1>9 DEF SameLinks
<1>5. /\ g[1].parent = 0
      /\ \A m \in 1 .. Len(t) : Reader!Opens(r, m) => Reader!Within(r, m, g[Reader!SetOf(r, m)].parent)
  BY <1>10, ParentsStay
<1>6. \A m \in 1 .. n + 1 : m \in 1 .. n \/ m = n + 1
  OBVIOUS
<1>7. \A m \in 1 .. Len(r) : Reader!Opens(r, m) => Reader!Within(r, m, g[Reader!SetOf(r, m)].parent)
  BY <1>1, <1>2, <1>5, <1>6
<1>8. ASSUME NEW b \in DOMAIN g, b # a PROVE SetDescribed(g[b], b, r)
  <2>1. SetDescribed(h[b], b, t)
    BY <1>9 DEF Described
  <2>2. SetDescribed(h[b], b, r)
    BY <1>8, <2>1, StillDescribed
  <2>3. \A k \in FileKeys : g[b].values[k] = h[b].values[k] /\ g[b].children[k] = h[b].children[k]
    BY <1>8, <1>9 DEF ValueAdded, SameValues, SameLinks
  <2> QED
    BY <2>2, <2>3 DEF SetDescribed
<1>11. ASSUME NEW k \in FileKeys
       PROVE  /\ Listed(g[a].values[k], Reader!Valued(r, a, k), ValuesOf(r))
              /\ Listed(g[a].children[k], Reader!Opened(r, a, k), SetsOf(r))
  <2>1. /\ Listed(h[a].values[k], Reader!Valued(t, a, k), ValuesOf(t))
        /\ Listed(h[a].children[k], Reader!Opened(t, a, k), SetsOf(t))
    BY DEF Described, SetDescribed
  <2>2. LineGives(t, r, l, a, a, k)
    BY LinesWithin, Zenon
  <2>3. /\ \A m \in 1 .. n : ValuesOf(r)[m] = ValuesOf(t)[m] /\ SetsOf(r)[m] = SetsOf(t)[m]
        /\ ValuesOf(r)[n + 1] = l.value
    BY <1>1, StillListed
  <2>4. g[a].children[k] = h[a].children[k]
    BY <1>9 DEF SameLinks
  <2>5. Reader!Opened(r, a, k) = Reader!Opened(t, a, k) /\ Reader!Opened(t, a, k) \subseteq 1 .. n
    BY <1>1, <2>2 DEF LineGives
  <2>6. Listed(g[a].children[k], Reader!Opened(r, a, k), SetsOf(r))
    BY <2>1, <2>3, <2>4, <2>5, ListedSame
  <2>7. Reader!Valued(t, a, k) \in SUBSET (1 .. n)
    BY <1>1, <2>2 DEF LineGives
  <2>8. CASE k = l.key
    <3>1. Reader!Valued(r, a, k) = Reader!Valued(t, a, k) \cup {n + 1}
      BY <1>1, <2>2, <2>8 DEF LineGives
    <3>2. g[a].values[k] = Append(h[a].values[k], l.value)
      BY <2>8 DEF ValueAdded
    <3>3. h[a].values[k] \in Seq(FileValues)
      BY DEF HeapKnown, SetKnownIn
    <3>4. Listed(Append(h[a].values[k], l.value), Reader!Valued(t, a, k) \cup {n + 1}, ValuesOf(r))
      <4>1. \A m \in Reader!Valued(t, a, k) : ValuesOf(r)[m] = ValuesOf(t)[m]
        BY <2>3, <2>7
      <4> QED
        BY <2>1, <2>3, <2>7, <3>3, <4>1, ListedMore
    <3> QED
      BY <2>6, <3>1, <3>2, <3>4
  <2>9. CASE k # l.key
    <3>1. Reader!Valued(r, a, k) = Reader!Valued(t, a, k)
      BY <1>1, <2>2, <2>9 DEF LineGives
    <3>2. g[a].values[k] = h[a].values[k]
      BY <2>9 DEF ValueAdded
    <3>3. Listed(g[a].values[k], Reader!Valued(r, a, k), ValuesOf(r))
      BY <2>1, <2>3, <2>7, <3>1, <3>2, ListedSame
    <3> QED
      BY <2>6, <3>3
  <2> QED
    BY <2>8, <2>9
<1>12. SetDescribed(g[a], a, r)
  BY <1>11 DEF SetDescribed
<1>13. \A b \in DOMAIN g : SetDescribed(g[b], b, r)
  BY <1>8, <1>12
<1> QED
  BY <1>4, <1>5, <1>7, <1>13 DEF Described

GivesSet(l) == l.kind \in {"name", "name open"} /\ l.key \in FileKeys

(* and a line that opens a new one, which no line was within.              *)
LEMMA NothingWithin ==
  ASSUME NEW t \in Text, NEW c, c = Reader!SetOf(t, Len(t)) + 1, NEW m \in 1 .. Len(t)
  PROVE  ~Reader!Within(t, m, c)
<1> SUFFICES ASSUME Reader!Within(t, m, c) PROVE FALSE
  OBVIOUS
<1>1. PICK n \in Nat : n = Len(t)
  BY DEF Text
<1>2. Reader!SetOf(t, n) \in 1 .. n + 1
  BY SetsNumbered
<1>3. c # Reader!Root
  BY <1>1, <1>2 DEF Reader!Root
<1>4. PICK b \in 1 .. m - 1 : Reader!Encloses(t, b, m) /\ Reader!SetOf(t, b) = c
  BY <1>3 DEF Reader!Within
<1>5. Reader!Opens(t, b)
  BY <1>4 DEF Reader!Encloses
<1>6. b \in 1 .. Len(t)
  BY <1>1
<1>7. Reader!SetOf(t, b) \in 1 .. Reader!SetOf(t, Len(t))
  BY <1>5, <1>6, OpenedBefore
<1> QED
  BY <1>1, <1>2, <1>4, <1>7

LEMMA NewSetIs ==
  ASSUME NEW t \in Text, NEW r, NEW l, NEW a, LineAdded(t, r, l, a), LinesKept(t, r),
         NEW c, c = Reader!SetOf(t, Len(t)) + 1, c # a, NEW set,
         \A k \in FileKeys : set.values[k] = <<>> /\ set.children[k] = <<>>
  PROVE  SetDescribed(set, c, r)
<1> SUFFICES ASSUME NEW k \in FileKeys
             PROVE  /\ Listed(set.values[k], Reader!Valued(r, c, k), ValuesOf(r))
                    /\ Listed(set.children[k], Reader!Opened(r, c, k), SetsOf(r))
  BY DEF SetDescribed
<1>1. LineGives(t, r, l, a, c, k)
  BY LinesWithin, Zenon
<1>2. Reader!Valued(r, c, k) = Reader!Valued(t, c, k) /\ Reader!Opened(r, c, k) = Reader!Opened(t, c, k)
  BY <1>1 DEF LineGives
<1>3. Reader!Valued(t, c, k) \in SUBSET (1 .. Len(t)) /\ Reader!Opened(t, c, k) \in SUBSET (1 .. Len(t))
  BY <1>1 DEF LineGives
<1>4. /\ \A m \in Reader!Valued(t, c, k) : Reader!Within(t, m, c)
      /\ \A m \in Reader!Opened(t, c, k) : Reader!Within(t, m, c)
  BY DEF Reader!Valued, Reader!Opened
<1>5. Reader!Valued(t, c, k) = {} /\ Reader!Opened(t, c, k) = {}
  BY <1>3, <1>4, NothingWithin
<1> QED
  BY <1>2, <1>5, ListedNothing

LEMMA DescribedSet ==
  ASSUME NEW t \in Text, NEW r, NEW l, NEW a, LineAdded(t, r, l, a), LinesKept(t, r),
         NEW h, Described(h, t), HeapKnown(h, Reader!SetOf(t, Len(t))), a \in DOMAIN h,
         GivesSet(l), NEW c, c = Reader!SetOf(t, Len(t)) + 1,
         NEW g, SetAdded(h, g, a, l.key, c)
  PROVE  Described(g, r)
<1>1. PICK n \in Nat : n = Len(t)
  BY DEF Text
<1>3. PICK K \in Nat : K = Reader!SetOf(t, n) /\ K \in 1 .. n + 1
  BY SetsNumbered
<1>2. Len(r) = n + 1 /\ Reader!Opens(r, n + 1) /\ Reader!SetOf(r, n + 1) = K + 1 /\ Reader!Within(r, n + 1, a)
  BY <1>1, <1>3 DEF LineAdded, GivesSet
<1>4. DOMAIN h = 1 .. K /\ c = K + 1 /\ h[1].parent = 0
  BY <1>1, <1>3 DEF Described
<1>5. DOMAIN g = 1 .. K + 1
  <2>1. DOMAIN g = DOMAIN h \cup {c}
    BY DEF SetAdded
  <2>2. 1 .. K + 1 = 1 .. K \cup {K + 1}
    OBVIOUS
  <2> QED
    BY <1>4, <2>1, <2>2
<1>6. /\ \A b \in DOMAIN h : SameValues(h[b], g[b]) /\ g[b].parent = h[b].parent
      /\ \A b \in DOMAIN h : b # a => SameLinks(h[b], g[b])
      /\ g[a].children[l.key] = Append(h[a].children[l.key], c)
      /\ \A j \in FileKeys : j # l.key => g[a].children[j] = h[a].children[j]
      /\ g[c].parent = a
      /\ \A j \in FileKeys : g[c].values[j] = <<>> /\ g[c].children[j] = <<>>
  BY DEF SetAdded
<1>7. /\ g[1].parent = 0
      /\ \A m \in 1 .. n : Reader!Opens(r, m) => Reader!Within(r, m, g[Reader!SetOf(r, m)].parent)
  <2>1. \A b \in DOMAIN h : g[b].parent = h[b].parent
    BY <1>6
  <2> QED
    BY <1>1, <2>1, ParentsStay
<1>8. \A m \in 1 .. Len(r) : Reader!Opens(r, m) => Reader!Within(r, m, g[Reader!SetOf(r, m)].parent)
  <2>1. \A m \in 1 .. n + 1 : m \in 1 .. n \/ m = n + 1
    OBVIOUS
  <2>2. g[Reader!SetOf(r, n + 1)].parent = a
    BY <1>2, <1>4, <1>6
  <2> QED
    BY <1>2, <1>7, <2>1, <2>2
<1>9. c # a
  BY <1>4
<1>10. SetDescribed(g[c], c, r)
  BY <1>6, <1>9, NewSetIs
<1>11. ASSUME NEW b \in DOMAIN h, b # a PROVE SetDescribed(g[b], b, r)
  <2>1. SetDescribed(h[b], b, t)
    BY DEF Described
  <2>2. SetDescribed(h[b], b, r)
    BY <1>11, <2>1, StillDescribed
  <2>3. \A k \in FileKeys : g[b].values[k] = h[b].values[k] /\ g[b].children[k] = h[b].children[k]
    BY <1>6, <1>11 DEF SameValues, SameLinks
  <2> QED
    BY <2>2, <2>3 DEF SetDescribed
<1>12. ASSUME NEW k \in FileKeys
       PROVE  /\ Listed(g[a].values[k], Reader!Valued(r, a, k), ValuesOf(r))
              /\ Listed(g[a].children[k], Reader!Opened(r, a, k), SetsOf(r))
  <2>1. /\ Listed(h[a].values[k], Reader!Valued(t, a, k), ValuesOf(t))
        /\ Listed(h[a].children[k], Reader!Opened(t, a, k), SetsOf(t))
    BY DEF Described, SetDescribed
  <2>2. LineGives(t, r, l, a, a, k)
    BY LinesWithin, Zenon
  <2>3. /\ \A m \in 1 .. n : ValuesOf(r)[m] = ValuesOf(t)[m] /\ SetsOf(r)[m] = SetsOf(t)[m]
        /\ SetsOf(r)[n + 1] = c
    BY <1>1, <1>2, <1>4, StillListed
  <2>4. g[a].values[k] = h[a].values[k]
    BY <1>6 DEF SameValues
  <2>5. Reader!Valued(r, a, k) = Reader!Valued(t, a, k) /\ Reader!Valued(t, a, k) \subseteq 1 .. n
    <3>1. l.kind # "attribute"
      BY DEF GivesSet
    <3> QED
      BY <1>1, <2>2, <3>1 DEF LineGives
  <2>6. Listed(g[a].values[k], Reader!Valued(r, a, k), ValuesOf(r))
    BY <2>1, <2>3, <2>4, <2>5, ListedSame
  <2>7. Reader!Opened(t, a, k) \in SUBSET (1 .. n)
    BY <1>1, <2>2 DEF LineGives
  <2>8. CASE k = l.key
    <3>1. Reader!Opened(r, a, k) = Reader!Opened(t, a, k) \cup {n + 1}
      BY <1>1, <2>2, <2>8 DEF LineGives, GivesSet
    <3>2. g[a].children[k] = Append(h[a].children[k], c)
      BY <1>6, <2>8
    <3>3. h[a].children[k] \in Seq(1 .. K + 1) /\ c \in 1 .. K + 1
      <4>1. h[a].children[k] \in Seq(1 .. K)
        BY <1>1, <1>3 DEF HeapKnown, SetKnownIn
      <4> QED
        BY <1>4, <4>1
    <3>4. \A m \in Reader!Opened(t, a, k) : SetsOf(r)[m] = SetsOf(t)[m]
      BY <2>3, <2>7
    <3>5. Listed(Append(h[a].children[k], c), Reader!Opened(t, a, k) \cup {n + 1}, SetsOf(r))
      BY <2>1, <2>3, <2>7, <3>3, <3>4, ListedMore
    <3> QED
      BY <2>6, <3>1, <3>2, <3>5
  <2>9. CASE k # l.key
    <3>1. Reader!Opened(r, a, k) = Reader!Opened(t, a, k)
      BY <1>1, <2>2, <2>9 DEF LineGives
    <3>2. g[a].children[k] = h[a].children[k]
      BY <1>6, <2>9
    <3>3. Listed(g[a].children[k], Reader!Opened(r, a, k), SetsOf(r))
      BY <2>1, <2>3, <2>7, <3>1, <3>2, ListedSame
    <3> QED
      BY <2>6, <3>3
  <2> QED
    BY <2>8, <2>9
<1>13. SetDescribed(g[a], a, r)
  BY <1>12 DEF SetDescribed
<1>14. \A b \in DOMAIN g : SetDescribed(g[b], b, r)
  BY <1>4, <1>5, <1>10, <1>11, <1>13
<1> QED
  BY <1>2, <1>5, <1>7, <1>8, <1>14 DEF Described

(* What is described is meant.                                             *)
LEMMA DescribedMeant ==
  ASSUME NEW t \in Text, NEW h, Described(h, t)
  PROVE  Reader!IsMeant(h, t)
<1>1. PICK n \in Nat : n = Len(t)
  BY DEF Text
<1>2. DOMAIN h = {Reader!Root} \cup {Reader!SetOf(t, m) : m \in Reader!Openings(t, n)}
  BY <1>1, SetsNumbered DEF Described, Reader!Root
<1>3. h[Reader!Root].parent = Reader!NoSet
  BY DEF Described, Reader!Root, Reader!NoSet
<1>4. \A m \in Reader!Openings(t, n) : Reader!Within(t, m, h[Reader!SetOf(t, m)].parent)
  BY <1>1 DEF Described, Reader!Openings
<1>5. ASSUME NEW a \in DOMAIN h, NEW k \in FileKeys
      PROVE  /\ Len(h[a].values[k]) = Cardinality(Reader!Valued(t, a, k))
             /\ \A m \in Reader!Valued(t, a, k) : h[a].values[k][Reader!Rank(Reader!Valued(t, a, k), m)] = t[m].value
             /\ Len(h[a].children[k]) = Cardinality(Reader!Opened(t, a, k))
             /\ \A m \in Reader!Opened(t, a, k) :
                  h[a].children[k][Reader!Rank(Reader!Opened(t, a, k), m)] = Reader!SetOf(t, m)
  <2>1. /\ Listed(h[a].values[k], Reader!Valued(t, a, k), ValuesOf(t))
        /\ Listed(h[a].children[k], Reader!Opened(t, a, k), SetsOf(t))
    BY DEF Described, SetDescribed
  <2>2. /\ \A m \in Reader!Valued(t, a, k) : m \in DOMAIN t
        /\ \A m \in Reader!Opened(t, a, k) : m \in DOMAIN t
    BY DEF Reader!Valued, Reader!Opened
  <2>3. /\ \A m \in Reader!Valued(t, a, k) : ValuesOf(t)[m] = t[m].value
        /\ \A m \in Reader!Opened(t, a, k) : SetsOf(t)[m] = Reader!SetOf(t, m)
    BY <2>2 DEF ValuesOf, SetsOf
  <2> QED
    BY <2>1, <2>3 DEF Listed
<1> QED
  BY <1>1, <1>2, <1>3, <1>4, <1>5, ReaderCounts DEF Reader!IsMeant

(* The sets of a file are a tree: every set but the root has been made     *)
(* after its parent, which holds it at one place.                          *)
Holds(h, b, k, n, c) == n \in DOMAIN h[b].children[k] /\ h[b].children[k][n] = c
Tree(h, K) ==
  /\ K \in Nat \ {0} /\ DOMAIN h = 1 .. K /\ h[1].parent = 0
  /\ \A a \in 1 .. K : h[a] \in Reader!SetType(1 .. K)
  /\ \A c \in 2 .. K : /\ h[c].parent \in 1 .. c - 1
                       /\ \E k \in FileKeys, n \in Nat : Holds(h, h[c].parent, k, n, c)
  /\ \A b \in 1 .. K, k \in FileKeys, n \in Nat : \A c :
        Holds(h, b, k, n, c) => c \in 2 .. K /\ h[c].parent = b
  /\ \A b \in 1 .. K, k \in FileKeys, j \in FileKeys, n \in Nat, m \in Nat : \A c :
        Holds(h, b, k, n, c) /\ Holds(h, b, j, m, c) => k = j /\ n = m

(* The parts of a set, and what is made of one.                            *)
LEMMA SetParts ==
  ASSUME NEW S, NEW set \in Reader!SetType(S), NEW k \in FileKeys
  PROVE  /\ set.parent \in S \cup {0} /\ set.values[k] \in Seq(FileValues)
         /\ set.children[k] \in Seq(S)
  BY DEF Reader!SetType, Reader!NoSet

LEMMA LongerSeq ==
  ASSUME NEW S, NEW s \in Seq(S), NEW v \in S
  PROVE  Append(s, v) \in Seq(S)
  OBVIOUS

Makes(S, set, k, w, e) ==
  /\ e \in Reader!SetType(S) /\ SameLinks(set, e) /\ e.values[k] = w
  /\ \A j \in FileKeys : j # k => e.values[j] = set.values[j]

LEMMA SetWith ==
  ASSUME NEW S, NEW set \in Reader!SetType(S), NEW k \in FileKeys, NEW w \in Seq(FileValues),
         NEW e, e = [set EXCEPT !.values[k] = w]
  PROVE  Makes(S, set, k, w, e)
  BY DEF Reader!SetType, SameLinks, Makes

LEMMA InsertMakes ==
  ASSUME NEW S, NEW set \in Reader!SetType(S), NEW k \in FileKeys, NEW v \in FileValues
  PROVE  Makes(S, set, k, Append(set.values[k], v), Reader!Insert(set, k, v))
<1>1. PICK w : w = Append(set.values[k], v)
  OBVIOUS
<1>2. w \in Seq(FileValues)
  BY <1>1, SetParts, LongerSeq
<1>3. PICK e : e = [set EXCEPT !.values[k] = w]
  OBVIOUS
<1>4. Reader!Insert(set, k, v) = e
  BY <1>1, <1>3 DEF Reader!Insert
<1>5. Makes(S, set, k, w, e)
  BY <1>2, <1>3, SetWith, Zenon
<1> QED
  BY <1>1, <1>4, <1>5, Zenon

LEMMA EraseMakes ==
  ASSUME NEW S, NEW set \in Reader!SetType(S), NEW k \in FileKeys
  PROVE  Reader!Erase(set, k) \in Reader!SetType(S) /\ SameLinks(set, Reader!Erase(set, k))
<1>1. PICK w : w = <<>>
  OBVIOUS
<1>4. w \in Seq(FileValues)
  BY <1>1
<1>2. PICK e : e = [set EXCEPT !.values[k] = w]
  OBVIOUS
<1>3. Reader!Erase(set, k) = e
  BY <1>1, <1>2 DEF Reader!Erase
<1>5. Makes(S, set, k, w, e)
  BY <1>2, <1>4, SetWith, Zenon
<1> QED
  BY <1>3, <1>5, Zenon DEF Makes

LEMMA ReplaceMakes ==
  ASSUME NEW S, NEW set \in Reader!SetType(S), NEW k \in FileKeys, NEW v \in FileValues
  PROVE  Reader!Replace(set, k, v) \in Reader!SetType(S) /\ SameLinks(set, Reader!Replace(set, k, v))
<1>1. PICK e : e = Reader!Erase(set, k)
  OBVIOUS
<1>2. e \in Reader!SetType(S) /\ SameLinks(set, e)
  BY <1>1, EraseMakes
<1>3. Reader!Insert(e, k, v) \in Reader!SetType(S) /\ SameLinks(e, Reader!Insert(e, k, v))
  BY <1>2, InsertMakes, Zenon DEF Makes
<1>4. Reader!Replace(set, k, v) = Reader!Insert(e, k, v)
  BY <1>1 DEF Reader!Replace
<1> QED
  BY <1>2, <1>3, <1>4 DEF SameLinks

(* A tree whose values change,                                             *)
LEMMA TreeSame ==
  ASSUME NEW h, NEW K, Tree(h, K), NEW g, DOMAIN g = DOMAIN h,
         \A b \in DOMAIN h : g[b] \in Reader!SetType(1 .. K) /\ SameLinks(h[b], g[b])
  PROVE  Tree(g, K)
<1>1. K \in Nat \ {0} /\ DOMAIN h = 1 .. K /\ DOMAIN g = 1 .. K
  BY DEF Tree
<1>2. \A b \in 1 .. K : /\ g[b] \in Reader!SetType(1 .. K) /\ g[b].parent = h[b].parent
                        /\ \A k \in FileKeys : g[b].children[k] = h[b].children[k]
  BY <1>1 DEF SameLinks
<1>3. \A b \in 1 .. K, k \in FileKeys : \A n, c : Holds(g, b, k, n, c) <=> Holds(h, b, k, n, c)
  BY <1>2 DEF Holds
<1>4. 1 \in 1 .. K /\ \A c \in 2 .. K : c \in 1 .. K /\ \A p \in 1 .. c - 1 : p \in 1 .. K
  BY <1>1
<1>5. g[1].parent = 0
  BY <1>2, <1>4 DEF Tree
<1>6. ASSUME NEW c \in 2 .. K
      PROVE  /\ g[c].parent \in 1 .. c - 1
             /\ \E k \in FileKeys, n \in Nat : Holds(g, g[c].parent, k, n, c)
  <2>1. PICK k \in FileKeys, n \in Nat : h[c].parent \in 1 .. c - 1 /\ Holds(h, h[c].parent, k, n, c)
    BY DEF Tree
  <2>2. g[c].parent = h[c].parent /\ h[c].parent \in 1 .. K
    BY <1>2, <1>4, <2>1
  <2>3. Holds(g, g[c].parent, k, n, c)
    BY <1>3, <2>1, <2>2
  <2> QED
    BY <2>1, <2>2, <2>3
<1>7. ASSUME NEW b \in 1 .. K, NEW k \in FileKeys, NEW n \in Nat, NEW c, Holds(g, b, k, n, c)
      PROVE  c \in 2 .. K /\ g[c].parent = b
  <2>1. Holds(h, b, k, n, c)
    BY <1>3, <1>7
  <2>2. c \in 2 .. K /\ h[c].parent = b
    BY <2>1 DEF Tree
  <2> QED
    BY <1>2, <1>4, <2>2
<1>8. ASSUME NEW b \in 1 .. K, NEW k \in FileKeys, NEW j \in FileKeys, NEW n \in Nat, NEW m \in Nat,
             NEW c, Holds(g, b, k, n, c), Holds(g, b, j, m, c)
      PROVE  k = j /\ n = m
  <2>1. Holds(h, b, k, n, c) /\ Holds(h, b, j, m, c)
    BY <1>3, <1>8
  <2> QED
    BY <2>1 DEF Tree
<1>9. \A b \in 1 .. K : g[b] \in Reader!SetType(1 .. K)
  BY <1>2
<1> QED
  BY <1>1, <1>5, <1>6, <1>7, <1>8, <1>9 DEF Tree

(* a tree to which a set is added,                                         *)
LEMMA AppendedHolds ==
  ASSUME NEW S, NEW s \in Seq(S), NEW x
  PROVE  \A n, c : n \in DOMAIN Append(s, x) /\ Append(s, x)[n] = c
                     <=> (n \in DOMAIN s /\ s[n] = c) \/ (n = Len(s) + 1 /\ c = x)
<1>1. PICK r : r = Append(s, x)
  OBVIOUS
<1>2. PICK N \in Nat : N = Len(s) /\ DOMAIN s = 1 .. N
  OBVIOUS
<1>3. DOMAIN r = 1 .. N + 1 /\ (\A n \in 1 .. N : r[n] = s[n]) /\ r[N + 1] = x
  BY <1>1, <1>2
<1>4. \A n : n \in 1 .. N + 1 <=> n \in 1 .. N \/ n = N + 1
  OBVIOUS
<1>5. N + 1 \notin 1 .. N
  OBVIOUS
<1> QED
  BY <1>1, <1>2, <1>3, <1>4, <1>5

LEMMA TreeMore ==
  ASSUME NEW h, NEW K, Tree(h, K), NEW g, NEW a \in 1 .. K, NEW k \in FileKeys,
         SetAdded(h, g, a, k, K + 1), \A b \in 1 .. K + 1 : g[b] \in Reader!SetType(1 .. K + 1)
  PROVE  Tree(g, K + 1)
<1>1. K \in Nat \ {0} /\ DOMAIN h = 1 .. K /\ DOMAIN g = 1 .. K \cup {K + 1}
  BY DEF Tree, SetAdded
<1>2. /\ \A b : b \in 1 .. K + 1 <=> b \in 1 .. K \/ b = K + 1
      /\ \A b : b \in 2 .. K + 1 <=> b \in 2 .. K \/ b = K + 1
      /\ K + 1 \notin 1 .. K /\ K + 1 \in 2 .. K + 1 /\ 1 .. (K + 1) - 1 = 1 .. K /\ 1 \in 1 .. K
      /\ \A c \in 2 .. K : c \in 1 .. K /\ \A p \in 1 .. c - 1 : p \in 1 .. K
  BY <1>1
<1>3. DOMAIN g = 1 .. K + 1
  BY <1>1, <1>2
<1>4. PICK s : s = h[a].children[k] /\ s \in Seq(1 .. K)
  BY SetParts DEF Tree
<1>5. PICK N \in Nat : N = Len(s) + 1
  BY <1>4
<1>6. /\ \A b \in 1 .. K : g[b].parent = h[b].parent
      /\ g[K + 1].parent = a
  BY <1>1 DEF SetAdded
<1>7. \A b \in 1 .. K + 1, j \in FileKeys : \A n, c :
         Holds(g, b, j, n, c) <=> \/ b \in 1 .. K /\ Holds(h, b, j, n, c)
                                  \/ b = a /\ j = k /\ n = N /\ c = K + 1
  <2> SUFFICES ASSUME NEW b \in 1 .. K + 1, NEW j \in FileKeys, NEW n, NEW c
               PROVE  Holds(g, b, j, n, c) <=> \/ b \in 1 .. K /\ Holds(h, b, j, n, c)
                                               \/ b = a /\ j = k /\ n = N /\ c = K + 1
    OBVIOUS
  <2>1. CASE b = a /\ j = k
    <3>1. g[a].children[k] = Append(s, K + 1)
      BY <1>4 DEF SetAdded
    <3>2. n \in DOMAIN Append(s, K + 1) /\ Append(s, K + 1)[n] = c
            <=> (n \in DOMAIN s /\ s[n] = c) \/ (n = Len(s) + 1 /\ c = K + 1)
      BY <1>4, AppendedHolds
    <3> QED
      BY <1>4, <1>5, <2>1, <3>1, <3>2 DEF Holds
  <2>2. CASE b \in 1 .. K /\ ~(b = a /\ j = k)
    <3>1. g[b].children[j] = h[b].children[j]
      BY <1>1, <2>2 DEF SetAdded, SameLinks
    <3> QED
      BY <2>2, <3>1 DEF Holds
  <2>3. CASE b = K + 1
    <3>1. g[b].children[j] = <<>>
      BY <2>3 DEF SetAdded
    <3>2. DOMAIN g[b].children[j] = {}
      BY <3>1
    <3> QED
      BY <1>2, <2>3, <3>2 DEF Holds
  <2> QED
    BY <1>2, <2>1, <2>2, <2>3
<1>8. g[1].parent = 0
  BY <1>2, <1>6 DEF Tree
<1>9. ASSUME NEW c \in 2 .. K + 1
      PROVE  /\ g[c].parent \in 1 .. c - 1
             /\ \E j \in FileKeys, n \in Nat : Holds(g, g[c].parent, j, n, c)
  <2>1. CASE c \in 2 .. K
    <3>1. PICK j \in FileKeys, n \in Nat : h[c].parent \in 1 .. c - 1 /\ Holds(h, h[c].parent, j, n, c)
      BY <2>1 DEF Tree
    <3>2. g[c].parent = h[c].parent /\ h[c].parent \in 1 .. K /\ h[c].parent \in 1 .. K + 1
      BY <1>2, <1>6, <2>1, <3>1
    <3>3. Holds(g, g[c].parent, j, n, c)
      BY <1>7, <3>1, <3>2
    <3> QED
      BY <3>1, <3>2, <3>3
  <2>2. CASE c = K + 1
    <3>1. g[c].parent = a /\ a \in 1 .. c - 1 /\ a \in 1 .. K + 1
      BY <1>2, <1>6, <2>2
    <3>2. Holds(g, g[c].parent, k, N, c)
      BY <1>7, <2>2, <3>1
    <3> QED
      BY <3>1, <3>2
  <2> QED
    BY <1>2, <2>1, <2>2
<1>10. ASSUME NEW b \in 1 .. K + 1, NEW j \in FileKeys, NEW n \in Nat, NEW c, Holds(g, b, j, n, c)
       PROVE  c \in 2 .. K + 1 /\ g[c].parent = b
  <2>1. CASE b \in 1 .. K /\ Holds(h, b, j, n, c)
    <3>1. c \in 2 .. K /\ h[c].parent = b
      BY <2>1 DEF Tree
    <3> QED
      BY <1>2, <1>6, <3>1
  <2>2. CASE b = a /\ c = K + 1
    BY <1>2, <1>6, <2>2
  <2> QED
    BY <1>7, <1>10, <2>1, <2>2
<1>11. ASSUME NEW b \in 1 .. K + 1, NEW j \in FileKeys, NEW f \in FileKeys, NEW n \in Nat, NEW m \in Nat,
              NEW c, Holds(g, b, j, n, c), Holds(g, b, f, m, c)
       PROVE  j = f /\ n = m
  <2>1. CASE c = K + 1
    <3>1. \A d \in FileKeys, e \in Nat : b \in 1 .. K => ~Holds(h, b, d, e, c)
      BY <1>2, <2>1 DEF Tree
    <3> QED
      BY <1>7, <1>11, <3>1
  <2>2. CASE c # K + 1
    <3>1. b \in 1 .. K /\ Holds(h, b, j, n, c) /\ Holds(h, b, f, m, c)
      BY <1>7, <1>11, <2>2
    <3> QED
      BY <3>1 DEF Tree
  <2> QED
    BY <2>1, <2>2
<1>12. K + 1 \in Nat \ {0}
  BY <1>1
<1> QED
  BY <1>3, <1>8, <1>9, <1>10, <1>11, <1>12 DEF Tree

(* and the tree of the root alone.                                         *)
LEMMA RootAlone ==
  ASSUME NEW h, h = Reader!NewAt(Reader!NoHeap, Reader!Root, Reader!NoSet)
  PROVE  /\ Tree(h, 1) /\ h[1].parent = 0
         /\ \A k \in FileKeys : h[1].values[k] = <<>> /\ h[1].children[k] = <<>>
<1>1. PICK e : e = Reader!EmptySet(0)
  OBVIOUS
<1>2. /\ e \in Reader!SetType(1 .. 1) /\ e.parent = 0
      /\ \A k \in FileKeys : e.values[k] = <<>> /\ e.children[k] = <<>>
  <2>1. <<>> \in Seq(FileValues) /\ <<>> \in Seq(1 .. 1)
    OBVIOUS
  <2> QED
    BY <1>1, <2>1 DEF Reader!EmptySet, Reader!SetType, Reader!NoSet
<1>3. DOMAIN Reader!NoHeap = {}
  BY DEF Reader!NoHeap
<1>4. DOMAIN h = {1} /\ h[1] = e
  BY <1>1, <1>3 DEF Reader!NewAt, Reader!Root, Reader!NoSet
<1>5. 1 .. 1 = {1} /\ 2 .. 1 = {}
  OBVIOUS
<1>6. \A b \in 1 .. 1, k \in FileKeys : \A n, c : ~Holds(h, b, k, n, c)
  <2>1. DOMAIN <<>> = {}
    OBVIOUS
  <2> QED
    BY <1>2, <1>4, <1>5, <2>1 DEF Holds
<1>7. Tree(h, 1)
  BY <1>2, <1>4, <1>5, <1>6 DEF Tree
<1> QED
  BY <1>2, <1>4, <1>7

(* Deleting the root frees all the sets: a set is freed with its parent.   *)
LEMMA TreeFreed ==
  ASSUME NEW h, NEW K, Tree(h, K)
  PROVE  Reader!Delete(h, Reader!Root) = Reader!NoHeap
<1>1. K \in Nat \ {0} /\ DOMAIN h = 1 .. K
  BY DEF Tree
<1>2. ASSUME NEW S \in SUBSET DOMAIN h, 1 \in S,
             \A c \in S : Reader!ChildrenOf(h[c]) \subseteq S,
             NEW b \in DOMAIN h
      PROVE  b \in S
  <2> DEFINE out == {x \in Nat : x \in 1 .. K /\ x \notin S}
  <2> SUFFICES ASSUME b \notin S PROVE FALSE
    OBVIOUS
  <2>1. out \in SUBSET Nat /\ out # {}
    BY <1>1
  <2>2. \A x : x \in out <=> x \in 1 .. K /\ x \notin S
    BY <1>1
  <2> HIDE DEF out
  <2>3. PICK c \in out : \A x \in out : c <= x
    BY <2>1, SmallestNumber
  <2>4. c \in 2 .. K /\ c \notin S
    BY <1>1, <1>2, <2>2, <2>3
  <2>5. PICK k \in FileKeys, n \in Nat : h[c].parent \in 1 .. c - 1 /\ Holds(h, h[c].parent, k, n, c)
    BY <2>4 DEF Tree
  <2>9. PICK p \in 1 .. c - 1 : p = h[c].parent
    BY <2>5
  <2>6. p \in 1 .. K /\ ~(c <= p)
    BY <1>1, <2>4, <2>9
  <2>7. p \in S
    BY <2>2, <2>3, <2>6, <2>9
  <2>8. c \in Reader!ChildrenOf(h[p])
    BY <2>5, <2>9 DEF Holds, Reader!ChildrenOf
  <2> QED
    BY <1>2, <2>4, <2>7, <2>8, Zenon
<1>3. Reader!Freed(h, Reader!Root) = DOMAIN h
  BY <1>2 DEF Reader!Freed, Reader!Root
<1>4. DOMAIN h \ Reader!Freed(h, Reader!Root) = {}
  BY <1>3
<1> QED
  BY <1>4 DEF Reader!Delete, Reader!NoHeap

(* A tree is owned once.                                                   *)
LEMMA TreeOwned ==
  ASSUME NEW K, Tree(heap, K), NEW c \in DOMAIN heap
  PROVE  IF c = Reader!Root THEN Reader!Places(c) = {}
         ELSE \E at \in Reader!Places(c) : at[1] = heap[c].parent /\ Reader!Places(c) = {at}
<1>1. K \in Nat \ {0} /\ DOMAIN heap = 1 .. K
  BY DEF Tree
<1>2. \A b \in 1 .. K, k \in FileKeys : \A n \in DOMAIN heap[b].children[k] : n \in Nat
  <2> SUFFICES ASSUME NEW b \in 1 .. K, NEW k \in FileKeys, NEW n \in DOMAIN heap[b].children[k]
               PROVE  n \in Nat
    OBVIOUS
  <2>1. heap[b].children[k] \in Seq(1 .. K)
    BY SetParts DEF Tree
  <2> QED
    BY <2>1
<1>3. \A x : x \in Reader!Places(c) <=>
             \E b \in 1 .. K, k \in FileKeys, n \in Nat : Holds(heap, b, k, n, c) /\ x = <<b, k, n>>
  <2> DEFINE At(b, k) == {<<b, k, n>> : n \in {m \in DOMAIN heap[b].children[k] : heap[b].children[k][m] = c}}
  <2>1. Reader!Places(c) = UNION {At(b, k) : b \in 1 .. K, k \in FileKeys}
    BY <1>1 DEF Reader!Places
  <2>2. \A b, k : \A x : x \in At(b, k) <=>
            \E n \in DOMAIN heap[b].children[k] : heap[b].children[k][n] = c /\ x = <<b, k, n>>
    OBVIOUS
  <2>3. \A b \in 1 .. K, k \in FileKeys : \A x : x \in At(b, k) <=>
            \E n \in Nat : Holds(heap, b, k, n, c) /\ x = <<b, k, n>>
    BY <1>2, <2>2 DEF Holds
  <2> HIDE DEF At
  <2> QED
    BY <2>1, <2>3
<1>4. CASE c = Reader!Root
  <2>1. \A b \in 1 .. K, k \in FileKeys, n \in Nat : ~Holds(heap, b, k, n, c)
    <3>1. c \notin 2 .. K
      BY <1>4 DEF Reader!Root
    <3> QED
      BY <3>1 DEF Tree
  <2>2. \A x : x \notin Reader!Places(c)
    BY <1>3, <2>1
  <2> QED
    BY <1>4, <2>2
<1>5. CASE c # Reader!Root
  <2>1. c \in 2 .. K
    BY <1>1, <1>5 DEF Reader!Root
  <2>2. PICK p : p = heap[c].parent /\ p \in 1 .. K
    BY <2>1 DEF Tree
  <2>3. PICK k \in FileKeys, n \in Nat : Holds(heap, p, k, n, c)
    BY <2>1, <2>2 DEF Tree
  <2>4. PICK at : at = <<p, k, n>>
    OBVIOUS
  <2>5. at \in Reader!Places(c) /\ at[1] = p
    BY <1>3, <2>2, <2>3, <2>4
  <2>6. ASSUME NEW x \in Reader!Places(c) PROVE x = at
    <3>1. PICK b \in 1 .. K, j \in FileKeys, m \in Nat : Holds(heap, b, j, m, c) /\ x = <<b, j, m>>
      BY <1>3, <2>6
    <3>2. b = p
      BY <2>2, <3>1 DEF Tree
    <3>3. j = k /\ m = n
      BY <2>2, <2>3, <3>1, <3>2 DEF Tree
    <3> QED
      BY <2>4, <3>1, <3>2, <3>3
  <2>7. Reader!Places(c) = {at}
    BY <2>5, <2>6
  <2> QED
    BY <1>5, <2>2, <2>5, <2>7
<1> QED
  BY <1>4, <1>5

LEMMA TreeKnown ==
  ASSUME NEW h, NEW K, Tree(h, K)
  PROVE  HeapKnown(h, K)
  BY SetParts DEF Tree, HeapKnown, SetKnownIn

(* Sets keep their types when there is one more address.                   *)
LEMMA SetTypeGrows ==
  ASSUME NEW K \in Nat, NEW set \in Reader!SetType(1 .. K)
  PROVE  set \in Reader!SetType(1 .. K + 1)
<1>1. \A n \in 1 .. K : n \in 1 .. K + 1
  OBVIOUS
<1>2. set.parent \in 1 .. K + 1 \cup {0}
  BY <1>1 DEF Reader!SetType, Reader!NoSet
<1>3. \A k \in FileKeys : set.children[k] \in Seq(1 .. K + 1)
  <2> SUFFICES ASSUME NEW k \in FileKeys PROVE set.children[k] \in Seq(1 .. K + 1)
    OBVIOUS
  <2>1. PICK s \in Seq(1 .. K) : s = set.children[k]
    BY DEF Reader!SetType
  <2>2. Len(s) \in Nat /\ DOMAIN s = 1 .. Len(s) /\ \A n \in 1 .. Len(s) : s[n] \in 1 .. K
    OBVIOUS
  <2>3. \A n \in 1 .. Len(s) : s[n] \in 1 .. K + 1
    BY <1>1, <2>2
  <2>4. s \in Seq(1 .. K + 1)
    BY <1>1
  <2> QED
    BY <2>1, <2>4
<1> QED
  BY <1>2, <1>3 DEF Reader!SetType, Reader!NoSet

MakesChild(S, set, k, c, e) ==
  /\ e \in Reader!SetType(S) /\ e.parent = set.parent /\ SameValues(set, e)
  /\ e.children[k] = Append(set.children[k], c)
  /\ \A j \in FileKeys : j # k => e.children[j] = set.children[j]

LEMMA InsertChildMakes ==
  ASSUME NEW S, NEW set \in Reader!SetType(S), NEW k \in FileKeys, NEW c \in S, NEW e,
         e = Reader!InsertChild(set, k, c)
  PROVE  MakesChild(S, set, k, c, e)
<1>1. PICK w : w = Append(set.children[k], c)
  OBVIOUS
<1>2. w \in Seq(S)
  BY <1>1, SetParts, LongerSeq
<1>3. e = [set EXCEPT !.children[k] = w]
  BY <1>1 DEF Reader!InsertChild
<1>4. /\ e \in Reader!SetType(S) /\ e.parent = set.parent /\ SameValues(set, e)
      /\ e.children[k] = w
      /\ \A j \in FileKeys : j # k => e.children[j] = set.children[j]
  BY <1>2, <1>3 DEF Reader!SetType, SameValues
<1> QED
  BY <1>1, <1>4, Zenon DEF MakesChild

LEMMA NewSetMakes ==
  ASSUME NEW h, NEW K, Tree(h, K), NEW a \in 1 .. K, NEW k \in FileKeys,
         NEW g, g = Reader!NewSetIn(h, a, k, K + 1)
  PROVE  SetAdded(h, g, a, k, K + 1) /\ Tree(g, K + 1)
<1>1. K \in Nat \ {0} /\ DOMAIN h = 1 .. K /\ \A b \in 1 .. K : h[b] \in Reader!SetType(1 .. K)
  BY DEF Tree
<1>2. PICK e : e = Reader!EmptySet(a)
  OBVIOUS
<1>3. /\ e \in Reader!SetType(1 .. K + 1) /\ e.parent = a
      /\ \A j \in FileKeys : e.values[j] = <<>> /\ e.children[j] = <<>>
  <2>1. <<>> \in Seq(FileValues) /\ <<>> \in Seq(1 .. K + 1)
    OBVIOUS
  <2>2. a \in 1 .. K + 1
    BY <1>1
  <2> QED
    BY <1>2, <2>1, <2>2 DEF Reader!EmptySet, Reader!SetType, Reader!NoSet
<1>4. PICK f : f = Reader!NewAt(h, K + 1, a)
  OBVIOUS
<1>5. K + 1 \notin 1 .. K
  BY <1>1
<1>6. /\ DOMAIN f = 1 .. K \cup {K + 1} /\ f[K + 1] = e
      /\ \A b \in 1 .. K : f[b] = h[b]
  BY <1>1, <1>2, <1>4, <1>5 DEF Reader!NewAt
<1>7. PICK d : d = Reader!InsertChild(f[a], k, K + 1)
  OBVIOUS
<1>8. g = [f EXCEPT ![a] = d]
  BY <1>4, <1>7 DEF Reader!NewSetIn
<1>9. /\ DOMAIN g = 1 .. K \cup {K + 1} /\ g[K + 1] = e /\ g[a] = d
      /\ \A b \in 1 .. K : b # a => g[b] = h[b]
  BY <1>5, <1>6, <1>8
<1>10. \A b \in 1 .. K : h[b] \in Reader!SetType(1 .. K + 1)
  BY <1>1, SetTypeGrows
<1>11. K + 1 \in 1 .. K + 1
  BY <1>1
<1>12. f[a] = h[a] /\ f[a] \in Reader!SetType(1 .. K + 1)
  BY <1>6, <1>10
<1>13. /\ d \in Reader!SetType(1 .. K + 1) /\ d.parent = h[a].parent /\ SameValues(h[a], d)
       /\ d.children[k] = Append(h[a].children[k], K + 1)
       /\ \A j \in FileKeys : j # k => d.children[j] = h[a].children[j]
  <2>1. MakesChild(1 .. K + 1, f[a], k, K + 1, d)
    BY <1>7, <1>11, <1>12, InsertChildMakes, Zenon
  <2> QED
    BY <1>12, <2>1, Zenon DEF MakesChild
<1>14. SetAdded(h, g, a, k, K + 1)
  BY <1>1, <1>3, <1>9, <1>13 DEF SetAdded, SameValues, SameLinks
<1>15. \A b \in 1 .. K + 1 : g[b] \in Reader!SetType(1 .. K + 1)
  <2>1. \A b \in 1 .. K + 1 : b \in 1 .. K \/ b = K + 1
    BY <1>1
  <2> QED
    BY <1>3, <1>9, <1>10, <1>13, <2>1
<1> QED
  BY <1>14, <1>15, TreeMore

(* One set of a tree is given another's values.                            *)
SetsOne(h, K, a, e, g) ==
  /\ Tree(g, K) /\ DOMAIN g = DOMAIN h /\ g[a] = e
  /\ \A b \in DOMAIN h : b # a => g[b] = h[b]

LEMMA OneSetSame ==
  ASSUME NEW h, NEW K, Tree(h, K), NEW a \in 1 .. K,
         NEW e \in Reader!SetType(1 .. K), SameLinks(h[a], e), NEW g, g = [h EXCEPT ![a] = e]
  PROVE  SetsOne(h, K, a, e, g)
<1>1. DOMAIN h = 1 .. K /\ \A b \in 1 .. K : h[b] \in Reader!SetType(1 .. K)
  BY DEF Tree
<1>2. /\ DOMAIN g = DOMAIN h /\ g[a] = e
      /\ \A b \in DOMAIN h : b # a => g[b] = h[b]
  BY <1>1
<1>3. \A b \in DOMAIN h : g[b] \in Reader!SetType(1 .. K) /\ SameLinks(h[b], g[b])
  BY <1>1, <1>2 DEF SameLinks
<1>4. Tree(g, K)
  BY <1>2, <1>3, TreeSame
<1> QED
  BY <1>2, <1>4, Zenon DEF SetsOne

LEMMA ValueMakes ==
  ASSUME NEW h, NEW K, Tree(h, K), NEW a \in 1 .. K, NEW k \in FileKeys, NEW v \in FileValues,
         NEW g, g = [h EXCEPT ![a] = Reader!Insert(h[a], k, v)]
  PROVE  ValueAdded(h, g, a, k, v) /\ Tree(g, K)
<1>1. DOMAIN h = 1 .. K /\ h[a] \in Reader!SetType(1 .. K)
  BY DEF Tree
<1>2. PICK e : e = Reader!Insert(h[a], k, v)
  OBVIOUS
<1>3. Makes(1 .. K, h[a], k, Append(h[a].values[k], v), e)
  BY <1>1, <1>2, InsertMakes, Zenon
<1>4. e \in Reader!SetType(1 .. K) /\ SameLinks(h[a], e)
  BY <1>3 DEF Makes
<1>5. g = [h EXCEPT ![a] = e]
  BY <1>2
<1>6. /\ Tree(g, K) /\ DOMAIN g = DOMAIN h /\ g[a] = e
      /\ \A b \in DOMAIN h : b # a => g[b] = h[b]
  <2>1. SetsOne(h, K, a, e, g)
    BY <1>4, <1>5, OneSetSame, Zenon
  <2> QED
    BY <2>1, Zenon DEF SetsOne
<1>7. \A b \in DOMAIN h : SameLinks(h[b], g[b]) /\ (b # a => SameValues(h[b], g[b]))
  BY <1>4, <1>6 DEF SameLinks, SameValues
<1>8. /\ g[a].values[k] = Append(h[a].values[k], v)
      /\ \A j \in FileKeys : j # k => g[a].values[j] = h[a].values[j]
  BY <1>3, <1>6, Zenon DEF Makes
<1> QED
  BY <1>6, <1>7, <1>8, Zenon DEF ValueAdded

(* The next address.                                                       *)
LEMMA FreshIs ==
  ASSUME NEW K, Tree(heap, K), K < MaxLines + MaxSets + 1
  PROVE  Reader!Fresh = K + 1
<1>1. K \in Nat \ {0} /\ DOMAIN heap = 1 .. K /\ MaxLines \in Nat /\ MaxSets \in Nat
  BY FileAssumption DEF Tree
<1>2. PICK U : U = Reader!Addresses \ DOMAIN heap
  OBVIOUS
<1>3. \A n : n \in U <=> n \in 1 .. (MaxLines + MaxSets + 1) /\ n \notin 1 .. K
  BY <1>1, <1>2 DEF Reader!Addresses
<1>4. K + 1 \in U /\ \A n \in U : K + 1 <= n
  BY <1>1, <1>3
<1>5. Reader!Fresh = CHOOSE n \in U : \A m \in U : n <= m
  BY <1>2 DEF Reader!Fresh
<1>6. PICK f : f = Reader!Fresh
  OBVIOUS
<1>7. f \in U /\ \A m \in U : f <= m
  BY <1>4, <1>5, <1>6
<1>8. f \in Nat /\ f <= K + 1 /\ K + 1 <= f
  BY <1>1, <1>3, <1>4, <1>7
<1> QED
  BY <1>1, <1>6, <1>8

(* The lines, one kind after the other.                                    *)
IsLine(l) ==
  /\ l.kind \in {"blank", "open", "close", "malformed", "name", "name open", "attribute"}
  /\ l.kind \in {"name", "name open", "attribute"} => l.key \in FileKeys
  /\ l.kind = "attribute" => l.value \in FileValues

LEMMA LinesAre == ASSUME NEW l \in Reader!Lines PROVE IsLine(l)
  BY DEF Reader!Lines, IsLine

(* Which lines may come next, and whether a bracket is looked for then.    *)
LegalNext(t, l) ==
  \/ l.kind = "blank"
  \/ l.kind = "open" /\ Reader!Waiting(t, Len(t) + 1)
  \/ l.kind = "close" /\ ~Reader!Waiting(t, Len(t) + 1) /\ Reader!Depth(t, Len(t) + 1) > 0
  \/ l.kind \in {"name", "name open", "attribute"} /\ ~Reader!Waiting(t, Len(t) + 1)
WaitingNext(t, l) == l.kind = "name" \/ (l.kind = "blank" /\ Reader!Waiting(t, Len(t) + 1))

LEMMA LegalIs ==
  ASSUME NEW t \in Text, NEW l \in Reader!Lines, NEW r, r = Append(t, l)
  PROVE  /\ Reader!Legal(r, Len(t) + 1) <=> LegalNext(t, l)
         /\ \A m \in 1 .. Len(t) : Reader!Legal(r, m) = Reader!Legal(t, m)
         /\ Reader!Waiting(r, Len(t) + 2) <=> WaitingNext(t, l)
<1>1. PICK n \in Nat : n = Len(t)
  BY DEF Text
<1>2. Len(r) = n + 1 /\ r[n + 1] = l /\ \A m \in 1 .. n : r[m] = t[m]
  BY <1>1 DEF Text
<1>3. Agree(t, r, n)
  BY <1>2 DEF Agree
<1>4. n + 1 \in 1 .. n + 1
  OBVIOUS
<1>5. Reader!Waiting(r, n + 1) = Reader!Waiting(t, n + 1) /\ Reader!Depth(r, n + 1) = Reader!Depth(t, n + 1)
  BY <1>3, <1>4, SameStart, Zenon
<1>6. \A m \in 1 .. n : Reader!Legal(r, m) = Reader!Legal(t, m)
  BY <1>3, SamePlace, Zenon
<1>7. IsLine(l)
  BY LinesAre
<1>8. Reader!Legal(r, n + 1) <=> LegalNext(t, l)
  <2>1. PICK W \in BOOLEAN : W <=> Reader!Waiting(t, n + 1)
    OBVIOUS
  <2>2. Reader!Waiting(r, n + 1) = W /\ Reader!Waiting(t, n + 1) = W
    BY <1>5, <2>1 DEF Reader!Waiting
  <2>3. PICK d : d = Reader!Depth(t, n + 1)
    OBVIOUS
  <2>4. Reader!Legal(r, n + 1) <=>
          CASE l.kind = "blank" -> TRUE
            [] l.kind = "open" -> W
            [] l.kind = "malformed" -> FALSE
            [] l.kind = "close" -> ~W /\ d > 0
            [] OTHER -> ~W
    BY <1>2, <1>5, <2>2, <2>3 DEF Reader!Legal
  <2>5. LegalNext(t, l) <=>
          \/ l.kind = "blank"
          \/ l.kind = "open" /\ W
          \/ l.kind = "close" /\ ~W /\ d > 0
          \/ l.kind \in {"name", "name open", "attribute"} /\ ~W
    BY <1>1, <2>1, <2>3 DEF LegalNext
  <2> QED
    BY <1>7, <2>4, <2>5 DEF IsLine
<1>9. Reader!Waiting(r, n + 2) <=> WaitingNext(t, l)
  <2>1. (n + 2) - 1 = n + 1 /\ (n + 1) - 1 = n
    OBVIOUS
  <2>2. Reader!Waiting(r, n + 2) <=>
          \E j \in 1 .. n + 1 : r[j].kind = "name" /\ \A m \in j + 1 .. n + 1 : r[m].kind = "blank"
    BY <2>1 DEF Reader!Waiting
  <2>3. Reader!Waiting(t, n + 1) <=>
          \E j \in 1 .. n : t[j].kind = "name" /\ \A m \in j + 1 .. n : t[m].kind = "blank"
    BY <2>1 DEF Reader!Waiting
  <2>4. ASSUME Reader!Waiting(r, n + 2) PROVE WaitingNext(t, l)
    <3>1. PICK j \in 1 .. n + 1 : r[j].kind = "name" /\ \A m \in j + 1 .. n + 1 : r[m].kind = "blank"
      BY <2>2, <2>4
    <3>2. CASE j = n + 1
      BY <1>2, <3>1, <3>2 DEF WaitingNext
    <3>3. CASE j # n + 1
      <4>1. j \in 1 .. n /\ n + 1 \in j + 1 .. n + 1
        BY <3>3
      <4>2. l.kind = "blank"
        BY <1>2, <3>1, <4>1
      <4>3. \A m \in j + 1 .. n : m \in j + 1 .. n + 1 /\ m \in 1 .. n
        BY <4>1
      <4>4. t[j].kind = "name" /\ \A m \in j + 1 .. n : t[m].kind = "blank"
        BY <1>2, <3>1, <4>1, <4>3
      <4> QED
        BY <1>1, <2>3, <4>1, <4>2, <4>4 DEF WaitingNext
    <3> QED
      BY <3>2, <3>3
  <2>5. ASSUME WaitingNext(t, l) PROVE Reader!Waiting(r, n + 2)
    <3>1. CASE l.kind = "name"
      <4>1. \A m \in (n + 1) + 1 .. n + 1 : FALSE
        OBVIOUS
      <4>2. r[n + 1].kind = "name"
        BY <1>2, <3>1
      <4> QED
        BY <1>4, <2>2, <4>1, <4>2
    <3>2. CASE l.kind = "blank" /\ Reader!Waiting(t, n + 1)
      <4>1. PICK j \in 1 .. n : t[j].kind = "name" /\ \A m \in j + 1 .. n : t[m].kind = "blank"
        BY <2>3, <3>2
      <4>2. j \in 1 .. n + 1 /\ \A m \in j + 1 .. n + 1 : (m \in j + 1 .. n /\ m \in 1 .. n) \/ m = n + 1
        OBVIOUS
      <4>3. r[j].kind = "name" /\ \A m \in j + 1 .. n + 1 : r[m].kind = "blank"
        BY <1>2, <3>2, <4>1, <4>2
      <4> QED
        BY <2>2, <4>2, <4>3
    <3> QED
      BY <1>1, <2>5, <3>1, <3>2 DEF WaitingNext
  <2> QED
    BY <2>4, <2>5
<1> QED
  BY <1>1, <1>6, <1>8, <1>9

(* The text that has been read so far, and one more line of it.            *)
AllLegal(t) == \A m \in 1 .. Len(t) : Reader!Legal(t, m)
Good(t) == t \in Text /\ Len(t) <= MaxLines /\ AllLegal(t) /\ Deep(t)

LEMMA GoodNext ==
  ASSUME NEW t, Good(t), Len(t) < MaxLines, NEW l \in Reader!Lines, LegalNext(t, l)
  PROVE  Good(Append(t, l))
<1>1. PICK n \in Nat : n = Len(t)
  BY DEF Good, Text
<1>2. PICK r : r = Append(t, l)
  OBVIOUS
<1>3. t \in Text /\ r \in Text /\ Len(r) = n + 1 /\ r[n + 1] = l /\ \A m \in 1 .. n : r[m] = t[m]
  BY <1>1, <1>2 DEF Good, Text
<1>4. Agree(t, r, n)
  BY <1>3 DEF Agree
<1>5. Len(r) <= MaxLines
  BY <1>1, <1>3, FileAssumption
<1>6. AllLegal(r)
  <2>1. \A m \in 1 .. n + 1 : m \in 1 .. n \/ m = n + 1
    OBVIOUS
  <2>2. \A m \in 1 .. n : Reader!Legal(t, m)
    BY <1>1 DEF Good, AllLegal
  <2>3. Reader!Legal(r, Len(t) + 1) <=> LegalNext(t, l)
    BY <1>2, <1>3, LegalIs, Zenon
  <2>4. \A m \in 1 .. n : Reader!Legal(r, m) = Reader!Legal(t, m)
    BY <1>4, SamePlace, Zenon
  <2> QED
    BY <1>1, <1>3, <2>1, <2>2, <2>3, <2>4 DEF AllLegal
<1>7. Deep(r)
  <2>1. \A m \in 1 .. (n + 1) + 1 : m \in 1 .. n + 1 \/ m = n + 2
    OBVIOUS
  <2>2. \A m \in 1 .. n + 1 : Reader!Depth(t, m) >= 0
    BY <1>1 DEF Good, Deep
  <2>3. \A m \in 1 .. n + 1 : Reader!Depth(r, m) = Reader!Depth(t, m)
    BY <1>4, SameStart, Zenon
  <2>4. n + 1 \in 1 .. n + 1 /\ n + 1 \in Nat \ {0} /\ (n + 1) + 1 = n + 2
    OBVIOUS
  <2>5. /\ Reader!Depth(r, n + 1) \in Int
        /\ Reader!Depth(r, n + 2) = Reader!Depth(r, n + 1) + (IF Reader!Opens(r, n + 1) THEN 1 ELSE 0)
                                                       - (IF Reader!Closes(r, n + 1) THEN 1 ELSE 0)
    <3>1. /\ Reader!Depth(r, n + 1) \in Int
          /\ Reader!Depth(r, (n + 1) + 1) = Reader!Depth(r, n + 1) + (IF Reader!Opens(r, n + 1) THEN 1 ELSE 0)
                                                           - (IF Reader!Closes(r, n + 1) THEN 1 ELSE 0)
      BY <2>4, DepthIs
    <3> QED
      BY <2>4, <3>1
  <2>6. Reader!Depth(r, n + 1) >= 0
    BY <2>2, <2>3, <2>4
  <2>7. Reader!Closes(r, n + 1) => Reader!Depth(r, n + 1) > 0
    <3>1. Reader!Closes(r, n + 1) => l.kind = "close"
      BY <1>3 DEF Reader!Closes
    <3>2. l.kind = "close" => Reader!Depth(t, n + 1) > 0
      BY <1>1 DEF LegalNext
    <3> QED
      BY <2>3, <2>4, <3>1, <3>2
  <2>8. Reader!Depth(r, n + 2) >= 0
    BY <2>5, <2>6, <2>7
  <2> QED
    BY <1>3, <2>1, <2>2, <2>3, <2>8 DEF Deep
<1> QED
  BY <1>2, <1>3, <1>5, <1>6, <1>7 DEF Good

(* The set that is innermost, and the one around it.                       *)
LEMMA RootIsOutside ==
  ASSUME NEW t, Good(t), NEW h, NEW c \in DOMAIN h, Described(h, t), Tree(h, Reader!SetOf(t, Len(t))),
         Reader!Within(t, Len(t) + 1, c)
  PROVE  /\ h[c].parent = 0 <=> c = Reader!Root
         /\ c = Reader!Root => Reader!Depth(t, Len(t) + 1) = 0
         /\ c # Reader!Root => Reader!Depth(t, Len(t) + 1) > 0
<1>1. PICK n \in Nat : n = Len(t)
  BY DEF Good, Text
<1>2. PICK K \in Nat : K = Reader!SetOf(t, n) /\ K \in 1 .. n + 1
  BY SetsNumbered
<1>3. Tree(h, K) /\ DOMAIN h = 1 .. K
  BY <1>1, <1>2 DEF Tree
<1>4. c = Reader!Root => h[c].parent = 0
  BY <1>3 DEF Tree, Reader!Root
<1>5. c # Reader!Root => h[c].parent # 0
  <2>1. c # Reader!Root => c \in 2 .. K
    BY <1>3 DEF Reader!Root
  <2>2. \A x \in 2 .. K : 0 \notin 1 .. x - 1
    OBVIOUS
  <2>3. \A x \in 2 .. K : h[x].parent \in 1 .. x - 1
    BY <1>3 DEF Tree
  <2> QED
    BY <2>1, <2>2, <2>3
<1>6. c = Reader!Root => Reader!Depth(t, Len(t) + 1) = 0
  BY DEF Reader!Within
<1>7. ASSUME c # Reader!Root PROVE Reader!Depth(t, n + 1) > 0
  <2>1. PICK b \in 1 .. (n + 1) - 1 : Reader!Encloses(t, b, n + 1)
    BY <1>1, <1>7 DEF Reader!Within
  <2>2. b \in 1 .. n /\ b \in Nat \ {0} /\ b \in 1 .. Len(t) + 1
    BY <1>1, <2>1
  <2>3. Reader!Depth(t, b) \in Int
    BY <2>2, DepthIs
  <2>4. Reader!Depth(t, b) >= 0
    BY <2>2 DEF Good, Deep
  <2>5. Reader!Depth(t, n + 1) = Reader!Depth(t, b) + 1
    BY <2>1 DEF Reader!Encloses
  <2> QED
    BY <2>3, <2>4, <2>5
<1> QED
  BY <1>1, <1>4, <1>5, <1>6, <1>7

LEMMA ParentIsAround ==
  ASSUME NEW t, Good(t), NEW l \in Reader!Lines, l.kind = "close",
         NEW h, NEW c \in DOMAIN h, c # Reader!Root, Described(h, t), Tree(h, Reader!SetOf(t, Len(t))),
         Reader!Within(t, Len(t) + 1, c)
  PROVE  h[c].parent \in DOMAIN h /\ Reader!Within(Append(t, l), Len(t) + 2, h[c].parent)
<1>1. PICK n \in Nat : n = Len(t)
  BY DEF Good, Text
<1>2. PICK r : r = Append(t, l)
  OBVIOUS
<1>3. t \in Text /\ Len(r) = n + 1 /\ r[n + 1] = l /\ \A m \in 1 .. n : r[m] = t[m]
  BY <1>1, <1>2 DEF Good, Text
<1>4. Agree(t, r, n)
  BY <1>3 DEF Agree
<1>5. PICK b \in 1 .. (n + 1) - 1 : Reader!Encloses(t, b, n + 1) /\ Reader!SetOf(t, b) = c
  BY <1>1 DEF Reader!Within
<1>6. b \in 1 .. n /\ b \in 1 .. n + 1 /\ n + 1 \in 1 .. n + 1 /\ n + 1 \in Nat \ {0} /\ (n + 1) + 1 = n + 2
  BY <1>5
<1>7. Reader!Opens(t, b)
  BY <1>5 DEF Reader!Encloses
<1>8. Reader!Within(t, b, h[c].parent)
  BY <1>1, <1>5, <1>6, <1>7 DEF Described
<1>9. Reader!Within(r, b, h[c].parent)
  BY <1>4, <1>6, <1>8, SamePlace, Zenon
<1>10. Reader!Encloses(r, b, n + 1)
  BY <1>4, <1>5, <1>6, SamePlace, Zenon
<1>11. Reader!Closes(r, n + 1)
  BY <1>3 DEF Reader!Closes
<1>12. Reader!Within(r, n + 2, h[c].parent)
  <2>1. Reader!Within(r, (n + 1) + 1, h[c].parent)
    BY <1>5, <1>6, <1>9, <1>10, <1>11, BehindClosing
  <2> QED
    BY <1>6, <2>1
<1>13. h[c].parent \in DOMAIN h
  <2>1. PICK K \in Nat : K = Reader!SetOf(t, n) /\ K \in 1 .. n + 1
    BY SetsNumbered
  <2>2. Tree(h, K) /\ DOMAIN h = 1 .. K
    BY <1>1, <2>1 DEF Tree
  <2>3. c \in 2 .. K
    BY <2>2 DEF Reader!Root
  <2>4. h[c].parent \in 1 .. c - 1
    BY <2>2, <2>3 DEF Tree
  <2> QED
    BY <2>2, <2>3, <2>4
<1> QED
  BY <1>1, <1>2, <1>12, <1>13

(* What the constructor knows of what it has read.                         *)
Follows(t, h, c, m, n) ==
  /\ Good(t) /\ Described(h, t) /\ Tree(h, Reader!SetOf(t, Len(t)))
  /\ c \in DOMAIN h /\ Reader!Within(t, Len(t) + 1, c)
  /\ m \in {"Normal", "FindBracket"} /\ (m = "FindBracket" <=> Reader!Waiting(t, Len(t) + 1))
  /\ n = IF t = <<>> THEN 1 ELSE Len(t)
NumberAfter(t, n) == IF t = <<>> THEN 1 ELSE n + 1

LEMMA NumberIs ==
  ASSUME NEW t, NEW h, NEW c, NEW m, NEW n, Follows(t, h, c, m, n)
  PROVE  NumberAfter(t, n) = Len(t) + 1
<1>1. t \in Seq(Reader!Lines) /\ n = IF t = <<>> THEN 1 ELSE Len(t)
  BY DEF Follows, Good, Text
<1>2. t = <<>> => Len(t) = 0
  OBVIOUS
<1> QED
  BY <1>1, <1>2 DEF NumberAfter

(* What is left to show for a line l that comes next.                      *)
LEMMA FollowsNext ==
  ASSUME NEW t, NEW h, NEW c, NEW m, NEW n, Follows(t, h, c, m, n), Len(t) < MaxLines,
         NEW l \in Reader!Lines, LegalNext(t, l), NEW r, r = Append(t, l),
         NEW g, NEW d, NEW o, Described(g, r), Tree(g, Reader!SetOf(r, Len(t) + 1)),
         d \in DOMAIN g, Reader!Within(r, Len(t) + 2, d),
         o \in {"Normal", "FindBracket"}, o = "FindBracket" <=> WaitingNext(t, l)
  PROVE  Follows(r, g, d, o, NumberAfter(t, n))
<1>1. Good(t) /\ t \in Text
  BY DEF Follows, Good
<1>2. Good(r)
  BY <1>1, GoodNext
<1>3. PICK N \in Nat : N = Len(t)
  BY <1>1 DEF Text
<1>4. Len(r) = N + 1 /\ r # <<>> /\ (N + 1) + 1 = N + 2
  <2>1. Len(r) = N + 1
    BY <1>1, <1>3 DEF Text
  <2>2. Len(<<>>) = 0
    OBVIOUS
  <2> QED
    BY <2>1, <2>2
<1>5. Reader!Waiting(r, N + 2) <=> WaitingNext(t, l)
  BY <1>1, <1>3, LegalIs
<1>6. NumberAfter(t, n) = N + 1
  BY <1>3, NumberIs, Zenon
<1>7. Reader!Within(r, Len(r) + 1, d) /\ (o = "FindBracket" <=> Reader!Waiting(r, Len(r) + 1))
  BY <1>3, <1>4, <1>5
<1>8. Tree(g, Reader!SetOf(r, Len(r)))
  BY <1>3, <1>4
<1>9. NumberAfter(t, n) = IF r = <<>> THEN 1 ELSE Len(r)
  BY <1>4, <1>6
<1> QED
  BY <1>2, <1>7, <1>8, <1>9 DEF Follows

(* The facts about the text that every case needs.                         *)
LEMMA FollowsFacts ==
  ASSUME NEW t, NEW h, NEW c, NEW m, NEW n, Follows(t, h, c, m, n),
         NEW l \in Reader!Lines, NEW r, r = Append(t, l)
  PROVE  /\ t \in Text /\ LineAdded(t, r, l, c) /\ LinesKept(t, r)
         /\ HeapKnown(h, Reader!SetOf(t, Len(t)))
  BY LineIs, TreeKnown DEF Follows, Good

OpensNone(l) == l.kind \notin {"name", "name open"}
PassesBy(l) == l.kind \notin {"name", "name open", "close"}

LEMMA NoNewSet ==
  ASSUME NEW t \in Text, NEW r, NEW l, NEW c, LineAdded(t, r, l, c), OpensNone(l),
         NEW h, Tree(h, Reader!SetOf(t, Len(t)))
  PROVE  Tree(h, Reader!SetOf(r, Len(t) + 1))
<1>1. PICK n \in Nat : n = Len(t)
  BY DEF Text
<1>2. PICK K \in Nat : K = Reader!SetOf(t, n)
  BY SetsNumbered
<1>3. Reader!SetOf(r, n + 1) = K + 0
  BY <1>1, <1>2 DEF LineAdded, OpensNone
<1>4. Reader!SetOf(r, n + 1) = K
  BY <1>2, <1>3
<1> QED
  BY <1>1, <1>2, <1>4

(* A line that neither opens nor closes a set leaves it the innermost one. *)
LEMMA StaysWithin ==
  ASSUME NEW t \in Text, NEW r, NEW l, NEW c, LineAdded(t, r, l, c), PassesBy(l)
  PROVE  Reader!Within(r, Len(t) + 2, c)
<1>1. PICK n \in Nat : n = Len(t)
  BY DEF Text
<1>2. ~Reader!Opens(r, n + 1) /\ ~Reader!Closes(r, n + 1) /\ Reader!Within(r, n + 1, c)
  BY <1>1 DEF LineAdded, PassesBy
<1>3. n + 1 \in Nat \ {0} /\ (n + 1) + 1 = n + 2
  OBVIOUS
<1>4. Reader!Within(r, (n + 1) + 1, c)
  BY <1>2, <1>3, BehindOther
<1> QED
  BY <1>1, <1>3, <1>4

(* A line that gives nothing,                                              *)
LEMMA FollowsNothing ==
  ASSUME NEW t, NEW h, NEW c, NEW m, NEW n, Follows(t, h, c, m, n), Len(t) < MaxLines,
         NEW l \in Reader!Lines, LegalNext(t, l), l.kind \in {"blank", "open"},
         NEW o, o \in {"Normal", "FindBracket"}, o = "FindBracket" <=> WaitingNext(t, l)
  PROVE  Follows(Append(t, l), h, c, o, NumberAfter(t, n))
<1>1. PICK r : r = Append(t, l)
  OBVIOUS
<1>2. t \in Text /\ LineAdded(t, r, l, c) /\ LinesKept(t, r)
  BY <1>1, FollowsFacts, Zenon
<1>3. GivesNothing(l) /\ OpensNone(l) /\ PassesBy(l)
  BY DEF GivesNothing, OpensNone, PassesBy
<1>4. Described(h, t) /\ Tree(h, Reader!SetOf(t, Len(t))) /\ c \in DOMAIN h
  BY DEF Follows
<1>5. Described(h, r)
  BY <1>2, <1>3, <1>4, DescribedSame, Zenon
<1>6. Tree(h, Reader!SetOf(r, Len(t) + 1))
  BY <1>2, <1>3, <1>4, NoNewSet, Zenon
<1>7. Reader!Within(r, Len(t) + 2, c)
  BY <1>2, <1>3, StaysWithin, Zenon
<1> QED
  BY <1>1, <1>4, <1>5, <1>6, <1>7, FollowsNext, Zenon

(* one that gives the innermost set a value,                               *)
LEMMA FollowsValue ==
  ASSUME NEW t, NEW h, NEW c, NEW n, Follows(t, h, c, "Normal", n), Len(t) < MaxLines,
         NEW l \in Reader!Lines, l.kind = "attribute",
         NEW g, g = [h EXCEPT ![c] = Reader!Insert(h[c], l.key, l.value)]
  PROVE  Follows(Append(t, l), g, c, "Normal", NumberAfter(t, n))
<1>1. PICK r : r = Append(t, l)
  OBVIOUS
<1>2. t \in Text /\ LineAdded(t, r, l, c) /\ LinesKept(t, r) /\ HeapKnown(h, Reader!SetOf(t, Len(t)))
  BY <1>1, FollowsFacts, Zenon
<1>3. OpensNone(l) /\ PassesBy(l)
  BY DEF OpensNone, PassesBy
<1>4. PICK K : K = Reader!SetOf(t, Len(t))
  OBVIOUS
<1>5. Described(h, t) /\ Tree(h, K) /\ c \in DOMAIN h
  BY <1>4 DEF Follows
<1>6. l.key \in FileKeys /\ l.value \in FileValues
  BY LinesAre DEF IsLine
<1>7. DOMAIN h = 1 .. K /\ c \in 1 .. K
  BY <1>5 DEF Tree
<1>8. ValueAdded(h, g, c, l.key, l.value) /\ Tree(g, K)
  BY <1>5, <1>6, <1>7, ValueMakes, Zenon
<1>9. Described(g, r)
  BY <1>2, <1>5, <1>6, <1>8, DescribedValue
<1>10. Tree(g, Reader!SetOf(r, Len(t) + 1))
  BY <1>2, <1>3, <1>4, <1>8, NoNewSet, Zenon
<1>11. Reader!Within(r, Len(t) + 2, c)
  BY <1>2, <1>3, StaysWithin, Zenon
<1>12. c \in DOMAIN g
  BY <1>7, <1>8 DEF Tree
<1>13. ~Reader!Waiting(t, Len(t) + 1)
  BY DEF Follows
<1>14. LegalNext(t, l) /\ ~WaitingNext(t, l)
  BY <1>13 DEF LegalNext, WaitingNext
<1>15. "Normal" \in {"Normal", "FindBracket"} /\ ("Normal" = "FindBracket" <=> WaitingNext(t, l))
  BY <1>14
<1> QED
  BY <1>1, <1>9, <1>10, <1>11, <1>12, <1>14, <1>15, FollowsNext, Zenon

(* one that opens a new set in it,                                         *)
LEMMA FollowsSet ==
  ASSUME NEW t, NEW h, NEW c, NEW n, Follows(t, h, c, "Normal", n), Len(t) < MaxLines,
         NEW l \in Reader!Lines, GivesSet(l),
         NEW d, d = Reader!SetOf(t, Len(t)) + 1, NEW g, g = Reader!NewSetIn(h, c, l.key, d),
         NEW o, o = IF l.kind = "name" THEN "FindBracket" ELSE "Normal"
  PROVE  Follows(Append(t, l), g, d, o, NumberAfter(t, n))
<1>1. PICK r : r = Append(t, l)
  OBVIOUS
<1>2. t \in Text /\ LineAdded(t, r, l, c) /\ LinesKept(t, r) /\ HeapKnown(h, Reader!SetOf(t, Len(t)))
  BY <1>1, FollowsFacts, Zenon
<1>3. l.key \in FileKeys
  BY DEF GivesSet
<1>4. PICK N \in Nat : N = Len(t)
  BY <1>2 DEF Text
<1>5. PICK K \in Nat : K = Reader!SetOf(t, Len(t)) /\ d = K + 1
  BY <1>4, SetsNumbered
<1>6. Described(h, t) /\ Tree(h, K) /\ c \in DOMAIN h
  BY <1>5 DEF Follows
<1>7. DOMAIN h = 1 .. K /\ c \in 1 .. K
  BY <1>6 DEF Tree
<1>8. g = Reader!NewSetIn(h, c, l.key, K + 1)
  BY <1>5
<1>9. SetAdded(h, g, c, l.key, K + 1) /\ Tree(g, K + 1)
  BY <1>3, <1>6, <1>7, <1>8, NewSetMakes, Zenon
<1>10. SetAdded(h, g, c, l.key, d)
  BY <1>5, <1>9
<1>11. Described(g, r)
  BY <1>2, <1>5, <1>6, <1>10, DescribedSet, Zenon
<1>12. Reader!SetOf(r, N + 1) = d /\ Reader!Opens(r, N + 1)
  BY <1>2, <1>4, <1>5 DEF LineAdded, GivesSet
<1>13. Tree(g, Reader!SetOf(r, Len(t) + 1))
  BY <1>4, <1>5, <1>9, <1>12
<1>14. Reader!Within(r, Len(t) + 2, d)
  <2>1. N + 1 \in Nat \ {0} /\ (N + 1) + 1 = N + 2
    OBVIOUS
  <2>2. Reader!Within(r, (N + 1) + 1, Reader!SetOf(r, N + 1))
    BY <1>12, <2>1, BehindOpening
  <2> QED
    BY <1>4, <1>12, <2>1, <2>2
<1>15. d \in DOMAIN g
  <2>1. DOMAIN g = 1 .. K + 1
    BY <1>9 DEF Tree
  <2> QED
    BY <1>5, <2>1
<1>16. ~Reader!Waiting(t, Len(t) + 1)
  BY DEF Follows
<1>17. LegalNext(t, l) /\ (WaitingNext(t, l) <=> l.kind = "name")
  BY <1>16 DEF LegalNext, WaitingNext, GivesSet
<1>18. o \in {"Normal", "FindBracket"} /\ (o = "FindBracket" <=> WaitingNext(t, l))
  BY <1>17
<1> QED
  BY <1>1, <1>11, <1>13, <1>14, <1>15, <1>17, <1>18, FollowsNext, Zenon

(* and one that closes it.                                                 *)
LEMMA FollowsClose ==
  ASSUME NEW t, NEW h, NEW c, NEW n, Follows(t, h, c, "Normal", n), Len(t) < MaxLines,
         NEW l \in Reader!Lines, l.kind = "close", h[c].parent # 0
  PROVE  Follows(Append(t, l), h, h[c].parent, "Normal", NumberAfter(t, n))
<1>1. PICK r : r = Append(t, l)
  OBVIOUS
<1>2. t \in Text /\ LineAdded(t, r, l, c) /\ LinesKept(t, r)
  BY <1>1, FollowsFacts, Zenon
<1>3. GivesNothing(l) /\ OpensNone(l)
  BY DEF GivesNothing, OpensNone
<1>4. /\ Good(t) /\ Described(h, t) /\ Tree(h, Reader!SetOf(t, Len(t))) /\ c \in DOMAIN h
      /\ Reader!Within(t, Len(t) + 1, c)
  BY DEF Follows
<1>5. Described(h, r)
  BY <1>2, <1>3, <1>4, DescribedSame, Zenon
<1>6. Tree(h, Reader!SetOf(r, Len(t) + 1))
  BY <1>2, <1>3, <1>4, NoNewSet, Zenon
<1>7. c # Reader!Root /\ Reader!Depth(t, Len(t) + 1) > 0
  BY <1>4, RootIsOutside
<1>8. h[c].parent \in DOMAIN h /\ Reader!Within(r, Len(t) + 2, h[c].parent)
  BY <1>1, <1>4, <1>7, ParentIsAround, Zenon
<1>9. ~Reader!Waiting(t, Len(t) + 1)
  BY DEF Follows
<1>10. LegalNext(t, l) /\ ~WaitingNext(t, l)
  BY <1>7, <1>9 DEF LegalNext, WaitingNext
<1>11. "Normal" \in {"Normal", "FindBracket"} /\ ("Normal" = "FindBracket" <=> WaitingNext(t, l))
  BY <1>10
<1> QED
  BY <1>1, <1>5, <1>6, <1>8, <1>10, <1>11, FollowsNext, Zenon

(* The start, of an empty text.                                            *)
LEMMA FollowsEmpty ==
  ASSUME NEW h, h = Reader!NewAt(Reader!NoHeap, Reader!Root, Reader!NoSet)
  PROVE  Follows(<<>>, h, Reader!Root, "Normal", 1)
<1>0. PICK t : t = <<>>
  OBVIOUS
<1>1. t = <<>> /\ t \in Text /\ Len(t) = 0
  BY <1>0 DEF Text
<1>2. Reader!SetOf(t, 0) = 1 /\ Reader!Depth(t, 1) = 0 /\ ~Reader!Waiting(t, 1)
  <2>1. Cardinality(Reader!Openings(t, 0)) = 0
    BY BracketsCounted
  <2>2. Reader!SetOf(t, 0) = 1
    BY <2>1, ReaderCounts DEF Reader!SetOf
  <2>3. 1 \in Nat \ {0} /\ 1 .. 1 - 1 = {}
    OBVIOUS
  <2>4. Reader!Depth(t, 1) = 0
    BY <2>3, DepthIs
  <2> QED
    BY <2>2, <2>3, <2>4 DEF Reader!Waiting
<1>3. /\ Tree(h, 1) /\ h[1].parent = 0
      /\ \A k \in FileKeys : h[1].values[k] = <<>> /\ h[1].children[k] = <<>>
  BY RootAlone
<1>4. DOMAIN h = 1 .. 1 /\ 1 .. 1 = {1} /\ 1 .. 0 = {}
  BY <1>3 DEF Tree
<1>5. Good(t)
  <2>1. \A m \in 1 .. 0 + 1 : m = 1
    OBVIOUS
  <2>2. Deep(t)
    BY <1>1, <1>2, <2>1 DEF Deep
  <2> QED
    BY <1>1, <1>4, <2>2, FileAssumption DEF Good, AllLegal
<1>6. DOMAIN t = {}
  BY <1>1
<1>7. \A a, k : Reader!Valued(t, a, k) = {} /\ Reader!Opened(t, a, k) = {}
  BY <1>6 DEF Reader!Valued, Reader!Opened
<1>8. SetDescribed(h[1], 1, t)
  BY <1>3, <1>7, ListedNothing DEF SetDescribed
<1>9. Described(h, t)
  BY <1>1, <1>2, <1>3, <1>4, <1>8 DEF Described
<1>10. Reader!Within(t, 1, Reader!Root) /\ Reader!Root \in DOMAIN h
  BY <1>2, <1>4 DEF Reader!Within, Reader!Root
<1>11. 0 + 1 = 1
  OBVIOUS
<1>12. Follows(t, h, Reader!Root, "Normal", 1)
  BY <1>1, <1>2, <1>3, <1>5, <1>9, <1>10, <1>11 DEF Follows
<1> QED
  BY <1>1, <1>12

(* What is known in each state of the reader.                              *)
Named(t, n) ==
  \/ \E m \in 1 .. Len(t) : /\ ~Reader!Legal(t, m) /\ n = m
                            /\ \A j \in 1 .. m - 1 : Reader!Legal(t, j)
  \/ /\ \A m \in 1 .. Len(t) : Reader!Legal(t, m)
     /\ Reader!Depth(t, Len(t) + 1) > 0 \/ Reader!Waiting(t, Len(t) + 1)
     /\ n \in {Len(t), Len(t) + 1}
Finished(t, h) ==
  /\ AllLegal(t) /\ Reader!Depth(t, Len(t) + 1) = 0 /\ ~Reader!Waiting(t, Len(t) + 1)
  /\ Reader!IsMeant(h, t)
SomeTree(h, c) == \E K \in Nat : Tree(h, K) /\ K <= MaxLines + MaxSets + 1 /\ c \in 1 .. K
FileKnown(m, n, t, e) ==
  /\ m \in {"Normal", "FindBracket"} /\ n \in 1 .. (MaxLines + 2)
  /\ t \in Text /\ Len(t) <= MaxLines
  /\ e.kind \in {"none", "not_found", "parse_error"}
FileState(s, h, c, m, n, t, e) ==
  /\ FileKnown(m, n, t, e)
  /\ \/ /\ s = "none" /\ h = Reader!NoHeap /\ c = Reader!Root
        /\ e.kind = "parse_error" /\ t # <<>> => Named(t, e.line)
     \/ s = "reading" /\ Follows(t, h, c, m, n)
     \/ s = "broken" /\ SomeTree(h, c)
     \/ s = "built" /\ c = Reader!Root /\ Finished(t, h) /\ SomeTree(h, c)
     \/ s = "edited" /\ c = Reader!Root /\ SomeTree(h, c)
FileInv == part = "config_file" => FileState(reader, heap, cur, mode, line, text, error)

LEMMA FollowsState ==
  ASSUME NEW t, NEW h, NEW c, NEW m, NEW n, Follows(t, h, c, m, n),
         NEW e, e.kind \in {"none", "not_found", "parse_error"}
  PROVE  FileState("reading", h, c, m, n, t, e) /\ SomeTree(h, c) /\ FileKnown(m, n, t, e)
<1>1. PICK N \in Nat : N = Len(t) /\ N <= MaxLines
  BY DEF Follows, Good, Text
<1>2. PICK K \in Nat : K = Reader!SetOf(t, N) /\ K \in 1 .. N + 1
  BY SetsNumbered
<1>3. Tree(h, K) /\ c \in 1 .. K
  BY <1>1, <1>2 DEF Follows, Tree
<1>4. MaxLines \in Nat /\ MaxSets \in Nat
  BY FileAssumption
<1>5. SomeTree(h, c)
  <2>1. K <= MaxLines + MaxSets + 1
    BY <1>1, <1>2, <1>4
  <2> QED
    BY <1>3, <2>1 DEF SomeTree
<1>6. n \in 1 .. (MaxLines + 2)
  <2>1. n = IF t = <<>> THEN 1 ELSE N
    BY <1>1 DEF Follows
  <2>2. t # <<>> => N # 0
    BY <1>1 DEF Follows, Good, Text
  <2> QED
    BY <1>1, <1>4, <2>1, <2>2
<1>7. FileKnown(m, n, t, e)
  BY <1>6 DEF FileKnown, Follows, Good
<1> QED
  BY <1>5, <1>7 DEF FileState

(* The line that is read.                                                  *)
LineRead(t, r, n, o, l) ==
  l \in Reader!Lines /\ Len(t) < MaxLines /\ r = Append(t, l) /\ o = NumberAfter(t, n)

LEMMA NextLineIs ==
  ASSUME NEW kinds, Reader!NextLine(kinds)
  PROVE  \E l : LineRead(text, text', line, line', l) /\ l.kind \in kinds
  BY DEF Reader!NextLine, Reader!Number, LineRead, NumberAfter

LEMMA ThisIs ==
  ASSUME NEW l, LineRead(text, text', line, line', l), text \in Text
  PROVE  Reader!This = l
  BY DEF LineRead, Reader!This, Text

ErrorKnown(e) == e.kind \in {"none", "not_found", "parse_error"}
LineFollows == FileState(reader, heap, cur, mode, line, text, error) /\ reader = "reading"
FileGoes == FileState(reader', heap', cur', mode', line', text', error')

LEMMA LineFollowsIs ==
  ASSUME LineFollows
  PROVE  Follows(text, heap, cur, mode, line) /\ ErrorKnown(error) /\ text \in Text
  BY DEF LineFollows, FileState, FileKnown, ErrorKnown

LEMMA FollowsGoes ==
  ASSUME Follows(text', heap', cur', mode', line'), reader' = "reading", ErrorKnown(error')
  PROVE  FileGoes
  BY FollowsState DEF FileGoes, ErrorKnown

LEMMA BlankLineKeeps == LineFollows /\ Reader!BlankLine => FileGoes
<1> SUFFICES ASSUME LineFollows, Reader!BlankLine PROVE FileGoes
  OBVIOUS
<1>1. Follows(text, heap, cur, mode, line) /\ ErrorKnown(error)
  BY LineFollowsIs
<1>2. PICK l : LineRead(text, text', line, line', l) /\ l.kind \in {"blank"}
  BY NextLineIs DEF Reader!BlankLine
<1>3. heap' = heap /\ reader' = "reading" /\ mode' = mode /\ cur' = cur /\ error' = error
  BY DEF Reader!BlankLine, LineFollows
<1>4. l.kind = "blank" /\ l.kind \in {"blank", "open"} /\ LegalNext(text, l)
  BY <1>2 DEF LegalNext
<1>5. mode \in {"Normal", "FindBracket"} /\ (mode = "FindBracket" <=> WaitingNext(text, l))
  BY <1>1, <1>4 DEF Follows, WaitingNext
<1>6. Follows(Append(text, l), heap, cur, mode, NumberAfter(text, line))
  BY <1>1, <1>2, <1>4, <1>5, FollowsNothing, Zenon DEF LineRead
<1>7. Follows(text', heap', cur', mode', line')
  BY <1>2, <1>3, <1>6, Zenon DEF LineRead
<1> QED
  BY <1>1, <1>3, <1>7, FollowsGoes, Zenon

LEMMA OpenBracketKeeps == LineFollows /\ Reader!OpenBracket => FileGoes
<1> SUFFICES ASSUME LineFollows, Reader!OpenBracket PROVE FileGoes
  OBVIOUS
<1>1. Follows(text, heap, cur, mode, line) /\ ErrorKnown(error)
  BY LineFollowsIs
<1>2. PICK l : LineRead(text, text', line, line', l) /\ l.kind \in {"open"}
  BY NextLineIs DEF Reader!OpenBracket
<1>3. /\ heap' = heap /\ reader' = "reading" /\ mode = "FindBracket" /\ mode' = "Normal"
      /\ cur' = cur /\ error' = error
  BY DEF Reader!OpenBracket, Reader!Reading, LineFollows
<1>4. l.kind \in {"blank", "open"} /\ LegalNext(text, l)
  BY <1>1, <1>2, <1>3 DEF LegalNext, Follows
<1>5. mode' \in {"Normal", "FindBracket"} /\ (mode' = "FindBracket" <=> WaitingNext(text, l))
  BY <1>2, <1>3 DEF WaitingNext
<1>6. Follows(Append(text, l), heap, cur, mode', NumberAfter(text, line))
  BY <1>1, <1>2, <1>4, <1>5, FollowsNothing, Zenon DEF LineRead
<1>7. Follows(text', heap', cur', mode', line')
  BY <1>2, <1>3, <1>6, Zenon DEF LineRead
<1> QED
  BY <1>1, <1>3, <1>7, FollowsGoes, Zenon

LEMMA OpenSetKeeps == LineFollows /\ Reader!OpenSet => FileGoes
<1> SUFFICES ASSUME LineFollows, Reader!OpenSet PROVE FileGoes
  OBVIOUS
<1>1. Follows(text, heap, cur, mode, line) /\ ErrorKnown(error) /\ text \in Text
  BY LineFollowsIs
<1>2. PICK l : LineRead(text, text', line, line', l) /\ l.kind \in {"name", "name open"}
  BY NextLineIs DEF Reader!OpenSet
<1>3. Reader!This = l
  BY <1>1, <1>2, ThisIs
<1>4. /\ reader' = "reading" /\ mode = "Normal" /\ error' = error
      /\ mode' = IF l.kind = "name" THEN "FindBracket" ELSE "Normal"
      /\ heap' = Reader!NewSetIn(heap, cur, l.key, Reader!Fresh) /\ cur' = Reader!Fresh
  BY <1>3 DEF Reader!OpenSet, Reader!Reading, LineFollows
<1>5. GivesSet(l)
  BY <1>2, LinesAre DEF IsLine, GivesSet, LineRead
<1>6. PICK N \in Nat : N = Len(text) /\ N < MaxLines
  <2>1. Len(text) < MaxLines
    BY <1>2 DEF LineRead
  <2>2. Len(text) \in Nat
    BY <1>1 DEF Text
  <2> QED
    BY <2>1, <2>2
<1>7. PICK K \in Nat : K = Reader!SetOf(text, Len(text)) /\ K \in 1 .. N + 1
  BY <1>6, SetsNumbered
<1>8. Reader!Fresh = K + 1
  <2>1. Tree(heap, K)
    BY <1>1, <1>7 DEF Follows
  <2>2. K < MaxLines + MaxSets + 1
    BY <1>6, <1>7, FileAssumption
  <2> QED
    BY <2>1, <2>2, FreshIs
<1>9. cur' = Reader!SetOf(text, Len(text)) + 1 /\ heap' = Reader!NewSetIn(heap, cur, l.key, cur')
  BY <1>4, <1>7, <1>8
<1>10. Follows(text, heap, cur, "Normal", line)
  BY <1>1, <1>4
<1>11. Follows(Append(text, l), heap', cur', mode', NumberAfter(text, line))
  BY <1>2, <1>4, <1>5, <1>9, <1>10, FollowsSet, Zenon DEF LineRead
<1>12. Follows(text', heap', cur', mode', line')
  BY <1>2, <1>11, Zenon DEF LineRead
<1> QED
  BY <1>1, <1>4, <1>12, FollowsGoes, Zenon

LEMMA AttributeKeeps == LineFollows /\ Reader!Attribute => FileGoes
<1> SUFFICES ASSUME LineFollows, Reader!Attribute PROVE FileGoes
  OBVIOUS
<1>1. Follows(text, heap, cur, mode, line) /\ ErrorKnown(error) /\ text \in Text
  BY LineFollowsIs
<1>2. PICK l : LineRead(text, text', line, line', l) /\ l.kind \in {"attribute"}
  BY NextLineIs DEF Reader!Attribute
<1>3. Reader!This = l
  BY <1>1, <1>2, ThisIs
<1>4. /\ reader' = "reading" /\ mode = "Normal" /\ error' = error /\ mode' = mode /\ cur' = cur
      /\ heap' = [heap EXCEPT ![cur] = Reader!Insert(heap[cur], l.key, l.value)]
  BY <1>3 DEF Reader!Attribute, Reader!Reading, LineFollows
<1>5. Follows(text, heap, cur, "Normal", line) /\ l.kind = "attribute"
  BY <1>1, <1>2, <1>4
<1>6. Follows(Append(text, l), heap', cur, "Normal", NumberAfter(text, line))
  BY <1>2, <1>4, <1>5, FollowsValue, Zenon DEF LineRead
<1>7. Follows(text', heap', cur', mode', line')
  BY <1>2, <1>4, <1>6, Zenon DEF LineRead
<1> QED
  BY <1>1, <1>4, <1>7, FollowsGoes, Zenon

LEMMA CloseBracketKeeps == LineFollows /\ Reader!CloseBracket => FileGoes
<1> SUFFICES ASSUME LineFollows, Reader!CloseBracket PROVE FileGoes
  OBVIOUS
<1>1. Follows(text, heap, cur, mode, line) /\ ErrorKnown(error)
  BY LineFollowsIs
<1>2. PICK l : LineRead(text, text', line, line', l) /\ l.kind \in {"close"}
  BY NextLineIs DEF Reader!CloseBracket
<1>3. /\ reader' = "reading" /\ mode = "Normal" /\ error' = error /\ mode' = mode
      /\ heap' = heap /\ cur' = heap[cur].parent /\ heap[cur].parent # 0
  BY DEF Reader!CloseBracket, Reader!Reading, Reader!NoSet, LineFollows
<1>4. Follows(text, heap, cur, "Normal", line) /\ l.kind = "close"
  BY <1>1, <1>2, <1>3
<1>5. Follows(Append(text, l), heap, heap[cur].parent, "Normal", NumberAfter(text, line))
  BY <1>2, <1>3, <1>4, FollowsClose, Zenon DEF LineRead
<1>6. Follows(text', heap', cur', mode', line')
  BY <1>2, <1>3, <1>5, Zenon DEF LineRead
<1> QED
  BY <1>1, <1>3, <1>6, FollowsGoes, Zenon

(* An exception frees everything.                                          *)
LEMMA Thrown ==
  ASSUME NEW n, Reader!Throw(n), NEW K, Tree(heap, K), text' \in Text, Len(text') <= MaxLines,
         text' # <<>> => Named(text', n)
  PROVE  FileGoes
<1>1. /\ error' = [kind |-> "parse_error", line |-> n] /\ heap' = Reader!Delete(heap, Reader!Root)
      /\ reader' = "none" /\ mode' = "Normal" /\ cur' = Reader!Root /\ line' = 1
  BY DEF Reader!Throw, Reader!ParseErrorAt
<1>2. heap' = Reader!NoHeap
  BY <1>1, TreeFreed
<1>3. error'.kind = "parse_error" /\ error'.line = n
  BY <1>1
<1>4. 1 \in 1 .. (MaxLines + 2)
  BY FileAssumption
<1> QED
  BY <1>1, <1>2, <1>3, <1>4 DEF FileGoes, FileState, FileKnown

LEMMA BadLineKeeps == LineFollows /\ Reader!BadLine => FileGoes
<1> SUFFICES ASSUME LineFollows, Reader!BadLine PROVE FileGoes
  OBVIOUS
<1>1. Follows(text, heap, cur, mode, line) /\ text \in Text
  BY LineFollowsIs
<1>2. PICK l \in Reader!Lines : l.kind \in Reader!Unexpected /\ Len(text) < MaxLines /\ text' = Append(text, l)
  BY DEF Reader!BadLine
<1>3. Reader!Throw(Reader!Number) /\ Reader!Number = NumberAfter(text, line)
  BY DEF Reader!BadLine, Reader!Number, NumberAfter
<1>4. PICK N \in Nat : N = Len(text) /\ N < MaxLines
  BY <1>1, <1>2 DEF Text
<1>5. text' \in Text /\ Len(text') = N + 1
  BY <1>1, <1>2, <1>4 DEF Text
<1>6. Len(text') <= MaxLines
  BY <1>4, <1>5, FileAssumption
<1>7. Reader!Number = N + 1
  BY <1>1, <1>3, <1>4, NumberIs
<1>8. ~LegalNext(text, l)
  <2>1. mode \in {"Normal", "FindBracket"} /\ (mode = "FindBracket" <=> Reader!Waiting(text, Len(text) + 1))
    BY <1>1 DEF Follows
  <2>2. CASE mode = "FindBracket"
    <3>1. l.kind # "blank" /\ l.kind # "open"
      BY <1>2, <2>2 DEF Reader!Unexpected
    <3> QED
      BY <2>1, <2>2, <3>1 DEF LegalNext
  <2>3. CASE mode # "FindBracket"
    <3>1. l.kind \in {"open", "malformed"} \/ (l.kind = "close" /\ heap[cur].parent = 0)
      BY <1>2, <2>3 DEF Reader!Unexpected, Reader!NoSet
    <3>2. heap[cur].parent = 0 => ~(Reader!Depth(text, Len(text) + 1) > 0)
      <4>1. heap[cur].parent = 0 => Reader!Depth(text, Len(text) + 1) = 0
        BY <1>1, RootIsOutside DEF Follows
      <4> QED
        BY <4>1
    <3> QED
      BY <2>1, <2>3, <3>1, <3>2 DEF LegalNext
  <2> QED
    BY <2>2, <2>3
<1>9. Named(text', N + 1)
  <2>1. ~Reader!Legal(text', N + 1) /\ \A m \in 1 .. N : Reader!Legal(text', m)
    BY <1>1, <1>2, <1>4, <1>8, LegalIs DEF Follows, Good, AllLegal
  <2>2. N + 1 \in 1 .. Len(text') /\ 1 .. (N + 1) - 1 = 1 .. N
    BY <1>5
  <2> QED
    BY <2>1, <2>2 DEF Named
<1>10. Reader!Throw(N + 1) /\ Tree(heap, Reader!SetOf(text, Len(text)))
  BY <1>1, <1>3, <1>7 DEF Follows
<1> QED
  BY <1>5, <1>6, <1>9, <1>10, Thrown

LEMMA EndOfFileKeeps == LineFollows /\ Reader!EndOfFile => FileGoes
<1> SUFFICES ASSUME LineFollows, Reader!EndOfFile PROVE FileGoes
  OBVIOUS
<1>1. Follows(text, heap, cur, mode, line) /\ ErrorKnown(error) /\ text \in Text
  BY LineFollowsIs
<1>2. text' = text
  BY DEF Reader!EndOfFile
<1>3. PICK N \in Nat : N = Len(text) /\ N <= MaxLines
  BY <1>1 DEF Follows, Good, Text
<1>4. /\ heap[cur].parent = 0 <=> cur = Reader!Root
      /\ cur = Reader!Root => Reader!Depth(text, N + 1) = 0
      /\ cur # Reader!Root => Reader!Depth(text, N + 1) > 0
  BY <1>1, <1>3, RootIsOutside DEF Follows
<1>5. mode = "FindBracket" <=> Reader!Waiting(text, N + 1)
  BY <1>1, <1>3 DEF Follows
<1>6. CASE mode = "FindBracket" \/ heap[cur].parent # Reader!NoSet
  <2>1. PICK n : Reader!Throw(n) /\ n \in {Reader!Number, line}
    BY <1>6 DEF Reader!EndOfFile
  <2>2. Reader!Number = N + 1
    <3>1. Reader!Number = NumberAfter(text, line)
      BY DEF Reader!Number, NumberAfter
    <3> QED
      BY <1>1, <1>3, <3>1, NumberIs
  <2>3. text # <<>> => line = N
    BY <1>1, <1>3 DEF Follows
  <2>4. Reader!Depth(text, N + 1) > 0 \/ Reader!Waiting(text, N + 1)
    BY <1>4, <1>5, <1>6 DEF Reader!NoSet
  <2>5. text # <<>> => Named(text, n)
    BY <1>1, <1>3, <2>1, <2>2, <2>3, <2>4 DEF Named, Follows, Good, AllLegal
  <2>6. Tree(heap, Reader!SetOf(text, Len(text)))
    BY <1>1 DEF Follows
  <2> QED
    BY <1>1, <1>2, <1>3, <2>1, <2>5, <2>6, Thrown
<1>7. CASE mode # "FindBracket" /\ heap[cur].parent = Reader!NoSet
  <2>1. /\ reader' = "built" /\ mode' = "Normal" /\ cur' = Reader!Root /\ line' = 1
        /\ heap' = heap /\ error' = error
    BY <1>7 DEF Reader!EndOfFile
  <2>2. cur = Reader!Root
    BY <1>4, <1>7 DEF Reader!NoSet
  <2>3. Finished(text, heap)
    <3>1. Reader!IsMeant(heap, text)
      BY <1>1, DescribedMeant DEF Follows
    <3> QED
      BY <1>1, <1>3, <1>4, <1>5, <1>7, <2>2, <3>1 DEF Finished, Follows, Good
  <2>4. SomeTree(heap, cur)
    BY <1>1, FollowsState DEF ErrorKnown
  <2>5. 1 \in 1 .. (MaxLines + 2)
    BY FileAssumption
  <2> QED
    BY <1>1, <1>2, <1>3, <2>1, <2>2, <2>3, <2>4, <2>5 DEF FileGoes, FileState, FileKnown, ErrorKnown
<1> QED
  BY <1>6, <1>7

(* The other actions.                                                      *)
FileIn(s) == FileState(reader, heap, cur, mode, line, text, error) /\ reader = s

LEMMA FileInKnown ==
  ASSUME NEW s, FileIn(s)
  PROVE  FileKnown(mode, line, text, error) /\ FileState(s, heap, cur, mode, line, text, error)
  BY DEF FileIn, FileState

LEMMA NothingRead == <<>> \in Text /\ Len(<<>>) <= MaxLines
<1>1. PICK t : t = <<>>
  OBVIOUS
<1>2. t \in Text /\ Len(t) = 0
  BY <1>1 DEF Text
<1> QED
  BY <1>1, <1>2, FileAssumption

LEMMA NotFoundKeeps == FileIn("none") /\ Reader!NotFound => FileGoes
<1> SUFFICES ASSUME FileIn("none"), Reader!NotFound PROVE FileGoes
  OBVIOUS
<1>1. /\ reader' = "none" /\ heap' = heap /\ mode' = mode /\ cur' = cur /\ line' = line
      /\ error' = [kind |-> "not_found", line |-> 0] /\ text' = <<>> /\ reader = "none"
  BY DEF Reader!NotFound
<1>2. error'.kind = "not_found"
  BY <1>1
<1>3. FileKnown(mode, line, text, error) /\ heap = Reader!NoHeap /\ cur = Reader!Root
  BY DEF FileIn, FileState
<1>4. FileKnown(mode', line', text', error')
  BY <1>1, <1>2, <1>3, NothingRead DEF FileKnown
<1> QED
  BY <1>1, <1>2, <1>3, <1>4 DEF FileGoes, FileState

LEMMA OpenKeeps == FileIn("none") /\ Reader!Open => FileGoes
<1> SUFFICES ASSUME FileIn("none"), Reader!Open PROVE FileGoes
  OBVIOUS
<1>1. /\ heap' = Reader!NewAt(Reader!NoHeap, Reader!Root, Reader!NoSet)
      /\ reader' = "reading" /\ mode' = "Normal" /\ cur' = Reader!Root /\ line' = 1
      /\ text' = <<>> /\ error' = Reader!NoError
  BY DEF Reader!Open
<1>2. ErrorKnown(error')
  BY <1>1 DEF ErrorKnown, Reader!NoError
<1>3. Follows(<<>>, heap', Reader!Root, "Normal", 1)
  BY <1>1, FollowsEmpty, Zenon
<1>4. Follows(text', heap', cur', mode', line')
  BY <1>1, <1>3, Zenon
<1> QED
  BY <1>1, <1>2, <1>4, FollowsGoes, Zenon

LEMMA InputErrorKeeps == FileIn("reading") /\ Reader!InputError => FileGoes
<1> SUFFICES ASSUME FileIn("reading"), Reader!InputError PROVE FileGoes
  OBVIOUS
<1>1. /\ reader' = "broken" /\ heap' = heap /\ mode' = mode /\ cur' = cur /\ line' = line
      /\ text' = text /\ error' = error
  BY DEF Reader!InputError
<1>2. FileKnown(mode, line, text, error) /\ Follows(text, heap, cur, mode, line)
  BY DEF FileIn, FileState
<1>3. SomeTree(heap, cur)
  BY <1>2, FollowsState DEF FileKnown
<1>4. FileState("broken", heap, cur, mode, line, text, error)
  BY <1>2, <1>3 DEF FileState
<1> QED
  BY <1>1, <1>4 DEF FileGoes

(* What the program may edit.                                              *)
FileBuilt == (FileIn("built") \/ FileIn("edited")) /\ part = "config_file"

LEMMA BuiltIs ==
  ASSUME FileBuilt
  PROVE  /\ FileKnown(mode, line, text, error) /\ cur = Reader!Root /\ Reader!Root = 1
         /\ \E K \in Nat \ {0} : Tree(heap, K) /\ K <= MaxLines + MaxSets + 1
<1>1. FileKnown(mode, line, text, error) /\ cur = Reader!Root /\ SomeTree(heap, cur)
  BY DEF FileBuilt, FileIn, FileState
<1>2. \E K \in Nat \ {0} : Tree(heap, K) /\ K <= MaxLines + MaxSets + 1
  BY <1>1 DEF SomeTree, Tree
<1> QED
  BY <1>1, <1>2 DEF Reader!Root

LEMMA RootStays ==
  ASSUME NEW K, Tree(heap, K), NEW e \in Reader!SetType(1 .. K), SameLinks(heap[1], e),
         heap' = [heap EXCEPT ![1] = e]
  PROVE  Tree(heap', K)
<1>1. 1 \in 1 .. K
  BY DEF Tree
<1>2. SetsOne(heap, K, 1, e, heap')
  BY <1>1, OneSetSame, Zenon
<1> QED
  BY <1>2 DEF SetsOne

LEMMA EditKeeps == FileBuilt /\ Reader!Edit => FileGoes
<1> SUFFICES ASSUME FileBuilt, Reader!Edit PROVE FileGoes
  OBVIOUS
<1>1. /\ reader' = "edited" /\ text' = <<>> /\ mode' = mode /\ cur' = cur /\ line' = line /\ error' = error
  BY DEF Reader!Edit
<1>2. FileKnown(mode, line, text, error) /\ cur = Reader!Root /\ Reader!Root = 1
  BY BuiltIs
<1>3. PICK K \in Nat \ {0} : Tree(heap, K) /\ K <= MaxLines + MaxSets + 1
  BY BuiltIs
<1>4. /\ DOMAIN heap = 1 .. K /\ 1 \in 1 .. K /\ heap[1] \in Reader!SetType(1 .. K)
  BY <1>3 DEF Tree
<1>5. PICK k \in FileKeys, v \in FileValues :
        \/ heap' = [heap EXCEPT ![1] = Reader!Insert(heap[1], k, v)]
        \/ heap' = [heap EXCEPT ![1] = Reader!Replace(heap[1], k, v)]
        \/ heap' = [heap EXCEPT ![1] = Reader!Erase(heap[1], k)]
        \/ /\ Reader!Cardinality(DOMAIN heap) < MaxSets
           /\ heap' = Reader!NewSetIn(heap, 1, k, Reader!Fresh)
  BY <1>2 DEF Reader!Edit
<1>6. \E N \in Nat : Tree(heap', N) /\ N <= MaxLines + MaxSets + 1
  <2>1. CASE heap' = [heap EXCEPT ![1] = Reader!Insert(heap[1], k, v)]
    <3>1. PICK e : e = Reader!Insert(heap[1], k, v)
      OBVIOUS
    <3>2. Makes(1 .. K, heap[1], k, Append(heap[1].values[k], v), e)
      BY <1>4, <3>1, InsertMakes, Zenon
    <3>3. Tree(heap', K)
      BY <1>3, <2>1, <3>1, <3>2, RootStays, Zenon DEF Makes
    <3> QED
      BY <1>3, <3>3
  <2>2. CASE heap' = [heap EXCEPT ![1] = Reader!Replace(heap[1], k, v)]
    <3>1. PICK e : e = Reader!Replace(heap[1], k, v)
      OBVIOUS
    <3>2. e \in Reader!SetType(1 .. K) /\ SameLinks(heap[1], e)
      BY <1>4, <3>1, ReplaceMakes, Zenon
    <3>3. Tree(heap', K)
      BY <1>3, <2>2, <3>1, <3>2, RootStays, Zenon
    <3> QED
      BY <1>3, <3>3
  <2>3. CASE heap' = [heap EXCEPT ![1] = Reader!Erase(heap[1], k)]
    <3>1. PICK e : e = Reader!Erase(heap[1], k)
      OBVIOUS
    <3>2. e \in Reader!SetType(1 .. K) /\ SameLinks(heap[1], e)
      BY <1>4, <3>1, EraseMakes, Zenon
    <3>3. Tree(heap', K)
      BY <1>3, <2>3, <3>1, <3>2, RootStays, Zenon
    <3> QED
      BY <1>3, <3>3
  <2>4. CASE Reader!Cardinality(DOMAIN heap) < MaxSets /\ heap' = Reader!NewSetIn(heap, 1, k, Reader!Fresh)
    <3>1. K < MaxSets
      <4>1. Cardinality(1 .. K) = K
        BY FS_Interval
      <4> QED
        BY <1>4, <2>4, <4>1, ReaderCounts
    <3>2. K < MaxLines + MaxSets + 1 /\ K + 1 \in Nat /\ K + 1 <= MaxLines + MaxSets + 1
      BY <3>1, FileAssumption
    <3>3. Reader!Fresh = K + 1
      BY <1>3, <3>2, FreshIs
    <3>4. heap' = Reader!NewSetIn(heap, 1, k, K + 1)
      BY <2>4, <3>3
    <3>5. Tree(heap', K + 1)
      BY <1>3, <1>4, <3>4, NewSetMakes, Zenon
    <3> QED
      BY <3>2, <3>5
  <2> QED
    BY <1>5, <2>1, <2>2, <2>3, <2>4
<1>7. SomeTree(heap', cur')
  <2>1. PICK N \in Nat : Tree(heap', N) /\ N <= MaxLines + MaxSets + 1
    BY <1>6
  <2>2. 1 \in 1 .. N
    BY <2>1 DEF Tree
  <2> QED
    BY <1>1, <1>2, <2>1, <2>2 DEF SomeTree
<1>8. FileKnown(mode', line', text', error')
  BY <1>1, <1>2, NothingRead DEF FileKnown
<1> QED
  BY <1>1, <1>2, <1>7, <1>8 DEF FileGoes, FileState

LEMMA DeleteFileKeeps == FileBuilt /\ Reader!DeleteFile => FileGoes
<1> SUFFICES ASSUME FileBuilt, Reader!DeleteFile PROVE FileGoes
  OBVIOUS
<1>1. /\ reader' = "none" /\ text' = <<>> /\ mode' = mode /\ cur' = cur /\ line' = line /\ error' = error
      /\ heap' = Reader!Delete(heap, Reader!Root)
  BY DEF Reader!DeleteFile
<1>2. FileKnown(mode, line, text, error) /\ cur = Reader!Root
  BY BuiltIs
<1>3. PICK K \in Nat \ {0} : Tree(heap, K)
  BY BuiltIs
<1>4. heap' = Reader!NoHeap
  BY <1>1, <1>3, TreeFreed
<1>5. FileKnown(mode', line', text', error')
  BY <1>1, <1>2, NothingRead DEF FileKnown
<1> QED
  BY <1>1, <1>2, <1>4, <1>5 DEF FileGoes, FileState

(* The invariant.                                                          *)
LEMMA FileInvInit == Init => FileInv
<1> SUFFICES ASSUME Init, part = "config_file" PROVE FileInv
  BY DEF FileInv
<1>1. Reader!FileInit
  BY DEF Init
<1>2. /\ heap = Reader!NoHeap /\ reader = "none" /\ mode = "Normal" /\ cur = Reader!Root
      /\ line = 1 /\ text = <<>> /\ error.kind = "none"
  BY <1>1 DEF Reader!FileInit, Reader!NoError
<1>3. 1 \in 1 .. (MaxLines + 2)
  BY FileAssumption
<1> QED
  BY <1>2, <1>3, NothingRead DEF FileInv, FileState, FileKnown

LEMMA FileInvStep == FileInv /\ [Next]_allVars => FileInv'
<1> SUFFICES ASSUME FileInv, [Next]_allVars, part' = "config_file" PROVE FileInv'
  BY DEF FileInv
<1>1. ASSUME Reader!FileNext, part = "config_file" PROVE FileGoes
  <2>1. FileState(reader, heap, cur, mode, line, text, error)
    BY <1>1 DEF FileInv
  <2>2. CASE Reader!NotFound
    <3>1. FileIn("none")
      BY <2>1, <2>2 DEF FileIn, Reader!NotFound
    <3> QED
      BY <2>2, <3>1, NotFoundKeeps, Zenon
  <2>3. CASE Reader!Open
    <3>1. FileIn("none")
      BY <2>1, <2>3 DEF FileIn, Reader!Open
    <3> QED
      BY <2>3, <3>1, OpenKeeps, Zenon
  <2>4. CASE Reader!ReadStep
    <3>1. reader = "reading"
      BY <2>4 DEF Reader!ReadStep, Reader!BlankLine, Reader!OpenBracket, Reader!OpenSet, Reader!Attribute,
                  Reader!CloseBracket, Reader!BadLine, Reader!EndOfFile, Reader!Reading
    <3>2. LineFollows
      BY <2>1, <3>1 DEF LineFollows
    <3> QED
      BY <2>4, <3>2, BlankLineKeeps, OpenBracketKeeps, OpenSetKeeps, AttributeKeeps, CloseBracketKeeps,
         BadLineKeeps, EndOfFileKeeps, Zenon DEF Reader!ReadStep
  <2>5. CASE Reader!InputError
    <3>1. FileIn("reading")
      BY <2>1, <2>5 DEF FileIn, Reader!InputError
    <3> QED
      BY <2>5, <3>1, InputErrorKeeps, Zenon
  <2>6. CASE Reader!ReadsNothing
    BY <2>1, <2>6 DEF FileGoes, Reader!ReadsNothing, Reader!fileVars
  <2>7. CASE Reader!Edit
    <3>1. FileBuilt
      BY <1>1, <2>1, <2>7 DEF FileBuilt, FileIn, Reader!Edit
    <3> QED
      BY <2>7, <3>1, EditKeeps, Zenon
  <2>8. CASE Reader!DeleteFile
    <3>1. FileBuilt
      BY <1>1, <2>1, <2>8 DEF FileBuilt, FileIn, Reader!DeleteFile
    <3> QED
      BY <2>8, <3>1, DeleteFileKeeps, Zenon
  <2> QED
    BY <1>1, <2>2, <2>3, <2>4, <2>5, <2>6, <2>7, <2>8, Zenon DEF Reader!FileNext
<1>2. ASSUME UNCHANGED allVars PROVE FileGoes
  <2>1. /\ part = "config_file" /\ reader' = reader /\ heap' = heap /\ cur' = cur /\ mode' = mode
        /\ line' = line /\ text' = text /\ error' = error
    BY <1>2 DEF allVars, fileVars
  <2> QED
    BY <2>1 DEF FileGoes, FileInv
<1>3. ASSUME Next PROVE Reader!FileNext /\ part = "config_file"
  BY <1>3 DEF Next
<1>4. FileGoes
  <2>1. Next \/ UNCHANGED allVars
    OBVIOUS
  <2> QED
    BY <1>1, <1>2, <1>3, <2>1
<1>5. FileGoes => FileInv'
  BY DEF FileGoes, FileInv
<1> QED
  BY <1>4, <1>5

(* The types, and what is owned.                                           *)
LEMMA FileTyped ==
  ASSUME FileInv, part = "config_file"
  PROVE  Reader!FileTypeOK /\ Reader!ParentsOwn
<1>1. FileState(reader, heap, cur, mode, line, text, error)
  BY DEF FileInv
<1>2. FileKnown(mode, line, text, error)
  BY <1>1 DEF FileState
<1>3. CASE reader = "none"
  <2>1. heap = Reader!NoHeap /\ cur = Reader!Root
    BY <1>1, <1>3 DEF FileState
  <2>2. DOMAIN heap = {}
    BY <2>1 DEF Reader!NoHeap
  <2>3. Reader!FileTypeOK
    BY <1>2, <1>3, <2>1, <2>2 DEF Reader!FileTypeOK, FileKnown, Text
  <2>4. Reader!ParentsOwn
    BY <2>1, <2>2 DEF Reader!ParentsOwn
  <2> QED
    BY <2>3, <2>4
<1>4. CASE reader # "none"
  <2>1. SomeTree(heap, cur)
    <3>1. CASE reader = "reading"
      <4>1. Follows(text, heap, cur, mode, line) /\ error.kind \in {"none", "not_found", "parse_error"}
        BY <1>1, <1>2, <3>1 DEF FileState, FileKnown
      <4> QED
        BY <4>1, FollowsState
    <3>2. CASE reader # "reading"
      BY <1>1, <1>4, <3>2 DEF FileState
    <3> QED
      BY <3>1, <3>2
  <2>2. PICK K \in Nat : Tree(heap, K) /\ K <= MaxLines + MaxSets + 1 /\ cur \in 1 .. K
    BY <2>1 DEF SomeTree
  <2>3. DOMAIN heap = 1 .. K /\ \A a \in 1 .. K : heap[a] \in Reader!SetType(1 .. K)
    BY <2>2 DEF Tree
  <2>4. DOMAIN heap \subseteq Reader!Addresses
    BY <2>2, <2>3, FileAssumption DEF Reader!Addresses
  <2>5. reader \in {"none", "reading", "broken", "built", "edited"}
    BY <1>1 DEF FileState
  <2>6. Reader!FileTypeOK
    BY <1>2, <2>2, <2>3, <2>4, <2>5 DEF Reader!FileTypeOK, FileKnown, Text
  <2>7. Reader!ParentsOwn
    BY <1>4, <2>2, TreeOwned DEF Reader!ParentsOwn
  <2> QED
    BY <2>6, <2>7
<1> QED
  BY <1>3, <1>4

LEMMA FileInvTree == FileInv => FileIsTree
<1> SUFFICES ASSUME FileInv, part = "config_file"
             PROVE  Reader!FileTypeOK /\ Reader!FileIsTree /\ Reader!ParentsOwn
  BY DEF FileIsTree
<1>1. FileState(reader, heap, cur, mode, line, text, error)
  BY DEF FileInv
<1>2. reader = "built" => Finished(text, heap)
  BY <1>1 DEF FileState
<1>3. reader = "none" /\ error.kind = "parse_error" /\ text # <<>> => Named(text, error.line)
  BY <1>1 DEF FileState
<1>4. Reader!FileIsTree
  BY <1>2, <1>3 DEF Reader!FileIsTree, Finished, AllLegal, Named
<1> QED
  BY <1>4, FileTyped

(* The constructor of config_file makes the tree of sets that the brackets *)
(* of the text describe, or throws at the first line that is wrong, and    *)
(* every set is owned once and freed with the root.                        *)
THEOREM FilesAreTrees == Spec => []FileIsTree
<1>1. Init => FileInv
  BY FileInvInit
<1>2. FileInv /\ [Next]_allVars => FileInv'
  BY FileInvStep
<1>3. FileInv => FileIsTree
  BY FileInvTree
<1> QED
  BY <1>1, <1>2, <1>3, PTL DEF Spec
=============================================================================
