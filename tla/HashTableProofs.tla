-------------------------- MODULE HashTableProofs ---------------------------
(***************************************************************************)
(* Proofs about the hash tables, for any tables, keys, hash function and   *)
(* average length of the chains.                                           *)
(***************************************************************************)
EXTENDS HashTable, FiniteSetTheorems, SequenceTheorems, WellFoundedInduction, TLAPS

-----------------------------------------------------------------------------
(* Numbers                                                                 *)

(* A set of natural numbers that is not empty has a smallest element.      *)
LEMMA SmallestNumber ==
  ASSUME NEW S \in SUBSET Nat, S # {}
  PROVE  \E m \in S : \A n \in S : m <= n
<1>1. PICK x \in S : \A y \in S : ~(<<y, x>> \in OpToRel(<, Nat))
  BY NatLessThanWellFounded, WFMin
<1>2. \A y \in S : ~(y < x)
  BY <1>1 DEF OpToRel
<1> QED
  BY <1>2

(* Induction, with a set in the place of the predicate.                    *)
LEMMA EveryNumber ==
  ASSUME NEW S, 0 \in S, \A n \in Nat : n \in S => n + 1 \in S
  PROVE  \A n \in Nat : n \in S
<1> SUFFICES ASSUME NEW n \in Nat, n \notin S PROVE FALSE
  OBVIOUS
<1> DEFINE out == {m \in Nat : m \notin S}
<1>1. out \in SUBSET Nat /\ out # {}
  OBVIOUS
<1> HIDE DEF out
<1>2. PICK m \in out : \A x \in out : m <= x
  BY <1>1, SmallestNumber
<1>3. m \in Nat /\ m \notin S
  BY <1>2 DEF out
<1>4. m # 0 /\ m - 1 \in Nat /\ (m - 1) + 1 = m
  BY <1>3
<1>5. m - 1 \in S
  <2>1. m - 1 \notin out
    BY <1>2, <1>3, <1>4
  <2> QED
    BY <1>4, <2>1 DEF out
<1> QED
  BY <1>3, <1>4, <1>5

-----------------------------------------------------------------------------
(* The order of iteration                                                  *)

(* The recursive function of FlattenSeq(), up to chain n.                  *)
Flattens(f, c, n) == f = [i \in 1 .. n |-> IF i = 1 THEN c[i] ELSE f[i - 1] \o c[i]]

LEMMA FlatteningStep ==
  ASSUME NEW c, NEW n \in Nat, NEW f, Flattens(f, c, n)
  PROVE  \E g : Flattens(g, c, n + 1)
<1> DEFINE g == [i \in 1 .. n + 1 |-> IF i = n + 1 THEN IF i = 1 THEN c[i] ELSE f[i - 1] \o c[i]
                                      ELSE f[i]]
           h == [i \in 1 .. n + 1 |-> IF i = 1 THEN c[i] ELSE g[i - 1] \o c[i]]
<1>1. ASSUME NEW i \in 1 .. n + 1 PROVE g[i] = h[i]
  <2>1. CASE i = n + 1
    <3>1. i # 1 => i - 1 \in 1 .. n + 1 /\ i - 1 # n + 1
      BY <2>1
    <3>2. i # 1 => g[i - 1] = f[i - 1]
      BY <3>1
    <3> QED
      BY <2>1, <3>2
  <2>2. CASE i # n + 1
    <3>1. i \in 1 .. n
      BY <2>2
    <3>2. i # 1 => i - 1 \in 1 .. n + 1 /\ i - 1 # n + 1
      BY <3>1
    <3>3. i # 1 => g[i - 1] = f[i - 1]
      BY <3>2
    <3>4. f[i] = IF i = 1 THEN c[i] ELSE f[i - 1] \o c[i]
      BY <3>1, Zenon DEF Flattens
    <3>5. g[i] = f[i]
      BY <2>2
    <3>6. h[i] = IF i = 1 THEN c[i] ELSE g[i - 1] \o c[i]
      OBVIOUS
    <3> HIDE DEF g, h
    <3> QED
      BY <3>3, <3>4, <3>5, <3>6
  <2> QED
    BY <2>1, <2>2
<1>2. g = h
  <2> HIDE DEF h
  <2>1. DOMAIN g = DOMAIN h /\ h = [i \in DOMAIN h |-> h[i]]
    BY DEF h
  <2> QED
    BY <1>1, <2>1
<1>3. Flattens(g, c, n + 1)
  BY <1>2 DEF Flattens
<1> QED
  BY <1>3

LEMMA FlatteningExists ==
  ASSUME NEW c
  PROVE  \A n \in Nat : \E f : Flattens(f, c, n)
<1> DEFINE S == {n \in Nat : \E f : Flattens(f, c, n)}
<1>1. 0 \in S
  <2> DEFINE f == [i \in 1 .. 0 |-> c[i]]
  <2>1. f = [i \in 1 .. 0 |-> IF i = 1 THEN c[i] ELSE f[i - 1] \o c[i]]
    OBVIOUS
  <2>2. Flattens(f, c, 0)
    BY <2>1 DEF Flattens
  <2> QED
    BY <2>2
<1>2. \A n \in Nat : n \in S => n + 1 \in S
  BY FlatteningStep
<1> HIDE DEF S
<1>3. \A n \in Nat : n \in S
  BY <1>1, <1>2, EveryNumber
<1> QED
  BY <1>3 DEF S

(* Where the chains begin in the flattened sequence: off[b] is the number  *)
(* of nodes in the first b chains.                                         *)
Offsets(c, off) ==
  /\ off \in [0 .. Len(c) -> Nat] /\ off[0] = 0
  /\ \A b \in 1 .. Len(c) : off[b] = off[b - 1] + Len(c[b])

LEMMA OffsetsGrow ==
  ASSUME NEW N, NEW c \in Seq(Seq(N)), NEW off, Offsets(c, off)
  PROVE  \A b \in 0 .. Len(c) : \A a \in 0 .. b : off[a] <= off[b]
<1> DEFINE S == {b \in Nat : b <= Len(c) => \A a \in 0 .. b : off[a] <= off[b]}
<1>0. /\ off \in [0 .. Len(c) -> Nat] /\ Len(c) \in Nat
      /\ \A b \in 1 .. Len(c) : off[b] = off[b - 1] + Len(c[b]) /\ Len(c[b]) \in Nat
  BY DEF Offsets
<1>1. 0 \in S
  <2>1. off[0] \in Nat
    BY <1>0
  <2> QED
    BY <2>1
<1>2. ASSUME NEW n \in Nat, n \in S PROVE n + 1 \in S
  <2> SUFFICES ASSUME n + 1 <= Len(c), NEW a \in 0 .. n + 1 PROVE off[a] <= off[n + 1]
    OBVIOUS
  <2>1. n + 1 \in 1 .. Len(c) /\ n \in 0 .. Len(c) /\ (n + 1) - 1 = n
    BY <1>0
  <2>2. off[n + 1] = off[n] + Len(c[n + 1]) /\ Len(c[n + 1]) \in Nat
    BY <1>0, <2>1
  <2>3. off[n] \in Nat /\ off[n + 1] \in Nat
    <3>1. n + 1 \in 0 .. Len(c)
      BY <2>1
    <3> QED
      BY <1>0, <2>1, <3>1
  <2>4. CASE a = n + 1
    BY <2>3, <2>4
  <2>5. CASE a # n + 1
    <3>1. a \in 0 .. n /\ n <= Len(c) /\ a \in 0 .. Len(c)
      BY <1>0, <2>5, <2>1
    <3>2. off[a] <= off[n] /\ off[a] \in Nat
      BY <1>0, <1>2, <3>1
    <3> QED
      BY <2>2, <2>3, <3>2
  <2> QED
    BY <2>4, <2>5
<1> HIDE DEF S
<1>3. \A n \in Nat : n \in S
  BY <1>1, <1>2, EveryNumber
<1> QED
  BY <1>0, <1>3 DEF S

LEMMA Appended ==
  ASSUME NEW S, NEW A \in Seq(S), NEW B \in Seq(S), NEW c, c = A \o B
  PROVE  /\ c \in Seq(S) /\ Len(c) = Len(A) + Len(B)
         /\ \A n \in 1 .. Len(A) : c[n] = A[n]
         /\ \A n \in 1 .. Len(B) : c[Len(A) + n] = B[n]
  OBVIOUS

LEMMA FlattenedTyped ==
  ASSUME NEW N, NEW c \in Seq(Seq(N)), NEW f, Flattens(f, c, Len(c))
  PROVE  \A b \in 1 .. Len(c) : f[b] \in Seq(N)
<1> DEFINE S == {b \in Nat : b \in 1 .. Len(c) => f[b] \in Seq(N)}
<1>1. 0 \in S
  OBVIOUS
<1>2. ASSUME NEW n \in Nat, n \in S PROVE n + 1 \in S
  <2> SUFFICES ASSUME n + 1 \in 1 .. Len(c) PROVE f[n + 1] \in Seq(N)
    OBVIOUS
  <2>1. c[n + 1] \in Seq(N)
    OBVIOUS
  <2>2. f[n + 1] = IF n + 1 = 1 THEN c[n + 1] ELSE f[(n + 1) - 1] \o c[n + 1]
    BY Zenon DEF Flattens
  <2>3. CASE n = 0
    BY <2>1, <2>2, <2>3
  <2>4. CASE n # 0
    <3>1. n \in 1 .. Len(c) /\ (n + 1) - 1 = n /\ n + 1 # 1
      BY <2>4
    <3>2. f[n] \in Seq(N)
      BY <1>2, <3>1
    <3> QED
      BY <2>1, <2>2, <3>1, <3>2
  <2> QED
    BY <2>3, <2>4
<1> HIDE DEF S
<1>3. \A n \in Nat : n \in S
  BY <1>1, <1>2, EveryNumber
<1> QED
  BY <1>3 DEF S

Lengths(f, c) == [b \in 0 .. Len(c) |-> IF b = 0 THEN 0 ELSE Len(f[b])]

LEMMA FlattenedParts ==
  ASSUME NEW N, NEW c \in Seq(Seq(N)), NEW f, Flattens(f, c, Len(c))
  PROVE  /\ Offsets(c, Lengths(f, c))
         /\ \A b \in 1 .. Len(c) : \A d \in 1 .. b : \A j \in 1 .. Len(c[d]) :
              f[b][Lengths(f, c)[d - 1] + j] = c[d][j]
<1> DEFINE off == Lengths(f, c)
<1>0. Len(c) \in Nat /\ \A b \in 1 .. Len(c) : c[b] \in Seq(N) /\ Len(c[b]) \in Nat
  OBVIOUS
<1>1. \A b \in 1 .. Len(c) : f[b] \in Seq(N) /\ Len(f[b]) \in Nat /\ off[b] = Len(f[b])
  BY FlattenedTyped DEF Lengths
<1>2. off \in [0 .. Len(c) -> Nat] /\ off[0] = 0
  BY <1>0, <1>1 DEF Lengths
<1>3. ASSUME NEW b \in 1 .. Len(c)
      PROVE  /\ off[b] = off[b - 1] + Len(c[b])
             /\ b = 1 => f[b] = c[b]
             /\ b # 1 => /\ b - 1 \in 1 .. Len(c)
                         /\ \A j \in 1 .. Len(f[b - 1]) : f[b][j] = f[b - 1][j]
                         /\ \A j \in 1 .. Len(c[b]) : f[b][Len(f[b - 1]) + j] = c[b][j]
  <2>1. f[b] = IF b = 1 THEN c[b] ELSE f[b - 1] \o c[b]
    BY Zenon DEF Flattens
  <2>2. CASE b = 1
    <3>1. off[b] = Len(c[b]) /\ off[b - 1] = 0
      BY <1>1, <1>2, <2>1, <2>2
    <3> QED
      BY <1>0, <2>1, <2>2, <3>1
  <2>3. CASE b # 1
    <3>1. b - 1 \in 1 .. Len(c)
      BY <2>3
    <3>2. f[b - 1] \in Seq(N) /\ c[b] \in Seq(N) /\ f[b] = f[b - 1] \o c[b]
      BY <1>0, <1>1, <2>1, <2>3, <3>1
    <3>3. /\ Len(f[b]) = Len(f[b - 1]) + Len(c[b])
          /\ \A j \in 1 .. Len(f[b - 1]) : f[b][j] = f[b - 1][j]
          /\ \A j \in 1 .. Len(c[b]) : f[b][Len(f[b - 1]) + j] = c[b][j]
      <4>1. PICK A, B, C :
             A \in Seq(N) /\ B \in Seq(N) /\ A = f[b - 1] /\ B = c[b] /\ C = f[b]
        BY <3>2
      <4>2. C = A \o B
        BY <3>2, <4>1
      <4>3. /\ Len(C) = Len(A) + Len(B)
            /\ \A j \in 1 .. Len(A) : C[j] = A[j]
            /\ \A j \in 1 .. Len(B) : C[Len(A) + j] = B[j]
        BY <4>2, Appended
      <4> QED
        BY <4>1, <4>3
    <3>4. off[b] = Len(f[b]) /\ off[b - 1] = Len(f[b - 1])
      BY <1>1, <3>1
    <3> QED
      BY <2>3, <3>1, <3>3, <3>4
  <2> QED
    BY <2>2, <2>3
<1> HIDE DEF off
<1>4. Offsets(c, off)
  BY <1>2, <1>3 DEF Offsets
<1>5. \A b \in 0 .. Len(c) : \A a \in 0 .. b : off[a] <= off[b]
  BY <1>4, OffsetsGrow
<1>12. ASSUME NEW n \in Nat, n # 0, n + 1 \in 1 .. Len(c)
       PROVE  /\ n \in 1 .. Len(c)
              /\ \A j \in 1 .. Len(f[n]) : f[n + 1][j] = f[n][j]
              /\ \A j \in 1 .. Len(c[n + 1]) : f[n + 1][Len(f[n]) + j] = c[n + 1][j]
  <2>1. PICK b \in 1 .. Len(c) : b = n + 1
    BY <1>12
  <2>2. b # 1 /\ b - 1 = n
    BY <1>12, <2>1
  <2>3. /\ b - 1 \in 1 .. Len(c)
        /\ \A j \in 1 .. Len(f[b - 1]) : f[b][j] = f[b - 1][j]
        /\ \A j \in 1 .. Len(c[b]) : f[b][Len(f[b - 1]) + j] = c[b][j]
    BY <1>3, <2>2
  <2> QED
    BY <2>1, <2>2, <2>3
<1> DEFINE P(b) == b \in 1 .. Len(c) => \A d \in 1 .. b : \A j \in 1 .. Len(c[d]) :
                                          f[b][off[d - 1] + j] = c[d][j]
           S == {b \in Nat : P(b)}
<1>6. 0 \in S
  OBVIOUS
<1>7. ASSUME NEW n \in Nat, P(n) PROVE P(n + 1)
  <2> SUFFICES ASSUME n + 1 \in 1 .. Len(c), NEW d \in 1 .. n + 1, NEW j \in 1 .. Len(c[d])
               PROVE  f[n + 1][off[d - 1] + j] = c[d][j]
    OBVIOUS
  <2> HIDE DEF P
  <2>1. d \in 1 .. Len(c) /\ d - 1 \in 0 .. Len(c) /\ d \in 0 .. Len(c) /\ Len(c[d]) \in Nat
    BY <1>0
  <2>2. off[d - 1] \in Nat /\ off[d] \in Nat
    BY <1>2, <2>1
  <2>7. off[d] = off[d - 1] + Len(c[d])
    BY <1>3, <2>1
  <2>3. CASE n = 0
    <3>0. d = 1 /\ n + 1 = 1 /\ 1 \in 1 .. Len(c) /\ d - 1 = 0
      BY <2>3
    <3>1. off[d - 1] = 0 /\ f[n + 1] = c[1]
      BY <1>2, <1>3, <3>0
    <3>2. j \in Nat /\ off[d - 1] + j = j
      BY <2>1, <3>1
    <3> QED
      BY <3>0, <3>1, <3>2
  <2>4. CASE n # 0 /\ d = n + 1
    <3>1. /\ n \in 1 .. Len(c)
          /\ \A x \in 1 .. Len(c[n + 1]) : f[n + 1][Len(f[n]) + x] = c[n + 1][x]
      BY <1>12, <2>4
    <3>3. f[n + 1][Len(f[n]) + j] = c[n + 1][j]
      BY <2>4, <3>1
    <3>4. off[d - 1] = Len(f[n])
      BY <1>1, <2>4, <3>1
    <3> QED
      BY <2>4, <3>3, <3>4
  <2>5. CASE n # 0 /\ d # n + 1
    <3>1. /\ n \in 1 .. Len(c)
          /\ \A x \in 1 .. Len(f[n]) : f[n + 1][x] = f[n][x]
      BY <1>12, <2>5
    <3>2. Len(f[n]) \in Nat /\ off[n] = Len(f[n])
      BY <1>1, <3>1
    <3>3. d \in 1 .. n /\ d \in 0 .. n /\ n \in 0 .. Len(c)
      BY <2>5, <3>1
    <3>4. off[d] <= off[n] /\ off[n] \in Nat
      BY <1>2, <1>5, <3>3
    <3>5. off[d - 1] + j \in 1 .. Len(f[n])
      <4>1. PICK l \in Nat, x \in Nat, y \in Nat :
               l = Len(c[d]) /\ x = off[d - 1] /\ y = off[d]
        BY <2>1, <2>2
      <4>2. y = x + l /\ y <= Len(f[n]) /\ Len(f[n]) \in Nat /\ j \in 1 .. l
        BY <2>7, <3>2, <3>4, <4>1
      <4>3. x + j \in 1 .. Len(f[n])
        BY <4>2
      <4> QED
        BY <4>1, <4>3
    <3>6. f[n + 1][off[d - 1] + j] = f[n][off[d - 1] + j]
      BY <3>1, <3>5
    <3>7. f[n][off[d - 1] + j] = c[d][j]
      BY <1>7, <3>1, <3>3 DEF P
    <3> QED
      BY <3>6, <3>7
  <2> QED
    BY <2>3, <2>4, <2>5
<1> HIDE DEF P
<1>10. \A n \in Nat : n \in S => n + 1 \in S
  BY <1>7
<1> HIDE DEF S
<1>8. \A n \in Nat : n \in S
  BY <1>6, <1>10, EveryNumber
<1>9. \A b \in 1 .. Len(c) : P(b)
  BY <1>8 DEF S
<1>11. \A b \in 1 .. Len(c) : \A d \in 1 .. b : \A j \in 1 .. Len(c[d]) :
         f[b][off[d - 1] + j] = c[d][j]
  BY <1>9 DEF P
<1> QED
  BY <1>4, <1>11 DEF off

(* FlattenSeq() puts the chains behind each other.                         *)
FlatIs(c, off) ==
  /\ Offsets(c, off)
  /\ Len(FlattenSeq(c)) = off[Len(c)]
  /\ \A b \in 1 .. Len(c) : \A j \in 1 .. Len(c[b]) : FlattenSeq(c)[off[b - 1] + j] = c[b][j]

LEMMA FlatParts ==
  ASSUME NEW N, NEW c \in Seq(Seq(N))
  PROVE  FlattenSeq(c) \in Seq(N) /\ \E off : FlatIs(c, off)
<1>0. Len(c) \in Nat
  OBVIOUS
<1>1. CASE Len(c) = 0
  <2> DEFINE off == [b \in 0 .. Len(c) |-> 0]
  <2>1. FlattenSeq(c) = c /\ c = <<>>
    BY <1>1 DEF FlattenSeq
  <2>2. Offsets(c, off)
    BY <1>1 DEF Offsets
  <2>3. c \in Seq(N)
    BY <2>1
  <2>4. Len(FlattenSeq(c)) = off[Len(c)]
    BY <1>1, <2>1
  <2>5. FlatIs(c, off)
    BY <1>1, <2>2, <2>4 DEF FlatIs
  <2> QED
    BY <2>1, <2>3, <2>5
<1>2. CASE Len(c) # 0
  <2> DEFINE f == CHOOSE f : Flattens(f, c, Len(c))
             off == Lengths(f, c)
  <2>1. Flattens(f, c, Len(c))
    BY <1>0, FlatteningExists
  <2>2. FlattenSeq(c) = f[Len(c)]
    BY <1>2 DEF FlattenSeq, Flattens
  <2> HIDE DEF f
  <2>3. f[Len(c)] \in Seq(N)
    BY <1>0, <1>2, <2>1, FlattenedTyped
  <2>4. Len(f[Len(c)]) = off[Len(c)]
    BY <1>0, <1>2 DEF Lengths
  <2>5. /\ Offsets(c, off)
        /\ \A b \in 1 .. Len(c) : \A d \in 1 .. b : \A j \in 1 .. Len(c[d]) :
              f[b][off[d - 1] + j] = c[d][j]
    BY <2>1, FlattenedParts
  <2> HIDE DEF off
  <2>6. FlatIs(c, off)
    <3>1. Len(c) \in 1 .. Len(c)
      BY <1>0, <1>2
    <3> QED
      BY <2>2, <2>4, <2>5, <3>1 DEF FlatIs
  <2> QED
    BY <2>2, <2>3, <2>6
<1> QED
  BY <1>1, <1>2

(* Every place of the flattened sequence is a place of one chain, and the  *)
(* chains stay in order.                                                   *)
LEMMA FlatPlaces ==
  ASSUME NEW N, NEW c \in Seq(Seq(N)), NEW off, FlatIs(c, off)
  PROVE  /\ \A b \in 1 .. Len(c) : \A j \in 1 .. Len(c[b]) :
              off[b - 1] + j \in 1 .. Len(FlattenSeq(c))
         /\ \A i \in 1 .. Len(FlattenSeq(c)) : \E b \in 1 .. Len(c) : \E j \in 1 .. Len(c[b]) :
              i = off[b - 1] + j /\ FlattenSeq(c)[i] = c[b][j]
         /\ \A b, d \in 1 .. Len(c) : \A j \in 1 .. Len(c[b]) : \A k \in 1 .. Len(c[d]) :
              b < d => off[b - 1] + j < off[d - 1] + k
         /\ \A b \in 1 .. Len(c) : off[b - 1] \in Nat
<1> DEFINE flat == FlattenSeq(c)
           L == Len(c)
           M == Len(flat)
<1>0. /\ L \in Nat /\ off \in [0 .. L -> Nat] /\ off[0] = 0 /\ M = off[L]
      /\ \A b \in 1 .. L : off[b] = off[b - 1] + Len(c[b]) /\ Len(c[b]) \in Nat
      /\ \A b \in 1 .. L : \A j \in 1 .. Len(c[b]) : flat[off[b - 1] + j] = c[b][j]
  <2>1. /\ Len(c) \in Nat /\ off \in [0 .. Len(c) -> Nat] /\ off[0] = 0
        /\ Len(FlattenSeq(c)) = off[Len(c)]
        /\ \A b \in 1 .. Len(c) : off[b] = off[b - 1] + Len(c[b])
        /\ \A b \in 1 .. Len(c) : \A j \in 1 .. Len(c[b]) :
             FlattenSeq(c)[off[b - 1] + j] = c[b][j]
    BY DEF FlatIs, Offsets
  <2>2. ASSUME NEW b \in 1 .. Len(c) PROVE Len(c[b]) \in Nat
    <3>1. c[b] \in Seq(N)
      OBVIOUS
    <3> QED
      BY <3>1
  <2> QED
    BY <2>1, <2>2, Zenon
<1>1. \A b \in 0 .. L : \A a \in 0 .. b : off[a] <= off[b]
  BY OffsetsGrow DEF FlatIs
<1> HIDE DEF flat, L, M
<1>2. \A b \in 1 .. L : off[b - 1] \in Nat /\ off[b] \in Nat /\ b \in 0 .. L
  <2> SUFFICES ASSUME NEW b \in 1 .. L PROVE off[b - 1] \in Nat /\ off[b] \in Nat /\ b \in 0 .. L
    OBVIOUS
  <2>1. b - 1 \in 0 .. L /\ b \in 0 .. L
    BY <1>0
  <2> QED
    BY <1>0, <2>1
<1>3. M \in Nat
  BY <1>0
<1>4. ASSUME NEW b \in 1 .. L, NEW j \in 1 .. Len(c[b])
      PROVE  off[b - 1] + j \in 1 .. M
  <2>1. PICK l \in Nat, x \in Nat, y \in Nat : l = Len(c[b]) /\ x = off[b - 1] /\ y = off[b]
    BY <1>0, <1>2
  <2>2. y = x + l /\ j \in 1 .. l
    BY <1>0, <2>1
  <2>3. y <= M
    <3>1. L \in 0 .. L /\ b \in 0 .. L
      BY <1>0
    <3> QED
      BY <1>0, <1>1, <2>1, <3>1
  <2>4. x + j \in 1 .. M
    BY <1>3, <2>2, <2>3
  <2> QED
    BY <2>1, <2>4
<1>5. ASSUME NEW i \in 1 .. M
      PROVE  \E b \in 1 .. L : \E j \in 1 .. Len(c[b]) : i = off[b - 1] + j /\ flat[i] = c[b][j]
  <2> DEFINE up == {b \in 1 .. L : i <= off[b]}
  <2>1. up \in SUBSET Nat /\ L \in up
    <3>1. L # 0
      BY <1>0, <1>3
    <3>2. L \in 1 .. L
      BY <1>0, <3>1
    <3>3. i <= off[L]
      BY <1>0, <1>3
    <3> QED
      BY <1>0, <3>2, <3>3
  <2> HIDE DEF up
  <2>2. PICK b \in up : \A x \in up : b <= x
    BY <2>1, SmallestNumber
  <2>3. b \in 1 .. L /\ i <= off[b]
    BY <2>2 DEF up
  <2>4. off[b - 1] < i
    <3>1. CASE b = 1
      BY <1>0, <1>3, <3>1
    <3>2. CASE b # 1
      <4>1. b - 1 \in 1 .. L /\ ~(b <= b - 1)
        BY <1>0, <2>3, <3>2
      <4>2. b - 1 \notin up
        BY <2>2, <4>1
      <4>3. ~(i <= off[b - 1]) /\ off[b - 1] \in Nat
        BY <1>2, <2>3, <4>1, <4>2 DEF up
      <4> QED
        BY <1>3, <4>3
    <3> QED
      BY <3>1, <3>2
  <2>5. PICK l \in Nat, x \in Nat, y \in Nat : l = Len(c[b]) /\ x = off[b - 1] /\ y = off[b]
    BY <1>0, <1>2, <2>3
  <2>6. y = x + l /\ i <= y /\ x < i /\ i \in Nat
    BY <1>0, <1>3, <2>3, <2>4, <2>5
  <2>7. i - x \in 1 .. l /\ i = x + (i - x)
    BY <2>6
  <2>8. PICK j \in 1 .. l : i = x + j
    BY <2>7
  <2>9. j \in 1 .. Len(c[b]) /\ i = off[b - 1] + j
    BY <2>5, <2>8
  <2> QED
    BY <1>0, <2>3, <2>9
<1>6. ASSUME NEW b \in 1 .. L, NEW d \in 1 .. L, NEW j \in 1 .. Len(c[b]), NEW k \in 1 .. Len(c[d]),
             b < d
      PROVE  off[b - 1] + j < off[d - 1] + k
  <2>1. off[b] <= off[d - 1]
    <3>1. d - 1 \in 0 .. L /\ b \in 0 .. d - 1
      BY <1>0, <1>6
    <3> QED
      BY <1>1, <3>1
  <2>2. PICK l \in Nat, x \in Nat, y \in Nat, z \in Nat, m \in Nat :
           l = Len(c[b]) /\ x = off[b - 1] /\ y = off[b] /\ z = off[d - 1] /\ m = Len(c[d])
    BY <1>0, <1>2
  <2>3. y = x + l /\ y <= z /\ j \in 1 .. l /\ k \in 1 .. m
    BY <1>0, <2>1, <2>2
  <2>4. x + j < z + k
    BY <2>3
  <2> QED
    BY <2>2, <2>4
<1> QED
  BY <1>2, <1>4, <1>5, <1>6 DEF flat, L, M

-----------------------------------------------------------------------------
(* The invariant of one table                                              *)

InChains(c) == UNION {{c[b][i] : i \in 1 .. Len(c[b])} : b \in 1 .. Len(c)}

Hashed(v, c) ==
  \A b \in 1 .. Len(c) : \A i \in 1 .. Len(c[b]) :
    c[b][i] \in DOMAIN v /\ HashKey(v[c[b][i]], Len(c)) = b

Distinct(s) == \A i, j \in 1 .. Len(s) : s[i] = s[j] => i = j

Grouped(v, s) ==
  \A i, j \in 1 .. Len(s) : v[s[i]] = v[s[j]] => \A m \in i .. j : v[s[m]] = v[s[i]]

(* The chains of a table whose keys are v.                                 *)
Sound(v, c) ==
  /\ c \in Seq(Seq(Nodes)) /\ Hashed(v, c)
  /\ \A b \in 1 .. Len(c) : Distinct(c[b]) /\ Grouped(v, c[b])

LEMMA ChainPlaces ==
  ASSUME NEW N, NEW c \in Seq(Seq(N))
  PROVE  \A n : n \in InChains(c) <=> \E b \in 1 .. Len(c) : \E i \in 1 .. Len(c[b]) : n = c[b][i]
  BY DEF InChains

(* What the order of iteration inherits from the chains.                   *)
LEMMA FlatSound ==
  ASSUME NEW v, NEW c, Sound(v, c)
  PROVE  LET flat == FlattenSeq(c)
         IN  /\ flat \in Seq(Nodes) /\ Distinct(flat) /\ Grouped(v, flat)
             /\ {flat[i] : i \in 1 .. Len(flat)} = InChains(c)
<1> DEFINE flat == FlattenSeq(c)
           M == Len(flat)
<1>0. c \in Seq(Seq(Nodes)) /\ \A b \in 1 .. Len(c) : Len(c[b]) \in Nat
  BY DEF Sound
<1>1. flat \in Seq(Nodes) /\ \E off : FlatIs(c, off)
  BY <1>0, FlatParts
<1>2. PICK off : FlatIs(c, off)
  BY <1>1
<1>3. /\ \A b \in 1 .. Len(c) : \A j \in 1 .. Len(c[b]) :
           off[b - 1] + j \in 1 .. M /\ flat[off[b - 1] + j] = c[b][j]
      /\ \A i \in 1 .. M : \E b \in 1 .. Len(c) : \E j \in 1 .. Len(c[b]) :
           i = off[b - 1] + j /\ flat[i] = c[b][j]
      /\ \A b, d \in 1 .. Len(c) : \A j \in 1 .. Len(c[b]) : \A k \in 1 .. Len(c[d]) :
           b < d => off[b - 1] + j < off[d - 1] + k
      /\ \A b \in 1 .. Len(c) : off[b - 1] \in Nat
  <2>1. /\ \A b \in 1 .. Len(c) : \A j \in 1 .. Len(c[b]) : off[b - 1] + j \in 1 .. M
        /\ \A i \in 1 .. M : \E b \in 1 .. Len(c) : \E j \in 1 .. Len(c[b]) :
             i = off[b - 1] + j /\ flat[i] = c[b][j]
        /\ \A b, d \in 1 .. Len(c) : \A j \in 1 .. Len(c[b]) : \A k \in 1 .. Len(c[d]) :
             b < d => off[b - 1] + j < off[d - 1] + k
        /\ \A b \in 1 .. Len(c) : off[b - 1] \in Nat
    BY <1>0, <1>2, FlatPlaces
  <2>2. \A b \in 1 .. Len(c) : \A j \in 1 .. Len(c[b]) : flat[off[b - 1] + j] = c[b][j]
    BY <1>2 DEF FlatIs
  <2> QED
    BY <2>1, <2>2
<1>4. Len(c) \in Nat /\ M \in Nat
  BY <1>0, <1>1
<1> HIDE DEF flat, M
<1>5. {flat[i] : i \in 1 .. M} = InChains(c)
  <2>1. ASSUME NEW i \in 1 .. M PROVE flat[i] \in InChains(c)
    BY <1>0, <1>3, ChainPlaces
  <2>2. ASSUME NEW n \in InChains(c) PROVE \E i \in 1 .. M : n = flat[i]
    <3>1. PICK b \in 1 .. Len(c) : \E i \in 1 .. Len(c[b]) : n = c[b][i]
      BY <1>0, <2>2, ChainPlaces
    <3>2. PICK j \in 1 .. Len(c[b]) : n = c[b][j]
      BY <3>1
    <3>3. off[b - 1] + j \in 1 .. M /\ flat[off[b - 1] + j] = n
      BY <1>3, <3>2
    <3> QED
      BY <3>3
  <2> QED
    BY <2>1, <2>2
<1>6. Distinct(flat)
  <2> SUFFICES ASSUME NEW i \in 1 .. M, NEW j \in 1 .. M, flat[i] = flat[j] PROVE i = j
    BY DEF Distinct, M
  <2>1. PICK b \in 1 .. Len(c) : \E x \in 1 .. Len(c[b]) : i = off[b - 1] + x /\ flat[i] = c[b][x]
    BY <1>3
  <2>2. PICK x \in 1 .. Len(c[b]) : i = off[b - 1] + x /\ flat[i] = c[b][x]
    BY <2>1
  <2>3. PICK d \in 1 .. Len(c) : \E y \in 1 .. Len(c[d]) : j = off[d - 1] + y /\ flat[j] = c[d][y]
    BY <1>3
  <2>4. PICK y \in 1 .. Len(c[d]) : j = off[d - 1] + y /\ flat[j] = c[d][y]
    BY <2>3
  <2>5. b = d
    <3>1. c[b][x] = c[d][y]
      BY <2>2, <2>4
    <3>2. HashKey(v[c[b][x]], Len(c)) = b /\ HashKey(v[c[d][y]], Len(c)) = d
      BY DEF Sound, Hashed
    <3> QED
      BY <3>1, <3>2
  <2>6. x = y
    BY <2>2, <2>4, <2>5 DEF Sound, Distinct
  <2> QED
    BY <2>2, <2>4, <2>5, <2>6
<1>7. Grouped(v, flat)
  <2> SUFFICES ASSUME NEW i \in 1 .. M, NEW j \in 1 .. M, v[flat[i]] = v[flat[j]], NEW m \in i .. j
               PROVE  v[flat[m]] = v[flat[i]]
    BY DEF Grouped, M
  <2>1. PICK b \in 1 .. Len(c) : \E x \in 1 .. Len(c[b]) : i = off[b - 1] + x /\ flat[i] = c[b][x]
    BY <1>3
  <2>2. PICK x \in 1 .. Len(c[b]) : i = off[b - 1] + x /\ flat[i] = c[b][x]
    BY <2>1
  <2>3. PICK d \in 1 .. Len(c) : \E y \in 1 .. Len(c[d]) : j = off[d - 1] + y /\ flat[j] = c[d][y]
    BY <1>3
  <2>4. PICK y \in 1 .. Len(c[d]) : j = off[d - 1] + y /\ flat[j] = c[d][y]
    BY <2>3
  <2>5. b = d
    BY <2>2, <2>4 DEF Sound, Hashed
  <2>6. m \in 1 .. M
    BY <1>4
  <2>7. PICK e \in 1 .. Len(c) : \E z \in 1 .. Len(c[e]) : m = off[e - 1] + z /\ flat[m] = c[e][z]
    BY <1>3, <2>6
  <2>8. PICK z \in 1 .. Len(c[e]) : m = off[e - 1] + z /\ flat[m] = c[e][z]
    BY <2>7
  <2>9. i <= m /\ m <= j /\ i \in Nat /\ j \in Nat /\ m \in Nat
    BY <1>4
  <2>10. e = b
    <3>1. ~(e < b)
      <4>1. e < b => off[e - 1] + z < off[b - 1] + x
        BY <1>3
      <4> QED
        BY <2>2, <2>8, <2>9, <4>1
    <3>2. ~(b < e)
      <4>1. b < e => off[b - 1] + y < off[e - 1] + z
        BY <1>3, <2>5
      <4> QED
        BY <2>4, <2>5, <2>8, <2>9, <4>1
    <3> QED
      BY <1>4, <3>1, <3>2
  <2>11. PICK o \in Nat, l \in Nat : o = off[b - 1] /\ l = Len(c[b])
    BY <1>0, <1>3
  <2>12. x \in 1 .. l /\ y \in 1 .. l /\ z \in 1 .. l /\ i = o + x /\ j = o + y /\ m = o + z
    BY <2>2, <2>4, <2>5, <2>8, <2>10, <2>11
  <2>13. z \in x .. y
    BY <2>9, <2>12
  <2>14. v[c[b][x]] = v[c[b][y]]
    BY <2>2, <2>4, <2>5
  <2>15. v[c[b][z]] = v[c[b][x]]
    BY <2>5, <2>10, <2>13, <2>14 DEF Sound, Grouped
  <2> QED
    BY <2>2, <2>8, <2>10, <2>15
<1> QED
  BY <1>1, <1>5, <1>6, <1>7 DEF flat, M

-----------------------------------------------------------------------------
(* Sequences of different elements                                         *)

(* There are as many elements as places.                                   *)
LEMMA DistinctCounted ==
  ASSUME NEW N, NEW s \in Seq(N), Distinct(s)
  PROVE  LET T == {s[i] : i \in 1 .. Len(s)}
         IN  IsFiniteSet(T) /\ Cardinality(T) = Len(s)
<1> DEFINE T == {s[i] : i \in 1 .. Len(s)}
           n == Len(s)
           f == [i \in 1 .. n |-> s[i]]
<1>1. n \in Nat /\ IsFiniteSet(1 .. n) /\ Cardinality(1 .. n) = n
  <2>1. n \in Nat
    OBVIOUS
  <2> HIDE DEF n
  <2>2. IsFiniteSet(1 .. n) /\ Cardinality(1 .. n) = IF 1 > n THEN 0 ELSE n - 1 + 1
    BY <2>1, FS_Interval
  <2> QED
    BY <2>1, <2>2
<1>2. f \in Bijection(1 .. n, T)
  <2>1. f \in [1 .. n -> T]
    OBVIOUS
  <2>2. \A i, j \in 1 .. n : f[i] = f[j] => i = j
    BY DEF Distinct
  <2>3. \A t \in T : \E i \in 1 .. n : f[i] = t
    OBVIOUS
  <2> HIDE DEF f, T, n
  <2>4. f \in Injection(1 .. n, T) /\ f \in Surjection(1 .. n, T)
    BY <2>1, <2>2, <2>3 DEF Injection, Surjection, IsInjective
  <2> QED
    BY <2>4 DEF Bijection
<1> HIDE DEF f, T, n
<1>3. ExistsBijection(1 .. n, T)
  BY <1>2 DEF ExistsBijection
<1>4. IsFiniteSet(T) /\ Cardinality(T) = Cardinality(1 .. n)
  BY <1>1, <1>3, FS_Bijection
<1> QED
  BY <1>1, <1>4 DEF T, n

(* before[x] are the elements in front of x, in some order of S.           *)
Orders(S, before) ==
  /\ IsFiniteSet(S) /\ before \in [S -> SUBSET S]
  /\ \A x \in S : x \notin before[x]
  /\ \A x, y \in S : x # y => x \in before[y] \/ y \in before[x]
  /\ \A x, y \in S : x \in before[y] => before[x] \subseteq before[y]

(* InOrder() is the sequence of the elements of S in that order.           *)
LEMMA InOrderIs ==
  ASSUME NEW S, NEW before, Orders(S, before), NEW s, s = InOrder(S, before)
  PROVE  /\ s \in Seq(S) /\ Len(s) = Cardinality(S) /\ Distinct(s)
         /\ \A x \in S : \E i \in 1 .. Len(s) : s[i] = x
         /\ \A i, j \in 1 .. Len(s) : i < j <=> s[i] \in before[s[j]]
<1> DEFINE n == Cardinality(S)
           rank == [x \in S |-> Cardinality(before[x]) + 1]
<1>1. IsFiniteSet(S) /\ before \in [S -> SUBSET S] /\ n \in Nat
  BY FS_CardinalityType DEF Orders
<1>2. \A x \in S : IsFiniteSet(before[x]) /\ Cardinality(before[x]) \in Nat
  BY <1>1, FS_Subset, FS_CardinalityType
<1> HIDE DEF n
<1>3. ASSUME NEW x \in S, NEW y \in S, x \in before[y]
      PROVE  Cardinality(before[x]) < Cardinality(before[y])
  <2>1. before[x] \in SUBSET before[y] /\ before[x] # before[y]
    BY <1>1, <1>3 DEF Orders
  <2>2. /\ Cardinality(before[x]) <= Cardinality(before[y])
        /\ Cardinality(before[y]) = Cardinality(before[x]) => before[y] = before[x]
    BY <1>2, <2>1, FS_Subset
  <2> QED
    BY <1>2, <2>1, <2>2
<1>4. ASSUME NEW x \in S PROVE Cardinality(before[x]) + 1 \in 1 .. n
  <2>1. before[x] \in SUBSET S /\ before[x] # S
    BY <1>1 DEF Orders
  <2>2. Cardinality(before[x]) <= n /\ (n = Cardinality(before[x]) => S = before[x])
    BY <1>1, <2>1, FS_Subset DEF n
  <2> QED
    BY <1>1, <1>2, <2>1, <2>2
<1>5. \A x, y \in S : Cardinality(before[x]) = Cardinality(before[y]) => x = y
  <2> SUFFICES ASSUME NEW x \in S, NEW y \in S, Cardinality(before[x]) = Cardinality(before[y]), x # y
               PROVE  FALSE
    OBVIOUS
  <2>1. x \in before[y] \/ y \in before[x]
    BY DEF Orders
  <2> QED
    BY <1>2, <1>3, <2>1
<1>6. \A i \in 1 .. n : \E x \in S : Cardinality(before[x]) = i - 1
  <2>1. rank \in [S -> 1 .. n]
    BY <1>4
  <2>2. \A x, y \in S : rank[x] = rank[y] => x = y
    BY <1>2, <1>5
  <2>3. rank \in Injection(S, 1 .. n)
    <3> HIDE DEF rank
    <3> QED
      BY <2>1, <2>2 DEF Injection, IsInjective
  <2>4. IsFiniteSet(1 .. n) /\ Cardinality(1 .. n) = n
    <3>1. IsFiniteSet(1 .. n) /\ Cardinality(1 .. n) = IF 1 > n THEN 0 ELSE n - 1 + 1
      BY <1>1, FS_Interval
    <3> QED
      BY <1>1, <3>1
  <2>5. Cardinality(S) = Cardinality(1 .. n) <=> rank \in Surjection(S, 1 .. n)
    <3> HIDE DEF rank
    <3> QED
      BY <2>3, <2>4, FS_Injection
  <2>6. rank \in Surjection(S, 1 .. n)
    BY <2>4, <2>5 DEF n
  <2>7. \A i \in 1 .. n : \E x \in S : rank[x] = i
    <3> HIDE DEF rank
    <3> QED
      BY <2>6 DEF Surjection
  <2>8. ASSUME NEW i \in 1 .. n PROVE \E x \in S : Cardinality(before[x]) = i - 1
    <3>1. PICK x \in S : rank[x] = i
      BY <2>7
    <3>2. Cardinality(before[x]) + 1 = i /\ Cardinality(before[x]) \in Nat
      BY <1>2, <3>1
    <3> QED
      BY <3>2
  <2> QED
    BY <2>8
<1>7. \A i \in 1 .. n : s[i] \in S /\ Cardinality(before[s[i]]) = i - 1
  <2> SUFFICES ASSUME NEW i \in 1 .. n PROVE s[i] \in S /\ Cardinality(before[s[i]]) = i - 1
    OBVIOUS
  <2>1. s[i] = CHOOSE x \in S : Cardinality(before[x]) = i - 1
    BY DEF InOrder, n
  <2> QED
    BY <1>6, <2>1
<1>8. DOMAIN s = 1 .. n /\ s = [i \in 1 .. n |-> s[i]]
  BY DEF InOrder, n
<1>9. s \in Seq(S) /\ Len(s) = n
  BY <1>1, <1>7, <1>8
<1>10. Distinct(s)
  <2> SUFFICES ASSUME NEW i \in 1 .. n, NEW j \in 1 .. n, s[i] = s[j] PROVE i = j
    BY <1>9 DEF Distinct
  <2>1. i - 1 = j - 1
    BY <1>7
  <2> QED
    BY <1>1, <2>1
<1>11. \A x \in S : \E i \in 1 .. n : s[i] = x
  <2> SUFFICES ASSUME NEW x \in S PROVE \E i \in 1 .. n : s[i] = x
    OBVIOUS
  <2>1. PICK i \in 1 .. n : i = Cardinality(before[x]) + 1
    BY <1>4
  <2>2. Cardinality(before[s[i]]) = i - 1 /\ s[i] \in S
    BY <1>7
  <2>3. Cardinality(before[x]) = i - 1
    BY <1>2, <2>1
  <2>4. s[i] = x
    BY <1>5, <2>2, <2>3
  <2> QED
    BY <2>4
<1>12. \A i, j \in 1 .. n : i < j <=> s[i] \in before[s[j]]
  <2> SUFFICES ASSUME NEW i \in 1 .. n, NEW j \in 1 .. n PROVE i < j <=> s[i] \in before[s[j]]
    OBVIOUS
  <2>1. /\ s[i] \in S /\ Cardinality(before[s[i]]) = i - 1
        /\ s[j] \in S /\ Cardinality(before[s[j]]) = j - 1
    BY <1>7
  <2>2. s[i] \in before[s[j]] => i - 1 < j - 1
    BY <1>3, <2>1
  <2>3. s[j] \in before[s[i]] => j - 1 < i - 1
    BY <1>3, <2>1
  <2>4. s[i] = s[j] => i - 1 = j - 1
    BY <2>1
  <2>5. s[i] # s[j] => s[i] \in before[s[j]] \/ s[j] \in before[s[i]]
    BY <2>1 DEF Orders
  <2> QED
    BY <1>1, <2>2, <2>3, <2>4, <2>5
<1> QED
  BY <1>9, <1>10, <1>11, <1>12 DEF n

Elements(s) == {s[i] : i \in 1 .. Len(s)}

\* A chain of exactly the nodes in S.
ChainOf(r, N, S) == r \in Seq(N) /\ Distinct(r) /\ Elements(r) = S

\* r has the nodes at some places, in the order of the places.
Ordered(r, nodes, places, before) ==
  \E s : /\ \A i \in 1 .. Len(r) : s[i] \in places /\ r[i] = nodes[s[i]]
         /\ \A i, j \in 1 .. Len(r) : i < j <=> s[i] \in before[s[j]]

(* Moved() takes the nodes at some places and keeps them different.        *)
LEMMA MovedIs ==
  ASSUME NEW N, NEW nodes \in Seq(N), Distinct(nodes),
         NEW places \in SUBSET (1 .. Len(nodes)), NEW before, Orders(places, before)
  PROVE  /\ ChainOf(Moved(nodes, places, before), N, {nodes[p] : p \in places})
         /\ Ordered(Moved(nodes, places, before), nodes, places, before)
<1> DEFINE s == InOrder(places, before)
           r == Moved(nodes, places, before)
<1>1. /\ s \in Seq(places) /\ Distinct(s)
      /\ \A x \in places : \E i \in 1 .. Len(s) : s[i] = x
      /\ \A i, j \in 1 .. Len(s) : i < j <=> s[i] \in before[s[j]]
  BY InOrderIs
<1>2. r = [i \in DOMAIN s |-> nodes[s[i]]]
  BY DEF Moved
<1> HIDE DEF s, r
<1>3. Len(s) \in Nat /\ DOMAIN s = 1 .. Len(s) /\ \A i \in 1 .. Len(s) : s[i] \in places
  BY <1>1
<1>4. \A i \in 1 .. Len(s) : nodes[s[i]] \in N /\ s[i] \in 1 .. Len(nodes)
  <2> SUFFICES ASSUME NEW i \in 1 .. Len(s) PROVE nodes[s[i]] \in N /\ s[i] \in 1 .. Len(nodes)
    OBVIOUS
  <2>1. s[i] \in 1 .. Len(nodes)
    BY <1>3
  <2> QED
    BY <2>1
<1>5. r \in Seq(N) /\ Len(r) = Len(s) /\ \A i \in 1 .. Len(s) : r[i] = nodes[s[i]]
  BY <1>2, <1>3, <1>4
<1>6. Distinct(r)
  <2> SUFFICES ASSUME NEW i \in 1 .. Len(s), NEW j \in 1 .. Len(s), r[i] = r[j] PROVE i = j
    BY <1>5 DEF Distinct
  <2>1. s[i] = s[j]
    BY <1>4, <1>5 DEF Distinct
  <2> QED
    BY <1>1, <2>1 DEF Distinct
<1>7. Elements(r) = {nodes[p] : p \in places}
  <2>1. ASSUME NEW i \in 1 .. Len(r) PROVE r[i] \in {nodes[p] : p \in places}
    BY <1>3, <1>5
  <2>2. ASSUME NEW p \in places PROVE \E i \in 1 .. Len(r) : r[i] = nodes[p]
    <3>1. PICK i \in 1 .. Len(s) : s[i] = p
      BY <1>1
    <3> QED
      BY <1>5, <3>1
  <2> QED
    BY <2>1, <2>2 DEF Elements
<1>8. ChainOf(r, N, {nodes[p] : p \in places})
  BY <1>5, <1>6, <1>7 DEF ChainOf
<1>9. Ordered(r, nodes, places, before)
  BY <1>1, <1>3, <1>5 DEF Ordered
<1> QED
  BY <1>8, <1>9 DEF r

(* What erase() leaves of a chain.                                         *)
LEMMA WithoutIs ==
  ASSUME NEW N, NEW chain \in Seq(N), Distinct(chain), NEW removed, NEW v, Grouped(v, chain)
  PROVE  /\ ChainOf(Without(chain, removed), N, Elements(chain) \ removed)
         /\ Grouped(v, Without(chain, removed))
<1> DEFINE r == Without(chain, removed)
           kept == {i \in DOMAIN chain : chain[i] \notin removed}
           before == [i \in kept |-> {j \in kept : j < i}]
<1>1. Len(chain) \in Nat /\ DOMAIN chain = 1 .. Len(chain)
  OBVIOUS
<1>2. kept \in SUBSET (1 .. Len(chain)) /\ \A i \in kept : i \in Nat
  BY <1>1
<1>3. IsFiniteSet(kept)
  <2>1. IsFiniteSet(1 .. Len(chain))
    BY <1>1, FS_Interval
  <2> HIDE DEF kept
  <2> QED
    BY <1>2, <2>1, FS_Subset
<1>4. Orders(kept, before)
  <2> HIDE DEF kept
  <2>1. before \in [kept -> SUBSET kept]
    OBVIOUS
  <2>2. \A x, y \in kept : x \in before[y] <=> x < y
    OBVIOUS
  <2> HIDE DEF before
  <2>3. \A x \in kept : x \notin before[x]
    BY <1>2, <2>2
  <2>4. \A x, y \in kept : x # y => x \in before[y] \/ y \in before[x]
    BY <1>2, <2>2
  <2>5. ASSUME NEW x \in kept, NEW y \in kept, x \in before[y] PROVE before[x] \subseteq before[y]
    <3> SUFFICES ASSUME NEW z \in before[x] PROVE z \in before[y]
      OBVIOUS
    <3>1. z \in kept
      BY <2>1
    <3>2. z < x /\ x < y
      BY <2>2, <2>5, <3>1
    <3> QED
      BY <1>2, <2>2, <3>1, <3>2
  <2> QED
    BY <1>3, <2>1, <2>3, <2>4, <2>5 DEF Orders
<1>5. r = Moved(chain, kept, before)
  BY DEF Without
<1>6. /\ ChainOf(r, N, {chain[p] : p \in kept})
      /\ Ordered(r, chain, kept, before)
  <2> HIDE DEF kept, before, r
  <2> QED
    BY <1>2, <1>4, <1>5, MovedIs
<1>7. {chain[p] : p \in kept} = Elements(chain) \ removed
  BY <1>1 DEF Elements
<1>8. Grouped(v, r)
  <2> SUFFICES ASSUME NEW i \in 1 .. Len(r), NEW j \in 1 .. Len(r), v[r[i]] = v[r[j]], NEW m \in i .. j
               PROVE  v[r[m]] = v[r[i]]
    BY DEF Grouped
  <2>1. PICK s : /\ \A x \in 1 .. Len(r) : s[x] \in kept /\ r[x] = chain[s[x]]
                 /\ \A x, y \in 1 .. Len(r) : x < y <=> s[x] \in before[s[y]]
    <3> HIDE DEF kept, before, r
    <3> QED
      BY <1>6 DEF Ordered
  <2>2. Len(r) \in Nat
    BY <1>6 DEF ChainOf
  <2>3. m \in 1 .. Len(r) /\ i <= m /\ m <= j
    BY <2>2
  <2>4. \A x, y \in 1 .. Len(r) : x < y => s[x] < s[y]
    BY <2>1
  <2> HIDE DEF kept, before
  <2>5. s[i] \in 1 .. Len(chain) /\ s[j] \in 1 .. Len(chain) /\ s[m] \in 1 .. Len(chain)
    BY <1>2, <2>1, <2>3
  <2>6. (i < m => s[i] < s[m]) /\ (m < j => s[m] < s[j])
    BY <2>3, <2>4
  <2>7. (i = m \/ i < m) /\ (m = j \/ m < j)
    BY <2>2, <2>3
  <2>8. s[m] \in s[i] .. s[j]
    BY <1>1, <2>5, <2>6, <2>7
  <2>9. v[chain[s[i]]] = v[chain[s[j]]]
    BY <2>1
  <2>10. v[chain[s[m]]] = v[chain[s[i]]]
    BY <2>5, <2>8, <2>9 DEF Grouped
  <2> QED
    BY <2>1, <2>3, <2>10
<1>9. ChainOf(r, N, Elements(chain) \ removed)
  BY <1>6, <1>7
<1> QED
  BY <1>8, <1>9

(* What a chain looks like after a rehash.                                 *)
LEMMA NewChainIs ==
  ASSUME NEW N, NEW nodes \in Seq(N), Distinct(nodes), NEW v, Grouped(v, nodes),
         NEW places \in SUBSET (1 .. Len(nodes))
  PROVE  /\ ChainOf(NewChain(v, nodes, places), N, {nodes[p] : p \in places})
         /\ Grouped(v, NewChain(v, nodes, places))
<1> DEFINE r == NewChain(v, nodes, places)
           before == [i \in places |-> {j \in places : InFront(v, nodes, j, i)}]
           key(i) == v[nodes[i]]
<1>1. Len(nodes) \in Nat /\ \A i \in places : i \in Nat /\ i \in 1 .. Len(nodes)
  OBVIOUS
<1>2. IsFiniteSet(places)
  <2>1. IsFiniteSet(1 .. Len(nodes))
    BY <1>1, FS_Interval
  <2> QED
    BY <2>1, FS_Subset
<1>3. \A i, j \in places : key(i) = key(j) => \A m \in i .. j : key(m) = key(i)
  BY <1>1 DEF Grouped
<1>4. \A i, j \in places : SameRun(v, nodes, i, j) <=> key(i) = key(j)
  <2> SUFFICES ASSUME NEW i \in places, NEW j \in places
               PROVE  SameRun(v, nodes, i, j) <=> key(i) = key(j)
    OBVIOUS
  <2>1. j \in (i .. j) \cup (j .. i)
    BY <1>1
  <2>2. SameRun(v, nodes, i, j) => key(i) = key(j)
    BY <2>1 DEF SameRun
  <2>3. ASSUME key(i) = key(j), NEW m \in (i .. j) \cup (j .. i) PROVE key(m) = key(i)
    BY <1>3, <2>3
  <2> QED
    BY <2>2, <2>3 DEF SameRun
<1>5. \A i, j \in places : i \in before[j] <=> IF key(i) = key(j) THEN i < j ELSE j < i
  BY <1>4 DEF InFront
<1>6. before \in [places -> SUBSET places]
  OBVIOUS
<1> HIDE DEF before, key, r
<1>7. Orders(places, before)
  <2>1. \A x \in places : x \notin before[x]
    BY <1>1, <1>5
  <2>2. \A x, y \in places : x # y => x \in before[y] \/ y \in before[x]
    BY <1>1, <1>5
  <2>3. ASSUME NEW x \in places, NEW y \in places, x \in before[y] PROVE before[x] \subseteq before[y]
    <3> SUFFICES ASSUME NEW z \in before[x] PROVE z \in before[y]
      OBVIOUS
    <3>1. z \in places
      BY <1>6
    <3>2. x \in Nat /\ y \in Nat /\ z \in Nat
      BY <1>1, <3>1
    <3>3. /\ IF key(x) = key(y) THEN x < y ELSE y < x
          /\ IF key(z) = key(x) THEN z < x ELSE x < z
      BY <1>5, <2>3, <3>1
    <3>4. CASE key(z) = key(x) /\ key(x) # key(y)
      <4>1. ~(z < y)
        <5>1. z < y => y \in z .. x
          BY <3>2, <3>3, <3>4
        <5> QED
          BY <1>3, <3>1, <3>4, <5>1
      <4>2. z # y
        BY <3>4
      <4>3. y < z
        BY <3>2, <4>1, <4>2
      <4> QED
        BY <1>5, <3>1, <3>4, <4>3
    <3>5. CASE key(z) # key(x) /\ key(x) = key(y)
      <4>1. ~(z < y)
        <5>1. z < y => z \in x .. y
          BY <3>2, <3>3, <3>5
        <5> QED
          BY <1>3, <3>1, <3>5, <5>1
      <4>2. z # y
        BY <3>5
      <4>3. y < z
        BY <3>2, <4>1, <4>2
      <4> QED
        BY <1>5, <3>1, <3>5, <4>3
    <3>6. CASE key(z) # key(x) /\ key(x) # key(y)
      <4>1. y < x /\ x < z
        BY <3>3, <3>6
      <4>2. x \in y .. z /\ y < z
        BY <3>2, <4>1
      <4>3. key(z) # key(y)
        BY <1>3, <3>1, <3>6, <4>2
      <4> QED
        BY <1>5, <3>1, <4>2, <4>3
    <3>7. CASE key(z) = key(x) /\ key(x) = key(y)
      <4>1. z < y
        BY <3>2, <3>3, <3>7
      <4> QED
        BY <1>5, <3>1, <3>7, <4>1
    <3> QED
      BY <3>4, <3>5, <3>6, <3>7
  <2> QED
    BY <1>2, <1>6, <2>1, <2>2, <2>3 DEF Orders
<1>8. r = Moved(nodes, places, before)
  BY DEF NewChain, before, r
<1>9. /\ ChainOf(r, N, {nodes[p] : p \in places})
      /\ Ordered(r, nodes, places, before)
  BY <1>7, <1>8, MovedIs
<1>10. Grouped(v, r)
  <2> SUFFICES ASSUME NEW i \in 1 .. Len(r), NEW j \in 1 .. Len(r), v[r[i]] = v[r[j]], NEW m \in i .. j
               PROVE  v[r[m]] = v[r[i]]
    BY DEF Grouped
  <2>1. PICK s : /\ \A x \in 1 .. Len(r) : s[x] \in places /\ r[x] = nodes[s[x]]
                 /\ \A x, y \in 1 .. Len(r) : x < y <=> s[x] \in before[s[y]]
    BY <1>9 DEF Ordered
  <2>2. Len(r) \in Nat
    BY <1>9 DEF ChainOf
  <2>3. m \in 1 .. Len(r) /\ i <= m /\ m <= j
    BY <2>2
  <2>4. \A x \in 1 .. Len(r) : v[r[x]] = key(s[x])
    BY <2>1 DEF key
  <2>5. s[i] \in places /\ s[j] \in places /\ s[m] \in places
    BY <2>1, <2>3
  <2>6. key(s[i]) = key(s[j])
    BY <2>4
  <2> SUFFICES ASSUME key(s[m]) # key(s[i]) PROVE FALSE
    BY <2>3, <2>4
  <2>7. i < m /\ m < j
    <3>1. i # m /\ m # j
      BY <2>6
    <3> QED
      BY <2>2, <2>3, <3>1
  <2>8. s[i] \in before[s[m]] /\ s[m] \in before[s[j]]
    BY <2>1, <2>3, <2>7
  <2>9. s[m] < s[i] /\ s[j] < s[m]
    BY <1>5, <2>5, <2>6, <2>8
  <2>10. i < j
    BY <2>2, <2>3, <2>7
  <2>11. s[i] \in before[s[j]]
    BY <2>1, <2>10
  <2>12. s[i] < s[j]
    BY <1>5, <2>5, <2>6, <2>11
  <2>13. PICK x \in Nat, y \in Nat, z \in Nat : x = s[i] /\ y = s[m] /\ z = s[j]
    BY <1>1, <2>5
  <2>14. y < x /\ z < y /\ x < z
    BY <2>9, <2>12, <2>13
  <2> QED
    BY <2>14
<1> QED
  BY <1>9, <1>10 DEF r

-----------------------------------------------------------------------------
(* resize()                                                                *)

LEMMA Remainder ==
  ASSUME NEW a \in Nat, NEW b \in Nat \ {0}
  PROVE  a % b \in 0 .. b - 1
  OBVIOUS

LEMMA Quotient ==
  ASSUME NEW a \in Nat, NEW b \in Nat \ {0}
  PROVE  a \div b \in Nat /\ a < b * (1 + a \div b)
<1>1. a \div b \in Nat
  OBVIOUS
<1>2. a = b * (a \div b) + (a % b)
  OBVIOUS
<1>3. PICK q \in Nat, r \in 0 .. b - 1 : q = a \div b /\ r = a % b
  BY <1>1, Remainder
<1>4. a = b * q + r
  BY <1>2, <1>3
<1>5. a < b * (1 + q)
  BY <1>4
<1> QED
  BY <1>1, <1>3, <1>5

LEMMA MoreChains ==
  ASSUME NEW a \in Nat, NEW b \in Nat \ {0}, NEW q \in Nat, NEW n \in Nat, q <= n, a < b * q
  PROVE  a < b * n
<1>1. PICK d \in Nat : n = q + d
  <2>1. n - q \in Nat /\ n = q + (n - q)
    OBVIOUS
  <2> QED
    BY <2>1
<1>2. b * n = b * q + b * d /\ b * d \in Nat /\ b * q \in Nat
  BY <1>1
<1> QED
  BY <1>2

(* A key has a chain.                                                      *)
LEMMA HashKeyInRange ==
  ASSUME NEW k \in Keys, NEW n \in Nat \ {0}
  PROVE  HashKey(k, n) \in 1 .. n
<1>1. Hash[k] \in Nat
  BY HashTableAssumption
<1>2. PICK h \in 0 .. n - 1 : h = Hash[k] % n
  BY <1>1, Remainder
<1> QED
  BY <1>2 DEF HashKey

KeysKnown(v, S) == \A n \in S : n \in DOMAIN v /\ v[n] \in Keys

(* A rehash keeps the nodes and the table sound.                           *)
LEMMA RehashSound ==
  ASSUME NEW v, NEW c, Sound(v, c), KeysKnown(v, InChains(c)), NEW n \in Nat \ {0}
  PROVE  /\ Sound(v, Rehash(v, c, n)) /\ Len(Rehash(v, c, n)) = n
         /\ InChains(Rehash(v, c, n)) = InChains(c)
<1> DEFINE r == Rehash(v, c, n)
           flat == FlattenSeq(c)
           places(h) == {i \in DOMAIN flat : HashKey(v[flat[i]], n) = h}
<1>1. /\ flat \in Seq(Nodes) /\ Distinct(flat) /\ Grouped(v, flat)
      /\ {flat[i] : i \in 1 .. Len(flat)} = InChains(c)
  BY FlatSound
<1>2. r = [h \in 1 .. n |-> NewChain(v, flat, places(h))]
  BY DEF Rehash
<1> HIDE DEF flat, r
<1>3. DOMAIN flat = 1 .. Len(flat) /\ Len(flat) \in Nat
  BY <1>1
<1>4. ASSUME NEW h \in 1 .. n
      PROVE  r[h] \in Seq(Nodes) /\ Distinct(r[h]) /\ Grouped(v, r[h])
             /\ Elements(r[h]) = {flat[p] : p \in places(h)}
  <2>1. places(h) \in SUBSET (1 .. Len(flat))
    BY <1>3
  <2> HIDE DEF places
  <2>2. /\ ChainOf(NewChain(v, flat, places(h)), Nodes, {flat[p] : p \in places(h)})
        /\ Grouped(v, NewChain(v, flat, places(h)))
    BY <1>1, <2>1, NewChainIs
  <2> QED
    BY <1>2, <2>2 DEF ChainOf
<1>5. r \in Seq(Seq(Nodes)) /\ Len(r) = n
  <2>1. r \in [1 .. n -> Seq(Nodes)]
    BY <1>2, <1>4
  <2> QED
    BY <2>1
<1>6. \A p \in 1 .. Len(flat) : flat[p] \in InChains(c) /\ flat[p] \in DOMAIN v /\ v[flat[p]] \in Keys
  BY <1>1 DEF KeysKnown
<1>7. ASSUME NEW h \in 1 .. n, NEW i \in 1 .. Len(r[h])
      PROVE  /\ r[h][i] \in DOMAIN v /\ HashKey(v[r[h][i]], n) = h
             /\ r[h][i] \in InChains(c)
  <2>1. r[h][i] \in Elements(r[h])
    BY DEF Elements
  <2>2. PICK p \in places(h) : r[h][i] = flat[p]
    BY <1>4, <2>1
  <2> QED
    BY <1>3, <1>6, <2>2
<1>8. ASSUME NEW x \in InChains(c) PROVE \E h \in 1 .. n : \E i \in 1 .. Len(r[h]) : x = r[h][i]
  <2>1. PICK p \in 1 .. Len(flat) : flat[p] = x
    BY <1>1
  <2>2. PICK h \in 1 .. n : h = HashKey(v[x], n)
    BY <1>6, <2>1, HashKeyInRange
  <2>3. p \in places(h)
    BY <1>3, <2>1, <2>2
  <2>4. x \in Elements(r[h])
    BY <1>4, <2>1, <2>3
  <2> QED
    BY <2>4 DEF Elements
<1>9. InChains(r) = InChains(c)
  <2>1. \A x : x \in InChains(r) <=> \E b \in 1 .. Len(r) : \E i \in 1 .. Len(r[b]) : x = r[b][i]
    BY <1>5, ChainPlaces
  <2>2. InChains(r) \subseteq InChains(c)
    <3> SUFFICES ASSUME NEW x \in InChains(r) PROVE x \in InChains(c)
      OBVIOUS
    <3>1. PICK b \in 1 .. Len(r) : \E i \in 1 .. Len(r[b]) : x = r[b][i]
      BY <2>1
    <3> QED
      BY <1>5, <1>7, <3>1
  <2>3. InChains(c) \subseteq InChains(r)
    BY <1>5, <1>8, <2>1
  <2> QED
    BY <2>2, <2>3
<1>10. Sound(v, r)
  BY <1>4, <1>5, <1>7 DEF Sound, Hashed
<1> QED
  BY <1>5, <1>9, <1>10 DEF r

(* There are finitely many nodes in a table.                               *)
LEMMA CountedNodes ==
  ASSUME NEW v, NEW c, Sound(v, c)
  PROVE  /\ IsFiniteSet(InChains(c)) /\ Cardinality(InChains(c)) \in Nat
         /\ Cardinality(InChains(c)) = Len(FlattenSeq(c))
         /\ InChains(c) \subseteq Nodes
<1> DEFINE flat == FlattenSeq(c)
<1>1. /\ flat \in Seq(Nodes) /\ Distinct(flat)
      /\ {flat[i] : i \in 1 .. Len(flat)} = InChains(c)
  BY FlatSound
<1> HIDE DEF flat
<1>2. IsFiniteSet(InChains(c)) /\ Cardinality(InChains(c)) = Len(flat)
  BY <1>1, DistinctCounted
<1>3. \A i \in 1 .. Len(flat) : flat[i] \in Nodes
  BY <1>1
<1> QED
  BY <1>1, <1>2, <1>3, FS_CardinalityType DEF flat

(* So does a resize, and the chains are then short enough.                 *)
LEMMA ResizeSound ==
  ASSUME NEW v, NEW c, Sound(v, c), KeysKnown(v, InChains(c)),
         NEW size \in Nat, size = Cardinality(InChains(c))
  PROVE  /\ Sound(v, Resize(v, c, size))
         /\ InChains(Resize(v, c, size)) = InChains(c)
         /\ Len(Resize(v, c, size)) \in Nat \ {0}
         /\ size < AvgBucketCount * Len(Resize(v, c, size))
<1> DEFINE q == size \div AvgBucketCount
<1>1. AvgBucketCount \in Nat \ {0}
  BY HashTableAssumption
<1>2. q \in Nat /\ size < AvgBucketCount * (1 + q)
  BY <1>1, Quotient
<1>3. c \in Seq(Seq(Nodes)) /\ Len(c) \in Nat
  BY DEF Sound
<1> HIDE DEF q
<1>4. CASE size = 0
  <2> DEFINE e == <<<<>>>>
  <2>1. Resize(v, c, size) = e
    BY <1>4 DEF Resize
  <2>2. e \in Seq(Seq(Nodes)) /\ Len(e) = 1 /\ e[1] = <<>>
    OBVIOUS
  <2> HIDE DEF e
  <2>3. Len(e[1]) = 0
    BY <2>2
  <2>4. InChains(e) = {}
    BY <2>2, <2>3 DEF InChains
  <2>5. InChains(c) = {}
    BY <1>4, CountedNodes, FS_EmptySet
  <2>6. Sound(v, e)
    BY <2>2, <2>3 DEF Sound, Hashed, Distinct, Grouped
  <2>7. size < AvgBucketCount * Len(e)
    BY <1>1, <1>4, <2>2
  <2> QED
    BY <2>1, <2>2, <2>4, <2>5, <2>6, <2>7
<1>5. CASE size # 0 /\ 1 + q > Len(c)
  <2>1. Resize(v, c, size) = Rehash(v, c, 1 + q)
    BY <1>5 DEF Resize, Grows, q
  <2>2. 1 + q \in Nat \ {0}
    BY <1>2
  <2>3. /\ Sound(v, Rehash(v, c, 1 + q)) /\ Len(Rehash(v, c, 1 + q)) = 1 + q
        /\ InChains(Rehash(v, c, 1 + q)) = InChains(c)
    BY <2>2, RehashSound
  <2> QED
    BY <1>2, <2>1, <2>2, <2>3
<1>6. CASE size # 0 /\ ~(1 + q > Len(c))
  <2>1. Resize(v, c, size) = c
    BY <1>6 DEF Resize, Grows, q
  <2>2. 1 + q \in Nat /\ 1 + q <= Len(c) /\ Len(c) # 0
    BY <1>2, <1>3, <1>6
  <2>3. size < AvgBucketCount * Len(c)
    BY <1>1, <1>2, <1>3, <2>2, MoreChains
  <2> QED
    BY <1>3, <2>1, <2>2, <2>3
<1> QED
  BY <1>4, <1>5, <1>6

-----------------------------------------------------------------------------
(* insert()                                                                *)

\* s is q with n at place p.
HasAt(s, N, q, p, n) ==
  /\ s \in Seq(N) /\ Len(s) = Len(q) + 1
  /\ \A i \in 1 .. Len(q) + 1 : s[i] = IF i < p THEN q[i] ELSE IF i = p THEN n ELSE q[i - 1]

LEMMA InsertAtIs ==
  ASSUME NEW N, NEW q \in Seq(N), NEW p \in 1 .. Len(q) + 1, NEW n \in N
  PROVE  HasAt(InsertAt(q, p, n), N, q, p, n)
<1>0. Len(q) \in Nat /\ p \in Int
  OBVIOUS
<1>11. PICK a : a = SubSeq(q, 1, p - 1)
  OBVIOUS
<1>1. a \in Seq(N) /\ Len(a) = p - 1 /\ \A i \in 1 .. p - 1 : a[i] = q[i]
  <2>1. \A i \in 1 .. p - 1 : q[i] \in N
    OBVIOUS
  <2>2. /\ a \in Seq(N)
        /\ Len(a) = IF 1 <= p - 1 THEN p - 1 - 1 + 1 ELSE 0
        /\ \A i \in 1 .. p - 1 - 1 + 1 : a[i] = q[1 + i - 1]
    BY <1>0, <1>11, <2>1, SubSeqProperties
  <2> QED
    BY <1>0, <2>2
<1>12. PICK c : c = SubSeq(q, p, Len(q))
  OBVIOUS
<1>2. c \in Seq(N) /\ Len(c) = Len(q) + 1 - p /\ \A i \in 1 .. Len(q) + 1 - p : c[i] = q[p + i - 1]
  <2>1. \A i \in p .. Len(q) : q[i] \in N
    OBVIOUS
  <2>2. /\ c \in Seq(N)
        /\ Len(c) = IF p <= Len(q) THEN Len(q) - p + 1 ELSE 0
        /\ \A i \in 1 .. Len(q) - p + 1 : c[i] = q[p + i - 1]
    BY <1>0, <1>12, <2>1, SubSeqProperties
  <2> QED
    BY <1>0, <2>2
<1>3. PICK b \in Seq(N) : b = <<n>> /\ Len(b) = 1 /\ b[1] = n
  <2> DEFINE b == <<n>>
  <2>1. b \in Seq(N) /\ Len(b) = 1 /\ b[1] = n
    OBVIOUS
  <2> QED
    BY <2>1
<1>4. InsertAt(q, p, n) = (a \o b) \o c
  BY <1>11, <1>12, <1>3 DEF InsertAt
<1>5. PICK d : d = a \o b
  OBVIOUS
<1>6. d \in Seq(N) /\ Len(d) = p
      /\ \A i \in 1 .. p : d[i] = IF i <= p - 1 THEN a[i] ELSE b[i - (p - 1)]
  <2>1. Len(a) + Len(b) = p
    BY <1>0, <1>1, <1>3
  <2> QED
    BY <1>1, <1>5, <2>1, Appended
<1>7. PICK e : e = d \o c
  OBVIOUS
<1>8. e \in Seq(N) /\ Len(e) = Len(q) + 1
      /\ \A i \in 1 .. Len(q) + 1 : e[i] = IF i <= p THEN d[i] ELSE c[i - p]
  <2>1. d \in Seq(N) /\ c \in Seq(N)
    BY <1>2, <1>6
  <2>2. e \in Seq(N) /\ Len(e) = Len(d) + Len(c)
        /\ \A i \in 1 .. Len(d) + Len(c) : e[i] = IF i <= Len(d) THEN d[i] ELSE c[i - Len(d)]
    BY <1>7, <2>1, Appended
  <2>3. Len(d) = p /\ Len(d) + Len(c) = Len(q) + 1
    BY <1>0, <1>2, <1>6
  <2> QED
    BY <2>2, <2>3
<1>9. ASSUME NEW i \in 1 .. Len(q) + 1 
      PROVE  e[i] = IF i < p THEN q[i] ELSE IF i = p THEN n ELSE q[i - 1]
  <2>1. CASE i < p
    <3>1. i \in 1 .. p - 1 /\ i \in 1 .. p /\ i <= p
      BY <1>0, <2>1
    <3> QED
      BY <1>1, <1>6, <1>8, <3>1, <2>1
  <2>2. CASE i = p
    <3>1. p - (p - 1) = 1 /\ i \in 1 .. p /\ ~(i <= p - 1) /\ i <= p
      BY <1>0, <2>2
    <3>2. e[i] = b[1]
      BY <1>6, <1>8, <2>2, <3>1
    <3> QED
      BY <1>3, <2>2, <3>1, <3>2
  <2>3. CASE i > p
    <3>1. i - p \in 1 .. Len(q) + 1 - p /\ p + (i - p) - 1 = i - 1 /\ ~(i <= p) /\ ~(i < p) /\ i # p
      BY <1>0, <2>3
    <3>2. e[i] = c[i - p]
      BY <1>8, <3>1
    <3>3. c[i - p] = q[p + (i - p) - 1]
      BY <1>2, <3>1
    <3> QED
      BY <3>1, <3>2, <3>3
  <2> QED
    BY <1>0, <2>1, <2>2, <2>3
<1> QED 
  BY <1>4, <1>5, <1>7, <1>8, <1>9 DEF HasAt

LEMMA FirstPlace ==
  ASSUME NEW S \in SUBSET Nat, S # {}
  PROVE  Min(S) \in S /\ \A j \in S : Min(S) <= j
<1>1. \E m \in S : \A j \in S : m <= j
  BY SmallestNumber
<1> QED
  BY <1>1 DEF Min

(* The place of a node in a sequence.                                      *)
LEMMA PlaceIs ==
  ASSUME NEW N, NEW q \in Seq(N), Distinct(q), NEW i \in 1 .. Len(q)
  PROVE  Place(q, q[i]) = i
<1> DEFINE S == {j \in 1 .. Len(q) : q[j] = q[i]}
<1>1. S = {i}
  BY DEF Distinct
<1>2. Place(q, q[i]) = IF S # {} THEN Min(S) ELSE 0
  BY DEF Place, SelectInSeq
<1> HIDE DEF S
<1>3. S \in SUBSET Nat /\ S # {}
  BY <1>1
<1>4. Min(S) \in S
  BY <1>3, FirstPlace
<1> QED
  BY <1>1, <1>2, <1>3, <1>4

\* p is the place of the first node of the chain q with key k, or the place
\* behind its last node.
FoundAt(v, q, k, p) ==
  /\ p \in 1 .. Len(q) + 1
  /\ \A i \in 1 .. Len(q) : i < p => v[q[i]] # k
  /\ p <= Len(q) => v[q[p]] = k

(* find_node() finds it.                                                   *)
LEMMA FindNodeIs ==
  ASSUME NEW t, NEW k, Chain(t, k) \in Seq(Nodes)
  PROVE  FoundAt(val, Chain(t, k), k, FindNode(t, k))
<1> DEFINE q == Chain(t, k)
           S == {i \in 1 .. Len(q) : val[q[i]] = k}
           first == IF S # {} THEN Min(S) ELSE 0
<1>1. FindNode(t, k) = IF first = 0 THEN Len(q) + 1 ELSE first
  BY DEF FindNode, SelectInSeq
<1>2. Len(q) \in Nat
  OBVIOUS
<1>3. S \in SUBSET Nat /\ \A i : i \in S <=> i \in 1 .. Len(q) /\ val[q[i]] = k
  BY <1>2
<1> HIDE DEF S, q
<1>4. CASE S = {}
  <2>1. FindNode(t, k) = Len(q) + 1
    BY <1>1, <1>4
  <2>2. FoundAt(val, q, k, Len(q) + 1)
    BY <1>2, <1>3, <1>4 DEF FoundAt
  <2> QED
    BY <2>1, <2>2 DEF q
<1>5. CASE S # {}
  <2>1. PICK m : m = Min(S)
    OBVIOUS
  <2>2. m \in S /\ \A j \in S : m <= j
    BY <1>3, <1>5, <2>1, FirstPlace
  <2>3. m \in 1 .. Len(q) /\ val[q[m]] = k
    BY <1>3, <2>2
  <2>4. FindNode(t, k) = m
    BY <1>1, <1>5, <2>1, <2>3
  <2>5. \A i \in 1 .. Len(q) : i < m => val[q[i]] # k
    BY <1>2, <1>3, <2>2, <2>3
  <2>6. FoundAt(val, q, k, m)
    BY <1>2, <2>3, <2>5 DEF FoundAt
  <2> QED
    BY <2>4, <2>6 DEF q
<1> QED
  BY <1>4, <1>5

(* A new node goes in front of the nodes with its key.                     *)
LEMMA InsertedChain ==
  ASSUME NEW v, NEW q \in Seq(Nodes), Distinct(q), Grouped(v, q), NEW k, NEW p, FoundAt(v, q, k, p),
         NEW n \in Nodes, n \notin Elements(q), NEW w, w[n] = k, \A x \in Elements(q) : w[x] = v[x]
  PROVE  /\ ChainOf(InsertAt(q, p, n), Nodes, Elements(q) \cup {n})
         /\ Grouped(w, InsertAt(q, p, n))
<1>1. PICK s : s = InsertAt(q, p, n)
  OBVIOUS
<1>2. p \in 1 .. Len(q) + 1 /\ Len(q) \in Nat /\ p \in Nat
  BY DEF FoundAt
<1>3. /\ s \in Seq(Nodes) /\ Len(s) = Len(q) + 1
      /\ \A i \in 1 .. Len(q) + 1 : s[i] = IF i < p THEN q[i] ELSE IF i = p THEN n ELSE q[i - 1]
  <2>1. HasAt(InsertAt(q, p, n), Nodes, q, p, n)
    BY <1>2, InsertAtIs
  <2> QED
    BY <1>1, <2>1 DEF HasAt
<1> DEFINE old(i) == IF i < p THEN i ELSE i - 1
<1>4. ASSUME NEW i \in 1 .. Len(s), i # p
      PROVE  old(i) \in 1 .. Len(q) /\ s[i] = q[old(i)] /\ s[i] \in Elements(q) /\ w[s[i]] = v[q[old(i)]]
  <2>1. old(i) \in 1 .. Len(q)
    BY <1>2, <1>3, <1>4
  <2>2. s[i] = q[old(i)]
    BY <1>3, <1>4
  <2>3. s[i] \in Elements(q)
    BY <2>1, <2>2 DEF Elements
  <2> QED
    BY <2>1, <2>2, <2>3
<1>5. p \in 1 .. Len(s) /\ s[p] = n
  BY <1>2, <1>3
<1>6. Distinct(s)
  <2> SUFFICES ASSUME NEW i \in 1 .. Len(s), NEW j \in 1 .. Len(s), s[i] = s[j] PROVE i = j
    BY DEF Distinct
  <2>1. CASE i = p \/ j = p
    BY <1>4, <1>5, <2>1
  <2>2. CASE i # p /\ j # p
    <3>1. old(i) \in 1 .. Len(q) /\ old(j) \in 1 .. Len(q) /\ q[old(i)] = q[old(j)]
      BY <1>4, <2>2
    <3>2. old(i) = old(j)
      BY <3>1 DEF Distinct
    <3> QED
      BY <1>2, <1>3, <2>2, <3>2
  <2> QED
    BY <2>1, <2>2
<1>7. Elements(s) = Elements(q) \cup {n}
  <2>1. ASSUME NEW x \in Elements(s) PROVE x \in Elements(q) \cup {n}
    <3>1. PICK i \in 1 .. Len(s) : x = s[i]
      BY DEF Elements
    <3> QED
      BY <1>4, <1>5, <3>1
  <2>2. n \in Elements(s)
    BY <1>5 DEF Elements
  <2>3. ASSUME NEW x \in Elements(q) PROVE x \in Elements(s)
    <3>1. PICK i \in 1 .. Len(q) : x = q[i]
      BY DEF Elements
    <3>2. PICK j \in 1 .. Len(s) : j = IF i < p THEN i ELSE i + 1
      BY <1>2, <1>3
    <3>3. j # p /\ old(j) = i
      BY <1>2, <3>2
    <3>4. x = s[j]
      BY <1>4, <3>1, <3>3
    <3> QED
      BY <3>4 DEF Elements
  <2> QED
    BY <2>1, <2>2, <2>3
<1>8. Grouped(w, s)
  <2> SUFFICES ASSUME NEW i \in 1 .. Len(s), NEW j \in 1 .. Len(s), w[s[i]] = w[s[j]], NEW m \in i .. j
               PROVE  w[s[m]] = w[s[i]]
    BY DEF Grouped
  <2>1. m \in 1 .. Len(s) /\ i <= m /\ m <= j /\ i \in Nat /\ j \in Nat /\ m \in Nat
    BY <1>2, <1>3
  <2> DEFINE key(x) == v[q[old(x)]]
  <2>2. \A x \in 1 .. Len(s) : x # p => old(x) \in 1 .. Len(q) /\ w[s[x]] = key(x)
    BY <1>4
  <2>3. \A x \in 1 .. Len(s) : x < p => key(x) # k
    BY <1>2, <2>2 DEF FoundAt
  <2>4. \A x, y \in 1 .. Len(q) : v[q[x]] = v[q[y]] => \A z \in x .. y : v[q[z]] = v[q[x]]
    BY DEF Grouped
  <2>5. ASSUME i # p, j # p, m # p PROVE w[s[m]] = w[s[i]]
    <3>1. old(m) \in old(i) .. old(j)
      BY <1>2, <2>1, <2>5
    <3>2. old(i) \in 1 .. Len(q) /\ old(j) \in 1 .. Len(q) /\ v[q[old(i)]] = v[q[old(j)]]
      BY <2>2, <2>5
    <3>3. v[q[old(m)]] = v[q[old(i)]]
      BY <2>4, <3>1, <3>2
    <3> QED
      BY <2>1, <2>2, <2>5, <3>3
  <2>6. CASE i = p /\ m # p
    <3>1. p < m /\ p < j /\ j # p
      BY <2>1, <2>6
    <3>2. key(j) = k
      BY <1>5, <2>2, <2>6, <3>1
    <3>3. p <= Len(q) /\ p \in 1 .. Len(q) /\ v[q[p]] = k
      BY <1>2, <1>3, <2>1, <3>1 DEF FoundAt
    <3>4. old(m) \in p .. old(j) /\ old(j) \in 1 .. Len(q)
      BY <1>2, <2>1, <2>2, <3>1
    <3>5. v[q[old(m)]] = v[q[p]]
      BY <2>4, <3>2, <3>3, <3>4
    <3> QED
      BY <1>5, <2>1, <2>2, <2>6, <3>3, <3>5
  <2>7. CASE i # p /\ m = p /\ j # p
    <3>1. i < p /\ p < j
      BY <2>1, <2>7
    <3>2. key(i) = key(j)
      BY <2>2, <2>7
    <3>3. p <= Len(q) /\ p \in 1 .. Len(q) /\ v[q[p]] = k
      BY <1>2, <1>3, <2>1, <3>1 DEF FoundAt
    <3>4. p \in old(i) .. old(j) /\ old(i) \in 1 .. Len(q) /\ old(j) \in 1 .. Len(q)
      BY <1>2, <2>1, <2>2, <2>7, <3>1
    <3>5. v[q[p]] = v[q[old(i)]]
      BY <2>4, <3>2, <3>4
    <3>6. key(i) # k
      BY <2>3, <3>1
    <3> QED
      BY <3>3, <3>5, <3>6
  <2>8. CASE i # p /\ j = p
    <3>1. i < p
      BY <2>1, <2>8
    <3>2. key(i) # k /\ w[s[i]] = key(i)
      BY <2>2, <2>3, <3>1, <2>8
    <3> QED
      BY <1>5, <2>8, <3>2
  <2> QED
    BY <2>5, <2>6, <2>7, <2>8
<1> QED
  BY <1>1, <1>3, <1>6, <1>7, <1>8 DEF ChainOf

LEMMA ChainsTyped ==
  ASSUME NEW N, NEW c \in Seq(Seq(N))
  PROVE  /\ Len(c) \in Nat /\ DOMAIN c = 1 .. Len(c)
         /\ \A b \in 1 .. Len(c) : c[b] \in Seq(N) /\ Len(c[b]) \in Nat /\ DOMAIN c[b] = 1 .. Len(c[b])
<1>1. ASSUME NEW b \in 1 .. Len(c)
      PROVE  c[b] \in Seq(N) /\ Len(c[b]) \in Nat /\ DOMAIN c[b] = 1 .. Len(c[b])
  <2>1. PICK q \in Seq(N) : q = c[b]
    OBVIOUS
  <2>2. Len(q) \in Nat /\ DOMAIN q = 1 .. Len(q)
    OBVIOUS
  <2> QED
    BY <2>1, <2>2
<1> QED
  BY <1>1

LEMMA NodesInChains ==
  ASSUME NEW c
  PROVE  \A x : x \in InChains(c) <=> \E b \in 1 .. Len(c) : x \in Elements(c[b])
  BY DEF InChains, Elements

(* A table does not depend on the keys of the nodes of others.             *)
LEMMA SoundSame ==
  ASSUME NEW v, NEW c, Sound(v, c), NEW w, \A x \in InChains(c) : x \in DOMAIN w /\ w[x] = v[x]
  PROVE  Sound(w, c) /\ (KeysKnown(v, InChains(c)) => KeysKnown(w, InChains(c)))
<1>1. c \in Seq(Seq(Nodes)) /\ \A b \in 1 .. Len(c) : Len(c[b]) \in Nat
  BY DEF Sound
<1>2. \A b \in 1 .. Len(c) : \A i \in 1 .. Len(c[b]) : c[b][i] \in DOMAIN w /\ w[c[b][i]] = v[c[b][i]]
  BY DEF InChains
<1>3. Hashed(w, c)
  BY <1>2 DEF Sound, Hashed
<1>4. ASSUME NEW b \in 1 .. Len(c) PROVE Distinct(c[b]) /\ Grouped(w, c[b])
  <2>1. Distinct(c[b]) /\ Grouped(v, c[b])
    BY DEF Sound
  <2> DEFINE q == c[b]
  <2>2. Len(q) \in Nat /\ \A i \in 1 .. Len(q) : w[q[i]] = v[q[i]]
    BY <1>1, <1>2
  <2> HIDE DEF q
  <2>3. ASSUME Grouped(v, q) PROVE Grouped(w, q)
    <3> SUFFICES ASSUME NEW i \in 1 .. Len(q), NEW j \in 1 .. Len(q), w[q[i]] = w[q[j]], NEW m \in i .. j
                 PROVE  w[q[m]] = w[q[i]]
      BY DEF Grouped
    <3>1. m \in 1 .. Len(q)
      BY <2>2
    <3>2. v[q[i]] = v[q[j]]
      BY <2>2
    <3>3. v[q[m]] = v[q[i]]
      BY <2>3, <3>2 DEF Grouped
    <3> QED
      BY <2>2, <3>1, <3>3
  <2> QED
    BY <2>1, <2>3 DEF q
<1>5. Sound(w, c)
  BY <1>1, <1>3, <1>4 DEF Sound
<1> QED
  BY <1>5 DEF KeysKnown

\* d is c with the chain h replaced by s.
Replaced(d, c, h, s) == d = [c EXCEPT ![h] = s]

(* insert() as far as the chains are concerned.                            *)
LEMMA InsertSound ==
  ASSUME NEW v, NEW c, Sound(v, c), KeysKnown(v, InChains(c)), c # <<>>,
         NEW k \in Keys, NEW p, FoundAt(v, c[HashKey(k, Len(c))], k, p),
         NEW n \in Nodes, n \notin InChains(c),
         NEW w, n \in DOMAIN w, w[n] = k, \A x \in DOMAIN v : x # n => x \in DOMAIN w /\ w[x] = v[x],
         NEW d, Replaced(d, c, HashKey(k, Len(c)), InsertAt(c[HashKey(k, Len(c))], p, n))
  PROVE  /\ Sound(w, d) /\ InChains(d) = InChains(c) \cup {n}
         /\ KeysKnown(w, InChains(d)) /\ Len(d) = Len(c)
<1>1. c \in Seq(Seq(Nodes)) /\ Len(c) \in Nat \ {0}
  BY DEF Sound
<1>2. PICK h \in 1 .. Len(c) : h = HashKey(k, Len(c))
  BY <1>1, HashKeyInRange
<1>3. /\ n \in DOMAIN w /\ w[n] = k
      /\ \A x \in DOMAIN v : x # n => x \in DOMAIN w /\ w[x] = v[x]
  OBVIOUS
<1>4. \A x \in InChains(c) : x \in DOMAIN w /\ w[x] = v[x] /\ x # n
  BY <1>3 DEF KeysKnown
<1>5. Sound(w, c) /\ KeysKnown(w, InChains(c))
  BY <1>4, SoundSame
<1>6. \A x : x \in InChains(c) <=> \E b \in 1 .. Len(c) : x \in Elements(c[b])
  BY DEF InChains, Elements
<1>7. PICK s : s = InsertAt(c[h], p, n)
  OBVIOUS
<1>8. ChainOf(s, Nodes, Elements(c[h]) \cup {n}) /\ Grouped(w, s)
  <2>1. PICK q \in Seq(Nodes) : q = c[h]
    BY <1>1
  <2>2. Distinct(q) /\ Grouped(v, q)
    BY <2>1 DEF Sound
  <2>3. FoundAt(v, q, k, p)
    BY <1>2, <2>1
  <2>4. n \notin Elements(q) /\ \A x \in Elements(q) : w[x] = v[x]
    BY <1>4, <1>6, <2>1
  <2>5. w[n] = k
    BY <1>3
  <2>6. ChainOf(InsertAt(q, p, n), Nodes, Elements(q) \cup {n}) /\ Grouped(w, InsertAt(q, p, n))
    BY <2>2, <2>3, <2>4, <2>5, InsertedChain
  <2> QED
    BY <1>7, <2>1, <2>6
<1>9. s \in Seq(Nodes) /\ Distinct(s) /\ Elements(s) = Elements(c[h]) \cup {n}
  BY <1>8 DEF ChainOf
<1>10. /\ d \in Seq(Seq(Nodes)) /\ Len(d) = Len(c)
       /\ d[h] = s /\ \A b \in 1 .. Len(c) : b # h => d[b] = c[b]
  <2>1. d = [c EXCEPT ![h] = s]
    BY <1>2, <1>7 DEF Replaced
  <2>2. /\ d \in Seq(Seq(Nodes)) /\ Len(d) = Len(c)
        /\ \A b \in 1 .. Len(c) : d[b] = IF b = h THEN s ELSE c[b]
    BY <1>1, <1>9, <2>1, ExceptSeq
  <2> QED
    BY <2>2
<1>11. \A x : x \in InChains(d) <=> \E b \in 1 .. Len(c) : x \in Elements(d[b])
  <2>1. \A x : x \in InChains(d) <=> \E b \in 1 .. Len(d) : x \in Elements(d[b])
    BY NodesInChains
  <2> QED
    BY <1>10, <2>1
<1>12. InChains(d) = InChains(c) \cup {n}
  <2>1. ASSUME NEW x \in InChains(d) PROVE x \in InChains(c) \cup {n}
    <3>1. PICK b \in 1 .. Len(c) : x \in Elements(d[b])
      BY <1>11
    <3> QED
      BY <1>6, <1>9, <1>10, <3>1
  <2>2. ASSUME NEW x \in InChains(c) \cup {n} PROVE x \in InChains(d)
    <3>1. \E b \in 1 .. Len(c) : x \in Elements(d[b])
      BY <1>6, <1>9, <1>10
    <3> QED
      BY <1>11, <3>1
  <2> QED
    BY <2>1, <2>2
<1>13. Hashed(w, d)
  <2> SUFFICES ASSUME NEW b \in 1 .. Len(c), NEW i \in 1 .. Len(d[b])
               PROVE  d[b][i] \in DOMAIN w /\ HashKey(w[d[b][i]], Len(c)) = b
    BY <1>10 DEF Hashed
  <2>1. \A x \in Elements(c[b]) : x \in DOMAIN w /\ HashKey(w[x], Len(c)) = b
    BY <1>5 DEF Sound, Hashed, Elements
  <2>2. d[b][i] \in Elements(d[b])
    BY DEF Elements
  <2>3. CASE b # h
    BY <1>10, <2>1, <2>2, <2>3
  <2>4. CASE b = h
    <3>1. d[b][i] \in Elements(c[b]) \/ d[b][i] = n
      BY <1>9, <1>10, <2>2, <2>4
    <3> QED
      BY <1>2, <1>3, <2>1, <2>4, <3>1
  <2> QED
    BY <2>3, <2>4
<1>14. \A b \in 1 .. Len(c) : Distinct(d[b]) /\ Grouped(w, d[b])
  BY <1>5, <1>8, <1>9, <1>10 DEF Sound
<1>15. Sound(w, d)
  BY <1>10, <1>13, <1>14 DEF Sound
<1>16. KeysKnown(w, InChains(d))
  BY <1>3, <1>5, <1>12 DEF KeysKnown
<1> QED
  BY <1>10, <1>12, <1>15, <1>16

-----------------------------------------------------------------------------
(* erase() and copies                                                      *)

(* erase() as far as the chains are concerned.                             *)
LEMMA EraseSound ==
  ASSUME NEW v, NEW c, Sound(v, c), NEW removed,
         NEW d, d = WithoutNodes(c, removed)
  PROVE  Sound(v, d) /\ InChains(d) = InChains(c) \ removed /\ Len(d) = Len(c)
<1>1. c \in Seq(Seq(Nodes)) /\ Len(c) \in Nat /\ DOMAIN c = 1 .. Len(c)
  BY DEF Sound
<1>2. ASSUME NEW b \in 1 .. Len(c)
      PROVE  /\ d[b] \in Seq(Nodes) /\ Distinct(d[b]) /\ Grouped(v, d[b])
             /\ Elements(d[b]) = Elements(c[b]) \ removed
  <2>1. PICK q \in Seq(Nodes) : q = c[b]
    BY <1>1
  <2>2. Distinct(q) /\ Grouped(v, q)
    BY <2>1 DEF Sound
  <2>3. ChainOf(Without(q, removed), Nodes, Elements(q) \ removed) /\ Grouped(v, Without(q, removed))
    BY <2>2, WithoutIs
  <2>4. d[b] = Without(q, removed)
    BY <1>1, <2>1 DEF WithoutNodes
  <2> QED
    BY <2>1, <2>3, <2>4 DEF ChainOf
<1>3. d \in Seq(Seq(Nodes)) /\ Len(d) = Len(c)
  <2>1. PICK n \in Nat : n = Len(c)
    BY <1>1
  <2>2. PICK e : e = d
    OBVIOUS
  <2>3. e \in [1 .. n -> Seq(Nodes)]
    BY <1>1, <1>2, <2>1, <2>2 DEF WithoutNodes
  <2>4. e \in Seq(Seq(Nodes)) /\ Len(e) = n
    BY <2>3
  <2> QED
    BY <2>1, <2>2, <2>4
<1>4. \A x : x \in InChains(c) <=> \E b \in 1 .. Len(c) : x \in Elements(c[b])
  BY NodesInChains
<1>5. \A x : x \in InChains(d) <=> \E b \in 1 .. Len(c) : x \in Elements(d[b])
  <2>1. \A x : x \in InChains(d) <=> \E b \in 1 .. Len(d) : x \in Elements(d[b])
    BY NodesInChains
  <2> QED
    BY <1>3, <2>1
<1>6. InChains(d) = InChains(c) \ removed
  <2>1. ASSUME NEW x \in InChains(d) PROVE x \in InChains(c) \ removed
    <3>1. PICK b \in 1 .. Len(c) : x \in Elements(d[b])
      BY <1>5
    <3>2. x \in Elements(c[b]) \ removed
      BY <1>2, <3>1
    <3> QED
      BY <1>4, <3>2
  <2>2. ASSUME NEW x \in InChains(c) \ removed PROVE x \in InChains(d)
    <3>1. PICK b \in 1 .. Len(c) : x \in Elements(c[b])
      BY <1>4
    <3>2. x \in Elements(d[b])
      BY <1>2, <3>1
    <3> QED
      BY <1>5, <3>2
  <2> QED
    BY <2>1, <2>2
<1>7. Hashed(v, d)
  <2> SUFFICES ASSUME NEW b \in 1 .. Len(c), NEW i \in 1 .. Len(d[b])
               PROVE  d[b][i] \in DOMAIN v /\ HashKey(v[d[b][i]], Len(c)) = b
    BY <1>3 DEF Hashed
  <2>1. \A x \in Elements(c[b]) : x \in DOMAIN v /\ HashKey(v[x], Len(c)) = b
    BY DEF Sound, Hashed, Elements
  <2>2. d[b][i] \in Elements(d[b])
    BY DEF Elements
  <2> QED
    BY <1>2, <2>1, <2>2
<1> QED
  BY <1>2, <1>3, <1>6, <1>7 DEF Sound

(* copy_bucket() for every chain.                                          *)
LEMMA CopySound ==
  ASSUME NEW v, NEW c, Sound(v, c), KeysKnown(v, InChains(c)), NEW copy \in [InChains(c) -> Nodes],
         \A x, y \in InChains(c) : copy[x] = copy[y] => x = y,
         NEW w, \A x \in InChains(c) : copy[x] \in DOMAIN w /\ w[copy[x]] = v[x],
         NEW d, d = CopyOf(c, copy)
  PROVE  /\ Sound(w, d) /\ KeysKnown(w, InChains(d)) /\ Len(d) = Len(c)
         /\ InChains(d) = {copy[x] : x \in InChains(c)}
<1>1. c \in Seq(Seq(Nodes)) /\ Len(c) \in Nat /\ DOMAIN c = 1 .. Len(c)
  BY DEF Sound
<1>2. \A b \in 1 .. Len(c) : c[b] \in Seq(Nodes) /\ Len(c[b]) \in Nat /\ DOMAIN c[b] = 1 .. Len(c[b])
  <2>1. c \in Seq(Seq(Nodes))
    BY <1>1
  <2> QED
    BY <2>1, ChainsTyped
<1>3. \A b \in 1 .. Len(c) : \A i \in 1 .. Len(c[b]) : c[b][i] \in InChains(c)
  BY DEF InChains
<1>4. ASSUME NEW b \in 1 .. Len(c)
      PROVE  /\ d[b] \in Seq(Nodes) /\ Len(d[b]) = Len(c[b])
             /\ \A i \in 1 .. Len(c[b]) : d[b][i] = copy[c[b][i]]
  <2>1. d[b] = [i \in 1 .. Len(c[b]) |-> copy[c[b][i]]]
    BY <1>1, <1>2 DEF CopyOf
  <2>2. \A i \in 1 .. Len(c[b]) : copy[c[b][i]] \in Nodes
    BY <1>3
  <2>3. PICK n \in Nat : n = Len(c[b])
    BY <1>2
  <2>4. PICK q : q = d[b]
    OBVIOUS
  <2>5. q \in [1 .. n -> Nodes] /\ \A i \in 1 .. n : q[i] = copy[c[b][i]]
    BY <2>1, <2>2, <2>3, <2>4
  <2>6. q \in Seq(Nodes) /\ Len(q) = n
    BY <2>5
  <2> QED
    BY <2>3, <2>4, <2>5, <2>6
<1>5. d \in Seq(Seq(Nodes)) /\ Len(d) = Len(c)
  <2>1. d \in [1 .. Len(c) -> Seq(Nodes)]
    BY <1>1, <1>4 DEF CopyOf
  <2> QED
    BY <1>1, <2>1
<1>7. \A x : x \in InChains(d) <=> \E b \in 1 .. Len(c) : x \in Elements(d[b])
  <2>1. \A x : x \in InChains(d) <=> \E b \in 1 .. Len(d) : x \in Elements(d[b])
    BY NodesInChains
  <2> QED
    BY <1>5, <2>1
<1>8. InChains(d) = {copy[x] : x \in InChains(c)}
  <2>1. ASSUME NEW x \in InChains(d) PROVE \E y \in InChains(c) : x = copy[y]
    <3>1. PICK b \in 1 .. Len(c) : x \in Elements(d[b])
      BY <1>7
    <3>2. PICK i \in 1 .. Len(d[b]) : x = d[b][i]
      BY <3>1 DEF Elements
    <3>3. i \in 1 .. Len(c[b]) /\ x = copy[c[b][i]]
      BY <1>4, <3>1, <3>2
    <3> QED
      BY <1>3, <3>3
  <2>2. ASSUME NEW y \in InChains(c) PROVE copy[y] \in InChains(d)
    <3>1. PICK b \in 1 .. Len(c) : y \in Elements(c[b])
      BY NodesInChains
    <3>2. PICK i \in 1 .. Len(c[b]) : y = c[b][i]
      BY <3>1 DEF Elements
    <3>3. i \in 1 .. Len(d[b]) /\ copy[y] = d[b][i]
      BY <1>4, <3>1, <3>2
    <3>4. copy[y] \in Elements(d[b])
      BY <3>3 DEF Elements
    <3> QED
      BY <1>7, <3>1, <3>4
  <2> QED
    BY <2>1, <2>2
<1>9. ASSUME NEW b \in 1 .. Len(c), NEW i \in 1 .. Len(c[b])
      PROVE  /\ d[b][i] \in DOMAIN w /\ w[d[b][i]] = v[c[b][i]]
             /\ HashKey(v[c[b][i]], Len(c)) = b
  BY <1>3, <1>4 DEF Sound, Hashed
<1>10. Hashed(w, d)
  <2> SUFFICES ASSUME NEW b \in 1 .. Len(c), NEW i \in 1 .. Len(d[b])
               PROVE  d[b][i] \in DOMAIN w /\ HashKey(w[d[b][i]], Len(c)) = b
    BY <1>5 DEF Hashed
  <2>1. i \in 1 .. Len(c[b])
    BY <1>4
  <2> QED
    BY <1>9, <2>1
<1>11. ASSUME NEW b \in 1 .. Len(c) PROVE Distinct(d[b]) /\ Grouped(w, d[b])
  <2>1. Distinct(c[b]) /\ Grouped(v, c[b])
    BY DEF Sound
  <2>2. Distinct(d[b])
    BY <1>3, <1>4, <2>1 DEF Distinct
  <2>3. Grouped(w, d[b])
    <3> SUFFICES ASSUME NEW i \in 1 .. Len(c[b]), NEW j \in 1 .. Len(c[b]), w[d[b][i]] = w[d[b][j]],
                        NEW m \in i .. j
                 PROVE  w[d[b][m]] = w[d[b][i]]
      <4>1. Len(d[b]) = Len(c[b])
        BY <1>4
      <4> QED
        BY <4>1 DEF Grouped
    <3>1. m \in 1 .. Len(c[b])
      BY <1>2
    <3>2. v[c[b][i]] = v[c[b][j]]
      BY <1>9
    <3>3. v[c[b][m]] = v[c[b][i]]
      BY <2>1, <3>2 DEF Grouped
    <3> QED
      BY <1>9, <3>1, <3>3
  <2> QED
    BY <2>2, <2>3
<1>12. Sound(w, d)
  BY <1>5, <1>10, <1>11 DEF Sound
<1>13. KeysKnown(w, InChains(d))
  BY <1>8 DEF KeysKnown
<1> QED
  BY <1>5, <1>8, <1>12, <1>13

-----------------------------------------------------------------------------
(* The invariant                                                           *)

\* A table with chains c and node_count n, whose keys are v.
TableInv(v, c, n) ==
  /\ Sound(v, c) /\ n \in Nat /\ n = Cardinality(InChains(c))
  /\ c # <<>> => n < AvgBucketCount * Len(c)

ResultTyped == result.it \in Nodes \cup {End, Garbage} /\ result.range \subseteq Nodes

HashInv ==
  /\ bucket \in [Tables -> Seq(Seq(Nodes))] /\ node_count \in [Tables -> Nat]
  /\ KeysKnown(val, allocated)
  /\ \A t \in Tables : TableInv(val, bucket[t], node_count[t])
  /\ \A t, u \in Tables : t # u => InChains(bucket[t]) \cap InChains(bucket[u]) = {}
  /\ \A n : n \in allocated <=> \E t \in Tables : n \in InChains(bucket[t])
  /\ ResultTyped

(* The order of iteration of a table.                                      *)
LEMMA FlatIsSound ==
  ASSUME HashInv, NEW t \in Tables
  PROVE  /\ Sound(val, bucket[t]) /\ KeysKnown(val, InChains(bucket[t]))
         /\ Flat(t) \in Seq(Nodes) /\ Distinct(Flat(t)) /\ Grouped(val, Flat(t))
         /\ Elements(Flat(t)) = InChains(bucket[t]) /\ Linked(t) = InChains(bucket[t])
         /\ InChains(bucket[t]) \subseteq allocated /\ InChains(bucket[t]) \subseteq Nodes
         /\ bucket[t] \in Seq(Seq(Nodes)) /\ node_count[t] = Cardinality(InChains(bucket[t]))
         /\ node_count[t] = Len(Flat(t))
         /\ IsFiniteSet(InChains(bucket[t]))
<1>1. PICK c : c = bucket[t]
  OBVIOUS
<1>2. Sound(val, c) /\ node_count[t] = Cardinality(InChains(c)) /\ InChains(c) \subseteq allocated
  BY <1>1 DEF HashInv, TableInv
<1>3. KeysKnown(val, InChains(c))
  BY <1>2 DEF HashInv, KeysKnown
<1>4. PICK f : f = FlattenSeq(c)
  OBVIOUS
<1>5. /\ f \in Seq(Nodes) /\ Distinct(f) /\ Grouped(val, f)
      /\ {f[i] : i \in 1 .. Len(f)} = InChains(c)
  BY <1>2, <1>4, FlatSound
<1>6. f = Flat(t)
  BY <1>1, <1>4 DEF Flat
<1>7. Elements(f) = InChains(c) /\ ToSet(f) = InChains(c)
  BY <1>5 DEF Elements, ToSet
<1>8. Cardinality(InChains(c)) = Len(f) /\ InChains(c) \subseteq Nodes /\ IsFiniteSet(InChains(c))
  BY <1>2, <1>4, CountedNodes
<1>9. Linked(t) = ToSet(f)
  BY <1>6 DEF Linked
<1>10. c \in Seq(Seq(Nodes))
  BY <1>2 DEF Sound
<1> QED
  BY <1>1, <1>2, <1>3, <1>5, <1>6, <1>7, <1>8, <1>9, <1>10

\* The other tables stay as they are.
OthersSame(t) ==
  \A u \in Tables : u # t =>
    bucket'[u] = bucket[u] /\ \A x \in InChains(bucket[u]) : val'[x] = val[x]

(* A step that changes one table and the nodes it owns.                    *)
LEMMA OneTable ==
  ASSUME HashInv, NEW t \in Tables, NEW d, NEW n, NEW rest, rest = allocated \ InChains(bucket[t]),
         bucket' = [bucket EXCEPT ![t] = d], node_count' = [node_count EXCEPT ![t] = n],
         TableInv(val', d, n), KeysKnown(val', InChains(d)),
         \A x : x \in allocated' <=> x \in InChains(d) \/ x \in rest,
         \A x \in rest : val'[x] = val[x],
         InChains(d) \cap rest = {},
         ResultTyped'
  PROVE  HashInv' /\ OthersSame(t) /\ bucket'[t] = d
<1>1. d \in Seq(Seq(Nodes)) /\ n \in Nat
  BY DEF TableInv, Sound
<1>2. bucket' \in [Tables -> Seq(Seq(Nodes))] /\ node_count' \in [Tables -> Nat]
  BY <1>1 DEF HashInv
<1>3. /\ bucket'[t] = d /\ node_count'[t] = n
      /\ \A u \in Tables : u # t => bucket'[u] = bucket[u] /\ node_count'[u] = node_count[u]
  BY DEF HashInv
<1>4. \A u \in Tables : u # t => InChains(bucket[u]) \subseteq rest
  BY DEF HashInv
<1>5. KeysKnown(val', allocated')
  <2> SUFFICES ASSUME NEW x \in allocated' PROVE x \in DOMAIN val' /\ val'[x] \in Keys
    BY DEF KeysKnown
  <2>1. x \in InChains(d) \/ x \in rest
    OBVIOUS
  <2>2. x \in rest => val[x] \in Keys
    BY DEF HashInv, KeysKnown
  <2>3. x \in DOMAIN val'
    BY DEF allocated
  <2>4. x \in InChains(d) => val'[x] \in Keys
    BY DEF KeysKnown
  <2> QED
    BY <2>1, <2>2, <2>3, <2>4
<1>6. ASSUME NEW u \in Tables PROVE TableInv(val', bucket'[u], node_count'[u])
  <2>1. CASE u = t
    BY <1>3, <2>1
  <2>2. CASE u # t
    <3>1. PICK c, m : c = bucket[u] /\ m = node_count[u]
      OBVIOUS
    <3>2. TableInv(val, c, m) /\ InChains(c) \subseteq rest
      BY <1>4, <2>2, <3>1 DEF HashInv
    <3>3. Sound(val, c) /\ \A x \in InChains(c) : x \in DOMAIN val' /\ val'[x] = val[x]
      BY <3>2 DEF TableInv, allocated
    <3>4. Sound(val', c)
      BY <3>3, SoundSame
    <3>5. TableInv(val', c, m)
      BY <3>2, <3>4 DEF TableInv
    <3> QED
      BY <1>3, <2>2, <3>1, <3>5
  <2> QED
    BY <2>1, <2>2
<1>7. ASSUME NEW u \in Tables, NEW w \in Tables, u # w
      PROVE  InChains(bucket'[u]) \cap InChains(bucket'[w]) = {}
  <2>1. CASE u = t
    BY <1>3, <1>4, <1>7, <2>1
  <2>2. CASE w = t
    BY <1>3, <1>4, <1>7, <2>2
  <2>3. CASE u # t /\ w # t
    <3>1. InChains(bucket[u]) \cap InChains(bucket[w]) = {}
      BY <1>7 DEF HashInv
    <3> QED
      BY <1>3, <2>3, <3>1
  <2> QED
    BY <2>1, <2>2, <2>3
<1>8. ASSUME NEW x PROVE x \in allocated' <=> \E u \in Tables : x \in InChains(bucket'[u])
  <2>1. x \in rest => \E u \in Tables : u # t /\ x \in InChains(bucket[u])
    BY DEF HashInv
  <2>2. x \in rest => \E u \in Tables : x \in InChains(bucket'[u])
    BY <1>3, <2>1
  <2>3. x \in InChains(d) => \E u \in Tables : x \in InChains(bucket'[u])
    BY <1>3
  <2>4. ASSUME NEW u \in Tables, x \in InChains(bucket'[u]) PROVE x \in InChains(d) \/ x \in rest
    BY <1>3, <1>4, <2>4
  <2> QED
    BY <2>2, <2>3, <2>4
<1>9. HashInv'
  BY <1>2, <1>5, <1>6, <1>7, <1>8 DEF HashInv
<1>10. OthersSame(t)
  BY <1>3, <1>4 DEF OthersSame
<1> QED
  BY <1>3, <1>9, <1>10

-----------------------------------------------------------------------------
(* Every call keeps the invariant                                          *)

LEMMA Restricted ==
  ASSUME NEW f, NEW S, NEW g, g = Restrict(f, S)
  PROVE  DOMAIN g = S /\ \A x \in S : g[x] = f[x]
  BY DEF Restrict

(* The calls that erase nodes.                                             *)
LEMMA UnlinkKeeps ==
  ASSUME HashInv, NEW t \in Tables, NEW removed, removed \subseteq InChains(bucket[t]), NEW op,
         Unlink(t, removed, op)
  PROVE  /\ HashInv' /\ OthersSame(t)
         /\ InChains(bucket'[t]) = InChains(bucket[t]) \ removed
         /\ \A x \in InChains(bucket'[t]) : val'[x] = val[x]
         /\ result' = Iterator(op, End)
<1> DEFINE rest == allocated \ InChains(bucket[t])
<1>1. PICK c : c = bucket[t]
  OBVIOUS
<1>2. /\ Sound(val, c) /\ KeysKnown(val, InChains(c)) /\ InChains(c) \subseteq allocated
      /\ node_count[t] = Cardinality(InChains(c)) /\ IsFiniteSet(InChains(c))
  BY <1>1, FlatIsSound
<1>3. PICK left : left = WithoutNodes(c, removed)
  OBVIOUS
<1>4. Sound(val, left) /\ InChains(left) = InChains(c) \ removed
  BY <1>2, <1>3, EraseSound
<1>5. PICK size : size = SizeLeft(t, removed)
  OBVIOUS
<1>6. size = Cardinality(InChains(left)) /\ size \in Nat
  <2>1. PICK S : S = InChains(c)
    OBVIOUS
  <2>2. /\ IsFiniteSet(S \ removed)
        /\ Cardinality(S \ removed) = Cardinality(S) - Cardinality(S \cap removed)
    BY <1>2, <2>1, FS_Difference
  <2>3. S \cap removed = removed
    BY <1>1, <2>1
  <2>4. size = Cardinality(S) - Cardinality(removed)
    BY <1>2, <1>5, <2>1 DEF SizeLeft
  <2> QED
    BY <1>4, <2>1, <2>2, <2>3, <2>4, FS_CardinalityType
<1>7. PICK d : d = Resize(val, left, size)
  OBVIOUS
<1>8. KeysKnown(val, InChains(left))
  BY <1>2, <1>4 DEF KeysKnown
<1>9. /\ Sound(val, d) /\ InChains(d) = InChains(c) \ removed
      /\ size < AvgBucketCount * Len(d)
  <2>1. /\ Sound(val, Resize(val, left, size))
        /\ InChains(Resize(val, left, size)) = InChains(left)
        /\ Len(Resize(val, left, size)) \in Nat \ {0}
        /\ size < AvgBucketCount * Len(Resize(val, left, size))
    <3>1. Sound(val, left) /\ size \in Nat /\ size = Cardinality(InChains(left))
      BY <1>4, <1>6
    <3> QED
      BY <1>8, <3>1, ResizeSound
  <2> QED
    BY <1>4, <1>7, <2>1
<1>10. /\ val' = Restrict(val, allocated \ removed)
       /\ bucket' = [bucket EXCEPT ![t] = d] /\ node_count' = [node_count EXCEPT ![t] = size]
       /\ result' = Iterator(op, End)
  BY <1>1, <1>3, <1>5, <1>7 DEF Unlink
<1>11. allocated' = allocated \ removed /\ \A x \in allocated \ removed : val'[x] = val[x]
  BY <1>10, Restricted DEF allocated
<1>12. Sound(val', d) /\ KeysKnown(val', InChains(d))
  <2>1. \A x \in InChains(d) : x \in DOMAIN val' /\ val'[x] = val[x]
    BY <1>2, <1>9, <1>11 DEF allocated
  <2>2. KeysKnown(val, InChains(d))
    BY <1>2, <1>9 DEF KeysKnown
  <2> QED
    BY <1>9, <2>1, <2>2, SoundSame
<1>13. TableInv(val', d, size)
  BY <1>4, <1>6, <1>9, <1>12 DEF TableInv
<1>14. \A x : x \in allocated' <=> x \in InChains(d) \/ x \in rest
  BY <1>1, <1>2, <1>9, <1>11
<1>15. (\A x \in rest : val'[x] = val[x]) /\ InChains(d) \cap rest = {}
  BY <1>1, <1>9, <1>11
<1>16. ResultTyped'
  BY <1>10 DEF ResultTyped, Iterator, NoResult
<1> HIDE DEF rest
<1>17. rest = allocated \ InChains(bucket[t])
  BY DEF rest
<1>18. HashInv' /\ OthersSame(t) /\ bucket'[t] = d
  BY <1>10, <1>12, <1>13, <1>14, <1>15, <1>16, <1>17, OneTable
<1>19. \A x \in InChains(d) : val'[x] = val[x]
  BY <1>2, <1>9, <1>11
<1> QED
  BY <1>1, <1>9, <1>10, <1>18, <1>19

LEMMA ClearKeeps ==
  ASSUME HashInv, NEW t \in Tables, Clear(t)
  PROVE  HashInv' /\ OthersSame(t) /\ InChains(bucket'[t]) = {} /\ result' = NoResult
<1> DEFINE rest == allocated \ InChains(bucket[t])
<1>1. PICK d : d = <<<<>>>>
  OBVIOUS
<1>2. d \in Seq(Seq(Nodes)) /\ Len(d) = 1 /\ Len(d[1]) = 0
  <2>1. Len(d) = 1 /\ d[1] = <<>> /\ d \in Seq(Seq(Nodes))
    BY <1>1
  <2>2. Len(d[1]) = 0
    BY <2>1
  <2> QED
    BY <2>1, <2>2
<1>3. InChains(d) = {}
  BY <1>2 DEF InChains
<1>4. Sound(val', d)
  BY <1>2 DEF Sound, Hashed, Distinct, Grouped
<1>5. 0 < AvgBucketCount * Len(d)
  BY <1>2, HashTableAssumption
<1>6. TableInv(val', d, 0) /\ KeysKnown(val', InChains(d))
  BY <1>3, <1>4, <1>5, FS_EmptySet DEF TableInv, KeysKnown
<1>7. /\ bucket' = [bucket EXCEPT ![t] = d] /\ node_count' = [node_count EXCEPT ![t] = 0]
      /\ val' = Restrict(val, allocated \ Linked(t)) /\ result' = NoResult
  BY <1>1 DEF Clear, Resize
<1>8. Linked(t) = InChains(bucket[t])
  BY FlatIsSound
<1>9. allocated' = rest /\ \A x \in rest : val'[x] = val[x]
  BY <1>7, <1>8, Restricted DEF allocated
<1>10. ResultTyped'
  BY <1>7 DEF ResultTyped, NoResult
<1>11. (\A x : x \in allocated' <=> x \in InChains(d) \/ x \in rest) /\ InChains(d) \cap rest = {}
  BY <1>3, <1>9
<1> HIDE DEF rest
<1>12. rest = allocated \ InChains(bucket[t])
  BY DEF rest
<1>13. HashInv' /\ OthersSame(t) /\ bucket'[t] = d
  BY <1>6, <1>7, <1>9, <1>10, <1>11, <1>12, OneTable
<1> QED
  BY <1>3, <1>7, <1>13

LEMMA SwapKeeps ==
  ASSUME HashInv, NEW t \in Tables, NEW u \in Tables, Swap(t, u)
  PROVE  HashInv'
<1> DEFINE other(w) == IF w = t THEN u ELSE IF w = u THEN t ELSE w
<1>1. \A w \in Tables : other(w) \in Tables /\ bucket'[w] = bucket[other(w)]
                        /\ node_count'[w] = node_count[other(w)]
  BY DEF Swap, HashInv
<1>2. \A w, x \in Tables : w # x => other(w) # other(x)
  OBVIOUS
<1>3. \A w \in Tables : other(other(w)) = w
  OBVIOUS
<1>4. val' = val /\ result' = NoResult /\ allocated' = allocated
  BY DEF Swap, allocated
<1>5. bucket' \in [Tables -> Seq(Seq(Nodes))] /\ node_count' \in [Tables -> Nat]
  BY DEF Swap, HashInv
<1>6. KeysKnown(val', allocated')
  BY <1>4 DEF HashInv
<1> HIDE DEF other
<1>7. \A w \in Tables : TableInv(val', bucket'[w], node_count'[w])
  BY <1>1, <1>4 DEF HashInv
<1>8. \A w, x \in Tables : w # x => InChains(bucket'[w]) \cap InChains(bucket'[x]) = {}
  BY <1>1, <1>2 DEF HashInv
<1>9. ASSUME NEW n PROVE n \in allocated' <=> \E w \in Tables : n \in InChains(bucket'[w])
  <2>1. n \in allocated <=> \E w \in Tables : n \in InChains(bucket[w])
    BY DEF HashInv
  <2>2. (\E w \in Tables : n \in InChains(bucket[w])) => \E w \in Tables : n \in InChains(bucket'[w])
    <3> SUFFICES ASSUME NEW w \in Tables, n \in InChains(bucket[w])
                 PROVE  \E x \in Tables : n \in InChains(bucket'[x])
      OBVIOUS
    <3>1. other(w) \in Tables /\ bucket'[other(w)] = bucket[w]
      BY <1>1, <1>3
    <3> QED
      BY <3>1
  <2>3. (\E w \in Tables : n \in InChains(bucket'[w])) => \E w \in Tables : n \in InChains(bucket[w])
    BY <1>1
  <2> QED
    BY <1>4, <2>1, <2>2, <2>3
<1>10. ResultTyped'
  BY <1>4 DEF ResultTyped, NoResult
<1> QED
  BY <1>5, <1>6, <1>7, <1>8, <1>9, <1>10 DEF HashInv

(* A place in the order of iteration.                                      *)
LEMMA PlaceTyped ==
  ASSUME NEW q \in Seq(Nodes), NEW n
  PROVE  Place(q, n) \in 0 .. Len(q)
<1> DEFINE S == {j \in 1 .. Len(q) : q[j] = n}
<1>1. Place(q, n) = IF S # {} THEN Min(S) ELSE 0
  BY DEF Place, SelectInSeq
<1>2. S \in SUBSET Nat /\ \A i \in S : i \in 1 .. Len(q)
  OBVIOUS
<1>3. Len(q) \in Nat
  OBVIOUS
<1> HIDE DEF S
<1>4. CASE S # {}
  <2>1. Min(S) \in S
    BY <1>2, <1>4, FirstPlace
  <2>2. Min(S) \in 1 .. Len(q)
    BY <1>2, <2>1
  <2> QED
    BY <1>1, <1>3, <1>4, <2>2
<1>5. CASE S = {}
  <2>1. Place(q, n) = 0
    BY <1>1, <1>5
  <2> QED
    BY <1>3, <2>1
<1> QED
  BY <1>4, <1>5

(* erase() only takes nodes of the table.                                  *)
LEMMA ErasedInTable ==
  ASSUME HashInv, NEW t \in Tables, NEW first \in InChains(bucket[t]), NEW last
  PROVE  Erased(t, first, last) \subseteq InChains(bucket[t])
<1>1. PICK f : f = Flat(t)
  OBVIOUS
<1>2. f \in Seq(Nodes) /\ Elements(f) = InChains(bucket[t])
  BY <1>1, FlatIsSound
<1> DEFINE S == {j \in 1 .. Len(f) : val[f[j]] = val[first]}
           from == SelectInSeq(f, LAMBDA n : val[n] = val[first])
           to == IF last = End THEN Len(f) ELSE Place(f, last) - 1
<1>3. from = IF S # {} THEN Min(S) ELSE 0
  BY DEF SelectInSeq
<1>4. Len(f) \in Nat /\ S \in SUBSET Nat /\ \A i \in S : i \in 1 .. Len(f)
  BY <1>2
<1>5. S # {}
  <2>1. PICK i \in 1 .. Len(f) : f[i] = first
    BY <1>2 DEF Elements
  <2> QED
    BY <2>1
<1>6. Erased(t, first, last) = {f[i] : i \in from .. to}
  BY <1>1 DEF Erased
<1>7. to \in Int /\ to <= Len(f)
  BY <1>2, <1>4, PlaceTyped
<1> HIDE DEF S, from, to
<1>8. from \in 1 .. Len(f)
  BY <1>3, <1>4, <1>5, FirstPlace
<1>9. \A i \in from .. to : f[i] \in Elements(f)
  BY <1>4, <1>7, <1>8 DEF Elements
<1> QED
  BY <1>2, <1>6, <1>9

(* The chain of a key.                                                     *)
LEMMA ChainIs ==
  ASSUME HashInv, NEW t \in Tables, ~Fresh(t), NEW k \in Keys
  PROVE  /\ HashKey(k, Len(bucket[t])) \in 1 .. Len(bucket[t])
         /\ Chain(t, k) \in Seq(Nodes) /\ Elements(Chain(t, k)) \subseteq InChains(bucket[t])
         /\ FoundAt(val, Chain(t, k), k, FindNode(t, k))
<1>1. PICK c : c = bucket[t]
  OBVIOUS
<1>2. c \in Seq(Seq(Nodes)) /\ c # <<>>
  BY <1>1, FlatIsSound DEF Fresh
<1>3. Len(c) \in Nat \ {0}
  BY <1>2
<1>4. PICK h : h = HashKey(k, Len(c))
  OBVIOUS
<1>5. h \in 1 .. Len(c)
  BY <1>3, <1>4, HashKeyInRange
<1>6. Chain(t, k) = c[h]
  BY <1>1, <1>4 DEF Chain
<1>7. Chain(t, k) \in Seq(Nodes)
  BY <1>2, <1>5, <1>6
<1>8. Elements(c[h]) \subseteq InChains(c)
  BY <1>5, NodesInChains
<1>9. FoundAt(val, Chain(t, k), k, FindNode(t, k))
  BY <1>7, FindNodeIs
<1> QED
  BY <1>1, <1>4, <1>5, <1>6, <1>7, <1>8, <1>9

LEMMA EraseRangeKeeps ==
  ASSUME HashInv, NEW t \in Tables, NEW first, NEW last, EraseRange(t, first, last)
  PROVE  HashInv'
<1>1. first \in InChains(bucket[t]) /\ Unlink(t, Erased(t, first, last), "erase_range")
  BY FlatIsSound DEF EraseRange
<1>2. Erased(t, first, last) \subseteq InChains(bucket[t])
  BY <1>1, ErasedInTable
<1> QED
  BY <1>1, <1>2, UnlinkKeeps

(* A step that only answers.                                               *)
LEMMA AnswerKeeps ==
  ASSUME HashInv, UNCHANGED <<bucket, node_count, val>>, ResultTyped'
  PROVE  HashInv'
<1>1. bucket' = bucket /\ node_count' = node_count /\ val' = val /\ allocated' = allocated
  BY DEF allocated
<1>2. HashInv => \A t \in Tables : TableInv(val, bucket[t], node_count[t])
  BY DEF HashInv
<1> QED
  BY <1>1 DEF HashInv

LEMMA FoundNode ==
  ASSUME HashInv, NEW t \in Tables, ~Fresh(t), NEW k \in Keys
  PROVE  /\ At(Chain(t, k), FindNode(t, k)) \in Nodes \cup {End}
         /\ EqualRange(t, k) \subseteq Nodes
         /\ EqualRange(t, k) # {} => At(Chain(t, k), FindNode(t, k)) \in InChains(bucket[t])
<1>1. PICK q, p : q \in Seq(Nodes) /\ q = Chain(t, k) /\ p = FindNode(t, k)
  BY ChainIs
<1>2. Elements(q) \subseteq InChains(bucket[t]) /\ FoundAt(val, q, k, p)
  BY <1>1, ChainIs
<1>3. p \in 1 .. Len(q) + 1 /\ Len(q) \in Nat /\ DOMAIN q = 1 .. Len(q)
  BY <1>2 DEF FoundAt
<1>4. \A i \in p .. Len(q) : i \in 1 .. Len(q) /\ q[i] \in Nodes
  BY <1>1, <1>3
<1>5. EqualRange(t, k) = {q[i] : i \in {j \in p .. Len(q) : \A m \in p .. j : val[q[m]] = k}}
  BY <1>1 DEF EqualRange
<1>6. EqualRange(t, k) \subseteq Nodes
  BY <1>4, <1>5
<1>7. At(q, p) \in Nodes \cup {End}
  BY <1>1, <1>3 DEF At
<1>8. ASSUME EqualRange(t, k) # {} PROVE At(q, p) \in InChains(bucket[t])
  <2>1. PICK i \in p .. Len(q) : TRUE
    BY <1>5, <1>8
  <2>2. p \in 1 .. Len(q)
    BY <1>3, <2>1
  <2>3. At(q, p) = q[p] /\ q[p] \in Elements(q)
    BY <1>3, <2>2 DEF At, Elements
  <2> QED
    BY <1>2, <2>3
<1> QED
  BY <1>1, <1>6, <1>7, <1>8

LEMMA EraseKeyKeeps ==
  ASSUME HashInv, NEW t \in Tables, NEW k \in Keys, EraseKey(t, k)
  PROVE  HashInv'
<1>1. ~Fresh(t)
  BY DEF EraseKey
<1>2. CASE EqualRange(t, k) = {}
  <2>1. UNCHANGED <<bucket, node_count, val>> /\ result' = Iterator("erase", End)
    BY <1>2 DEF EraseKey
  <2>2. ResultTyped'
    BY <2>1 DEF ResultTyped, Iterator, NoResult
  <2> QED
    BY <2>1, <2>2, AnswerKeeps
<1>3. CASE EqualRange(t, k) # {}
  <2>1. PICK i : i = At(Chain(t, k), FindNode(t, k))
    OBVIOUS
  <2>2. Unlink(t, Erased(t, i, Successor(t, i)), "erase")
    BY <1>3, <2>1 DEF EraseKey
  <2>3. i \in InChains(bucket[t])
    BY <1>1, <1>3, <2>1, FoundNode
  <2>4. PICK removed : removed = Erased(t, i, Successor(t, i))
    OBVIOUS
  <2>5. removed \subseteq InChains(bucket[t])
    BY <2>3, <2>4, ErasedInTable
  <2>6. Unlink(t, removed, "erase")
    BY <2>2, <2>4
  <2> QED
    BY <2>5, <2>6, UnlinkKeeps
<1> QED
  BY <1>2, <1>3

LEMMA FindKeeps ==
  ASSUME HashInv, NEW t \in Tables, NEW k \in Keys, Find(t, k)
  PROVE  HashInv'
<1>1. ~Fresh(t) /\ UNCHANGED <<bucket, node_count, val>>
  BY DEF Find
<1>2. result'.it = At(Chain(t, k), FindNode(t, k)) /\ result'.range = EqualRange(t, k)
  BY DEF Find
<1>3. ResultTyped'
  BY <1>1, <1>2, FoundNode DEF ResultTyped
<1> QED
  BY <1>1, <1>3, AnswerKeeps

LEMMA BeginKeeps ==
  ASSUME HashInv, NEW t \in Tables, Begin(t)
  PROVE  HashInv'
<1>1. UNCHANGED <<bucket, node_count, val>>
  BY DEF Begin
<1>2. ResultTyped'
  BY DEF Begin, ResultTyped, Iterator, NoResult
<1> QED
  BY <1>1, <1>2, AnswerKeeps

(* insert(): the iterator it returns is never from another vector of       *)
(* chains, it is garbage instead.                                          *)
LEMMA InsertionKeeps ==
  ASSUME HashInv, NEW t \in Tables, ~Fresh(t), NEW k \in Keys, NEW n \in Nodes, n \notin allocated,
         NEW op, Insertion(t, k, n, op)
  PROVE  /\ HashInv' /\ OthersSame(t)
         /\ InChains(bucket'[t]) = InChains(bucket[t]) \cup {n}
         /\ val'[n] = k /\ \A x \in InChains(bucket[t]) : val'[x] = val[x]
         /\ result'.op = op /\ result'.inserted
<1> DEFINE rest == allocated \ InChains(bucket[t])
<1>1. PICK c : c = bucket[t]
  OBVIOUS
<1>2. /\ Sound(val, c) /\ KeysKnown(val, InChains(c)) /\ InChains(c) \subseteq allocated
      /\ node_count[t] = Cardinality(InChains(c)) /\ IsFiniteSet(InChains(c))
  BY <1>1, FlatIsSound
<1>3. PICK h, p, q : h = HashKey(k, Len(c)) /\ p = FindNode(t, k) /\ q = Chain(t, k)
  OBVIOUS
<1>4. h \in 1 .. Len(c) /\ q \in Seq(Nodes) /\ FoundAt(val, q, k, p) /\ Elements(q) \subseteq InChains(c)
  BY <1>1, <1>3, ChainIs
<1>5. q = c[h]
  BY <1>1, <1>3 DEF Chain
<1>6. PICK w : w = WithKey(n, k)
  OBVIOUS
<1>21. PICK chains : Replaced(chains, c, h, InsertAt(c[h], p, n))
  BY DEF Replaced
<1>7. /\ n \in DOMAIN w /\ w[n] = k /\ DOMAIN w = allocated \cup {n}
      /\ \A x \in DOMAIN val : x # n => x \in DOMAIN w /\ w[x] = val[x]
  BY <1>6 DEF WithKey, allocated
<1>8. /\ Sound(w, chains) /\ InChains(chains) = InChains(c) \cup {n}
      /\ KeysKnown(w, InChains(chains)) /\ Len(chains) = Len(c)
  <2>1. Replaced(chains, c, HashKey(k, Len(c)), InsertAt(c[HashKey(k, Len(c))], p, n))
    BY <1>3, <1>21
  <2>2. FoundAt(val, c[HashKey(k, Len(c))], k, p)
    BY <1>3, <1>4, <1>5
  <2>3. n \notin InChains(c) /\ c # <<>>
    BY <1>1, <1>2 DEF Fresh
  <2>4. Sound(val, c) /\ KeysKnown(val, InChains(c))
    BY <1>2
  <2> QED
    BY <1>7, <2>1, <2>2, <2>3, <2>4, InsertSound
<1>9. PICK size : size = node_count[t] + 1
  OBVIOUS
<1>10. size \in Nat /\ size = Cardinality(InChains(chains))
  <2>1. PICK S : S = InChains(c)
    OBVIOUS
  <2>2. Cardinality(S \cup {n}) = IF n \in S THEN Cardinality(S) ELSE Cardinality(S) + 1
    BY <1>2, <2>1, FS_AddElement
  <2>3. Cardinality(S) \in Nat /\ n \notin S
    BY <1>2, <2>1, FS_CardinalityType
  <2> QED
    BY <1>2, <1>8, <1>9, <2>1, <2>2, <2>3
<1>11. PICK d : d = Resize(w, chains, size)
  OBVIOUS
<1>12. /\ Sound(w, d) /\ InChains(d) = InChains(c) \cup {n} /\ Len(d) \in Nat \ {0}
       /\ size < AvgBucketCount * Len(d)
  <2>1. /\ Sound(w, Resize(w, chains, size))
        /\ InChains(Resize(w, chains, size)) = InChains(chains)
        /\ Len(Resize(w, chains, size)) \in Nat \ {0}
        /\ size < AvgBucketCount * Len(Resize(w, chains, size))
    <3>1. Sound(w, chains) /\ KeysKnown(w, InChains(chains))
      BY <1>8
    <3> QED
      BY <1>10, <3>1, ResizeSound
  <2> QED
    BY <1>8, <1>11, <2>1
<1> DEFINE before == c[h][p - 1]
           moved == d[HashKey(w[before], Len(d))]
<1>13. /\ val' = w /\ bucket' = [bucket EXCEPT ![t] = d] /\ node_count' = [node_count EXCEPT ![t] = size]
       /\ result'.range = {} /\ result'.op = op /\ result'.inserted
       /\ result'.it = IF ~Grows(chains, size) THEN n
                       ELSE IF p = 1 THEN Garbage ELSE At(moved, Place(moved, before) + 1)
  <2>1. chains = [c EXCEPT ![h] = InsertAt(@, p, n)]
    BY <1>21 DEF Replaced
  <2> QED
    BY <1>1, <1>3, <1>6, <1>9, <1>11, <2>1 DEF Insertion, NoResult
<1> HIDE DEF moved
<1>14. p # 1 => At(moved, Place(moved, before) + 1) \in Nodes \cup {End}
  <2> SUFFICES ASSUME p # 1 PROVE At(moved, Place(moved, before) + 1) \in Nodes \cup {End}
    OBVIOUS
  <2>1. p - 1 \in 1 .. Len(q)
    BY <1>4 DEF FoundAt
  <2>2. before \in InChains(c)
    BY <1>4, <1>5, <2>1 DEF Elements
  <2>3. w[before] \in Keys
    BY <1>8, <2>2 DEF KeysKnown
  <2>4. HashKey(w[before], Len(d)) \in 1 .. Len(d)
    BY <1>12, <2>3, HashKeyInRange
  <2>5. d \in Seq(Seq(Nodes))
    BY <1>12 DEF Sound
  <2>6. moved \in Seq(Nodes)
    BY <2>4, <2>5 DEF moved
  <2>7. DOMAIN moved = 1 .. Len(moved) /\ \A i \in 1 .. Len(moved) : moved[i] \in Nodes
    BY <2>6
  <2> QED
    BY <2>7 DEF At
<1>15. ResultTyped'
  BY <1>13, <1>14 DEF ResultTyped
<1>16. TableInv(val', d, size) /\ KeysKnown(val', InChains(d))
  BY <1>8, <1>10, <1>12, <1>13 DEF TableInv
<1>17. allocated' = allocated \cup {n}
  BY <1>7, <1>13 DEF allocated
<1>18. (\A x : x \in allocated' <=> x \in InChains(d) \/ x \in rest) /\ InChains(d) \cap rest = {}
  BY <1>1, <1>2, <1>12, <1>17
<1>19. \A x \in rest : val'[x] = val[x]
  BY <1>7, <1>13 DEF allocated
<1> HIDE DEF rest
<1>20. rest = allocated \ InChains(bucket[t])
  BY DEF rest
<1>22. HashInv' /\ OthersSame(t) /\ bucket'[t] = d
  BY <1>13, <1>15, <1>16, <1>18, <1>19, <1>20, OneTable
<1>23. val'[n] = k /\ \A x \in InChains(c) : val'[x] = val[x]
  BY <1>2, <1>7, <1>13 DEF allocated
<1> QED
  BY <1>1, <1>12, <1>13, <1>22, <1>23

LEMMA InsertUniqueKeeps ==
  ASSUME HashInv, NEW t \in Tables, NEW k \in Keys, InsertUnique(t, k)
  PROVE  HashInv'
<1>1. ~Fresh(t)
  BY DEF InsertUnique
<1>2. CASE /\ result' = Iterator("insert", At(Chain(t, k), FindNode(t, k)))
           /\ UNCHANGED <<bucket, node_count, val>>
  <2>1. At(Chain(t, k), FindNode(t, k)) \in Nodes \cup {End}
    BY <1>1, FoundNode
  <2>2. ResultTyped'
    BY <1>2, <2>1 DEF ResultTyped, Iterator, NoResult
  <2> QED
    BY <1>2, <2>2, AnswerKeeps
<1>3. CASE Free # {} /\ Insertion(t, k, NewNode, "insert")
  <2>1. NewNode \in Nodes /\ NewNode \notin allocated
    BY <1>3 DEF NewNode, Free
  <2> QED
    BY <1>1, <1>3, <2>1, InsertionKeeps
<1> QED
  BY <1>2, <1>3 DEF InsertUnique

LEMMA InsertMultipleKeeps ==
  ASSUME HashInv, NEW t \in Tables, NEW k \in Keys, InsertMultiple(t, k)
  PROVE  HashInv'
<1>1. ~Fresh(t) /\ Free # {} /\ Insertion(t, k, NewNode, "insert_multiple")
  BY DEF InsertMultiple
<1>2. NewNode \in Nodes /\ NewNode \notin allocated
  BY <1>1 DEF NewNode, Free
<1> QED
  BY <1>1, <1>2, InsertionKeeps

(* SetToSeq() gives different places different elements.                   *)
LEMMA SetToSeqIs ==
  ASSUME NEW S, IsFiniteSet(S), NEW f, f = SetToSeq(S)
  PROVE  f \in [1 .. Cardinality(S) -> S] /\ \A i, j \in 1 .. Cardinality(S) : f[i] = f[j] => i = j
<1>1. PICK n : n = Cardinality(S)
  OBVIOUS
<1>2. ExistsBijection(1 .. n, S)
  BY <1>1, FS_CardinalityType
<1>3. PICK g : g \in Bijection(1 .. n, S)
  BY <1>2 DEF ExistsBijection
<1>4. g \in [1 .. n -> S] /\ IsInjective(g)
  BY <1>3 DEF Bijection, Injection, IsInjective
<1>5. f = CHOOSE e \in [1 .. n -> S] : IsInjective(e)
  BY <1>1 DEF SetToSeq
<1>6. f \in [1 .. n -> S] /\ IsInjective(f)
  BY <1>4, <1>5
<1> QED
  BY <1>1, <1>6 DEF IsInjective

(* The inverse of a function that maps different arguments differently.    *)
LEMMA AntiFunctionIs ==
  ASSUME NEW S, NEW T, NEW f \in [S -> T], \A x, y \in S : f[x] = f[y] => x = y,
         NEW g, g = AntiFunction(f)
  PROVE  DOMAIN g = {f[x] : x \in S} /\ \A x \in S : g[f[x]] = x
<1>1. DOMAIN f = S
  OBVIOUS
<1>2. g = [y \in {f[x] : x \in S} |-> CHOOSE x \in S : y \in {f[z] : z \in S} => f[x] = y]
  BY <1>1 DEF AntiFunction, Inverse, Range
<1>3. ASSUME NEW x \in S PROVE g[f[x]] = x
  <2>1. PICK y : y = f[x]
    OBVIOUS
  <2>2. y \in {f[z] : z \in S}
    BY <2>1
  <2>3. g[y] = CHOOSE z \in S : f[z] = y
    BY <1>2, <2>2
  <2> QED
    BY <2>1, <2>3
<1> QED
  BY <1>2, <1>3

LEMMA AssignKeeps ==
  ASSUME HashInv, NEW t \in Tables, NEW u \in Tables, Assign(t, u)
  PROVE  /\ HashInv' /\ OthersSame(t) /\ result' = NoResult
         /\ \E copy :
              /\ InChains(bucket'[t]) = {copy[x] : x \in InChains(bucket[u])}
              /\ \A x, y \in InChains(bucket[u]) : copy[x] = copy[y] => x = y
              /\ \A x \in InChains(bucket[u]) : val'[copy[x]] = val[x]
<1> DEFINE rest == allocated \ InChains(bucket[t])
<1>1. PICK c, S, old : c = bucket[u] /\ S = InChains(c) /\ old = Flat(u)
  OBVIOUS
<1>2. /\ Sound(val, c) /\ KeysKnown(val, S) /\ S \subseteq allocated /\ Linked(u) = S
      /\ old \in Seq(Nodes) /\ Distinct(old) /\ Elements(old) = S
      /\ node_count[u] = Cardinality(S) /\ IsFiniteSet(S) /\ c \in Seq(Seq(Nodes))
  BY <1>1, FlatIsSound
<1>3. PICK new, M : new = SetToSeq(Free) /\ M = Cardinality(Free)
  OBVIOUS
<1>4. IsFiniteSet(Free)
  <2>1. IsFiniteSet(Nodes) /\ Free \in SUBSET Nodes
    BY HashTableAssumption DEF Free
  <2> QED
    BY <2>1, FS_Subset
<1>5. new \in [1 .. M -> Free] /\ \A i, j \in 1 .. M : new[i] = new[j] => i = j
  BY <1>3, <1>4, SetToSeqIs
<1>6. M \in Nat /\ Len(old) \in Nat /\ Len(old) <= M
  BY <1>1, <1>2, <1>3, <1>4, FS_CardinalityType DEF Assign
<1>7. ASSUME NEW n \in S
      PROVE  Place(old, n) \in 1 .. M /\ Place(old, n) \in 1 .. Len(old) /\ old[Place(old, n)] = n
  <2>1. PICK i \in 1 .. Len(old) : old[i] = n
    BY <1>2 DEF Elements
  <2>2. Place(old, n) = i
    BY <1>2, <2>1, PlaceIs
  <2> QED
    BY <1>6, <2>1, <2>2
<1>8. PICK copy : copy = [n \in S |-> new[Place(old, n)]]
  OBVIOUS
<1>9. copy \in [S -> Free] /\ \A x, y \in S : copy[x] = copy[y] => x = y
  <2>1. \A n \in S : copy[n] = new[Place(old, n)] /\ copy[n] \in Free
    BY <1>5, <1>7, <1>8
  <2>2. ASSUME NEW x \in S, NEW y \in S, copy[x] = copy[y] PROVE x = y
    <3>1. Place(old, x) = Place(old, y)
      BY <1>5, <1>7, <2>1, <2>2
    <3> QED
      BY <1>7, <3>1
  <2> QED
    BY <1>8, <2>1, <2>2
<1>10. PICK original : original = AntiFunction(copy)
  OBVIOUS
<1>11. DOMAIN original = {copy[n] : n \in S} /\ \A n \in S : original[copy[n]] = n
  BY <1>9, <1>10, AntiFunctionIs
<1>12. PICK d : d = CopyOf(c, copy)
  OBVIOUS
<1>13. Linked(t) = InChains(bucket[t])
  BY FlatIsSound
<1>14. /\ val' = [n \in DOMAIN original \cup rest |-> val[IF n \in DOMAIN original THEN original[n] ELSE n]]
       /\ bucket' = [bucket EXCEPT ![t] = d] /\ node_count' = [node_count EXCEPT ![t] = node_count[u]]
       /\ result' = NoResult
  BY <1>1, <1>2, <1>3, <1>8, <1>10, <1>12, <1>13 DEF Assign
<1>15. DOMAIN original \cap allocated = {}
  BY <1>9, <1>11 DEF Free
<1> HIDE DEF rest
<1>16. rest = allocated \ InChains(bucket[t])
  BY DEF rest
<1>17. PICK w : w = val'
  OBVIOUS
<1>18. DOMAIN w = DOMAIN original \cup rest
  BY <1>14, <1>17
<1>19. \A n \in S : copy[n] \in DOMAIN w /\ w[copy[n]] = val[n]
  BY <1>11, <1>14, <1>17
<1>20. \A x \in rest : w[x] = val[x]
  BY <1>14, <1>15, <1>16, <1>17
<1>21. /\ Sound(w, d) /\ KeysKnown(w, InChains(d)) /\ Len(d) = Len(c)
       /\ InChains(d) = {copy[n] : n \in S}
  <2>1. copy \in [InChains(c) -> Nodes] /\ \A x, y \in InChains(c) : copy[x] = copy[y] => x = y
    BY <1>1, <1>9 DEF Free
  <2>2. \A x \in InChains(c) : copy[x] \in DOMAIN w /\ w[copy[x]] = val[x]
    BY <1>1, <1>19
  <2>3. Sound(val, c) /\ KeysKnown(val, InChains(c))
    BY <1>1, <1>2
  <2>4. /\ Sound(w, d) /\ KeysKnown(w, InChains(d)) /\ Len(d) = Len(c)
        /\ InChains(d) = {copy[x] : x \in InChains(c)}
    BY <1>12, <2>1, <2>2, <2>3, CopySound
  <2> QED
    BY <1>1, <2>4
<1>22. Cardinality(InChains(d)) = Cardinality(S)
  <2>1. PICK T : T = InChains(d)
    OBVIOUS
  <2>2. copy \in Bijection(S, T)
    BY <1>9, <1>21, <2>1 DEF Bijection, Injection, Surjection, IsInjective
  <2>3. ExistsBijection(S, T)
    BY <2>2 DEF ExistsBijection
  <2> QED
    BY <1>2, <2>1, <2>3, FS_Bijection
<1>23. TableInv(w, d, node_count[u])
  <2>1. Cardinality(S) \in Nat
    BY <1>2, FS_CardinalityType
  <2>2. c # <<>> => node_count[u] < AvgBucketCount * Len(c)
    BY <1>1 DEF HashInv, TableInv
  <2>3. d # <<>> => c # <<>>
    <3>1. d \in Seq(Seq(Nodes))
      BY <1>21 DEF Sound
    <3> QED
      BY <1>2, <1>21, <3>1
  <2> QED
    BY <1>2, <1>21, <1>22, <2>1, <2>2, <2>3 DEF TableInv
<1>24. \A x : x \in allocated' <=> x \in InChains(d) \/ x \in rest
  BY <1>11, <1>17, <1>18, <1>21 DEF allocated
<1>25. InChains(d) \cap rest = {}
  BY <1>11, <1>15, <1>16, <1>21
<1>26. ResultTyped'
  BY <1>14 DEF ResultTyped, NoResult
<1>27. HashInv' /\ OthersSame(t) /\ bucket'[t] = d
  BY <1>14, <1>16, <1>17, <1>20, <1>21, <1>23, <1>24, <1>25, <1>26, OneTable
<1>28. /\ InChains(bucket'[t]) = {copy[x] : x \in InChains(bucket[u])}
       /\ \A x, y \in InChains(bucket[u]) : copy[x] = copy[y] => x = y
       /\ \A x \in InChains(bucket[u]) : val'[copy[x]] = val[x]
  BY <1>1, <1>9, <1>17, <1>19, <1>21, <1>27
<1> QED
  BY <1>14, <1>27, <1>28

LEMMA HashInvInit == Init => HashInv
<1> SUFFICES ASSUME Init PROVE HashInv
  OBVIOUS
<1>1. PICK c : c = <<>>
  OBVIOUS
<1>2. c \in Seq(Seq(Nodes)) /\ Len(c) = 0
  BY <1>1
<1>3. allocated = {}
  BY DEF Init, allocated
<1>4. InChains(c) = {}
  BY <1>2 DEF InChains
<1>5. Sound(val, c)
  BY <1>2 DEF Sound, Hashed
<1>6. TableInv(val, c, 0)
  BY <1>1, <1>4, <1>5, FS_EmptySet DEF TableInv
<1>7. \A t \in Tables : bucket[t] = c /\ node_count[t] = 0
  BY <1>1 DEF Init
<1>8. bucket \in [Tables -> Seq(Seq(Nodes))] /\ node_count \in [Tables -> Nat]
  BY <1>1, <1>2 DEF Init
<1>9. ResultTyped
  BY DEF Init, ResultTyped, NoResult
<1>10. KeysKnown(val, allocated)
  BY <1>3 DEF KeysKnown
<1> QED
  BY <1>3, <1>4, <1>6, <1>7, <1>8, <1>9, <1>10 DEF HashInv

LEMMA HashInvNext == HashInv /\ [Next]_vars => HashInv'
<1> SUFFICES ASSUME HashInv, [Next]_vars PROVE HashInv'
  OBVIOUS
<1>1. CASE UNCHANGED vars
  <2>1. UNCHANGED <<bucket, node_count, val>> /\ ResultTyped'
    BY <1>1 DEF vars, HashInv, ResultTyped
  <2> QED
    BY <2>1, AnswerKeeps
<1>2. ASSUME NEW t \in Tables, Trap(t) PROVE HashInv'
  <2>1. UNCHANGED <<bucket, node_count, val>> /\ ResultTyped'
    BY <1>2 DEF Trap, HashInv, ResultTyped
  <2> QED
    BY <2>1, AnswerKeeps
<1>3. ASSUME NEW t \in Tables, Clear(t) PROVE HashInv'
  BY <1>3, ClearKeeps
<1>4. ASSUME NEW t \in Tables, Begin(t) PROVE HashInv'
  BY <1>4, BeginKeeps
<1>5. ASSUME NEW t \in Tables, NEW k \in Keys,
             InsertUnique(t, k) \/ InsertMultiple(t, k) \/ EraseKey(t, k) \/ Find(t, k)
      PROVE  HashInv'
  BY <1>5, InsertUniqueKeeps, InsertMultipleKeeps, EraseKeyKeeps, FindKeeps
<1>6. ASSUME NEW t \in Tables, NEW first, NEW last, EraseRange(t, first, last) PROVE HashInv'
  BY <1>6, EraseRangeKeeps
<1>7. ASSUME NEW t \in Tables, NEW u \in Tables, Swap(t, u) PROVE HashInv'
  BY <1>7, SwapKeeps
<1>8. ASSUME NEW t \in Tables, NEW u \in Tables, Assign(t, u) PROVE HashInv'
  BY <1>8, AssignKeeps
<1> QED
  BY <1>1, <1>2, <1>3, <1>4, <1>5, <1>6, <1>7, <1>8 DEF Next

-----------------------------------------------------------------------------
(* What the invariant says of the tables                                   *)

(* ++ goes through the order of iteration.                                 *)
LEMMA Iterates ==
  ASSUME HashInv, NEW t \in Tables, NEW i \in 1 .. Len(Flat(t))
  PROVE  Successor(t, Flat(t)[i]) = At(Flat(t), i + 1)
<1>1. PICK c : c = bucket[t]
  OBVIOUS
<1>2. Sound(val, c) /\ c \in Seq(Seq(Nodes))
  BY <1>1, FlatIsSound
<1>3. PICK f : f = Flat(t)
  OBVIOUS
<1>4. f = FlattenSeq(c) /\ f \in Seq(Nodes)
  BY <1>1, <1>3, FlatIsSound DEF Flat
<1>5. PICK off : FlatIs(c, off)
  BY <1>2, FlatParts
<1>6. /\ \A b \in 1 .. Len(c) : \A j \in 1 .. Len(c[b]) : off[b - 1] + j \in 1 .. Len(f)
      /\ \A x \in 1 .. Len(f) : \E b \in 1 .. Len(c) : \E j \in 1 .. Len(c[b]) :
           x = off[b - 1] + j /\ f[x] = c[b][j]
      /\ \A b, d \in 1 .. Len(c) : \A j \in 1 .. Len(c[b]) : \A k \in 1 .. Len(c[d]) :
           b < d => off[b - 1] + j < off[d - 1] + k
      /\ \A b \in 1 .. Len(c) : off[b - 1] \in Nat
  <2>1. c \in Seq(Seq(Nodes)) /\ FlatIs(c, off)
    BY <1>2, <1>5
  <2>2. f = FlattenSeq(c)
    BY <1>4
  <2>3. /\ \A b \in 1 .. Len(c) : \A j \in 1 .. Len(c[b]) :
             off[b - 1] + j \in 1 .. Len(FlattenSeq(c))
        /\ \A x \in 1 .. Len(FlattenSeq(c)) : \E b \in 1 .. Len(c) : \E j \in 1 .. Len(c[b]) :
             x = off[b - 1] + j /\ FlattenSeq(c)[x] = c[b][j]
        /\ \A b, d \in 1 .. Len(c) : \A j \in 1 .. Len(c[b]) : \A k \in 1 .. Len(c[d]) :
             b < d => off[b - 1] + j < off[d - 1] + k
        /\ \A b \in 1 .. Len(c) : off[b - 1] \in Nat
    BY <2>1, FlatPlaces
  <2> QED
    BY <2>2, <2>3
<1>7. \A b \in 1 .. Len(c) : \A j \in 1 .. Len(c[b]) : f[off[b - 1] + j] = c[b][j]
  BY <1>4, <1>5 DEF FlatIs
<1>8. /\ Len(c) \in Nat
      /\ \A b \in 1 .. Len(c) : c[b] \in Seq(Nodes) /\ Len(c[b]) \in Nat
  BY <1>2, ChainsTyped
<1>9. Len(f) \in Nat /\ DOMAIN f = 1 .. Len(f) /\ i \in 1 .. Len(f)
  BY <1>3, <1>4
<1>10. PICK b \in 1 .. Len(c) : \E j \in 1 .. Len(c[b]) : i = off[b - 1] + j /\ f[i] = c[b][j]
  BY <1>6, <1>9
<1>11. PICK j \in 1 .. Len(c[b]) : i = off[b - 1] + j /\ f[i] = c[b][j]
  BY <1>10
<1>12. PICK q, l, n : q = c[b] /\ l = Len(c[b]) /\ n = f[i]
  OBVIOUS
<1>13. q \in Seq(Nodes) /\ Distinct(q) /\ l = Len(q) /\ l \in Nat /\ j \in 1 .. l /\ n = q[j]
  BY <1>2, <1>8, <1>10, <1>11, <1>12 DEF Sound
<1>14. HashKey(val[n], Len(c)) = b
  BY <1>2, <1>10, <1>11, <1>12 DEF Sound, Hashed
<1>15. PICK later : later = {d \in b + 1 .. Len(c) : c[d] # <<>>}
  OBVIOUS
<1>16. Successor(t, n) = IF n # q[l] THEN q[Place(q, n) + 1]
                         ELSE IF later = {} THEN End ELSE Head(c[Min(later)])
  BY <1>1, <1>12, <1>13, <1>14, <1>15 DEF Successor, Last
<1>17. i \in Nat /\ i \in 1 .. Len(f)
  BY <1>9
<1>18. CASE j # l
  <2>1. n # q[l]
    BY <1>13, <1>18 DEF Distinct
  <2>2. Place(q, n) = j
    BY <1>13, PlaceIs
  <2>3. Successor(t, n) = q[j + 1]
    BY <1>16, <2>1, <2>2
  <2>4. j + 1 \in 1 .. Len(c[b])
    BY <1>12, <1>13, <1>18
  <2>5. PICK x \in Nat : x = off[b - 1]
    BY <1>6, <1>10
  <2>6. x + (j + 1) \in 1 .. Len(f) /\ f[x + (j + 1)] = q[j + 1]
    BY <1>6, <1>7, <1>10, <1>12, <2>4, <2>5
  <2>7. i + 1 = x + (j + 1)
    <3>1. i = x + j /\ j \in Nat /\ x \in Nat
      BY <1>11, <1>13, <2>5
    <3> QED
      BY <3>1
  <2>8. At(f, i + 1) = q[j + 1]
    BY <1>9, <2>6, <2>7 DEF At
  <2> QED
    BY <1>3, <1>12, <2>3, <2>8
<1>19. ASSUME j = l, NEW d \in 1 .. Len(c), NEW k \in 1 .. Len(c[d]), i + 1 = off[d - 1] + k
       PROVE  d \in later
  <2>1. PICK x \in Nat, y \in Nat : x = off[b - 1] /\ y = off[d - 1]
    BY <1>6, <1>10, <1>19
  <2>2. k \in Nat /\ d \in Nat /\ b \in Nat /\ i = x + j /\ i + 1 = y + k
    BY <1>8, <1>11, <1>10, <1>19, <2>1
  <2>3. d < b => y + k < x + j
    BY <1>6, <1>10, <1>11, <1>19, <2>1
  <2>4. d # b
    <3> SUFFICES ASSUME d = b PROVE FALSE
      OBVIOUS
    <3>1. k <= l /\ x = y
      BY <1>8, <1>12, <1>19, <2>1
    <3> QED
      BY <1>13, <1>19, <2>2, <3>1
  <2>5. b < d
    BY <1>13, <2>2, <2>3, <2>4
  <2>6. c[d] # <<>>
    BY <1>8, <1>19
  <2> QED
    BY <1>8, <1>15, <2>2, <2>5, <2>6
<1>20. CASE j = l /\ later = {}
  <2>1. Successor(t, n) = End
    BY <1>13, <1>16, <1>20
  <2>2. i + 1 \notin 1 .. Len(f)
    <3> SUFFICES ASSUME i + 1 \in 1 .. Len(f) PROVE FALSE
      OBVIOUS
    <3>1. PICK d \in 1 .. Len(c) : \E k \in 1 .. Len(c[d]) : i + 1 = off[d - 1] + k
      BY <1>6
    <3>2. PICK k \in 1 .. Len(c[d]) : i + 1 = off[d - 1] + k
      BY <3>1
    <3> QED
      BY <1>19, <1>20, <3>1, <3>2
  <2>3. At(f, i + 1) = End
    BY <1>9, <2>2 DEF At
  <2> QED
    BY <1>3, <1>12, <2>1, <2>3
<1>21. CASE j = l /\ later # {}
  <2>1. PICK m : m = Min(later)
    OBVIOUS
  <2>2. later \in SUBSET Nat
    BY <1>8, <1>15
  <2>3. m \in later /\ \A x \in later : m <= x
    BY <1>21, <2>1, <2>2, FirstPlace
  <2>4. m \in 1 .. Len(c) /\ b < m /\ c[m] # <<>> /\ m \in Nat
    BY <1>8, <1>10, <1>15, <2>3
  <2>5. PICK r \in Seq(Nodes) : r = c[m]
    BY <1>8, <2>4
  <2>6. Head(r) = r[1] /\ 1 \in 1 .. Len(r)
    BY <2>4, <2>5
  <2>7. Successor(t, n) = r[1]
    BY <1>13, <1>16, <1>21, <2>1, <2>5, <2>6
  <2>8. PICK x \in Nat, y \in Nat : x = off[b - 1] /\ y = off[m - 1]
    BY <1>6, <1>10, <2>4
  <2>9. y + 1 \in 1 .. Len(f) /\ f[y + 1] = r[1]
    BY <1>6, <1>7, <2>4, <2>5, <2>6, <2>8
  <2>10. i < y + 1
    BY <1>6, <1>10, <1>11, <2>4, <2>5, <2>6, <2>8
  <2>11. ~(i + 1 < y + 1)
    <3> SUFFICES ASSUME i + 1 < y + 1 PROVE FALSE
      OBVIOUS
    <3>1. i + 1 \in 1 .. Len(f)
      BY <1>9, <1>17, <2>9
    <3>2. PICK d \in 1 .. Len(c) : \E k \in 1 .. Len(c[d]) : i + 1 = off[d - 1] + k
      BY <1>6, <3>1
    <3>3. PICK k \in 1 .. Len(c[d]) : i + 1 = off[d - 1] + k
      BY <3>2
    <3>4. d \in later /\ m <= d
      BY <1>19, <1>21, <2>3, <3>2, <3>3
    <3>5. PICK z \in Nat : z = off[d - 1]
      BY <1>6, <3>2
    <3>6. k \in Nat /\ 1 <= k /\ i + 1 = z + k /\ d \in Nat
      BY <1>8, <3>2, <3>3, <3>5
    <3>7. m < d => y + 1 < z + k
      BY <1>6, <2>4, <2>5, <2>6, <2>8, <3>2, <3>3, <3>5
    <3>8. m = d => y = z
      BY <2>8, <3>5
    <3> QED
      BY <2>4, <3>4, <3>6, <3>7, <3>8
  <2>12. y + 1 = i + 1
    BY <1>17, <2>10, <2>11
  <2>13. At(f, i + 1) = r[1]
    BY <1>9, <2>9, <2>12 DEF At
  <2> QED
    BY <1>3, <1>12, <2>7, <2>13
<1> QED
  BY <1>18, <1>20, <1>21

LEMMA HashInvSound == HashInv => WellFormed
<1> SUFFICES ASSUME HashInv PROVE WellFormed
  OBVIOUS
<1>1. TypeOK
  <2>1. allocated \subseteq Nodes
    BY FlatIsSound DEF HashInv
  <2> QED
    BY <2>1 DEF TypeOK, HashInv, KeysKnown, ResultTyped
<1>2. ChainsHashed
  <2> SUFFICES ASSUME NEW t \in Tables, NEW b \in DOMAIN bucket[t], NEW n \in ToSet(bucket[t][b])
               PROVE  HashKey(val[n], Len(bucket[t])) = b
    BY DEF ChainsHashed
  <2>1. PICK c : c = bucket[t]
    OBVIOUS
  <2>2. Sound(val, c) /\ c \in Seq(Seq(Nodes))
    BY <2>1, FlatIsSound
  <2>3. b \in 1 .. Len(c)
    BY <2>1, <2>2
  <2>4. PICK q \in Seq(Nodes) : q = c[b]
    BY <2>2, <2>3
  <2>5. PICK i \in 1 .. Len(q) : n = q[i]
    BY <2>1, <2>4 DEF ToSet
  <2> QED
    BY <2>1, <2>2, <2>3, <2>4, <2>5 DEF Sound, Hashed
<1>3. NodesOwned
  <2>1. ASSUME NEW t \in Tables PROVE IsInjective(Flat(t))
    <3>1. Flat(t) \in Seq(Nodes) /\ Distinct(Flat(t))
      BY FlatIsSound
    <3> QED
      BY <3>1 DEF IsInjective, Distinct
  <2>2. \A t \in Tables : Linked(t) = InChains(bucket[t])
    BY FlatIsSound
  <2>3. \A t, u \in Tables : t # u => Linked(t) \cap Linked(u) = {}
    BY <2>2 DEF HashInv
  <2>4. UNION {Linked(t) : t \in Tables} = allocated
    BY <2>2 DEF HashInv
  <2> QED
    BY <2>1, <2>3, <2>4 DEF NodesOwned
<1>4. CountIsNodes
  <2> SUFFICES ASSUME NEW t \in Tables
               PROVE  /\ node_count[t] = Len(Flat(t))
                      /\ ~Fresh(t) => node_count[t] < AvgBucketCount * Len(bucket[t])
    BY DEF CountIsNodes
  <2>1. node_count[t] = Len(Flat(t))
    BY FlatIsSound
  <2> QED
    BY <2>1 DEF HashInv, TableInv, Fresh
<1>5. KeysGrouped
  <2> SUFFICES ASSUME NEW t \in Tables, NEW i \in DOMAIN Flat(t), NEW j \in DOMAIN Flat(t),
                      val[Flat(t)[i]] = val[Flat(t)[j]], NEW m \in i .. j
               PROVE  val[Flat(t)[m]] = val[Flat(t)[i]]
    BY DEF KeysGrouped
  <2>1. PICK f : f = Flat(t)
    OBVIOUS
  <2>2. f \in Seq(Nodes) /\ Grouped(val, f)
    BY <2>1, FlatIsSound
  <2>3. i \in 1 .. Len(f) /\ j \in 1 .. Len(f)
    BY <2>1, <2>2
  <2> QED
    BY <2>1, <2>2, <2>3 DEF Grouped
<1>6. SuccessorIterates
  <2> SUFFICES ASSUME NEW t \in Tables, NEW i \in DOMAIN Flat(t)
               PROVE  Successor(t, Flat(t)[i]) = At(Flat(t), i + 1)
    BY DEF SuccessorIterates
  <2>1. Flat(t) \in Seq(Nodes)
    BY FlatIsSound
  <2>2. i \in 1 .. Len(Flat(t))
    BY <2>1
  <2> QED
    BY <2>2, Iterates
<1> QED
  BY <1>1, <1>2, <1>3, <1>4, <1>5, <1>6 DEF WellFormed

(* A table is sound after every call: every node is in the chain of its    *)
(* key, is owned once and is counted, equal keys are neighbours, and ++    *)
(* goes from the first node to the last.                                   *)
THEOREM TablesWellFormed == Spec => []WellFormed
<1>1. Spec => []HashInv
  BY HashInvInit, HashInvNext, PTL DEF Spec
<1> QED
  BY <1>1, HashInvSound, PTL

-----------------------------------------------------------------------------
(* What find() and erase() do                                              *)

(* equal_range() is the nodes with the key, and find() is one of them.     *)
LEMMA EqualRangeIs ==
  ASSUME HashInv, NEW t \in Tables, ~Fresh(t), NEW k \in Keys
  PROVE  /\ EqualRange(t, k) = {n \in InChains(bucket[t]) : val[n] = k}
         /\ \/ At(Chain(t, k), FindNode(t, k)) \in EqualRange(t, k)
            \/ At(Chain(t, k), FindNode(t, k)) = End /\ EqualRange(t, k) = {}
<1>1. PICK c, q, p, h : c = bucket[t] /\ q = Chain(t, k) /\ p = FindNode(t, k) /\ h = HashKey(k, Len(c))
  OBVIOUS
<1>2. /\ h \in 1 .. Len(c) /\ q \in Seq(Nodes) /\ Elements(q) \subseteq InChains(c)
      /\ FoundAt(val, q, k, p)
  BY <1>1, ChainIs
<1>3. q = c[h] /\ Sound(val, c)
  BY <1>1, FlatIsSound DEF Chain
<1>4. Grouped(val, q)
  BY <1>2, <1>3 DEF Sound
<1>5. p \in 1 .. Len(q) + 1 /\ Len(q) \in Nat /\ DOMAIN q = 1 .. Len(q)
  BY <1>2 DEF FoundAt
<1>6. EqualRange(t, k) = {q[i] : i \in {j \in p .. Len(q) : \A m \in p .. j : val[q[m]] = k}}
  BY <1>1 DEF EqualRange
<1>7. ASSUME NEW i \in p .. Len(q), val[q[i]] = k
      PROVE  q[i] \in EqualRange(t, k)
  <2>1. p \in 1 .. Len(q) /\ i \in 1 .. Len(q) /\ val[q[p]] = k
    BY <1>2, <1>5 DEF FoundAt
  <2>2. \A m \in p .. i : val[q[m]] = k
    BY <1>4, <1>7, <2>1 DEF Grouped
  <2> QED
    BY <1>6, <2>2
<1>8. ASSUME NEW n \in EqualRange(t, k) PROVE n \in InChains(c) /\ val[n] = k
  <2>1. PICK i \in p .. Len(q) : n = q[i] /\ \A m \in p .. i : val[q[m]] = k
    BY <1>6
  <2>2. i \in 1 .. Len(q) /\ i \in p .. i
    BY <1>5, <2>1
  <2>3. q[i] \in Elements(q)
    BY <2>2 DEF Elements
  <2> QED
    BY <1>2, <2>1, <2>2, <2>3
<1>9. ASSUME NEW n \in InChains(c), val[n] = k PROVE n \in EqualRange(t, k)
  <2>1. PICK b \in 1 .. Len(c) : n \in Elements(c[b])
    BY NodesInChains
  <2>2. PICK i \in 1 .. Len(c[b]) : n = c[b][i]
    BY <2>1 DEF Elements
  <2>3. b = h
    BY <1>1, <1>3, <1>9, <2>1, <2>2 DEF Sound, Hashed
  <2>4. i \in 1 .. Len(q) /\ n = q[i]
    BY <1>3, <2>2, <2>3
  <2>5. ~(i < p)
    BY <1>2, <1>9, <2>4 DEF FoundAt
  <2>6. i \in p .. Len(q)
    BY <1>5, <2>4, <2>5
  <2> QED
    BY <1>7, <1>9, <2>4, <2>6
<1>10. EqualRange(t, k) = {n \in InChains(bucket[t]) : val[n] = k}
  BY <1>1, <1>8, <1>9
<1>11. CASE p \in 1 .. Len(q)
  <2>1. val[q[p]] = k /\ p \in p .. Len(q)
    BY <1>2, <1>5, <1>11 DEF FoundAt
  <2>2. At(q, p) = q[p]
    BY <1>5, <1>11 DEF At
  <2> QED
    BY <1>1, <1>7, <1>10, <2>1, <2>2
<1>12. CASE p \notin 1 .. Len(q)
  <2>1. At(q, p) = End
    BY <1>5, <1>12 DEF At
  <2>2. p .. Len(q) = {}
    BY <1>5, <1>12
  <2>3. EqualRange(t, k) = {}
    BY <1>6, <2>2
  <2> QED
    BY <1>1, <1>10, <2>1, <2>3
<1> QED
  BY <1>11, <1>12

(* find() and equal_range() find exactly the nodes with the key.           *)
THEOREM FindsExactly == Spec => FindExact
<1>1. Spec => []HashInv
  BY HashInvInit, HashInvNext, PTL DEF Spec
<1>2. ASSUME HashInv, NEW t \in Tables, NEW k \in Keys, Find(t, k)
      PROVE  /\ result'.range = {n \in Linked(t) : val[n] = k}
             /\ result'.it \in result'.range \/ (result'.it = End /\ result'.range = {})
  <2>1. ~Fresh(t) /\ result'.it = At(Chain(t, k), FindNode(t, k)) /\ result'.range = EqualRange(t, k)
    BY <1>2 DEF Find
  <2>2. Linked(t) = InChains(bucket[t])
    BY <1>2, FlatIsSound
  <2> QED
    BY <1>2, <2>1, <2>2, EqualRangeIs
<1>3. HashInv /\ [Next]_vars =>
        [\A t \in Tables, k \in Keys : result'.op = "find" /\ Find(t, k) =>
           /\ result'.range = {n \in Linked(t) : val[n] = k}
           /\ result'.it \in result'.range \/ (result'.it = End /\ result'.range = {})]_vars
  BY <1>2
<1> QED
  BY <1>1, <1>3, PTL DEF Spec, FindExact

LinkedInChains == \A t \in Tables : Linked(t) = InChains(bucket[t])

LEMMA LinkedIs == HashInv => LinkedInChains
  BY FlatIsSound DEF LinkedInChains

LEMMA LinkedIsNext == HashInv' => LinkedInChains'
  BY LinkedIs, PTL

(* What erase(first, last) takes.                                          *)
LEMMA ErasedIs ==
  ASSUME HashInv, NEW t \in Tables, NEW first \in Linked(t), NEW last \in Linked(t) \cup {End},
         last = End \/ Place(Flat(t), first) < Place(Flat(t), last)
  PROVE  Erased(t, first, last) = RangeFrom(t, first, last) \cup AheadOf(t, first)
<1>1. PICK f, p : f = Flat(t) /\ p = Place(f, first)
  OBVIOUS
<1>2. f \in Seq(Nodes) /\ Distinct(f) /\ Grouped(val, f) /\ Elements(f) = Linked(t)
  BY <1>1, FlatIsSound
<1> DEFINE S == {j \in 1 .. Len(f) : val[f[j]] = val[first]}
           from == SelectInSeq(f, LAMBDA n : val[n] = val[first])
           to == IF last = End THEN Len(f) ELSE Place(f, last) - 1
<1>3. from = IF S # {} THEN Min(S) ELSE 0
  BY DEF SelectInSeq
<1>4. Len(f) \in Nat /\ S \in SUBSET Nat /\ \A i : i \in S <=> i \in 1 .. Len(f) /\ val[f[i]] = val[first]
  BY <1>2
<1>5. p \in 1 .. Len(f) /\ f[p] = first
  <2>1. PICK i \in 1 .. Len(f) : f[i] = first
    BY <1>2 DEF Elements
  <2>2. p = i
    BY <1>1, <1>2, <2>1, PlaceIs
  <2> QED
    BY <2>1, <2>2
<1>6. Erased(t, first, last) = {f[i] : i \in from .. to} /\ RangeFrom(t, first, last) = {f[i] : i \in p .. to}
  BY <1>1 DEF Erased, RangeFrom
<1>7. to \in Int /\ to <= Len(f)
  BY <1>2, <1>4, PlaceTyped
<1> HIDE DEF S, from, to
<1>8. from \in 1 .. Len(f) /\ val[f[from]] = val[first] /\ from <= p
  <2>1. p \in S
    BY <1>4, <1>5
  <2>2. PICK m : m = Min(S)
    OBVIOUS
  <2>3. m \in S /\ \A j \in S : m <= j
    BY <1>4, <2>1, <2>2, FirstPlace
  <2>4. from = m
    BY <1>3, <2>1, <2>2
  <2> QED
    BY <1>4, <2>1, <2>3, <2>4
<1>9. RangeFrom(t, first, last) \subseteq Erased(t, first, last)
  <2>1. \A i \in p .. to : i \in from .. to
    BY <1>5, <1>7, <1>8
  <2> QED
    BY <1>6, <2>1
<1>10. ASSUME NEW n \in Erased(t, first, last), n \notin RangeFrom(t, first, last)
       PROVE  n \in AheadOf(t, first)
  <2>1. PICK i \in from .. to : n = f[i]
    BY <1>6
  <2>2. i \notin p .. to
    BY <1>6, <1>10, <2>1
  <2>3. i \in from .. p /\ i < p /\ i \in 1 .. Len(f)
    BY <1>4, <1>5, <1>7, <1>8, <2>1, <2>2
  <2>4. val[f[i]] = val[f[from]]
    BY <1>2, <1>5, <1>8, <2>3 DEF Grouped
  <2>5. Place(f, n) = i /\ n \in Linked(t)
    BY <1>2, <2>1, <2>3, PlaceIs DEF Elements
  <2> QED
    BY <1>1, <1>8, <2>1, <2>3, <2>4, <2>5 DEF AheadOf
<1>11. ASSUME NEW n \in AheadOf(t, first)
       PROVE  n \in Erased(t, first, last)
  <2>1. n \in Linked(t) /\ val[n] = val[first] /\ Place(f, n) < p
    BY <1>1 DEF AheadOf
  <2>2. PICK i \in 1 .. Len(f) : f[i] = n
    BY <1>2, <2>1 DEF Elements
  <2>3. i = Place(f, n)
    BY <1>2, <2>2, PlaceIs
  <2>4. from <= i
    <3>1. i \in S
      BY <1>4, <2>1, <2>2
    <3>2. \A j \in S : Min(S) <= j
      BY <1>4, <3>1, FirstPlace
    <3> QED
      BY <1>3, <3>1, <3>2
  <2>5. p <= to
    <3>1. last = End \/ Place(f, last) - 1 >= p
      BY <1>1, <1>2, <1>5, PlaceTyped
    <3> QED
      BY <1>5, <3>1 DEF to
  <2>6. i \in from .. to
    BY <1>4, <1>5, <1>7, <1>8, <2>1, <2>3, <2>4, <2>5
  <2> QED
    BY <1>6, <2>2, <2>6
<1> QED
  BY <1>9, <1>10, <1>11

(* erase(first, last) removes the elements of the range and those with the *)
(* key of the first one that are in front of it, and nothing else.         *)
THEOREM RangesErased == Spec => RangeErased
<1>1. Spec => []HashInv
  BY HashInvInit, HashInvNext, PTL DEF Spec
<1>2. ASSUME HashInv, NEW t \in Tables, NEW first \in Linked(t), NEW last \in Linked(t) \cup {End},
             EraseRange(t, first, last)
      PROVE  /\ Linked(t) \ Linked(t)' = RangeFrom(t, first, last) \cup AheadOf(t, first)
             /\ Linked(t)' \subseteq Linked(t)
  <2>1. PICK removed : removed = Erased(t, first, last)
    OBVIOUS
  <2>2. Linked(t) = InChains(bucket[t])
    BY <1>2, FlatIsSound
  <2>3. removed \subseteq Linked(t)
    BY <1>2, <2>1, <2>2, ErasedInTable
  <2>4. Unlink(t, removed, "erase_range")
    BY <1>2, <2>1 DEF EraseRange
  <2>5. HashInv' /\ InChains(bucket'[t]) = InChains(bucket[t]) \ removed
    BY <1>2, <2>2, <2>3, <2>4, UnlinkKeeps
  <2>6. Linked(t)' = InChains(bucket'[t])
    <3>1. LinkedInChains'
      BY <2>5, LinkedIsNext
    <3> QED
      BY <3>1 DEF LinkedInChains
  <2>7. Linked(t) \ Linked(t)' = removed /\ Linked(t)' \subseteq Linked(t)
    BY <2>2, <2>3, <2>5, <2>6
  <2>8. last = End \/ Place(Flat(t), first) < Place(Flat(t), last)
    BY <1>2 DEF EraseRange
  <2>9. removed = RangeFrom(t, first, last) \cup AheadOf(t, first)
    BY <1>2, <2>1, <2>8, ErasedIs
  <2> QED
    BY <2>7, <2>9
<1>3. HashInv /\ [Next]_vars =>
        [\A t \in Tables : \A first \in Linked(t), last \in Linked(t) \cup {End} :
           result'.op = "erase_range" /\ EraseRange(t, first, last) =>
             /\ Linked(t) \ Linked(t)' = RangeFrom(t, first, last) \cup AheadOf(t, first)
             /\ Linked(t)' \subseteq Linked(t)]_vars
  BY <1>2
<1> QED
  BY <1>1, <1>3, PTL DEF Spec, RangeErased

(* erase(key) takes the first node with the key and nothing else.          *)
LEMMA ErasedOne ==
  ASSUME HashInv, NEW t \in Tables, ~Fresh(t), NEW k \in Keys, EqualRange(t, k) # {},
         NEW n, n = At(Chain(t, k), FindNode(t, k))
  PROVE  /\ Erased(t, n, Successor(t, n)) = {n}
         /\ n \in InChains(bucket[t]) /\ val[n] = k
<1>1. PICK c, q, p, h : c = bucket[t] /\ q = Chain(t, k) /\ p = FindNode(t, k) /\ h = HashKey(k, Len(c))
  OBVIOUS
<1>2. /\ h \in 1 .. Len(c) /\ q \in Seq(Nodes) /\ FoundAt(val, q, k, p)
  BY <1>1, ChainIs
<1>3. q = c[h] /\ Sound(val, c) /\ c \in Seq(Seq(Nodes))
  BY <1>1, FlatIsSound DEF Chain
<1>4. n \in InChains(c) /\ val[n] = k /\ n \in Nodes
  <2>1. n \in EqualRange(t, k)
    BY EqualRangeIs
  <2> QED
    BY <1>1, <2>1, EqualRangeIs, FlatIsSound
<1>5. p \in 1 .. Len(q) /\ n = q[p] /\ Len(q) \in Nat
  <2>1. p \in 1 .. Len(q) + 1 /\ Len(q) \in Nat /\ DOMAIN q = 1 .. Len(q)
    BY <1>2 DEF FoundAt
  <2>2. n = At(q, p)
    BY <1>1
  <2>3. n # End
    BY <1>4, HashTableAssumption
  <2> QED
    BY <2>1, <2>2, <2>3 DEF At
<1>6. PICK f : f = Flat(t)
  OBVIOUS
<1>7. /\ f \in Seq(Nodes) /\ Distinct(f) /\ Elements(f) = InChains(c) /\ f = FlattenSeq(c)
      /\ DOMAIN f = 1 .. Len(f) /\ Len(f) \in Nat
  BY <1>1, <1>6, FlatIsSound DEF Flat
<1>8. PICK off : FlatIs(c, off)
  BY <1>3, FlatParts
<1>9. /\ \A b \in 1 .. Len(c) : \A j \in 1 .. Len(c[b]) : off[b - 1] + j \in 1 .. Len(f)
      /\ \A y \in 1 .. Len(f) : \E b \in 1 .. Len(c) : \E j \in 1 .. Len(c[b]) :
           y = off[b - 1] + j /\ f[y] = c[b][j]
      /\ \A b \in 1 .. Len(c) : off[b - 1] \in Nat
  <2>1. c \in Seq(Seq(Nodes)) /\ FlatIs(c, off)
    BY <1>3, <1>8
  <2>2. /\ \A b \in 1 .. Len(c) : \A j \in 1 .. Len(c[b]) :
             off[b - 1] + j \in 1 .. Len(FlattenSeq(c))
        /\ \A i \in 1 .. Len(FlattenSeq(c)) : \E b \in 1 .. Len(c) : \E j \in 1 .. Len(c[b]) :
             i = off[b - 1] + j /\ FlattenSeq(c)[i] = c[b][j]
        /\ \A b, d \in 1 .. Len(c) : \A j \in 1 .. Len(c[b]) : \A k_1 \in 1 .. Len(c[d]) :
             b < d => off[b - 1] + j < off[d - 1] + k_1
        /\ \A b \in 1 .. Len(c) : off[b - 1] \in Nat
    BY <2>1, FlatPlaces
  <2> QED
    BY <1>7, <2>2
<1>10. \A b \in 1 .. Len(c) : \A j \in 1 .. Len(c[b]) : f[off[b - 1] + j] = c[b][j]
  BY <1>7, <1>8 DEF FlatIs
<1>11. PICK a \in Nat : a = off[h - 1]
  BY <1>2, <1>9
<1>12. PICK x : x = a + p
  OBVIOUS
<1>13. x \in 1 .. Len(f) /\ f[x] = n
  BY <1>2, <1>3, <1>5, <1>9, <1>10, <1>11, <1>12
<1>14. ASSUME NEW y \in 1 .. Len(f), val[f[y]] = k PROVE x <= y
  <2>1. PICK b \in 1 .. Len(c) : \E j \in 1 .. Len(c[b]) : y = off[b - 1] + j /\ f[y] = c[b][j]
    BY <1>9
  <2>2. PICK j \in 1 .. Len(c[b]) : y = off[b - 1] + j /\ f[y] = c[b][j]
    BY <2>1
  <2>3. b = h
    BY <1>1, <1>3, <1>14, <2>1, <2>2 DEF Sound, Hashed
  <2>4. j \in 1 .. Len(q) /\ val[q[j]] = k /\ y = a + j
    BY <1>3, <1>11, <1>14, <2>2, <2>3
  <2>5. ~(j < p)
    BY <1>2, <2>4 DEF FoundAt
  <2>6. j \in Nat /\ p \in Nat
    BY <1>5, <2>4
  <2> QED
    BY <1>12, <2>4, <2>5, <2>6
<1> DEFINE S == {j \in 1 .. Len(f) : val[f[j]] = val[n]}
           from == SelectInSeq(f, LAMBDA m : val[m] = val[n])
           last == Successor(t, n)
           to == IF last = End THEN Len(f) ELSE Place(f, last) - 1
<1>15. from = IF S # {} THEN Min(S) ELSE 0
  BY DEF SelectInSeq
<1>16. S \in SUBSET Nat /\ \A i : i \in S <=> i \in 1 .. Len(f) /\ val[f[i]] = k
  BY <1>4, <1>7
<1>17. Erased(t, n, last) = {f[i] : i \in from .. to}
  BY <1>6 DEF Erased
<1>18. last = At(f, x + 1)
  BY <1>6, <1>13, Iterates
<1>19. to = IF last = End THEN Len(f) ELSE Place(f, last) - 1
  OBVIOUS
<1> HIDE DEF S, from, to, last
<1>20. from = x
  <2>1. x \in S
    BY <1>4, <1>13, <1>16
  <2>2. PICK m : m = Min(S)
    OBVIOUS
  <2>3. m \in S /\ \A j \in S : m <= j
    BY <1>16, <2>1, <2>2, FirstPlace
  <2>4. x <= m /\ m <= x /\ m \in Nat
    BY <1>14, <1>16, <2>1, <2>3
  <2> QED
    BY <1>7, <1>13, <1>15, <2>1, <2>2, <2>4
<1>21. to = x
  <2>1. CASE x = Len(f)
    <3>1. x + 1 \notin 1 .. Len(f)
      BY <1>7, <2>1
    <3>2. last = End
      BY <1>7, <1>18, <3>1 DEF At
    <3> QED
      BY <1>19, <2>1, <3>2
  <2>2. CASE x # Len(f)
    <3>1. x + 1 \in 1 .. Len(f)
      <4>1. x \in 1 .. Len(f) /\ Len(f) \in Nat
        BY <1>7, <1>13
      <4>2. x + 1 <= Len(f) /\ x + 1 \in Nat /\ 1 <= x + 1
        BY <2>2, <4>1
      <4> QED
        BY <4>1, <4>2
    <3>2. last = f[x + 1] /\ f[x + 1] \in Nodes
      BY <1>7, <1>18, <3>1 DEF At
    <3>3. last # End
      BY <3>2, HashTableAssumption
    <3>4. Place(f, f[x + 1]) = x + 1
      BY <1>7, <3>1, PlaceIs
    <3>5. to = (x + 1) - 1
      BY <1>19, <3>2, <3>3, <3>4
    <3> QED
      BY <1>13, <3>5
  <2> QED
    BY <2>1, <2>2
<1>22. {f[i] : i \in from .. to} = {n}
  <2>1. x .. x = {x}
    BY <1>7, <1>13
  <2> QED
    BY <1>13, <1>20, <1>21, <2>1
<1> QED
  BY <1>1, <1>4, <1>17, <1>22 DEF last

-----------------------------------------------------------------------------
(* A table is a bag of keys                                                *)

Count(v, S, k) == Cardinality({n \in S : v[n] = k})
Counts(v, S) == [k \in Keys |-> Count(v, S, k)]

LEMMA CountTyped ==
  ASSUME NEW v, NEW S, IsFiniteSet(S), NEW k
  PROVE  /\ Count(v, S, k) \in Nat
         /\ Count(v, S, k) = 0 <=> {n \in S : v[n] = k} = {}
<1>1. PICK T : T = {n \in S : v[n] = k}
  OBVIOUS
<1>2. IsFiniteSet(T)
  BY <1>1, FS_Subset
<1> QED
  BY <1>1, <1>2, FS_CardinalityType, FS_EmptySet DEF Count

(* The keys that matter are those of the nodes.                            *)
LEMMA CountsSame ==
  ASSUME NEW v, NEW w, NEW S, \A x \in S : w[x] = v[x]
  PROVE  Counts(w, S) = Counts(v, S)
<1>1. \A k : {n \in S : w[n] = k} = {n \in S : v[n] = k}
  OBVIOUS
<1> QED
  BY <1>1 DEF Counts, Count

LEMMA CountsAdded ==
  ASSUME NEW v, NEW w, NEW S, IsFiniteSet(S), NEW n, n \notin S, NEW k \in Keys, w[n] = k,
         \A x \in S : w[x] = v[x]
  PROVE  Counts(w, S \cup {n}) = [Counts(v, S) EXCEPT ![k] = @ + 1]
<1>1. ASSUME NEW l \in Keys
      PROVE  Count(w, S \cup {n}, l) = IF l = k THEN Count(v, S, l) + 1 ELSE Count(v, S, l)
  <2>1. PICK T : T = {x \in S : v[x] = l}
    OBVIOUS
  <2>2. IsFiniteSet(T) /\ n \notin T
    BY <2>1, FS_Subset
  <2>3. Cardinality(T \cup {n}) = IF n \in T THEN Cardinality(T) ELSE Cardinality(T) + 1
    BY <2>2, FS_AddElement
  <2>4. {x \in S \cup {n} : w[x] = l} = IF l = k THEN T \cup {n} ELSE T
    BY <2>1
  <2> QED
    BY <2>1, <2>2, <2>3, <2>4 DEF Count
<1> QED
  BY <1>1 DEF Counts

LEMMA CountsRemoved ==
  ASSUME NEW v, NEW w, NEW S, IsFiniteSet(S), NEW n \in S, NEW k \in Keys, v[n] = k,
         \A x \in S \ {n} : w[x] = v[x]
  PROVE  Counts(w, S \ {n}) = [Counts(v, S) EXCEPT ![k] = @ - 1]
<1>1. ASSUME NEW l \in Keys
      PROVE  Count(w, S \ {n}, l) = IF l = k THEN Count(v, S, l) - 1 ELSE Count(v, S, l)
  <2>1. PICK T : T = {x \in S : v[x] = l}
    OBVIOUS
  <2>2. IsFiniteSet(T) /\ (n \in T <=> l = k)
    BY <2>1, FS_Subset
  <2>3. Cardinality(T \ {n}) = IF n \in T THEN Cardinality(T) - 1 ELSE Cardinality(T)
    BY <2>2, FS_RemoveElement
  <2>4. {x \in S \ {n} : w[x] = l} = T \ {n}
    BY <2>1
  <2> QED
    BY <2>1, <2>2, <2>3, <2>4 DEF Count
<1> QED
  BY <1>1 DEF Counts

LEMMA CountsFewer ==
  ASSUME NEW v, NEW w, NEW S, IsFiniteSet(S), NEW T \in SUBSET S, \A x \in T : w[x] = v[x], NEW k
  PROVE  Count(w, T, k) \in 0 .. Count(v, S, k)
<1>1. PICK A, B : A = {x \in T : w[x] = k} /\ B = {x \in S : v[x] = k}
  OBVIOUS
<1>2. IsFiniteSet(B) /\ A \in SUBSET B
  BY <1>1, FS_Subset
<1>3. IsFiniteSet(A) /\ Cardinality(A) <= Cardinality(B)
  BY <1>2, FS_Subset
<1>4. Cardinality(A) \in Nat /\ Cardinality(B) \in Nat
  BY <1>2, <1>3, FS_CardinalityType
<1> QED
  BY <1>1, <1>3, <1>4 DEF Count

LEMMA CountsCopied ==
  ASSUME NEW v, NEW w, NEW S, IsFiniteSet(S), NEW copy, NEW T, T = {copy[x] : x \in S},
         \A x, y \in S : copy[x] = copy[y] => x = y, \A x \in S : w[copy[x]] = v[x]
  PROVE  Counts(w, T) = Counts(v, S)
<1>1. ASSUME NEW k PROVE Count(w, T, k) = Count(v, S, k)
  <2>1. PICK A, B : A = {x \in T : w[x] = k} /\ B = {x \in S : v[x] = k}
    OBVIOUS
  <2>2. IsFiniteSet(B)
    BY <2>1, FS_Subset
  <2>3. PICK f : f = [x \in B |-> copy[x]]
    OBVIOUS
  <2>4. \A x \in B : f[x] = copy[x] /\ f[x] \in A
    BY <2>1, <2>3
  <2>5. \A y \in A : \E x \in B : f[x] = y
    BY <2>1, <2>3
  <2>6. \A x, y \in B : f[x] = f[y] => x = y
    BY <2>1, <2>3
  <2>7. f \in [B -> A]
    BY <2>3, <2>4
  <2>8. f \in Bijection(B, A)
    BY <2>5, <2>6, <2>7 DEF Bijection, Injection, Surjection, IsInjective
  <2>9. ExistsBijection(B, A)
    BY <2>8 DEF ExistsBijection
  <2>10. Cardinality(A) = Cardinality(B)
    BY <2>2, <2>9, FS_Bijection
  <2> QED
    BY <2>1, <2>10 DEF Count
<1> QED
  BY <1>1 DEF Counts

\* The keys of every table, told by its chains.
ContentsKnown == contents = [t \in Tables |-> Counts(val, InChains(bucket[t]))]

LEMMA ContentsIs == HashInv => ContentsKnown
<1> SUFFICES ASSUME HashInv PROVE ContentsKnown
  OBVIOUS
<1>1. ASSUME NEW t \in Tables
      PROVE  [k \in Keys |-> Cardinality({n \in Linked(t) : val[n] = k})]
               = Counts(val, InChains(bucket[t]))
  <2>1. Linked(t) = InChains(bucket[t])
    BY FlatIsSound
  <2> QED
    BY <2>1 DEF Counts, Count
<1> QED
  BY <1>1 DEF ContentsKnown, contents

LEMMA ContentsIsNext == HashInv' => ContentsKnown'
  BY ContentsIs, PTL

(* A step that changes one table changes its bag only.                     *)
LEMMA OneBag ==
  ASSUME HashInv, HashInv', NEW t \in Tables, OthersSame(t)
  PROVE  /\ contents' = [contents EXCEPT ![t] = Counts(val', InChains(bucket'[t]))]
         /\ \A u \in Tables : contents[u] = Counts(val, InChains(bucket[u]))
         /\ contents'[t] = Counts(val', InChains(bucket'[t]))
<1>1. contents = [u \in Tables |-> Counts(val, InChains(bucket[u]))]
  BY ContentsIs DEF ContentsKnown
<1>2. contents' = [u \in Tables |-> Counts(val', InChains(bucket'[u]))]
  BY ContentsIsNext DEF ContentsKnown
<1>3. ASSUME NEW u \in Tables, u # t
      PROVE  Counts(val', InChains(bucket'[u])) = Counts(val, InChains(bucket[u]))
  <2>1. bucket'[u] = bucket[u] /\ \A x \in InChains(bucket[u]) : val'[x] = val[x]
    BY <1>3 DEF OthersSame
  <2> QED
    BY <2>1, CountsSame
<1> QED
  BY <1>1, <1>2, <1>3

(* A step that only answers changes no bag.                                *)
LEMMA NoBag ==
  ASSUME HashInv, HashInv', UNCHANGED <<bucket, val>>
  PROVE  UNCHANGED contents
<1>1. contents = [u \in Tables |-> Counts(val, InChains(bucket[u]))]
  BY ContentsIs DEF ContentsKnown
<1>2. contents' = [u \in Tables |-> Counts(val', InChains(bucket'[u]))]
  BY ContentsIsNext DEF ContentsKnown
<1> QED
  BY <1>1, <1>2

(* The bag has a key if equal_range() finds it.                            *)
LEMMA HasIs ==
  ASSUME HashInv, NEW t \in Tables, ~Fresh(t), NEW k \in Keys
  PROVE  Bag!Has(t, k) <=> EqualRange(t, k) # {}
<1>1. PICK S : S = InChains(bucket[t])
  OBVIOUS
<1>2. IsFiniteSet(S) /\ EqualRange(t, k) = {n \in S : val[n] = k}
  BY <1>1, FlatIsSound, EqualRangeIs
<1>3. contents[t][k] = Count(val, S, k)
  BY <1>1, ContentsIs DEF ContentsKnown, Counts
<1>4. Count(val, S, k) \in Nat /\ (Count(val, S, k) = 0 <=> {n \in S : val[n] = k} = {})
  BY <1>2, CountTyped
<1> QED
  BY <1>2, <1>3, <1>4 DEF Bag!Has

\* What a call says, but for find().
Said(op, inserted) == result'.op = op /\ result'.inserted = inserted

LEMMA SaysIs ==
  ASSUME NEW op, op # "find", NEW inserted \in BOOLEAN, Said(op, inserted)
  PROVE  Bag!Says(op, inserted)
<1>1. (result'.inserted \/ (result'.op = "find" /\ result'.it # End)) = inserted
  BY DEF Said
<1>2. answer' = [op |-> result'.op,
                 said |-> result'.inserted \/ (result'.op = "find" /\ result'.it # End)]
  BY DEF answer
<1> QED
  BY <1>1, <1>2 DEF Bag!Says, Said

LEMMA BagOfInsertion ==
  ASSUME HashInv, NEW t \in Tables, ~Fresh(t), NEW k \in Keys, Free # {}, NEW op, op # "find",
         Insertion(t, k, NewNode, op)
  PROVE  HashInv' /\ Bag!Says(op, TRUE) /\ Bag!Changes(t, k, 1)
<1>1. PICK n : n = NewNode
  OBVIOUS
<1>2. n \in Nodes /\ n \notin allocated
  BY <1>1 DEF NewNode, Free
<1>3. PICK S : S = InChains(bucket[t])
  OBVIOUS
<1>4. /\ HashInv' /\ OthersSame(t) /\ InChains(bucket'[t]) = S \cup {n}
      /\ val'[n] = k /\ \A x \in S : val'[x] = val[x]
      /\ result'.op = op /\ result'.inserted
  BY <1>1, <1>2, <1>3, InsertionKeeps
<1>5. result'.inserted = TRUE
  BY <1>2, <1>1 DEF Insertion, NoResult
<1>6. Bag!Says(op, TRUE)
  BY <1>4, <1>5, SaysIs DEF Said
<1>7. IsFiniteSet(S) /\ n \notin S
  BY <1>2, <1>3, FlatIsSound
<1>8. Counts(val', S \cup {n}) = [Counts(val, S) EXCEPT ![k] = @ + 1]
  BY <1>4, <1>7, CountsAdded
<1>9. /\ contents' = [contents EXCEPT ![t] = Counts(val', InChains(bucket'[t]))]
      /\ contents[t] = Counts(val, S)
  BY <1>3, <1>4, OneBag
<1>10. Bag!Changes(t, k, 1)
  <2>1. contents' = [contents EXCEPT ![t] = [contents[t] EXCEPT ![k] = @ + 1]]
    BY <1>4, <1>8, <1>9
  <2> QED
    BY <2>1 DEF Bag!Changes
<1> QED
  BY <1>4, <1>6, <1>10

LEMMA BagOfInsertUnique ==
  ASSUME HashInv, NEW t \in Tables, NEW k \in Keys, InsertUnique(t, k)
  PROVE  Bag!InsertUnique(t, k)
<1>1. ~Fresh(t) /\ HashInv'
  BY InsertUniqueKeeps DEF InsertUnique
<1>2. Bag!Has(t, k) <=> EqualRange(t, k) # {}
  BY <1>1, HasIs
<1>3. CASE /\ EqualRange(t, k) # {}
           /\ result' = Iterator("insert", At(Chain(t, k), FindNode(t, k)))
           /\ UNCHANGED <<bucket, node_count, val>>
  <2>1. UNCHANGED contents
    BY <1>1, <1>3, NoBag
  <2>2. Bag!Says("insert", FALSE)
    <3>1. Said("insert", FALSE)
      BY <1>3 DEF Said, Iterator, NoResult
    <3> QED
      BY <3>1, SaysIs
  <2>3. (~Bag!Has(t, k)) = FALSE
    BY <1>2, <1>3
  <2> QED
    BY <1>2, <1>3, <2>1, <2>2, <2>3 DEF Bag!InsertUnique
<1>4. CASE EqualRange(t, k) = {} /\ Free # {} /\ Insertion(t, k, NewNode, "insert")
  <2>1. Bag!Says("insert", TRUE) /\ Bag!Changes(t, k, 1)
    BY <1>1, <1>4, BagOfInsertion
  <2>2. (~Bag!Has(t, k)) = TRUE
    BY <1>2, <1>4
  <2> QED
    BY <1>2, <1>4, <2>1, <2>2 DEF Bag!InsertUnique
<1> QED
  BY <1>3, <1>4 DEF InsertUnique

LEMMA BagOfInsertMultiple ==
  ASSUME HashInv, NEW t \in Tables, NEW k \in Keys, InsertMultiple(t, k)
  PROVE  Bag!InsertMultiple(t, k)
<1>1. ~Fresh(t) /\ Free # {} /\ Insertion(t, k, NewNode, "insert_multiple")
  BY DEF InsertMultiple
<1>2. Bag!Says("insert_multiple", TRUE) /\ Bag!Changes(t, k, 1)
  BY <1>1, BagOfInsertion
<1> QED
  BY <1>2 DEF Bag!InsertMultiple

LEMMA BagOfFind ==
  ASSUME HashInv, NEW t \in Tables, NEW k \in Keys, Find(t, k)
  PROVE  Bag!Find(t, k)
<1>1. ~Fresh(t) /\ HashInv' /\ UNCHANGED <<bucket, val>>
  BY FindKeeps DEF Find
<1>2. PICK i : i = At(Chain(t, k), FindNode(t, k))
  OBVIOUS
<1>3. result'.op = "find" /\ result'.it = i /\ result'.inserted = FALSE
  BY <1>2 DEF Find
<1>4. Bag!Has(t, k) <=> i # End
  <2>1. Bag!Has(t, k) <=> EqualRange(t, k) # {}
    BY <1>1, HasIs
  <2>2. EqualRange(t, k) \subseteq Nodes
    BY <1>1, FoundNode
  <2>3. i \in EqualRange(t, k) \/ (i = End /\ EqualRange(t, k) = {})
    BY <1>1, <1>2, EqualRangeIs
  <2> QED
    BY <2>1, <2>2, <2>3, HashTableAssumption
<1>5. answer' = [op |-> "find", said |-> Bag!Has(t, k)]
  <2>1. (result'.inserted \/ (result'.op = "find" /\ result'.it # End)) = Bag!Has(t, k)
    <3>1. Bag!Has(t, k) \in BOOLEAN
      BY DEF Bag!Has
    <3> QED
      BY <1>3, <1>4, <3>1
  <2> QED
    BY <1>3, <2>1 DEF answer
<1>6. UNCHANGED contents
  BY <1>1, NoBag
<1> QED
  BY <1>5, <1>6 DEF Bag!Find, Bag!Says

LEMMA BagOfEraseKey ==
  ASSUME HashInv, NEW t \in Tables, NEW k \in Keys, EraseKey(t, k)
  PROVE  Bag!EraseKey(t, k)
<1>1. ~Fresh(t) /\ HashInv'
  BY EraseKeyKeeps DEF EraseKey
<1>2. Bag!Has(t, k) <=> EqualRange(t, k) # {}
  BY <1>1, HasIs
<1>3. CASE EqualRange(t, k) = {}
  <2>1. UNCHANGED <<bucket, val>> /\ result' = Iterator("erase", End)
    BY <1>3 DEF EraseKey
  <2>2. Said("erase", FALSE)
    BY <2>1 DEF Said, Iterator, NoResult
  <2>3. Bag!Says("erase", FALSE) /\ UNCHANGED contents
    BY <1>1, <2>1, <2>2, SaysIs, NoBag
  <2> QED
    BY <1>2, <1>3, <2>3 DEF Bag!EraseKey
<1>4. CASE EqualRange(t, k) # {}
  <2>1. PICK n : n = At(Chain(t, k), FindNode(t, k))
    OBVIOUS
  <2>2. /\ Erased(t, n, Successor(t, n)) = {n}
        /\ n \in InChains(bucket[t]) /\ val[n] = k
    BY <1>1, <1>4, <2>1, ErasedOne
  <2>3. Unlink(t, {n}, "erase")
    BY <1>4, <2>1, <2>2 DEF EraseKey
  <2>4. PICK S : S = InChains(bucket[t])
    OBVIOUS
  <2>5. /\ OthersSame(t) /\ InChains(bucket'[t]) = S \ {n}
        /\ \A x \in S \ {n} : val'[x] = val[x]
        /\ result' = Iterator("erase", End)
    <3>1. PICK removed : removed = {n}
      OBVIOUS
    <3>2. removed \subseteq InChains(bucket[t]) /\ Unlink(t, removed, "erase")
      BY <2>2, <2>3, <3>1
    <3>3. /\ OthersSame(t) /\ InChains(bucket'[t]) = InChains(bucket[t]) \ removed
          /\ \A x \in InChains(bucket'[t]) : val'[x] = val[x]
          /\ result' = Iterator("erase", End)
      BY <3>2, UnlinkKeeps
    <3> QED
      BY <2>4, <3>1, <3>3
  <2>6. Counts(val', S \ {n}) = [Counts(val, S) EXCEPT ![k] = @ - 1]
    <3>1. IsFiniteSet(S) /\ n \in S
      BY <2>2, <2>4, FlatIsSound
    <3> QED
      BY <2>2, <2>5, <3>1, CountsRemoved
  <2>7. /\ contents' = [contents EXCEPT ![t] = Counts(val', InChains(bucket'[t]))]
        /\ contents[t] = Counts(val, S) /\ contents[t][k] = Count(val, S, k)
    <3>1. /\ contents' = [contents EXCEPT ![t] = Counts(val', InChains(bucket'[t]))]
          /\ contents[t] = Counts(val, S)
      BY <1>1, <2>4, <2>5, OneBag
    <3>2. Counts(val, S)[k] = Count(val, S, k)
      BY DEF Counts
    <3> QED
      BY <3>1, <3>2
  <2>8. contents' = [contents EXCEPT ![t] = [contents[t] EXCEPT ![k] = @ - 1]]
    BY <2>5, <2>6, <2>7
  <2>9. Bag!Changes(t, k, -1)
    <3>1. Count(val, S, k) \in Nat
      BY <2>4, FlatIsSound, CountTyped
    <3>2. contents[t][k] - 1 = contents[t][k] + (-1)
      BY <2>7, <3>1
    <3> QED
      BY <2>8, <3>2 DEF Bag!Changes
  <2>10. Bag!Says("erase", FALSE)
    <3>1. Said("erase", FALSE)
      BY <2>5 DEF Said, Iterator, NoResult
    <3> QED
      BY <3>1, SaysIs
  <2> QED
    BY <1>2, <1>4, <2>9, <2>10 DEF Bag!EraseKey
<1> QED
  BY <1>3, <1>4

LEMMA BagOfEraseRange ==
  ASSUME HashInv, NEW t \in Tables, NEW first, NEW last, EraseRange(t, first, last)
  PROVE  Bag!EraseRange(t)
<1>1. PICK removed : removed = Erased(t, first, last)
  OBVIOUS
<1>2. first \in InChains(bucket[t]) /\ Unlink(t, removed, "erase_range")
  BY <1>1, FlatIsSound DEF EraseRange
<1>3. removed \subseteq InChains(bucket[t])
  BY <1>1, <1>2, ErasedInTable
<1>4. PICK S, T : S = InChains(bucket[t]) /\ T = InChains(bucket'[t])
  OBVIOUS
<1>5. /\ HashInv' /\ OthersSame(t) /\ T \in SUBSET S
      /\ \A x \in T : val'[x] = val[x]
      /\ result' = Iterator("erase_range", End)
  BY <1>2, <1>3, <1>4, UnlinkKeeps
<1>6. Bag!Says("erase_range", FALSE)
  <2>1. Said("erase_range", FALSE)
    BY <1>5 DEF Said, Iterator, NoResult
  <2> QED
    BY <2>1, SaysIs
<1>7. /\ contents' = [contents EXCEPT ![t] = Counts(val', T)]
      /\ contents[t] = Counts(val, S) /\ contents'[t] = Counts(val', T)
  BY <1>4, <1>5, OneBag
<1>8. ASSUME NEW k \in Keys PROVE contents'[t][k] \in 0 .. contents[t][k]
  <2>1. IsFiniteSet(S)
    BY <1>4, FlatIsSound
  <2>2. Count(val', T, k) \in 0 .. Count(val, S, k)
    BY <1>5, <2>1, CountsFewer
  <2>3. Counts(val, S)[k] = Count(val, S, k) /\ Counts(val', T)[k] = Count(val', T, k)
    BY DEF Counts
  <2> QED
    BY <1>7, <2>2, <2>3
<1>9. contents' = [contents EXCEPT ![t] = contents'[t]]
  BY <1>7
<1> QED
  BY <1>6, <1>8, <1>9 DEF Bag!EraseRange

LEMMA VoidIs ==
  ASSUME result' = NoResult
  PROVE  Bag!Void
<1>1. Said("none", FALSE)
  BY DEF Said, NoResult
<1> QED
  BY <1>1, SaysIs DEF Bag!Void

LEMMA BagOfClear ==
  ASSUME HashInv, NEW t \in Tables, Clear(t)
  PROVE  Bag!Clear(t)
<1>1. HashInv' /\ OthersSame(t) /\ InChains(bucket'[t]) = {} /\ result' = NoResult
  BY ClearKeeps
<1>2. contents' = [contents EXCEPT ![t] = Counts(val', {})]
  <2>1. contents' = [contents EXCEPT ![t] = Counts(val', InChains(bucket'[t]))]
    BY <1>1, OneBag
  <2> QED
    BY <1>1, <2>1
<1>3. Counts(val', {}) = Bag!Empty
  <2>1. ASSUME NEW k PROVE Count(val', {}, k) = 0
    <3>1. {n \in {} : val'[n] = k} = {}
      OBVIOUS
    <3> QED
      BY <3>1, FS_EmptySet, CountTyped
  <2> QED
    BY <2>1 DEF Counts, Bag!Empty
<1> QED
  BY <1>1, <1>2, <1>3, VoidIs DEF Bag!Clear

LEMMA BagOfAssign ==
  ASSUME HashInv, NEW t \in Tables, NEW u \in Tables, Assign(t, u)
  PROVE  Bag!Assign(t, u)
<1>1. HashInv' /\ OthersSame(t) /\ result' = NoResult
  BY AssignKeeps
<1>2. PICK S, T : S = InChains(bucket[u]) /\ T = InChains(bucket'[t])
  OBVIOUS
<1>3. \E copy :
        /\ InChains(bucket'[t]) = {copy[x] : x \in InChains(bucket[u])}
        /\ \A x, y \in InChains(bucket[u]) : copy[x] = copy[y] => x = y
        /\ \A x \in InChains(bucket[u]) : val'[copy[x]] = val[x]
  BY AssignKeeps, Zenon
<1>4. PICK copy : /\ T = {copy[x] : x \in S}
                  /\ \A x, y \in S : copy[x] = copy[y] => x = y
                  /\ \A x \in S : val'[copy[x]] = val[x]
  BY <1>2, <1>3
<1>5. Counts(val', T) = Counts(val, S)
  <2>1. IsFiniteSet(S)
    BY <1>2, FlatIsSound
  <2> QED
    BY <1>4, <2>1, CountsCopied
<1>6. contents' = [contents EXCEPT ![t] = Counts(val', T)] /\ contents[u] = Counts(val, S)
  BY <1>1, <1>2, OneBag
<1> QED
  BY <1>1, <1>5, <1>6, VoidIs DEF Bag!Assign

LEMMA BagOfSwap ==
  ASSUME HashInv, NEW t \in Tables, NEW u \in Tables, Swap(t, u)
  PROVE  Bag!Swap(t, u)
<1>1. HashInv' /\ val' = val /\ result' = NoResult
  BY SwapKeeps DEF Swap
<1>2. contents = [w \in Tables |-> Counts(val, InChains(bucket[w]))]
  BY ContentsIs DEF ContentsKnown
<1>3. contents' = [w \in Tables |-> Counts(val', InChains(bucket'[w]))]
  BY <1>1, ContentsIsNext DEF ContentsKnown
<1>4. \A w \in Tables : bucket'[w] = bucket[IF w = t THEN u ELSE IF w = u THEN t ELSE w]
  BY DEF Swap, HashInv
<1>5. contents' = [contents EXCEPT ![t] = contents[u], ![u] = contents[t]]
  <2> DEFINE other(w) == IF w = t THEN u ELSE IF w = u THEN t ELSE w
  <2>1. \A w \in Tables : contents'[w] = contents[other(w)]
    <3>1. \A w \in Tables : other(w) \in Tables /\ bucket'[w] = bucket[other(w)]
      BY <1>4
    <3> HIDE DEF other
    <3>2. ASSUME NEW w \in Tables PROVE contents'[w] = contents[other(w)]
      <4>1. contents'[w] = Counts(val, InChains(bucket[other(w)]))
        BY <1>1, <1>3, <3>1
      <4>2. contents[other(w)] = Counts(val, InChains(bucket[other(w)]))
        BY <1>2, <3>1
      <4> QED
        BY <4>1, <4>2
    <3> QED
      BY <3>2
  <2>2. DOMAIN contents' = Tables /\ DOMAIN contents = Tables
    BY <1>2, <1>3
  <2>3. contents' = [w \in Tables |-> contents'[w]]
    BY <1>3
  <2> QED
    BY <2>1, <2>2, <2>3
<1> QED
  BY <1>1, <1>5, VoidIs DEF Bag!Swap

LEMMA BagOfBegin ==
  ASSUME HashInv, NEW t \in Tables, Begin(t)
  PROVE  Bag!Begin
<1>1. HashInv' /\ UNCHANGED <<bucket, val>>
  BY BeginKeeps DEF Begin
<1>2. Said("begin", FALSE)
  BY DEF Begin, Said, Iterator, NoResult
<1>3. Bag!Says("begin", FALSE) /\ UNCHANGED contents
  BY <1>1, <1>2, SaysIs, NoBag
<1> QED
  BY <1>3 DEF Bag!Begin

LEMMA BagOfInit ==
  ASSUME Init
  PROVE  Bag!Init
<1>1. PICK c : c = <<>>
  OBVIOUS
<1>2. Len(c) = 0
  BY <1>1
<1>3. InChains(c) = {}
  BY <1>2 DEF InChains
<1>4. contents = [t \in Tables |-> Counts(val, {})]
  <2>1. contents = [t \in Tables |-> Counts(val, InChains(bucket[t]))]
    BY HashInvInit, ContentsIs DEF ContentsKnown
  <2>2. \A t \in Tables : bucket[t] = c
    BY <1>1 DEF Init
  <2> QED
    BY <1>3, <2>1, <2>2
<1>5. Counts(val, {}) = Bag!Empty
  <2>1. ASSUME NEW k PROVE Count(val, {}, k) = 0
    <3>1. {n \in {} : val[n] = k} = {}
      OBVIOUS
    <3> QED
      BY <3>1, FS_EmptySet, CountTyped
  <2> QED
    BY <2>1 DEF Counts, Bag!Empty
<1>6. answer = [op |-> "none", said |-> FALSE]
  <2>1. (result.inserted \/ (result.op = "find" /\ result.it # End)) = FALSE /\ result.op = "none"
    BY DEF Init, NoResult
  <2> QED
    BY <2>1 DEF answer
<1> QED
  BY <1>4, <1>5, <1>6 DEF Bag!Init

(* A table is a bag of keys: every call changes the keys in the tables as  *)
(* it promises, says what was there, and touches no other table.           *)
THEOREM TablesAreBags == Spec => ImplementsKeyBag
<1>1. Spec => []HashInv
  BY HashInvInit, HashInvNext, PTL DEF Spec
<1>2. HashInv /\ [Next]_vars => [Bag!Next]_<<contents, answer>>
  <2> SUFFICES ASSUME HashInv, [Next]_vars PROVE Bag!Next \/ UNCHANGED <<contents, answer>>
    OBVIOUS
  <2>1. ASSUME UNCHANGED <<bucket, node_count, val, result>>
        PROVE  UNCHANGED <<contents, answer>>
    <3>1. HashInv'
      BY <2>1, AnswerKeeps DEF HashInv, ResultTyped
    <3>2. UNCHANGED contents
      BY <2>1, <3>1, NoBag
    <3>3. UNCHANGED answer
      BY <2>1 DEF answer
    <3> QED
      BY <3>2, <3>3
  <2>2. CASE UNCHANGED vars
    BY <2>1, <2>2 DEF vars
  <2>3. ASSUME NEW t \in Tables, Trap(t) PROVE UNCHANGED <<contents, answer>>
    BY <2>1, <2>3 DEF Trap
  <2>4. ASSUME NEW t \in Tables, Clear(t) PROVE Bag!Next
    BY <2>4, BagOfClear DEF Bag!Next
  <2>5. ASSUME NEW t \in Tables, Begin(t) PROVE Bag!Next
    BY <2>5, BagOfBegin DEF Bag!Next
  <2>6. ASSUME NEW t \in Tables, NEW k \in Keys,
               InsertUnique(t, k) \/ InsertMultiple(t, k) \/ EraseKey(t, k) \/ Find(t, k)
        PROVE  Bag!Next
    <3>1. Bag!InsertUnique(t, k) \/ Bag!InsertMultiple(t, k) \/ Bag!EraseKey(t, k) \/ Bag!Find(t, k)
      BY <2>6, BagOfInsertUnique, BagOfInsertMultiple, BagOfEraseKey, BagOfFind
    <3> QED
      BY <3>1 DEF Bag!Next
  <2>7. ASSUME NEW t \in Tables, NEW first, NEW last, EraseRange(t, first, last) PROVE Bag!Next
    BY <2>7, BagOfEraseRange DEF Bag!Next
  <2>8. ASSUME NEW t \in Tables, NEW u \in Tables, Swap(t, u) \/ Assign(t, u) PROVE Bag!Next
    <3>1. Bag!Swap(t, u) \/ Bag!Assign(t, u)
      BY <2>8, BagOfSwap, BagOfAssign
    <3> QED
      BY <3>1 DEF Bag!Next
  <2> QED
    BY <2>2, <2>3, <2>4, <2>5, <2>6, <2>7, <2>8 DEF Next
<1>3. Init => Bag!Init
  BY BagOfInit
<1> QED
  BY <1>1, <1>2, <1>3, PTL DEF Spec, ImplementsKeyBag, Bag!Spec
=============================================================================
