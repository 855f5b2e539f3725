--------------------------- MODULE ResourceProofs ---------------------------
(***************************************************************************)
(* Proofs about the parts of utilmm that hold something for a program, of  *)
(* any size: dynamic_pool, object_pool, pkgconfig, auto_flag, endian,      *)
(* plugins and sockets.                                                    *)
(***************************************************************************)
EXTENDS Resources, SequenceTheorems, FiniteSetTheorems, TLAPS

-----------------------------------------------------------------------------
(* BytesArrive: the digits of a number, and what is done to them.          *)

(* Division with a remainder,                                              *)
LEMMA Division ==
  ASSUME NEW x \in Nat, NEW m \in Nat \ {0}
  PROVE  /\ x \div m \in Nat /\ x % m \in Nat /\ x % m < m
         /\ x = m * (x \div m) + (x % m)
OBVIOUS

(* which there is only one of,                                             *)
LEMMA QuotientIs ==
  ASSUME NEW m \in Nat \ {0}, NEW q \in Nat, NEW r \in Nat, r < m, NEW x, x = m * q + r
  PROVE  x \div m = q /\ x % m = r
OBVIOUS

(* and division by a product.                                              *)
LEMMA DivDiv ==
  ASSUME NEW x \in Nat, NEW a \in Nat \ {0}, NEW b \in Nat \ {0}
  PROVE  (x \div a) \div b = x \div (a * b)
OBVIOUS

USE EndianAssumption

(* The recursive function exists,                                          *)
LEMMA PowerIs == \A k \in 0 .. 8 : Power[k] = IF k = 0 THEN 1 ELSE Power[k - 1] * Byte
<1> DEFINE p1 == Byte
           p2 == p1 * Byte
           p3 == p2 * Byte
           p4 == p3 * Byte
           p5 == p4 * Byte
           p6 == p5 * Byte
           p7 == p6 * Byte
           p8 == p7 * Byte
           ps == <<1, p1, p2, p3, p4, p5, p6, p7, p8>>
           g == [k \in 0 .. 8 |-> ps[k + 1]]
           F(h) == [k \in 0 .. 8 |-> IF k = 0 THEN 1 ELSE h[k - 1] * Byte]
<1>1. g = F(g)
  <2>1. \A k \in 0 .. 8 : g[k] = IF k = 0 THEN 1 ELSE g[k - 1] * Byte
    <3>1. /\ g[0] = 1 /\ g[1] = g[0] * Byte /\ g[2] = g[1] * Byte /\ g[3] = g[2] * Byte /\ g[4] = g[3] * Byte
          /\ g[5] = g[4] * Byte /\ g[6] = g[5] * Byte /\ g[7] = g[6] * Byte /\ g[8] = g[7] * Byte
      <4> HIDE DEF p2, p3, p4, p5, p6, p7, p8
      <4>1. /\ g[0] = 1 /\ g[1] = p1 /\ g[2] = p2 /\ g[3] = p3 /\ g[4] = p4
            /\ g[5] = p5 /\ g[6] = p6 /\ g[7] = p7 /\ g[8] = p8
        OBVIOUS
      <4> HIDE DEF g
      <4>2. 1 * Byte = p1
        OBVIOUS
      <4> QED
        BY <4>1, <4>2 DEF p2, p3, p4, p5, p6, p7, p8
    <3> HIDE DEF g
    <3> QED
      BY <3>1
  <2> HIDE DEF ps
  <2> QED
    BY <2>1
<1>2. Power = CHOOSE h : h = F(h)
  BY DEF Power
<1> HIDE DEF g
<1>3. Power = F(Power)
  BY <1>1, <1>2
<1> QED
  BY <1>3

(* and its values are positive.                                            *)
LEMMA Powers ==
  /\ \A k \in 0 .. 8 : Power[k] \in Nat \ {0}
  /\ \A k \in 0 .. 7 : Power[k + 1] = Power[k] * Byte
  /\ Power[0] = 1 /\ Power[1] = Byte
<1>1. \A k \in 0 .. 7 : k + 1 \in 0 .. 8 /\ k + 1 # 0 /\ (k + 1) - 1 = k
  OBVIOUS
<1>2. \A k \in 0 .. 7 : Power[k + 1] = Power[k] * Byte
  BY <1>1, PowerIs
<1>3. Power[0] = 1
  BY PowerIs
<1>4. \A k \in 0 .. 7 : Power[k] \in Nat \ {0} => Power[k + 1] \in Nat \ {0}
  BY <1>2
<1> HIDE DEF Power
<1>5. Power[1] \in Nat \ {0} /\ Power[2] \in Nat \ {0} /\ Power[3] \in Nat \ {0} /\ Power[4] \in Nat \ {0}
      /\ Power[5] \in Nat \ {0} /\ Power[6] \in Nat \ {0} /\ Power[7] \in Nat \ {0} /\ Power[8] \in Nat \ {0}
  <2>1. Power[0 + 1] \in Nat \ {0}
    BY <1>3, <1>4
  <2>2. Power[1 + 1] \in Nat \ {0}
    BY <2>1, <1>4
  <2>3. Power[2 + 1] \in Nat \ {0}
    BY <2>2, <1>4
  <2>4. Power[3 + 1] \in Nat \ {0}
    BY <2>3, <1>4
  <2>5. Power[4 + 1] \in Nat \ {0}
    BY <2>4, <1>4
  <2>6. Power[5 + 1] \in Nat \ {0}
    BY <2>5, <1>4
  <2>7. Power[6 + 1] \in Nat \ {0}
    BY <2>6, <1>4
  <2>8. Power[7 + 1] \in Nat \ {0}
    BY <2>7, <1>4
  <2> QED
    BY <2>1, <2>2, <2>3, <2>4, <2>5, <2>6, <2>7, <2>8
<1>6. Power[0 + 1] = Power[0] * Byte
  BY <1>2
<1>7. \A k \in 0 .. 8 : k \in {0, 1, 2, 3, 4, 5, 6, 7, 8}
  OBVIOUS
<1> QED
  BY <1>2, <1>3, <1>5, <1>6, <1>7

SumsTo(b) == \A a \in 0 .. 8 : a + b <= 8 => Power[a + b] = Power[a] * Power[b]

(* The product of two powers is a power.                                   *)
LEMMA SumStep ==
  ASSUME NEW b \in 0 .. 7, SumsTo(b)
  PROVE  SumsTo(b + 1)
<1> SUFFICES ASSUME NEW a \in 0 .. 8, a + (b + 1) <= 8 PROVE Power[a + (b + 1)] = Power[a] * Power[b + 1]
  BY DEF SumsTo
<1>1. a + b \in 0 .. 7 /\ a + (b + 1) = (a + b) + 1 /\ a + b <= 8
  OBVIOUS
<1>2. Power[a + b] = Power[a] * Power[b]
  BY <1>1 DEF SumsTo
<1>3. Power[(a + b) + 1] = Power[a + b] * Byte /\ Power[b + 1] = Power[b] * Byte
  BY <1>1, Powers
<1>4. Power[a] \in Nat /\ Power[b] \in Nat
  BY Powers
<1>5. \A x, y \in Nat : (x * y) * Byte = x * (y * Byte)
  OBVIOUS
<1> QED
  BY <1>1, <1>2, <1>3, <1>4, <1>5

(* The product of two powers is a power.                                   *)
LEMMA PowerSum == \A a, b \in 0 .. 8 : a + b <= 8 => Power[a + b] = Power[a] * Power[b]
<1>0. SumsTo(0)
  <2>1. \A a \in 0 .. 8 : Power[a + 0] = Power[a] * 1
    BY Powers
  <2> QED
    BY <2>1, Powers DEF SumsTo
<1>1. SumsTo(0 + 1)
  BY <1>0, SumStep
<1>2. SumsTo(1 + 1)
  BY <1>1, SumStep
<1>3. SumsTo(2 + 1)
  BY <1>2, SumStep
<1>4. SumsTo(3 + 1)
  BY <1>3, SumStep
<1>5. SumsTo(4 + 1)
  BY <1>4, SumStep
<1>6. SumsTo(5 + 1)
  BY <1>5, SumStep
<1>7. SumsTo(6 + 1)
  BY <1>6, SumStep
<1>8. SumsTo(7 + 1)
  BY <1>7, SumStep
<1>9. \A b \in 0 .. 8 : SumsTo(b)
  <2>1. SumsTo(1) /\ SumsTo(2) /\ SumsTo(3) /\ SumsTo(4) /\ SumsTo(5) /\ SumsTo(6) /\ SumsTo(7) /\ SumsTo(8)
    BY <1>1, <1>2, <1>3, <1>4, <1>5, <1>6, <1>7, <1>8
  <2>2. \A k \in 0 .. 8 : k \in {0, 1, 2, 3, 4, 5, 6, 7, 8}
    OBVIOUS
  <2> QED
    BY <1>0, <2>1, <2>2
<1> QED
  BY <1>9 DEF SumsTo

(* A digit is a byte.                                                      *)
LEMMA DigitTyped == \A x \in Nat, k \in 0 .. 7 : Digit(x, k) \in 0 .. Byte - 1
<1> SUFFICES ASSUME NEW x \in Nat, NEW k \in 0 .. 7 PROVE Digit(x, k) \in 0 .. Byte - 1
  OBVIOUS
<1>1. Power[k] \in Nat \ {0} /\ Byte \in Nat \ {0}
  BY Powers
<1>2. PICK q : q = x \div Power[k]
  OBVIOUS
<1>3. q \in Nat
  BY <1>1, <1>2, Division
<1>4. q % Byte \in Nat /\ q % Byte < Byte
  BY <1>3, <1>1, Division
<1> QED
  BY <1>1, <1>2, <1>4 DEF Digit

(* Zero has no other digits.                                               *)
LEMMA ZeroDigits == \A k \in 0 .. 7 : Digit(0, k) = 0
<1> SUFFICES ASSUME NEW k \in 0 .. 7 PROVE Digit(0, k) = 0
  OBVIOUS
<1>1. Power[k] \in Nat \ {0} /\ Byte \in Nat \ {0}
  BY Powers
<1>2. \A m \in Nat \ {0} : 0 \div m = 0 /\ 0 % m = 0
  OBVIOUS
<1> QED
  BY <1>1, <1>2 DEF Digit

(* The quotient by a power is the quotient of that by a smaller one.       *)
LEMMA DivPower ==
  ASSUME NEW x \in Nat, NEW a \in 0 .. 8, NEW b \in 0 .. 8, a + b <= 8
  PROVE  x \div Power[a + b] = (x \div Power[a]) \div Power[b]
<1>1. PICK p, q \in Nat \ {0} : p = Power[a] /\ q = Power[b]
  BY Powers
<1>2. Power[a + b] = p * q
  BY <1>1, PowerSum
<1>3. (x \div p) \div q = x \div (p * q)
  BY DivDiv
<1> QED
  BY <1>1, <1>2, <1>3

(* What is added above a digit leaves it alone.                            *)
LEMMA AddAbove ==
  ASSUME NEW x \in Nat, NEW d \in Nat, NEW k \in 0 .. 7, NEW j \in 0 .. 7, j < k
  PROVE  Digit(x + d * Power[k], j) = Digit(x, j)
<1>1. k - j - 1 \in 0 .. 8 /\ j \in 0 .. 8 /\ j + (k - j) <= 8 /\ j + (k - j) = k
      /\ k - j \in 0 .. 8 /\ (k - j - 1) + 1 = k - j /\ k - j - 1 \in 0 .. 7
  OBVIOUS
<1>2. PICK m \in Nat \ {0} : m = Power[j]
  BY Powers
<1>3. PICK n \in Nat \ {0} : n = Power[k - j - 1]
  BY <1>1, Powers
<1>4. Power[k] = m * (n * Byte)
  <2>1. Power[j + (k - j)] = Power[j] * Power[k - j]
    BY <1>1, PowerSum
  <2>2. Power[k - j] = n * Byte
    BY <1>1, <1>3, Powers
  <2> QED
    BY <1>1, <1>2, <2>1, <2>2
<1>5. PICK q, r \in Nat : r < m /\ x = m * q + r /\ q = x \div m
  BY Division
<1>6. PICK s, t \in Nat : t < Byte /\ q = Byte * s + t /\ t = q % Byte
  BY Division
<1>7. x + d * Power[k] = m * (q + d * (n * Byte)) + r
  <2>1. d * (m * (n * Byte)) = m * (d * (n * Byte)) /\ d * (n * Byte) \in Nat
    OBVIOUS
  <2>2. PICK e \in Nat : e = d * (n * Byte)
    BY <2>1
  <2>3. m * (q + e) = m * q + m * e /\ m * q \in Nat /\ m * e \in Nat
    OBVIOUS
  <2> QED
    BY <1>4, <1>5, <2>1, <2>2, <2>3
<1>8. q + d * (n * Byte) \in Nat /\ q + d * (n * Byte) = Byte * (s + d * n) + t /\ s + d * n \in Nat
  BY <1>6
<1>9. (x + d * Power[k]) \div m = q + d * (n * Byte)
  <2>1. PICK e \in Nat : e = q + d * (n * Byte)
    BY <1>8
  <2>2. x + d * Power[k] = m * e + r
    BY <1>7, <2>1
  <2> QED
    BY <1>5, <2>1, <2>2, QuotientIs
<1>10. (q + d * (n * Byte)) % Byte = t
  <2>1. PICK e \in Nat : e = s + d * n
    BY <1>8
  <2>2. PICK z : z = q + d * (n * Byte)
    OBVIOUS
  <2>3. z = Byte * e + t
    BY <1>8, <2>1, <2>2
  <2>4. z % Byte = t
    <3>1. \A f, g \in Nat : g < Byte => (Byte * f + g) % Byte = g
      BY QuotientIs
    <3> QED
      BY <1>6, <2>1, <2>3, <3>1
  <2> QED
    BY <2>2, <2>4
<1> QED
  BY <1>2, <1>5, <1>6, <1>9, <1>10 DEF Digit

Add(x, d, k) == x + d * Power[k]

Adds(y, x, d, k) ==
  /\ y \in Nat /\ Digit(y, k) = d
  /\ \A j \in 0 .. 7 : j # k => Digit(y, j) = Digit(x, j)
  /\ \A n \in 0 .. 8 : k < n /\ x < Power[n] => y < Power[n]

(* A byte that is added where the digit is zero changes that digit alone.  *)
LEMMA AddsTo ==
  ASSUME NEW x \in Nat, NEW d \in 0 .. Byte - 1, NEW k \in 0 .. 7, Digit(x, k) = 0,
         NEW y, y = Add(x, d, k)
  PROVE  Adds(y, x, d, k)
<1>1. PICK m \in Nat \ {0} : m = Power[k]
  BY Powers
<1>2. Power[k + 1] = m * Byte /\ k \in 0 .. 7 /\ k + 1 \in 0 .. 8
  BY <1>1, Powers
<1>3. PICK q, r \in Nat : r < m /\ x = m * q + r /\ q = x \div m
  BY <1>1, Division
<1>4. PICK s \in Nat : q = Byte * s
  <2>1. PICK s, t \in Nat : t < Byte /\ q = Byte * s + t /\ t = q % Byte
    BY <1>3, Division
  <2>2. t = 0
    BY <1>1, <1>3, <2>1 DEF Digit
  <2>3. q = Byte * s
    <3>1. q = Byte * s + 0
      BY <2>1, <2>2, Zenon
    <3>2. \A b, v \in Nat : b * v + 0 = b * v
      OBVIOUS
    <3> QED
      BY <3>1, <3>2
  <2> QED
    BY <2>3, Zenon
<1>5. y = Add(x, d, k)
  OBVIOUS
<1>0. PICK e \in Nat : e = q + d
  OBVIOUS
<1>6. y = m * e + r /\ y \in Nat
  <2>1. y = x + d * m
    BY <1>1, <1>5 DEF Add
  <2>2. PICK a, b \in Nat : a = m * q /\ b = m * d
    OBVIOUS
  <2>3. m * e = a + b /\ d * m = b
    BY <1>0, <2>2
  <2> QED
    BY <1>3, <2>1, <2>2, <2>3
<1>7. y \div m = e
  <2>1. \A f, g \in Nat : g < m => (m * f + g) \div m = f
    BY QuotientIs
  <2> QED
    BY <1>3, <1>6, <2>1
<1>8. e % Byte = d /\ e \div Byte = s
  <2>1. e = Byte * s + d /\ d \in Nat /\ d < Byte
    BY <1>4, <1>0
  <2> QED
    BY <2>1, QuotientIs
<1>9. q \div Byte = s
  <2>1. \A f \in Nat : (Byte * f) \div Byte = f
    OBVIOUS
  <2> QED
    BY <1>4, <2>1
<1>10. y \div Power[k + 1] = s /\ x \div Power[k + 1] = s
  <2>1. \A z \in Nat : (z \div m) \div Byte = z \div (m * Byte)
    BY DivDiv
  <2> QED
    BY <1>2, <1>3, <1>6, <1>7, <1>8, <1>9, <2>1
<1>11. \A n \in 0 .. 8 : k < n => y \div Power[n] = x \div Power[n]
  <2> SUFFICES ASSUME NEW n \in 0 .. 8, k < n PROVE y \div Power[n] = x \div Power[n]
    OBVIOUS
  <2>1. n - (k + 1) \in 0 .. 8 /\ (k + 1) + (n - (k + 1)) = n /\ (k + 1) + (n - (k + 1)) <= 8
    BY <1>2
  <2>2. PICK a, b \in 0 .. 8 : a = k + 1 /\ b = n - (k + 1) /\ a + b <= 8 /\ a + b = n
    BY <1>2, <2>1
  <2>3. \A z \in Nat : z \div Power[n] = (z \div Power[k + 1]) \div Power[b]
    BY <2>2, DivPower
  <2> QED
    BY <1>6, <1>10, <2>3
<1>12. Digit(y, k) = d
  BY <1>1, <1>7, <1>8 DEF Digit
<1>13. \A j \in 0 .. 7 : j # k => Digit(y, j) = Digit(x, j)
  <2> SUFFICES ASSUME NEW j \in 0 .. 7, j # k PROVE Digit(y, j) = Digit(x, j)
    OBVIOUS
  <2>1. CASE j < k
    BY <1>5, <2>1, AddAbove DEF Add
  <2>2. CASE k < j
    BY <1>11, <2>2 DEF Digit
  <2> QED
    BY <2>1, <2>2
<1>14. \A n \in 0 .. 8 : k < n /\ x < Power[n] => y < Power[n]
  <2> SUFFICES ASSUME NEW n \in 0 .. 8, k < n, x < Power[n] PROVE y < Power[n]
    OBVIOUS
  <2>1. PICK p \in Nat \ {0} : p = Power[n]
    BY Powers
  <2>2. \A f \in Nat : f < p => f \div p = 0
    OBVIOUS
  <2>3. x \div p = 0
    BY <2>1, <2>2
  <2>4. y \div p = 0
    BY <1>11, <2>1, <2>3
  <2>5. y = p * 0 + (y % p) /\ y % p < p /\ y % p \in Nat
    BY <1>6, <2>4, Division
  <2> QED
    BY <2>1, <2>5
<1> QED
  BY <1>6, <1>12, <1>13, <1>14, Zenon DEF Adds

UniqueTo(n) ==
  \A x, y \in Nat :
    x < Power[n] /\ y < Power[n] /\ (\A k \in 0 .. n - 1 : Digit(x, k) = Digit(y, k)) => x = y

(* Numbers with the same digits are the same number, one digit more,       *)
LEMMA UniqueStep ==
  ASSUME NEW n \in 0 .. 7, UniqueTo(n)
  PROVE  UniqueTo(n + 1)
<1>1. PICK p \in Nat \ {0} : p = Power[n] /\ Power[n + 1] = p * Byte
  BY Powers
<1>2. \A x \in Nat : x \div Byte \in Nat /\ x % Byte \in Nat
                     /\ x = Byte * (x \div Byte) + (x % Byte)
  BY Division
<1>3. \A x \in Nat : x < Power[n + 1] => x \div Byte < p
  <2> SUFFICES ASSUME NEW x \in Nat, x < p * Byte PROVE x \div Byte < p
    BY <1>1
  <2>1. PICK q \in Nat, r \in Nat : q = x \div Byte /\ x = Byte * q + r
    BY <1>2
  <2>2. q >= p => Byte * q >= p * Byte
    OBVIOUS
  <2> QED
    BY <2>1, <2>2
<1>4. \A x \in Nat : Digit(x, 0) = x % Byte
  <2>1. \A x \in Nat : x \div 1 = x
    OBVIOUS
  <2> QED
    BY <2>1, Powers DEF Digit
<1>5. \A x \in Nat : \A k \in 0 .. n - 1 : Digit(x, k + 1) = Digit(x \div Byte, k)
  <2> SUFFICES ASSUME NEW x \in Nat, NEW k \in 0 .. n - 1 PROVE Digit(x, k + 1) = Digit(x \div Byte, k)
    OBVIOUS
  <2>1. 1 \in 0 .. 8 /\ k \in 0 .. 8 /\ 1 + k <= 8 /\ 1 + k = k + 1
    OBVIOUS
  <2>2. x \div Power[1 + k] = (x \div Power[1]) \div Power[k]
    BY <2>1, DivPower
  <2> QED
    BY <2>1, <2>2, Powers DEF Digit
<1> SUFFICES ASSUME NEW x \in Nat, NEW y \in Nat, x < Power[n + 1], y < Power[n + 1],
                    \A k \in 0 .. (n + 1) - 1 : Digit(x, k) = Digit(y, k)
             PROVE  x = y
  BY DEF UniqueTo
<1>6. 0 \in 0 .. (n + 1) - 1 /\ \A k \in 0 .. n - 1 : k + 1 \in 0 .. (n + 1) - 1
  OBVIOUS
<1>7. x % Byte = y % Byte
  BY <1>4, <1>6
<1>8. x \div Byte = y \div Byte
  <2>1. \A k \in 0 .. n - 1 : Digit(x \div Byte, k) = Digit(y \div Byte, k)
    BY <1>5, <1>6
  <2>2. x \div Byte \in Nat /\ y \div Byte \in Nat
    BY <1>2
  <2>3. x \div Byte < Power[n] /\ y \div Byte < Power[n]
    BY <1>1, <1>3
  <2> QED
    BY <2>1, <2>2, <2>3 DEF UniqueTo
<1> QED
  BY <1>2, <1>7, <1>8

(* for as many as there are.                                               *)
LEMMA DigitsDetermine ==
  ASSUME NEW n \in 1 .. 8, NEW x \in Nat, NEW y \in Nat, x < Power[n], y < Power[n],
         \A k \in 0 .. n - 1 : Digit(x, k) = Digit(y, k)
  PROVE  x = y
<1>0. UniqueTo(0)
  BY Powers DEF UniqueTo
<1>1. UniqueTo(0 + 1)
  BY <1>0, UniqueStep
<1>2. UniqueTo(1 + 1)
  BY <1>1, UniqueStep
<1>3. UniqueTo(2 + 1)
  BY <1>2, UniqueStep
<1>4. UniqueTo(3 + 1)
  BY <1>3, UniqueStep
<1>5. UniqueTo(4 + 1)
  BY <1>4, UniqueStep
<1>6. UniqueTo(5 + 1)
  BY <1>5, UniqueStep
<1>7. UniqueTo(6 + 1)
  BY <1>6, UniqueStep
<1>8. UniqueTo(7 + 1)
  BY <1>7, UniqueStep
<1>9. UniqueTo(n)
  <2>1. UniqueTo(1) /\ UniqueTo(2) /\ UniqueTo(3) /\ UniqueTo(4) /\ UniqueTo(5) /\ UniqueTo(6) /\ UniqueTo(7) /\ UniqueTo(8)
    BY <1>1, <1>2, <1>3, <1>4, <1>5, <1>6, <1>7, <1>8
  <2>2. n \in {1, 2, 3, 4, 5, 6, 7, 8}
    OBVIOUS
  <2> QED
    BY <2>1, <2>2
<1> QED
  BY <1>9 DEF UniqueTo

-----------------------------------------------------------------------------
Two(a, b) == Add(Add(0, a, 0), b, 1)
Four(a, b, c, d) == Add(Add(Two(a, b), c, 2), d, 3)

(* What swap_helper<2> puts together of two bytes,                         *)
LEMMA TwoIs ==
  ASSUME NEW a \in 0 .. Byte - 1, NEW b \in 0 .. Byte - 1
  PROVE  /\ Two(a, b) \in Nat /\ Two(a, b) = a + b * Power[1]
         /\ Digit(Two(a, b), 0) = a /\ Digit(Two(a, b), 1) = b
         /\ Digit(Two(a, b), 2) = 0 /\ Digit(Two(a, b), 3) = 0
         /\ Two(a, b) < Power[2] /\ Two(a, b) < Power[4]
<1>1. PICK x : x = Add(0, a, 0)
  OBVIOUS
<1>2. /\ x \in Nat /\ Digit(x, 0) = a /\ \A j \in 0 .. 7 : j # 0 => Digit(x, j) = Digit(0, j)
      /\ \A n \in 0 .. 8 : 0 < n /\ 0 < Power[n] => x < Power[n]
  <2>1. 0 \in Nat /\ 0 \in 0 .. 7 /\ Digit(0, 0) = 0
    BY ZeroDigits
  <2>2. Adds(x, 0, a, 0)
    BY <1>1, <2>1, AddsTo, Zenon
  <2> QED
    BY <2>2, Zenon DEF Adds
<1>3. Digit(x, 1) = 0 /\ Digit(x, 2) = 0 /\ Digit(x, 3) = 0
  BY <1>2, ZeroDigits
<1>4. 0 < Power[2] /\ 0 < Power[4]
  BY Powers
<1>5. x < Power[2] /\ x < Power[4]
  BY <1>2, <1>4
<1>6. PICK y : y = Add(x, b, 1)
  OBVIOUS
<1>7. /\ y \in Nat /\ Digit(y, 1) = b /\ \A j \in 0 .. 7 : j # 1 => Digit(y, j) = Digit(x, j)
      /\ \A n \in 0 .. 8 : 1 < n /\ x < Power[n] => y < Power[n]
  <2>1. 1 \in 0 .. 7
    OBVIOUS
  <2>2. Adds(y, x, b, 1)
    BY <1>2, <1>3, <1>6, <2>1, AddsTo, Zenon
  <2> QED
    BY <2>2, Zenon DEF Adds
<1>8. y = Two(a, b) /\ y = x + b * Power[1] /\ x = 0 + a * Power[0]
  BY <1>1, <1>6 DEF Two, Add
<1>9. x = a
  BY <1>8, Powers
<1> QED
  BY <1>2, <1>3, <1>5, <1>7, <1>8, <1>9

IsFour(y, a, b, c, d) ==
  /\ y \in Nat /\ y < Power[4] /\ y = a + b * Power[1] + c * Power[2] + d * Power[3]
  /\ Digit(y, 0) = a /\ Digit(y, 1) = b /\ Digit(y, 2) = c /\ Digit(y, 3) = d

(* and swap_helper<4> of four.                                             *)
LEMMA FourIs ==
  ASSUME NEW a \in 0 .. Byte - 1, NEW b \in 0 .. Byte - 1, NEW c \in 0 .. Byte - 1, NEW d \in 0 .. Byte - 1
  PROVE  IsFour(Four(a, b, c, d), a, b, c, d)
<1>1. PICK x : x = Two(a, b)
  OBVIOUS
<1>2. /\ x \in Nat /\ x = a + b * Power[1] /\ x < Power[4]
      /\ Digit(x, 0) = a /\ Digit(x, 1) = b /\ Digit(x, 2) = 0 /\ Digit(x, 3) = 0
  BY <1>1, TwoIs
<1>3. PICK y : y = Add(x, c, 2)
  OBVIOUS
<1>4. /\ y \in Nat /\ Digit(y, 2) = c /\ \A j \in 0 .. 7 : j # 2 => Digit(y, j) = Digit(x, j)
      /\ \A n \in 0 .. 8 : 2 < n /\ x < Power[n] => y < Power[n]
  <2>1. 2 \in 0 .. 7
    OBVIOUS
  <2>2. Adds(y, x, c, 2)
    BY <1>2, <1>3, <2>1, AddsTo, Zenon
  <2> QED
    BY <2>2, Zenon DEF Adds
<1>5. Digit(y, 0) = a /\ Digit(y, 1) = b /\ Digit(y, 3) = 0 /\ y < Power[4]
  BY <1>2, <1>4
<1>6. PICK z : z = Add(y, d, 3)
  OBVIOUS
<1>7. /\ z \in Nat /\ Digit(z, 3) = d /\ \A j \in 0 .. 7 : j # 3 => Digit(z, j) = Digit(y, j)
      /\ \A n \in 0 .. 8 : 3 < n /\ y < Power[n] => z < Power[n]
  <2>1. 3 \in 0 .. 7
    OBVIOUS
  <2>2. Adds(z, y, d, 3)
    BY <1>4, <1>5, <1>6, <2>1, AddsTo, Zenon
  <2> QED
    BY <2>2, Zenon DEF Adds
<1>8. Digit(z, 0) = a /\ Digit(z, 1) = b /\ Digit(z, 2) = c /\ z < Power[4]
  BY <1>4, <1>5, <1>7
<1>9. z = Four(a, b, c, d) /\ z = x + c * Power[2] + d * Power[3]
  BY <1>1, <1>3, <1>6 DEF Four, Add
<1>10. z = a + b * Power[1] + c * Power[2] + d * Power[3]
  BY <1>2, <1>9
<1> QED
  BY <1>7, <1>8, <1>9, <1>10 DEF IsFour

(* swap() turns the bytes round.                                           *)
Turned(y, x, n) == \A k \in 0 .. n - 1 : Digit(y, k) = Digit(x, n - 1 - k)

(* swap_helper<4> turns the bytes round,                                   *)
LEMMA SwapFour ==
  ASSUME NEW x \in Nat
  PROVE  Swap4(x) \in Nat /\ Swap4(x) < Power[4] /\ Turned(Swap4(x), x, 4)
<1>1. PICK a, b, c, d \in 0 .. Byte - 1 :
        a = Digit(x, 3) /\ b = Digit(x, 2) /\ c = Digit(x, 1) /\ d = Digit(x, 0)
  <2>1. /\ Digit(x, 3) \in 0 .. Byte - 1 /\ Digit(x, 2) \in 0 .. Byte - 1
        /\ Digit(x, 1) \in 0 .. Byte - 1 /\ Digit(x, 0) \in 0 .. Byte - 1
    BY DigitTyped
  <2> QED
    BY <2>1, Zenon
<1>2. PICK y : y = Four(a, b, c, d)
  OBVIOUS
<1>3. /\ y \in Nat /\ y < Power[4] /\ y = a + b * Power[1] + c * Power[2] + d * Power[3]
      /\ Digit(y, 0) = a /\ Digit(y, 1) = b /\ Digit(y, 2) = c /\ Digit(y, 3) = d
  <2>1. IsFour(y, a, b, c, d)
    BY <1>2, FourIs, Zenon
  <2> QED
    BY <2>1 DEF IsFour
<1>4. Swap4(x) = y
  BY <1>1, <1>3, Powers DEF Swap4
<1>5. Turned(y, x, 4)
  <2>1. \A k \in 0 .. 4 - 1 : k \in {0, 1, 2, 3}
    OBVIOUS
  <2>2. 4 - 1 - 0 = 3 /\ 4 - 1 - 1 = 2 /\ 4 - 1 - 2 = 1 /\ 4 - 1 - 3 = 0
    OBVIOUS
  <2> QED
    BY <1>1, <1>3, <2>1, <2>2 DEF Turned
<1> QED
  BY <1>3, <1>4, <1>5

(* and so does swap_helper<2>,                                             *)
LEMMA SwapTwo ==
  ASSUME NEW x \in Nat
  PROVE  Swap2(x) \in Nat /\ Swap2(x) < Power[2] /\ Turned(Swap2(x), x, 2)
<1>1. PICK a, b \in 0 .. Byte - 1 : a = Digit(x, 1) /\ b = Digit(x, 0)
  <2>1. Digit(x, 1) \in 0 .. Byte - 1 /\ Digit(x, 0) \in 0 .. Byte - 1
    BY DigitTyped
  <2> QED
    BY <2>1, Zenon
<1>2. PICK y : y = Two(a, b)
  OBVIOUS
<1>3. y \in Nat /\ y < Power[2] /\ y = a + b * Power[1] /\ Digit(y, 0) = a /\ Digit(y, 1) = b
  BY <1>2, TwoIs
<1>4. Swap2(x) = y
  BY <1>1, <1>3, Powers DEF Swap2
<1>5. Turned(y, x, 2)
  <2>1. \A k \in 0 .. 2 - 1 : k \in {0, 1}
    OBVIOUS
  <2>2. 2 - 1 - 0 = 1 /\ 2 - 1 - 1 = 0
    OBVIOUS
  <2> QED
    BY <1>1, <1>3, <2>1, <2>2 DEF Turned
<1> QED
  BY <1>3, <1>4, <1>5

Halves(x, a, b) ==
  /\ x \in Nat /\ x < Power[8] /\ x \div Power[4] = b /\ x % Power[4] = a
  /\ \A k \in 0 .. 3 : Digit(x, k) = Digit(a, k) /\ Digit(x, k + 4) = Digit(b, k)

(* Two halves of four bytes each.                                          *)
LEMMA HalvesIs ==
  ASSUME NEW a \in Nat, a < Power[4], NEW b \in Nat, b < Power[4], NEW x, x = a + b * Power[4]
  PROVE  Halves(x, a, b)
<1>1. PICK p \in Nat \ {0} : p = Power[4] /\ Power[8] = p * p
  <2>1. Power[4 + 4] = Power[4] * Power[4]
    BY PowerSum
  <2> QED
    BY <2>1, Powers
<1>2. x = p * b + a /\ x \in Nat
  <2>1. b * p = p * b /\ p * b \in Nat
    BY <1>1
  <2> QED
    BY <1>1, <2>1
<1>3. x < Power[8]
  <2>1. b <= p - 1 /\ p - 1 \in Nat /\ a < p
    BY <1>1
  <2>2. \A f, g, h \in Nat : f <= g => h * f <= h * g
    OBVIOUS
  <2>3. PICK y, z \in Nat : y = p * b /\ z = p * (p - 1) /\ y <= z
    BY <2>1, <2>2
  <2>4. z + p = p * p
    BY <2>3
  <2> QED
    BY <1>1, <1>2, <2>1, <2>3, <2>4
<1>4. x \div p = b /\ x % p = a
  <2>1. a < p
    BY <1>1
  <2> QED
    BY <1>2, <2>1, QuotientIs
<1>5. ASSUME NEW k \in 0 .. 3 PROVE Digit(x, k) = Digit(a, k) /\ Digit(x, k + 4) = Digit(b, k)
  <2>1. k \in 0 .. 7 /\ k < 4 /\ 4 \in 0 .. 7
    OBVIOUS
  <2>2. Digit(a + b * Power[4], k) = Digit(a, k)
    BY <2>1, AddAbove
  <2>3. 4 \in 0 .. 8 /\ k \in 0 .. 8 /\ 4 + k <= 8 /\ 4 + k = k + 4
    OBVIOUS
  <2>4. x \div Power[4 + k] = (x \div Power[4]) \div Power[k]
    BY <1>2, <2>3, DivPower
  <2> QED
    BY <1>1, <1>4, <2>2, <2>3, <2>4 DEF Digit
<1> QED
  BY <1>1, <1>2, <1>3, <1>4, <1>5 DEF Halves

(* and swap_helper<8>, half by half.                                       *)
LEMMA SwapEight ==
  ASSUME NEW x \in Nat, x < Power[8]
  PROVE  Swap8(x) \in Nat /\ Swap8(x) < Power[8] /\ Turned(Swap8(x), x, 8)
<1>1. PICK p \in Nat \ {0} : p = Power[4] /\ Power[8] = p * p
  <2>1. Power[4 + 4] = Power[4] * Power[4]
    BY PowerSum
  <2> QED
    BY <2>1, Powers
<1>2. PICK high, low \in Nat : high = x \div p /\ low = x % p /\ low < p /\ x = p * high + low
  BY Division
<1>3. high < p
  <2>1. high >= p => p * high >= p * p
    OBVIOUS
  <2> QED
    BY <1>1, <1>2, <2>1
<1>4. \A k \in 0 .. 3 : Digit(x, k) = Digit(low, k) /\ Digit(x, k + 4) = Digit(high, k)
  <2>1. x = low + high * Power[4]
    <3>1. p * high = high * p /\ p * high \in Nat
      OBVIOUS
    <3> QED
      BY <1>1, <1>2, <3>1
  <2> QED
    <3>1. Halves(x, low, high)
      BY <1>1, <1>2, <1>3, <2>1, HalvesIs, Zenon
    <3> QED
      BY <3>1, Zenon DEF Halves
<1>5. PICK a, b \in Nat : /\ a = Swap4(high) /\ b = Swap4(low) /\ a < p /\ b < p
                          /\ Turned(a, high, 4) /\ Turned(b, low, 4)
  BY <1>1, <1>2, SwapFour
<1>6. PICK y : y = a + b * Power[4]
  OBVIOUS
<1>7. Swap8(x) = y
  BY <1>1, <1>2, <1>5, <1>6 DEF Swap8
<1>8. /\ y \in Nat /\ y < Power[8]
      /\ \A k \in 0 .. 3 : Digit(y, k) = Digit(a, k) /\ Digit(y, k + 4) = Digit(b, k)
  <2>1. Halves(y, a, b)
    BY <1>1, <1>5, <1>6, HalvesIs, Zenon
  <2> QED
    BY <2>1, Zenon DEF Halves
<1>9. \A k \in 0 .. 3 : Digit(a, k) = Digit(high, 3 - k) /\ Digit(b, k) = Digit(low, 3 - k)
  <2>1. \A k \in 0 .. 3 : k \in 0 .. 4 - 1 /\ 4 - 1 - k = 3 - k
    OBVIOUS
  <2> QED
    BY <1>5, <2>1 DEF Turned
<1>10. Turned(y, x, 8)
  <2> SUFFICES ASSUME NEW k \in 0 .. 8 - 1 PROVE Digit(y, k) = Digit(x, 8 - 1 - k)
    BY DEF Turned
  <2>1. CASE k <= 3
    <3>1. k \in 0 .. 3 /\ 3 - k \in 0 .. 3 /\ 8 - 1 - k = (3 - k) + 4
      BY <2>1
    <3> QED
      BY <1>4, <1>8, <1>9, <3>1
  <2>2. CASE k > 3
    <3>1. PICK j \in 0 .. 3 : k = j + 4 /\ 8 - 1 - k = 3 - j /\ 3 - j \in 0 .. 3
      <4>1. k - 4 \in 0 .. 3 /\ k = (k - 4) + 4 /\ 8 - 1 - k = 3 - (k - 4) /\ 3 - (k - 4) \in 0 .. 3
        BY <2>2
      <4> QED
        BY <4>1
    <3> QED
      BY <1>4, <1>8, <1>9, <3>1
  <2> QED
    BY <2>1, <2>2
<1> QED
  BY <1>7, <1>8, <1>10

(* So swap() does, for every width.                                        *)
LEMMA SwapTurns ==
  ASSUME NEW n \in {1, 2, 4, 8}, NEW x \in Nat, x < Power[n]
  PROVE  Swap(x, n) \in Nat /\ Swap(x, n) < Power[n] /\ Turned(Swap(x, n), x, n)
<1>1. CASE n = 1
  <2>1. Swap(x, n) = x
    BY <1>1 DEF Swap
  <2>2. \A k \in 0 .. 1 - 1 : k = 0
    OBVIOUS
  <2> QED
    BY <1>1, <2>1, <2>2 DEF Turned
<1>2. CASE n = 2
  <2>1. Swap(x, n) = Swap2(x)
    BY <1>2 DEF Swap
  <2> QED
    BY <1>2, <2>1, SwapTwo
<1>3. CASE n = 4
  <2>1. Swap(x, n) = Swap4(x)
    BY <1>3 DEF Swap
  <2> QED
    BY <1>3, <2>1, SwapFour
<1>4. CASE n = 8
  <2>1. Swap(x, n) = Swap8(x)
    BY <1>4 DEF Swap
  <2> QED
    BY <1>4, <2>1, SwapEight
<1> QED
  BY <1>1, <1>2, <1>3, <1>4

Place(n, host, j) == IF host = "little" THEN j - 1 ELSE n - j
SumOf(f, memory, host, m) ==
  f = [j \in 0 .. m |-> IF j = 0 THEN 0
                        ELSE f[j - 1] + memory[j] * Power[Place(Len(memory), host, j)]]
HasSum(memory, host, m) == \E f : SumOf(f, memory, host, m)

(* The recursive function that adds up the bytes exists, one byte more,    *)
LEMMA SumOneMore ==
  ASSUME NEW memory, NEW host, NEW m \in Nat, HasSum(memory, host, m)
  PROVE  HasSum(memory, host, m + 1)
<1> DEFINE w(j) == memory[j] * Power[Place(Len(memory), host, j)]
<1>1. PICK f : f = [j \in 0 .. m |-> IF j = 0 THEN 0 ELSE f[j - 1] + w(j)]
  BY DEF HasSum, SumOf
<1> HIDE DEF w
<1>2. PICK g : g = [j \in 0 .. m + 1 |-> IF j = m + 1 THEN f[m] + w(m + 1) ELSE f[j]]
  OBVIOUS
<1>3. \A j \in 0 .. m : g[j] = f[j]
  BY <1>2
<1>4. \A j \in 0 .. m + 1 : g[j] = IF j = 0 THEN 0 ELSE g[j - 1] + w(j)
  <2>1. \A j \in 0 .. m : j # 0 => j - 1 \in 0 .. m
    OBVIOUS
  <2>2. \A j \in 0 .. m : f[j] = IF j = 0 THEN 0 ELSE f[j - 1] + w(j)
    BY <1>1
  <2>3. \A j \in 0 .. m + 1 : j = m + 1 \/ j \in 0 .. m
    OBVIOUS
  <2>4. m + 1 # 0 /\ (m + 1) - 1 = m /\ m \in 0 .. m /\ m + 1 \in 0 .. m + 1
    OBVIOUS
  <2>5. g[m + 1] = f[m] + w(m + 1)
    BY <1>2, <2>4
  <2>6. ASSUME NEW j \in 0 .. m PROVE g[j] = IF j = 0 THEN 0 ELSE g[j - 1] + w(j)
    BY <1>3, <2>1, <2>2, Zenon
  <2>7. g[m + 1] = IF m + 1 = 0 THEN 0 ELSE g[(m + 1) - 1] + w(m + 1)
    BY <1>3, <2>4, <2>5
  <2> QED
    BY <2>3, <2>6, <2>7
<1>5. g = [j \in 0 .. m + 1 |-> g[j]]
  BY <1>2
<1>6. g = [j \in 0 .. m + 1 |-> IF j = 0 THEN 0 ELSE g[j - 1] + w(j)]
  BY <1>4, <1>5
<1> QED
  BY <1>6 DEF HasSum, SumOf, w

(* for as many as there are.                                               *)
LEMMA SumExists == \A memory, host : \A n \in 1 .. 8 : HasSum(memory, host, n)
<1> SUFFICES ASSUME NEW memory, NEW host, NEW n \in 1 .. 8 PROVE HasSum(memory, host, n)
  OBVIOUS
<1>0. HasSum(memory, host, 0)
  <2>1. PICK f : f = [j \in 0 .. 0 |-> 0]
    OBVIOUS
  <2>2. \A j \in 0 .. 0 : j = 0
    OBVIOUS
  <2>3. f = [j \in 0 .. 0 |-> IF j = 0 THEN 0
                              ELSE f[j - 1] + memory[j] * Power[Place(Len(memory), host, j)]]
    BY <2>1, <2>2
  <2> QED
    BY <2>3, Zenon DEF HasSum, SumOf
<1>1. HasSum(memory, host, 0 + 1)
  BY <1>0, SumOneMore
<1>2. HasSum(memory, host, 1 + 1)
  BY <1>1, SumOneMore
<1>3. HasSum(memory, host, 2 + 1)
  BY <1>2, SumOneMore
<1>4. HasSum(memory, host, 3 + 1)
  BY <1>3, SumOneMore
<1>5. HasSum(memory, host, 4 + 1)
  BY <1>4, SumOneMore
<1>6. HasSum(memory, host, 5 + 1)
  BY <1>5, SumOneMore
<1>7. HasSum(memory, host, 6 + 1)
  BY <1>6, SumOneMore
<1>8. HasSum(memory, host, 7 + 1)
  BY <1>7, SumOneMore
<1>9. /\ HasSum(memory, host, 1) /\ HasSum(memory, host, 2) /\ HasSum(memory, host, 3) /\ HasSum(memory, host, 4)
      /\ HasSum(memory, host, 5) /\ HasSum(memory, host, 6) /\ HasSum(memory, host, 7) /\ HasSum(memory, host, 8)
  BY <1>1, <1>2, <1>3, <1>4, <1>5, <1>6, <1>7, <1>8
<1>10. n \in {1, 2, 3, 4, 5, 6, 7, 8}
  OBVIOUS
<1> QED
  BY <1>9, <1>10

(* The bytes that a number shows after the first m of them are added up.   *)
Shows(x, memory, host, n, m) ==
  /\ x \in Nat /\ x < Power[n]
  /\ \A j \in 1 .. m : Digit(x, Place(n, host, j)) = memory[j]
  /\ \A j \in m + 1 .. n : Digit(x, Place(n, host, j)) = 0

(* Every byte has a place of its own,                                      *)
LEMMA PlaceIs ==
  ASSUME NEW n \in 1 .. 8, NEW host, NEW j \in 1 .. n
  PROVE  /\ Place(n, host, j) \in 0 .. n - 1 /\ Place(n, host, j) \in 0 .. 7
         /\ \A k \in 1 .. n : Place(n, host, k) = Place(n, host, j) => k = j
BY DEF Place

(* A byte more shows at its place,                                         *)
LEMMA ShowsOneMore ==
  ASSUME NEW n \in 1 .. 8, NEW host, NEW memory \in [1 .. n -> 0 .. Byte - 1],
         NEW m \in 0 .. 7, m + 1 <= n, NEW x, Shows(x, memory, host, n, m),
         NEW y, y = x + memory[m + 1] * Power[Place(n, host, m + 1)]
  PROVE  Shows(y, memory, host, n, m + 1)
<1>1. m + 1 \in 1 .. n /\ m + 1 \in m + 1 .. n
  OBVIOUS
<1>2. PICK k \in 0 .. 7 : k = Place(n, host, m + 1) /\ k \in 0 .. n - 1
  BY <1>1, PlaceIs
<1>3. PICK d \in 0 .. Byte - 1 : d = memory[m + 1]
  BY <1>1
<1>4. x \in Nat /\ x < Power[n] /\ Digit(x, k) = 0
  BY <1>1, <1>2 DEF Shows
<1>5. Adds(y, x, d, k)
  BY <1>2, <1>3, <1>4, AddsTo DEF Add
<1>6. y \in Nat /\ y < Power[n]
  <2>1. n \in 0 .. 8 /\ k < n
    BY <1>2
  <2> QED
    BY <1>4, <1>5, <2>1 DEF Adds
<1>7. \A j \in 1 .. n : j # m + 1 => Digit(y, Place(n, host, j)) = Digit(x, Place(n, host, j))
  BY <1>1, <1>2, <1>5, PlaceIs DEF Adds
<1>8. Digit(y, Place(n, host, m + 1)) = memory[m + 1]
  BY <1>2, <1>3, <1>5 DEF Adds
<1>9. \A j \in 1 .. m + 1 : Digit(y, Place(n, host, j)) = memory[j]
  <2>1. \A j \in 1 .. m + 1 : j = m + 1 \/ (j # m + 1 /\ j \in 1 .. m /\ j \in 1 .. n)
    OBVIOUS
  <2> QED
    BY <1>7, <1>8, <2>1 DEF Shows
<1>10. \A j \in (m + 1) + 1 .. n : Digit(y, Place(n, host, j)) = 0
  <2>1. \A j \in (m + 1) + 1 .. n : j # m + 1 /\ j \in m + 1 .. n /\ j \in 1 .. n
    OBVIOUS
  <2> QED
    BY <1>7, <2>1 DEF Shows
<1> QED
  BY <1>6, <1>9, <1>10 DEF Shows

(* so the number shows all the bytes of the memory,                        *)
LEMMA NumberShows ==
  ASSUME NEW n \in 1 .. 8, NEW host, NEW memory \in [1 .. n -> 0 .. Byte - 1]
  PROVE  Shows(Number(memory, host), memory, host, n, n)
<1>1. Len(memory) = n
  OBVIOUS
<1> DEFINE F(h) == [j \in 0 .. Len(memory) |->
                     IF j = 0 THEN 0
                     ELSE h[j - 1] + memory[j] * Power[Place(Len(memory), host, j)]]
           f == CHOOSE h : h = F(h)
<1>2. f = F(f)
  <2>1. HasSum(memory, host, Len(memory))
    BY <1>1, SumExists, Zenon
  <2>2. \E h : h = F(h)
    BY <2>1, Zenon DEF HasSum, SumOf
  <2> QED
    BY <2>2, Zenon
<1>3. Number(memory, host) = f[n]
  BY <1>1, Zenon DEF Number, Place
<1> HIDE DEF f
<1>4. f[0] = 0 /\ \A j \in 1 .. n : f[j] = f[j - 1] + memory[j] * Power[Place(n, host, j)]
  <2>1. \A j \in 0 .. n : f[j] = IF j = 0 THEN 0 ELSE f[j - 1] + memory[j] * Power[Place(n, host, j)]
    BY <1>1, <1>2
  <2>2. 0 \in 0 .. n /\ \A j \in 1 .. n : j # 0 /\ j \in 0 .. n
    OBVIOUS
  <2> QED
    BY <2>1, <2>2, Zenon
<1> DEFINE Right(m) == m <= n => Shows(f[m], memory, host, n, m)
<1>5. Right(0)
  <2>1. \A j \in 0 + 1 .. n : Digit(0, Place(n, host, j)) = 0
    <3>1. \A j \in 0 + 1 .. n : j \in 1 .. n
      OBVIOUS
    <3> QED
      BY <3>1, PlaceIs, ZeroDigits, Zenon
  <2>2. n \in 0 .. 8 /\ \A j : j \notin 1 .. 0
    OBVIOUS
  <2>3. 0 < Power[n] /\ 0 \in Nat
    <3>1. \A p \in Nat \ {0} : 0 < p
      OBVIOUS
    <3> QED
      BY <2>2, <3>1, Powers, Zenon
  <2> QED
    BY <1>4, <2>1, <2>2, <2>3, Zenon DEF Shows
<1>6. ASSUME NEW m \in 0 .. 7, Right(m) PROVE Right(m + 1)
  <2> SUFFICES ASSUME m + 1 <= n PROVE Shows(f[m + 1], memory, host, n, m + 1)
    OBVIOUS
  <2>1. m <= n /\ m + 1 \in 1 .. n /\ (m + 1) - 1 = m
    OBVIOUS
  <2>2. Shows(f[m], memory, host, n, m)
    BY <1>6, <2>1
  <2>3. f[m + 1] = f[m] + memory[m + 1] * Power[Place(n, host, m + 1)]
    BY <1>4, <2>1
  <2> QED
    BY <2>2, <2>3, ShowsOneMore, Zenon
<1> HIDE DEF Right
<1>11. Right(0 + 1)
  BY <1>5, <1>6
<1>12. Right(1 + 1)
  BY <1>11, <1>6
<1>13. Right(2 + 1)
  BY <1>12, <1>6
<1>14. Right(3 + 1)
  BY <1>13, <1>6
<1>15. Right(4 + 1)
  BY <1>14, <1>6
<1>16. Right(5 + 1)
  BY <1>15, <1>6
<1>17. Right(6 + 1)
  BY <1>16, <1>6
<1>18. Right(7 + 1)
  BY <1>17, <1>6
<1>19. Right(n)
  <2>1. Right(1) /\ Right(2) /\ Right(3) /\ Right(4) /\ Right(5) /\ Right(6) /\ Right(7) /\ Right(8)
    BY <1>11, <1>12, <1>13, <1>14, <1>15, <1>16, <1>17, <1>18
  <2>2. n \in {1, 2, 3, 4, 5, 6, 7, 8}
    OBVIOUS
  <2> QED
    BY <2>1, <2>2
<1> QED
  BY <1>3, <1>19 DEF Right

-----------------------------------------------------------------------------
(* What is on the wire, and what the receiver makes of it.                 *)
MemoryIs(memory, x, n, host) ==
  /\ memory \in [1 .. n -> 0 .. Byte - 1]
  /\ \A j \in 1 .. n : memory[j] = Digit(x, Place(n, host, j))

(* and the memory those of the number.                                     *)
LEMMA MemoryShows ==
  ASSUME NEW n \in 1 .. 8, NEW x \in Nat, NEW host
  PROVE  MemoryIs(Memory(x, n, host), x, n, host)
<1>1. Memory(x, n, host) = [j \in 1 .. n |-> Digit(x, Place(n, host, j))]
  BY Zenon DEF Memory, Place
<1>2. \A j \in 1 .. n : Digit(x, Place(n, host, j)) \in 0 .. Byte - 1
  BY PlaceIs, DigitTyped
<1> QED
  BY <1>1, <1>2 DEF MemoryIs

(* The two orders are opposite.                                            *)
LEMMA OtherPlace ==
  ASSUME NEW n \in 1 .. 8, NEW a \in Orders, NEW b \in Orders, a # b, NEW j \in 1 .. n
  PROVE  n - 1 - Place(n, a, j) = Place(n, b, j)
BY DEF Orders, Place

EndianInv ==
  /\ bytes \in {1, 2, 4, 8} /\ number \in Nat /\ number < Power[bytes]
  /\ sender \in Orders /\ receiver \in Orders /\ agreed \in Orders
  /\ BytesArrive

(* At first nothing has been sent.                                         *)
LEMMA EndianInitially == EndianInit => EndianInv
<1> SUFFICES ASSUME EndianInit PROVE EndianInv
  OBVIOUS
<1>1. bytes \in {1, 2, 4, 8} /\ bytes \in 0 .. 8
  BY DEF EndianInit
<1>2. Power[bytes] \in Nat
  BY <1>1, Powers
<1>3. number \in Nat /\ number < Power[bytes]
  BY <1>2 DEF EndianInit
<1> QED
  BY <1>1, <1>3 DEF EndianInit, EndianInv, BytesArrive

(* The sender puts the bytes in the order that was agreed on,              *)
LEMMA SendKeeps == EndianInv /\ Send => EndianInv'
<1> SUFFICES ASSUME EndianInv, Send PROVE EndianInv'
  OBVIOUS
<1>1. PICK n \in 1 .. 8 : n = bytes /\ n \in {1, 2, 4, 8}
  BY DEF EndianInv
<1>2. number \in Nat /\ number < Power[n] /\ sender \in Orders /\ agreed \in Orders
  BY <1>1 DEF EndianInv
<1>3. Memory(Convert(number, n, sender, agreed), n, sender) = Memory(number, n, agreed)
  <2>1. CASE sender = agreed
    BY <2>1 DEF Convert
  <2>2. CASE sender # agreed
    <3>1. PICK x \in Nat : x = Swap(number, n) /\ Turned(x, number, n)
      BY <1>1, <1>2, SwapTurns
    <3>2. MemoryIs(Memory(x, n, sender), x, n, sender) /\ MemoryIs(Memory(number, n, agreed), number, n, agreed)
      BY <1>2, MemoryShows
    <3>3. \A j \in 1 .. n : Digit(x, Place(n, sender, j)) = Digit(number, Place(n, agreed, j))
      BY <1>2, <2>2, <3>1, OtherPlace, PlaceIs DEF Turned
    <3>4. Memory(x, n, sender) = Memory(number, n, agreed)
      BY <3>2, <3>3 DEF MemoryIs
    <3> QED
      BY <2>2, <3>1, <3>4 DEF Convert
  <2> QED
    BY <2>1, <2>2
<1>4. wire' = Memory(number, n, agreed)
  BY <1>1, <1>3 DEF Send
<1> QED
  BY <1>1, <1>4 DEF Send, EndianInv, BytesArrive, Memory

(* and the receiver has a number with the digits of the one sent.          *)
LEMMA ReceiveKeeps == EndianInv /\ Receive => EndianInv'
<1> SUFFICES ASSUME EndianInv, Receive PROVE EndianInv'
  OBVIOUS
<1>1. PICK n \in 1 .. 8 : n = bytes /\ n \in {1, 2, 4, 8}
  BY DEF EndianInv
<1>2. /\ number \in Nat /\ number < Power[n] /\ receiver \in Orders /\ agreed \in Orders
      /\ wire = Memory(number, n, agreed)
  BY <1>1 DEF EndianInv, BytesArrive, Receive
<1>3. MemoryIs(wire, number, n, agreed)
  BY <1>2, MemoryShows
<1>4. PICK x : x = Number(wire, receiver)
  OBVIOUS
<1>5. Shows(x, wire, receiver, n, n)
  BY <1>3, <1>4, NumberShows DEF MemoryIs
<1>6. x \in Nat /\ x < Power[n]
  BY <1>5 DEF Shows
<1>7. \A j \in 1 .. n : Digit(x, Place(n, receiver, j)) = Digit(number, Place(n, agreed, j))
  BY <1>3, <1>5 DEF Shows, MemoryIs
<1>8. \A k \in 0 .. n - 1 : \E j \in 1 .. n : k = Place(n, receiver, j)
  <2> SUFFICES ASSUME NEW k \in 0 .. n - 1 PROVE \E j \in 1 .. n : k = Place(n, receiver, j)
    OBVIOUS
  <2>1. k + 1 \in 1 .. n /\ n - k \in 1 .. n /\ (k + 1) - 1 = k /\ n - (n - k) = k
    OBVIOUS
  <2> QED
    BY <2>1 DEF Place
<1>9. Convert(x, n, receiver, agreed) = number
  <2>1. CASE receiver = agreed
    <3>1. \A k \in 0 .. n - 1 : Digit(x, k) = Digit(number, k)
      BY <1>7, <1>8, <2>1
    <3>2. x = number
      BY <1>2, <1>6, <3>1, DigitsDetermine
    <3> QED
      BY <2>1, <3>2 DEF Convert
  <2>2. CASE receiver # agreed
    <3>1. PICK y \in Nat : y = Swap(x, n) /\ y < Power[n] /\ Turned(y, x, n)
      BY <1>1, <1>6, SwapTurns
    <3>2. \A k \in 0 .. n - 1 : Digit(y, k) = Digit(number, k)
      <4> SUFFICES ASSUME NEW k \in 0 .. n - 1 PROVE Digit(y, k) = Digit(number, k)
        OBVIOUS
      <4>1. n - 1 - k \in 0 .. n - 1 /\ n - 1 - (n - 1 - k) = k
        OBVIOUS
      <4>2. PICK j \in 1 .. n : n - 1 - k = Place(n, receiver, j)
        BY <1>8, <4>1
      <4>3. Place(n, agreed, j) = k
        BY <1>2, <2>2, <4>1, <4>2, OtherPlace
      <4> QED
        BY <1>7, <3>1, <4>2, <4>3 DEF Turned
    <3>3. y = number
      BY <1>2, <3>1, <3>2, DigitsDetermine
    <3> QED
      BY <2>2, <3>1, <3>3 DEF Convert
  <2> QED
    BY <2>1, <2>2
<1>10. got' = number
  BY <1>1, <1>4, <1>9 DEF Receive
<1> QED
  BY <1>10 DEF Receive, EndianInv, BytesArrive, Memory

(* Every step keeps the invariant,                                         *)
LEMMA EndianInvStep == EndianInv /\ [EndianNext]_endianVars => EndianInv'
<1> SUFFICES ASSUME EndianInv, [EndianNext]_endianVars PROVE EndianInv'
  OBVIOUS
<1>1. CASE UNCHANGED endianVars
  BY <1>1 DEF endianVars, EndianInv, BytesArrive, Memory
<1>2. CASE EndianNext
  BY <1>2, SendKeeps, ReceiveKeeps DEF EndianNext
<1> QED
  BY <1>1, <1>2

HIDE EndianAssumption
-----------------------------------------------------------------------------
(* BuffersOwned is inductive: its proof, for any buffers, dynamic_autos    *)
(* and sizes.                                                              *)
USE PoolAssumption

LEMMA PoolInitially == PoolInit => BuffersOwned
<1> SUFFICES ASSUME PoolInit PROVE BuffersOwned
  OBVIOUS
<1>1. m_free = <<>> /\ m_free \in Seq(Buffers)
  BY DEF PoolInit
<1>2. PoolTypeOK
  BY <1>1 DEF PoolInit, PoolTypeOK
<1>3. InFree = {} /\ FreeOnce /\ FreeSized
  BY <1>1 DEF InFree, FreeOnce, FreeSized
<1>4. ~faults /\ FreeAreGivenBack /\ LargeEnough
  BY <1>3 DEF PoolInit, FreeAreGivenBack, LargeEnough
<1> QED
  BY <1>2, <1>3, <1>4 DEF BuffersOwned, PoolOwns

(* What waits in the pool are buffers that exist and that nobody has.      *)
LEMMA FreeKnown ==
  ASSUME BuffersOwned
  PROVE  /\ InFree \subseteq allocated
         /\ \A b \in InFree : owner[b] = "pool" /\ size[b] = m_size
         /\ \A b \in allocated : owner[b] = "pool" => b \in InFree
         /\ m_size \in Nat
  BY DEF BuffersOwned, PoolTypeOK, PoolOwns, FreeAreGivenBack, FreeSized, InFree

LEMMA NothingFreeIn == ASSUME m_free' = <<>> PROVE InFree' = {} /\ FreeOnce' /\ FreeSized'
  BY DEF InFree, FreeOnce, FreeSized

(* A request sweeps the whole list or nothing.                             *)
LEMMA SweptWhat ==
  ASSUME BuffersOwned, NEW n \in Sizes, FreeFor(n) = <<>>
  PROVE  SweptFor(n) = InFree
  BY DEF FreeFor, SweptFor, InFree

LEMMA AllocateNewKeeps ==
  ASSUME BuffersOwned, NEW n \in Sizes, AllocateNew(n) PROVE BuffersOwned'
<1>1. SweptFor(n) = InFree
  BY SweptWhat DEF AllocateNew
<1>2. SizeFor(n) \in Sizes \cup {0} /\ SizeFor(n) >= n
  BY DEF SizeFor, BuffersOwned, PoolTypeOK
<1>3. InFree' = {} /\ FreeOnce' /\ FreeSized'
  BY NothingFreeIn DEF AllocateNew
<1>4. ~faults'
  BY <1>1, FreeKnown DEF AllocateNew, BuffersOwned, PoolOwns
<1>5. CASE allocated' = allocated \ SweptFor(n) /\ UNCHANGED <<size, wanted, owner>>
  <2>1. PoolTypeOK'
    BY <1>2, <1>4, <1>5 DEF AllocateNew, BuffersOwned, PoolTypeOK
  <2>2. FreeAreGivenBack' /\ LargeEnough'
    BY <1>1, <1>3, <1>5, FreeKnown DEF FreeAreGivenBack, BuffersOwned, LargeEnough
  <2> QED
    BY <1>3, <1>4, <2>1, <2>2 DEF BuffersOwned, PoolOwns
<1>6. ASSUME NEW b \in Buffers \ (allocated \ SweptFor(n)),
             allocated' = (allocated \ SweptFor(n)) \cup {b},
             size' = [size EXCEPT ![b] = SizeFor(n)],
             wanted' = [wanted EXCEPT ![b] = n],
             owner' = [owner EXCEPT ![b] = "program"]
      PROVE  BuffersOwned'
  <2>1. PoolTypeOK'
    BY <1>2, <1>4, <1>6 DEF AllocateNew, BuffersOwned, PoolTypeOK
  <2>2. FreeAreGivenBack'
    BY <1>1, <1>3, <1>6, FreeKnown DEF FreeAreGivenBack, BuffersOwned, PoolTypeOK
  <2>3. LargeEnough'
    BY <1>2, <1>6 DEF BuffersOwned, PoolTypeOK, LargeEnough
  <2> QED
    BY <1>3, <1>4, <2>1, <2>2, <2>3 DEF BuffersOwned, PoolOwns
<1> QED
  BY <1>5, <1>6 DEF AllocateNew

(* The last buffer of the list is taken out, and it is there only once.    *)
LEMMA PopBackTakes ==
  ASSUME BuffersOwned, m_free # <<>>, m_free' = PopBack(m_free)
  PROVE  /\ Back(m_free) \in InFree
         /\ InFree' = InFree \ {Back(m_free)}
         /\ m_free' \in Seq(Buffers)
         /\ FreeOnce'
         /\ \A i \in DOMAIN m_free' : i \in DOMAIN m_free /\ m_free'[i] = m_free[i]
<1>1. m_free \in Seq(Buffers) /\ Len(m_free) \in Nat \ {0} /\ DOMAIN m_free = 1 .. Len(m_free)
  BY DEF BuffersOwned, PoolTypeOK
<1>2. /\ m_free' \in Seq(Buffers)
      /\ DOMAIN m_free' = 1 .. Len(m_free) - 1
      /\ \A i \in DOMAIN m_free' : i \in DOMAIN m_free /\ m_free'[i] = m_free[i]
  BY <1>1 DEF PopBack
<1>3. \A i, j \in DOMAIN m_free : m_free[i] = m_free[j] => i = j
  BY DEF BuffersOwned, PoolOwns, FreeOnce
<1>4. FreeOnce'
  BY <1>2, <1>3 DEF FreeOnce
<1>5. Back(m_free) \in InFree
  BY <1>1 DEF Back, InFree
<1>6. InFree' = InFree \ {Back(m_free)}
  <2>1. \A i \in DOMAIN m_free' : m_free[i] # Back(m_free)
    BY <1>1, <1>2, <1>3 DEF Back
  <2>2. \A i \in DOMAIN m_free : i \in DOMAIN m_free' \/ m_free[i] = Back(m_free)
    BY <1>1, <1>2 DEF Back
  <2> QED
    BY <1>2, <2>1, <2>2 DEF InFree
<1> QED
  BY <1>2, <1>4, <1>5, <1>6

LEMMA AllocateAgainKeeps ==
  ASSUME BuffersOwned, NEW n \in Sizes, AllocateAgain(n) PROVE BuffersOwned'
<1>1. /\ FreeFor(n) = m_free /\ m_free # <<>> /\ m_size >= n
      /\ m_size' = m_size /\ m_free' = PopBack(m_free)
  BY DEF AllocateAgain, FreeFor, SizeFor, BuffersOwned, PoolTypeOK
<1> DEFINE b == Back(m_free)
<1>2. /\ b \in InFree /\ InFree' = InFree \ {b} /\ m_free' \in Seq(Buffers) /\ FreeOnce'
      /\ \A i \in DOMAIN m_free' : i \in DOMAIN m_free /\ m_free'[i] = m_free[i]
  BY <1>1, PopBackTakes
<1>3. /\ b \in Buffers /\ b \in allocated /\ size[b] = m_size
      /\ wanted' = [wanted EXCEPT ![b] = n] /\ owner' = [owner EXCEPT ![b] = "program"]
      /\ UNCHANGED <<pool_up, allocated, size, faults>>
  BY <1>1, <1>2, FreeKnown DEF AllocateAgain, BuffersOwned, PoolTypeOK
<1> HIDE DEF b
<1>4. PoolTypeOK'
  BY <1>1, <1>2, <1>3 DEF BuffersOwned, PoolTypeOK
<1>5. FreeSized'
  BY <1>1, <1>2, <1>3 DEF BuffersOwned, PoolOwns, FreeSized
<1>6. FreeAreGivenBack'
  BY <1>2, <1>3 DEF BuffersOwned, PoolTypeOK, PoolOwns, FreeAreGivenBack
<1>7. LargeEnough'
  BY <1>1, <1>3 DEF BuffersOwned, PoolTypeOK, LargeEnough
<1> QED
  BY <1>2, <1>3, <1>4, <1>5, <1>6, <1>7 DEF BuffersOwned, PoolOwns

(* A buffer that was in use and has the size of the pool comes back.       *)
LEMMA AppendGives ==
  ASSUME BuffersOwned, NEW b \in Buffers, b \notin InFree, m_free' = Append(m_free, b)
  PROVE  /\ InFree' = InFree \cup {b}
         /\ m_free' \in Seq(Buffers)
         /\ FreeOnce'
         /\ \A i \in DOMAIN m_free' : m_free'[i] = b \/ (i \in DOMAIN m_free /\ m_free'[i] = m_free[i])
<1>1. m_free \in Seq(Buffers) /\ Len(m_free) \in Nat /\ DOMAIN m_free = 1 .. Len(m_free)
  BY DEF BuffersOwned, PoolTypeOK
<1>2. /\ m_free' \in Seq(Buffers)
      /\ DOMAIN m_free' = 1 .. Len(m_free) + 1
      /\ m_free'[Len(m_free) + 1] = b
      /\ \A i \in DOMAIN m_free : m_free'[i] = m_free[i]
  BY <1>1
<1>3. \A i \in DOMAIN m_free' : i = Len(m_free) + 1 \/ i \in DOMAIN m_free
  BY <1>1, <1>2
<1>4. \A i \in DOMAIN m_free : m_free[i] # b
  BY DEF InFree
<1>5. FreeOnce'
  BY <1>2, <1>3, <1>4 DEF BuffersOwned, PoolOwns, FreeOnce
<1>6. InFree' = InFree \cup {b}
  BY <1>1, <1>2, <1>3 DEF InFree
<1> QED
  BY <1>2, <1>3, <1>5, <1>6

LEMMA DeallocateKeeps ==
  ASSUME BuffersOwned, NEW b \in Buffers, Deallocate(b) PROVE BuffersOwned'
<1>1. b \in allocated /\ b \notin InFree /\ owner[b] = "program"
  BY FreeKnown DEF Deallocate
<1>2. CASE size[b] # m_size
  <2>1. m_free' = m_free /\ InFree' = InFree
    BY <1>2 DEF Deallocate, InFree
  <2>2. PoolTypeOK' /\ ~faults'
    BY <1>1, <1>2 DEF Deallocate, DeleteAll, BuffersOwned, PoolTypeOK, PoolOwns
  <2>3. FreeOnce' /\ FreeSized'
    BY <2>1 DEF Deallocate, BuffersOwned, PoolOwns, FreeOnce, FreeSized
  <2>4. FreeAreGivenBack' /\ LargeEnough'
    BY <1>1, <1>2, <2>1
    DEF Deallocate, DeleteAll, BuffersOwned, PoolTypeOK, PoolOwns, FreeAreGivenBack, LargeEnough
  <2> QED
    BY <2>2, <2>3, <2>4 DEF BuffersOwned, PoolOwns
<1>3. CASE size[b] = m_size
  <2>1. m_free' = Append(m_free, b)
    BY <1>3 DEF Deallocate
  <2>2. /\ InFree' = InFree \cup {b} /\ m_free' \in Seq(Buffers) /\ FreeOnce'
        /\ \A i \in DOMAIN m_free' : m_free'[i] = b \/ (i \in DOMAIN m_free /\ m_free'[i] = m_free[i])
    BY <1>1, <2>1, AppendGives
  <2>3. PoolTypeOK' /\ ~faults'
    BY <1>3, <2>2 DEF Deallocate, BuffersOwned, PoolTypeOK, PoolOwns
  <2>4. FreeSized'
    BY <1>3, <2>2 DEF Deallocate, BuffersOwned, PoolOwns, FreeSized
  <2>5. FreeAreGivenBack' /\ LargeEnough'
    BY <1>1, <1>3, <2>2 DEF Deallocate, BuffersOwned, PoolTypeOK, PoolOwns, FreeAreGivenBack, LargeEnough
  <2> QED
    BY <2>2, <2>3, <2>4, <2>5 DEF BuffersOwned, PoolOwns
<1> QED
  BY <1>2, <1>3

LEMMA DestroyPoolKeeps ==
  ASSUME BuffersOwned, DestroyPool PROVE BuffersOwned'
<1>1. InFree' = {} /\ FreeOnce' /\ FreeSized'
  BY NothingFreeIn DEF DestroyPool
<1>2. PoolTypeOK' /\ ~faults'
  <2>1. m_free' = <<>> /\ m_free' \in Seq(Buffers)
    BY DEF DestroyPool
  <2> QED
    BY <2>1, FreeKnown DEF DestroyPool, DeleteAll, BuffersOwned, PoolTypeOK, PoolOwns
<1>3. FreeAreGivenBack' /\ LargeEnough'
  BY <1>1, FreeKnown DEF DestroyPool, DeleteAll, BuffersOwned, FreeAreGivenBack, LargeEnough
<1> QED
  BY <1>1, <1>2, <1>3 DEF BuffersOwned, PoolOwns

(* A dynamic_auto changes who has a buffer, or deletes what it has itself: *)
(* neither touches what waits in the pool.                                 *)
LEMMA HandedOver ==
  ASSUME BuffersOwned, UNCHANGED <<pool_up, m_size, m_free, allocated, size, wanted, faults>>,
         owner' \in [Buffers -> {"program", "lost", "pool"} \cup Autos],
         \A c \in Buffers : owner'[c] = "pool" <=> owner[c] = "pool"
  PROVE  BuffersOwned'
<1>1. InFree' = InFree
  BY DEF InFree
<1> QED
  BY <1>1 DEF BuffersOwned, PoolTypeOK, PoolOwns, FreeOnce, FreeSized, FreeAreGivenBack, LargeEnough

LEMMA AutoKeeps ==
  ASSUME BuffersOwned, NEW a \in Autos,
         \/ ReleaseAuto(a) \/ DestroyAuto(a)
         \/ \E b \in Buffers : Wrap(a, b) \/ ResetAuto(a, b)
  PROVE  BuffersOwned'
<1>1. ASSUME NEW b \in Buffers, Wrap(a, b) PROVE BuffersOwned'
  BY <1>1, HandedOver DEF Wrap, BuffersOwned, PoolTypeOK
<1>2. ASSUME NEW b \in Buffers, ResetAuto(a, b) PROVE BuffersOwned'
  BY <1>2, HandedOver DEF ResetAuto, Holds, BuffersOwned, PoolTypeOK
<1>3. CASE ReleaseAuto(a)
  BY <1>3, HandedOver DEF ReleaseAuto, Holds, BuffersOwned, PoolTypeOK
<1>4. CASE DestroyAuto(a)
  <2>1. InFree' = InFree /\ Holds(a) \subseteq allocated
    BY <1>4 DEF DestroyAuto, InFree, Holds
  <2>2. PoolTypeOK' /\ ~faults'
    BY <1>4, <2>1 DEF DestroyAuto, DeleteAll, BuffersOwned, PoolTypeOK, PoolOwns
  <2>3. FreeOnce' /\ FreeSized'
    BY <1>4 DEF DestroyAuto, BuffersOwned, PoolOwns, FreeOnce, FreeSized
  <2>4. FreeAreGivenBack' /\ LargeEnough'
    BY <1>4, <2>1
    DEF DestroyAuto, DeleteAll, Holds, BuffersOwned, PoolTypeOK, PoolOwns, FreeAreGivenBack, LargeEnough
  <2> QED
    BY <2>2, <2>3, <2>4 DEF BuffersOwned, PoolOwns
<1> QED
  BY <1>1, <1>2, <1>3, <1>4

(* Every buffer of a dynamic_pool has one owner and is deleted once: those *)
(* that wait in it exist, are there once, have its size and are in nobody's*)
(* use, whatever sizes are asked for and whoever gives them back; and a    *)
(* buffer in use is as large as it was asked to be.                        *)
THEOREM PoolOwnsBuffers == PoolSpec => []BuffersOwned
<1>1. BuffersOwned /\ [PoolNext]_poolVars => BuffersOwned'
  <2> SUFFICES ASSUME BuffersOwned, [PoolNext]_poolVars PROVE BuffersOwned'
    OBVIOUS
  <2>1. CASE UNCHANGED poolVars
    BY <2>1 DEF poolVars, BuffersOwned, PoolTypeOK, PoolOwns, FreeOnce, FreeSized,
                FreeAreGivenBack, InFree, LargeEnough
  <2>2. CASE PoolNext
    BY <2>2, AllocateNewKeeps, AllocateAgainKeeps, DeallocateKeeps, DestroyPoolKeeps, AutoKeeps
    DEF PoolNext
  <2> QED
    BY <2>1, <2>2
<1> QED
  BY PoolInitially, <1>1, PTL DEF PoolSpec

-----------------------------------------------------------------------------
(* ObjectsInOnePlace is inductive: its proof, for any threads and objects. *)
USE ObjectAssumption

LEMMA ObjectsInitially == ObjectInit => ObjectsInOnePlace
<1> SUFFICES ASSUME ObjectInit PROVE ObjectsInOnePlace
  OBVIOUS
<1>1. m_available = <<>> /\ m_available \in Seq(Objects) /\ Waiting = {}
  BY DEF ObjectInit, Waiting
<1>2. ObjectTypeOK
  BY <1>1 DEF ObjectInit, ObjectTypeOK
<1>3. ObjectsOwned
  BY <1>1 DEF ObjectInit, ObjectsOwned, OneInside, Inside, AvailableOnce, HadOnce, NotGivenTwice,
              NoneLost, PopsFront, Putting
<1> QED
  BY <1>2, <1>3 DEF ObjectsInOnePlace

(* The list as a queue.                                                    *)
LEMMA ListFacts ==
  ASSUME ObjectsInOnePlace
  PROVE  /\ m_available \in Seq(Objects) /\ Len(m_available) \in Nat
         /\ DOMAIN m_available = 1 .. Len(m_available)
         /\ \A i, j \in DOMAIN m_available : m_available[i] = m_available[j] => i = j
<1>1. m_available \in Seq(Objects)
  BY DEF ObjectsInOnePlace, ObjectTypeOK
<1>2. \A i, j \in DOMAIN m_available : m_available[i] = m_available[j] => i = j
  BY DEF ObjectsInOnePlace, ObjectsOwned, AvailableOnce
<1> QED
  BY <1>1, <1>2

LEMMA FrontTaken ==
  ASSUME ObjectsInOnePlace, m_available # <<>>, m_available' = Tail(m_available)
  PROVE  /\ Head(m_available) \in Waiting
         /\ Waiting' = Waiting \ {Head(m_available)}
         /\ m_available' \in Seq(Objects) /\ AvailableOnce'
<1>1. /\ Len(m_available) > 0 /\ Head(m_available) = m_available[1]
      /\ m_available' \in Seq(Objects)
      /\ DOMAIN m_available' = 1 .. Len(m_available) - 1
      /\ \A i \in DOMAIN m_available' : i + 1 \in DOMAIN m_available /\ m_available'[i] = m_available[i + 1]
  BY ListFacts
<1>2. Head(m_available) \in Waiting
  BY <1>1, ListFacts DEF Waiting
<1>3. AvailableOnce'
  BY <1>1, ListFacts DEF AvailableOnce
<1>4. ASSUME NEW o \in Waiting' PROVE o \in Waiting /\ o # Head(m_available)
  <2>1. PICK i \in DOMAIN m_available' : o = m_available'[i]
    BY DEF Waiting
  <2>2. o = m_available[i + 1] /\ i + 1 \in DOMAIN m_available /\ i + 1 # 1 /\ 1 \in DOMAIN m_available
    BY <1>1, <2>1, ListFacts
  <2> QED
    BY <1>1, <2>2, ListFacts DEF Waiting
<1>5. ASSUME NEW o \in Waiting, o # Head(m_available) PROVE o \in Waiting'
  <2>1. PICK i \in DOMAIN m_available : o = m_available[i]
    BY DEF Waiting
  <2>2. i \in 2 .. Len(m_available)
    BY <1>1, <1>5, <2>1, ListFacts
  <2>3. i - 1 \in DOMAIN m_available' /\ m_available'[i - 1] = o
    BY <1>1, <2>1, <2>2, ListFacts
  <2> QED
    BY <2>3 DEF Waiting
<1> QED
  BY <1>1, <1>2, <1>3, <1>4, <1>5

LEMMA BackGiven ==
  ASSUME ObjectsInOnePlace, NEW o \in Objects, o \notin Waiting, m_available' = Append(m_available, o)
  PROVE  /\ Waiting' = Waiting \cup {o}
         /\ m_available' \in Seq(Objects) /\ AvailableOnce'
<1>1. /\ m_available' \in Seq(Objects)
      /\ DOMAIN m_available' = 1 .. Len(m_available) + 1
      /\ m_available'[Len(m_available) + 1] = o
      /\ \A i \in DOMAIN m_available : m_available'[i] = m_available[i]
  BY ListFacts
<1>2. \A i \in DOMAIN m_available' : i = Len(m_available) + 1 \/ i \in DOMAIN m_available
  BY <1>1, ListFacts
<1>3. \A i \in DOMAIN m_available : m_available[i] # o
  BY DEF Waiting
<1>4. AvailableOnce'
  BY <1>1, <1>2, <1>3, ListFacts DEF AvailableOnce
<1>5. Waiting' = Waiting \cup {o}
  BY <1>1, <1>2, ListFacts DEF Waiting
<1> QED
  BY <1>1, <1>4, <1>5

(* Only the thread that has the mutex is inside.                           *)
LEMMA InsideHolds ==
  ASSUME ObjectsInOnePlace, NEW t \in Threads, pc[t] \in {"get", "pop", "put"}
  PROVE  holder = t /\ Inside = {t} /\ \A u \in Threads : u # t => pc[u] \notin {"get", "pop", "put"}
<1>1. t \in Inside
  BY DEF Inside
<1>2. Inside = {holder}
  BY <1>1 DEF ObjectsInOnePlace, ObjectsOwned, OneInside
<1> QED
  BY <1>1, <1>2 DEF Inside

(* When it leaves, nobody is.                                              *)
LEMMA LeaveEmpties ==
  ASSUME ObjectsInOnePlace, NEW t \in Threads, pc[t] \in {"get", "pop", "put"}, Leave(t)
  PROVE  /\ OneInside' /\ pc'[t] = "out"
         /\ \A u \in Threads : u # t => pc'[u] = pc[u] /\ pc'[u] \notin {"get", "pop", "put"}
         /\ pc' \in [Threads -> {"out", "lock get", "get", "pop", "lock put", "put"}]
         /\ holder' = NoThread
<1>1. \A u \in Threads : u # t => pc'[u] = pc[u] /\ pc'[u] \notin {"get", "pop", "put"}
  BY InsideHolds DEF Leave, ObjectsInOnePlace, ObjectTypeOK
<1>2. pc'[t] = "out" /\ holder' = NoThread
  BY DEF Leave, ObjectsInOnePlace, ObjectTypeOK
<1>3. Inside' = {}
  BY <1>1, <1>2 DEF Inside
<1> QED
  BY <1>1, <1>2, <1>3 DEF OneInside, Leave, ObjectsInOnePlace, ObjectTypeOK

LEMMA GetPutKeeps ==
  ASSUME ObjectsInOnePlace, NEW t \in Threads, CallGet(t) \/ CallPut(t)
  PROVE  ObjectsInOnePlace'
<1>1. Waiting' = Waiting /\ Inside' = Inside
  <2>1. m_available' = m_available
    BY DEF CallGet, CallPut
  <2>2. \A u \in Threads : pc'[u] \in {"get", "pop", "put"} <=> pc[u] \in {"get", "pop", "put"}
    BY DEF CallGet, CallPut, ObjectsInOnePlace, ObjectTypeOK
  <2> QED
    BY <2>1, <2>2 DEF Inside, Waiting
<1>2. OneInside' /\ AvailableOnce'
  BY <1>1 DEF CallGet, CallPut, OneInside, AvailableOnce, ObjectsInOnePlace, ObjectsOwned
<1>3. ObjectTypeOK'
  <2>1. CASE CallGet(t)
    BY <2>1 DEF CallGet, ObjectsInOnePlace, ObjectTypeOK
  <2>2. CASE CallPut(t)
    <3>1. PICK o \in uses[t] : uses' = [uses EXCEPT ![t] = @ \ {o}] /\ object' = [object EXCEPT ![t] = o]
      BY <2>2 DEF CallPut
    <3>2. o \in Objects /\ uses' \in [Threads -> SUBSET Objects] /\ object' \in [Threads -> Objects]
      BY <3>1 DEF ObjectsInOnePlace, ObjectTypeOK
    <3> QED
      BY <2>2, <3>2 DEF CallPut, ObjectsInOnePlace, ObjectTypeOK
  <2> QED
    BY <2>1, <2>2
<1>6. PopsFront'
  BY DEF CallGet, CallPut, PopsFront, ObjectsInOnePlace, ObjectsOwned, ObjectTypeOK
<1>4. CASE CallGet(t)
  <2>1. \A u \in Threads : Putting(u)' = Putting(u)
    BY <1>4 DEF CallGet, Putting, ObjectsInOnePlace, ObjectTypeOK
  <2> QED
    BY <1>1, <1>2, <1>3, <1>6, <1>4, <2>1
    DEF CallGet, ObjectsInOnePlace, ObjectsOwned, HadOnce, NotGivenTwice, NoneLost
<1>5. ASSUME NEW o \in uses[t], uses' = [uses EXCEPT ![t] = @ \ {o}],
             object' = [object EXCEPT ![t] = o], CallPut(t)
      PROVE  ObjectsInOnePlace'
  <2>1. Putting(t) = {} /\ Putting(t)' = {o}
    BY <1>5 DEF CallPut, Putting, ObjectsInOnePlace, ObjectTypeOK
  <2>2. \A u \in Threads : u # t => Putting(u)' = Putting(u) /\ uses'[u] = uses[u]
    BY <1>5 DEF CallPut, Putting, ObjectsInOnePlace, ObjectTypeOK
  <2>3. uses'[t] = uses[t] \ {o}
    BY <1>5 DEF ObjectsInOnePlace, ObjectTypeOK
  <2>4. \A u \in Threads : uses'[u] \cup Putting(u)' = uses[u] \cup Putting(u)
    BY <2>1, <2>2, <2>3
  <2>5. HadOnce' /\ NoneLost'
    <3>1. made' = made
      BY <1>5 DEF CallPut
    <3>2. HadOnce'
      BY <2>4 DEF ObjectsInOnePlace, ObjectsOwned, HadOnce
    <3>3. NoneLost'
      BY <1>1, <2>4, <3>1 DEF ObjectsInOnePlace, ObjectsOwned, NoneLost
    <3> QED
      BY <3>2, <3>3
  <2>6. NotGivenTwice'
    BY <1>1, <2>1, <2>2, <2>3, <2>4 DEF ObjectsInOnePlace, ObjectsOwned, NotGivenTwice
  <2> QED
    BY <1>2, <1>3, <1>6, <2>5, <2>6 DEF ObjectsInOnePlace, ObjectsOwned
<1> QED
  BY <1>4, <1>5 DEF CallPut

LEMMA LockKeeps ==
  ASSUME ObjectsInOnePlace, NEW t \in Threads, Lock(t)
  PROVE  ObjectsInOnePlace'
<1>1. Inside = {} /\ Inside' = {t} /\ holder' = t /\ t # NoThread
  BY DEF Lock, Inside, OneInside, ObjectsInOnePlace, ObjectsOwned, ObjectTypeOK
<1>2. Waiting' = Waiting /\ \A u \in Threads : Putting(u)' = Putting(u)
  BY DEF Lock, Waiting, Putting, ObjectsInOnePlace, ObjectTypeOK
<1>3. ObjectTypeOK' /\ OneInside'
  BY <1>1 DEF Lock, OneInside, ObjectsInOnePlace, ObjectTypeOK
<1>4. PopsFront'
  BY DEF Lock, PopsFront, ObjectsInOnePlace, ObjectsOwned, ObjectTypeOK
<1>5. AvailableOnce' /\ HadOnce' /\ NotGivenTwice' /\ NoneLost'
  <2>1. UNCHANGED <<uses, made, m_available>>
    BY DEF Lock
  <2> QED
    BY <1>2, <2>1 DEF ObjectsInOnePlace, ObjectsOwned, AvailableOnce, HadOnce, NotGivenTwice, NoneLost
<1> QED
  BY <1>3, <1>4, <1>5 DEF ObjectsInOnePlace, ObjectsOwned

LEMMA CreateKeeps ==
  ASSUME ObjectsInOnePlace, NEW t \in Threads, Create(t) \/ CreateThrows(t)
  PROVE  ObjectsInOnePlace'
<1>1. ASSUME NEW o \in Objects \ made, made' = made \cup {o}, m_available' = <<o>>, Create(t)
      PROVE  ObjectsInOnePlace'
  <2>1. Waiting = {} /\ Waiting' = {o} /\ m_available' \in Seq(Objects) /\ AvailableOnce'
    BY <1>1 DEF Create, Waiting, AvailableOnce
  <2>2. Inside' = Inside /\ \A u \in Threads : Putting(u)' = Putting(u)
    BY <1>1 DEF Create, Inside, Putting
  <2>3. ObjectTypeOK' /\ OneInside'
    BY <1>1, <2>1, <2>2 DEF Create, OneInside, ObjectsInOnePlace, ObjectsOwned, ObjectTypeOK
  <2>4. PopsFront'
    BY <1>1, InsideHolds DEF Create, PopsFront
  <2>5. \A u \in Threads : o \notin uses[u] \cup Putting(u)
    BY <1>1 DEF ObjectsInOnePlace, ObjectsOwned, NoneLost
  <2>6. HadOnce' /\ NotGivenTwice' /\ NoneLost'
    BY <1>1, <2>1, <2>2, <2>5
    DEF Create, ObjectsInOnePlace, ObjectsOwned, HadOnce, NotGivenTwice, NoneLost
  <2> QED
    BY <2>1, <2>3, <2>4, <2>6 DEF ObjectsInOnePlace, ObjectsOwned
<1>2. CASE CreateThrows(t)
  <2>1. /\ OneInside' /\ pc'[t] = "out"
        /\ \A u \in Threads : u # t => pc'[u] = pc[u] /\ pc'[u] \notin {"get", "pop", "put"}
        /\ pc' \in [Threads -> {"out", "lock get", "get", "pop", "lock put", "put"}]
        /\ holder' = NoThread
    BY <1>2, LeaveEmpties DEF CreateThrows
  <2>2. Waiting' = Waiting /\ \A u \in Threads : Putting(u)' = Putting(u)
    BY <1>2, <2>1 DEF CreateThrows, Waiting, Putting
  <2>3. ObjectTypeOK' /\ PopsFront'
    BY <1>2, <2>1 DEF CreateThrows, PopsFront, ObjectsInOnePlace, ObjectTypeOK
  <2>4. AvailableOnce' /\ HadOnce' /\ NotGivenTwice' /\ NoneLost'
    BY <1>2, <2>2
    DEF CreateThrows, ObjectsInOnePlace, ObjectsOwned, AvailableOnce, HadOnce, NotGivenTwice, NoneLost
  <2> QED
    BY <2>1, <2>3, <2>4 DEF ObjectsInOnePlace, ObjectsOwned
<1> QED
  BY <1>1, <1>2 DEF Create

LEMMA FrontKeeps ==
  ASSUME ObjectsInOnePlace, NEW t \in Threads, Front(t)
  PROVE  ObjectsInOnePlace'
<1>1. Head(m_available) \in Objects
  BY ListFacts DEF Front
<1>2. Waiting' = Waiting /\ Inside' = Inside /\ \A u \in Threads : Putting(u)' = Putting(u)
  BY DEF Front, Waiting, Inside, Putting, ObjectsInOnePlace, ObjectTypeOK
<1>3. ObjectTypeOK' /\ OneInside'
  BY <1>1, <1>2 DEF Front, OneInside, ObjectsInOnePlace, ObjectsOwned, ObjectTypeOK
<1>4. PopsFront'
  BY InsideHolds DEF Front, PopsFront, ObjectsInOnePlace, ObjectTypeOK
<1>5. AvailableOnce' /\ HadOnce' /\ NotGivenTwice' /\ NoneLost'
  BY <1>2 DEF Front, ObjectsInOnePlace, ObjectsOwned, AvailableOnce, HadOnce, NotGivenTwice, NoneLost
<1> QED
  BY <1>3, <1>4, <1>5 DEF ObjectsInOnePlace, ObjectsOwned

LEMMA PopFrontKeeps ==
  ASSUME ObjectsInOnePlace, NEW t \in Threads, PopFront(t)
  PROVE  ObjectsInOnePlace'
<1> DEFINE o == object[t]
<1>1. /\ o = Head(m_available) /\ o \in Waiting /\ Waiting' = Waiting \ {o}
      /\ m_available' \in Seq(Objects) /\ AvailableOnce'
  BY FrontTaken DEF PopFront, ObjectsInOnePlace, ObjectsOwned, PopsFront
<1>2. /\ OneInside' /\ pc'[t] = "out" /\ pc[t] = "pop"
      /\ \A u \in Threads : u # t => pc'[u] = pc[u] /\ pc'[u] \notin {"get", "pop", "put"}
      /\ pc' \in [Threads -> {"out", "lock get", "get", "pop", "lock put", "put"}]
      /\ holder' = NoThread
  BY LeaveEmpties DEF PopFront
<1>3. \A u \in Threads : Putting(u)' = Putting(u)
  BY <1>2 DEF PopFront, Putting
<1>4. o \in Objects /\ o \in made
  BY <1>1 DEF ObjectsInOnePlace, ObjectTypeOK, ObjectsOwned, NoneLost
<1>5. uses'[t] = uses[t] \cup {o} /\ \A u \in Threads : u # t => uses'[u] = uses[u]
  BY DEF PopFront, ObjectsInOnePlace, ObjectTypeOK
<1>6. made' = made
  BY DEF PopFront
<1>7. ObjectTypeOK' /\ PopsFront'
  BY <1>1, <1>2, <1>4 DEF PopFront, PopsFront, ObjectsInOnePlace, ObjectTypeOK
<1>8. \A u \in Threads : o \notin uses[u] \cup Putting(u)
  BY <1>1 DEF ObjectsInOnePlace, ObjectsOwned, NotGivenTwice
<1> HIDE DEF o
<1>9. HadOnce' /\ NotGivenTwice' /\ NoneLost'
  BY <1>1, <1>3, <1>5, <1>6, <1>8
  DEF ObjectsInOnePlace, ObjectsOwned, HadOnce, NotGivenTwice, NoneLost
<1> QED
  BY <1>1, <1>2, <1>7, <1>9 DEF ObjectsInOnePlace, ObjectsOwned

LEMMA PushBackKeeps ==
  ASSUME ObjectsInOnePlace, NEW t \in Threads, PushBack(t)
  PROVE  ObjectsInOnePlace'
<1> DEFINE o == object[t]
<1>1. pc[t] = "put" /\ Putting(t) = {o} /\ o \in Objects /\ o \notin Waiting
  BY DEF PushBack, Putting, ObjectsInOnePlace, ObjectTypeOK, ObjectsOwned, NotGivenTwice
<1>2. Waiting' = Waiting \cup {o} /\ m_available' \in Seq(Objects) /\ AvailableOnce'
  BY <1>1, BackGiven DEF PushBack
<1>3. /\ OneInside' /\ pc'[t] = "out"
      /\ \A u \in Threads : u # t => pc'[u] = pc[u] /\ pc'[u] \notin {"get", "pop", "put"}
      /\ pc' \in [Threads -> {"out", "lock get", "get", "pop", "lock put", "put"}]
      /\ holder' = NoThread
  BY <1>1, LeaveEmpties DEF PushBack
<1>4. Putting(t)' = {} /\ \A u \in Threads : u # t => Putting(u)' = Putting(u)
  BY <1>3 DEF PushBack, Putting
<1>5. UNCHANGED <<uses, made, exists, object>>
  BY DEF PushBack
<1>6. ObjectTypeOK' /\ PopsFront'
  BY <1>2, <1>3, <1>5 DEF PopsFront, ObjectsInOnePlace, ObjectTypeOK
<1>7. \A u \in Threads : u # t => o \notin uses[u] \cup Putting(u)
  BY <1>1 DEF ObjectsInOnePlace, ObjectsOwned, HadOnce
<1>8. o \notin uses[t]
  BY <1>1 DEF ObjectsInOnePlace, ObjectsOwned, NotGivenTwice
<1> HIDE DEF o
<1>9. HadOnce' /\ NotGivenTwice' /\ NoneLost'
  BY <1>1, <1>2, <1>4, <1>5, <1>7, <1>8
  DEF ObjectsInOnePlace, ObjectsOwned, HadOnce, NotGivenTwice, NoneLost
<1> QED
  BY <1>2, <1>3, <1>6, <1>9 DEF ObjectsInOnePlace, ObjectsOwned

LEMMA DestroyObjectPoolKeeps ==
  ASSUME ObjectsInOnePlace, DestroyObjectPool
  PROVE  ObjectsInOnePlace'
<1>1. m_available' = <<>> /\ m_available' \in Seq(Objects) /\ Waiting' = {}
  BY DEF DestroyObjectPool, Waiting
<1>2. Inside' = Inside /\ \A u \in Threads : Putting(u)' = Putting(u) /\ Putting(u) = {}
  BY DEF DestroyObjectPool, Inside, Putting
<1>3. ObjectTypeOK' /\ OneInside'
  BY <1>1, <1>2 DEF DestroyObjectPool, OneInside, ObjectsInOnePlace, ObjectsOwned, ObjectTypeOK
<1>4. AvailableOnce' /\ PopsFront'
  BY <1>1 DEF DestroyObjectPool, AvailableOnce, PopsFront
<1>5. HadOnce' /\ NotGivenTwice' /\ NoneLost'
  BY <1>1, <1>2 DEF DestroyObjectPool, ObjectsInOnePlace, ObjectsOwned, HadOnce, NotGivenTwice, NoneLost
<1> QED
  BY <1>3, <1>4, <1>5 DEF ObjectsInOnePlace, ObjectsOwned

(* No two threads ever have the same object of an object_pool, and none is *)
(* lost: every object that exists is in the pool, in the use of one thread *)
(* or on its way back, however get() and put() of any number of threads    *)
(* interleave and whatever constructors throw.                             *)
THEOREM OneThreadPerObject == ObjectSpec => []ObjectsInOnePlace
<1>1. ObjectsInOnePlace /\ [ObjectNext]_objectVars => ObjectsInOnePlace'
  <2> SUFFICES ASSUME ObjectsInOnePlace, [ObjectNext]_objectVars PROVE ObjectsInOnePlace'
    OBVIOUS
  <2>1. CASE UNCHANGED objectVars
    <3>1. Waiting' = Waiting /\ Inside' = Inside /\ \A t \in Threads : Putting(t)' = Putting(t)
      BY <2>1 DEF objectVars, Waiting, Inside, Putting
    <3>2. ObjectTypeOK' /\ OneInside' /\ PopsFront' /\ AvailableOnce'
      BY <2>1, <3>1 DEF objectVars, ObjectsInOnePlace, ObjectTypeOK, ObjectsOwned, OneInside,
                        PopsFront, AvailableOnce
    <3>3. HadOnce' /\ NotGivenTwice' /\ NoneLost'
      BY <2>1, <3>1 DEF objectVars, ObjectsInOnePlace, ObjectsOwned, HadOnce, NotGivenTwice, NoneLost
    <3> QED
      BY <3>2, <3>3 DEF ObjectsInOnePlace, ObjectsOwned
  <2>2. CASE ObjectNext
    BY <2>2, GetPutKeeps, LockKeeps, CreateKeeps, FrontKeeps, PopFrontKeeps, PushBackKeeps,
       DestroyObjectPoolKeeps
    DEF ObjectNext, ObjectStep
  <2> QED
    BY <2>1, <2>2
<1> QED
  BY ObjectsInitially, <1>1, PTL DEF ObjectSpec

-----------------------------------------------------------------------------
(* PackageAnswered, for any output and any number of questions.            *)
USE PkgAssumption

(* What is known at each place of run(), which makes the answer the right  *)
(* one at the end: when the read has come to the end of the file the child *)
(* has ended, and if it has not failed all of its output has been read.    *)
InRun ==
    /\ at = "out" <=> question = "none"
    /\ at \in {"out", "start"} => child = "none" /\ output = 0 /\ written = 0 /\ read = 0
    /\ at \in {"read", "wait", "judge"} => child # "none"
    /\ child = "running" => "child" \in writer
    /\ child = "exit 0" => written = output
    /\ at \in {"wait", "judge"} => read = written /\ writer = {}

PkgInv == PackageAnswered /\ InRun

LEMMA PkgInitially == PkgInit => PkgInv
  BY DEF PkgInit, PkgInv, InRun, PackageAnswered, PkgTypeOK, AnswersTrue, CallsLeave, None

(* The values that TypeOK and InRun speak of are numbers.                  *)
LEMMA PkgNumbers ==
  ASSUME PkgInv
  PROVE  /\ output \in Nat /\ written \in Nat /\ read \in Nat
         /\ read <= written /\ written <= output /\ output <= Chunks
         /\ asked \in Nat /\ ends = asked /\ zombies \in Nat /\ strays \in Nat
         /\ asked <= MaxQuestions /\ zombies + strays + (IF at = "out" THEN 0 ELSE 1) <= asked
<1>1. /\ output \in 0 .. Chunks /\ asked \in 0 .. MaxQuestions
      /\ zombies \in 0 .. MaxQuestions /\ strays \in 0 .. MaxQuestions
  BY DEF PkgInv, PackageAnswered, PkgTypeOK
<1>2. written \in 0 .. output
  BY DEF PkgInv, PackageAnswered, PkgTypeOK
<1>3. read \in 0 .. written
  BY DEF PkgInv, PackageAnswered, PkgTypeOK
<1>4. ends = asked /\ zombies + strays + (IF at = "out" THEN 0 ELSE 1) <= asked
  BY DEF PkgInv, PackageAnswered, CallsLeave
<1> QED
  BY <1>1, <1>2, <1>3, <1>4

(* A call that ends by an exception of the system has no answer.           *)
LEMMA EndsNot ==
  ASSUME PkgInv, at # "out", Ends("unix_error"),
         zombies' \in Nat, strays' \in Nat, zombies' + strays' <= zombies + strays + 1
  PROVE  PkgInv'
<1>1. /\ at' = "out" /\ question' = "none" /\ child' = "none" /\ writer' = {}
      /\ output' = 0 /\ written' = 0 /\ read' = 0 /\ asked' = asked /\ ends' = ends
  BY DEF Ends
<1>2. /\ zombies' \in 0 .. MaxQuestions /\ strays' \in 0 .. MaxQuestions
      /\ zombies' + strays' <= asked' /\ ends' = asked'
  BY <1>1, PkgNumbers
<1>3. Says("unix_error") = "unix_error"
  BY DEF Says
<1>4. AnswersTrue'
  BY <1>3 DEF Ends, AnswersTrue
<1>5. PkgTypeOK'
  BY <1>1, <1>2, PkgNumbers DEF PkgTypeOK
<1>6. InRun' /\ CallsLeave'
  BY <1>1, <1>2, PkgNumbers DEF InRun, CallsLeave
<1> QED
  BY <1>4, <1>5, <1>6 DEF PkgInv, PackageAnswered

LEMMA FailureKeeps ==
  ASSUME PkgInv, StartThrows \/ NoProgram \/ StartInterrupted \/ Interrupted
  PROVE  PkgInv'
  BY EndsNot, PkgNumbers DEF StartThrows, NoProgram, StartInterrupted, Interrupted

(* The end of the child decides.                                           *)
LEMMA JudgedKeeps ==
  ASSUME PkgInv, Judged
  PROVE  PkgInv'
<1>1. /\ at' = "out" /\ question' = "none" /\ child' = "none" /\ writer' = {}
      /\ output' = 0 /\ written' = 0 /\ read' = 0 /\ asked' = asked /\ ends' = ends
      /\ zombies' = zombies /\ strays' = strays
  BY DEF Judged, Ends
<1>2. zombies' + strays' <= asked' /\ ends' = asked'
  BY <1>1, PkgNumbers
<1>3. PkgTypeOK'
  BY <1>1, PkgNumbers DEF PkgTypeOK
<1>4. InRun' /\ CallsLeave'
  BY <1>1, <1>2, PkgNumbers DEF InRun, CallsLeave
<1>5. /\ question \in Questions /\ child \in {"exit 0", "exit 1", "killed"}
      /\ child = "exit 0" => read = output
  BY DEF Judged, PkgInv, InRun, PackageAnswered, PkgTypeOK, Questions
<1>6. AnswersTrue'
  <2>1. CASE child = "killed"
    <3>1. reply' = [says |-> Says("pkgconfig_error"), of |-> question, saw |-> child, whole |-> read = output]
      BY <2>1 DEF Judged, Ends
    <3>2. Says("pkgconfig_error") = IF question = "get" THEN "default" ELSE "pkgconfig_error"
      BY DEF Says
    <3> QED
      BY <2>1, <3>1, <3>2 DEF AnswersTrue
  <2>2. CASE child = "exit 1"
    <3>1. reply' = [says |-> Says("not_found"), of |-> question, saw |-> child, whole |-> read = output]
      BY <2>2 DEF Judged, Ends
    <3>2. Says("not_found") = IF question = "get" THEN "default"
                              ELSE IF question = "exists" THEN "false" ELSE "not_found"
      BY DEF Says
    <3>3. CASE question = "get"
      BY <2>2, <3>1, <3>2, <3>3 DEF AnswersTrue
    <3>4. CASE question = "exists"
      BY <2>2, <3>1, <3>2, <3>4 DEF AnswersTrue
    <3>5. CASE question \notin {"get", "exists"}
      BY <2>2, <3>1, <3>2, <3>5 DEF AnswersTrue
    <3> QED
      BY <3>3, <3>4, <3>5
  <2>3. CASE child = "exit 0"
    <3>1. PICK outcome \in {"out_of_range", "output"} :
             reply' = [says |-> Says(outcome), of |-> question, saw |-> child, whole |-> read = output]
      BY <2>3 DEF Judged, Ends
    <3>2. Says("out_of_range") = "out_of_range" /\ Says("output") \in {"true", "object", "output"}
      BY DEF Says
    <3>3. reply'.saw = "exit 0" /\ reply'.whole = TRUE /\ reply'.says = Says(outcome)
      BY <1>5, <2>3, <3>1
    <3>4. CASE outcome = "out_of_range"
      <4>1. reply'.says = "out_of_range"
        BY <3>2, <3>3, <3>4
      <4> QED
        BY <4>1 DEF AnswersTrue
    <3>5. CASE outcome = "output"
      <4>1. reply'.says \in {"true", "object", "output"}
        BY <3>2, <3>3, <3>5
      <4> QED
        BY <3>3, <4>1 DEF AnswersTrue
    <3> QED
      BY <3>4, <3>5
  <2> QED
    BY <1>5, <2>1, <2>2, <2>3
<1> QED
  BY <1>3, <1>4, <1>6 DEF PkgInv, PackageAnswered

(* The other steps leave the last answer alone.                            *)
LEMMA CallKeeps ==
  ASSUME PkgInv, Ask \/ Started PROVE PkgInv'
<1>1. reply' = reply /\ AnswersTrue'
  BY DEF Ask, Started, PkgInv, PackageAnswered, AnswersTrue
<1>2. CASE Ask
  BY <1>1, <1>2, PkgNumbers
  DEF Ask, PkgInv, InRun, PackageAnswered, PkgTypeOK, CallsLeave, Questions
<1>3. CASE Started
  BY <1>1, <1>3, PkgNumbers
  DEF Started, WriterLeft, PkgInv, InRun, PackageAnswered, PkgTypeOK, CallsLeave
<1> QED
  BY <1>2, <1>3

LEMMA ChildKeeps ==
  ASSUME PkgInv, ChildWrites \/ ChildEnds \/ StrayEnds PROVE PkgInv'
<1>1. reply' = reply /\ AnswersTrue'
  BY DEF ChildWrites, ChildEnds, StrayEnds, PkgInv, PackageAnswered, AnswersTrue
<1>2. CASE ChildWrites
  BY <1>1, <1>2, PkgNumbers
  DEF ChildWrites, PkgInv, InRun, PackageAnswered, PkgTypeOK, CallsLeave
<1>3. CASE ChildEnds
  BY <1>1, <1>3, PkgNumbers
  DEF ChildEnds, PkgInv, InRun, PackageAnswered, PkgTypeOK, CallsLeave
<1>4. CASE StrayEnds
  <2>1. zombies + 1 \in 0 .. MaxQuestions /\ strays - 1 \in 0 .. MaxQuestions
    <3>1. zombies \in Nat /\ strays \in Nat /\ zombies + strays <= MaxQuestions /\ MaxQuestions \in Nat
      BY PkgNumbers
    <3>2. strays > 0
      BY <1>4 DEF StrayEnds
    <3> QED
      BY <3>1, <3>2
  <2> QED
    <3>1. /\ zombies' \in 0 .. MaxQuestions /\ strays' \in 0 .. MaxQuestions
          /\ zombies' + strays' = zombies + strays
      BY <1>4, <2>1, PkgNumbers DEF StrayEnds
    <3>2. /\ UNCHANGED <<question, at, child, output, written, writer, read, asked, ends>>
      BY <1>4 DEF StrayEnds
    <3>3. PkgTypeOK'
      BY <3>1, <3>2 DEF PkgInv, PackageAnswered, PkgTypeOK
    <3>4. CallsLeave'
      BY <3>1, <3>2, PkgNumbers DEF PkgInv, PackageAnswered, CallsLeave
    <3>5. InRun'
      BY <3>2 DEF PkgInv, InRun
    <3> QED
      BY <1>1, <3>3, <3>4, <3>5 DEF PkgInv, PackageAnswered
<1> QED
  BY <1>2, <1>3, <1>4

LEMMA ReadKeeps ==
  ASSUME PkgInv, ReadSome \/ ReadEnds \/ Waited PROVE PkgInv'
<1>1. reply' = reply /\ AnswersTrue'
  BY DEF ReadSome, ReadEnds, Waited, PkgInv, PackageAnswered, AnswersTrue
<1>2. CASE ReadSome
  <2>1. /\ read' \in 0 .. written' /\ read < written /\ at = "read" /\ asked' = asked
        /\ ends' = ends /\ zombies' = zombies /\ strays' = strays
    BY <1>2, PkgNumbers DEF ReadSome
  <2>2. PkgTypeOK'
    BY <1>2, <2>1 DEF ReadSome, PkgInv, PackageAnswered, PkgTypeOK
  <2>3. InRun'
    BY <1>2, <2>1, PkgNumbers DEF ReadSome, PkgInv, InRun
  <2>4. CallsLeave'
    BY <1>2, <2>1 DEF ReadSome, PkgInv, PackageAnswered, CallsLeave
  <2> QED
    BY <1>1, <2>2, <2>3, <2>4 DEF PkgInv, PackageAnswered
<1>3. CASE ReadEnds \/ Waited
  BY <1>1, <1>3, PkgNumbers
  DEF ReadEnds, AtEnd, Waited, PkgInv, InRun, PackageAnswered, PkgTypeOK, CallsLeave
<1> QED
  BY <1>2, <1>3

(* Whatever pkg-config writes, in whatever pieces, and whenever it fails,  *)
(* is killed or a signal comes: an answer that the program gets is the one *)
(* that the end of the child gives, with all of its output, and a call     *)
(* that is over has left the read end of its pipe, and at most the child   *)
(* of a start() that threw.                                                *)
THEOREM AnswersAreTrue == PkgSpec => []PackageAnswered
<1>1. PkgInv /\ [PkgNext]_pkgVars => PkgInv'
  <2> SUFFICES ASSUME PkgInv, [PkgNext]_pkgVars PROVE PkgInv'
    OBVIOUS
  <2>1. CASE UNCHANGED pkgVars
    BY <2>1 DEF pkgVars, PkgInv, InRun, PackageAnswered, PkgTypeOK, AnswersTrue, CallsLeave
  <2>2. CASE PkgNext
    BY <2>2, FailureKeeps, JudgedKeeps, CallKeeps, ChildKeeps, ReadKeeps DEF PkgNext, PkgStep
  <2> QED
    BY <2>1, <2>2
<1>2. PkgInv => PackageAnswered
  BY DEF PkgInv
<1> QED
  BY PkgInitially, <1>1, <1>2, PTL DEF PkgSpec

-----------------------------------------------------------------------------
(* FlagsRestored, for any set of bits and any number of nested flags.      *)
(* The field as the flag i has left it to the next one.                    *)
After(i) == IF i = Len(flags) THEN m_field ELSE flags[i + 1].was

(* A flag will restore what its constructor decided, and its own bits and  *)
(* those that are recorded as touched are all that has changed over it.    *)
FlagKeeps(f, after) ==
    /\ f.m_restore = (IF f.restore_old THEN f.m_mask \subseteq f.was ELSE ~f.value)
    /\ \A b \in Bits \ (f.m_mask \cup f.touched) : b \in after <=> b \in f.was

Nested == \A i \in 1 .. Len(flags) : FlagKeeps(flags[i], After(i))

FlagInv == FlagTypeOK /\ Nested /\ FlagsRestored

(* What Touch leaves and what it changes.                                  *)
Touched(f, bits) == [f EXCEPT !.touched = @ \cup bits]

LEMMA TouchOne ==
  ASSUME NEW f \in Flags, NEW bits \in SUBSET Bits
  PROVE  /\ Touched(f, bits) \in Flags
         /\ Touched(f, bits).m_mask = f.m_mask
         /\ Touched(f, bits).m_restore = f.m_restore
         /\ Touched(f, bits).was = f.was
         /\ Touched(f, bits).restore_old = f.restore_old
         /\ Touched(f, bits).value = f.value
         /\ Touched(f, bits).touched = f.touched \cup bits
  BY DEF Flags, Touched

LEMMA TouchAll ==
  ASSUME NEW fs \in Seq(Flags), NEW bits \in SUBSET Bits
  PROVE  /\ Touch(fs, bits) \in Seq(Flags)
         /\ Len(Touch(fs, bits)) = Len(fs)
         /\ \A i \in 1 .. Len(fs) :
               /\ fs[i] \in Flags
               /\ Touch(fs, bits)[i] = Touched(fs[i], bits)
               /\ Touch(fs, bits)[i].was = fs[i].was
<1>1. DOMAIN fs = 1 .. Len(fs) /\ Len(fs) \in Nat /\ \A i \in 1 .. Len(fs) : fs[i] \in Flags
  OBVIOUS
<1>2. \A i \in 1 .. Len(fs) : Touched(fs[i], bits) \in Flags /\ Touched(fs[i], bits).was = fs[i].was
  BY <1>1, TouchOne
<1>3. Touch(fs, bits) = [i \in 1 .. Len(fs) |-> Touched(fs[i], bits)]
  BY <1>1 DEF Touch, Touched
<1>4. Touch(fs, bits) \in [1 .. Len(fs) -> Flags]
  BY <1>2, <1>3
<1>5. Touch(fs, bits) \in Seq(Flags)
  BY <1>1, <1>4
<1>6. Len(Touch(fs, bits)) = Len(fs)
  BY <1>1, <1>4, <1>5
<1> QED
  BY <1>1, <1>2, <1>3, <1>5, <1>6

(* A flag that has been touched keeps what has not been.                   *)
LEMMA TouchedKeeps ==
  ASSUME NEW f \in Flags, NEW bits \in SUBSET Bits, NEW after, NEW after2,
         FlagKeeps(f, after),
         \A b \in Bits \ bits : b \in after <=> b \in after2
  PROVE  FlagKeeps(Touched(f, bits), after2)
  BY TouchOne DEF FlagKeeps

(* All but the last one.                                                   *)
LEMMA Below ==
  ASSUME flags \in Seq(Flags), Len(flags) \in Nat \ {0}
  PROVE  /\ SubSeq(flags, 1, Len(flags) - 1) \in Seq(Flags)
         /\ Len(SubSeq(flags, 1, Len(flags) - 1)) = Len(flags) - 1
         /\ \A i \in 1 .. Len(flags) - 1 : SubSeq(flags, 1, Len(flags) - 1)[i] = flags[i]
<1> DEFINE n == Len(flags)
<1>1. \A i \in 1 .. n - 1 : flags[i] \in Flags
  OBVIOUS
<1>2. /\ SubSeq(flags, 1, n - 1) \in Seq(Flags)
      /\ Len(SubSeq(flags, 1, n - 1)) = IF 1 <= n - 1 THEN n - 1 - 1 + 1 ELSE 0
      /\ \A i \in 1 .. n - 1 - 1 + 1 : SubSeq(flags, 1, n - 1)[i] = flags[1 + i - 1]
  BY <1>1, SubSeqProperties
<1>3. \A i \in 1 .. n - 1 : SubSeq(flags, 1, n - 1)[i] = flags[i]
  <2> TAKE i \in 1 .. n - 1
  <2>1. i \in 1 .. n - 1 - 1 + 1 /\ 1 + i - 1 = i
    OBVIOUS
  <2> QED
    BY <1>2, <2>1
<1>4. Len(SubSeq(flags, 1, n - 1)) = n - 1
  <2> HIDE DEF n
  <2>1. n \in Nat \ {0} /\ Len(SubSeq(flags, 1, n - 1)) = IF 1 <= n - 1 THEN n - 1 - 1 + 1 ELSE 0
    BY <1>2 DEF n
  <2>2. CASE n = 1
    BY <2>1, <2>2
  <2>3. CASE n # 1
    BY <2>1, <2>3
  <2> QED
    BY <2>2, <2>3
<1> QED
  BY <1>2, <1>3, <1>4

LEMMA FlagInitially == FlagInit => FlagInv
  BY DEF FlagInit, FlagInv, FlagTypeOK, Nested, FlagsRestored, NoFlag

LEMMA SetBits ==
  ASSUME m_field \subseteq Bits, NEW mask \in SUBSET Bits, NEW value \in BOOLEAN
  PROVE  /\ Set(mask, value) \subseteq Bits
         /\ \A b \in mask : b \in Set(mask, value) <=> value
         /\ \A b \in Bits \ mask : b \in Set(mask, value) <=> b \in m_field
  BY DEF Set

LEMMA ConstructKeeps ==
  ASSUME FlagInv, Construct PROVE FlagInv'
<1>1. PICK mask \in SUBSET Bits \ {{}}, value \in BOOLEAN, restore_old \in BOOLEAN :
         /\ flags' = Append(flags, [m_mask |-> mask, m_restore |-> IF restore_old THEN Get(mask) ELSE ~value,
                                    was |-> m_field, touched |-> {},
                                    restore_old |-> restore_old, value |-> value])
         /\ m_field' = Set(mask, value)
  BY DEF Construct
<1> DEFINE new == [m_mask |-> mask, m_restore |-> IF restore_old THEN Get(mask) ELSE ~value,
                   was |-> m_field, touched |-> {}, restore_old |-> restore_old, value |-> value]
<1>2. /\ new \in Flags /\ new.was = m_field /\ new.m_mask = mask /\ new.touched = {}
      /\ new.restore_old = restore_old /\ new.value = value
      /\ new.m_restore = (IF restore_old THEN mask \subseteq m_field ELSE ~value)
  BY DEF Flags, FlagInv, FlagTypeOK, Get
<1> HIDE DEF new
<1>3. flags \in Seq(Flags) /\ flags' = Append(flags, new) /\ m_field \subseteq Bits
  BY <1>1 DEF new, FlagInv, FlagTypeOK
<1>4. /\ flags' \in Seq(Flags) /\ Len(flags') = Len(flags) + 1 /\ Len(flags) \in Nat
      /\ flags'[Len(flags) + 1] = new
      /\ \A i \in 1 .. Len(flags) : flags'[i] = flags[i]
  BY <1>2, <1>3
<1>5. FlagTypeOK' /\ FlagsRestored'
  BY <1>1, <1>3, <1>4, SetBits DEF Construct, FlagTypeOK, FlagsRestored
<1>6. ASSUME NEW i \in 1 .. Len(flags') PROVE FlagKeeps(flags'[i], After(i)')
  <2>1. CASE i = Len(flags) + 1
    <3>1. After(i)' = Set(mask, value)
      BY <1>1, <1>4, <2>1 DEF After
    <3> QED
      BY <1>2, <1>3, <1>4, <2>1, <3>1, SetBits DEF FlagKeeps
  <2>2. CASE i \in 1 .. Len(flags)
    <3>1. After(i)' = After(i)
      BY <1>2, <1>4, <2>2 DEF After
    <3> QED
      BY <1>4, <2>2, <3>1 DEF FlagInv, Nested
  <2> QED
    BY <1>4, <2>1, <2>2
<1> QED
  BY <1>5, <1>6 DEF FlagInv, Nested

LEMMA DestroyFlagKeeps ==
  ASSUME FlagInv, DestroyFlag PROVE FlagInv'
<1> DEFINE n    == Len(flags)
           top  == flags[n]
           left == Set(top.m_mask, top.m_restore)
           rest == SubSeq(flags, 1, n - 1)
           bits == Differ(left, top.was)
<1>1. /\ flags \in Seq(Flags) /\ m_field \subseteq Bits /\ n \in Nat \ {0} /\ top \in Flags
      /\ FlagKeeps(top, m_field)
  BY DEF DestroyFlag, FlagInv, FlagTypeOK, Nested, After
<1>2. /\ top.m_mask \in SUBSET Bits /\ top.m_restore \in BOOLEAN /\ top.was \in SUBSET Bits
  BY <1>1 DEF Flags
<1>3. m_field' = left /\ flags' = Touch(rest, bits) /\ ended' = top
  BY DEF DestroyFlag
<1> HIDE DEF top
<1>4. /\ left \subseteq Bits
      /\ \A b \in top.m_mask : b \in left <=> top.m_restore
      /\ \A b \in Bits \ top.m_mask : b \in left <=> b \in m_field
  BY <1>1, <1>2, SetBits
<1> HIDE DEF left
<1>5. bits \in SUBSET Bits /\ \A b \in Bits \ bits : b \in top.was <=> b \in left
  BY <1>2, <1>4 DEF Differ
<1> HIDE DEF bits
<1>6. rest \in Seq(Flags) /\ Len(rest) = n - 1 /\ \A i \in 1 .. n - 1 : rest[i] = flags[i]
  BY <1>1, Below
<1> HIDE DEF rest
<1>7. /\ flags' \in Seq(Flags) /\ Len(flags') = n - 1
      /\ \A i \in 1 .. n - 1 : /\ rest[i] \in Flags
                               /\ flags'[i] = Touched(rest[i], bits)
                               /\ flags'[i].was = rest[i].was
  BY <1>3, <1>5, <1>6, TouchAll
<1>8. FlagTypeOK'
  BY <1>1, <1>3, <1>4, <1>7 DEF FlagTypeOK
<1>9. FlagsRestored'
  BY <1>1, <1>2, <1>3, <1>4 DEF FlagsRestored, FlagKeeps
<1>10. ASSUME NEW i \in 1 .. Len(flags') PROVE FlagKeeps(flags'[i], After(i)')
  <2>1. i \in 1 .. n - 1 /\ FlagKeeps(flags[i], After(i))
    BY <1>1, <1>7 DEF FlagInv, Nested
  <2>2. \A b \in Bits \ bits : b \in After(i) <=> b \in After(i)'
    <3>1. CASE i = n - 1
      BY <1>1, <1>3, <1>5, <1>7, <3>1 DEF After, top
    <3>2. CASE i # n - 1
      BY <1>1, <1>6, <1>7, <2>1, <3>2 DEF After
    <3> QED
      BY <3>1, <3>2
  <2>3. flags'[i] = Touched(flags[i], bits) /\ flags[i] \in Flags
    BY <1>6, <1>7, <2>1
  <2> QED
    BY <1>5, <2>1, <2>2, <2>3, TouchedKeeps
<1> QED
  BY <1>8, <1>9, <1>10 DEF FlagInv, Nested

LEMMA WriteKeeps ==
  ASSUME FlagInv, ProgramWrites PROVE FlagInv'
<1> DEFINE bits == Differ(m_field, m_field')
<1>1. flags \in Seq(Flags) /\ m_field \in SUBSET Bits /\ m_field' \in SUBSET Bits
  BY DEF FlagInv, FlagTypeOK, ProgramWrites
<1>2. bits \in SUBSET Bits /\ \A b \in Bits \ bits : b \in m_field <=> b \in m_field'
  BY <1>1 DEF Differ
<1>3. flags' = Touch(flags, bits)
  BY DEF ProgramWrites
<1> HIDE DEF bits
<1>4. /\ flags' \in Seq(Flags) /\ Len(flags') = Len(flags) /\ Len(flags) \in Nat
      /\ \A i \in 1 .. Len(flags) : /\ flags[i] \in Flags
                                    /\ flags'[i] = Touched(flags[i], bits)
                                    /\ flags'[i].was = flags[i].was
  BY <1>1, <1>2, <1>3, TouchAll
<1>5. FlagTypeOK' /\ FlagsRestored'
  BY <1>1, <1>4 DEF ProgramWrites, FlagTypeOK, FlagsRestored
<1>6. ASSUME NEW i \in 1 .. Len(flags') PROVE FlagKeeps(flags'[i], After(i)')
  <2>1. FlagKeeps(flags[i], After(i))
    BY <1>4 DEF FlagInv, Nested
  <2>2. \A b \in Bits \ bits : b \in After(i) <=> b \in After(i)'
    BY <1>2, <1>4 DEF After
  <2>3. flags'[i] = Touched(flags[i], bits) /\ flags[i] \in Flags
    BY <1>4
  <2> QED
    BY <1>2, <2>1, <2>2, <2>3, TouchedKeeps
<1> QED
  BY <1>5, <1>6 DEF FlagInv, Nested

LEMMA SetAgainKeeps ==
  ASSUME FlagInv, SetAgain PROVE FlagInv'
<1> DEFINE n    == Len(flags)
           top  == flags[n]
           rest == SubSeq(flags, 1, n - 1)
           bits == Differ(m_field, m_field')
<1>1. /\ flags \in Seq(Flags) /\ m_field \in SUBSET Bits /\ n \in Nat \ {0} /\ top \in Flags
  BY DEF SetAgain, FlagInv, FlagTypeOK
<1>2. top.m_mask \in SUBSET Bits
  BY <1>1 DEF Flags
<1>3. PICK value \in BOOLEAN : m_field' = Set(top.m_mask, value)
  BY DEF SetAgain
<1>4. flags' = Touch(rest, bits) \o <<top>> /\ ended' = NoFlag
  BY DEF SetAgain
<1> HIDE DEF top
<1>5. m_field' \in SUBSET Bits /\ \A b \in Bits \ top.m_mask : b \in m_field' <=> b \in m_field
  BY <1>1, <1>2, <1>3, SetBits
<1>6. bits \in SUBSET Bits
  BY <1>1, <1>5 DEF Differ
<1> HIDE DEF bits
<1>7. rest \in Seq(Flags) /\ Len(rest) = n - 1 /\ \A i \in 1 .. n - 1 : rest[i] = flags[i]
  BY <1>1, Below
<1> HIDE DEF rest
<1> DEFINE below == Touch(rest, bits)
<1>8. /\ below \in Seq(Flags) /\ Len(below) = n - 1
      /\ \A i \in 1 .. n - 1 : /\ rest[i] \in Flags
                               /\ below[i] = Touched(rest[i], bits)
                               /\ below[i].was = rest[i].was
  BY <1>6, <1>7, TouchAll
<1> HIDE DEF below
<1>9. /\ flags' \in Seq(Flags) /\ Len(flags') = n /\ flags'[n] = top
      /\ \A i \in 1 .. n - 1 : flags'[i] = below[i]
  <2>1. flags' = below \o <<top>> /\ <<top>> \in Seq(Flags) /\ Len(<<top>>) = 1
    BY <1>1, <1>4 DEF below
  <2> QED
    BY <1>1, <1>8, <2>1
<1>10. FlagTypeOK' /\ FlagsRestored'
  BY <1>4, <1>5, <1>9 DEF FlagTypeOK, FlagsRestored
<1>11. ASSUME NEW i \in 1 .. Len(flags') PROVE FlagKeeps(flags'[i], After(i)')
  <2>1. FlagKeeps(flags[i], After(i)) /\ i \in 1 .. n
    BY <1>9 DEF FlagInv, Nested
  <2>2. CASE i = n
    <3>1. After(i) = m_field /\ After(i)' = m_field' /\ flags'[i] = flags[i] /\ flags[i] = top
      BY <1>9, <2>2 DEF After, top
    <3> QED
      BY <1>5, <2>1, <3>1 DEF FlagKeeps
  <2>3. CASE i \in 1 .. n - 1
    <3>1. After(i)' = flags'[i + 1].was /\ After(i) = flags[i + 1].was
      BY <1>1, <1>9, <2>3 DEF After
    <3>2. flags'[i + 1].was = flags[i + 1].was
      <4>1. CASE i + 1 = n
        BY <1>9, <4>1 DEF top
      <4>2. CASE i + 1 \in 1 .. n - 1
        BY <1>7, <1>8, <1>9, <4>2
      <4> QED
        BY <1>1, <2>3, <4>1, <4>2
    <3>3. flags'[i] = Touched(flags[i], bits) /\ flags[i] \in Flags /\ After(i)' = After(i)
      BY <1>7, <1>8, <1>9, <2>3, <3>1, <3>2
    <3> QED
      BY <1>6, <2>1, <3>3, TouchedKeeps
  <2> QED
    BY <1>1, <2>1, <2>2, <2>3
<1> QED
  BY <1>10, <1>11 DEF FlagInv, Nested

(* Every step keeps the invariant.                                         *)
LEMMA FlagInvStep == FlagInv /\ [FlagNext]_flagVars => FlagInv'
<1> SUFFICES ASSUME FlagInv, [FlagNext]_flagVars PROVE FlagInv'
  OBVIOUS
<1>1. CASE UNCHANGED flagVars
  BY <1>1 DEF flagVars, FlagInv, FlagTypeOK, Nested, After, FlagsRestored
<1>2. CASE FlagNext
  BY <1>2, ConstructKeeps, DestroyFlagKeeps, SetAgainKeeps, WriteKeeps DEF FlagNext
<1> QED
  BY <1>1, <1>2

(* However flags are nested over the bits of a field, and whoever writes   *)
(* it meanwhile: a flag that goes gives its bits the value that its        *)
(* constructor has decided, and leaves all others alone.                   *)
THEOREM FlagsAreRestored == FlagSpec => []FlagsRestored
<1>1. FlagInv => FlagsRestored
  BY DEF FlagInv
<1> QED
  BY FlagInitially, FlagInvStep, <1>1, PTL DEF FlagSpec
ValuesInv == /\ part = "auto_flag" => FlagInv
             /\ part = "endian" => EndianInv

(* and the other parts of the program leave it alone.                      *)
LEMMA ValuesInvStep == ValuesInv /\ [Next]_allVars => ValuesInv'
<1> SUFFICES ASSUME ValuesInv, [Next]_allVars PROVE ValuesInv'
  OBVIOUS
<1>1. part' = part
  BY DEF Next, allVars
<1>2. ASSUME part = "auto_flag" PROVE FlagInv'
  <2>1. [FlagNext]_flagVars
    BY <1>2 DEF Next, allVars, otherVars
  <2> QED
    BY <1>2, <2>1, FlagInvStep DEF ValuesInv
<1>3. ASSUME part = "endian" PROVE EndianInv'
  <2>1. [EndianNext]_endianVars
    BY <1>3 DEF Next, allVars
  <2> QED
    BY <1>3, <2>1, EndianInvStep DEF ValuesInv
<1> QED
  BY <1>1, <1>2, <1>3 DEF ValuesInv

(* A flag that goes leaves its bits as it should, and a number arrives as  *)
(* it was sent, whatever the byte orders of the hosts.                     *)
THEOREM ValuesAreKept == Spec => []ValuesKept
<1>1. Init => ValuesInv
  BY FlagInitially, EndianInitially DEF Init, ValuesInv
<1>2. ValuesInv => ValuesKept
  BY DEF ValuesInv, ValuesKept, FlagInv, EndianInv
<1> QED
  BY <1>1, <1>2, ValuesInvStep, PTL DEF Spec
-----------------------------------------------------------------------------
USE PluginsAssumption

(* What makes PluginsUsable inductive: one library was loaded before all   *)
(* others that are there, everybody has entered its class there, and the   *)
(* lists of the others are empty.                                          *)
IsFirst(m) == m \in Loaded /\ \A k \in Loaded : <<m, k>> \in order
OrderFits ==
    /\ Loaded # {} => \E m \in Loaded : IsFirst(m)
    /\ \A m, k \in Libraries : <<m, k>> \in order /\ <<k, m>> \in order => m = k
    /\ \A m, k \in Libraries : <<m, k>> \in order => m \in Loaded /\ k \in Loaded
    /\ \A m \in Libraries : IsFirst(m) => \A k \in Loaded : lists[k] = m
ListsFit ==
    /\ \A m \in Loaded : loads[m] > 0
    /\ \A m \in Libraries : ~IsFirst(m) => classes[m] = Zero
    /\ \A m \in Libraries : IsFirst(m) => classes[m][m] = loads[m]
    /\ \A m, k \in Libraries : classes[m][k] <= loads[k]
LibrariesTyped ==
    /\ order \subseteq Loaded \X Loaded
    /\ handles \in [Libraries -> Nat] /\ loads \in [Libraries -> 0 .. MaxLoads]
    /\ lists \in [Libraries -> Libraries]
    /\ classes \in [Libraries -> [Libraries -> 0 .. MaxLoads]]
LibrariesFit == LibrariesTyped /\ OrderFits /\ ListsFit /\ LoadedWhileUsed

PluginsFit == IsFiniteSet(plugins)
PluginsInv ==
    /\ PluginsTypeOK /\ LibrariesFit /\ PluginsFit
    /\ HandlesCounted /\ OwnPluginsUsable
-----------------------------------------------------------------------------
(* No library has been counted at first.                                   *)
LEMMA CountTyped ==
  /\ 0 \in 0 .. MaxLoads /\ 0 \in 0 .. MaxKept /\ Zero \in [Libraries -> 0 .. MaxLoads]
  /\ Zero \in [Libraries -> 0 .. MaxKept] /\ Zero \in [Libraries -> Nat]
  BY DEF PluginsAssumption, Zero

(* At most one library was loaded before all others.                       *)
LEMMA FirstIsOne ==
  ASSUME OrderFits, NEW m \in Libraries, NEW k \in Libraries, IsFirst(m), IsFirst(k)
  PROVE  m = k
  BY DEF OrderFits, IsFirst

(* Where a library that is loaded enters its class.                        *)
LEMMA FirstFound ==
  ASSUME OrderFits, NEW l \in Libraries
  PROVE  /\ Loaded = {} => First(l) = l
         /\ Loaded # {} => IsFirst(First(l)) /\ First(l) \in Libraries
<1>1. CASE Loaded = {}
  BY <1>1 DEF First
<1>2. CASE Loaded # {}
  <2> DEFINE m == CHOOSE m \in Loaded : \A k \in Loaded : <<m, k>> \in order
  <2>1. \E m1 \in Loaded : \A k \in Loaded : <<m1, k>> \in order
    BY <1>2 DEF OrderFits, IsFirst
  <2>2. m \in Loaded /\ \A k \in Loaded : <<m, k>> \in order
    BY <2>1
  <2>3. First(l) = m
    BY <1>2 DEF First
  <2> HIDE DEF m
  <2> QED
    BY <1>2, <2>2, <2>3 DEF IsFirst, Loaded
<1> QED
  BY <1>1, <1>2

(* dlopen() of a library that is not there.                                *)
LEMMA LoadKeeps ==
  ASSUME LibrariesFit, NEW l \in Libraries, l \notin Loaded, Open(l)
  PROVE  /\ LibrariesFit'
         /\ Loaded' = Loaded \cup {l}
         /\ loads' = [loads EXCEPT ![l] = @ + 1]
         /\ handles' = [handles EXCEPT ![l] = @ + 1]
<1>0. PICK f \in Libraries : f = First(l)
  BY FirstFound DEF LibrariesFit
<1>1. /\ handles' = [handles EXCEPT ![l] = @ + 1] /\ loads[l] < MaxLoads
      /\ order' = order \cup ((Loaded \cup {l}) \X {l}) /\ loads' = [loads EXCEPT ![l] = @ + 1]
      /\ lists' = [lists EXCEPT ![l] = f]
      /\ classes' = [classes EXCEPT ![f][l] = IF @ = 0 THEN loads[l] + 1 ELSE @]
  BY <1>0 DEF Open, Enter, Plus
<1>2. (Loaded = {} => f = l) /\ (Loaded # {} => IsFirst(f) /\ f \in Loaded /\ f # l)
  BY <1>0, FirstFound DEF LibrariesFit, IsFirst
<1>3. \A m, k \in Libraries : <<m, k>> \in order' <=> <<m, k>> \in order \/ (k = l /\ m \in Loaded \cup {l})
  BY <1>1
<1>4. Loaded' = Loaded \cup {l} /\ Loaded \subseteq Libraries
  BY <1>3 DEF Loaded
<1>5. IsFirst(f)'
  <2> SUFFICES ASSUME NEW k \in Loaded' PROVE <<f, k>> \in order'
    BY <1>2, <1>4 DEF IsFirst
  <2> QED
    BY <1>2, <1>3, <1>4 DEF IsFirst
<1>6. \A m, k \in Libraries : <<m, k>> \in order' /\ <<k, m>> \in order' => m = k
  BY <1>3 DEF LibrariesFit, OrderFits
<1>7. \A m \in Libraries : IsFirst(m)' <=> m = f
  BY <1>4, <1>5, <1>6 DEF IsFirst
<1>8. OrderFits'
  <2>1. \A m, k \in Libraries : <<m, k>> \in order' => m \in Loaded' /\ k \in Loaded'
    BY <1>3, <1>4 DEF LibrariesFit, OrderFits
  <2>2. \A k \in Loaded' : lists'[k] = f
    BY <1>1, <1>2, <1>4 DEF LibrariesFit, LibrariesTyped, OrderFits
  <2> QED
    BY <1>2, <1>4, <1>5, <1>6, <1>7, <2>1, <2>2 DEF OrderFits
<1>9. LibrariesTyped'
  <2>1. order' \subseteq Loaded' \X Loaded'
    BY <1>1, <1>4 DEF LibrariesFit, LibrariesTyped
  <2>2. loads[l] + 1 \in 0 .. MaxLoads
    BY <1>1 DEF LibrariesFit, LibrariesTyped, PluginsAssumption
  <2>3. /\ handles' \in [Libraries -> Nat] /\ loads' \in [Libraries -> 0 .. MaxLoads]
        /\ lists' \in [Libraries -> Libraries]
    BY <1>1, <2>2 DEF LibrariesFit, LibrariesTyped
  <2>4. classes' \in [Libraries -> [Libraries -> 0 .. MaxLoads]]
    BY <1>1, <2>2 DEF LibrariesFit, LibrariesTyped
  <2> QED
    BY <2>1, <2>3, <2>4 DEF LibrariesTyped
<1>10. ListsFit'
  <2>1. \A m \in Loaded' : loads'[m] > 0
    BY <1>1, <1>4 DEF LibrariesFit, LibrariesTyped, ListsFit
  <2>2. ASSUME NEW m \in Libraries, ~IsFirst(m)' PROVE classes'[m] = Zero
    <3>1. m # f /\ ~IsFirst(m)
      BY <1>2, <1>7, <2>2, FirstIsOne DEF LibrariesFit, IsFirst
    <3> QED
      BY <1>1, <3>1 DEF LibrariesFit, LibrariesTyped, ListsFit
  <2>3. classes'[f][f] = loads'[f]
    <3>1. CASE f = l
      <4>1. classes[l][l] = 0
        BY <1>2, <3>1 DEF LibrariesFit, ListsFit, IsFirst, Zero
      <4> QED
        BY <1>1, <3>1, <4>1 DEF LibrariesFit, LibrariesTyped
    <3>2. CASE f # l
      BY <1>1, <1>2, <3>2 DEF LibrariesFit, LibrariesTyped, ListsFit
    <3> QED
      BY <3>1, <3>2
  <2>4. ASSUME NEW m \in Libraries, NEW k \in Libraries PROVE classes'[m][k] <= loads'[k]
    <3>1. classes[m][k] <= loads[k] /\ classes[m][k] \in Nat /\ loads[k] \in Nat
      BY DEF LibrariesFit, LibrariesTyped, ListsFit
    <3> QED
      BY <1>1, <3>1 DEF LibrariesFit, LibrariesTyped
  <2> QED
    BY <1>7, <2>1, <2>2, <2>3, <2>4 DEF ListsFit
<1>11. LoadedWhileUsed'
  <2> SUFFICES ASSUME NEW m \in Libraries
               PROVE  m \in Loaded' <=> handles'[m] > 0 \/ \E k \in Loaded' \ {m} : lists'[k] = m
    BY DEF LoadedWhileUsed
  <2>1. CASE m = l
    BY <1>1, <1>4, <2>1 DEF LibrariesFit, LibrariesTyped
  <2>2. CASE m # l
    <3>1. m \in Loaded <=> handles[m] > 0 \/ \E k \in Loaded \ {m} : lists[k] = m
      BY DEF LibrariesFit, LoadedWhileUsed
    <3>2. handles'[m] = handles[m] /\ \A k \in Loaded : lists'[k] = lists[k]
      BY <1>1, <1>4, <2>2 DEF LibrariesFit, LibrariesTyped
    <3>3. lists'[l] = m => m \in Loaded
      BY <1>1, <1>2, <2>2 DEF LibrariesFit, LibrariesTyped
    <3> QED
      BY <1>4, <2>2, <3>1, <3>2, <3>3
  <2> QED
    BY <2>1, <2>2
<1> QED
  BY <1>1, <1>4, <1>8, <1>9, <1>10, <1>11 DEF LibrariesFit

(* Any dlopen(): nothing but the handles changes if the library is there.  *)
LEMMA OpenKeeps ==
  ASSUME LibrariesFit, NEW l \in Libraries, Open(l)
  PROVE  /\ LibrariesFit' /\ Loaded' = Loaded \cup {l}
         /\ handles' = [handles EXCEPT ![l] = @ + 1]
         /\ \A m \in Libraries : /\ m \in Loaded => loads'[m] = loads[m]
                                 /\ loads'[m] >= loads[m]
<1>1. CASE l \notin Loaded
  <2>1. /\ LibrariesFit' /\ Loaded' = Loaded \cup {l}
        /\ loads' = [loads EXCEPT ![l] = @ + 1] /\ handles' = [handles EXCEPT ![l] = @ + 1]
    BY <1>1, LoadKeeps
  <2>2. ASSUME NEW m \in Libraries
        PROVE  (m \in Loaded => loads'[m] = loads[m]) /\ loads'[m] >= loads[m]
    <3>1. loads[m] \in Nat /\ loads \in [Libraries -> 0 .. MaxLoads]
      BY DEF LibrariesFit, LibrariesTyped
    <3> QED
      BY <1>1, <2>1, <3>1
  <2> QED
    BY <2>1, <2>2
<1>2. CASE l \in Loaded
  <2>1. handles' = [handles EXCEPT ![l] = @ + 1] /\ UNCHANGED <<order, loads, lists, classes>>
    BY <1>2 DEF Open, Plus
  <2>2. Loaded' = Loaded
    BY <2>1 DEF Loaded
  <2>3. OrderFits' /\ ListsFit'
    BY <2>1, <2>2 DEF LibrariesFit, OrderFits, ListsFit, IsFirst
  <2>4. LibrariesTyped'
    BY <2>1, <2>2 DEF LibrariesFit, LibrariesTyped
  <2>5. LoadedWhileUsed'
    BY <1>2, <2>1, <2>2 DEF LibrariesFit, LibrariesTyped, LoadedWhileUsed
  <2> QED
    BY <1>2, <2>1, <2>2, <2>3, <2>4, <2>5 DEF LibrariesFit, LibrariesTyped
<1> QED
  BY <1>1, <1>2

(* Which libraries go with a handle: those without any, but the first one  *)
(* only with all others.                                                   *)
LEMMA GoneWhat ==
  ASSUME LibrariesFit, NEW l \in Libraries, handles[l] > 0, handles' = [handles EXCEPT ![l] = @ - 1]
  PROVE  \A m \in Libraries : m \in Gone(l) <=>
            m \in Loaded /\ handles'[m] = 0 /\ (IsFirst(m) => \A k \in Loaded : handles'[k] = 0)
<1> DEFINE unheld == {m \in Loaded : handles[m] = IF m = l THEN 1 ELSE 0}
           users(m) == {k \in Loaded \ {m} : lists[k] = m}
<1>1. \A m \in Libraries : m \in unheld <=> m \in Loaded /\ handles'[m] = 0
  BY DEF LibrariesFit, LibrariesTyped
<1>2. \A m \in Libraries : IsFirst(m) => users(m) = Loaded \ {m}
  BY DEF LibrariesFit, OrderFits
<1>3. ASSUME NEW m \in Loaded, ~IsFirst(m) PROVE users(m) = {}
  <2>1. PICK f \in Loaded : IsFirst(f)
    BY DEF LibrariesFit, OrderFits
  <2>2. \A k \in Loaded : lists[k] = f
    BY <2>1 DEF LibrariesFit, OrderFits, Loaded
  <2> QED
    BY <1>3, <2>1, <2>2
<1>4. \A m \in Libraries : m \in Gone(l) <=> m \in unheld /\ \A k \in users(m) : k \in unheld /\ users(k) = {}
  BY DEF Gone
<1> HIDE DEF unheld, users
<1> SUFFICES ASSUME NEW m \in Libraries
             PROVE  m \in Gone(l) <=>
                      m \in Loaded /\ handles'[m] = 0 /\ (IsFirst(m) => \A k \in Loaded : handles'[k] = 0)
  OBVIOUS
<1>5. CASE IsFirst(m)
  <2>1. \A k \in Loaded \ {m} : users(k) = {}
    BY <1>3, <1>5, FirstIsOne DEF LibrariesFit, Loaded
  <2>2. m \in Gone(l) <=> m \in unheld /\ \A k \in Loaded \ {m} : k \in unheld
    BY <1>2, <1>4, <1>5, <2>1
  <2>3. m \in Loaded /\ \A k \in Loaded : k \in Libraries
    BY <1>5 DEF IsFirst, Loaded
  <2> QED
    BY <1>1, <1>5, <2>2, <2>3
<1>6. CASE ~IsFirst(m)
  BY <1>1, <1>3, <1>4, <1>6
<1> QED
  BY <1>5, <1>6

(* dlclose(): the libraries that go are Gone, and what is left still fits. *)
LEMMA CloseHandleKeeps ==
  ASSUME LibrariesFit, NEW l \in Libraries, handles[l] > 0, CloseHandle(l)
  PROVE  /\ LibrariesFit' /\ Loaded' = Loaded \ Gone(l)
         /\ handles' = [handles EXCEPT ![l] = @ - 1] /\ loads' = loads
<1>1. /\ handles' = [handles EXCEPT ![l] = @ - 1] /\ UNCHANGED <<loads, lists>>
      /\ order' = order \cap ((Loaded \ Gone(l)) \X (Loaded \ Gone(l)))
      /\ classes' = [m \in Libraries |-> IF m \in Gone(l) THEN Zero ELSE classes[m]]
  BY DEF CloseHandle, Minus
<1>2. \A m \in Libraries : m \in Gone(l) <=>
            m \in Loaded /\ handles'[m] = 0 /\ (IsFirst(m) => \A k \in Loaded : handles'[k] = 0)
  BY <1>1, GoneWhat
<1>3. \A m, k \in Libraries : <<m, k>> \in order' <=>
            <<m, k>> \in order /\ m \in Loaded \ Gone(l) /\ k \in Loaded \ Gone(l)
  BY <1>1
<1>4. Loaded' = Loaded \ Gone(l) /\ Loaded \subseteq Libraries
  BY <1>3 DEF Loaded
<1>5. \A m \in Libraries : IsFirst(m) /\ m \in Gone(l) => Loaded' = {}
  <2> SUFFICES ASSUME NEW m \in Libraries, IsFirst(m), m \in Gone(l), NEW k \in Loaded PROVE k \in Gone(l)
    BY <1>4
  <2>1. \A j \in Loaded : handles'[j] = 0
    BY <1>2
  <2> QED
    BY <1>2, <1>4, <2>1
<1>6. \A m \in Libraries : IsFirst(m)' <=> IsFirst(m) /\ m \notin Gone(l)
  <2>1. ASSUME NEW m \in Libraries, IsFirst(m), m \notin Gone(l) PROVE IsFirst(m)'
    BY <1>3, <1>4, <2>1 DEF IsFirst
  <2>2. ASSUME NEW m \in Libraries, IsFirst(m)' PROVE IsFirst(m) /\ m \notin Gone(l)
    <3>1. m \in Loaded /\ m \notin Gone(l)
      BY <1>4, <2>2 DEF IsFirst
    <3>2. PICK f \in Loaded : IsFirst(f)
      BY <3>1 DEF LibrariesFit, OrderFits
    <3>3. f \in Loaded'
      BY <1>4, <1>5, <2>2, <3>2 DEF IsFirst
    <3>4. <<m, f>> \in order /\ <<f, m>> \in order
      BY <1>3, <1>4, <2>2, <3>1, <3>2, <3>3 DEF IsFirst
    <3> QED
      BY <1>4, <3>1, <3>2, <3>4 DEF LibrariesFit, OrderFits
  <2> QED
    BY <2>1, <2>2
<1>7. OrderFits'
  <2>1. Loaded' # {} => \E m \in Loaded' : IsFirst(m)'
    BY <1>4, <1>5, <1>6 DEF LibrariesFit, OrderFits
  <2>2. /\ \A m, k \in Libraries : <<m, k>> \in order' /\ <<k, m>> \in order' => m = k
        /\ \A m, k \in Libraries : <<m, k>> \in order' => m \in Loaded' /\ k \in Loaded'
    BY <1>3, <1>4 DEF LibrariesFit, OrderFits
  <2>3. \A m \in Libraries : IsFirst(m)' => \A k \in Loaded' : lists'[k] = m
    BY <1>1, <1>4, <1>6 DEF LibrariesFit, OrderFits
  <2> QED
    BY <2>1, <2>2, <2>3 DEF OrderFits
<1>8. LibrariesTyped'
  <2>1. order' \subseteq Loaded' \X Loaded'
    BY <1>1, <1>4
  <2>2. handles' \in [Libraries -> Nat]
    BY <1>1 DEF LibrariesFit, LibrariesTyped
  <2>3. classes' \in [Libraries -> [Libraries -> 0 .. MaxLoads]]
    BY <1>1, CountTyped DEF LibrariesFit, LibrariesTyped
  <2> QED
    BY <1>1, <2>1, <2>2, <2>3 DEF LibrariesFit, LibrariesTyped
<1>9. ListsFit'
  <2>1. \A m \in Loaded' : loads'[m] > 0
    BY <1>1, <1>4 DEF LibrariesFit, ListsFit
  <2>2. \A m \in Libraries : ~IsFirst(m)' => classes'[m] = Zero
    BY <1>1, <1>6 DEF LibrariesFit, ListsFit
  <2>3. \A m \in Libraries : IsFirst(m)' => classes'[m][m] = loads'[m]
    BY <1>1, <1>6 DEF LibrariesFit, ListsFit
  <2>4. ASSUME NEW m \in Libraries, NEW k \in Libraries PROVE classes'[m][k] <= loads'[k]
    <3>1. classes[m][k] <= loads[k] /\ loads[k] >= 0 /\ Zero[k] = 0
      BY DEF LibrariesFit, LibrariesTyped, ListsFit, Zero
    <3> QED
      BY <1>1, <3>1
  <2> QED
    BY <2>1, <2>2, <2>3, <2>4 DEF ListsFit
<1>10. LoadedWhileUsed'
  <2> SUFFICES ASSUME NEW m \in Libraries
               PROVE  m \in Loaded' <=> handles'[m] > 0 \/ \E k \in Loaded' \ {m} : lists'[k] = m
    BY DEF LoadedWhileUsed
  <2>1. handles'[m] \in Nat
    BY <1>8 DEF LibrariesTyped
  <2>2. ASSUME m \in Loaded', handles'[m] = 0 PROVE \E k \in Loaded' \ {m} : lists'[k] = m
    <3>1. IsFirst(m)
      BY <1>2, <1>4, <2>2
    <3>2. PICK k \in Loaded : handles'[k] # 0
      BY <1>2, <1>4, <2>2
    <3>3. k # m /\ k \in Loaded' /\ lists'[k] = m
      BY <1>1, <1>2, <1>4, <2>2, <3>1, <3>2 DEF LibrariesFit, OrderFits
    <3> QED
      BY <3>3
  <2>3. ASSUME handles'[m] > 0 PROVE m \in Loaded'
    <3>1. handles[m] > 0
      BY <1>1, <2>3 DEF LibrariesFit, LibrariesTyped
    <3>2. m \in Loaded
      BY <3>1 DEF LibrariesFit, LoadedWhileUsed
    <3> QED
      BY <1>2, <1>4, <2>3, <3>2
  <2>4. ASSUME NEW k \in Loaded' \ {m}, lists'[k] = m PROVE m \in Loaded'
    <3>1. PICK f \in Loaded' : IsFirst(f)'
      BY <1>7 DEF OrderFits
    <3>2. lists'[k] = f
      BY <1>4, <1>7, <3>1 DEF OrderFits
    <3> QED
      BY <2>4, <3>1, <3>2
  <2> QED
    BY <2>1, <2>2, <2>3, <2>4
<1> QED
  BY <1>1, <1>4, <1>7, <1>8, <1>9, <1>10 DEF LibrariesFit
-----------------------------------------------------------------------------
(* The plugins that have a handle of a library.                            *)
Holders(l) == {p \in plugins : p[1] = l}

(* There are finitely many of them.                                        *)
LEMMA HoldersFinite ==
  ASSUME PluginsFit, NEW l
  PROVE  IsFiniteSet(Holders(l)) /\ Cardinality(Holders(l)) \in Nat
<1>1. Holders(l) \in SUBSET plugins
  BY DEF Holders
<1>2. IsFiniteSet(Holders(l))
  BY <1>1, FS_Subset DEF PluginsFit
<1> QED
  BY <1>2, FS_CardinalityType

(* Nothing is loaded at first.                                             *)
LEMMA PluginsInitially == PluginsInit => PluginsInv
<1> SUFFICES ASSUME PluginsInit PROVE PluginsInv
  OBVIOUS
<1>1. Loaded = {}
  BY DEF PluginsInit, Loaded
<1>2. PluginsTypeOK
  BY <1>1, CountTyped DEF PluginsInit, PluginsTypeOK
<1>3. LibrariesFit
  <2>1. LibrariesTyped
    BY <1>2 DEF PluginsTypeOK, LibrariesTyped
  <2>2. OrderFits /\ ListsFit /\ LoadedWhileUsed
    BY <1>1 DEF PluginsInit, OrderFits, ListsFit, LoadedWhileUsed, IsFirst, Zero
  <2> QED
    BY <2>1, <2>2 DEF LibrariesFit
<1>4. PluginsFit /\ OwnPluginsUsable
  BY FS_EmptySet DEF PluginsInit, PluginsFit, OwnPluginsUsable
<1>5. HandlesCounted
  <2>1. \A l \in Libraries : {p \in plugins : p[1] = l} = {}
    BY DEF PluginsInit
  <2> QED
    BY <2>1, FS_EmptySet DEF PluginsInit, HandlesCounted, Zero, PluginsAssumption
<1> QED
  BY <1>2, <1>3, <1>4, <1>5 DEF PluginsInv

(* A plugin that lives has the handle of a library that is there.          *)
LEMMA HeldLoaded ==
  ASSUME PluginsInv, NEW p \in plugins
  PROVE  p[1] \in Loaded /\ handles[p[1]] > 0 /\ p[1] \in Libraries /\ p[2] \in Libraries
         /\ p[3] \in 1 .. MaxLoads
<1>1. p[1] \in Libraries /\ p[2] \in Libraries /\ p[3] \in 1 .. MaxLoads
  BY DEF PluginsInv, PluginsTypeOK
<1>2. IsFiniteSet(Holders(p[1])) /\ Cardinality(Holders(p[1])) \in Nat /\ Holders(p[1]) # {}
  BY HoldersFinite DEF Holders, PluginsInv
<1>3. Cardinality(Holders(p[1])) # 0
  BY <1>2, FS_EmptySet
<1>4. /\ handles[p[1]] = kept[p[1]] + mislaid[p[1]] + (IF making = p[1] THEN 1 ELSE 0)
                                      + Cardinality(Holders(p[1]))
      /\ kept[p[1]] \in 0 .. MaxKept /\ mislaid[p[1]] \in 0 .. MaxKept
  BY <1>1 DEF PluginsInv, PluginsTypeOK, HandlesCounted, Holders
<1>5. handles[p[1]] > 0
  BY <1>2, <1>3, <1>4
<1> QED
  BY <1>1, <1>5 DEF PluginsInv, LibrariesFit, LoadedWhileUsed

(* What the program has handles for.                                       *)
Others(l) == kept[l] + mislaid[l] + (IF making = l THEN 1 ELSE 0)

(* dlopen() by somebody who counts for one handle from now on.             *)
LEMMA OpenedBy ==
  ASSUME PluginsInv, NEW l \in Libraries, Open(l), crashed = NoLibrary,
         UNCHANGED <<plugins, crashed>>,
         kept' \in [Libraries -> 0 .. MaxKept], mislaid' \in [Libraries -> 0 .. MaxKept],
         making' \in Libraries \cup {NoLibrary},
         \A m \in Libraries : Others(m)' = Others(m) + (IF m = l THEN 1 ELSE 0)
  PROVE  PluginsInv'
<1>1. /\ LibrariesFit' /\ Loaded' = Loaded \cup {l}
      /\ handles' = [handles EXCEPT ![l] = @ + 1]
      /\ \A m \in Libraries : /\ m \in Loaded => loads'[m] = loads[m]
                              /\ loads'[m] >= loads[m]
  BY OpenKeeps DEF PluginsInv
<1>2. PluginsTypeOK'
  BY <1>1 DEF PluginsInv, PluginsTypeOK, LibrariesFit, LibrariesTyped
<1>3. PluginsFit'
  BY DEF PluginsInv, PluginsFit
<1>4. HandlesCounted'
  <2> SUFFICES ASSUME NEW m \in Libraries PROVE handles'[m] = Others(m)' + Cardinality(Holders(m)')
    BY DEF HandlesCounted, Others, Holders
  <2>1. Holders(m)' = Holders(m)
    BY DEF Holders
  <2>2. handles[m] = Others(m) + Cardinality(Holders(m))
    BY DEF PluginsInv, HandlesCounted, Others, Holders
  <2>3. Cardinality(Holders(m)) \in Nat /\ Others(m) \in Nat
    BY HoldersFinite DEF PluginsInv, PluginsTypeOK, Others
  <2> QED
    BY <1>1, <2>1, <2>2, <2>3 DEF PluginsInv, LibrariesFit, LibrariesTyped
<1>5. OwnPluginsUsable'
  <2> SUFFICES ASSUME NEW p \in plugins, p[1] = p[2] PROVE There(p[2], p[3])'
    BY DEF OwnPluginsUsable
  <2>1. p[2] \in Loaded /\ loads[p[2]] = p[3]
    BY DEF PluginsInv, OwnPluginsUsable, There
  <2> QED
    BY <1>1, <2>1, HeldLoaded DEF There
<1> QED
  BY <1>1, <1>2, <1>3, <1>4, <1>5 DEF PluginsInv

(* The three calls that open a library.                                    *)
LEMMA GetSymbolKeeps ==
  ASSUME PluginsInv, NEW l \in Libraries,
         GetSymbol(l) \/ NoSymbol(l) \/ CallCreate(l)
  PROVE  PluginsInv'
<1>1. /\ crashed = NoLibrary /\ making = NoLibrary /\ Open(l) /\ UNCHANGED <<plugins, crashed>>
      /\ NoLibrary \notin Libraries /\ MaxKept \in Nat
      /\ kept \in [Libraries -> 0 .. MaxKept] /\ mislaid \in [Libraries -> 0 .. MaxKept]
  BY DEF GetSymbol, NoSymbol, CallCreate, Ready, PluginsAssumption, PluginsInv, PluginsTypeOK
<1>2. CASE GetSymbol(l)
  <2>1. kept[l] < MaxKept /\ kept' = [kept EXCEPT ![l] = @ + 1] /\ UNCHANGED <<mislaid, making>>
    BY <1>2 DEF GetSymbol, Plus
  <2>2. kept[l] + 1 \in 0 .. MaxKept
    BY <1>1, <2>1
  <2>3. kept' \in [Libraries -> 0 .. MaxKept]
    BY <1>1, <2>1, <2>2
  <2>4. \A m \in Libraries : Others(m)' = Others(m) + (IF m = l THEN 1 ELSE 0)
    BY <1>1, <2>1 DEF Others
  <2> QED
    BY <1>1, <2>1, <2>3, <2>4, OpenedBy
<1>3. CASE NoSymbol(l)
  <2>1. mislaid[l] < MaxKept /\ mislaid' = [mislaid EXCEPT ![l] = @ + 1] /\ UNCHANGED <<kept, making>>
    BY <1>3 DEF NoSymbol, Plus
  <2>2. mislaid[l] + 1 \in 0 .. MaxKept
    BY <1>1, <2>1
  <2>3. mislaid' \in [Libraries -> 0 .. MaxKept]
    BY <1>1, <2>1, <2>2
  <2>4. \A m \in Libraries : Others(m)' = Others(m) + (IF m = l THEN 1 ELSE 0)
    BY <1>1, <2>1 DEF Others
  <2> QED
    BY <1>1, <2>1, <2>3, <2>4, OpenedBy
<1>4. CASE CallCreate(l)
  <2>1. making' = l /\ UNCHANGED <<kept, mislaid>>
    BY <1>4 DEF CallCreate
  <2>2. \A m \in Libraries : Others(m)' = Others(m) + (IF m = l THEN 1 ELSE 0)
    BY <1>1, <2>1 DEF Others
  <2> QED
    BY <1>1, <2>1, <2>2, OpenedBy
<1> QED
  BY <1>2, <1>3, <1>4

(* dlclose() by somebody who has counted for one handle.                   *)
LEMMA ClosedBy ==
  ASSUME PluginsInv, NEW l \in Libraries, CloseHandle(l), handles[l] > 0,
         crashed' = NoLibrary \/ crashed' \in Gone(l), plugins' \subseteq plugins,
         kept' \in [Libraries -> 0 .. MaxKept], mislaid' \in [Libraries -> 0 .. MaxKept],
         making' \in Libraries \cup {NoLibrary},
         \A m \in Libraries : Others(m)' + Cardinality(Holders(m)') =
             Others(m) + Cardinality(Holders(m)) - (IF m = l THEN 1 ELSE 0)
  PROVE  PluginsInv'
<1>1. /\ LibrariesFit' /\ Loaded' = Loaded \ Gone(l)
      /\ handles' = [handles EXCEPT ![l] = @ - 1] /\ loads' = loads
  BY CloseHandleKeeps DEF PluginsInv
<1>2. PluginsTypeOK'
  <2>1. Gone(l) \subseteq Libraries
    BY DEF Gone, Loaded
  <2>2. /\ order' \subseteq Loaded' \X Loaded'
        /\ handles' \in [Libraries -> Nat] /\ loads' \in [Libraries -> 0 .. MaxLoads]
        /\ lists' \in [Libraries -> Libraries]
        /\ classes' \in [Libraries -> [Libraries -> 0 .. MaxLoads]]
    BY <1>1 DEF LibrariesFit, LibrariesTyped
  <2>3. /\ plugins' \subseteq Libraries \X Libraries \X (1 .. MaxLoads)
        /\ crashed' \in Libraries \cup {NoLibrary}
    BY <2>1 DEF PluginsInv, PluginsTypeOK
  <2> QED
    BY <2>2, <2>3 DEF PluginsTypeOK
<1>3. PluginsFit'
  <2>1. IsFiniteSet(plugins')
    BY FS_Subset DEF PluginsInv, PluginsFit
  <2> QED
    BY <1>1, <2>1 DEF PluginsInv, PluginsFit
<1>4. HandlesCounted'
  <2> SUFFICES ASSUME NEW m \in Libraries PROVE handles'[m] = Others(m)' + Cardinality(Holders(m)')
    BY DEF HandlesCounted, Others, Holders
  <2>1. handles[m] = Others(m) + Cardinality(Holders(m))
    BY DEF PluginsInv, HandlesCounted, Others, Holders
  <2>2. Cardinality(Holders(m)) \in Nat /\ Others(m) \in Nat
    BY HoldersFinite DEF PluginsInv, PluginsTypeOK, Others
  <2>3. handles'[m] = handles[m] - (IF m = l THEN 1 ELSE 0)
    BY <1>1 DEF PluginsInv, LibrariesFit, LibrariesTyped
  <2> QED
    BY <2>1, <2>2, <2>3
<1>5. OwnPluginsUsable'
  <2> SUFFICES ASSUME NEW p \in plugins', p[1] = p[2] PROVE There(p[2], p[3])'
    BY DEF OwnPluginsUsable
  <2>1. p \in plugins /\ p[1] \in Libraries /\ loads[p[2]] = p[3]
    BY HeldLoaded DEF PluginsInv, OwnPluginsUsable, There
  <2>2. p[1] \in Loaded'
    <3> DEFINE m == p[1]
    <3>1. IsFiniteSet(Holders(m)') /\ Cardinality(Holders(m)') \in Nat
      <4>1. Holders(m)' = {q \in plugins' : q[1] = m}
        BY DEF Holders
      <4>2. Holders(m)' \in SUBSET plugins'
        BY <4>1
      <4> QED
        BY <1>3, <4>2, FS_Subset, FS_CardinalityType DEF PluginsFit
    <3>2. Holders(m)' # {}
      BY DEF Holders
    <3>3. Cardinality(Holders(m)') > 0
      BY <3>1, <3>2, FS_EmptySet
    <3>4. handles'[m] = Others(m)' + Cardinality(Holders(m)')
      BY <1>4, <2>1 DEF HandlesCounted, Others, Holders
    <3>5. Others(m)' \in Nat
      BY <2>1 DEF Others
    <3>6. handles'[m] > 0
      BY <3>1, <3>3, <3>4, <3>5
    <3> HIDE DEF m
    <3>7. m \in Loaded'
      BY <1>1, <2>1, <3>6 DEF LibrariesFit, LoadedWhileUsed, m
    <3> QED
      BY <3>7 DEF m
  <2> QED
    BY <1>1, <2>1, <2>2 DEF There
<1> QED
  BY <1>1, <1>2, <1>3, <1>4, <1>5 DEF PluginsInv

(* Somebody who has a handle counts for it.                                *)
LEMMA HandleHeld ==
  ASSUME PluginsInv, NEW l \in Libraries, kept[l] > 0 \/ making = l
  PROVE  handles[l] > 0
<1>1. handles[l] = Others(l) + Cardinality(Holders(l)) /\ Cardinality(Holders(l)) \in Nat
  BY HoldersFinite DEF PluginsInv, HandlesCounted, Others, Holders
<1>2. Others(l) \in Nat /\ Others(l) > 0
  BY DEF PluginsInv, PluginsTypeOK, Others
<1> QED
  BY <1>1, <1>2

(* The program gives a symbol back, and the handle with it.                *)
LEMMA DropSymbolKeeps ==
  ASSUME PluginsInv, NEW l \in Libraries, DropSymbol(l) PROVE PluginsInv'
<1>1. /\ crashed' = NoLibrary /\ kept[l] > 0 /\ CloseHandle(l) /\ handles[l] > 0
      /\ kept' = [kept EXCEPT ![l] = @ - 1] /\ UNCHANGED <<plugins, mislaid, making>>
      /\ kept \in [Libraries -> 0 .. MaxKept] /\ mislaid \in [Libraries -> 0 .. MaxKept]
      /\ making \in Libraries \cup {NoLibrary} /\ MaxKept \in Nat
  BY HandleHeld DEF DropSymbol, Ready, Minus, PluginsInv, PluginsTypeOK, PluginsAssumption
<1>2. kept' \in [Libraries -> 0 .. MaxKept]
  <2>1. kept[l] - 1 \in 0 .. MaxKept
    BY <1>1
  <2> QED
    BY <1>1, <2>1
<1>3. ASSUME NEW m \in Libraries
      PROVE  Others(m)' + Cardinality(Holders(m)') =
                Others(m) + Cardinality(Holders(m)) - (IF m = l THEN 1 ELSE 0)
  <2>1. Holders(m)' = Holders(m) /\ Cardinality(Holders(m)) \in Nat
    BY <1>1, HoldersFinite DEF Holders, PluginsInv
  <2>2. Others(m)' = Others(m) - (IF m = l THEN 1 ELSE 0) /\ Others(m) \in Nat
    BY <1>1 DEF Others
  <2> QED
    BY <2>1, <2>2
<1> QED
  BY <1>1, <1>2, <1>3, ClosedBy

(* create() throws and closes the handle that it had opened.               *)
LEMMA CreateFailsKeeps == ASSUME PluginsInv, CreateFails PROVE PluginsInv'
<1>1. PICK l \in Libraries : l = making
  BY DEF CreateFails, PluginsInv, PluginsTypeOK
<1>2. /\ crashed' = NoLibrary /\ CloseHandle(l) /\ handles[l] > 0
      /\ making' = NoLibrary /\ UNCHANGED <<plugins, kept, mislaid>>
      /\ kept \in [Libraries -> 0 .. MaxKept] /\ mislaid \in [Libraries -> 0 .. MaxKept]
      /\ MaxKept \in Nat /\ NoLibrary \notin Libraries
  BY <1>1, HandleHeld DEF CreateFails, PluginsInv, PluginsTypeOK, PluginsAssumption
<1>3. ASSUME NEW m \in Libraries
      PROVE  Others(m)' + Cardinality(Holders(m)') =
                Others(m) + Cardinality(Holders(m)) - (IF m = l THEN 1 ELSE 0)
  <2>1. Holders(m)' = Holders(m) /\ Cardinality(Holders(m)) \in Nat
    BY <1>2, HoldersFinite DEF Holders, PluginsInv
  <2>2. Others(m)' = Others(m) - (IF m = l THEN 1 ELSE 0) /\ Others(m) \in Nat
    BY <1>1, <1>2 DEF Others
  <2> QED
    BY <2>1, <2>2
<1> QED
  BY <1>2, <1>3, ClosedBy

(* A plugin is deleted, and closes the handle that it had.                 *)
LEMMA DeletePluginKeeps ==
  ASSUME PluginsInv, NEW p \in plugins, DeletePlugin(p) PROVE PluginsInv'
<1>1. PICK l \in Libraries : l = p[1]
  BY HeldLoaded
<1>2. /\ CloseHandle(l) /\ handles[l] > 0 /\ plugins' = plugins \ {p}
      /\ crashed' = NoLibrary \/ crashed' \in Gone(l)
      /\ UNCHANGED <<kept, mislaid, making>>
      /\ kept \in [Libraries -> 0 .. MaxKept] /\ mislaid \in [Libraries -> 0 .. MaxKept]
      /\ MaxKept \in Nat /\ making \in Libraries \cup {NoLibrary}
  BY <1>1, HeldLoaded DEF DeletePlugin, PluginsInv, PluginsTypeOK, PluginsAssumption
<1>3. ASSUME NEW m \in Libraries
      PROVE  Others(m)' + Cardinality(Holders(m)') =
                Others(m) + Cardinality(Holders(m)) - (IF m = l THEN 1 ELSE 0)
  <2>1. IsFiniteSet(Holders(m)) /\ Cardinality(Holders(m)) \in Nat
    BY HoldersFinite DEF PluginsInv
  <2>2. Holders(m)' = Holders(m) \ {p} /\ (p \in Holders(m) <=> m = l)
    BY <1>1, <1>2 DEF Holders
  <2>3. Cardinality(Holders(m)') = Cardinality(Holders(m)) - (IF m = l THEN 1 ELSE 0)
    <3>1. Cardinality(Holders(m) \ {p}) =
             IF p \in Holders(m) THEN Cardinality(Holders(m)) - 1 ELSE Cardinality(Holders(m))
      BY <2>1, FS_RemoveElement
    <3> QED
      BY <2>1, <2>2, <3>1
  <2>4. Others(m)' = Others(m) /\ Others(m) \in Nat
    BY <1>2 DEF Others
  <2> QED
    BY <2>1, <2>3, <2>4
<1> QED
  BY <1>2, <1>3, ClosedBy

(* The plugin takes the handle over.                                       *)
LEMMA CreateMakesKeeps ==
  ASSUME PluginsInv, NEW c \in Libraries, CreateMakes(c) PROVE PluginsInv'
<1>1. PICK l \in Libraries : l = making
  BY DEF CreateMakes, PluginsInv, PluginsTypeOK
<1> DEFINE p == <<l, c, loads[c]>>
<1>2. /\ c \in Loaded /\ p \notin plugins /\ plugins' = plugins \cup {p} /\ making' = NoLibrary
      /\ UNCHANGED <<order, handles, loads, lists, classes, kept, mislaid, crashed>>
      /\ crashed = NoLibrary /\ NoLibrary \notin Libraries
  BY <1>1 DEF CreateMakes, There, HolderKeeps, PluginsAssumption
<1>3. Loaded' = Loaded
  BY <1>2 DEF Loaded
<1>4. loads[c] \in 1 .. MaxLoads
  BY <1>2 DEF PluginsInv, LibrariesFit, LibrariesTyped, ListsFit
<1>5. PluginsTypeOK'
  <2>1. plugins' \subseteq Libraries \X Libraries \X (1 .. MaxLoads)
    BY <1>2, <1>4 DEF PluginsInv, PluginsTypeOK
  <2> QED
    BY <1>2, <1>3, <2>1 DEF PluginsInv, PluginsTypeOK
<1>6. LibrariesFit'
  <2>1. LibrariesTyped' /\ LoadedWhileUsed'
    BY <1>2, <1>3 DEF PluginsInv, LibrariesFit, LibrariesTyped, LoadedWhileUsed
  <2>2. OrderFits' /\ ListsFit'
    BY <1>2, <1>3 DEF PluginsInv, LibrariesFit, OrderFits, ListsFit, IsFirst
  <2> QED
    BY <2>1, <2>2 DEF LibrariesFit
<1>7. PluginsFit'
  <2>1. IsFiniteSet(plugins')
    BY <1>2, FS_AddElement DEF PluginsInv, PluginsFit
  <2> QED
    BY <2>1 DEF PluginsFit
<1>8. HandlesCounted'
  <2> SUFFICES ASSUME NEW m \in Libraries PROVE handles'[m] = Others(m)' + Cardinality(Holders(m)')
    BY DEF HandlesCounted, Others, Holders
  <2>1. handles[m] = Others(m) + Cardinality(Holders(m))
    BY DEF PluginsInv, HandlesCounted, Others, Holders
  <2>2. IsFiniteSet(Holders(m)) /\ Cardinality(Holders(m)) \in Nat
    BY HoldersFinite DEF PluginsInv
  <2>3. Holders(m)' = IF m = l THEN Holders(m) \cup {p} ELSE Holders(m)
    BY <1>2 DEF Holders
  <2>4. p \notin Holders(m)
    BY <1>2 DEF Holders
  <2>5. Cardinality(Holders(m)') = Cardinality(Holders(m)) + (IF m = l THEN 1 ELSE 0)
    <3>1. Cardinality(Holders(m) \cup {p}) = Cardinality(Holders(m)) + 1
      BY <2>2, <2>4, FS_AddElement
    <3> QED
      BY <2>2, <2>3, <3>1
  <2>6. Others(m)' = Others(m) - (IF m = l THEN 1 ELSE 0) /\ Others(m) \in Nat
    BY <1>1, <1>2 DEF Others, PluginsInv, PluginsTypeOK
  <2> QED
    BY <1>2, <2>1, <2>2, <2>5, <2>6
<1>9. OwnPluginsUsable'
  <2> SUFFICES ASSUME NEW q \in plugins', q[1] = q[2] PROVE q[2] \in Loaded /\ loads[q[2]] = q[3]
    BY <1>2, <1>3 DEF OwnPluginsUsable, There
  <2>1. CASE q = p
    BY <1>2, <2>1
  <2>2. CASE q \in plugins
    BY <2>2 DEF PluginsInv, OwnPluginsUsable, There
  <2> QED
    BY <1>2, <2>1, <2>2
<1> QED
  BY <1>5, <1>6, <1>7, <1>8, <1>9 DEF PluginsInv

(* The program has jumped to code that is not there, and nothing follows.  *)
LEMMA CrashKeeps ==
  ASSUME PluginsInv, NEW c \in Libraries, Crash(c) PROVE PluginsInv'
<1>1. /\ crashed' = c /\ UNCHANGED <<order, handles, loads, lists, classes, plugins, kept, mislaid, making>>
      /\ Loaded' = Loaded
  BY DEF Crash, Loaded
<1>2. PluginsTypeOK'
  BY <1>1 DEF PluginsInv, PluginsTypeOK
<1>3. LibrariesFit'
  BY <1>1 DEF PluginsInv, LibrariesFit, LibrariesTyped, LoadedWhileUsed, OrderFits, ListsFit, IsFirst
<1>4. PluginsFit' /\ HandlesCounted' /\ OwnPluginsUsable'
  BY <1>1 DEF PluginsInv, PluginsFit, HandlesCounted, OwnPluginsUsable, There
<1> QED
  BY <1>2, <1>3, <1>4 DEF PluginsInv

(* Every step of the program keeps all of this.                            *)
LEMMA PluginsStep == PluginsInv /\ [PluginsNext]_pluginVars => PluginsInv'
<1> SUFFICES ASSUME PluginsInv, [PluginsNext]_pluginVars PROVE PluginsInv'
  OBVIOUS
<1>1. ASSUME CreateFails PROVE PluginsInv'
  BY <1>1, CreateFailsKeeps
<1>2. ASSUME NEW l \in Libraries, GetSymbol(l) \/ NoSymbol(l) \/ CallCreate(l) PROVE PluginsInv'
  BY <1>2, GetSymbolKeeps
<1>3. ASSUME NEW l \in Libraries, DropSymbol(l) PROVE PluginsInv'
  BY <1>3, DropSymbolKeeps
<1>4. ASSUME NEW c \in Libraries, CreateMakes(c) PROVE PluginsInv'
  BY <1>4, CreateMakesKeeps
<1>5. ASSUME NEW c \in Libraries, CreateCrashes(c) PROVE PluginsInv'
  BY <1>5, CrashKeeps DEF CreateCrashes
<1>6. ASSUME NEW p \in plugins, UseCrashes(p) PROVE PluginsInv'
  BY <1>6, CrashKeeps, HeldLoaded DEF UseCrashes
<1>7. ASSUME NEW p \in plugins, DeletePlugin(p) PROVE PluginsInv'
  BY <1>7, DeletePluginKeeps
<1>8. ASSUME UNCHANGED pluginVars PROVE PluginsInv'
  <2>1. /\ UNCHANGED <<order, handles, loads, lists, classes, plugins, kept, mislaid, making, crashed>>
        /\ Loaded' = Loaded
    BY <1>8 DEF pluginVars, Loaded
  <2>2. PluginsTypeOK' /\ PluginsFit' /\ HandlesCounted' /\ OwnPluginsUsable'
    BY <2>1 DEF PluginsInv, PluginsTypeOK, PluginsFit, HandlesCounted, OwnPluginsUsable, There
  <2>3. LibrariesFit'
    BY <2>1 DEF PluginsInv, LibrariesFit, LibrariesTyped, LoadedWhileUsed, OrderFits, ListsFit, IsFirst
  <2> QED
    BY <2>2, <2>3 DEF PluginsInv
<1> QED
  BY <1>1, <1>2, <1>3, <1>4, <1>5, <1>6, <1>7, <1>8 DEF PluginsNext

(* The class of a library is found in its own list unless another library  *)
(* is the first, whose list then has it.                                   *)
LEMMA ClassFound == ASSUME PluginsInv PROVE OwnClassFound
<1> SUFFICES ASSUME NEW l \in Loaded PROVE classes[l][l] = IF lists[l] = l THEN loads[l] ELSE 0
  BY DEF OwnClassFound
<1>1. PICK f \in Loaded : IsFirst(f) /\ lists[l] = f
  BY DEF PluginsInv, LibrariesFit, OrderFits, Loaded
<1>2. l \in Libraries /\ Zero[l] = 0
  BY DEF Loaded, Zero
<1>3. CASE l = f
  BY <1>1, <1>2, <1>3 DEF PluginsInv, LibrariesFit, ListsFit
<1>4. CASE l # f
  <2>1. ~IsFirst(l)
    BY <1>1, <1>2, <1>4, FirstIsOne DEF PluginsInv, LibrariesFit, Loaded
  <2>2. classes[l] = Zero
    BY <1>2, <2>1 DEF PluginsInv, LibrariesFit, ListsFit
  <2> QED
    BY <1>1, <1>2, <1>4, <2>2
<1> QED
  BY <1>3, <1>4

(* One plugin is the only one that has a handle of a library exactly if    *)
(* those that have are one.                                                *)
LEMMA OnlyHolder ==
  ASSUME PluginsFit, NEW p \in plugins
  PROVE  Cardinality(Holders(p[1])) = 1 <=> ~ \E q \in plugins \ {p} : q[1] = p[1]
<1> DEFINE hs == Holders(p[1])
           rest == hs \ {p}
<1>1. IsFiniteSet(hs) /\ p \in hs
  BY HoldersFinite DEF Holders
<1>2. rest = {} <=> ~ \E q \in plugins \ {p} : q[1] = p[1]
  BY DEF Holders
<1> HIDE DEF hs
<1>3. IsFiniteSet(rest) /\ Cardinality(rest) = Cardinality(hs) - 1 /\ Cardinality(hs) \in Nat
  BY <1>1, FS_RemoveElement, FS_CardinalityType
<1>4. Cardinality(rest) = 0 <=> rest = {}
  BY <1>3, FS_EmptySet
<1>5. Cardinality(hs) = 1 <=> ~ \E q \in plugins \ {p} : q[1] = p[1]
  BY <1>2, <1>3, <1>4
<1> QED
  BY <1>5 DEF hs

(* The library of a plugin goes with the plugin exactly if nobody else     *)
(* keeps it: a library whose list another one uses has a user with a       *)
(* handle.                                                                 *)
LEMMA LastCloses == ASSUME PluginsInv PROVE LastDeletesItsCode
<1> SUFFICES ASSUME NEW p \in plugins, p[1] = p[2] PROVE p[1] \in Gone(p[1]) <=> ~KeepsToo(p)
  BY DEF LastDeletesItsCode
<1>1. PICK l \in Libraries : l = p[1] /\ l \in Loaded /\ handles[l] > 0
  BY HeldLoaded
<1> DEFINE unheld == {m \in Loaded : handles[m] = IF m = l THEN 1 ELSE 0}
           users(m) == {k \in Loaded \ {m} : lists[k] = m}
<1>2. l \in Gone(l) <=> l \in unheld /\ \A k \in users(l) : k \in unheld /\ users(k) = {}
  BY DEF Gone
<1>3. ASSUME NEW k \in users(l), k \in unheld, users(k) = {} PROVE FALSE
  <2>1. k \in Libraries /\ k \in Loaded /\ handles[k] = 0
    BY <1>3 DEF Loaded
  <2>2. PICK j \in Loaded \ {k} : lists[j] = k
    BY <2>1 DEF PluginsInv, LibrariesFit, LoadedWhileUsed
  <2>3. j \in users(k)
    BY <2>2
  <2> QED
    BY <1>3, <2>3
<1>4. l \in Gone(l) <=> handles[l] = 1 /\ users(l) = {}
  <2>1. l \in unheld <=> handles[l] = 1
    BY <1>1
  <2> HIDE DEF unheld, users
  <2> QED
    BY <1>2, <1>3, <2>1
<1>5. /\ handles[l] = Others(l) + Cardinality(Holders(l)) /\ Cardinality(Holders(l)) \in Nat
      /\ Cardinality(Holders(l)) # 0 /\ Others(l) \in Nat
      /\ Others(l) = 0 <=> ~(kept[l] > 0 \/ mislaid[l] > 0 \/ making = l)
  <2>1. IsFiniteSet(Holders(l)) /\ Cardinality(Holders(l)) \in Nat /\ Holders(l) # {}
    BY <1>1, HoldersFinite DEF PluginsInv, Holders
  <2>2. kept[l] \in Nat /\ mislaid[l] \in Nat
    BY DEF PluginsInv, PluginsTypeOK
  <2>3. handles[l] = Others(l) + Cardinality(Holders(l))
    BY DEF PluginsInv, HandlesCounted, Others, Holders
  <2>4. Cardinality(Holders(l)) # 0
    BY <2>1, FS_EmptySet
  <2>5. Others(l) \in Nat /\ (Others(l) = 0 <=> ~(kept[l] > 0 \/ mislaid[l] > 0 \/ making = l))
    BY <2>2 DEF Others
  <2> QED
    BY <2>1, <2>3, <2>4, <2>5
<1>6. handles[l] = 1 <=> Others(l) = 0 /\ Cardinality(Holders(l)) = 1
  BY <1>5
<1>7. Cardinality(Holders(l)) = 1 <=> ~ \E q \in plugins \ {p} : q[1] = l
  BY <1>1, OnlyHolder DEF PluginsInv
<1> QED
  BY <1>1, <1>4, <1>5, <1>6, <1>7 DEF KeepsToo

(* However libraries are opened, closed and made plugins of, in any order  *)
(* and number: handles are counted, a library is there as long as a plugin *)
(* that its own factory made lives, and the last such plugin takes the     *)
(* code of its own destructor away.                                        *)
THEOREM PluginsStayUsable == PluginsSpec => []PluginsUsable
<1>1. PluginsInv => PluginsUsable
  BY ClassFound, LastCloses DEF PluginsInv, LibrariesFit, PluginsUsable
<1> QED
  BY <1>1, PluginsInitially, PluginsStep, PluginsAssumption, PTL DEF PluginsSpec

-----------------------------------------------------------------------------
(* The proofs about socket and server_socket, for any number of threads,   *)
(* descriptors, addresses that they write and connections that may wait.   *)
USE SocketsAssumption

(* What makes SocketsOwned inductive: what is known of a descriptor from   *)
(* who owns it, and what a thread that is in a call finds there.           *)
Builders == {"connect", "bind", "listen"}
Known(f) ==
    /\ sock[f].owner = "closed" => sock[f] = NoSocket
    /\ sock[f].owner = "lost" => sock[f].state = "connected"
    /\ sock[f].owner = "constructor" =>
          \E t \in Callers : call[t].does \in Builders /\ call[t].on = f
    /\ sock[f].state = "listening" => sock[f].owner = "object"
    /\ sock[f].waiting > 0 => sock[f].state = "listening"
Serves(f) == sock[f].owner = "object" /\ sock[f].state = "listening"
CallFits(t) ==
    /\ call[t].does \in {"connect", "bind"} =>
          sock[call[t].on].owner = "constructor" /\ sock[call[t].on].state = "new"
    /\ call[t].does = "listen" =>
          sock[call[t].on].owner = "constructor" /\ sock[call[t].on].state = "bound"
    /\ call[t].does = "reconnect" =>
          sock[call[t].on].owner = "object" /\ sock[call[t].on].state \in {"new", "connected"}
    /\ call[t].does = "accept" => Serves(call[t].on)
    /\ promised[t] # 0 => call[t].does \in {"nothing", "accept"} /\ Serves(call[t].on)

AllKnown == \A f \in Sockets : Known(f)
CallsFit == \A t \in Callers : CallFits(t)
OneBuilder ==
    \A t, u \in Callers :
        call[t].does \in Builders /\ call[u].does \in Builders /\ call[t].on = call[u].on => t = u
AddressesLead ==
    \A a \in Addresses : leads[a] \in Sockets =>
        sock[leads[a]].state \in {"bound", "listening"} /\ sock[leads[a]].family = Family(a)
SocketsInv == /\ SocketsTypeOK /\ AllKnown /\ CallsFit /\ OneBuilder /\ AddressesLead /\ AcceptAnswers
-----------------------------------------------------------------------------
(* What stands for no socket and for no call.                              *)
LEMMA NoneTyped == NoSocket \in Kinds /\ NoCall \in Calls
  BY DEF NoSocket, NoCall, Kinds, Calls, Domains

(* No descriptor is open at first.                                         *)
LEMMA InitInv == SocketsInit => SocketsInv
<1> SUFFICES ASSUME SocketsInit PROVE SocketsInv
  OBVIOUS
<1>1. SocketsTypeOK
  BY NoneTyped DEF SocketsInit, SocketsTypeOK
<1>2. AllKnown /\ CallsFit /\ OneBuilder /\ AddressesLead
  BY DEF SocketsInit, AllKnown, Known, CallsFit, CallFits, OneBuilder, Builders, AddressesLead,
         NoSocket, NoCall
<1>3. AcceptAnswers
  <2> SUFFICES ASSUME NEW t \in Callers PROVE sock[call[t].on].waiting + taken[t] >= promised[t]
    BY DEF AcceptAnswers
  <2>1. call[t].on \in Sockets
    BY NoneTyped DEF SocketsInit, Calls
  <2>2. sock[call[t].on].waiting = 0 /\ taken[t] = 0 /\ promised[t] = 0
    BY <2>1 DEF SocketsInit, NoSocket
  <2> QED
    BY <2>2
<1> QED
  BY <1>1, <1>2, <1>3 DEF SocketsInv

(* Any field may change alone.                                             *)
LEMMA FieldChanges ==
  ASSUME NEW k \in Kinds
  PROVE  /\ \A o \in {"object", "constructor", "lost", "closed"} : [k EXCEPT !.owner = o] \in Kinds
         /\ \A d \in Domains \cup {"unset"} : [k EXCEPT !.m_domain = d] \in Kinds
         /\ \A d \in Domains : [k EXCEPT !.family = d] \in Kinds
         /\ \A b \in BOOLEAN : [k EXCEPT !.stream = b] \in Kinds
         /\ \A s \in {"new", "bound", "listening", "connected"} : [k EXCEPT !.state = s] \in Kinds
         /\ \A n \in 0 .. Backlog : [k EXCEPT !.waiting = n] \in Kinds
<1>1. \A o \in {"object", "constructor", "lost", "closed"} : [k EXCEPT !.owner = o] \in Kinds
  BY DEF Kinds
<1>2. \A d \in Domains \cup {"unset"} : [k EXCEPT !.m_domain = d] \in Kinds
  BY DEF Kinds
<1>3. \A d \in Domains : [k EXCEPT !.family = d] \in Kinds
  BY DEF Kinds
<1>4. \A b \in BOOLEAN : [k EXCEPT !.stream = b] \in Kinds
  BY DEF Kinds
<1>5. \A s \in {"new", "bound", "listening", "connected"} : [k EXCEPT !.state = s] \in Kinds
  BY DEF Kinds
<1>6. \A n \in 0 .. Backlog : [k EXCEPT !.waiting = n] \in Kinds
  BY DEF Kinds
<1> QED
  BY <1>1, <1>2, <1>3, <1>4, <1>5, <1>6

(* The record of a socket that the program opens or takes.                 *)
LEMMA OpenedTyped ==
  ASSUME NEW o \in {"object", "constructor", "lost", "closed"}, NEW d \in Domains \cup {"unset"},
         NEW e \in Domains, NEW b \in BOOLEAN, NEW s \in {"new", "bound", "listening", "connected"}
  PROVE  /\ [NoSocket EXCEPT !.owner = o, !.m_domain = d, !.family = e, !.stream = b] \in Kinds
         /\ [NoSocket EXCEPT !.owner = o, !.m_domain = d, !.family = e, !.state = s] \in Kinds
         /\ [NoSocket EXCEPT !.owner = o, !.m_domain = d, !.family = e] \in Kinds
<1> DEFINE k1 == [NoSocket EXCEPT !.owner = o]
           k2 == [k1 EXCEPT !.m_domain = d]
           k3 == [k2 EXCEPT !.family = e]
<1>1. k1 \in Kinds
  BY NoneTyped, FieldChanges
<1>2. k2 \in Kinds
  BY <1>1, FieldChanges
<1>3. k3 \in Kinds
  BY <1>2, FieldChanges
<1>4. [k3 EXCEPT !.stream = b] \in Kinds /\ [k3 EXCEPT !.state = s] \in Kinds
  BY <1>3, FieldChanges
<1>5. [NoSocket EXCEPT !.owner = o, !.m_domain = d, !.family = e, !.stream = b] = [k3 EXCEPT !.stream = b]
  BY DEF NoSocket
<1>6. [NoSocket EXCEPT !.owner = o, !.m_domain = d, !.family = e, !.state = s] = [k3 EXCEPT !.state = s]
  BY DEF NoSocket
<1>7. [NoSocket EXCEPT !.owner = o, !.m_domain = d, !.family = e] = k3
  BY DEF NoSocket
<1> QED
  BY <1>3, <1>4, <1>5, <1>6, <1>7

(* What the actions find: records with these fields.                       *)
LEMMA Fields ==
  ASSUME SocketsTypeOK
  PROVE  /\ \A f \in Sockets : sock[f] \in Kinds
         /\ \A t \in Callers : call[t] \in Calls /\ call[t].on \in Sockets
         /\ DOMAIN sock = Sockets /\ DOMAIN call = Callers /\ DOMAIN leads = Addresses
  BY DEF SocketsTypeOK, Calls

(* No more connections wait than there is room for.                        *)
LEMMA WaitingCounted ==
  ASSUME SocketsTypeOK, NEW f \in Sockets
  PROVE  sock[f].waiting \in Nat /\ sock[f].waiting <= Backlog
<1>1. sock[f].waiting \in 0 .. Backlog
  BY Fields DEF Kinds
<1> QED
  BY <1>1

(* What was promised is still there if no thread is promised more, and     *)
(* what waits and what others took are together no fewer.                  *)
LEMMA AnswersKept ==
  ASSUME SocketsInv, SocketsTypeOK',
         \A u \in Callers :
            \/ promised'[u] = 0
            \/ /\ promised'[u] = promised[u]
               /\ sock'[call'[u].on].waiting + taken'[u] >= sock[call[u].on].waiting + taken[u]
  PROVE  AcceptAnswers'
<1> SUFFICES ASSUME NEW u \in Callers
             PROVE  sock'[call'[u].on].waiting + taken'[u] >= promised'[u]
  BY DEF AcceptAnswers
<1>1. /\ call[u].on \in Sockets /\ call'[u].on \in Sockets
      /\ sock[call[u].on] \in Kinds /\ sock'[call'[u].on] \in Kinds
      /\ promised[u] \in 0 .. Backlog /\ taken[u] \in 0 .. Backlog
      /\ promised'[u] \in 0 .. Backlog /\ taken'[u] \in 0 .. Backlog
  BY DEF SocketsInv, SocketsTypeOK, Calls
<1> DEFINE w == sock[call[u].on].waiting
           v == sock'[call'[u].on].waiting
<1>2. /\ w \in Nat /\ v \in Nat
      /\ promised[u] \in Nat /\ taken[u] \in Nat /\ promised'[u] \in Nat /\ taken'[u] \in Nat
  BY <1>1 DEF Kinds
<1>3. w + taken[u] >= promised[u]
  BY DEF SocketsInv, AcceptAnswers
<1>4. promised'[u] = 0 \/ (promised'[u] = promised[u] /\ v + taken'[u] >= w + taken[u])
  OBVIOUS
<1> SUFFICES v + taken'[u] >= promised'[u]
  OBVIOUS
<1> HIDE DEF w, v
<1> QED
  BY <1>2, <1>3, <1>4

(* ... and so if nothing of that changed.                                  *)
LEMMA AnswersStay ==
  ASSUME SocketsInv, SocketsTypeOK',
         \A u \in Callers :
            \/ promised'[u] = 0
            \/ /\ promised'[u] = promised[u] /\ taken'[u] = taken[u]
               /\ sock'[call'[u].on].waiting = sock[call[u].on].waiting
  PROVE  AcceptAnswers'
<1> SUFFICES ASSUME NEW u \in Callers, promised'[u] # 0
             PROVE  /\ promised'[u] = promised[u]
                    /\ sock'[call'[u].on].waiting + taken'[u] >= sock[call[u].on].waiting + taken[u]
  BY AnswersKept
<1> DEFINE w == sock[call[u].on].waiting
           v == sock'[call'[u].on].waiting
<1>1. w \in Nat /\ taken[u] \in Nat
  <2>1. call[u].on \in Sockets /\ taken[u] \in 0 .. Backlog
    BY Fields DEF SocketsInv, SocketsTypeOK
  <2>2. sock[call[u].on].waiting \in Nat
    BY <2>1, WaitingCounted DEF SocketsInv
  <2> QED
    BY <2>1, <2>2
<1>2. promised'[u] = promised[u] /\ taken'[u] = taken[u] /\ v = w
  OBVIOUS
<1>3. v + taken'[u] >= w + taken[u]
  <2> HIDE DEF w, v
  <2> QED
    BY <1>1, <1>2
<1> QED
  BY <1>2, <1>3

(* A constructor takes a descriptor that was free.                         *)
LEMMA OpenSocketKeeps == ASSUME SocketsInv, NEW t \in Callers, OpenSocket(t) PROVE SocketsInv'
<1> PICK f \in Lowest(Free), d \in Domains, s \in Strings, str \in BOOLEAN, does \in {"connect", "bind"} :
          /\ sock' = [sock EXCEPT ![f] = [NoSocket EXCEPT
                         !.owner = "constructor", !.m_domain = d, !.family = d, !.stream = str]]
          /\ call' = [call EXCEPT ![t] = [does |-> does, on |-> f, with |-> s]]
  BY DEF OpenSocket
<1>1. /\ f \in Sockets /\ sock[f] = NoSocket /\ call[t].does = "nothing"
      /\ promised' = [promised EXCEPT ![t] = 0] /\ taken' = [taken EXCEPT ![t] = 0] /\ leads' = leads
  BY DEF OpenSocket, Lowest, Free, SocketsInv, AllKnown, Known, Told, Idle
<1>2. /\ sock'[f] = [NoSocket EXCEPT !.owner = "constructor", !.m_domain = d, !.family = d,
                                      !.stream = str]
      /\ sock'[f].owner = "constructor" /\ sock'[f].state = "new" /\ sock'[f].waiting = 0
      /\ \A g \in Sockets \ {f} : sock'[g] = sock[g]
      /\ DOMAIN sock' = Sockets
  BY <1>1, Fields DEF NoSocket, SocketsInv
<1>3. /\ call'[t] = [does |-> does, on |-> f, with |-> s]
      /\ \A u \in Callers \ {t} : call'[u] = call[u]
  BY Fields DEF SocketsInv
<1>4. SocketsTypeOK'
  <2>1. sock'[f] \in Kinds
    <3>1. d \in Domains \cup {"unset"} /\ "constructor" \in {"object", "constructor", "lost", "closed"}
      OBVIOUS
    <3>2. [NoSocket EXCEPT !.owner = "constructor", !.m_domain = d, !.family = d, !.stream = str] \in Kinds
      BY <3>1, OpenedTyped, Zenon
    <3> QED
      BY <1>2, <3>2, Zenon
  <2>2. call'[t] \in Calls
    BY <1>1, <1>3 DEF Calls
  <2> QED
    BY <1>1, <2>1, <2>2 DEF SocketsTypeOK, SocketsInv
<1>5. \A u \in Callers : call[u].does \in Builders \/ promised[u] # 0 => call[u].on # f
  BY <1>1 DEF SocketsInv, CallsFit, CallFits, Builders, NoSocket, Serves
<1>6. AllKnown'
  <2>1. Known(f)'
    BY <1>2, <1>3 DEF Known, Builders
  <2>2. ASSUME NEW g \in Sockets \ {f} PROVE Known(g)'
    BY <1>1, <1>2, <1>3 DEF Known, AllKnown, SocketsInv, Builders, NoSocket
  <2> QED
    BY <2>1, <2>2 DEF AllKnown
<1>10. promised'[t] = 0 /\ \A u \in Callers \ {t} : promised'[u] = promised[u] /\ taken'[u] = taken[u]
  BY <1>1 DEF SocketsInv, SocketsTypeOK
<1>7. CallsFit'
  BY <1>1, <1>2, <1>3, <1>5, <1>10, Fields DEF CallsFit, CallFits, SocketsInv, Builders, Serves, NoSocket
<1>8. OneBuilder'
  BY <1>3, <1>5 DEF OneBuilder, SocketsInv
<1>9. AddressesLead'
  BY <1>1, <1>2, <1>3, <1>5, Fields DEF AddressesLead, SocketsInv, NoSocket
<1>11. AcceptAnswers'
  BY <1>2, <1>3, <1>4, <1>5, <1>10, Fields, AnswersStay DEF SocketsInv
<1> QED
  BY <1>4, <1>6, <1>7, <1>8, <1>9, <1>11 DEF SocketsInv

(* close() of a descriptor that no other thread is using: those whose call *)
(* ends were using it, or have not begun.                                  *)
LEMMA CloseKeeps ==
  ASSUME SocketsInv, NEW f \in Sockets, Close(f), SocketsTypeOK',
         \A u \in Callers :
            \/ call'[u] = NoCall /\ (call[u].does \in Builders => call[u].on = f)
            \/ call'[u] = call[u] /\ (call[u].does = "nothing" \/ call[u].on # f),
         \A u \in Callers :
            \/ promised'[u] = 0
            \/ /\ promised'[u] = promised[u] /\ taken'[u] = taken[u]
               /\ call'[u] = call[u] /\ call[u].on # f
  PROVE  SocketsInv'
<1>1. sock'[f] = NoSocket /\ \A g \in Sockets \ {f} : sock'[g] = sock[g]
  BY Fields DEF Close, SocketsInv
<1>2. \A a \in Addresses : leads'[a] \in Sockets => leads'[a] = leads[a] /\ leads[a] # f
  BY DEF Close
<1>3. AllKnown'
  <2>1. Known(f)'
    BY <1>1 DEF Known, NoSocket
  <2>2. ASSUME NEW g \in Sockets \ {f} PROVE Known(g)'
    BY <1>1, <2>2 DEF Known, AllKnown, SocketsInv, NoSocket, Builders
  <2> QED
    BY <2>1, <2>2 DEF AllKnown
<1>4. CallsFit'
  <2> SUFFICES ASSUME NEW u \in Callers PROVE CallFits(u)'
    BY DEF CallsFit
  <2>1. CASE call'[u] = NoCall /\ promised'[u] = 0
    BY <2>1 DEF CallFits, NoCall
  <2>2. CASE call'[u] = call[u] /\ call[u].does = "nothing" /\ promised'[u] = 0
    BY <2>2 DEF CallFits
  <2>3. CASE call'[u] = call[u] /\ call[u].on # f
    <3>1. call[u].on \in Sockets /\ sock'[call'[u].on] = sock[call[u].on]
      BY <1>1, <2>3, Fields DEF SocketsInv
    <3> QED
      BY <2>3, <3>1 DEF CallFits, CallsFit, SocketsInv, Serves
  <2> QED
    BY <2>1, <2>2, <2>3
<1>5. OneBuilder'
  <2>1. NoCall.does \notin Builders
    BY DEF NoCall, Builders
  <2>2. \A u \in Callers : call'[u].does \in Builders => call'[u] = call[u]
    BY <2>1
  <2> QED
    BY <2>2, Zenon DEF OneBuilder, SocketsInv
<1>6. AddressesLead'
  <2> SUFFICES ASSUME NEW a \in Addresses, leads'[a] \in Sockets
               PROVE  /\ sock'[leads'[a]].state \in {"bound", "listening"}
                      /\ sock'[leads'[a]].family = Family(a)
    BY DEF AddressesLead
  <2>1. leads'[a] = leads[a] /\ leads[a] \in Sockets \ {f}
    BY <1>2
  <2>2. sock[leads[a]].state \in {"bound", "listening"} /\ sock[leads[a]].family = Family(a)
    BY <2>1 DEF AddressesLead, SocketsInv
  <2> QED
    BY <1>1, <2>1, <2>2
<1>7. AcceptAnswers'
  BY <1>1, Fields, AnswersStay DEF SocketsInv
<1> QED
  BY <1>3, <1>4, <1>5, <1>6, <1>7 DEF SocketsInv

(* close() leaves what the variables may hold.                             *)
LEMMA ClosedTyped ==
  ASSUME SocketsInv, NEW f \in Sockets, Close(f)
  PROVE  sock' \in [Sockets -> Kinds] /\ leads' \in [Addresses -> Sockets \cup {Nowhere, Stale}]
  BY NoneTyped DEF Close, SocketsInv, SocketsTypeOK

(* ~base_socket() of an object that no call is using.                      *)
LEMMA DestroyKeeps == ASSUME SocketsInv, NEW f \in Sockets, Destroy(f) PROVE SocketsInv'
<1>1. /\ \A t \in Callers : call[t].on = f => call[t].does = "nothing"
      /\ call' = [t \in Callers |-> IF call[t].on = f THEN NoCall ELSE call[t]]
      /\ promised' = [t \in Callers |-> IF call[t].on = f THEN 0 ELSE promised[t]]
      /\ taken' = [t \in Callers |-> IF call[t].on = f THEN 0 ELSE taken[t]]
      /\ Close(f)
  BY DEF Destroy, Idle
<1>2. SocketsTypeOK'
  BY <1>1, ClosedTyped, NoneTyped DEF SocketsInv, SocketsTypeOK
<1>3. \A u \in Callers :
            \/ call'[u] = NoCall /\ (call[u].does \in Builders => call[u].on = f)
            \/ call'[u] = call[u] /\ (call[u].does = "nothing" \/ call[u].on # f)
  BY <1>1
<1>4. \A u \in Callers :
            \/ promised'[u] = 0
            \/ /\ promised'[u] = promised[u] /\ taken'[u] = taken[u]
               /\ call'[u] = call[u] /\ call[u].on # f
  BY <1>1
<1> QED
  BY <1>1, <1>2, <1>3, <1>4, CloseKeeps

(* Nobody else uses a socket that is being made.                           *)
LEMMA BuilderAlone ==
  ASSUME SocketsInv, NEW t \in Callers, call[t].does \in Builders
  PROVE  /\ sock[call[t].on].owner = "constructor" /\ promised[t] = 0
         /\ \A u \in Callers \ {t} :
               call[u].on = call[t].on => promised[u] = 0 /\ call[u].does = "nothing"
<1>1. sock[call[t].on].owner = "constructor" /\ promised[t] = 0
  BY DEF SocketsInv, CallsFit, CallFits, Builders
<1>2. ASSUME NEW u \in Callers \ {t}, call[u].on = call[t].on
      PROVE  promised[u] = 0 /\ call[u].does = "nothing"
  <2>1. CallFits(u)
    BY DEF SocketsInv, CallsFit
  <2>2. promised[u] = 0 /\ call[u].does \notin {"reconnect", "accept"}
    BY <1>1, <1>2, <2>1 DEF CallFits, Serves
  <2>3. call[u].does \notin Builders
    BY <1>2 DEF SocketsInv, OneBuilder
  <2>4. call[u].does \in {"nothing", "connect", "reconnect", "bind", "listen", "accept"}
    BY Fields DEF SocketsInv, Calls
  <2> QED
    BY <2>2, <2>3, <2>4 DEF Builders
<1> QED
  BY <1>1, <1>2

(* An exception that leaves a constructor.                                 *)
LEMMA ConstructorThrows ==
  ASSUME SocketsInv, NEW t \in Callers, call[t].does \in Builders, Throw(t) PROVE SocketsInv'
<1> DEFINE f == call[t].on
<1>1. /\ f \in Sockets /\ Close(f) /\ call' = [call EXCEPT ![t] = NoCall]
      /\ promised' = promised /\ taken' = taken
  BY Fields DEF Throw, Returns, Builders, SocketsInv
<1>2. SocketsTypeOK'
  BY <1>1, ClosedTyped, NoneTyped DEF SocketsInv, SocketsTypeOK
<1>4. \A u \in Callers \ {t} : call[u].on = f => promised[u] = 0 /\ call[u].does = "nothing"
  BY BuilderAlone
<1>5. promised[t] = 0
  BY BuilderAlone
<1>6. call'[t] = NoCall /\ \A u \in Callers \ {t} : call'[u] = call[u]
  BY <1>1, Fields DEF SocketsInv
<1>7. \A u \in Callers :
            \/ call'[u] = NoCall /\ (call[u].does \in Builders => call[u].on = f)
            \/ call'[u] = call[u] /\ (call[u].does = "nothing" \/ call[u].on # f)
  BY <1>4, <1>6
<1>8. \A u \in Callers :
            \/ promised'[u] = 0
            \/ /\ promised'[u] = promised[u] /\ taken'[u] = taken[u]
               /\ call'[u] = call[u] /\ call[u].on # f
  BY <1>1, <1>4, <1>5, <1>6
<1> HIDE DEF f
<1> QED
  BY <1>1, <1>2, <1>7, <1>8, CloseKeeps

(* A call that ends and leaves every descriptor as it is.                  *)
LEMMA CallEnds ==
  ASSUME SocketsInv, NEW t \in Callers, call[t].does \notin Builders, Returns(t), UNCHANGED <<sock, leads>>,
         promised' \in [Callers -> 0 .. Backlog], taken' \in [Callers -> 0 .. Backlog], promised'[t] = 0,
         \A u \in Callers \ {t} : promised'[u] = promised[u] /\ taken'[u] = taken[u]
  PROVE  SocketsInv'
<1>1. call'[t] = NoCall /\ \A u \in Callers \ {t} : call'[u] = call[u]
  BY Fields DEF SocketsInv, Returns
<1>2. SocketsTypeOK'
  BY NoneTyped DEF SocketsInv, SocketsTypeOK, Returns
<1>3. AllKnown' /\ AddressesLead'
  BY <1>1 DEF SocketsInv, AllKnown, Known, AddressesLead, NoSocket
<1>4. CallsFit'
  BY <1>1 DEF SocketsInv, CallsFit, CallFits, Serves, NoCall
<1>5. OneBuilder'
  BY <1>1 DEF SocketsInv, OneBuilder, NoCall, Builders
<1>6. AcceptAnswers'
  BY <1>1, <1>2, AnswersStay
<1> QED
  BY <1>2, <1>3, <1>4, <1>5, <1>6 DEF SocketsInv

(* An exception of connect(), bind() or listen(), wherever it goes.        *)
LEMMA ThrowKeeps ==
  ASSUME SocketsInv, NEW t \in Callers, call[t].does \in {"connect", "reconnect", "bind", "listen"}, Throw(t)
  PROVE  SocketsInv'
<1>1. CASE call[t].does \in Builders
  BY <1>1, ConstructorThrows
<1>2. CASE call[t].does = "reconnect"
  <2>1. promised[t] = 0
    BY <1>2 DEF SocketsInv, CallsFit, CallFits
  <2>2. Returns(t) /\ UNCHANGED <<sock, leads, promised, taken>>
    BY <1>2 DEF Throw
  <2> QED
    BY <1>2, <2>1, <2>2, CallEnds DEF Builders, SocketsInv, SocketsTypeOK
<1> QED
  BY <1>1, <1>2 DEF Builders

(* accept() throws, and what try_wait() said is forgotten.                 *)
LEMMA AcceptThrowsKeeps == ASSUME SocketsInv, NEW t \in Callers, AcceptThrows(t) PROVE SocketsInv'
<1>1. /\ call[t].does \notin Builders /\ Returns(t) /\ UNCHANGED <<sock, leads>>
      /\ promised' = [promised EXCEPT ![t] = 0] /\ taken' = [taken EXCEPT ![t] = 0]
  BY DEF AcceptThrows, Told, Builders
<1>2. /\ promised' \in [Callers -> 0 .. Backlog] /\ taken' \in [Callers -> 0 .. Backlog] /\ promised'[t] = 0
      /\ \A u \in Callers \ {t} : promised'[u] = promised[u] /\ taken'[u] = taken[u]
  BY <1>1, SocketsAssumption DEF SocketsInv, SocketsTypeOK
<1> QED
  BY <1>1, <1>2, CallEnds

(* The constructor of server_socket ends.                                  *)
LEMMA ListenKeeps == ASSUME SocketsInv, NEW t \in Callers, Listen(t) PROVE SocketsInv'
<1>0. PICK f \in Sockets : f = call[t].on
  BY Fields DEF SocketsInv
<1>1. /\ f \in Sockets /\ sock' = [sock EXCEPT ![f].owner = "object", ![f].state = "listening"]
      /\ call' = [call EXCEPT ![t] = NoCall] /\ UNCHANGED <<leads, promised, taken>>
  BY <1>0 DEF Listen, Becomes, Returns
<1>2. /\ sock'[f] = [sock[f] EXCEPT !.owner = "object", !.state = "listening"]
      /\ sock'[f].owner = "object" /\ sock'[f].state = "listening"
      /\ sock'[f].waiting = sock[f].waiting /\ sock'[f].family = sock[f].family
      /\ \A g \in Sockets \ {f} : sock'[g] = sock[g]
  BY <1>1, Fields DEF SocketsInv, Kinds
<1>3. call'[t] = NoCall /\ \A u \in Callers \ {t} : call'[u] = call[u]
  BY <1>1, Fields DEF SocketsInv
<1>4. /\ sock[f].owner = "constructor" /\ sock[f].state = "bound" /\ promised[t] = 0
      /\ \A u \in Callers \ {t} : call[u].on = f => promised[u] = 0 /\ call[u].does = "nothing"
  BY <1>0, BuilderAlone DEF Listen, SocketsInv, CallsFit, CallFits, Builders
<1>5. SocketsTypeOK'
  <2>1. sock'[f] \in Kinds
    <3>1. [sock[f] EXCEPT !.owner = "object"] \in Kinds
      BY <1>1, Fields, FieldChanges DEF SocketsInv
    <3>2. [[sock[f] EXCEPT !.owner = "object"] EXCEPT !.state = "listening"] \in Kinds
      BY <3>1, FieldChanges
    <3> QED
      BY <1>2, <3>2, Zenon
  <2> QED
    BY <1>1, <2>1, NoneTyped DEF SocketsInv, SocketsTypeOK
<1>6. AllKnown'
  <2>1. Known(f)'
    BY <1>2 DEF Known
  <2>2. ASSUME NEW g \in Sockets \ {f} PROVE Known(g)'
    BY <1>0, <1>2, <1>3 DEF Known, AllKnown, SocketsInv, NoSocket
  <2> QED
    BY <2>1, <2>2 DEF AllKnown
<1>7. CallsFit'
  <2> SUFFICES ASSUME NEW u \in Callers PROVE CallFits(u)'
    BY DEF CallsFit
  <2>1. CASE u = t
    BY <1>1, <1>3, <1>4, <2>1 DEF CallFits, NoCall
  <2>2. CASE u # t /\ call[u].on = f
    BY <1>1, <1>3, <1>4, <2>2 DEF CallFits
  <2>3. CASE u # t /\ call[u].on # f
    BY <1>1, <1>2, <1>3, <2>3, Fields DEF CallFits, CallsFit, SocketsInv, Serves
  <2> QED
    BY <2>1, <2>2, <2>3
<1>8. OneBuilder'
  BY <1>3 DEF OneBuilder, SocketsInv, NoCall, Builders
<1>9. AddressesLead'
  BY <1>1, <1>2, <1>3, <1>4, Fields DEF AddressesLead, SocketsInv
<1>10. AcceptAnswers'
  BY <1>1, <1>2, <1>3, <1>4, <1>5, Fields, AnswersStay DEF SocketsInv
<1> QED
  BY <1>5, <1>6, <1>7, <1>8, <1>9, <1>10 DEF SocketsInv

(* What an address is made of, if the string says where to.                *)
LEMMA AddressMade == \A d, s : ToSockaddr(d, s) # "none" => ToSockaddr(d, s) \in Addresses
  BY DEF ToSockaddr, Addresses

(* bind() gives the socket an address that was free.                       *)
LEMMA BindKeeps == ASSUME SocketsInv, NEW t \in Callers, Bind(t) PROVE SocketsInv'
<1>0. PICK f \in Sockets : f = call[t].on
  BY Fields DEF SocketsInv
<1>1. PICK a \in To(t) : Bindable(t, a) /\ leads' = [leads EXCEPT ![a] = f]
  BY <1>0 DEF Bind
<1>2. a \in Addresses /\ leads[a] = Nowhere /\ Family(a) = sock[f].family
  BY <1>0, <1>1, AddressMade DEF Bindable, Fits, To
<1>3. /\ f \in Sockets /\ sock' = [sock EXCEPT ![f].owner = "constructor", ![f].state = "bound"]
      /\ call' = [call EXCEPT ![t].does = "listen"] /\ UNCHANGED <<promised, taken>>
  BY <1>0 DEF Bind, Becomes, Goes
<1>4. /\ sock'[f] = [sock[f] EXCEPT !.owner = "constructor", !.state = "bound"]
      /\ sock'[f].owner = "constructor" /\ sock'[f].state = "bound"
      /\ sock'[f].waiting = sock[f].waiting /\ sock'[f].family = sock[f].family
      /\ \A g \in Sockets \ {f} : sock'[g] = sock[g]
  BY <1>3, Fields DEF SocketsInv, Kinds
<1>5. /\ call'[t] = [call[t] EXCEPT !.does = "listen"] /\ call'[t].does = "listen" /\ call'[t].on = f
      /\ \A u \in Callers \ {t} : call'[u] = call[u]
  BY <1>0, <1>3, Fields DEF SocketsInv, Calls
<1>6. /\ sock[f].owner = "constructor" /\ sock[f].state = "new" /\ promised[t] = 0
      /\ call[t].does \in Builders
      /\ \A u \in Callers \ {t} : call[u].on = f => promised[u] = 0 /\ call[u].does = "nothing"
  BY <1>0, BuilderAlone DEF Bind, SocketsInv, CallsFit, CallFits, Builders
<1>7. SocketsTypeOK'
  <2>1. sock'[f] \in Kinds
    <3>1. [sock[f] EXCEPT !.owner = "constructor"] \in Kinds
      BY <1>3, Fields, FieldChanges DEF SocketsInv
    <3>2. [[sock[f] EXCEPT !.owner = "constructor"] EXCEPT !.state = "bound"] \in Kinds
      BY <3>1, FieldChanges
    <3> QED
      BY <1>4, <3>2, Zenon
  <2>2. call'[t] \in Calls
    BY <1>5, Fields DEF Calls, SocketsInv
  <2> QED
    BY <1>1, <1>2, <1>3, <2>1, <2>2 DEF SocketsInv, SocketsTypeOK
<1>8. AllKnown'
  <2>1. Known(f)'
    BY <1>4, <1>5, <1>6 DEF Known, Builders, SocketsInv, AllKnown
  <2>2. ASSUME NEW g \in Sockets \ {f} PROVE Known(g)'
    BY <1>4, <1>5, <1>6 DEF Known, AllKnown, SocketsInv, NoSocket, Builders
  <2> QED
    BY <2>1, <2>2 DEF AllKnown
<1>9. CallsFit'
  <2> SUFFICES ASSUME NEW u \in Callers PROVE CallFits(u)'
    BY DEF CallsFit
  <2>1. CASE u = t
    BY <1>3, <1>4, <1>5, <1>6, <2>1 DEF CallFits
  <2>2. CASE u # t /\ call[u].on = f
    BY <1>3, <1>5, <1>6, <2>2 DEF CallFits
  <2>3. CASE u # t /\ call[u].on # f
    BY <1>3, <1>4, <1>5, <2>3, Fields DEF CallFits, CallsFit, SocketsInv, Serves
  <2> QED
    BY <2>1, <2>2, <2>3
<1>10. OneBuilder'
  <2>1. \A u \in Callers :
            /\ call'[u].on = call[u].on
            /\ call'[u].does \in Builders => call[u].does \in Builders
    BY <1>0, <1>5, <1>6
  <2> SUFFICES ASSUME NEW u \in Callers, NEW v \in Callers, call'[u].does \in Builders,
                      call'[v].does \in Builders, call'[u].on = call'[v].on
               PROVE  u = v
    BY DEF OneBuilder
  <2>2. call[u].does \in Builders /\ call[v].does \in Builders
    BY <2>1
  <2>3. call[u].on = call[v].on
    BY <2>1
  <2> QED
    BY <2>2, <2>3 DEF OneBuilder, SocketsInv
<1>11. AddressesLead'
  <2> SUFFICES ASSUME NEW b \in Addresses, leads'[b] \in Sockets
               PROVE  /\ sock'[leads'[b]].state \in {"bound", "listening"}
                      /\ sock'[leads'[b]].family = Family(b)
    BY DEF AddressesLead
  <2>1. CASE b = a
    BY <1>1, <1>2, <1>4, <2>1, Fields DEF SocketsInv
  <2>2. CASE b # a
    <3>1. leads'[b] = leads[b]
      BY <1>1, <2>2, Fields DEF SocketsInv
    <3> QED
      BY <1>4, <3>1, <1>6 DEF AddressesLead, SocketsInv
  <2> QED
    BY <2>1, <2>2
<1>12. AcceptAnswers'
  BY <1>3, <1>4, <1>5, <1>6, <1>7, Fields, AnswersStay DEF SocketsInv
<1> QED
  BY <1>7, <1>8, <1>9, <1>10, <1>11, <1>12 DEF SocketsInv

(* The call of a thread changes, to one that makes nothing, and it forgets *)
(* what try_wait() said unless it stays with that server.                  *)
LEMMA CallBegins ==
  ASSUME SocketsInv, NEW t \in Callers, call[t].does = "nothing", UNCHANGED <<sock, leads>>,
         NEW c \in Calls, call' = [call EXCEPT ![t] = c], c.does \in {"nothing", "reconnect", "accept"},
         c.does = "reconnect" => sock[c.on].owner = "object" /\ sock[c.on].state \in {"new", "connected"},
         c.does = "accept" => Serves(c.on),
         promised' \in [Callers -> 0 .. Backlog], taken' \in [Callers -> 0 .. Backlog],
         \A u \in Callers \ {t} : promised'[u] = promised[u] /\ taken'[u] = taken[u],
         promised'[t] # 0 => c.does # "reconnect" /\ Serves(c.on),
         sock[c.on].waiting + taken'[t] >= promised'[t]
  PROVE  SocketsInv'
<1>1. call'[t] = c /\ \A u \in Callers \ {t} : call'[u] = call[u]
  BY Fields DEF SocketsInv
<1>2. SocketsTypeOK'
  BY DEF SocketsInv, SocketsTypeOK
<1>3. AllKnown'
  BY <1>1 DEF SocketsInv, AllKnown, Known, NoSocket, Builders
<1>4. CallsFit'
  BY <1>1 DEF SocketsInv, CallsFit, CallFits, Serves
<1>5. OneBuilder'
  BY <1>1 DEF SocketsInv, OneBuilder, Builders
<1>6. AddressesLead' /\ AcceptAnswers'
  BY <1>1 DEF SocketsInv, AddressesLead, AcceptAnswers
<1> QED
  BY <1>2, <1>3, <1>4, <1>5, <1>6 DEF SocketsInv

(* try_wait() tells a thread whether a connection waits.                   *)
LEMMA TryWaitKeeps == ASSUME SocketsInv, NEW t \in Callers, TryWait(t) PROVE SocketsInv'
<1>1. PICK f \in Listening :
          call' = [call EXCEPT ![t] = [NoCall EXCEPT !.on = f]] /\ Told(t, Pending(f))
  BY DEF TryWait
<1>2. call[t].does = "nothing" /\ UNCHANGED <<sock, leads>>
  BY DEF TryWait, Idle
<1> DEFINE c == [NoCall EXCEPT !.on = f]
<1>3. f \in Sockets /\ Serves(f)
  BY DEF Listening, Serves
<1>4. c \in Calls /\ c.does = "nothing" /\ c.on = f
  BY <1>3, NoneTyped DEF Calls, NoCall
<1>5. /\ promised'[t] = sock[f].waiting /\ taken'[t] = 0 /\ sock[f].waiting \in 0 .. Backlog
      /\ promised' \in [Callers -> 0 .. Backlog] /\ taken' \in [Callers -> 0 .. Backlog]
      /\ \A u \in Callers \ {t} : promised'[u] = promised[u] /\ taken'[u] = taken[u]
  BY <1>1, <1>3, WaitingCounted, SocketsAssumption DEF Told, Pending, SocketsInv, SocketsTypeOK
<1>6. sock[f].waiting + taken'[t] >= promised'[t]
  BY <1>5
<1> HIDE DEF c
<1> QED
  BY <1>1, <1>2, <1>3, <1>4, <1>5, <1>6, CallBegins DEF c

(* A thread calls accept() of a server.                                    *)
LEMMA CallAcceptKeeps == ASSUME SocketsInv, NEW t \in Callers, CallAccept(t) PROVE SocketsInv'
<1>1. PICK f \in Listening :
          /\ call' = [call EXCEPT ![t] = [NoCall EXCEPT !.does = "accept", !.on = f]]
          /\ IF f = call[t].on THEN UNCHANGED <<promised, taken>> ELSE Told(t, 0)
  BY DEF CallAccept
<1>2. call[t].does = "nothing" /\ UNCHANGED <<sock, leads>>
  BY DEF CallAccept, Idle
<1> DEFINE c == [NoCall EXCEPT !.does = "accept", !.on = f]
<1>3. f \in Sockets /\ Serves(f)
  BY DEF Listening, Serves
<1>4. c \in Calls /\ c.does = "accept" /\ c.on = f
  BY <1>3, NoneTyped DEF Calls, NoCall
<1>5. /\ promised' \in [Callers -> 0 .. Backlog] /\ taken' \in [Callers -> 0 .. Backlog]
      /\ \A u \in Callers \ {t} : promised'[u] = promised[u] /\ taken'[u] = taken[u]
  BY <1>1, SocketsAssumption DEF Told, SocketsInv, SocketsTypeOK
<1>6. sock[f].waiting + taken'[t] >= promised'[t]
  <2>1. CASE f = call[t].on
    BY <1>1, <2>1 DEF SocketsInv, AcceptAnswers
  <2>2. CASE f # call[t].on
    <3>1. promised'[t] = 0 /\ taken'[t] = 0
      BY <1>1, <2>2 DEF Told, SocketsInv, SocketsTypeOK
    <3> QED
      BY <1>3, <3>1, WaitingCounted DEF SocketsInv
  <2> QED
    BY <2>1, <2>2
<1> HIDE DEF c
<1> QED
  BY <1>1, <1>2, <1>3, <1>4, <1>5, <1>6, CallBegins DEF c

(* A thread calls connect() of an object.                                  *)
LEMMA ReconnectKeeps == ASSUME SocketsInv, NEW t \in Callers, Reconnect(t) PROVE SocketsInv'
<1>1. PICK f \in Sockets, s \in Strings :
          /\ sock[f].owner = "object" /\ sock[f].state \in {"new", "connected"}
          /\ call' = [call EXCEPT ![t] = [does |-> "reconnect", on |-> f, with |-> s]]
  BY DEF Reconnect
<1>2. call[t].does = "nothing" /\ UNCHANGED <<sock, leads>> /\ Told(t, 0)
  BY DEF Reconnect, Idle
<1> DEFINE c == [does |-> "reconnect", on |-> f, with |-> s]
<1>3. c \in Calls /\ c.does = "reconnect" /\ c.on = f
  BY DEF Calls
<1>4. /\ promised'[t] = 0 /\ taken'[t] = 0
      /\ promised' \in [Callers -> 0 .. Backlog] /\ taken' \in [Callers -> 0 .. Backlog]
      /\ \A u \in Callers \ {t} : promised'[u] = promised[u] /\ taken'[u] = taken[u]
  BY <1>2, SocketsAssumption DEF Told, SocketsInv, SocketsTypeOK
<1>5. sock[f].waiting + taken'[t] >= promised'[t]
  BY <1>4, WaitingCounted DEF SocketsInv
<1> HIDE DEF c
<1> QED
  BY <1>1, <1>2, <1>3, <1>4, <1>5, CallBegins DEF c

(* The program removes the file of an address.                             *)
LEMMA UnlinkKeeps == ASSUME SocketsInv, Unlink PROVE SocketsInv'
<1>1. SocketsTypeOK' /\ AddressesLead'
  BY Fields DEF Unlink, SocketsInv, SocketsTypeOK, AddressesLead, Addresses
<1>2. AllKnown' /\ CallsFit' /\ OneBuilder' /\ AcceptAnswers'
  BY DEF Unlink, SocketsInv, AllKnown, Known, NoSocket, CallsFit, CallFits, Serves, OneBuilder, AcceptAnswers
<1> QED
  BY <1>1, <1>2 DEF SocketsInv

(* Where connect() leads: the socket itself is connected; a server that    *)
(* it meets has one more connection that waits.                            *)
LEMMA ConnectDoes ==
  ASSUME SocketsInv, NEW t \in Callers, NEW f \in Sockets, f = call[t].on, Connect(t)
  PROVE  /\ sock'[f].owner = "object" /\ sock'[f].state = "connected"
         /\ sock'[f].waiting = sock[f].waiting /\ sock'[f].family = sock[f].family
         /\ sock' \in [Sockets -> Kinds]
         /\ \A g \in Sockets \ {f} :
               \/ sock'[g] = sock[g]
               \/ /\ sock[g].state = "listening" /\ sock'[g].owner = sock[g].owner
                  /\ sock'[g].state = sock[g].state /\ sock'[g].family = sock[g].family
                  /\ sock'[g].waiting = sock[g].waiting + 1
<1>1. PICK a \in To(t) :
       /\ Connectable(t, a)
       /\ IF sock[f].stream
          THEN \E g \in Server(a) :
              /\ sock[g].waiting < Backlog
              /\ sock' = [sock EXCEPT ![g].waiting = @ + 1, ![f].owner = "object",
                                      ![f].state = "connected"]
          ELSE Becomes(f, "object", "connected")
  BY DEF Connect
<1>2. sock[f] \in Kinds
  BY Fields DEF SocketsInv
<1>3. [[sock[f] EXCEPT !.owner = "object"] EXCEPT !.state = "connected"] \in Kinds
  <2>1. [sock[f] EXCEPT !.owner = "object"] \in Kinds
    BY <1>2, FieldChanges
  <2> QED
    BY <2>1, FieldChanges
<1>4. CASE sock[f].stream
  <2>1. PICK g \in Server(a) :
              /\ sock[g].waiting < Backlog
              /\ sock' = [sock EXCEPT ![g].waiting = @ + 1, ![f].owner = "object",
                                      ![f].state = "connected"]
    BY <1>1, <1>4
  <2>2. g \in Sockets /\ g # f /\ sock[g].state = "listening"
    BY <1>1, <1>4 DEF Server, Connectable
  <2>3. sock[g] \in Kinds
    BY <2>2, Fields DEF SocketsInv
  <2>4. /\ sock'[g] = [sock[g] EXCEPT !.waiting = @ + 1]
        /\ sock'[f] = [[sock[f] EXCEPT !.owner = "object"] EXCEPT !.state = "connected"]
        /\ \A h \in Sockets \ {f, g} : sock'[h] = sock[h]
        /\ sock' = [h \in Sockets |-> sock'[h]]
    BY <2>1, <2>2, Fields DEF SocketsInv
  <2>5. sock'[g] \in Kinds
    <3>1. sock[g].waiting + 1 \in 0 .. Backlog
      BY <2>1, <2>2, WaitingCounted DEF SocketsInv
    <3>2. [sock[g] EXCEPT !.waiting = sock[g].waiting + 1] \in Kinds
      BY <2>3, <3>1, FieldChanges
    <3> QED
      BY <2>4, <3>2
  <2>6. sock' \in [Sockets -> Kinds]
    BY <1>3, <2>4, <2>5, Fields DEF SocketsInv
  <2> QED
    BY <1>2, <2>2, <2>3, <2>4, <2>6 DEF Kinds
<1>5. CASE ~sock[f].stream
  <2>1. sock' = [sock EXCEPT ![f].owner = "object", ![f].state = "connected"]
    BY <1>1, <1>5 DEF Becomes
  <2>2. /\ sock'[f] = [[sock[f] EXCEPT !.owner = "object"] EXCEPT !.state = "connected"]
        /\ \A h \in Sockets \ {f} : sock'[h] = sock[h]
        /\ sock' = [h \in Sockets |-> sock'[h]]
    BY <2>1, Fields DEF SocketsInv
  <2>3. sock' \in [Sockets -> Kinds]
    BY <1>3, <2>2, Fields DEF SocketsInv
  <2> QED
    BY <1>2, <2>2, <2>3 DEF Kinds
<1> QED
  BY <1>4, <1>5

(* connect() of a constructor or of an object succeeds.                    *)
LEMMA ConnectKeeps == ASSUME SocketsInv, NEW t \in Callers, Connect(t) PROVE SocketsInv'
<1>1. PICK f \in Sockets : f = call[t].on
  BY Fields DEF SocketsInv
<1>2. /\ sock'[f].owner = "object" /\ sock'[f].state = "connected"
      /\ sock'[f].waiting = sock[f].waiting /\ sock'[f].family = sock[f].family
      /\ sock' \in [Sockets -> Kinds]
      /\ \A g \in Sockets \ {f} :
               \/ sock'[g] = sock[g]
               \/ /\ sock[g].state = "listening" /\ sock'[g].owner = sock[g].owner
                  /\ sock'[g].state = sock[g].state /\ sock'[g].family = sock[g].family
                  /\ sock'[g].waiting = sock[g].waiting + 1
  BY <1>1, ConnectDoes
<1>3. /\ call' = [call EXCEPT ![t] = NoCall] /\ UNCHANGED <<leads, promised, taken>>
      /\ call[t].does \in {"connect", "reconnect"}
  BY DEF Connect, Returns
<1>4. call'[t] = NoCall /\ \A u \in Callers \ {t} : call'[u] = call[u]
  BY <1>3, Fields DEF SocketsInv
<1>5. sock[f].state \in {"new", "connected"} /\ promised[t] = 0
  BY <1>1, <1>3 DEF SocketsInv, CallsFit, CallFits
<1>6. \A u \in Callers \ {t} :
         call[u].on = f => promised[u] = 0 /\ call[u].does \in {"nothing", "reconnect"}
  <2> SUFFICES ASSUME NEW u \in Callers \ {t}, call[u].on = f
               PROVE  promised[u] = 0 /\ call[u].does \in {"nothing", "reconnect"}
    OBVIOUS
  <2>1. CASE call[t].does = "connect"
    BY <1>1, <2>1, BuilderAlone DEF Builders
  <2>2. CASE call[t].does = "reconnect"
    <3>1. sock[f].owner = "object"
      BY <1>1, <2>2 DEF SocketsInv, CallsFit, CallFits
    <3>2. CallFits(u) /\ call[u].does \in {"nothing", "connect", "reconnect", "bind", "listen", "accept"}
      BY Fields DEF SocketsInv, CallsFit, Calls
    <3> QED
      BY <1>5, <3>1, <3>2 DEF CallFits, Serves
  <2> QED
    BY <1>3, <2>1, <2>2
<1>7. SocketsTypeOK'
  BY <1>2, <1>3, NoneTyped DEF SocketsInv, SocketsTypeOK
<1>8. AllKnown'
  <2>1. Known(f)'
    BY <1>2, <1>5 DEF Known, AllKnown, SocketsInv
  <2>2. ASSUME NEW g \in Sockets \ {f} PROVE Known(g)'
    <3>1. Known(g)
      BY DEF AllKnown, SocketsInv
    <3>2. CASE sock'[g] = sock[g]
      BY <1>1, <1>4, <3>1, <3>2 DEF Known, NoSocket
    <3>3. CASE /\ sock[g].state = "listening" /\ sock'[g].owner = sock[g].owner
               /\ sock'[g].state = sock[g].state
      BY <3>1, <3>3 DEF Known
    <3> QED
      BY <1>2, <3>2, <3>3
  <2> QED
    BY <2>1, <2>2 DEF AllKnown
<1>9. CallsFit'
  <2> SUFFICES ASSUME NEW u \in Callers PROVE CallFits(u)'
    BY DEF CallsFit
  <2>1. CASE u = t
    BY <1>3, <1>4, <1>5, <2>1 DEF CallFits, NoCall
  <2>2. CASE u # t /\ call[u].on = f
    BY <1>2, <1>3, <1>4, <1>6, <2>2 DEF CallFits
  <2>3. CASE u # t /\ call[u].on # f
    <3>1. /\ call'[u] = call[u] /\ call[u].on \in Sockets
          /\ sock'[call[u].on].owner = sock[call[u].on].owner
          /\ sock'[call[u].on].state = sock[call[u].on].state
      BY <1>2, <1>4, <2>3, Fields DEF SocketsInv
    <3> QED
      BY <1>3, <3>1 DEF CallFits, CallsFit, SocketsInv, Serves
  <2> QED
    BY <2>1, <2>2, <2>3
<1>10. OneBuilder'
  BY <1>4 DEF OneBuilder, SocketsInv, NoCall, Builders
<1>11. AddressesLead'
  BY <1>2, <1>3, <1>5 DEF AddressesLead, SocketsInv
<1>12. AcceptAnswers'
  <2> SUFFICES ASSUME NEW u \in Callers, promised[u] # 0
               PROVE  sock'[call'[u].on].waiting + taken[u] >= sock[call[u].on].waiting + taken[u]
    BY <1>3, <1>7, AnswersKept
  <2>1. u # t /\ call[u].on # f /\ call[u].on \in Sockets /\ taken[u] \in Nat
    BY <1>5, <1>6, Fields DEF SocketsInv, SocketsTypeOK
  <2> DEFINE g == call[u].on
  <2>2. g \in Sockets \ {f} /\ sock[g].waiting \in Nat /\ call'[u].on = g
    BY <1>4, <2>1, WaitingCounted DEF SocketsInv
  <2>3. sock'[g] = sock[g] \/ sock'[g].waiting = sock[g].waiting + 1
    BY <1>2, <2>2
  <2> HIDE DEF g
  <2>4. sock'[g].waiting + taken[u] >= sock[g].waiting + taken[u]
    BY <2>1, <2>2, <2>3
  <2> QED
    BY <2>2, <2>4 DEF g
<1> QED
  BY <1>7, <1>8, <1>9, <1>10, <1>11, <1>12 DEF SocketsInv

(* socket(fd): an object for a descriptor that was free.                   *)
LEMMA AdoptKeeps == ASSUME SocketsInv, NEW f \in Sockets, Adopt(f) PROVE SocketsInv'
<1>1. PICK d \in Domains : sock' = [sock EXCEPT ![f] = [NoSocket EXCEPT
                              !.owner = "object", !.m_domain = "unset", !.family = d]]
  BY DEF Adopt
<1>2. sock[f] = NoSocket /\ UNCHANGED <<leads, call, promised, taken>>
  BY DEF Adopt, Lowest, Free, SocketsInv, AllKnown, Known
<1>3. /\ sock'[f].owner = "object" /\ sock'[f].state = "new" /\ sock'[f].waiting = 0
      /\ \A g \in Sockets \ {f} : sock'[g] = sock[g]
  BY <1>1, Fields DEF SocketsInv, NoSocket
<1>4. SocketsTypeOK'
  <2>1. [NoSocket EXCEPT !.owner = "object", !.m_domain = "unset", !.family = d] \in Kinds
    <3>1. /\ "unset" \in Domains \cup {"unset"} /\ "object" \in {"object", "constructor", "lost", "closed"}
          /\ TRUE \in BOOLEAN /\ "new" \in {"new", "bound", "listening", "connected"}
      OBVIOUS
    <3> QED
      BY <3>1, OpenedTyped, Zenon
  <2>2. sock'[f] = [NoSocket EXCEPT !.owner = "object", !.m_domain = "unset", !.family = d]
    BY <1>1, Fields DEF SocketsInv
  <2>3. sock'[f] \in Kinds
    BY <2>1, <2>2, Zenon
  <2> QED
    BY <1>1, <1>2, <2>3 DEF SocketsTypeOK, SocketsInv
<1>5. \A u \in Callers : call[u].does # "nothing" \/ promised[u] # 0 => call[u].on # f
  BY <1>2, Fields DEF SocketsInv, CallsFit, CallFits, NoSocket, Serves, Calls
<1>6. AllKnown'
  <2>1. Known(f)'
    BY <1>3 DEF Known
  <2>2. ASSUME NEW g \in Sockets \ {f} PROVE Known(g)'
    <3>1. Known(g) /\ sock'[g] = sock[g] /\ call' = call
      BY <1>2, <1>3 DEF AllKnown, SocketsInv
    <3>2. sock[g] = NoSocket => sock'[g] = NoSocket
      BY <3>1
    <3> QED
      BY <3>1, <3>2 DEF Known
  <2> QED
    BY <2>1, <2>2 DEF AllKnown
<1>7. CallsFit'
  BY <1>2, <1>3, <1>5, Fields DEF CallsFit, CallFits, SocketsInv, Serves
<1>8. OneBuilder'
  BY <1>2 DEF OneBuilder, SocketsInv
<1>9. AddressesLead'
  <2> SUFFICES ASSUME NEW a \in Addresses, leads[a] \in Sockets
               PROVE  /\ sock'[leads[a]].state \in {"bound", "listening"}
                      /\ sock'[leads[a]].family = Family(a)
    BY <1>2 DEF AddressesLead
  <2>1. sock[leads[a]].state \in {"bound", "listening"} /\ sock[leads[a]].family = Family(a)
    BY DEF AddressesLead, SocketsInv
  <2>2. leads[a] # f
    BY <1>2, <2>1 DEF NoSocket
  <2> QED
    BY <1>3, <2>1, <2>2
<1>10. AcceptAnswers'
  BY <1>2, <1>3, <1>4, <1>5, Fields, AnswersStay DEF SocketsInv
<1> QED
  BY <1>4, <1>6, <1>7, <1>8, <1>9, <1>10 DEF SocketsInv

(* accept() takes a connection, of which others may have been told.        *)
LEMMA AcceptKeeps == ASSUME SocketsInv, NEW t \in Callers, Accept(t) PROVE SocketsInv'
<1>1. PICK f \in Sockets : f = call[t].on
  BY Fields DEF SocketsInv
<1>2. PICK g \in Lowest(Free), o \in {"object", "lost"} :
          sock' = [sock EXCEPT ![f].waiting = @ - 1,
                               ![g] = [NoSocket EXCEPT !.owner = o, !.m_domain = "unset",
                                          !.family = sock[f].family, !.state = "connected"]]
  BY <1>1 DEF Accept
<1>3. /\ sock[f].waiting > 0 /\ Serves(f)
      /\ promised' = [promised EXCEPT ![t] = 0]
      /\ taken' = [u \in Callers |->
                      IF u = t THEN 0 ELSE IF u \in Beaten(t) THEN taken[u] + 1 ELSE taken[u]]
      /\ call' = [call EXCEPT ![t] = NoCall] /\ leads' = leads
  BY <1>1 DEF Accept, Returns, SocketsInv, CallsFit, CallFits
<1>4. g \in Sockets /\ sock[g] = NoSocket /\ g # f
  BY <1>3 DEF Lowest, Free, SocketsInv, AllKnown, Known, Serves
<1>5. /\ sock'[g] = [NoSocket EXCEPT !.owner = o, !.m_domain = "unset",
                                   !.family = sock[f].family, !.state = "connected"]
      /\ sock'[f] = [sock[f] EXCEPT !.waiting = sock[f].waiting - 1]
      /\ \A h \in Sockets \ {f, g} : sock'[h] = sock[h]
      /\ sock' = [h \in Sockets |-> sock'[h]]
  BY <1>2, <1>4, Fields DEF SocketsInv
<1>6. /\ sock'[g].owner = o /\ sock'[g].state = "connected" /\ sock'[g].waiting = 0
      /\ sock'[f].owner = sock[f].owner /\ sock'[f].state = sock[f].state
      /\ sock'[f].family = sock[f].family /\ sock'[f].waiting = sock[f].waiting - 1
  BY <1>5, Fields DEF NoSocket, SocketsInv, Kinds
<1>7. call'[t] = NoCall /\ \A u \in Callers \ {t} : call'[u] = call[u]
  BY <1>3, Fields DEF SocketsInv
<1>8. SocketsTypeOK'
  <2>1. sock'[g] \in Kinds
    <3>1. /\ sock[f].family \in Domains /\ "unset" \in Domains \cup {"unset"}
          /\ o \in {"object", "constructor", "lost", "closed"}
          /\ "connected" \in {"new", "bound", "listening", "connected"}
      BY Fields DEF SocketsInv, Kinds
    <3>2. [NoSocket EXCEPT !.owner = o, !.m_domain = "unset", !.family = sock[f].family,
                           !.state = "connected"] \in Kinds
      BY <3>1, OpenedTyped, Zenon
    <3> QED
      BY <1>5, <3>2, Zenon
  <2>2. sock'[f] \in Kinds
    <3>1. sock[f].waiting - 1 \in 0 .. Backlog /\ sock[f] \in Kinds
      BY <1>3, WaitingCounted, Fields DEF SocketsInv
    <3>2. [sock[f] EXCEPT !.waiting = sock[f].waiting - 1] \in Kinds
      BY <3>1, FieldChanges
    <3> QED
      BY <1>5, <3>2, Zenon
  <2>3. sock' \in [Sockets -> Kinds]
    BY <1>5, <2>1, <2>2, Fields DEF SocketsInv
  <2>4. promised' \in [Callers -> 0 .. Backlog] /\ taken' \in [Callers -> 0 .. Backlog]
    <3>1. promised' \in [Callers -> 0 .. Backlog]
      BY <1>3, SocketsAssumption DEF SocketsInv, SocketsTypeOK
    <3>2. ASSUME NEW u \in Callers PROVE taken'[u] \in 0 .. Backlog
      <4>1. promised[u] \in 0 .. Backlog /\ taken[u] \in 0 .. Backlog /\ Backlog \in Nat
        BY SocketsAssumption DEF SocketsInv, SocketsTypeOK
      <4>2. u \in Beaten(t) => taken[u] + 1 \in 0 .. Backlog
        BY <4>1 DEF Beaten
      <4> QED
        BY <1>3, <4>1, <4>2
    <3>3. taken' = [u \in Callers |-> taken'[u]]
      BY <1>3
    <3> QED
      BY <3>1, <3>2, <3>3
  <2> QED
    BY <1>3, <2>3, <2>4, NoneTyped DEF SocketsInv, SocketsTypeOK
<1>9. \A u \in Callers : call[u].does # "nothing" \/ promised[u] # 0 => call[u].on # g
  BY <1>4, Fields DEF SocketsInv, CallsFit, CallFits, NoSocket, Serves, Calls
<1>10. AllKnown'
  <2>1. Known(g)'
    BY <1>6 DEF Known
  <2>2. Known(f)'
    BY <1>3, <1>6 DEF Known, Serves
  <2>3. ASSUME NEW h \in Sockets \ {f, g} PROVE Known(h)'
    <3>1. Known(h) /\ sock'[h] = sock[h]
      BY <1>5 DEF AllKnown, SocketsInv
    <3>2. call[t].does \notin Builders
      BY DEF Accept, Builders
    <3> QED
      BY <1>7, <3>1, <3>2 DEF Known, NoSocket
  <2> QED
    BY <2>1, <2>2, <2>3 DEF AllKnown
<1>15. promised'[t] = 0 /\ \A u \in Callers \ {t} : promised'[u] = promised[u]
  BY <1>3 DEF SocketsInv, SocketsTypeOK
<1>11. CallsFit'
  <2> SUFFICES ASSUME NEW u \in Callers PROVE CallFits(u)'
    BY DEF CallsFit
  <2>1. CASE u = t
    BY <1>7, <1>15, <2>1 DEF CallFits, NoCall
  <2>2. CASE u # t /\ call[u].does = "nothing" /\ promised[u] = 0
    BY <1>7, <1>15, <2>2 DEF CallFits
  <2>3. CASE u # t /\ (call[u].does # "nothing" \/ promised[u] # 0)
    <3>1. /\ call'[u] = call[u] /\ call[u].on \in Sockets
          /\ sock'[call[u].on].owner = sock[call[u].on].owner
          /\ sock'[call[u].on].state = sock[call[u].on].state
      BY <1>5, <1>6, <1>7, <1>9, <2>3, Fields DEF SocketsInv
    <3> QED
      BY <1>15, <2>3, <3>1 DEF CallFits, CallsFit, SocketsInv, Serves
  <2> QED
    BY <2>1, <2>2, <2>3
<1>12. OneBuilder'
  BY <1>7 DEF OneBuilder, SocketsInv, NoCall, Builders
<1>13. AddressesLead'
  <2> SUFFICES ASSUME NEW a \in Addresses, leads[a] \in Sockets
               PROVE  /\ sock'[leads[a]].state \in {"bound", "listening"}
                      /\ sock'[leads[a]].family = Family(a)
    BY <1>3 DEF AddressesLead
  <2>1. sock[leads[a]].state \in {"bound", "listening"} /\ sock[leads[a]].family = Family(a)
    BY DEF AddressesLead, SocketsInv
  <2>2. leads[a] # g
    BY <1>4, <2>1 DEF NoSocket
  <2> QED
    BY <1>5, <1>6, <2>1, <2>2
<1>14. AcceptAnswers'
  <2> SUFFICES ASSUME NEW u \in Callers \ {t}, promised[u] # 0
               PROVE  sock'[call'[u].on].waiting + taken'[u] >= promised[u]
    <3>1. sock'[call'[t].on].waiting + taken'[t] >= promised'[t]
      <4>1. call'[t].on \in Sockets /\ sock'[call'[t].on] \in Kinds /\ taken'[t] \in 0 .. Backlog
        BY <1>8 DEF SocketsTypeOK, Calls
      <4> DEFINE w == sock'[call'[t].on].waiting
      <4>2. w \in Nat /\ taken'[t] \in Nat
        BY <4>1 DEF Kinds
      <4> SUFFICES w + taken'[t] >= 0
        BY <1>15
      <4> HIDE DEF w
      <4> QED
        BY <4>2
    <3>2. ASSUME NEW u \in Callers \ {t}, promised[u] = 0
          PROVE  sock'[call'[u].on].waiting + taken'[u] >= promised[u]
      <4>1. call'[u].on \in Sockets /\ sock'[call'[u].on] \in Kinds /\ taken'[u] \in 0 .. Backlog
        BY <1>8 DEF SocketsTypeOK, Calls
      <4> DEFINE w == sock'[call'[u].on].waiting
      <4>2. w \in Nat /\ taken'[u] \in Nat
        BY <4>1 DEF Kinds
      <4> SUFFICES w + taken'[u] >= 0
        BY <3>2
      <4> HIDE DEF w
      <4> QED
        BY <4>2
    <3> QED
      BY <1>15, <3>1, <3>2 DEF AcceptAnswers
  <2>1. PICK h \in Sockets : h = call[u].on
    BY Fields DEF SocketsInv
  <2>2. /\ h # g /\ sock[h].waiting \in Nat /\ call'[u].on = h
        /\ taken[u] \in Nat /\ promised[u] \in Nat /\ sock[h].waiting + taken[u] >= promised[u]
    <3>1. h # g /\ call'[u].on = h
      BY <1>7, <1>9, <2>1
    <3>2. taken[u] \in 0 .. Backlog /\ promised[u] \in 0 .. Backlog
      BY DEF SocketsInv, SocketsTypeOK
    <3>3. sock[h].waiting + taken[u] >= promised[u]
      BY <2>1 DEF AcceptAnswers, SocketsInv
    <3>4. sock[h].waiting \in Nat
      BY WaitingCounted DEF SocketsInv
    <3> QED
      BY <3>1, <3>2, <3>3, <3>4
  <2>3. CASE h = f
    <3>1. taken'[u] = IF taken[u] < promised[u] THEN taken[u] + 1 ELSE taken[u]
      BY <1>1, <1>3, <2>1, <2>3 DEF Beaten
    <3>2. sock'[h].waiting = sock[h].waiting - 1 /\ sock[h].waiting > 0
      BY <1>3, <1>6, <2>3
    <3> QED
      BY <2>2, <3>1, <3>2
  <2>4. CASE h # f
    <3>1. taken'[u] = taken[u] /\ sock'[h] = sock[h]
      BY <1>1, <1>3, <1>5, <2>1, <2>2, <2>4 DEF Beaten
    <3> QED
      BY <2>2, <3>1
  <2> QED
    BY <2>3, <2>4
<1> QED
  BY <1>8, <1>10, <1>11, <1>12, <1>13, <1>14 DEF SocketsInv
-----------------------------------------------------------------------------
(* Every step of a thread or of the program keeps the invariant.           *)
LEMMA NextInv == SocketsInv /\ [SocketsNext]_socketVars => SocketsInv'
<1> SUFFICES ASSUME SocketsInv, [SocketsNext]_socketVars PROVE SocketsInv'
  OBVIOUS
<1>1. ASSUME NEW t \in Callers, OpenSocket(t) PROVE SocketsInv'
  BY <1>1, OpenSocketKeeps
<1>2. ASSUME NEW t \in Callers, Connect(t) PROVE SocketsInv'
  BY <1>2, ConnectKeeps
<1>3. ASSUME NEW t \in Callers, ConnectThrows(t) \/ BindThrows(t) \/ ListenThrows(t) PROVE SocketsInv'
  BY <1>3, ThrowKeeps DEF ConnectThrows, BindThrows, ListenThrows
<1>4. ASSUME NEW t \in Callers, Bind(t) PROVE SocketsInv'
  BY <1>4, BindKeeps
<1>5. ASSUME NEW t \in Callers, Listen(t) PROVE SocketsInv'
  BY <1>5, ListenKeeps
<1>6. ASSUME NEW t \in Callers, TryWait(t) PROVE SocketsInv'
  BY <1>6, TryWaitKeeps
<1>7. ASSUME NEW t \in Callers, CallAccept(t) PROVE SocketsInv'
  BY <1>7, CallAcceptKeeps
<1>8. ASSUME NEW t \in Callers, Accept(t) PROVE SocketsInv'
  BY <1>8, AcceptKeeps
<1>9. ASSUME NEW t \in Callers, AcceptThrows(t) PROVE SocketsInv'
  BY <1>9, AcceptThrowsKeeps
<1>10. ASSUME NEW t \in Callers, Reconnect(t) PROVE SocketsInv'
  BY <1>10, ReconnectKeeps
<1>11. ASSUME NEW f \in Sockets, Adopt(f) PROVE SocketsInv'
  BY <1>11, AdoptKeeps
<1>12. ASSUME NEW f \in Sockets, Destroy(f) PROVE SocketsInv'
  BY <1>12, DestroyKeeps
<1>13. ASSUME Unlink PROVE SocketsInv'
  BY <1>13, UnlinkKeeps
<1>14. ASSUME UNCHANGED socketVars PROVE SocketsInv'
  BY <1>14 DEF socketVars, SocketsInv, SocketsTypeOK, AllKnown, Known, NoSocket, CallsFit, CallFits, Serves,
               OneBuilder, AddressesLead, AcceptAnswers
<1> QED
  BY <1>1, <1>2, <1>3, <1>4, <1>5, <1>6, <1>7, <1>8, <1>9, <1>10, <1>11, <1>12, <1>13, <1>14
  DEF SocketsNext

(* So it holds in every behaviour.                                         *)
LEMMA InvariantHolds == SocketsSpec => []SocketsInv
  BY InitInv, NextInv, PTL DEF SocketsSpec

(* What Known and OneBuilder say, as DescriptorsOwned counts it.           *)
LEMMA OwnersCounted == ASSUME SocketsInv PROVE DescriptorsOwned
<1>1. ASSUME NEW f \in Sockets
      PROVE  Cardinality(Building(f)) = IF sock[f].owner = "constructor" THEN 1 ELSE 0
  <2>1. CASE sock[f].owner = "constructor"
    <3>1. PICK t \in Callers : call[t].does \in Builders /\ call[t].on = f
      BY <2>1 DEF SocketsInv, AllKnown, Known
    <3>2. Building(f) = {t}
      BY <3>1 DEF Building, SocketsInv, OneBuilder, Builders
    <3> QED
      BY <2>1, <3>2, FS_Singleton
  <2>2. CASE sock[f].owner # "constructor"
    <3>1. Building(f) = {}
      BY <2>2 DEF Building, SocketsInv, CallsFit, CallFits
    <3> QED
      BY <2>2, <3>1, FS_EmptySet
  <2> QED
    BY <2>1, <2>2
<1>2. ASSUME NEW f \in Sockets
      PROVE  /\ sock[f].owner = "lost" => sock[f].state = "connected"
             /\ sock[f].waiting > 0 => f \in Listening
  BY DEF SocketsInv, AllKnown, Known, Listening
<1> QED
  BY <1>1, <1>2 DEF DescriptorsOwned, SocketsInv, AddressesLead

(* Every descriptor that is open has one owner, however threads meet and   *)
(* whichever call fails; an address leads to a socket that is bound to it; *)
(* and the connections that try_wait() told of wait until somebody accepts *)
(* them.                                                                   *)
THEOREM SocketsKeepOwners == SocketsSpec => []SocketsOwned
<1>1. SocketsInv => SocketsOwned
  BY OwnersCounted DEF SocketsInv, SocketsOwned
<1> QED
  BY <1>1, InvariantHolds, PTL
=============================================================================
