---------------------------- MODULE S0MeterProofs ----------------------------
(***************************************************************************)
(* What is proved of S0Meter, for any channels, bytes of a count and       *)
(* bounds.                                                                 *)
(***************************************************************************)
EXTENDS S0Meter, WellFoundedInduction, TLAPS

------------------------------------------------------------------------------
(* Induction over the bytes of a count.  A set of numbers that has 0 and,  *)
(* with a number below the bound, the next one has all of them: otherwise  *)
(* there would be a least one that is missing.                             *)

LEMMA LessIsWellFounded == IsWellFoundedOn({p \in Nat \X Nat : p[1] < p[2]}, Nat)
  BY NatLessThanWellFounded DEF OpToRel

LEMMA LeastElement ==
  ASSUME NEW T, T \subseteq Nat, T # {}
  PROVE  \E x \in T : \A y \in T : x <= y
<1>1. PICK x \in T : \A y \in T : <<y, x>> \notin {p \in Nat \X Nat : p[1] < p[2]}
  BY LessIsWellFounded, WFMin, Zenon
<1>2. ASSUME NEW y \in T PROVE x <= y
  <2>1. x \in Nat /\ y \in Nat
    OBVIOUS
  <2>2. <<y, x>> \in Nat \X Nat /\ <<y, x>>[1] = y /\ <<y, x>>[2] = x
    BY <2>1
  <2>3. ~(y < x)
    BY <1>1, <2>2
  <2> QED
    BY <2>1, <2>3
<1> QED
  BY <1>2

LEMMA UpTo ==
  ASSUME NEW N \in Nat, NEW T, 0 \in T,
         \A k \in 0 .. N : k \in T /\ k < N => k + 1 \in T
  PROVE  \A k \in 0 .. N : k \in T
<1> DEFINE Missing == {k \in 0 .. N : k \notin T}
<1>1. SUFFICES ASSUME Missing # {} PROVE FALSE
  OBVIOUS
<1>2. Missing \subseteq Nat
  OBVIOUS
<1>3. PICK x \in Missing : \A y \in Missing : x <= y
  BY <1>1, <1>2, LeastElement
<1>4. x \in 0 .. N /\ x \notin T /\ x # 0
  BY <1>3
<1>5. x - 1 \in 0 .. N /\ x - 1 < N /\ (x - 1) + 1 = x /\ ~(x <= x - 1)
  BY <1>4
<1>6. x - 1 \in T
  BY <1>3, <1>5
<1> QED
  BY <1>4, <1>5, <1>6

------------------------------------------------------------------------------
(* The bytes of a count                                                    *)

LEMMA Sizes == Base \in Nat /\ Base >= 2 /\ Bytes \in Nat /\ Bytes >= 1
  BY ConstantAssumption

LEMMA WeightExists ==
  \E w : w = [b \in 0 .. Bytes |-> IF b = 0 THEN 1 ELSE Base * w[b - 1]]
<1> DEFINE Def(k, w) == w = [b \in 0 .. k |-> IF b = 0 THEN 1 ELSE Base * w[b - 1]]
           T == {k \in 0 .. Bytes : \E w : Def(k, w)}
<1>1. 0 \in T
  <2> DEFINE w == [b \in 0 .. 0 |-> 1]
  <2>1. Def(0, w)
    OBVIOUS
  <2>2. \E v : Def(0, v)
    BY <2>1
  <2>3. 0 \in 0 .. Bytes
    BY Sizes
  <2> QED
    BY <2>2, <2>3
<1>2. ASSUME NEW k \in 0 .. Bytes, k \in T, k < Bytes PROVE k + 1 \in T
  <2>1. PICK w : Def(k, w)
    BY <1>2
  <2> DEFINE v == [b \in 0 .. k + 1 |-> IF b = k + 1 THEN Base * w[k] ELSE w[b]]
  <2>2. ASSUME NEW b \in 0 .. k + 1
        PROVE  v[b] = IF b = 0 THEN 1 ELSE Base * v[b - 1]
    <3>1. CASE b = k + 1
      BY <3>1, Sizes
    <3>2. CASE b # k + 1
      <4>1. b \in 0 .. k /\ (b # 0 => b - 1 \in 0 .. k /\ b - 1 # k + 1)
        BY <3>2
      <4> QED
        BY <2>1, <4>1
    <3> QED
      BY <3>1, <3>2
  <2>3. Def(k + 1, v)
    BY <2>2
  <2>4. \E u : Def(k + 1, u)
    BY <2>3
  <2>5. k + 1 \in 0 .. Bytes
    BY <1>2, Sizes
  <2> QED
    BY <2>4, <2>5
<1>3. \A k \in 0 .. Bytes : k \in T
  <2> HIDE DEF T
  <2> QED
    BY <1>1, <1>2, UpTo, Sizes
<1>4. Bytes \in 0 .. Bytes
  BY Sizes
<1> QED
  BY <1>3, <1>4

LEMMA WeightIs ==
  Weight = [b \in 0 .. Bytes |-> IF b = 0 THEN 1 ELSE Base * Weight[b - 1]]
  BY WeightExists, Zenon DEF Weight

LEMMA WeightRule ==
  /\ Weight[0] = 1
  /\ \A b \in 0 .. Bytes - 1 : Weight[b + 1] = Base * Weight[b]
<1>1. 0 \in 0 .. Bytes /\ \A b \in 0 .. Bytes - 1 : b + 1 \in 0 .. Bytes /\ b + 1 # 0 /\ (b + 1) - 1 = b
  BY Sizes
<1>2. \A b \in 0 .. Bytes : Weight[b] = IF b = 0 THEN 1 ELSE Base * Weight[b - 1]
  BY WeightIs, Zenon
<1> QED
  BY <1>1, <1>2

LEMMA WeightType == \A b \in 0 .. Bytes : Weight[b] \in Nat /\ Weight[b] >= 1
<1> DEFINE T == {b \in 0 .. Bytes : Weight[b] \in Nat /\ Weight[b] >= 1}
<1>1. 0 \in T
  BY WeightRule, Sizes
<1>2. ASSUME NEW b \in 0 .. Bytes, b \in T, b < Bytes PROVE b + 1 \in T
  <2>1. Weight[b + 1] = Base * Weight[b] /\ b + 1 \in 0 .. Bytes
    BY <1>2, WeightRule, Sizes
  <2> DEFINE w == Weight[b]
  <2>2. w \in Nat /\ w >= 1
    BY <1>2
  <2> HIDE DEF w
  <2>3. Base * w \in Nat /\ Base * w >= 1
    BY <2>2, Sizes
  <2> QED
    BY <2>1, <2>3 DEF w
<1>3. \A b \in 0 .. Bytes : b \in T
  <2> HIDE DEF T
  <2> QED
    BY <1>1, <1>2, UpTo, Sizes
<1> QED
  BY <1>3

LEMMA SumExists ==
  ASSUME NEW f
  PROVE  \E s : s = [b \in 0 .. Bytes |-> IF b = 0 THEN 0 ELSE s[b - 1] + f[b - 1] * Weight[b - 1]]
<1> DEFINE Def(k, s) ==
             s = [b \in 0 .. k |-> IF b = 0 THEN 0 ELSE s[b - 1] + f[b - 1] * Weight[b - 1]]
           T == {k \in 0 .. Bytes : \E s : Def(k, s)}
<1>1. 0 \in T
  <2> DEFINE s == [b \in 0 .. 0 |-> 0]
  <2>1. Def(0, s)
    OBVIOUS
  <2>2. \E v : Def(0, v)
    BY <2>1
  <2>3. 0 \in 0 .. Bytes
    BY Sizes
  <2> QED
    BY <2>2, <2>3
<1>2. ASSUME NEW k \in 0 .. Bytes, k \in T, k < Bytes PROVE k + 1 \in T
  <2>1. PICK s : Def(k, s)
    BY <1>2
  <2> DEFINE v == [b \in 0 .. k + 1 |-> IF b = k + 1 THEN s[k] + f[k] * Weight[k] ELSE s[b]]
  <2>2. ASSUME NEW b \in 0 .. k + 1
        PROVE  v[b] = IF b = 0 THEN 0 ELSE v[b - 1] + f[b - 1] * Weight[b - 1]
    <3>1. CASE b = k + 1
      BY <3>1, Sizes
    <3>2. CASE b # k + 1
      <4>1. b \in 0 .. k /\ (b # 0 => b - 1 \in 0 .. k /\ b - 1 # k + 1)
        BY <3>2
      <4> QED
        BY <2>1, <4>1
    <3> QED
      BY <3>1, <3>2
  <2>3. Def(k + 1, v)
    BY <2>2
  <2>4. \E u : Def(k + 1, u)
    BY <2>3
  <2>5. k + 1 \in 0 .. Bytes
    BY <1>2, Sizes
  <2> QED
    BY <2>4, <2>5
<1>3. \A k \in 0 .. Bytes : k \in T
  <2> HIDE DEF T
  <2> QED
    BY <1>1, <1>2, UpTo, Sizes
<1>4. Bytes \in 0 .. Bytes
  BY Sizes
<1> QED
  BY <1>3, <1>4

\* Value, as the last of the sums of the lower bytes.
LEMMA SumRule ==
  ASSUME NEW f
  PROVE  \E s : /\ s[0] = 0
                /\ \A b \in 0 .. Bytes - 1 : s[b + 1] = s[b] + f[b] * Weight[b]
                /\ Value(f) = s[Bytes]
<1> DEFINE Def(s) ==
             s = [b \in 0 .. Bytes |-> IF b = 0 THEN 0 ELSE s[b - 1] + f[b - 1] * Weight[b - 1]]
           sum == CHOOSE s : Def(s)
<1>1. Def(sum)
  <2>1. \E s : Def(s)
    BY SumExists, Zenon
  <2> HIDE DEF Def
  <2> QED
    BY <2>1, Zenon
<1>2. Value(f) = sum[Bytes]
  BY Zenon DEF Value
<1> HIDE DEF sum
<1>3. 0 \in 0 .. Bytes /\ \A b \in 0 .. Bytes - 1 : b + 1 \in 0 .. Bytes /\ b + 1 # 0 /\ (b + 1) - 1 = b
  BY Sizes
<1>4. \A b \in 0 .. Bytes : sum[b] = IF b = 0 THEN 0 ELSE sum[b - 1] + f[b - 1] * Weight[b - 1]
  BY <1>1, Zenon
<1>5. sum[0] = 0 /\ \A b \in 0 .. Bytes - 1 : sum[b + 1] = sum[b] + f[b] * Weight[b]
  BY <1>3, <1>4
<1> QED
  BY <1>2, <1>5, Zenon

\* Division of a sum by one of its terms' factors.
LEMMA DivisionIs ==
  ASSUME NEW n \in Nat, NEW a \in Nat, a >= 1
  PROVE  n = (a * (n \div a)) + (n % a) /\ n % a \in 0 .. a - 1 /\ n \div a \in Nat
  BY Z3

LEMMA Division ==
  ASSUME NEW a \in Nat, a >= 1, NEW q \in Nat, NEW r \in 0 .. a - 1
  PROVE  (a * q + r) \div a = q /\ (a * q + r) % a = r
  BY Z3

\* A byte of n on top of the lower ones.
LEMMA NextByte ==
  ASSUME NEW n \in Nat, NEW W \in Nat, W >= 1
  PROVE  (n % W) + ((n \div W) % Base) * W = n % (Base * W)
<1> DEFINE q == n \div W
           r == n % W
<1>1. q \in Nat /\ r \in 0 .. W - 1 /\ n = (W * q) + r
  BY DivisionIs
<1> HIDE DEF q, r
<1> DEFINE d == q % Base
           t == q \div Base
<1>2. d \in 0 .. Base - 1 /\ t \in Nat /\ q = (Base * t) + d
  <2>1. Base \in Nat /\ Base >= 1
    BY Sizes
  <2> QED
    BY <1>1, <2>1, DivisionIs
<1> HIDE DEF d, t
<1>3. Base * W \in Nat /\ Base * W >= 1 /\ W * d + r \in Nat
  BY <1>1, <1>2, Sizes
<1>4. n = (Base * W) * t + (W * d + r)
  <2>1. W * q = W * (Base * t) + W * d
    BY <1>1, <1>2, Sizes
  <2>2. W * (Base * t) = (Base * W) * t
    BY <1>2, Sizes
  <2> QED
    BY <1>1, <1>2, <2>1, <2>2, Sizes
<1>5. W * d + r < Base * W
  <2>1. W * d <= W * (Base - 1)
    BY <1>2, Sizes
  <2>2. W * (Base - 1) = Base * W - W
    BY Sizes
  <2> QED
    BY <1>1, <1>2, <2>1, <2>2, Sizes
<1>6. n % (Base * W) = W * d + r
  <2> DEFINE a == Base * W
             c == W * d + r
  <2>1. a \in Nat /\ a >= 1 /\ c \in 0 .. a - 1
    BY <1>3, <1>5
  <2> HIDE DEF a, c
  <2>2. (a * t + c) % a = c
    BY <1>2, <2>1, Division
  <2> QED
    BY <1>4, <2>2 DEF a, c
<1>7. d * W = W * d
  BY <1>2, Sizes
<1> QED
  BY <1>1, <1>2, <1>3, <1>6, <1>7, Sizes DEF d, q, r

\* A count is the value of its bytes.
LEMMA ValueOfBytes ==
  ASSUME NEW n \in Count, NEW f, \A b \in 0 .. Bytes - 1 : f[b] = ByteOf(n, b)
  PROVE  Value(f) = n
<1>1. PICK s : /\ s[0] = 0
               /\ \A b \in 0 .. Bytes - 1 : s[b + 1] = s[b] + f[b] * Weight[b]
               /\ Value(f) = s[Bytes]
  BY SumRule
<1>2. n \in Nat /\ n < Weight[Bytes]
  BY WeightType, Sizes DEF Count
<1> DEFINE T == {k \in 0 .. Bytes : s[k] = n % Weight[k]}
<1>3. 0 \in T
  <2>1. n % 1 = 0
    <3>1. n = 1 * n + 0
      BY <1>2
    <3> QED
      BY <1>2, <3>1, Division
  <2> QED
    BY <1>1, <2>1, WeightRule, Sizes
<1>4. ASSUME NEW k \in 0 .. Bytes, k \in T, k < Bytes PROVE k + 1 \in T
  <2>1. k \in 0 .. Bytes - 1 /\ k + 1 \in 0 .. Bytes
    BY <1>4, Sizes
  <2>2. s[k + 1] = (n % Weight[k]) + ((n \div Weight[k]) % Base) * Weight[k]
    BY <1>1, <1>4, <2>1 DEF ByteOf
  <2>3. Weight[k + 1] = Base * Weight[k] /\ Weight[k] \in Nat /\ Weight[k] >= 1
    BY <2>1, WeightRule, WeightType
  <2>4. s[k + 1] = n % Weight[k + 1]
    BY <1>2, <2>2, <2>3, NextByte
  <2> QED
    BY <2>1, <2>4
<1>5. \A k \in 0 .. Bytes : k \in T
  <2> HIDE DEF T
  <2> QED
    BY <1>3, <1>4, UpTo, Sizes
<1>6. s[Bytes] = n % Weight[Bytes]
  BY <1>5, Sizes
<1>7. n % Weight[Bytes] = n
  <2>1. n = Weight[Bytes] * 0 + n /\ n \in 0 .. Weight[Bytes] - 1
    BY <1>2, WeightType, Sizes
  <2> QED
    BY <2>1, WeightType, Division, Sizes
<1> QED
  BY <1>1, <1>6, <1>7

\* The sum of the lower bytes is less than one in the next byte.
LEMMA SumBelow ==
  ASSUME NEW f \in [0 .. Bytes - 1 -> Byte], NEW s, s[0] = 0,
         \A b \in 0 .. Bytes - 1 : s[b + 1] = s[b] + f[b] * Weight[b]
  PROVE  \A k \in 0 .. Bytes : s[k] \in 0 .. Weight[k] - 1
<1> DEFINE T == {k \in 0 .. Bytes : s[k] \in 0 .. Weight[k] - 1}
<1>1. 0 \in T
  BY WeightRule, Sizes
<1>2. ASSUME NEW k \in 0 .. Bytes, k \in T, k < Bytes PROVE k + 1 \in T
  <2>1. k \in 0 .. Bytes - 1 /\ k + 1 \in 0 .. Bytes
    BY <1>2, Sizes
  <2> DEFINE W == Weight[k]
             d == f[k]
             x == s[k]
  <2>2. W \in Nat /\ W >= 1 /\ Weight[k + 1] = Base * W
    BY <2>1, WeightRule, WeightType
  <2>3. d \in 0 .. Base - 1 /\ x \in 0 .. W - 1 /\ s[k + 1] = x + d * W
    BY <1>2, <2>1 DEF Byte
  <2> HIDE DEF W, d, x
  <2>4. d * W <= (Base - 1) * W /\ d * W \in Nat
    BY <2>2, <2>3, Sizes
  <2>5. (Base - 1) * W = Base * W - W
    BY <2>2, Sizes
  <2>6. x + d * W \in 0 .. Base * W - 1
    BY <2>2, <2>3, <2>4, <2>5, Sizes
  <2> QED
    BY <2>1, <2>2, <2>3, <2>6
<1>3. \A k \in 0 .. Bytes : k \in T
  <2> HIDE DEF T
  <2> QED
    BY <1>1, <1>2, UpTo, Sizes
<1> QED
  BY <1>3

LEMMA ValueType == ASSUME NEW f \in [0 .. Bytes - 1 -> Byte] PROVE Value(f) \in Count
  BY SumRule, SumBelow, Sizes DEF Count

\* The value of some bytes has these bytes.
LEMMA BytesOfValue ==
  ASSUME NEW f \in [0 .. Bytes - 1 -> Byte], NEW b \in 0 .. Bytes - 1
  PROVE  ByteOf(Value(f), b) = f[b]
<1>1. PICK s : /\ s[0] = 0
               /\ \A k \in 0 .. Bytes - 1 : s[k + 1] = s[k] + f[k] * Weight[k]
               /\ Value(f) = s[Bytes]
  BY SumRule
<1>2. \A k \in 0 .. Bytes : s[k] \in 0 .. Weight[k] - 1
  BY <1>1, SumBelow
<1>3. b \in Nat /\ b + 1 \in 0 .. Bytes /\ b \in 0 .. Bytes
  BY Sizes
<1> DEFINE V == Weight[b + 1]
           T == {k \in 0 .. Bytes : b + 1 <= k =>
                   \E t, u \in Nat : s[k] = s[b + 1] + V * t /\ Weight[k] = V * u}
<1>4. V \in Nat /\ V >= 1 /\ s[b + 1] \in Nat
  BY <1>2, <1>3, WeightType
<1>5. 0 \in T
  BY <1>3, Sizes
<1>6. ASSUME NEW k \in 0 .. Bytes, k \in T, k < Bytes PROVE k + 1 \in T
  <2>1. k \in 0 .. Bytes - 1 /\ k + 1 \in 0 .. Bytes
    BY <1>6, Sizes
  <2>2. CASE k < b
    <3>1. ~(b + 1 <= k + 1)
      BY <1>3, <2>2
    <3> QED
      BY <2>1, <3>1
  <2>3. CASE k = b
    <3>1. s[k + 1] = s[b + 1] + V * 0 /\ Weight[k + 1] = V * 1
      BY <1>4, <2>3
    <3> QED
      BY <2>1, <3>1
  <2>4. CASE b < k
    <3>1. b + 1 <= k
      BY <1>3, <2>4
    <3>2. PICK t \in Nat, u \in Nat : s[k] = s[b + 1] + V * t /\ Weight[k] = V * u
      BY <1>6, <3>1
    <3> DEFINE d == f[k]
    <3>3. d \in Nat /\ s[k + 1] = s[b + 1] + V * t + d * (V * u)
      BY <1>1, <2>1, <3>2, Sizes DEF Byte
    <3>4. Weight[k + 1] = Base * (V * u)
      BY <2>1, <3>2, WeightRule
    <3> HIDE DEF V, d
    <3>5. V * t + d * (V * u) = V * (t + d * u) /\ t + d * u \in Nat
      BY <1>4, <3>3
    <3>6. Base * (V * u) = V * (Base * u) /\ Base * u \in Nat
      BY <1>4, Sizes
    <3>7. s[k + 1] = s[b + 1] + V * (t + d * u)
      <4> DEFINE y == s[b + 1]
      <4>1. V * t \in Nat /\ d * (V * u) \in Nat
        BY <1>4, <3>3
      <4> QED
        BY <1>4, <3>3, <3>5, <4>1
    <3> QED
      BY <2>1, <3>4, <3>5, <3>6, <3>7 DEF V
  <2> QED
    BY <1>3, <2>2, <2>3, <2>4
<1>7. \A k \in 0 .. Bytes : k \in T
  <2> HIDE DEF T
  <2> QED
    BY <1>5, <1>6, UpTo, Sizes
<1>8. PICK t \in Nat : s[Bytes] = s[b + 1] + V * t
  <2>1. Bytes \in 0 .. Bytes /\ b + 1 <= Bytes
    BY <1>3, Sizes
  <2> QED
    BY <1>7, <2>1
<1> DEFINE W == Weight[b]
           d == f[b]
           x == s[b]
<1>9. W \in Nat /\ W >= 1 /\ V = Base * W /\ d \in 0 .. Base - 1 /\ x \in 0 .. W - 1
  BY <1>2, <1>3, WeightType, WeightRule DEF Byte
<1>10. Value(f) = x + d * W + V * t
  BY <1>1, <1>8
<1> HIDE DEF V, W, d, x
<1>11. x + d * W + V * t = W * (Base * t + d) + x
  <2>1. (Base * W) * t = W * (Base * t)
    BY <1>9, Sizes
  <2>2. W * (Base * t + d) = W * (Base * t) + W * d
    BY <1>9, Sizes
  <2>3. d * W = W * d
    BY <1>9, Sizes
  <2>4. W * (Base * t) \in Nat /\ W * d \in Nat
    BY <1>9, Sizes
  <2> QED
    BY <1>9, <2>1, <2>2, <2>3, <2>4
<1>12. Base * t + d \in Nat
  BY <1>9, Sizes
<1>13. Value(f) \div W = Base * t + d
  <2> DEFINE q == Base * t + d
  <2>1. q \in Nat
    BY <1>12
  <2>2. Value(f) = W * q + x
    BY <1>10, <1>11
  <2> HIDE DEF q
  <2>3. (W * q + x) \div W = q
    BY <1>9, <2>1, Division
  <2> QED
    BY <2>2, <2>3 DEF q
<1>14. (Base * t + d) % Base = d
  BY <1>9, Sizes, Division
<1> QED
  BY <1>13, <1>14 DEF ByteOf, W, d

\* A byte is in range, and the higher bytes are those of the number without
\* its lowest.
LEMMA ByteType == ASSUME NEW n \in Nat, NEW b \in 0 .. Bytes - 1 PROVE ByteOf(n, b) \in Byte
<1>1. Weight[b] \in Nat /\ Weight[b] >= 1
  BY WeightType, Sizes
<1> DEFINE q == n \div Weight[b]
<1>2. q \in Nat
  BY <1>1, DivisionIs
<1> HIDE DEF q
<1>3. q % Base \in 0 .. Base - 1
  BY <1>2, DivisionIs, Sizes
<1> QED
  BY <1>3 DEF ByteOf, Byte, q

LEMMA HighByte ==
  ASSUME NEW m \in Nat, NEW n \in Nat, m \div Base = n \div Base, NEW b \in 1 .. Bytes - 1
  PROVE  ByteOf(m, b) = ByteOf(n, b)
<1> DEFINE W == Weight[b - 1]
<1>1. b - 1 \in 0 .. Bytes - 1 /\ (b - 1) + 1 = b /\ b - 1 \in 0 .. Bytes
  BY Sizes
<1>2. W \in Nat /\ W >= 1 /\ Weight[b] = Base * W
  BY <1>1, WeightRule, WeightType
<1> HIDE DEF W
<1>3. \A k \in Nat : k \div (Base * W) = (k \div Base) \div W
  BY <1>2, Sizes, Z3
<1> QED
  BY <1>2, <1>3 DEF ByteOf

------------------------------------------------------------------------------
(* The inductive invariant                                                 *)

Places == {"loop", "copy", "copy statistics", "reset", "set", "leave", "save", "load", "write"}
Critical == {"copy", "copy statistics", "reset", "set", "leave"}

MeterTypes ==
  /\ level \in [Channel -> {0, 1}] /\ port_bits \in [Channel -> {0, 1}]
  /\ pcif \in BOOLEAN /\ moved \in BOOLEAN
  /\ now \in 0 .. MaxTime /\ restarts \in Nat
  /\ CH \in [Channel -> Statistics]
  /\ falls \in [Channel -> Nat] /\ reported \in [Channel -> Nat]
  /\ lowAtStart \in [Channel -> BOOLEAN]
  /\ quiet \in [Channel -> 0 .. 2]
  /\ \A c \in Channel : CH[c].last <= now

MainTypes ==
  /\ pc \in Places
  /\ iflag = (pc \notin Critical)
  /\ arg \in [ch : Channel, op : {"read", "reset", "set"}, ticks : Count]
  /\ data \in Statistics

SaveTypes ==
  /\ tosave \subseteq Channel
  /\ rtc \in [Channel -> [0 .. Bytes - 1 -> Byte]]
  /\ recent \in [Channel -> SUBSET Count]
  /\ current \in [Channel -> SUBSET Count]
  /\ pc \notin {"load", "write"} => ticks = NoBytes
  /\ pc # "write" => written = 0
  /\ pc = "write" => DOMAIN ticks = 0 .. Bytes - 1
  /\ DOMAIN ticks \subseteq 0 .. Bytes - 1
  /\ \A b \in DOMAIN ticks : ticks[b] \in Byte
  /\ written \in 0 .. Bytes - 1

\* What the impulses of an interval leave in the statistics.
Consistent(s) ==
  /\ s.avg_cnt <= s.pcount
  /\ s.avg_cnt = 0 => s.avg_sum = 0 /\ s.min = NoMin /\ s.max = 0
  /\ s.avg_cnt > 0 =>
       /\ s.min <= s.period /\ s.period <= s.max
       /\ s.min * s.avg_cnt <= s.avg_sum
       /\ s.avg_sum <= s.max * s.avg_cnt

Reading ==
  /\ \A c \in Channel : Consistent(CH[c])
  /\ pc \in {"reset", "leave"} => Consistent(data)
  /\ pc \in {"copy statistics", "reset"} => data.pcount = CH[arg.ch].pcount
  /\ pc = "copy statistics" => data.period = CH[arg.ch].period
  /\ pc \notin {"copy statistics", "reset", "leave"} => data = Fresh(0)

\* An interrupt is pending when a line is not as it was seen last, but for a
\* line that has been low since the reset, which is not yet counted.
Impulses(c) == reported[c] + CH[c].pcount + Pending(c)
Counting ==
  \A c \in Channel :
    /\ Impulses(c) = falls[c] \/ (lowAtStart[c] /\ Impulses(c) = falls[c] + 1)
    /\ ~pcif /\ port_bits[c] # level[c] =>
         port_bits[c] = 1 /\ lowAtStart[c] /\ Impulses(c) = falls[c]

\* A line does not fall twice in a millisecond, so that no period is 0.
Periods ==
  \A c \in Channel :
    /\ CH[c].last = now /\ now # 0 =>
         (port_bits[c] = 0 /\ level[c] = 0) \/ (level[c] = 1 /\ moved)
    /\ quiet[c] > 0 => CH[c].pcount = 0
    /\ quiet[c] = 0 /\ CH[c].pcount = 0 => CH[c].period = 0
    /\ quiet[c] = 2 => CH[c].period = 0

\* Every byte in the RAM is that of a count since the last complete save
\* began, every byte loaded that of a count since this save began.
Saving ==
  /\ \A c \in Channel :
       /\ CH[c].count \in recent[c]
       /\ current[c] # {} <=> pc \in {"load", "write"} /\ c = arg.ch
       /\ current[c] # {} => CH[c].count \in current[c]
       /\ current[c] \subseteq recent[c]
       /\ \A b \in 0 .. Bytes - 1 : \E n \in recent[c] : rtc[c][b] = ByteOf(n, b)
  /\ \A b \in DOMAIN ticks : \E n \in current[arg.ch] : ticks[b] = ByteOf(n, b)
  /\ \A b \in 0 .. written - 1 : rtc[arg.ch][b] = ticks[b]

IInv == MeterTypes /\ MainTypes /\ SaveTypes /\ Reading /\ Counting /\ Periods /\ Saving

LEMMA CountZero == 0 \in Count
<1>1. Weight[Bytes] \in Nat /\ Weight[Bytes] >= 1
  BY WeightType, Sizes
<1> QED
  BY <1>1 DEF Count

LEMMA FreshIs ==
  ASSUME NEW n \in Count
  PROVE  /\ Fresh(n) \in Statistics /\ Consistent(Fresh(n))
         /\ Fresh(n).count = n /\ Fresh(n).pcount = 0 /\ Fresh(n).period = 0 /\ Fresh(n).last = 0
  BY ConstantAssumption DEF Fresh, Statistics, Consistent

\* The mean of a longer list stays between its least and its greatest.
LEMMA Extremes ==
  ASSUME NEW k \in Nat, NEW sum \in Nat, NEW p \in Nat,
         NEW low \in Nat, NEW high \in Nat, low * k <= sum, sum <= high * k,
         NEW l \in Nat, l <= low, l <= p, NEW h \in Nat, high <= h, p <= h
  PROVE  l * (k + 1) <= sum + p /\ sum + p <= h * (k + 1)
<1>1. l * k <= low * k /\ high * k <= h * k
  BY Z3
<1>2. l * (k + 1) = l * k + l /\ h * (k + 1) = h * k + h
  OBVIOUS
<1>3. l * k \in Nat /\ h * k \in Nat /\ low * k \in Nat /\ high * k \in Nat
  OBVIOUS
<1> QED
  BY <1>1, <1>2, <1>3

LEMMA CountedIs ==
  ASSUME NEW s \in Statistics, now \in 0 .. MaxTime, s.last <= now
  PROVE  /\ Counted(s) \in Statistics
         /\ Counted(s).pcount = s.pcount + 1
         /\ Counted(s).count = (s.count + 1) % Weight[Bytes]
         /\ Counted(s).last = now
         /\ Counted(s).period = IF s.last = 0 THEN s.period ELSE now - s.last
         /\ Consistent(s) => Consistent(Counted(s))
<1>1. (s.count + 1) % Weight[Bytes] \in Count
  <2>1. s.count + 1 \in Nat /\ Weight[Bytes] \in Nat /\ Weight[Bytes] >= 1
    BY WeightType, Sizes DEF Statistics, Count
  <2> QED
    BY <2>1, DivisionIs DEF Count
<1> DEFINE n == (s.count + 1) % Weight[Bytes]
           p == now - s.last
           lo == IF p <= s.min THEN p ELSE s.min
           hi == IF p >= s.max THEN p ELSE s.max
<1>2. p \in 0 .. MaxTime /\ MaxTime \in Nat /\ NoMin \in Nat /\ NoMin > MaxTime
  BY ConstantAssumption DEF Statistics
<1>3. CASE s.last = 0
  <2>1. Counted(s) = [s EXCEPT !.count = n, !.pcount = s.pcount + 1, !.last = now]
    BY <1>3 DEF Counted
  <2> DEFINE t == Counted(s)
  <2> HIDE DEF n
  <2>2. t = [count |-> n, pcount |-> s.pcount + 1, period |-> s.period, min |-> s.min, max |-> s.max,
             avg_cnt |-> s.avg_cnt, avg_sum |-> s.avg_sum, last |-> now]
    BY <2>1 DEF Statistics
  <2> HIDE DEF t
  <2>3. t \in Statistics
    BY <1>1, <2>2 DEF Statistics, n
  <2>4. Consistent(s) => Consistent(t)
    BY <2>2 DEF Consistent, Statistics
  <2> QED
    BY <1>3, <2>2, <2>3, <2>4 DEF t, n
<1>4. CASE s.last # 0
  <2>1. Counted(s) = [s EXCEPT !.count = n, !.pcount = s.pcount + 1, !.last = now, !.period = p,
                               !.avg_cnt = s.avg_cnt + 1, !.avg_sum = s.avg_sum + p,
                               !.min = lo, !.max = hi]
    BY <1>4 DEF Counted, Statistics
  <2> DEFINE t == Counted(s)
  <2>2. lo \in 0 .. MaxTime \cup {NoMin} /\ hi \in 0 .. MaxTime
    BY <1>2 DEF Statistics
  <2>3. lo \in Nat /\ lo <= p /\ lo <= s.min /\ hi \in Nat /\ p <= hi /\ s.max <= hi
    BY <1>2, <2>2 DEF Statistics
  <2> HIDE DEF n, p, lo, hi
  <2>4. t = [count |-> n, pcount |-> s.pcount + 1, period |-> p, min |-> lo, max |-> hi,
             avg_cnt |-> s.avg_cnt + 1, avg_sum |-> s.avg_sum + p, last |-> now]
    BY <2>1 DEF Statistics
  <2> HIDE DEF t
  <2>5. t \in Statistics
    BY <1>1, <1>2, <2>2, <2>4 DEF Statistics, n
  <2>6. ASSUME Consistent(s) PROVE Consistent(t)
    <3>1. s.avg_cnt \in Nat /\ s.avg_sum \in Nat /\ s.min \in Nat /\ s.max \in Nat /\ s.pcount \in Nat
      BY <1>2 DEF Statistics
    <3>2. lo * (s.avg_cnt + 1) <= s.avg_sum + p /\ s.avg_sum + p <= hi * (s.avg_cnt + 1)
      <4>1. s.min * s.avg_cnt <= s.avg_sum /\ s.avg_sum <= s.max * s.avg_cnt
        BY <2>6, <3>1 DEF Consistent
      <4> QED
        BY <1>2, <2>3, <3>1, <4>1, Extremes
    <3> QED
      BY <1>2, <2>3, <2>4, <2>6, <3>1, <3>2 DEF Consistent
  <2> QED
    BY <1>4, <2>4, <2>5, <2>6 DEF t, n, p
<1> QED
  BY <1>3, <1>4 DEF Statistics

LEMMA InitIInv == Init => IInv
<1> SUFFICES ASSUME Init PROVE IInv
  OBVIOUS
<1>1. 0 \in Count /\ Fresh(0) \in Statistics /\ Consistent(Fresh(0))
  BY CountZero, FreshIs
<1>2. \A c \in Channel : /\ CH[c] = Fresh(0)
                         /\ CH[c].count = 0 /\ CH[c].pcount = 0 /\ CH[c].period = 0 /\ CH[c].last = 0
  BY <1>1, FreshIs DEF Init
<1>3. MeterTypes
  <2>1. level \in [Channel -> {0, 1}] /\ port_bits \in [Channel -> {0, 1}]
        /\ CH \in [Channel -> Statistics] /\ quiet \in [Channel -> 0 .. 2]
    BY <1>1 DEF Init
  <2>2. falls \in [Channel -> Nat] /\ reported \in [Channel -> Nat]
        /\ lowAtStart \in [Channel -> BOOLEAN] /\ now \in 0 .. MaxTime
    BY ConstantAssumption DEF Init
  <2>3. \A c \in Channel : CH[c].last <= now
    <3>1. now = 0 /\ 0 <= 0
      BY DEF Init
    <3>2. \A c \in Channel : CH[c].last = 0
      BY <1>2, Zenon
    <3> QED
      BY <3>1, <3>2, Zenon
  <2>4. pcif \in BOOLEAN /\ moved \in BOOLEAN /\ restarts \in Nat
    BY DEF Init
  <2> QED
    BY <2>1, <2>2, <2>3, <2>4 DEF MeterTypes
<1>4. MainTypes
  <2>1. NoArg.ch \in Channel
    BY ConstantAssumption, Zenon DEF NoArg
  <2> QED
    BY <1>1, <2>1, Zenon DEF Init, MainTypes, Places, Critical, NoArg
<1>5. SaveTypes
  BY <1>1, Sizes DEF Init, SaveTypes, NoBytes, Byte
<1>6. Reading
  BY <1>1, <1>2 DEF Init, Reading
<1>7. Counting
  <2> SUFFICES ASSUME NEW c \in Channel
               PROVE  Impulses(c) = falls[c] /\ port_bits[c] = level[c]
    BY DEF Counting
  <2>1. falls[c] = 0 /\ reported[c] = 0 /\ CH[c].pcount = 0 /\ ~pcif
    BY <1>2 DEF Init
  <2>2. port_bits[c] = 1 /\ level[c] = 1
    BY DEF Init
  <2> QED
    BY <2>1, <2>2 DEF Impulses, Pending
<1>8. Periods
  BY <1>2 DEF Init, Periods
<1>9. Saving
  <2>1. \A b \in 0 .. Bytes - 1 : ByteOf(0, b) = 0
    <3> SUFFICES ASSUME NEW b \in 0 .. Bytes - 1 PROVE ByteOf(0, b) = 0
      OBVIOUS
    <3>1. Weight[b] \in Nat /\ Weight[b] >= 1 /\ 0 = Weight[b] * 0 + 0
      BY WeightType, Sizes
    <3>2. 0 \div Weight[b] = 0
      BY <3>1, Division
    <3>3. 0 = Base * 0 + 0
      BY Sizes
    <3>4. 0 % Base = 0
      BY <3>3, Sizes, Division
    <3> QED
      BY <3>2, <3>4 DEF ByteOf
  <2> QED
    BY <1>2, <2>1 DEF Init, Saving, NoBytes
<1> QED
  BY <1>3, <1>4, <1>5, <1>6, <1>7, <1>8, <1>9 DEF IInv

\* The parts about the main program stay when it does not move.
LEMMA MainKept ==
  ASSUME MainTypes, SaveTypes, UNCHANGED <<iflag, pc, arg, data, saving, recent, current>>
  PROVE  MainTypes' /\ SaveTypes'
  BY Zenon DEF MainTypes, SaveTypes, saving

LEMMA PinChangeStep ==
  ASSUME IInv, NEW S \in SUBSET Channel, PinChange(S)
  PROVE  IInv'
<1> USE DEF IInv
<1>1. MeterTypes'
  BY DEF MeterTypes, PinChange, meter
<1>2. MainTypes' /\ SaveTypes'
  BY MainKept DEF PinChange
<1>3. Reading'
  BY DEF Reading, PinChange, meter
<1>4. Counting'
  <2> SUFFICES ASSUME NEW c \in Channel
               PROVE  /\ Impulses(c)' = falls'[c] \/ (lowAtStart'[c] /\ Impulses(c)' = falls'[c] + 1)
                      /\ ~pcif' /\ port_bits'[c] # level'[c] =>
                           port_bits'[c] = 1 /\ lowAtStart'[c] /\ Impulses(c)' = falls'[c]
    BY DEF Counting
  <2> DEFINE base == reported[c] + CH[c].pcount
  <2>1. base \in Nat /\ falls[c] \in Nat /\ level[c] \in {0, 1} /\ port_bits[c] \in {0, 1}
    BY DEF MeterTypes, Statistics
  <2>2. UNCHANGED <<base, lowAtStart, port_bits>> /\ pcif' /\ ~pcif
    BY DEF PinChange, meter
  <2>3. Impulses(c) = base /\ Impulses(c)' = base + Pending(c)'
    BY <2>1, <2>2 DEF Impulses, Pending
  <2>4. level'[c] = (IF c \in S THEN 1 - level[c] ELSE level[c])
        /\ falls'[c] = IF c \in S /\ level[c] = 1 THEN falls[c] + 1 ELSE falls[c]
    BY DEF PinChange
  <2> HIDE DEF base
  <2> QED
    BY <2>1, <2>2, <2>3, <2>4 DEF Counting, Pending
<1>5. Periods'
  BY DEF Periods, PinChange, meter, MeterTypes
<1>6. Saving'
  BY DEF Saving, PinChange, meter, saving
<1> QED
  BY <1>1, <1>2, <1>3, <1>4, <1>5, <1>6

LEMMA TimerInterruptStep ==
  ASSUME IInv, TimerInterrupt
  PROVE  IInv'
<1> USE DEF IInv
<1>1. MeterTypes'
  <2>1. now' = now + 1 /\ now' \in 0 .. MaxTime
    BY ConstantAssumption DEF MeterTypes, TimerInterrupt
  <2>2. \A c \in Channel : CH[c].last \in 0 .. MaxTime /\ CH[c].last <= now
    BY DEF MeterTypes, Statistics
  <2>3. \A c \in Channel : CH'[c].last <= now'
    BY <2>1, <2>2 DEF TimerInterrupt, MeterTypes, meter
  <2> QED
    BY <2>1, <2>3 DEF MeterTypes, TimerInterrupt, meter
<1>2. MainTypes' /\ SaveTypes'
  BY MainKept DEF TimerInterrupt
<1>3. Reading'
  BY DEF Reading, TimerInterrupt, meter
<1>4. Counting'
  BY DEF Counting, Impulses, Pending, TimerInterrupt, meter
<1>5. Periods'
  BY DEF Periods, TimerInterrupt, meter, MeterTypes, Statistics
<1>6. Saving'
  BY DEF Saving, TimerInterrupt, meter, saving
<1> QED
  BY <1>1, <1>2, <1>3, <1>4, <1>5, <1>6

Falling == {c \in Channel : port_bits[c] = 1 /\ level[c] = 0}

LEMMA PinChangeInterruptStep ==
  ASSUME IInv, PinChangeInterrupt
  PROVE  IInv'
<1> USE DEF IInv
<1>1. /\ iflag /\ pcif /\ pcif' = FALSE
      /\ port_bits' = level
      /\ CH' = [c \in Channel |-> IF c \in Falling THEN Counted(CH[c]) ELSE CH[c]]
      /\ quiet' = [c \in Channel |-> IF c \in Falling THEN 0 ELSE quiet[c]]
      /\ UNCHANGED <<lines, now, iflag, pc, arg, data, saving, restarts, reported>>
  BY DEF PinChangeInterrupt, Falling
<1>2. /\ recent' = [c \in Channel |-> recent[c] \cup IF c \in Falling THEN {CH'[c].count} ELSE {}]
      /\ current' = [c \in Channel |-> IF current[c] = {} THEN {}
                       ELSE current[c] \cup IF c \in Falling THEN {CH'[c].count} ELSE {}]
  <2>1. \A c \in Channel : c \in Falling => CH'[c].count = Counted(CH[c]).count
    BY <1>1
  <2> QED
    BY <2>1, Zenon DEF PinChangeInterrupt, Falling
<1>3. \A c \in Channel : CH[c] \in Statistics /\ CH[c].last <= now /\ now \in 0 .. MaxTime
  BY DEF MeterTypes
<1>4. ASSUME NEW c \in Falling
      PROVE  /\ CH'[c] \in Statistics
             /\ CH'[c].pcount = CH[c].pcount + 1
             /\ CH'[c].last = now
             /\ CH'[c].period = IF CH[c].last = 0 THEN CH[c].period ELSE now - CH[c].last
             /\ Consistent(CH'[c])
  <2>1. c \in Channel /\ CH'[c] = Counted(CH[c]) /\ Consistent(CH[c])
    BY <1>1 DEF Falling, Reading
  <2> QED
    BY <1>3, <2>1, CountedIs
<1>5. \A c \in Channel : c \notin Falling => CH'[c] = CH[c]
  BY <1>1
<1>6. \A c \in Channel : CH'[c] \in Statistics /\ CH'[c].last <= now'
  <2>1. now' = now
    BY <1>1
  <2> QED
    BY <1>3, <1>4, <1>5, <2>1
<1>7. MeterTypes'
  <2>1. CH' \in [Channel -> Statistics]
    BY <1>1, <1>6
  <2>2. /\ level' \in [Channel -> {0, 1}] /\ port_bits' \in [Channel -> {0, 1}]
        /\ pcif' \in BOOLEAN /\ moved' \in BOOLEAN
        /\ now' \in 0 .. MaxTime /\ restarts' \in Nat
        /\ falls' \in [Channel -> Nat] /\ reported' \in [Channel -> Nat]
        /\ lowAtStart' \in [Channel -> BOOLEAN]
    BY <1>1 DEF MeterTypes, lines
  <2>3. quiet' \in [Channel -> 0 .. 2]
    BY <1>1 DEF MeterTypes
  <2> QED
    BY <1>6, <2>1, <2>2, <2>3 DEF MeterTypes
<1>8. MainTypes'
  BY <1>1 DEF MainTypes
<1>9. pc \notin Critical /\ UNCHANGED <<pc, data, arg, ticks, written, rtc, tosave>>
  BY <1>1 DEF MainTypes, saving
<1>10. Reading'
  BY <1>4, <1>5, <1>9 DEF Reading, Critical
<1>11. Counting'
  <2> SUFFICES ASSUME NEW c \in Channel
               PROVE  /\ Impulses(c)' = falls'[c] \/ (lowAtStart'[c] /\ Impulses(c)' = falls'[c] + 1)
                      /\ ~pcif' /\ port_bits'[c] # level'[c] =>
                           port_bits'[c] = 1 /\ lowAtStart'[c] /\ Impulses(c)' = falls'[c]
    BY DEF Counting
  <2>1. Impulses(c)' = Impulses(c)
    <3>1. Pending(c)' = 0
      BY <1>1 DEF Pending
    <3>2. reported'[c] = reported[c] /\ reported[c] \in Nat /\ CH[c].pcount \in Nat
      BY <1>1, <1>3 DEF MeterTypes, Statistics
    <3>3. CASE c \in Falling
      <4>1. Pending(c) = 1
        BY <1>1, <3>3 DEF Pending, Falling
      <4> QED
        BY <1>4, <3>1, <3>2, <3>3, <4>1 DEF Impulses
    <3>4. CASE c \notin Falling
      <4>1. Pending(c) = 0
        BY <3>4 DEF Pending, Falling
      <4> QED
        BY <1>5, <3>1, <3>2, <3>4, <4>1 DEF Impulses
    <3> QED
      BY <3>3, <3>4
  <2> QED
    BY <1>1, <2>1 DEF Counting, lines
<1>12. Periods'
  <2> SUFFICES ASSUME NEW c \in Channel
               PROVE  /\ CH'[c].last = now' /\ now' # 0 =>
                           (port_bits'[c] = 0 /\ level'[c] = 0) \/ (level'[c] = 1 /\ moved')
                      /\ quiet'[c] > 0 => CH'[c].pcount = 0
                      /\ quiet'[c] = 0 /\ CH'[c].pcount = 0 => CH'[c].period = 0
                      /\ quiet'[c] = 2 => CH'[c].period = 0
    BY DEF Periods
  <2>1. CASE c \in Falling
    BY <1>1, <1>3, <1>4, <2>1 DEF Falling, lines, Statistics
  <2>2. CASE c \notin Falling
    BY <1>1, <1>5, <2>2 DEF Falling, Periods, lines, MeterTypes
  <2> QED
    BY <2>1, <2>2
<1>13. SaveTypes'
  <2>1. \A c \in Channel : CH'[c].count \in Count
    BY <1>6 DEF Statistics
  <2>2. recent' \in [Channel -> SUBSET Count] /\ current' \in [Channel -> SUBSET Count]
    BY <1>2, <2>1 DEF SaveTypes
  <2> QED
    BY <1>9, <2>2 DEF SaveTypes
<1>14. Saving'
  <2>1. ASSUME NEW c \in Channel
        PROVE  /\ CH'[c].count \in recent'[c]
               /\ current'[c] # {} <=> current[c] # {}
               /\ current'[c] # {} => CH'[c].count \in current'[c]
               /\ current'[c] \subseteq recent'[c]
               /\ recent[c] \subseteq recent'[c] /\ current[c] \subseteq current'[c]
    BY <1>2, <1>5 DEF Saving
  <2>2. \A b \in DOMAIN ticks : arg.ch \in Channel
    BY DEF MainTypes
  <2>3. \A c \in Channel : \A b \in 0 .. Bytes - 1 : \E n \in recent'[c] : rtc'[c][b] = ByteOf(n, b)
    BY <1>9, <2>1 DEF Saving
  <2>4. \A b \in DOMAIN ticks' : \E n \in current'[arg'.ch] : ticks'[b] = ByteOf(n, b)
    BY <1>9, <2>1, <2>2 DEF Saving
  <2>5. \A c \in Channel : current'[c] # {} <=> pc' \in {"load", "write"} /\ c = arg'.ch
    BY <1>9, <2>1 DEF Saving
  <2>6. \A b \in 0 .. written' - 1 : rtc'[arg'.ch][b] = ticks'[b]
    BY <1>9 DEF Saving
  <2> QED
    BY <2>1, <2>3, <2>4, <2>5, <2>6 DEF Saving
<1> QED
  BY <1>7, <1>8, <1>10, <1>11, <1>12, <1>13, <1>14

\* The parts about the meter stay while only the main program moves.
LEMMA MeterKept ==
  ASSUME IInv, UNCHANGED <<lines, pcif, now, meter, restarts, reported>>
  PROVE  MeterTypes' /\ Counting' /\ Periods'
  BY Zenon DEF IInv, MeterTypes, Counting, Periods, Impulses, Pending, lines, meter

\* Those about saving stay while nothing is being saved.
LEMMA SavingKept ==
  ASSUME IInv, pc \notin {"load", "write"}, pc' \notin {"load", "write"},
         UNCHANGED <<saving, recent, current>>,
         \A c \in Channel : CH'[c].count = CH[c].count
  PROVE  SaveTypes' /\ Saving'
<1>1. /\ ticks = NoBytes /\ written = 0
      /\ UNCHANGED <<tosave, ticks, written, rtc, recent, current>>
  BY DEF IInv, SaveTypes, saving
<1>2. SaveTypes'
  BY <1>1 DEF IInv, SaveTypes
<1>3. Saving'
  <2>1. \A c \in Channel : current'[c] = {}
    BY <1>1 DEF IInv, Saving
  <2>2. \A b \in DOMAIN ticks' : FALSE
    BY <1>1 DEF NoBytes
  <2>3. \A b \in 0 .. written' - 1 : FALSE
    BY <1>1
  <2>4. \A c \in Channel :
          /\ CH'[c].count \in recent'[c]
          /\ \A b \in 0 .. Bytes - 1 : \E n \in recent'[c] : rtc'[c][b] = ByteOf(n, b)
    BY <1>1 DEF IInv, Saving
  <2> QED
    BY <2>1, <2>2, <2>3, <2>4 DEF Saving
<1> QED
  BY <1>2, <1>3

LEMMA EnterCriticalStep ==
  ASSUME IInv, NEW a \in Operation, EnterCritical(a)
  PROVE  IInv'
<1>1. MeterTypes' /\ Counting' /\ Periods'
  BY MeterKept DEF EnterCritical
<1>2. pc = "loop" /\ pc' \in {"set", "copy"} /\ CH' = CH
  BY DEF EnterCritical, meter
<1>3. SaveTypes' /\ Saving'
  BY <1>2, SavingKept DEF EnterCritical
<1>4. MainTypes'
  <2>1. a \in [ch : Channel, op : {"read", "reset", "set"}, ticks : Count]
    BY CountZero, ConstantAssumption DEF Operation
  <2> QED
    BY <1>2, <2>1 DEF EnterCritical, IInv, MainTypes, Places, Critical
<1>5. Reading'
  BY <1>2 DEF EnterCritical, IInv, Reading
<1> QED
  BY <1>1, <1>3, <1>4, <1>5 DEF IInv

LEMMA DataIs == ASSUME MainTypes, MeterTypes PROVE data \in Statistics /\ CH[arg.ch] \in Statistics /\ arg.ch \in Channel
  BY DEF MainTypes, MeterTypes

LEMMA CopyCountsStep ==
  ASSUME IInv, CopyCounts
  PROVE  IInv'
<1>1. MeterTypes' /\ Counting' /\ Periods'
  BY MeterKept DEF CopyCounts
<1>2. pc = "copy" /\ pc' = "copy statistics" /\ CH' = CH /\ arg' = arg
  BY DEF CopyCounts, meter
<1>3. SaveTypes' /\ Saving'
  BY <1>2, SavingKept DEF CopyCounts
<1>4. data \in Statistics /\ CH[arg.ch] \in Statistics
  BY DataIs DEF IInv
<1> DEFINE s == CH[arg.ch]
<1>5. data' = [data EXCEPT !.count = s.count, !.pcount = s.pcount, !.period = s.period]
  BY DEF CopyCounts
<1>6. data' \in Statistics /\ data'.pcount = s.pcount /\ data'.period = s.period
  <2> HIDE DEF s
  <2> QED
    BY <1>4, <1>5 DEF Statistics, s
<1>7. MainTypes'
  BY <1>2, <1>6 DEF CopyCounts, IInv, MainTypes, Places, Critical
<1>8. Reading'
  BY <1>2, <1>6 DEF IInv, Reading
<1> QED
  BY <1>1, <1>3, <1>7, <1>8 DEF IInv

LEMMA CopyStatisticsStep ==
  ASSUME IInv, CopyStatistics
  PROVE  IInv'
<1>1. MeterTypes' /\ Counting' /\ Periods'
  BY MeterKept DEF CopyStatistics
<1>2. pc = "copy statistics" /\ pc' \in {"reset", "leave"} /\ CH' = CH /\ arg' = arg
  BY DEF CopyStatistics, meter
<1>3. SaveTypes' /\ Saving'
  BY <1>2, SavingKept DEF CopyStatistics
<1>4. data \in Statistics /\ CH[arg.ch] \in Statistics /\ arg.ch \in Channel
  BY DataIs DEF IInv
<1> DEFINE s == CH[arg.ch]
<1>5. data' = [data EXCEPT !.min = s.min, !.max = s.max, !.avg_cnt = s.avg_cnt,
                           !.avg_sum = s.avg_sum, !.last = s.last]
  BY DEF CopyStatistics
<1>6. Consistent(s) /\ data.pcount = s.pcount /\ data.period = s.period
  BY <1>2, <1>4 DEF IInv, Reading
<1> HIDE DEF s
<1>7. data' \in Statistics
  BY <1>4, <1>5 DEF Statistics, s
<1>8. data'.pcount = s.pcount /\ data'.period = s.period /\ data'.min = s.min /\ data'.max = s.max
      /\ data'.avg_cnt = s.avg_cnt /\ data'.avg_sum = s.avg_sum
  BY <1>4, <1>5, <1>6 DEF Statistics
<1>9. Consistent(data')
  BY <1>6, <1>8 DEF Consistent
<1>10. MainTypes'
  BY <1>2, <1>7 DEF CopyStatistics, IInv, MainTypes, Places, Critical
<1>11. Reading'
  BY <1>2, <1>8, <1>9 DEF IInv, Reading, s
<1> QED
  BY <1>1, <1>3, <1>10, <1>11 DEF IInv

LEMMA ResetStatisticsStep ==
  ASSUME IInv, ResetStatistics
  PROVE  IInv'
<1> DEFINE c == arg.ch
           s == CH[c]
           p == IF s.pcount = 0 THEN 0 ELSE s.period
           t == [Fresh(s.count) EXCEPT !.period = p, !.last = s.last]
<1>1. pc = "reset" /\ pc' = "leave" /\ data' = data /\ arg' = arg /\ iflag' = iflag
  BY DEF ResetStatistics
<1>2. c \in Channel /\ s \in Statistics /\ data \in Statistics /\ data.pcount = s.pcount
  BY <1>1, DataIs DEF IInv, Reading
<1>3. /\ CH' = [CH EXCEPT ![c] = t]
      /\ reported' = [reported EXCEPT ![c] = @ + data.pcount]
      /\ quiet' = [quiet EXCEPT ![c] = IF @ < 2 THEN @ + 1 ELSE 2]
      /\ UNCHANGED <<lines, pcif, now, port_bits, saving, restarts, recent, current>>
  BY DEF ResetStatistics
<1>4. t = [count |-> s.count, pcount |-> 0, period |-> p, min |-> NoMin, max |-> 0,
           avg_cnt |-> 0, avg_sum |-> 0, last |-> s.last]
  <2> DEFINE f == Fresh(s.count)
  <2>1. f \in Statistics
    BY <1>2, FreshIs DEF Statistics
  <2>2. f = [count |-> s.count, pcount |-> 0, period |-> 0, min |-> NoMin, max |-> 0,
             avg_cnt |-> 0, avg_sum |-> 0, last |-> 0]
    BY DEF Fresh
  <2> HIDE DEF s, p, f
  <2>3. ASSUME NEW g, g = [f EXCEPT !.period = p, !.last = s.last]
        PROVE  g = [count |-> f.count, pcount |-> f.pcount, period |-> p, min |-> f.min,
                    max |-> f.max, avg_cnt |-> f.avg_cnt, avg_sum |-> f.avg_sum, last |-> s.last]
    BY <2>1, <2>3 DEF Statistics
  <2> QED
    BY <2>2, <2>3 DEF f
<1> HIDE DEF c, s, t
<1>5. /\ t \in Statistics /\ Consistent(t)
      /\ t.count = s.count /\ t.pcount = 0 /\ t.last = s.last
      /\ t.period = IF s.pcount = 0 THEN 0 ELSE s.period
  BY <1>2, <1>4, ConstantAssumption DEF Statistics, Consistent
<1>6. CH'[c] = t /\ \A d \in Channel : d # c => CH'[d] = CH[d]
  BY <1>2, <1>3 DEF IInv, MeterTypes
<1>7. \A d \in Channel : reported[d] \in Nat /\ quiet[d] \in 0 .. 2 /\ falls[d] \in Nat
                         /\ CH[d].pcount \in Nat
  BY DEF IInv, MeterTypes, Statistics
<1>8. /\ reported'[c] = reported[c] + s.pcount
      /\ quiet'[c] = (IF quiet[c] < 2 THEN quiet[c] + 1 ELSE 2)
      /\ \A d \in Channel : d # c => reported'[d] = reported[d] /\ quiet'[d] = quiet[d]
  BY <1>2, <1>3 DEF IInv, MeterTypes
<1>9. MeterTypes'
  <2>1. CH' \in [Channel -> Statistics]
    BY <1>3, <1>5, <1>2 DEF IInv, MeterTypes
  <2>2. reported' \in [Channel -> Nat] /\ quiet' \in [Channel -> 0 .. 2]
    BY <1>2, <1>3 DEF IInv, MeterTypes, Statistics
  <2>3. \A d \in Channel : CH'[d].last <= now'
    <3>1. \A d \in Channel : CH'[d].last = CH[d].last
      BY <1>5, <1>6 DEF s
    <3> QED
      BY <1>3, <3>1 DEF IInv, MeterTypes
  <2> QED
    BY <1>3, <2>1, <2>2, <2>3 DEF IInv, MeterTypes, lines
<1>10. MainTypes'
  BY <1>1 DEF IInv, MainTypes, Places, Critical
<1>11. SaveTypes' /\ Saving'
  <2>1. \A d \in Channel : CH'[d].count = CH[d].count
    BY <1>5, <1>6 DEF s
  <2> QED
    BY <1>1, <1>3, <2>1, SavingKept
<1>12. Reading'
  BY <1>1, <1>5, <1>6 DEF IInv, Reading
<1>13. Counting'
  <2>1. \A d \in Channel : Pending(d)' = Pending(d) /\ Pending(d) \in Nat
    BY <1>3 DEF Pending, lines
  <2>2. \A d \in Channel : Impulses(d)' = Impulses(d)
    BY <1>2, <1>5, <1>6, <1>7, <1>8, <2>1 DEF Impulses, s
  <2> QED
    BY <1>3, <2>2 DEF IInv, Counting, lines
<1>14. Periods'
  <2> SUFFICES ASSUME NEW d \in Channel
               PROVE  /\ CH'[d].last = now' /\ now' # 0 =>
                           (port_bits'[d] = 0 /\ level'[d] = 0) \/ (level'[d] = 1 /\ moved')
                      /\ quiet'[d] > 0 => CH'[d].pcount = 0
                      /\ quiet'[d] = 0 /\ CH'[d].pcount = 0 => CH'[d].period = 0
                      /\ quiet'[d] = 2 => CH'[d].period = 0
    BY DEF Periods
  <2>1. CASE d = c
    BY <1>3, <1>5, <1>6, <1>7, <1>8, <2>1 DEF IInv, Periods, lines, s
  <2>2. CASE d # c
    BY <1>3, <1>6, <1>8, <2>2 DEF IInv, Periods, lines
  <2> QED
    BY <2>1, <2>2
<1> QED
  BY <1>9, <1>10, <1>11, <1>12, <1>13, <1>14 DEF IInv

LEMMA SetTicksStep ==
  ASSUME IInv, SetTicks
  PROVE  IInv'
<1> DEFINE c == arg.ch
           n == arg.ticks
           t == [CH[c] EXCEPT !.count = n]
<1>1. pc = "set" /\ pc' = "leave" /\ UNCHANGED <<data, arg, iflag>>
  BY DEF SetTicks
<1>2. c \in Channel /\ CH[c] \in Statistics /\ n \in Count /\ Consistent(CH[c])
      /\ data = Fresh(0) /\ Consistent(data)
  BY <1>1, DataIs, CountZero, FreshIs DEF IInv, Reading, MainTypes
<1>3. /\ CH' = [CH EXCEPT ![c] = t]
      /\ recent' = [recent EXCEPT ![c] = @ \cup {n}]
      /\ current' = [current EXCEPT ![c] = IF @ = {} THEN @ ELSE @ \cup {n}]
      /\ UNCHANGED <<lines, pcif, now, port_bits, quiet, saving, restarts, reported>>
  BY DEF SetTicks, History
<1>4. t \in Statistics /\ Consistent(t) /\ t.count = n /\ t.pcount = CH[c].pcount
      /\ t.period = CH[c].period /\ t.last = CH[c].last
  <2> DEFINE s == CH[c]
  <2> HIDE DEF s, n
  <2>1. t \in Statistics
    BY <1>2 DEF Statistics, s
  <2>2. /\ t.count = n /\ t.pcount = s.pcount /\ t.period = s.period /\ t.last = s.last
        /\ t.min = s.min /\ t.max = s.max /\ t.avg_cnt = s.avg_cnt /\ t.avg_sum = s.avg_sum
    BY <1>2 DEF Statistics, s
  <2> QED
    BY <1>2, <2>1, <2>2 DEF Consistent, s
<1> HIDE DEF c, n, t
<1>5. CH'[c] = t /\ \A d \in Channel : d # c => CH'[d] = CH[d]
  BY <1>2, <1>3 DEF IInv, MeterTypes
<1>6. \A d \in Channel : CH'[d].pcount = CH[d].pcount /\ CH'[d].period = CH[d].period
                         /\ CH'[d].last = CH[d].last
  BY <1>4, <1>5
<1>7. MeterTypes'
  <2>1. CH' \in [Channel -> Statistics]
    BY <1>2, <1>3, <1>4 DEF IInv, MeterTypes
  <2> QED
    BY <1>3, <1>6, <2>1 DEF IInv, MeterTypes, lines
<1>8. MainTypes'
  BY <1>1 DEF IInv, MainTypes, Places, Critical
<1>9. ticks = NoBytes /\ written = 0 /\ UNCHANGED <<tosave, ticks, written, rtc>>
  BY <1>1, <1>3 DEF IInv, SaveTypes, saving
<1>10. SaveTypes'
  <2>1. recent' \in [Channel -> SUBSET Count] /\ current' \in [Channel -> SUBSET Count]
    BY <1>2, <1>3 DEF IInv, SaveTypes
  <2> QED
    BY <1>1, <1>9, <2>1 DEF IInv, SaveTypes
<1>11. Reading'
  BY <1>1, <1>2, <1>4, <1>5 DEF IInv, Reading
<1>12. Counting'
  BY <1>3, <1>6 DEF IInv, Counting, Impulses, Pending, lines
<1>13. Periods'
  BY <1>3, <1>6 DEF IInv, Periods, lines
<1>14. Saving'
  <2>1. \A d \in Channel : current[d] = {}
    BY <1>1 DEF IInv, Saving
  <2>2. \A d \in Channel : current'[d] = {}
    BY <1>3, <2>1 DEF IInv, SaveTypes
  <2>3. \A d \in Channel : recent[d] \subseteq recent'[d] /\ CH'[d].count \in recent'[d]
    <3>1. recent'[c] = recent[c] \cup {n} /\ \A d \in Channel : d # c => recent'[d] = recent[d]
      BY <1>2, <1>3 DEF IInv, SaveTypes
    <3> QED
      BY <1>4, <1>5, <3>1 DEF IInv, Saving
  <2>4. \A b \in DOMAIN ticks' : FALSE
    BY <1>9 DEF NoBytes
  <2>5. \A b \in 0 .. written' - 1 : FALSE
    BY <1>9
  <2>6. \A d \in Channel : \A b \in 0 .. Bytes - 1 : \E m \in recent'[d] : rtc'[d][b] = ByteOf(m, b)
    BY <1>9, <2>3 DEF IInv, Saving
  <2> QED
    BY <1>1, <2>2, <2>3, <2>4, <2>5, <2>6 DEF Saving
<1> QED
  BY <1>7, <1>8, <1>10, <1>11, <1>12, <1>13, <1>14 DEF IInv

LEMMA NoArgIs == NoArg \in [ch : Channel, op : {"read", "reset", "set"}, ticks : Count]
<1>1. (CHOOSE c \in Channel : TRUE) \in Channel
  BY ConstantAssumption, Zenon
<1> QED
  BY <1>1, CountZero DEF NoArg

LEMMA LeaveCriticalStep ==
  ASSUME IInv, LeaveCritical
  PROVE  IInv'
<1>1. MeterTypes' /\ Counting' /\ Periods'
  BY MeterKept DEF LeaveCritical
<1>2. /\ pc = "leave" /\ pc' = "loop" /\ iflag' = TRUE
      /\ CH' = CH /\ arg' = NoArg /\ data' = Fresh(0)
  BY DEF LeaveCritical, meter
<1>3. SaveTypes' /\ Saving'
  BY <1>2, SavingKept DEF LeaveCritical
<1>4. MainTypes'
  BY <1>2, NoArgIs, CountZero, FreshIs DEF MainTypes, Places, Critical
<1>5. Reading'
  BY <1>2 DEF IInv, Reading
<1> QED
  BY <1>1, <1>3, <1>4, <1>5 DEF IInv

LEMMA BeginSaveStep ==
  ASSUME IInv, BeginSave
  PROVE  IInv'
<1>1. MeterTypes' /\ Counting' /\ Periods'
  BY MeterKept DEF BeginSave
<1>2. pc = "loop" /\ pc' = "save" /\ UNCHANGED <<CH, iflag, arg, data>>
  BY DEF BeginSave, meter
<1>3. UNCHANGED <<ticks, written, rtc, recent, current>> /\ tosave' = Channel
  BY DEF BeginSave
<1>4. SaveTypes'
  BY <1>2, <1>3 DEF IInv, SaveTypes
<1>5. Saving'
  BY <1>2, <1>3 DEF IInv, Saving
<1>6. MainTypes'
  BY <1>2 DEF IInv, MainTypes, Places, Critical
<1>7. Reading'
  BY <1>2 DEF IInv, Reading
<1> QED
  BY <1>1, <1>4, <1>5, <1>6, <1>7 DEF IInv

LEMMA EndSaveStep ==
  ASSUME IInv, EndSave
  PROVE  IInv'
<1>1. MeterTypes' /\ Counting' /\ Periods'
  BY MeterKept DEF EndSave
<1>2. pc = "save" /\ pc' = "loop" /\ UNCHANGED <<CH, iflag, data>> /\ arg' = NoArg
  BY DEF EndSave, meter
<1>3. SaveTypes' /\ Saving'
  BY <1>2, SavingKept DEF EndSave
<1>4. MainTypes'
  BY <1>2, NoArgIs DEF IInv, MainTypes, Places, Critical
<1>5. Reading'
  BY <1>2 DEF IInv, Reading
<1> QED
  BY <1>1, <1>3, <1>4, <1>5 DEF IInv

LEMMA SaveChannelStep ==
  ASSUME IInv, NEW c \in Channel, SaveChannel(c)
  PROVE  IInv'
<1>1. MeterTypes' /\ Counting' /\ Periods'
  BY MeterKept DEF SaveChannel
<1>2. pc = "save" /\ pc' = "load" /\ UNCHANGED <<CH, iflag, data, ticks, written, rtc, recent>>
  BY DEF SaveChannel, meter
<1>3. /\ arg' = [arg EXCEPT !.ch = c] /\ tosave' = tosave \ {c}
      /\ current' = [current EXCEPT ![c] = {CH[c].count}]
  BY DEF SaveChannel
<1>4. CH[c].count \in Count /\ CH[c].count \in recent[c]
  BY DEF IInv, Saving, MeterTypes, Statistics
<1>5. MainTypes' /\ arg'.ch = c
  <2>1. arg' \in [ch : Channel, op : {"read", "reset", "set"}, ticks : Count] /\ arg'.ch = c
    BY <1>3 DEF IInv, MainTypes
  <2> QED
    BY <1>2, <2>1 DEF IInv, MainTypes, Places, Critical
<1>6. SaveTypes'
  BY <1>2, <1>3, <1>4 DEF IInv, SaveTypes, NoBytes
<1>7. Reading'
  BY <1>2 DEF IInv, Reading
<1>8. Saving'
  <2>1. \A d \in Channel : current[d] = {}
    BY <1>2 DEF IInv, Saving
  <2>2. \A d \in Channel : current'[d] = IF d = c THEN {CH[c].count} ELSE {}
    BY <1>3, <2>1 DEF IInv, SaveTypes
  <2>3. ticks' = NoBytes /\ written' = 0
    BY <1>2 DEF IInv, SaveTypes
  <2> QED
    BY <1>2, <1>4, <1>5, <2>2, <2>3 DEF IInv, Saving, NoBytes
<1> QED
  BY <1>1, <1>5, <1>6, <1>7, <1>8 DEF IInv

LEMMA LoadByteStep ==
  ASSUME IInv, NEW b \in 0 .. Bytes - 1, LoadByte(b)
  PROVE  IInv'
<1>1. MeterTypes' /\ Counting' /\ Periods'
  BY MeterKept DEF LoadByte
<1> DEFINE c == arg.ch
           n == CH[c].count
<1>2. /\ pc = "load" /\ pc' = (IF DOMAIN ticks' = 0 .. Bytes - 1 THEN "write" ELSE "load")
      /\ UNCHANGED <<CH, iflag, arg, data, tosave, written, rtc, recent, current>>
  BY DEF LoadByte, meter
<1>3. ticks' = [i \in DOMAIN ticks \cup {b} |-> IF i = b THEN ByteOf(n, b) ELSE ticks[i]]
  BY DEF LoadByte
<1>4. c \in Channel /\ n \in Count /\ n \in current[c]
  BY <1>2 DEF IInv, MainTypes, MeterTypes, Statistics, Saving
<1>5. ByteOf(n, b) \in Byte
  <2>1. n \in Nat
    BY <1>4 DEF Count
  <2> QED
    BY <2>1, ByteType
<1> HIDE DEF c, n
<1>6. SaveTypes'
  <2>1. DOMAIN ticks' \subseteq 0 .. Bytes - 1 /\ \A i \in DOMAIN ticks' : ticks'[i] \in Byte
    BY <1>3, <1>5 DEF IInv, SaveTypes
  <2> QED
    BY <1>2, <2>1 DEF IInv, SaveTypes
<1>7. MainTypes'
  BY <1>2 DEF IInv, MainTypes, Places, Critical
<1>8. Reading'
  BY <1>2 DEF IInv, Reading
<1>9. Saving'
  <2>1. \A i \in DOMAIN ticks' : \E m \in current'[arg'.ch] : ticks'[i] = ByteOf(m, i)
    BY <1>2, <1>3, <1>4 DEF IInv, Saving, c
  <2>2. \A i \in 0 .. written' - 1 : FALSE
    BY <1>2 DEF IInv, SaveTypes
  <2> QED
    BY <1>2, <2>1, <2>2 DEF IInv, Saving
<1> QED
  BY <1>1, <1>6, <1>7, <1>8, <1>9 DEF IInv

LEMMA WriteByteStep ==
  ASSUME IInv, WriteByte
  PROVE  IInv'
<1>1. MeterTypes' /\ Counting' /\ Periods'
  BY MeterKept DEF WriteByte
<1> DEFINE c == arg.ch
<1>2. /\ pc = "write" /\ rtc' = [rtc EXCEPT ![c][written] = ticks[written]]
      /\ UNCHANGED <<CH, iflag, arg, data, tosave>>
  BY DEF WriteByte, meter
<1>3. /\ c \in Channel /\ written \in 0 .. Bytes - 1 /\ DOMAIN ticks = 0 .. Bytes - 1
      /\ ticks[written] \in Byte
  BY <1>2 DEF IInv, MainTypes, SaveTypes
<1>4. /\ rtc' \in [Channel -> [0 .. Bytes - 1 -> Byte]]
      /\ rtc'[c][written] = ticks[written]
      /\ \A b \in 0 .. Bytes - 1 : b # written => rtc'[c][b] = rtc[c][b]
      /\ \A d \in Channel : d # c => rtc'[d] = rtc[d]
  BY <1>2, <1>3 DEF IInv, SaveTypes
<1>5. /\ current[c] # {} /\ current[c] \subseteq recent[c] /\ CH[c].count \in current[c]
      /\ \A b \in 0 .. Bytes - 1 : \E n \in current[c] : ticks[b] = ByteOf(n, b)
      /\ \A b \in 0 .. written - 1 : rtc[c][b] = ticks[b]
  BY <1>2, <1>3 DEF IInv, Saving
<1>6. \A b \in 0 .. written : rtc'[c][b] = ticks[b]
  <2> SUFFICES ASSUME NEW b \in 0 .. written PROVE rtc'[c][b] = ticks[b]
    OBVIOUS
  <2>1. b # written => b \in 0 .. written - 1 /\ b \in 0 .. Bytes - 1
    BY <1>3, Sizes
  <2> QED
    BY <1>4, <1>5, <2>1
<1>7. \A d \in Channel : d # c => current[d] = {}
  BY <1>2 DEF IInv, Saving
<1>8. recent \in [Channel -> SUBSET Count] /\ current \in [Channel -> SUBSET Count]
  BY DEF IInv, SaveTypes
<1>9. Reading'
  <2>1. pc' \in {"save", "write"}
    BY DEF WriteByte
  <2> QED
    BY <1>2, <2>1 DEF IInv, Reading
<1>10. MainTypes'
  <2>1. pc' \in {"save", "write"}
    BY DEF WriteByte
  <2> QED
    BY <1>2, <2>1 DEF IInv, MainTypes, Places, Critical
<1>11. CASE written + 1 = Bytes
  <2>1. /\ pc' = "save" /\ ticks' = NoBytes /\ written' = 0
        /\ recent' = [recent EXCEPT ![c] = current[c]]
        /\ current' = [current EXCEPT ![c] = {}]
    BY <1>11 DEF WriteByte
  <2> HIDE DEF c
  <2>2. /\ recent' \in [Channel -> SUBSET Count] /\ current' \in [Channel -> SUBSET Count]
        /\ recent'[c] = current[c] /\ current'[c] = {}
        /\ \A d \in Channel : d # c => recent'[d] = recent[d] /\ current'[d] = current[d]
    BY <1>3, <1>8, <2>1
  <2>3. SaveTypes'
    BY <1>2, <1>4, <2>1, <2>2, Sizes DEF IInv, SaveTypes, NoBytes
  <2>4. \A b \in 0 .. Bytes - 1 : rtc'[c][b] = ticks[b]
    <3>1. \A b \in 0 .. Bytes - 1 : b \in 0 .. written
      BY <1>3, <1>11, Sizes
    <3> QED
      BY <1>6, <3>1
  <2>5. ASSUME NEW d \in Channel
        PROVE  /\ CH'[d].count \in recent'[d]
               /\ current'[d] = {}
               /\ \A b \in 0 .. Bytes - 1 : \E n \in recent'[d] : rtc'[d][b] = ByteOf(n, b)
    <3>1. CASE d = c
      BY <1>2, <1>5, <2>2, <2>4, <3>1
    <3>2. CASE d # c
      BY <1>2, <1>4, <1>7, <2>2, <3>2 DEF IInv, Saving
    <3> QED
      BY <3>1, <3>2
  <2>6. \A b \in DOMAIN ticks' : FALSE
    BY <2>1 DEF NoBytes
  <2>7. \A b \in 0 .. written' - 1 : FALSE
    BY <2>1
  <2>8. Saving'
    BY <2>1, <2>5, <2>6, <2>7 DEF Saving
  <2> QED
    BY <1>1, <1>9, <1>10, <2>3, <2>8 DEF IInv
<1>12. CASE written + 1 # Bytes
  <2>1. written' = written + 1 /\ UNCHANGED <<pc, ticks, recent, current>>
    BY <1>12 DEF WriteByte
  <2> HIDE DEF c
  <2>2. SaveTypes'
    BY <1>2, <1>3, <1>4, <1>12, <2>1, Sizes DEF IInv, SaveTypes
  <2>3. \A d \in Channel : \A b \in 0 .. Bytes - 1 : \E n \in recent'[d] : rtc'[d][b] = ByteOf(n, b)
    <3> SUFFICES ASSUME NEW d \in Channel, NEW b \in 0 .. Bytes - 1
                 PROVE  \E n \in recent[d] : rtc'[d][b] = ByteOf(n, b)
      BY <2>1
    <3>1. CASE d = c /\ b = written
      BY <1>4, <1>5, <3>1
    <3>2. CASE ~(d = c /\ b = written)
      BY <1>4, <3>2 DEF IInv, Saving
    <3> QED
      BY <3>1, <3>2
  <2>4. \A b \in 0 .. written' - 1 : rtc'[arg'.ch][b] = ticks'[b]
    <3>1. written' - 1 = written
      BY <1>3, <2>1
    <3> QED
      BY <1>2, <1>6, <2>1, <3>1 DEF c
  <2>5. Saving'
    BY <1>2, <2>1, <2>3, <2>4 DEF IInv, Saving
  <2> QED
    BY <1>1, <1>9, <1>10, <2>2, <2>5 DEF IInv
<1> QED
  BY <1>11, <1>12

LEMMA RestartStep ==
  ASSUME IInv, Restart
  PROVE  IInv'
<1>1. rtc \in [Channel -> [0 .. Bytes - 1 -> Byte]] /\ rtc' = rtc
  BY DEF IInv, SaveTypes, Restart
<1>2. \A c \in Channel : Value(rtc[c]) \in Count
  BY <1>1, ValueType
<1>3. CH' = [c \in Channel |-> Fresh(Value(rtc[c]))]
  BY DEF Restart
<1>4. \A c \in Channel :
        /\ CH'[c] \in Statistics /\ Consistent(CH'[c]) /\ CH'[c].count = Value(rtc[c])
        /\ CH'[c].pcount = 0 /\ CH'[c].period = 0 /\ CH'[c].last = 0
  BY <1>2, <1>3, FreshIs
<1>5. /\ pcif' = FALSE /\ now' = 0 /\ iflag' = TRUE /\ pc' = "loop" /\ arg' = NoArg
      /\ data' = Fresh(0) /\ tosave' = {} /\ ticks' = NoBytes /\ written' = 0
      /\ UNCHANGED <<level, moved>>
  BY DEF Restart
<1>6. \A c \in Channel :
        /\ port_bits'[c] = 1 /\ falls'[c] = 0 /\ lowAtStart'[c] = (level[c] = 0)
        /\ reported'[c] = 0 /\ quiet'[c] = 0
        /\ recent'[c] = {Value(rtc[c])} /\ current'[c] = {}
  BY DEF Restart
<1>7. MeterTypes'
  <2>1. /\ port_bits' \in [Channel -> {0, 1}] /\ quiet' \in [Channel -> 0 .. 2]
        /\ falls' \in [Channel -> Nat] /\ reported' \in [Channel -> Nat]
        /\ lowAtStart' \in [Channel -> BOOLEAN]
    BY DEF Restart
  <2>2. CH' \in [Channel -> Statistics]
    BY <1>3, <1>4
  <2>3. now' \in 0 .. MaxTime /\ \A c \in Channel : CH'[c].last <= now'
    BY <1>4, <1>5, ConstantAssumption
  <2>4. /\ level' \in [Channel -> {0, 1}] /\ pcif' \in BOOLEAN /\ moved' \in BOOLEAN
    BY <1>5 DEF IInv, MeterTypes
  <2>5. restarts' \in Nat
    BY DEF IInv, MeterTypes, Restart
  <2> QED
    BY <2>1, <2>2, <2>3, <2>4, <2>5 DEF MeterTypes
<1>8. MainTypes'
  BY <1>5, NoArgIs, CountZero, FreshIs DEF MainTypes, Places, Critical
<1>9. SaveTypes'
  <2>1. recent' \in [Channel -> SUBSET Count] /\ current' \in [Channel -> SUBSET Count]
    BY <1>2 DEF Restart
  <2> QED
    BY <1>1, <1>5, <2>1, Sizes DEF SaveTypes, NoBytes
<1>10. Reading'
  BY <1>4, <1>5 DEF Reading
<1>11. Counting'
  <2> SUFFICES ASSUME NEW c \in Channel
               PROVE  /\ Impulses(c)' = falls'[c]
                      /\ port_bits'[c] # level'[c] => port_bits'[c] = 1 /\ lowAtStart'[c]
    BY Zenon DEF Counting
  <2>1. Pending(c)' = 0
    BY <1>5 DEF Pending
  <2>2. Impulses(c)' = 0
    BY <1>4, <1>6, <2>1 DEF Impulses
  <2> QED
    BY <1>5, <1>6, <2>2 DEF IInv, MeterTypes
<1>12. Periods'
  BY <1>4, <1>5, <1>6 DEF Periods
<1>13. Saving'
  <2>1. \A c \in Channel : \A b \in 0 .. Bytes - 1 : rtc'[c][b] = ByteOf(Value(rtc[c]), b)
    BY <1>1, BytesOfValue
  <2>2. \A b \in DOMAIN ticks' : FALSE
    BY <1>5 DEF NoBytes
  <2>3. \A b \in 0 .. written' - 1 : FALSE
    BY <1>5
  <2> QED
    BY <1>4, <1>5, <1>6, <2>1, <2>2, <2>3 DEF Saving
<1> QED
  BY <1>7, <1>8, <1>9, <1>10, <1>11, <1>12, <1>13 DEF IInv

LEMMA StutterStep == ASSUME IInv, UNCHANGED vars PROVE IInv'
<1>1. MeterTypes' /\ Counting' /\ Periods'
  BY MeterKept DEF vars
<1>2. MainTypes' /\ SaveTypes'
  BY MainKept DEF IInv, vars
<1>3. Reading'
  BY DEF IInv, Reading, vars, meter
<1>4. Saving'
  BY DEF IInv, Saving, vars, meter, saving
<1> QED
  BY <1>1, <1>2, <1>3, <1>4 DEF IInv

LEMMA NextIInv == IInv /\ [Next]_vars => IInv'
<1> SUFFICES ASSUME IInv, [Next]_vars PROVE IInv'
  OBVIOUS
<1>1. CASE \E S \in SUBSET Channel : PinChange(S)
  BY <1>1, PinChangeStep
<1>2. CASE TimerInterrupt
  BY <1>2, TimerInterruptStep
<1>3. CASE PinChangeInterrupt
  BY <1>3, PinChangeInterruptStep
<1>4. CASE Main
  <2>1. CASE \E a \in Operation : EnterCritical(a)
    BY <2>1, EnterCriticalStep
  <2>2. CASE \E c \in Channel : SaveChannel(c)
    BY <2>2, SaveChannelStep
  <2>3. CASE \E b \in 0 .. Bytes - 1 : LoadByte(b)
    BY <2>3, LoadByteStep
  <2> QED
    BY <1>4, <2>1, <2>2, <2>3, CopyCountsStep, CopyStatisticsStep, ResetStatisticsStep,
       SetTicksStep, LeaveCriticalStep, BeginSaveStep, WriteByteStep, EndSaveStep DEF Main
<1>5. CASE Restart
  BY <1>5, RestartStep
<1>6. CASE UNCHANGED vars
  BY <1>6, StutterStep
<1> QED
  BY <1>1, <1>2, <1>3, <1>4, <1>5, <1>6 DEF Next

LEMMA Invariant == Spec => []IInv
  BY InitIInv, NextIInv, PTL DEF Spec

------------------------------------------------------------------------------
(* The theorems                                                            *)

\* Type correctness: with counts of any width, the value read back from the
\* clock chip is a count and the statistics stay in range.
THEOREM TypeCorrect == Spec => []TypeOK
<1>1. IInv => TypeOK
  <2> SUFFICES ASSUME IInv PROVE TypeOK
    OBVIOUS
  <2>1. level \in [Channel -> {0, 1}] /\ port_bits \in [Channel -> {0, 1}]
        /\ CH \in [Channel -> Statistics]
    BY DEF IInv, MeterTypes
  <2>2. data \in Statistics /\ iflag = (pc \notin Critical)
    BY DEF IInv, MainTypes
  <2>3. rtc \in [Channel -> [0 .. Bytes - 1 -> Byte]] /\ tosave \subseteq Channel
        /\ DOMAIN ticks \subseteq 0 .. Bytes - 1
    BY DEF IInv, SaveTypes
  <2>4. written \in 0 .. Bytes
    BY Sizes DEF IInv, SaveTypes
  <2> QED
    BY <2>1, <2>2, <2>3, <2>4, Zenon DEF TypeOK, Critical
<1> QED
  BY <1>1, Invariant, PTL

\* No impulse is lost between the interrupt and the readings with reset, and
\* none is reported twice but one under way at a reset.
THEOREM ImpulsesReported == Spec => []EveryImpulseReported
<1>1. IInv => EveryImpulseReported
  BY Zenon DEF IInv, Counting, EveryImpulseReported, Impulses
<1> QED
  BY <1>1, Invariant, PTL

\* A reading is of one moment: its average, least and greatest period fit.
THEOREM ReadingOfOneMoment == Spec => []ReadingIsConsistent
<1>1. IInv => ReadingIsConsistent
  BY Zenon DEF IInv, Reading, ReadingIsConsistent, Consistent
<1> QED
  BY <1>1, Invariant, PTL

\* After a reset at any moment, in a save too, the meter goes on with bytes of
\* counts it had, and with one of these counts as long as no impulse carried
\* into the second byte.
THEOREM RestoredCounts == Spec => []RestoredIsRecent
<1>1. ASSUME IInv, NEW c \in Channel
      PROVE  \A b \in 0 .. Bytes - 1 : \E n \in recent[c] : rtc[c][b] = ByteOf(n, b)
  BY <1>1 DEF IInv, Saving
<1>2. ASSUME IInv, NEW c \in Channel,
             \A m, n \in recent[c] : m \div Base = n \div Base
      PROVE  Value(rtc[c]) \in recent[c]
  <2>1. recent[c] \subseteq Count
    BY <1>2 DEF IInv, SaveTypes
  <2>2. \A b \in 0 .. Bytes - 1 : \E n \in recent[c] : rtc[c][b] = ByteOf(n, b)
    BY <1>1, <1>2
  <2>3. 0 \in 0 .. Bytes - 1
    BY Sizes
  <2>4. PICK n \in recent[c] : rtc[c][0] = ByteOf(n, 0)
    BY <2>2, <2>3
  <2>5. ASSUME NEW b \in 0 .. Bytes - 1
        PROVE  rtc[c][b] = ByteOf(n, b)
    <3>1. CASE b = 0
      BY <2>4, <3>1
    <3>2. CASE b # 0
      <4>1. b \in 1 .. Bytes - 1
        BY <3>2
      <4>2. PICK m \in recent[c] : rtc[c][b] = ByteOf(m, b)
        BY <2>2
      <4>3. m \in Nat /\ n \in Nat /\ m \div Base = n \div Base
        BY <1>2, <2>1 DEF Count
      <4> QED
        BY <4>1, <4>2, <4>3, HighByte
    <3> QED
      BY <3>1, <3>2
  <2>6. Value(rtc[c]) = n
    BY <2>1, <2>5, ValueOfBytes
  <2> QED
    BY <2>6
<1>3. IInv => RestoredIsRecent
  BY <1>1, <1>2 DEF RestoredIsRecent
<1> QED
  BY <1>3, Invariant, PTL

\* A step clears a period only as the second quiet reading in a row, or as a
\* reset.
LEMMA ClearedByQuiet ==
  ASSUME IInv, [Next]_vars, NEW c \in Channel, CH[c].period # 0, CH'[c].period = 0
  PROVE  quiet[c] = 1 \/ restarts' # restarts
<1>1. CH[c] \in Statistics /\ CH \in [Channel -> Statistics]
      /\ CH[c].last <= now /\ now \in 0 .. MaxTime
  BY DEF IInv, MeterTypes
<1>2. CH' # CH
  OBVIOUS
<1>3. CASE PinChangeInterrupt
  <2>1. CH'[c] = IF c \in Falling THEN Counted(CH[c]) ELSE CH[c]
    BY <1>3 DEF PinChangeInterrupt, Falling
  <2>2. c \in Falling /\ CH'[c] = Counted(CH[c])
    BY <2>1
  <2>3. CH'[c].period = IF CH[c].last = 0 THEN CH[c].period ELSE now - CH[c].last
    BY <1>1, <2>2, CountedIs
  <2>4. CH[c].last # now
    <3>1. CH[c].last # 0
      BY <2>3
    <3>2. CH[c].last \in 0 .. MaxTime
      BY <1>1 DEF Statistics
    <3> QED
      BY <2>2, <3>1, <3>2 DEF IInv, Periods, Falling
  <2> QED
    BY <1>1, <2>3, <2>4 DEF Statistics
<1>4. CASE ResetStatistics
  <2>1. arg.ch \in Channel
    BY DataIs DEF IInv
  <2> DEFINE d == arg.ch
             p == IF CH[d].pcount = 0 THEN 0 ELSE CH[d].period
  <2>2. CH' = [CH EXCEPT ![d] = [Fresh(CH[d].count) EXCEPT !.period = p, !.last = CH[d].last]]
    BY <1>4 DEF ResetStatistics
  <2>3. c = d /\ CH'[c] = [Fresh(CH[d].count) EXCEPT !.period = p, !.last = CH[d].last]
    BY <1>1, <2>1, <2>2
  <2>4. CH'[c].period = p
    <3> HIDE DEF p
    <3> QED
      BY <2>3 DEF Fresh
  <2>5. CH[c].pcount = 0
    BY <2>3, <2>4
  <2> QED
    BY <2>5 DEF IInv, Periods, MeterTypes
<1>5. CASE SetTicks
  <2>1. CH'[c].period = CH[c].period
    BY <1>1, <1>5 DEF SetTicks, Statistics
  <2> QED
    BY <2>1
<1>6. CASE Restart
  <2>1. restarts' = restarts + 1 /\ restarts \in Nat
    BY <1>6 DEF Restart, IInv, MeterTypes
  <2> QED
    BY <2>1
<1>7. CASE UNCHANGED CH
  BY <1>7
<1>8. PinChangeInterrupt \/ ResetStatistics \/ SetTicks \/ Restart \/ UNCHANGED CH
  BY DEF Next, Main, PinChange, TimerInterrupt, EnterCritical, CopyCounts, CopyStatistics,
         LeaveCritical, BeginSave, SaveChannel, LoadByte, WriteByte, EndSave, meter, vars
<1> QED
  BY <1>3, <1>4, <1>5, <1>6, <1>7, <1>8

\* The meter reports that no power is used after two readings with reset in a
\* row that saw no impulse, and at no other time.
THEOREM PeriodCleared == Spec => PeriodClearedByQuiet
<1>1. IInv => \A c \in Channel : quiet[c] = 2 => CH[c].period = 0
  BY DEF IInv, Periods
<1>2. IInv /\ [Next]_vars =>
        [\A c \in Channel :
           CH[c].period # 0 /\ CH'[c].period = 0 =>
             quiet[c] = 1 \/ restarts' # restarts]_vars
  BY ClearedByQuiet
<1> QED
  BY <1>1, <1>2, Invariant, PTL DEF Spec, PeriodClearedByQuiet

==============================================================================
