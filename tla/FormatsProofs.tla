---------------------------- MODULE FormatsProofs ----------------------------
(***************************************************************************)
(* What the small parts of the pool promise, for all values of their       *)
(* constants: targets, statistics, transaction trees, the coinbase, the    *)
(* Equihash verifier, nonces, the API server and the accept loop; and the  *)
(* invariants of Formats, which follow for every set of inputs.            *)
(***************************************************************************)
EXTENDS Formats, Sums, SequenceTheorems

-----------------------------------------------------------------------------
(***************************************************************************)
(* Targets, for every limit, difficulty and hash.                          *)
(***************************************************************************)
\* The integer quotient: what division leaves is smaller than the divisor.
LEMMA Quotient ==
    ASSUME NEW a \in Nat, NEW b \in Nat \ {0}
    PROVE  /\ Div(a, b) \in Nat
           /\ Div(a, b) * b <= a
           /\ a < (Div(a, b) + 1) * b
  <1>1. /\ a \div b \in Int /\ a % b \in 0 .. b - 1
        /\ a = (b * (a \div b)) + (a % b)
    BY SMT
  <1>2. a \div b >= 0
    BY SMT
  <1> QED
    BY <1>1, <1>2, SMT DEF Div

\* To compare with the quotient is to compare the product.
LEMMA LeQuotient ==
    ASSUME NEW a \in Nat, NEW b \in Nat \ {0}, NEW h \in Nat
    PROVE  h <= Div(a, b) <=> h * b <= a
  <1> DEFINE q == Div(a, b)
  <1>1. q \in Nat /\ q * b <= a /\ a < (q + 1) * b
    BY Quotient
  <1> HIDE DEF q
  <1>2. ASSUME h <= q PROVE h * b <= a
    <2>1. h * b <= q * b
      BY <1>1, <1>2, SMT
    <2> QED
      BY <2>1, <1>1, SMT
  <1>3. ASSUME h >= q + 1 PROVE ~(h * b <= a)
    <2>1. (q + 1) * b <= h * b
      BY <1>1, <1>3, SMT
    <2> QED
      BY <2>1, <1>1, SMT
  <1>4. h <= q \/ h >= q + 1
    BY <1>1, SMT
  <1> QED
    BY <1>2, <1>3, <1>4 DEF q

\* The quotient the target stands for decides as the code does: a hash is a
\* share if and only if it is at most PowLimit div diff (GetTargetHex,
\* isShareDiffGeDiff).
LEMMA QuotientDecides ==
    ASSUME NEW hash \in Nat, NEW diff \in Nat \ {0}
    PROVE  hash <= Div(PowLimit, diff) <=> isShareDiffGeDiff(hash, diff)
  <1>1. PowLimit \in Nat
    BY TargetAssumption
  <1> QED
    BY <1>1, LeQuotient, SMT DEF isShareDiffGeDiff

\* A block of at least the miners' difficulty is a share, whatever the target
\* (processShare).
THEOREM BlocksAreShares ==
    ASSUME NEW hash \in Nat, NEW target \in Nat, NEW diff \in Nat \ {0}
    PROVE  BlockIsShare(hash, target, diff)
  <1> SUFFICES ASSUME target > 0, WorkDifficulty(target) >= diff,
                      Kind(hash, target, diff) = "block"
               PROVE  isShareDiffGeDiff(hash, diff)
    BY DEF BlockIsShare
  <1>1. PowLimit \in Nat
    BY TargetAssumption
  <1>2. hash <= target
    BY DEF Kind, isHeaderLeTarget
  <1>3. target \in Nat \ {0}
    OBVIOUS
  <1>4. diff * target <= PowLimit
    BY <1>1, <1>3, LeQuotient DEF WorkDifficulty
  <1>5. hash * diff <= target * diff
    BY <1>2, SMT
  <1> QED
    BY <1>1, <1>4, <1>5, SMT DEF isShareDiffGeDiff

-----------------------------------------------------------------------------
(***************************************************************************)
(* The bytes of a target.  What is computed step by step over 0 .. W is a  *)
(* recursive function; that it exists, and what holds of all its values,   *)
(* is shown by the least number at which it would not.                     *)
(***************************************************************************)
LEMMA UptoInduction ==
    ASSUME NEW W \in Nat, NEW Q, 0 \in Q,
           \A i \in 1 .. W : i - 1 \in Q => i \in Q
    PROVE  0 .. W \subseteq Q
  <1> DEFINE N == {n \in 0 .. W : n \notin Q}
  <1>1. SUFFICES ASSUME N # {} PROVE FALSE
    OBVIOUS
  <1>2. PICK n \in N : \A m \in N : n <= m
    <2>1. N \subseteq Nat
      OBVIOUS
    <2> HIDE DEF N
    <2> QED
      BY <1>1, <2>1, LeastNatural
  <1>3. n \in 1 .. W /\ n - 1 \notin N
    BY <1>2
  <1> QED
    BY <1>2, <1>3

LEMMA RecurrenceExists ==
    ASSUME NEW W \in Nat, NEW a \in Int, NEW M \in Int, NEW H \in [1 .. W -> Int]
    PROVE  \E g \in [0 .. W -> Int] :
               g[0] = a /\ \A i \in 1 .. W : g[i] = M * g[i - 1] + H[i]
  <1> DEFINE Works(n) == \E g \in [0 .. n -> Int] :
                 g[0] = a /\ \A i \in 1 .. n : g[i] = M * g[i - 1] + H[i]
             Q == {n \in 0 .. W : Works(n)}
  <1>1. 0 \in Q
    <2> DEFINE g == [i \in 0 .. 0 |-> a]
    <2>1. g \in [0 .. 0 -> Int] /\ g[0] = a
      OBVIOUS
    <2>2. \A i \in 1 .. 0 : g[i] = M * g[i - 1] + H[i]
      OBVIOUS
    <2> HIDE DEF g
    <2>3. Works(0)
      BY <2>1, <2>2
    <2> HIDE DEF Works
    <2> QED
      BY <2>3
  <1>2. ASSUME NEW n \in 1 .. W, n - 1 \in Q PROVE n \in Q
    <2>1. PICK g \in [0 .. n - 1 -> Int] :
              g[0] = a /\ \A i \in 1 .. n - 1 : g[i] = M * g[i - 1] + H[i]
      BY <1>2
    <2> DEFINE last == M * g[n - 1] + H[n]
               h == [i \in 0 .. n |-> IF i = n THEN last ELSE g[i]]
    <2>2. last \in Int
      BY <2>1
    <2>3. h \in [0 .. n -> Int] /\ h[0] = a
      BY <2>1, <2>2
    <2>4. ASSUME NEW i \in 1 .. n PROVE h[i] = M * h[i - 1] + H[i]
      <3>1. h[i - 1] = g[i - 1]
        OBVIOUS
      <3>2. CASE i = n
        <4>1. h[i] = last
          BY <3>2
        <4>2. last = M * h[i - 1] + H[i]
          BY <3>1, <3>2
        <4> QED
          BY <4>1, <4>2
      <3>3. CASE i # n
        <4>1. i \in 1 .. n - 1 /\ h[i] = g[i]
          BY <3>3
        <4> QED
          BY <2>1, <3>1, <4>1
      <3> QED
        BY <3>2, <3>3
    <2> HIDE DEF h
    <2>5. Works(n)
      BY <2>3, <2>4
    <2> HIDE DEF Works
    <2> QED
      BY <2>5
  <1>3. W \in Q
    <2> HIDE DEF Q
    <2>1. 0 .. W \subseteq Q
      BY <1>1, <1>2, UptoInduction
    <2>2. W \in 0 .. W
      OBVIOUS
    <2> QED
      BY <2>1, <2>2
  <1> QED
    BY <1>3

LEMMA PowersExist ==
    ASSUME NEW W \in Nat, NEW M \in Int
    PROVE  \E g \in [0 .. W -> Int] :
               g[0] = 1 /\ \A i \in 1 .. W : g[i] = M * g[i - 1]
  <1> DEFINE H == [i \in 1 .. W |-> 0]
  <1>1. H \in [1 .. W -> Int] /\ \A i \in 1 .. W : H[i] = 0
    OBVIOUS
  <1>2. 1 \in Int
    OBVIOUS
  <1> HIDE DEF H
  <1>3. PICK g \in [0 .. W -> Int] :
            g[0] = 1 /\ \A i \in 1 .. W : g[i] = M * g[i - 1] + H[i]
    BY <1>1, <1>2, RecurrenceExists, Zenon
  <1>4. ASSUME NEW i \in 1 .. W PROVE g[i] = M * g[i - 1]
    <2>1. g[i - 1] \in Int
      BY <1>3
    <2>2. M * g[i - 1] \in Int
      BY <2>1, SMT
    <2> QED
      BY <1>1, <1>3, <2>2
  <1> QED
    BY <1>3, <1>4

\* The powers of the base are what they are called.
LEMMA Powers ==
    /\ Power \in [0 .. Width -> Nat \ {0}]
    /\ Power[0] = 1
    /\ \A i \in 1 .. Width : Power[i] = Base * Power[i - 1]
  <1> DEFINE IsPower(f) == f = [k \in 0 .. Width |-> IF k = 0 THEN 1 ELSE Base * f[k - 1]]
  <1>1. Base \in Nat \ {0} /\ Width \in Nat
    BY TargetAssumption
  <1>2. Base \in Int /\ Width \in Nat
    BY <1>1
  <1>3. PICK g \in [0 .. Width -> Int] :
            g[0] = 1 /\ \A i \in 1 .. Width : g[i] = Base * g[i - 1]
    BY <1>2, PowersExist
  <1>5. IsPower(g)
    BY <1>1, <1>3
  <1>6. IsPower(Power)
    <2>1. Power = CHOOSE f : IsPower(f)
      BY DEF Power
    <2> HIDE DEF IsPower
    <2> QED
      BY <1>5, <2>1
  <1>7. Power[0] = 1 /\ \A i \in 1 .. Width : Power[i] = Base * Power[i - 1]
    <2>1. \A k \in 0 .. Width : Power[k] = IF k = 0 THEN 1 ELSE Base * Power[k - 1]
      BY <1>6
    <2> QED
      BY <1>1, <2>1
  <1>8. 0 .. Width \subseteq {k \in 0 .. Width : Power[k] \in Nat \ {0}}
    <2> DEFINE Q == {k \in 0 .. Width : Power[k] \in Nat \ {0}}
    <2>1. 0 \in Q
      BY <1>1, <1>7
    <2>2. ASSUME NEW i \in 1 .. Width, i - 1 \in Q PROVE i \in Q
      <3>1. Power[i] = Base * Power[i - 1] /\ Power[i - 1] \in Nat \ {0}
        BY <1>7, <2>2
      <3>2. Power[i] \in Nat \ {0}
        BY <1>1, <3>1, SMT
      <3> QED
        BY <3>2
    <2> HIDE DEF Q
    <2>3. 0 .. Width \subseteq Q
      BY <1>1, <2>1, <2>2, UptoInduction
    <2> QED
      BY <2>3 DEF Q
  <1>9. DOMAIN Power = 0 .. Width /\ Power = [k \in DOMAIN Power |-> Power[k]]
    BY <1>6
  <1> QED
    BY <1>7, <1>8, <1>9

LEMMA PowersGrow ==
    ASSUME NEW i \in 0 .. Width, NEW j \in 0 .. Width, i <= j
    PROVE  Power[i] <= Power[j]
  <1> DEFINE Q == {k \in 0 .. Width : \A m \in 0 .. k : Power[m] <= Power[k]}
  <1>1. Base \in Nat \ {0} /\ Width \in Nat
    BY TargetAssumption
  <1>2. \A k \in 0 .. Width : Power[k] \in Nat
    BY Powers
  <1>3. 0 \in Q
    BY <1>1, <1>2
  <1>4. ASSUME NEW k \in 1 .. Width, k - 1 \in Q PROVE k \in Q
    <2>1. Power[k - 1] \in Nat /\ Power[k] = Base * Power[k - 1]
      BY <1>1, <1>2, Powers
    <2>2. Power[k - 1] <= Power[k]
      BY <1>1, <2>1, SMT
    <2>3. ASSUME NEW m \in 0 .. k PROVE Power[m] <= Power[k]
      <3>1. m = k \/ m \in 0 .. k - 1
        OBVIOUS
      <3>2. m \in 0 .. Width /\ Power[m] \in Nat /\ Power[k] \in Nat
        BY <1>1, <1>2
      <3>3. m \in 0 .. k - 1 => Power[m] <= Power[k - 1]
        BY <1>4
      <3> QED
        BY <2>1, <2>2, <3>1, <3>2, <3>3
    <2> QED
      BY <2>3
  <1> HIDE DEF Q
  <1>5. j \in Q
    <2>1. 0 .. Width \subseteq Q
      BY <1>1, <1>3, <1>4, UptoInduction
    <2> QED
      BY <2>1
  <1> QED
    BY <1>5 DEF Q

\* A number below the limit's weight has a length, the least that suffices.
LEMMA LengthOfBytes ==
    ASSUME NEW n \in Nat, n < Power[Width]
    PROVE  BytesLen(n) \in 0 .. Width /\ n < Power[BytesLen(n)]
  <1> DEFINE Long == {l \in 0 .. Width : n < Power[l]}
  <1>1. Width \in Nat /\ \A k \in 0 .. Width : Power[k] \in Nat
    BY TargetAssumption, Powers
  <1>2. PICK l \in Long : \A m \in Long : l <= m
    <2>1. Long \subseteq Nat /\ Width \in Long
      BY <1>1
    <2> HIDE DEF Long
    <2> QED
      BY <2>1, LeastNatural
  <1>3. ASSUME NEW k \in 0 .. l - 1 PROVE n >= Power[k]
    <2>1. k \in 0 .. Width /\ ~ (l <= k)
      BY <1>1, <1>2
    <2>2. ~ (n < Power[k])
      BY <1>2, <2>1
    <2> QED
      BY <1>1, <2>1, <2>2
  <1>4. \E m \in 0 .. Width : n < Power[m] /\ \A k \in 0 .. m - 1 : n >= Power[k]
    BY <1>2, <1>3
  <1> QED
    BY <1>4 DEF BytesLen

\* The quotient is the only number whose product comes that close.
LEMMA QuotientIs ==
    ASSUME NEW a \in Nat, NEW b \in Nat \ {0}, NEW q \in Nat, q * b <= a, a < (q + 1) * b
    PROVE  a \div b = q
  <1> DEFINE p == Div(a, b)
  <1>1. p \in Nat /\ p * b <= a /\ a < (p + 1) * b
    BY Quotient
  <1>2. a \div b = p
    BY DEF Div
  <1> HIDE DEF p
  <1>3. ASSUME p < q PROVE FALSE
    <2>1. (p + 1) * b <= q * b
      BY <1>1, <1>3, SMT
    <2> QED
      BY <1>1, <2>1, SMT
  <1>4. ASSUME q < p PROVE FALSE
    <2>1. (q + 1) * b <= p * b
      BY <1>1, <1>4, SMT
    <2> QED
      BY <1>1, <2>1, SMT
  <1> QED
    BY <1>1, <1>2, <1>3, <1>4, SMT

\* To divide by a product is to divide twice.
LEMMA QuotientOfQuotient ==
    ASSUME NEW n \in Nat, NEW p \in Nat \ {0}, NEW b \in Nat \ {0}
    PROVE  n \div (b * p) = (n \div p) \div b
  <1> DEFINE q == n \div p
             r == q \div b
  <1>1. q \in Nat /\ q * p <= n /\ n < (q + 1) * p
    BY Quotient DEF Div
  <1> HIDE DEF q
  <1>2. r \in Nat /\ r * b <= q /\ q < (r + 1) * b
    BY <1>1, Quotient DEF Div
  <1> HIDE DEF r
  <1>3. r * (b * p) <= n
    <2>1. r * (b * p) = (r * b) * p
      BY <1>2, SMT
    <2>2. (r * b) \in Nat
      BY <1>2, SMT
    <2>3. (r * b) * p <= q * p
      BY <1>1, <1>2, <2>2, SMT
    <2>4. (r * b) * p \in Nat /\ q * p \in Nat
      BY <1>1, <2>2, SMT
    <2> QED
      BY <1>1, <2>1, <2>3, <2>4, SMT
  <1>4. n < (r + 1) * (b * p)
    <2>1. (r + 1) * (b * p) = ((r + 1) * b) * p
      BY <1>2, SMT
    <2>2. (r + 1) * b \in Nat /\ q + 1 <= (r + 1) * b
      BY <1>1, <1>2, SMT
    <2>3. (q + 1) * p <= ((r + 1) * b) * p
      BY <1>1, <2>2, SMT
    <2>4. (q + 1) * p \in Nat /\ ((r + 1) * b) * p \in Nat
      BY <1>1, <2>2, SMT
    <2> QED
      BY <1>1, <2>1, <2>3, <2>4, SMT
  <1>5. b * p \in Nat \ {0}
    BY SMT
  <1> QED
    BY <1>2, <1>3, <1>4, <1>5, QuotientIs DEF r, q

\* The value of a target is the last of its partial sums.
LEMMA ValueIsSum ==
    ASSUME NEW bytes \in [1 .. Width -> Nat]
    PROVE  \E g \in [0 .. Width -> Int] :
               /\ g[0] = 0
               /\ \A i \in 1 .. Width : g[i] = g[i - 1] + ByteValue(bytes, i)
               /\ TargetValue(bytes) = g[Width]
  <1> DEFINE H == [i \in 1 .. Width |-> ByteValue(bytes, i)]
             IsSum(f) == f = [i \in 0 .. Width |->
                                IF i = 0 THEN 0 ELSE f[i - 1] + ByteValue(bytes, i)]
             total == CHOOSE f : IsSum(f)
  <1>1. Width \in Nat
    BY TargetAssumption
  <1>2. \A i \in 1 .. Width : ByteValue(bytes, i) \in Int
    <2> TAKE i \in 1 .. Width
    <2>1. Width - i \in 0 .. Width
      BY <1>1
    <2>2. bytes[i] \in Nat /\ Power[Width - i] \in Nat
      BY <2>1, Powers
    <2>3. bytes[i] * Power[Width - i] \in Int
      BY <2>2, SMT
    <2> QED
      BY <2>3 DEF ByteValue
  <1>3. H \in [1 .. Width -> Int] /\ \A i \in 1 .. Width : H[i] = ByteValue(bytes, i)
    BY <1>2
  <1>4. 0 \in Int /\ 1 \in Int
    OBVIOUS
  <1> HIDE DEF H
  <1>5. PICK g \in [0 .. Width -> Int] :
            g[0] = 0 /\ \A i \in 1 .. Width : g[i] = 1 * g[i - 1] + H[i]
    BY <1>1, <1>3, <1>4, RecurrenceExists, Zenon
  <1>6. ASSUME NEW i \in 1 .. Width PROVE g[i] = g[i - 1] + ByteValue(bytes, i)
    <2>1. g[i - 1] \in Int
      BY <1>1, <1>5
    <2> QED
      BY <1>3, <1>5, <2>1
  <1>7. IsSum(g)
    BY <1>1, <1>5, <1>6
  <1>8. IsSum(total)
    <2> HIDE DEF IsSum
    <2> QED
      BY <1>7
  <1>9. TargetValue(bytes) = total[Width]
    BY DEF TargetValue
  <1> HIDE DEF total
  <1>10. total[0] = 0 /\ \A i \in 1 .. Width : total[i] = total[i - 1] + ByteValue(bytes, i)
    <2>1. \A i \in 0 .. Width :
              total[i] = IF i = 0 THEN 0 ELSE total[i - 1] + ByteValue(bytes, i)
      BY <1>8
    <2> QED
      BY <1>1, <2>1
  <1>11. 0 .. Width \subseteq {i \in 0 .. Width : total[i] = g[i]}
    <2> DEFINE Q == {i \in 0 .. Width : total[i] = g[i]}
    <2>1. 0 \in Q
      BY <1>1, <1>5, <1>10
    <2>2. ASSUME NEW i \in 1 .. Width, i - 1 \in Q PROVE i \in Q
      BY <1>6, <1>10, <2>2
    <2> HIDE DEF Q
    <2>3. 0 .. Width \subseteq Q
      BY <1>1, <2>1, <2>2, UptoInduction
    <2> QED
      BY <2>3 DEF Q
  <1>12. TargetValue(bytes) = g[Width]
    BY <1>1, <1>9, <1>11
  <1> QED
    BY <1>5, <1>6, <1>12

\* The bytes of a target are the digits of the quotient, also where the
\* quotient has none.
LEMMA TargetDigits ==
    ASSUME NEW diff \in Nat \ {0}, NEW i \in 1 .. Width
    PROVE  GetTargetHex(diff)[i] = (Div(PowLimit, diff) \div Power[Width - i]) % Base
  <1> DEFINE n == Div(PowLimit, diff)
             l == BytesLen(n)
             gap == Width - l
  <1>1. /\ Width \in Nat \ {0} /\ Base \in Nat \ {0, 1}
        /\ PowLimit \in Nat /\ PowLimit < Power[Width]
    BY TargetAssumption
  <1>2. \A k \in 0 .. Width : Power[k] \in Nat \ {0}
    BY Powers
  <1>3. n \in Nat /\ n < Power[Width]
    <2>1. n \in Nat /\ n * diff <= PowLimit
      BY <1>1, Quotient
    <2> HIDE DEF n
    <2>2. n <= n * diff /\ n * diff \in Nat
      BY <2>1, SMT
    <2>3. Power[Width] \in Nat
      BY <1>1, <1>2
    <2> QED
      BY <1>1, <2>1, <2>2, <2>3
  <1>4. GetTargetHex(diff)[i] =
            IF i <= gap THEN 0 ELSE (n \div Power[l - (i - gap)]) % Base
    <2>1. l \in 0 .. Width
      BY <1>3, LengthOfBytes
    <2>2. Len(Bytes(n)) = l
      BY <1>1, <2>1 DEF Bytes
    <2>3. GetTargetHex(diff)[i] = IF i <= Width - Len(Bytes(n)) THEN 0
                                  ELSE Bytes(n)[i - (Width - Len(Bytes(n)))]
      BY DEF GetTargetHex
    <2>4. ~ (i <= gap) => i - gap \in 1 .. l
      BY <1>1, <2>1
    <2>5. \A k \in 1 .. l : Bytes(n)[k] = (n \div Power[l - k]) % Base
      BY DEF Bytes
    <2> HIDE DEF n, l
    <2> QED
      BY <2>2, <2>3, <2>4, <2>5
  <1>5. l \in 0 .. Width /\ n < Power[l]
    BY <1>3, LengthOfBytes
  <1> HIDE DEF n, l
  <1>6. CASE i <= gap
    <2>1. l <= Width - i /\ Width - i \in 0 .. Width
      BY <1>1, <1>5, <1>6
    <2>2. Power[l] <= Power[Width - i]
      BY <1>5, <2>1, PowersGrow
    <2> DEFINE p == Power[Width - i]
    <2>3. p \in Nat \ {0} /\ n < p
      BY <1>2, <1>3, <1>5, <2>1, <2>2
    <2> HIDE DEF p
    <2>4. n \div p = 0
      BY <1>3, <2>3, QuotientIs, SMT
    <2>5. 0 % Base = 0
      BY <1>1, SMT
    <2> QED
      BY <1>4, <1>6, <2>4, <2>5 DEF p, n
  <1>7. CASE ~ (i <= gap)
    <2>1. l - (i - gap) = Width - i
      BY <1>1, <1>5
    <2> QED
      BY <1>4, <1>7, <2>1 DEF n
  <1> QED
    BY <1>6, <1>7

\* A target stands for the quotient of limit and difficulty: its bytes are
\* all of the number, in place (GetTargetHex).
LEMMA TargetIsQuotient ==
    ASSUME NEW diff \in Nat \ {0}
    PROVE  TargetValue(GetTargetHex(diff)) = Div(PowLimit, diff)
  <1> DEFINE n == Div(PowLimit, diff)
             bytes == GetTargetHex(diff)
  <1>1. /\ Width \in Nat \ {0} /\ Base \in Nat \ {0, 1}
        /\ PowLimit \in Nat /\ PowLimit < Power[Width]
    BY TargetAssumption
  <1>2. Power \in [0 .. Width -> Nat \ {0}] /\ Power[0] = 1
        /\ \A i \in 1 .. Width : Power[i] = Base * Power[i - 1]
    BY Powers
  <1>3. n \in Nat /\ n < Power[Width]
    <2>1. n \in Nat /\ n * diff <= PowLimit
      BY <1>1, Quotient
    <2> HIDE DEF n
    <2>2. n <= n * diff /\ n * diff \in Nat
      BY <2>1, SMT
    <2>3. Power[Width] \in Nat
      BY <1>1, <1>2
    <2> QED
      BY <1>1, <2>1, <2>2, <2>3
  <1>4. \A i \in 1 .. Width : bytes[i] = (n \div Power[Width - i]) % Base
    BY TargetDigits
  <1> HIDE DEF n
  \* what is left of the quotient after the bytes from i + 1 on
  <1> DEFINE Left(i) == n \div Power[Width - i]
  <1>5. \A i \in 0 .. Width : Left(i) \in Nat
    <2> TAKE i \in 0 .. Width
    <2>1. Power[Width - i] \in Nat \ {0}
      BY <1>1, <1>2
    <2> QED
      BY <1>3, <2>1, Quotient DEF Div
  <1>6. bytes \in [1 .. Width -> Nat]
    <2>1. \A i \in 1 .. Width : Left(i) % Base \in Nat
      <3> TAKE i \in 1 .. Width
      <3>1. Left(i) \in Nat
        BY <1>5
      <3> HIDE DEF Left
      <3> QED
        BY <1>1, <3>1, SMT
    <2>2. \A i \in 1 .. Width : bytes[i] \in Nat
      BY <1>4, <2>1
    <2>3. bytes = [i \in 1 .. Width |-> bytes[i]]
      BY DEF GetTargetHex
    <2> QED
      BY <2>2, <2>3
  <1>7. ASSUME NEW i \in 1 .. Width
        PROVE  Left(i) = Base * Left(i - 1) + bytes[i]
    <2> DEFINE q == Left(i)
    <2>1. Width - i \in 0 .. Width /\ Width - (i - 1) \in 1 .. Width
          /\ Width - (i - 1) - 1 = Width - i
      BY <1>1
    <2>2. Power[Width - (i - 1)] = Base * Power[Width - i] /\ Power[Width - i] \in Nat \ {0}
      BY <1>2, <2>1
    <2>3. Left(i - 1) = q \div Base
      BY <1>1, <1>3, <2>2, QuotientOfQuotient
    <2>4. q \in Nat /\ bytes[i] = q % Base
      BY <1>4, <1>5
    <2>5. Left(i) = q
      OBVIOUS
    <2> HIDE DEF q, Left
    <2>6. Base \in Nat \ {0}
      BY <1>1
    <2>7. q = (Base * (q \div Base)) + (q % Base)
      BY <2>4, <2>6, SMT
    <2>8. q = Base * Left(i - 1) + bytes[i]
      BY <2>3, <2>4, <2>7
    <2> QED
      BY <2>5, <2>8
  <1>8. PICK g \in [0 .. Width -> Int] :
            /\ g[0] = 0
            /\ \A i \in 1 .. Width : g[i] = g[i - 1] + ByteValue(bytes, i)
            /\ TargetValue(bytes) = g[Width]
    <2> HIDE DEF bytes
    <2> QED
      BY <1>6, ValueIsSum
  <1> HIDE DEF bytes
  <1>9. 0 .. Width \subseteq {i \in 0 .. Width : g[i] = Left(i) * Power[Width - i]}
    <2> DEFINE Q == {i \in 0 .. Width : g[i] = Left(i) * Power[Width - i]}
    <2>1. 0 \in Q
      <3>1. Width - 0 = Width /\ 0 \in 0 .. Width /\ Power[Width] \in Nat \ {0}
        BY <1>1, <1>2
      <3>2. n \div Power[Width] = 0
        BY <1>3, <3>1, QuotientIs, SMT
      <3>3. Left(0) = 0
        BY <3>1, <3>2
      <3>4. Left(0) * Power[Width - 0] = 0
        <4> HIDE DEF Left
        <4> QED
          BY <3>1, <3>3, SMT
      <3> QED
        BY <1>8, <3>1, <3>4
    <2>2. ASSUME NEW i \in 1 .. Width, i - 1 \in Q PROVE i \in Q
      <3> DEFINE p == Power[Width - i]
      <3>1. Width - i \in 0 .. Width /\ Width - (i - 1) \in 1 .. Width
            /\ Width - (i - 1) - 1 = Width - i /\ i \in 0 .. Width
        BY <1>1
      <3>2. Power[Width - (i - 1)] = Base * p /\ p \in Nat \ {0}
        BY <1>2, <3>1
      <3>3. g[i - 1] = Left(i - 1) * (Base * p)
        BY <2>2, <3>2
      <3>4. g[i] = g[i - 1] + bytes[i] * p
        BY <1>8 DEF ByteValue
      <3>5. Left(i - 1) \in Nat /\ Left(i) = Base * Left(i - 1) + bytes[i] /\ bytes[i] \in Nat
        <4> HIDE DEF Left
        <4>1. i - 1 \in 0 .. Width
          BY <1>1
        <4>2. bytes[i] \in Nat
          BY <1>6
        <4> QED
          BY <1>5, <1>7, <4>1, <4>2
      <3>6. g[i] = Left(i) * p
        <4> HIDE DEF p, Left
        <4> QED
          BY <1>1, <3>2, <3>3, <3>4, <3>5, SMT
      <3> HIDE DEF Left
      <3> QED
        BY <3>1, <3>6
    <2> HIDE DEF Q
    <2>3. 0 .. Width \subseteq Q
      BY <1>1, <2>1, <2>2, UptoInduction
    <2> QED
      BY <2>3 DEF Q
  <1>10. g[Width] = Left(Width) * Power[Width - Width]
    BY <1>1, <1>9
  <1>11. Width - Width = 0 /\ Left(Width) = n
    <2>1. Width - Width = 0
      BY <1>1
    <2>2. n \div 1 = n
      BY <1>3, SMT
    <2> QED
      BY <1>2, <2>1, <2>2
  <1>12. g[Width] = n
    BY <1>2, <1>3, <1>10, <1>11
  <1> QED
    BY <1>8, <1>12 DEF n, bytes

\* A miner that is told the target of a difficulty and a pool that compares
\* rationals agree on every hash, for every limit, base and width
\* (GetTargetHex, isShareDiffGeDiff).
THEOREM ToldIsCheckedCorrect ==
    ASSUME NEW hash \in Nat, NEW diff \in Nat \ {0}
    PROVE  ToldIsChecked(hash, diff)
  BY TargetIsQuotient, QuotientDecides DEF ToldIsChecked

-----------------------------------------------------------------------------
(***************************************************************************)
(* Statistics, for every share log and every list of blocks.               *)
(***************************************************************************)
\* Times are numbers: the scores of the sorted sets of shares.
Timed(shares) == \A s \in shares : s.at \in Int

\* A purge and then a later one leave what the later one leaves.
LEMMA LaterPurge ==
    ASSUME NEW shares, Timed(shares), NEW a \in Int, NEW b \in Int, a <= b
    PROVE  From(From(shares, a), b) = From(shares, b)
  BY SMT DEF From, Timed

\* A finite set of numbers has a greatest one.
LEMMA GreatestExists ==
    ASSUME NEW S, IsFiniteSet(S), S \subseteq Int, S # {}
    PROVE  /\ Max(S) \in S
           /\ \A y \in S : Max(S) >= y
  <1> DEFINE Q == {T \in SUBSET S : T = {} \/ \E x \in T : \A y \in T : x >= y}
  <1>1. ASSUME NEW T \in SUBSET S, \A x \in T : T \ {x} \in Q PROVE T \in Q
    <2>1. CASE T = {}
      BY <2>1
    <2>2. ASSUME NEW x \in T PROVE T \in Q
      <3>1. T \ {x} \in Q
        BY <1>1, <2>2
      <3>2. CASE T \ {x} = {}
        <4>1. \A y \in T : x >= y
          BY <3>2
        <4> QED
          BY <4>1
      <3>3. CASE T \ {x} # {}
        <4>1. PICK z \in T \ {x} : \A y \in T \ {x} : z >= y
          BY <3>1, <3>3
        <4>2. x \in Int /\ z \in Int
          BY <2>2, <4>1
        <4>3. (\A y \in T : x >= y) \/ (\A y \in T : z >= y)
          BY <4>1, <4>2
        <4> QED
          BY <4>1, <4>3
      <3> QED
        BY <3>2, <3>3
    <2> QED
      BY <2>1, <2>2
  <1>2. S \in Q
    <2> HIDE DEF Q
    <2>1. SUBSET S \subseteq Q
      BY <1>1, SubsetInduction
    <2> QED
      BY <2>1
  <1>3. \E x \in S : \A y \in S : x >= y
    BY <1>2
  <1> QED
    BY <1>3 DEF Max

\* The last beat is the time of a share, and of none a later one.
LEMMA LastBeatIs ==
    ASSUME NEW shares, IsFiniteSet(shares), Timed(shares), shares # {}
    PROVE  /\ LastBeat(shares) \in Int
           /\ \E s \in shares : s.at = LastBeat(shares)
           /\ \A s \in shares : s.at <= LastBeat(shares)
  <1> DEFINE times == {s.at : s \in shares}
  <1>1. times \subseteq Int /\ times # {}
    BY DEF Timed
  <1>2. IsFiniteSet(times)
    <2> DEFINE at == [s \in shares |-> s.at]
    <2>1. Range(at) = times
      BY DEF Range
    <2>2. at \in Surjection(shares, times)
      BY DEF Surjection
    <2> QED
      BY <2>2, FS_Surjection
  <1>3. Max(times) \in times /\ \A y \in times : Max(times) >= y
    BY <1>1, <1>2, GreatestExists
  <1>4. LastBeat(shares) = Max(times)
    BY DEF LastBeat
  <1>5. LastBeat(shares) \in times /\ \A y \in times : LastBeat(shares) >= y
    BY <1>3, <1>4
  <1>6. \A s \in shares : s.at \in times
    OBVIOUS
  <1>7. LastBeat(shares) \in Int /\ \A s \in shares : s.at <= LastBeat(shares)
    <2> HIDE DEF times
    <2> QED
      BY <1>1, <1>5, <1>6
  <1> QED
    BY <1>5, <1>7

\* The last beat is before a time if and only if every share is.
LEMMA LastBeatBefore ==
    ASSUME NEW shares, IsFiniteSet(shares), Timed(shares), shares # {}, NEW time \in Int
    PROVE  LastBeat(shares) < time <=> \A s \in shares : s.at < time
  <1> DEFINE last == LastBeat(shares)
  <1>1. last \in Int /\ (\E s \in shares : s.at = last) /\ \A s \in shares : s.at <= last
    BY LastBeatIs
  <1>2. \A s \in shares : s.at \in Int
    BY DEF Timed
  <1> HIDE DEF last
  <1>3. last < time <=> \A s \in shares : s.at < time
    BY <1>1, <1>2
  <1> QED
    BY <1>3 DEF last

\* An account page shows the log or, once it may have expired, nothing.
LEMMA PagesAre ==
    ASSUME NEW shares, shares # {}, NEW now
    PROVE  \A page : page \in AccountPages(shares, now) <=>
               \/ page = CollectWorkersStats(shares, now) /\ now <= Expiry(shares)
               \/ page = CollectWorkersStats({}, now) /\ now >= Expiry(shares)
  <1> DEFINE Stats(log) == CollectWorkersStats(log, now)
  <1>1. \A log : log \in LoginLogs(shares, now) <=>
            \/ log = shares /\ now <= Expiry(shares)
            \/ log = {} /\ now >= Expiry(shares)
    BY DEF LoginLogs
  <1>2. AccountPages(shares, now) = {Stats(log) : log \in LoginLogs(shares, now)}
    BY DEF AccountPages
  <1> HIDE DEF Stats
  <1>3. ASSUME NEW page
        PROVE  page \in AccountPages(shares, now) <=>
                   \/ page = Stats(shares) /\ now <= Expiry(shares)
                   \/ page = Stats({}) /\ now >= Expiry(shares)
    <2>1. page \in AccountPages(shares, now)
              <=> \E log \in LoginLogs(shares, now) : page = Stats(log)
      BY <1>2
    <2> DEFINE early == now <= Expiry(shares)
               late == now >= Expiry(shares)
               logs == LoginLogs(shares, now)
    <2>2. \A log : log \in logs <=> (log = shares /\ early) \/ (log = {} /\ late)
      BY <1>1
    <2> HIDE DEF early, late, logs
    <2>3. (\E log \in logs : page = Stats(log))
              <=> (page = Stats(shares) /\ early) \/ (page = Stats({}) /\ late)
      BY <2>2, Zenon
    <2> QED
      BY <2>1, <2>3 DEF early, late, logs
  <1> QED
    BY <1>3 DEF Stats

\* A purge of the share log changes no statistics collected at its time or
\* later, whatever the log holds and although it may have expired by then
\* (FlushStaleStats, CollectStats, CollectWorkersStats, writeShare).
THEOREM PurgesInvisible ==
    ASSUME NEW shares, IsFiniteSet(shares), Timed(shares),
           NEW then \in Int, NEW now \in Int, then <= now
    PROVE  PurgeIsInvisible(shares, then, now)
  <1> DEFINE left == From(shares, then - LargeWindow)
  <1>1. SmallWindow \in Int /\ LargeWindow \in Int /\ Expiration \in Int
    BY StatisticsAssumption
  <1>2. From(From(shares, then - SmallWindow), now - SmallWindow)
            = From(shares, now - SmallWindow)
    BY <1>1, LaterPurge, SMT
  <1>3. From(left, now - LargeWindow) = From(shares, now - LargeWindow)
    BY <1>1, LaterPurge, SMT
  <1>4. FlushStaleStats(shares, shares, then).pool = From(shares, then - SmallWindow)
        /\ FlushStaleStats(shares, shares, then).login = left
    BY DEF FlushStaleStats
  <1>5. CollectStats(From(shares, then - SmallWindow), now) = CollectStats(shares, now)
    BY <1>2 DEF CollectStats
  <1>6. CollectWorkersStats(left, now) = CollectWorkersStats(shares, now)
    BY <1>3 DEF CollectWorkersStats
  <1>7. left \subseteq shares /\ IsFiniteSet(left) /\ Timed(left)
    <2>1. left \subseteq shares
      BY DEF From
    <2> QED
      BY <2>1, FS_Subset DEF Timed
  <1>8. CASE left # {}
    <2>1. shares # {}
      BY <1>7, <1>8
    <2>2. /\ LastBeat(shares) \in Int /\ (\E s \in shares : s.at = LastBeat(shares))
          /\ \A s \in shares : s.at <= LastBeat(shares)
      BY <2>1, LastBeatIs
    <2>3. /\ LastBeat(left) \in Int /\ (\E s \in left : s.at = LastBeat(left))
          /\ \A s \in left : s.at <= LastBeat(left)
      BY <1>7, <1>8, LastBeatIs
    <2>4. \A s \in shares : s \in left <=> s.at >= then - LargeWindow
      BY DEF From
    <2>5. LastBeat(left) = LastBeat(shares)
      <3> DEFINE a == LastBeat(left)
                 b == LastBeat(shares)
      <3>1. \A s \in shares : s.at \in Int
        BY DEF Timed
      <3> HIDE DEF a, b, left
      <3>2. PICK s \in shares : s.at = b
        BY <2>2 DEF b
      <3>3. PICK r \in left : r.at = a
        BY <2>3 DEF a
      <3>4. a <= b
        BY <1>7, <2>2, <3>3 DEF b
      <3>5. s \in left
        <4>1. b >= then - LargeWindow
          BY <1>1, <1>7, <2>2, <2>3, <2>4, <3>3, <3>4 DEF a, b
        <4> QED
          BY <2>4, <3>2, <4>1
      <3>6. b <= a
        BY <2>3, <3>2, <3>5 DEF a
      <3>7. a = b
        BY <2>2, <2>3, <3>4, <3>6 DEF a, b
      <3> QED
        BY <3>7 DEF a, b
    <2>6. Expiry(left) = Expiry(shares)
      BY <2>5 DEF Expiry
    <2> HIDE DEF left
    <2>7. AccountPages(left, now) = AccountPages(shares, now)
      BY <1>6, <1>8, <2>1, <2>6, PagesAre
    <2> QED
      BY <1>4, <1>5, <2>7 DEF PurgeIsInvisible
  <1>9. CASE left = {} /\ shares # {}
    <2>1. AccountPages(left, now) = {CollectWorkersStats({}, now)}
      BY <1>9 DEF AccountPages, LoginLogs
    <2>2. CollectWorkersStats(shares, now) = CollectWorkersStats({}, now)
      BY <1>6, <1>9
    <2>3. Expiry(shares) \in Int
      BY <1>1, <1>9, LastBeatIs DEF Expiry
    <2>4. now <= Expiry(shares) \/ now >= Expiry(shares)
      BY <2>3
    <2>5. AccountPages(shares, now) = {CollectWorkersStats({}, now)}
      BY <1>9, <2>2, <2>4, PagesAre
    <2> QED
      BY <1>4, <1>5, <2>1, <2>5 DEF PurgeIsInvisible
  <1>10. CASE shares = {}
    <2>1. left = shares
      BY <1>7, <1>10
    <2> QED
      BY <1>4, <1>5, <2>1 DEF PurgeIsInvisible
  <1> QED
    BY <1>8, <1>9, <1>10

\* The list of miners and the account page agree on who is offline, for every
\* log, although they read two logs with different windows, of which the
\* account's may have expired (CollectStats, CollectWorkersStats, writeShare).
THEOREM OfflineAgreement ==
    ASSUME NEW shares, IsFiniteSet(shares), Timed(shares), NEW now \in Int
    PROVE  OfflineAgrees(shares, now)
  <1> DEFINE pool == CollectStats(shares, now)
             live == From(shares, now - SmallWindow)
             late == now - SmallWindow \div 2
  <1>1. /\ late \in Int /\ now - SmallWindow <= late
        /\ SmallWindow \in Int /\ LargeWindow \in Int
        /\ now - LargeWindow <= now - SmallWindow
    BY StatisticsAssumption
  <1> SUFFICES ASSUME NEW l \in DOMAIN pool,
                      NEW log \in LoginLogs({s \in shares : s.login = l}, now)
               PROVE  LET workers == CollectWorkersStats(log, now) IN
                      pool[l].Offline <=> \A w \in DOMAIN workers : workers[w].Offline
    BY DEF OfflineAgrees, AccountPages
  <1> DEFINE own == {s \in shares : s.login = l}
             workers == CollectWorkersStats(log, now)
             mine == {s \in live : s.login = l}
             kept == From(log, now - LargeWindow)
             by(w) == {s \in kept : s.worker = w}
  <1>2. DOMAIN pool = {s.login : s \in live} /\ pool[l].Offline = Offline(mine, now)
    BY DEF CollectStats
  <1>3. DOMAIN workers = {s.worker : s \in kept}
        /\ \A w \in DOMAIN workers : workers[w].Offline = Offline(by(w), now)
    BY DEF CollectWorkersStats
  <1>4. mine \subseteq own /\ mine \subseteq shares /\ own \subseteq shares
        /\ kept \subseteq shares /\ mine # {} /\ own # {}
    <2>1. log = own \/ log = {}
      BY DEF LoginLogs
    <2> QED
      BY <1>2, <2>1 DEF From
  <1>5. pool[l].Offline <=> \A s \in mine : s.at < late
    <2>1. IsFiniteSet(mine) /\ Timed(mine)
      BY <1>4, FS_Subset DEF Timed
    <2> QED
      BY <1>1, <1>2, <1>4, <2>1, LastBeatBefore DEF Offline
  <1>6. ASSUME NEW w \in DOMAIN workers
        PROVE  workers[w].Offline <=> \A s \in by(w) : s.at < late
    <2>1. by(w) \subseteq shares /\ by(w) # {}
      BY <1>3, <1>4
    <2>2. IsFiniteSet(by(w)) /\ Timed(by(w))
      BY <2>1, FS_Subset DEF Timed
    <2>3. workers[w].Offline <=> LastBeat(by(w)) < late
      BY <1>3 DEF Offline
    <2> HIDE DEF workers, by
    <2> QED
      BY <1>1, <2>1, <2>2, <2>3, LastBeatBefore
  <1>7. (\A w \in DOMAIN workers : workers[w].Offline) <=> \A s \in kept : s.at < late
    <2>1. \A s \in kept : s.worker \in DOMAIN workers /\ s \in by(s.worker)
      BY <1>3
    <2>2. \A w \in DOMAIN workers : by(w) \subseteq kept
      OBVIOUS
    <2> HIDE DEF workers, by, kept
    <2> QED
      BY <1>6, <2>1, <2>2
  <1>8. CASE log = own
    <2>1. mine \subseteq kept
      BY <1>1, <1>8, SMT DEF From, Timed
    <2>2. \A s \in kept : s \in mine \/ s.at < late
      BY <1>1, <1>4, <1>8, SMT DEF From, Timed
    <2>3. pool[l].Offline <=> \A w \in DOMAIN workers : workers[w].Offline
      <3> HIDE DEF pool, workers, mine, kept
      <3> QED
        BY <1>5, <1>7, <2>1, <2>2
    <2> QED
      BY <2>3
  \* a log that has expired is of a miner that has been away for longer
  <1>9. CASE log = {}
    <2>1. now >= LastBeat(own) + Expiration
      BY <1>4, <1>9 DEF LoginLogs, Expiry
    <2>2. IsFiniteSet(own) /\ Timed(own)
      BY <1>4, FS_Subset DEF Timed
    <2>3. LastBeat(own) \in Int /\ \A s \in own : s.at <= LastBeat(own)
      BY <1>4, <2>2, LastBeatIs
    <2>4. \A s \in own : s.at \in Int
      BY <2>2 DEF Timed
    <2>5. SmallWindow \div 2 < Expiration /\ Expiration \in Int /\ SmallWindow \div 2 \in Int
      BY StatisticsAssumption
    <2>6. \A s \in own : s.at < late
      <3> DEFINE half == SmallWindow \div 2
                 last == LastBeat(own)
      <3>1. last < now - half
        <4> HIDE DEF half, last
        <4> QED
          BY <2>1, <2>3, <2>5 DEF half, last
      <3> HIDE DEF half, last, own
      <3> QED
        BY <2>3, <2>4, <2>5, <3>1 DEF half, last
    <2>7. kept = {}
      BY <1>9 DEF From
    <2>8. pool[l].Offline <=> \A w \in DOMAIN workers : workers[w].Offline
      <3> HIDE DEF pool, workers, mine, kept, own, late
      <3> QED
        BY <1>4, <1>5, <1>7, <2>6, <2>7
    <2> QED
      BY <2>8
  <1>10. log = own \/ log = {}
    BY DEF LoginLogs
  <1> QED
    BY <1>8, <1>9, <1>10

\* A prefix of a sequence, by its elements.
LEMMA Prefix ==
    ASSUME NEW B, NEW s \in Seq(B), NEW n \in 0 .. Len(s)
    PROVE  SubSeq(s, 1, n) = [j \in 1 .. n |-> s[j]]
  BY SMT

\* The blocks that are read show in every window what all blocks would show.
LEMMA ReadEnough ==
    ASSUME NEW B, NEW immature \in Seq(B), NEW matured \in Seq(B),
           NEW max \in Nat, NEW w \in 0 .. max
    PROVE  LuckRow(immature \o SubSeq(matured, 1, Least(max, Len(matured))), w)
               = LuckRow(immature \o matured, w)
  <1> DEFINE some == SubSeq(matured, 1, Least(max, Len(matured)))
             all == immature \o matured
             read == immature \o some
             n == Least(w, Len(all))
  <1>1. /\ some \in Seq(B) /\ Len(some) = Least(max, Len(matured))
        /\ \A j \in 1 .. Len(some) : some[j] = matured[j]
    BY SMT DEF Least
  <1> HIDE DEF some
  <1>2. /\ read \in Seq(B) /\ Len(read) = Len(immature) + Len(some)
        /\ all \in Seq(B) /\ Len(all) = Len(immature) + Len(matured)
    BY <1>1
  <1>3. /\ Least(w, Len(read)) = n
        /\ n \in 0 .. Len(read) /\ n \in 0 .. Len(all)
    BY <1>1, <1>2, SMT DEF Least
  <1>4. \A j \in 1 .. n : read[j] = all[j]
    BY <1>1, <1>2, <1>3, SMT
  <1>5. SubSeq(read, 1, n) = [j \in 1 .. n |-> read[j]]
        /\ SubSeq(all, 1, n) = [j \in 1 .. n |-> all[j]]
    <2> HIDE DEF n, read, all
    <2> QED
      BY <1>2, <1>3, Prefix
  <1>6. SubSeq(read, 1, n) = SubSeq(all, 1, n)
    <2> HIDE DEF n, read, all
    <2> QED
      BY <1>4, <1>5
  <1> QED
    BY <1>3, <1>6 DEF LuckRow, some

\* For every list of blocks, each luck window has a row of just its newest
\* blocks, although not all matured blocks are read, and the rows of windows
\* that are not filled are one row of all blocks (CollectLuckStats).
THEOREM LuckOfNewest ==
    ASSUME NEW B, NEW immature \in Seq(B), NEW matured \in Seq(B),
           NEW windows \in Seq(Nat), windows # <<>>,
           \A i, k \in 1 .. Len(windows) : k <= i => windows[k] <= windows[i]
    PROVE  LuckIsOfNewest(immature, matured, windows)
  <1> DEFINE max == windows[Len(windows)]
             read == immature \o SubSeq(matured, 1, Least(max, Len(matured)))
             all == immature \o matured
             slots == 1 .. Len(windows)
             computed == {i \in slots : \A k \in 1 .. i - 1 : Len(read) >= windows[k]}
             Row(i) == LuckRow(read, windows[i])
  <1>1. /\ Len(windows) \in Nat \ {0} /\ max \in Nat
        /\ \A i \in slots : windows[i] \in 0 .. max
    BY SMT
  <1>2. \A i \in slots : Row(i) = LuckRow(all, windows[i])
    <2> HIDE DEF max
    <2> QED
      BY <1>1, ReadEnough
  <1>3. Len(read) \in Nat
    BY <1>1, SMT DEF Least
  <1> HIDE DEF read, max, all
  <1>4. ASSUME NEW i \in slots PROVE \E k \in computed : Row(k) = Row(i)
    <2> DEFINE unfilled == {k \in slots : k < i /\ Len(read) < windows[k]}
    <2>1. CASE unfilled = {}
      <3>1. \A k \in 1 .. i - 1 : k \in slots /\ windows[k] \in Nat
        BY <1>1
      <3>2. ASSUME NEW k \in 1 .. i - 1 PROVE Len(read) >= windows[k]
        <4>1. k \in slots /\ k < i /\ windows[k] \in Nat
          BY <3>1
        <4>2. ~ (Len(read) < windows[k])
          BY <2>1, <4>1
        <4> QED
          BY <1>3, <4>1, <4>2
      <3>3. i \in computed
        BY <3>2
      <3> QED
        BY <3>3
    <2>2. CASE unfilled # {}
      <3>1. PICK k \in unfilled : \A m \in unfilled : k <= m
        <4>1. unfilled \subseteq Nat
          OBVIOUS
        <4> HIDE DEF unfilled
        <4> QED
          BY <2>2, <4>1, LeastNatural
      <3>2. \A m \in 1 .. k - 1 : m \in slots /\ m < i /\ windows[m] \in Nat /\ ~ (k <= m)
        BY <1>1, <3>1
      <3>3. k \in computed
        BY <3>1, <3>2, <1>3
      <3>4. windows[k] <= windows[i] /\ Len(read) < windows[k]
            /\ windows[k] \in Nat /\ windows[i] \in Nat
        BY <1>1, <3>1
      <3>5. Least(windows[k], Len(read)) = Len(read) /\ Least(windows[i], Len(read)) = Len(read)
        BY <1>3, <3>4 DEF Least
      <3>6. Row(k) = Row(i)
        BY <3>5 DEF LuckRow
      <3> QED
        BY <3>3, <3>6
    <2> QED
      BY <2>1, <2>2
  <1>5. {Row(i) : i \in computed} = {LuckRow(all, windows[i]) : i \in slots}
    <2> DEFINE True(i) == LuckRow(all, windows[i])
    <2>1. \A i \in slots : Row(i) = True(i)
      BY <1>2
    <2>2. computed \subseteq slots
      OBVIOUS
    <2> HIDE DEF computed, Row, True
    <2>3. \A i \in slots : \E k \in computed : Row(k) = True(i)
      BY <1>4, <2>1
    <2>4. {Row(i) : i \in computed} = {True(i) : i \in slots}
      BY <2>1, <2>2, <2>3
    <2> QED
      BY <2>4 DEF True, Row
  <1>6. CollectLuckStats(immature, matured, windows) = {Row(i) : i \in computed}
    BY DEF CollectLuckStats, read, max
  <1> QED
    BY <1>5, <1>6 DEF LuckIsOfNewest, all

-----------------------------------------------------------------------------
(***************************************************************************)
(* Powers of two, quotients and remainders.                                *)
(***************************************************************************)

\* The powers of two, as the shifts of the code make them.
LEMMA PowersOfTwo ==
    /\ TwoTo[0] = 1
    /\ \A n \in Nat : TwoTo[n] \in Nat \ {0} /\ TwoTo[n + 1] = 2 * TwoTo[n]
  <1> DEFINE IsTwoTo(f) == f = [n \in Nat |-> IF n = 0 THEN 1 ELSE 2 * f[n - 1]]
             Doubles(g, n) == /\ g \in [0 .. n -> Int] /\ g[0] = 1
                           /\ \A i \in 1 .. n : g[i] = 2 * g[i - 1]
             Some(n) == CHOOSE g : Doubles(g, n)
             F == [n \in Nat |-> Some(n)[n]]
  <1>1. ASSUME NEW n \in Nat PROVE Doubles(Some(n), n)
    <2>1. 2 \in Int
      OBVIOUS
    <2>2. \E g : Doubles(g, n)
      BY <2>1, PowersExist
    <2> HIDE DEF Upto
    <2> QED
      BY <2>2
  <1>2. ASSUME NEW n \in Nat PROVE Some(n)[n] = Some(n + 1)[n]
    <2> DEFINE g == Some(n)
               h == Some(n + 1)
               Q == {k \in 0 .. n : g[k] = h[k]}
    <2>0. n + 1 \in Nat
      OBVIOUS
    <2> HIDE DEF Some
    <2>1. Doubles(g, n) /\ Doubles(h, n + 1)
      <3> HIDE DEF Upto
      <3> QED
        BY <1>1, <2>0
    <2>2. 0 \in Q
      BY <2>1
    <2>3. ASSUME NEW i \in 1 .. n, i - 1 \in Q PROVE i \in Q
      <3>1. i \in 1 .. n + 1 /\ g[i] = 2 * g[i - 1] /\ h[i] = 2 * h[i - 1]
        BY <2>1
      <3> QED
        BY <2>3, <3>1
    <2> HIDE DEF Q
    <2>4. 0 .. n \subseteq Q
      BY <2>2, <2>3, UptoInduction
    <2>5. n \in Q
      BY <2>4
    <2> QED
      BY <2>5 DEF Q
  <1>3. F[0] = 1
    BY <1>1
  <1>4. ASSUME NEW n \in Nat PROVE F[n + 1] = 2 * F[n]
    <2>0. n + 1 \in Nat /\ n + 1 \in 1 .. n + 1 /\ (n + 1) - 1 = n
      OBVIOUS
    <2> HIDE DEF Some
    <2>1. Doubles(Some(n + 1), n + 1)
      <3> HIDE DEF Upto
      <3> QED
        BY <1>1, <2>0
    <2>2. Some(n + 1)[n + 1] = 2 * Some(n + 1)[n]
      BY <2>0, <2>1
    <2> QED
      BY <1>2, <2>2
  <1>5. IsTwoTo(F)
    <2> HIDE DEF Some
    <2>1. ASSUME NEW n \in Nat PROVE F[n] = IF n = 0 THEN 1 ELSE 2 * F[n - 1]
      <3> HIDE DEF F
      <3>1. n # 0 => n - 1 \in Nat /\ (n - 1) + 1 = n
        OBVIOUS
      <3> QED
        BY <1>3, <1>4, <3>1
    <2> QED
      BY <2>1
  <1>6. IsTwoTo(TwoTo)
    <2>1. TwoTo = CHOOSE f : IsTwoTo(f)
      BY DEF TwoTo
    <2> HIDE DEF IsTwoTo, F
    <2> QED
      BY <1>5, <2>1
  <1> HIDE DEF F
  <1>7. TwoTo[0] = 1 /\ \A n \in Nat : TwoTo[n + 1] = 2 * TwoTo[n]
    <2>1. \A n \in Nat : TwoTo[n] = IF n = 0 THEN 1 ELSE 2 * TwoTo[n - 1]
      BY <1>6
    <2>2. \A n \in Nat : n + 1 \in Nat /\ n + 1 # 0 /\ (n + 1) - 1 = n
      OBVIOUS
    <2> QED
      BY <2>1, <2>2
  <1>8. ASSUME NEW n \in Nat PROVE TwoTo[n] \in Nat \ {0}
    <2> DEFINE Q == {k \in 0 .. n : TwoTo[k] \in Nat \ {0}}
    <2>1. 0 \in Q
      BY <1>7
    <2>2. ASSUME NEW i \in 1 .. n, i - 1 \in Q PROVE i \in Q
      <3>1. i - 1 \in Nat /\ (i - 1) + 1 = i
        OBVIOUS
      <3>2. TwoTo[i] = 2 * TwoTo[i - 1]
        BY <1>7, <3>1
      <3> QED
        BY <2>2, <3>2
    <2> HIDE DEF Q
    <2>3. 0 .. n \subseteq Q
      BY <2>1, <2>2, UptoInduction
    <2>4. n \in Q
      BY <2>3
    <2> QED
      BY <2>4 DEF Q
  <1> QED
    BY <1>7, <1>8

LEMMA TwoToStep ==
    ASSUME NEW d \in Nat \ {0}
    PROVE  TwoTo[d] = 2 * TwoTo[d - 1] /\ TwoTo[d - 1] \in Nat \ {0} /\ TwoTo[d] \in Nat \ {0}
  <1>1. d - 1 \in Nat /\ (d - 1) + 1 = d
    OBVIOUS
  <1> QED
    BY <1>1, PowersOfTwo

\* A power is the product of two.
LEMMA SplitPower ==
    ASSUME NEW W \in Nat, NEW r \in 0 .. W
    PROVE  TwoTo[W - r] * TwoTo[r] = TwoTo[W]
  <1> DEFINE Q == {i \in 0 .. W : TwoTo[W - i] * TwoTo[i] = TwoTo[W]}
  <1>1. 0 \in Q
    <2>1. TwoTo[0] = 1 /\ TwoTo[W] \in Nat /\ W - 0 = W
      BY PowersOfTwo
    <2> QED
      BY <2>1
  <1>2. ASSUME NEW i \in 1 .. W, i - 1 \in Q PROVE i \in Q
    <2> DEFINE p == TwoTo[i - 1]
               g == TwoTo[W - i]
    <2>1. W - i \in Nat /\ (W - i) + 1 = W - (i - 1) /\ i \in Nat \ {0}
      OBVIOUS
    <2>2. TwoTo[i] = 2 * p /\ p \in Nat /\ TwoTo[W - (i - 1)] = 2 * g /\ g \in Nat
      BY <2>1, TwoToStep, PowersOfTwo
    <2>3. (2 * g) * p = TwoTo[W]
      BY <1>2, <2>2
    <2> HIDE DEF p, g
    <2>4. g * (2 * p) = (2 * g) * p
      BY <2>2, SMT
    <2> QED
      BY <2>2, <2>3, <2>4 DEF g
  <1> HIDE DEF Q
  <1>3. r \in Q
    <2>1. 0 .. W \subseteq Q
      BY <1>1, <1>2, UptoInduction
    <2> QED
      BY <2>1
  <1> QED
    BY <1>3 DEF Q

\* The quotient, as the definitions write it.
LEMMA Quotient0 ==
    ASSUME NEW a \in Nat, NEW b \in Nat \ {0}
    PROVE  a \div b \in Nat /\ (a \div b) * b <= a /\ a < ((a \div b) + 1) * b
  BY Quotient DEF Div

\* Powers of sums, and their order.
LEMMA PowerOfSum ==
    ASSUME NEW a \in Nat, NEW b \in Nat
    PROVE  /\ TwoTo[a + b] = TwoTo[a] * TwoTo[b]
           /\ TwoTo[a] \in Nat \ {0} /\ TwoTo[b] \in Nat \ {0}
  <1>1. a + b \in Nat /\ b \in 0 .. a + b /\ (a + b) - b = a
    OBVIOUS
  <1> QED
    BY <1>1, SplitPower, PowersOfTwo

LEMMA TwoToGrows ==
    ASSUME NEW a \in Nat, NEW b \in Nat, a <= b
    PROVE  TwoTo[a] <= TwoTo[b] /\ TwoTo[a] \in Nat \ {0} /\ TwoTo[b] \in Nat \ {0}
  <1> DEFINE x == TwoTo[b - a]
             y == TwoTo[a]
  <1>1. b - a \in Nat /\ (b - a) + a = b
    OBVIOUS
  <1>2. TwoTo[b] = x * y /\ x \in Nat \ {0} /\ y \in Nat \ {0}
    BY <1>1, PowerOfSum
  <1>3. TwoTo[b] \in Nat \ {0}
    BY PowersOfTwo
  <1> HIDE DEF x, y
  <1>4. y <= x * y
    BY <1>2, SMT
  <1> QED
    BY <1>2, <1>3, <1>4 DEF y

LEMMA SomePowers == TwoTo[0] = 1 /\ TwoTo[1] = 2 /\ TwoTo[4] = 16 /\ TwoTo[7] = 128 /\ TwoTo[8] = 256
  <1>1. TwoTo[1] = 2 * TwoTo[0] /\ TwoTo[2] = 2 * TwoTo[1] /\ TwoTo[3] = 2 * TwoTo[2]
        /\ TwoTo[4] = 2 * TwoTo[3]
    BY TwoToStep
  <1>2. TwoTo[5] = 2 * TwoTo[4] /\ TwoTo[6] = 2 * TwoTo[5] /\ TwoTo[7] = 2 * TwoTo[6]
        /\ TwoTo[8] = 2 * TwoTo[7]
    BY TwoToStep
  <1> QED
    BY <1>1, <1>2, PowersOfTwo

\* A quotient is below a number if and only if the dividend is below the
\* product.
LEMMA QuotientBelow ==
    ASSUME NEW n \in Nat, NEW p \in Nat \ {0}, NEW q \in Nat
    PROVE  n \div p < q <=> n < q * p
  <1> DEFINE d == n \div p
  <1>1. d \in Nat /\ d * p <= n /\ n < (d + 1) * p
    BY Quotient0
  <1> HIDE DEF d
  <1>2. ASSUME d < q PROVE n < q * p
    <2>1. (d + 1) * p <= q * p
      BY <1>1, <1>2, SMT
    <2>2. (d + 1) * p \in Nat /\ q * p \in Nat
      BY <1>1, SMT
    <2> QED
      BY <1>1, <2>1, <2>2
  <1>3. ASSUME q <= d PROVE q * p <= n
    <2>1. q * p <= d * p
      BY <1>1, <1>3, SMT
    <2>2. d * p \in Nat /\ q * p \in Nat
      BY <1>1, SMT
    <2> QED
      BY <1>1, <2>1, <2>2
  <1>4. q * p \in Nat
    BY SMT
  <1> QED
    BY <1>1, <1>2, <1>3, <1>4 DEF d

LEMMA Remainder ==
    ASSUME NEW n \in Nat, NEW b \in Nat \ {0}
    PROVE  n \div b \in Nat /\ n % b \in 0 .. b - 1 /\ n = b * (n \div b) + (n % b)
  <1>1. n % b \in 0 .. b - 1 /\ n = b * (n \div b) + (n % b)
    BY SMT
  <1>2. n \div b \in Nat
    BY Quotient0
  <1> QED
    BY <1>1, <1>2

-----------------------------------------------------------------------------
(***************************************************************************)
(* What the code computes step by step is a recursive function here.  For  *)
(* each of them, Is... says that f is that function on 0 .. n, ...Exist that*)
(* there is one, by induction on n, and ...Are states the two equations.   *)
(*                                                                         *)
(* The transaction tree, for any number of leaves.                         *)
(***************************************************************************)
\* The rows follow one another as the loop makes them (NewMerkleTree).
IsRows(f, n, start) ==
    f = [k \in 0 .. n |-> IF k = 0 THEN start ELSE makeRowAbove(f[k - 1])]

LEMMA RowsExist ==
    ASSUME NEW W \in Nat, NEW start
    PROVE  \E f : IsRows(f, W, start)
  <1> DEFINE Q == {n \in 0 .. W : \E f : IsRows(f, n, start)}
  <1>1. 0 \in Q
    <2> DEFINE f == [k \in 0 .. 0 |-> start]
    <2>1. IsRows(f, 0, start)
      BY DEF IsRows
    <2> HIDE DEF f
    <2> QED
      BY <2>1
  <1>2. ASSUME NEW n \in 1 .. W, n - 1 \in Q PROVE n \in Q
    <2>1. PICK g : IsRows(g, n - 1, start)
      BY <1>2
    <2> DEFINE f == [k \in 0 .. n |-> IF k = n THEN makeRowAbove(g[n - 1]) ELSE g[k]]
    <2>2. ASSUME NEW k \in 0 .. n
          PROVE  f[k] = IF k = 0 THEN start ELSE makeRowAbove(f[k - 1])
      <3>1. k # 0 => f[k - 1] = g[k - 1]
        OBVIOUS
      <3>2. k # n => k \in 0 .. n - 1
        OBVIOUS
      <3> QED
        BY <2>1, <3>1, <3>2 DEF IsRows
    <2>3. f = [k \in 0 .. n |-> f[k]]
      OBVIOUS
    <2> HIDE DEF f
    <2>4. IsRows(f, n, start)
      BY <2>2, <2>3 DEF IsRows
    <2> QED
      BY <2>4
  <1>3. W \in Q
    <2> HIDE DEF Q
    <2>1. 0 .. W \subseteq Q
      BY <1>1, <1>2, UptoInduction
    <2> QED
      BY <2>1
  <1> QED
    BY <1>3

LEMMA RowsAre ==
    ASSUME NEW leaves, Len(leaves) \in Nat
    PROVE  /\ RowsAbove(leaves)[0] = leaves
           /\ \A k \in 1 .. Len(leaves) : RowsAbove(leaves)[k] = makeRowAbove(RowsAbove(leaves)[k - 1])
  <1> DEFINE start == leaves
             it == CHOOSE f : IsRows(f, Len(leaves), start)
  <1>1. \E f : IsRows(f, Len(leaves), start)
    <2> HIDE DEF start
    <2> QED
      BY RowsExist
  <1>2. IsRows(it, Len(leaves), start)
    <2> HIDE DEF start
    <2> QED
      BY <1>1
  <1>3. RowsAbove(leaves) = it
    BY DEF RowsAbove, IsRows
  <1> HIDE DEF it
  <1>4. \A k \in 0 .. Len(leaves) : it[k] = IF k = 0 THEN start ELSE makeRowAbove(it[k - 1])
    BY <1>2 DEF IsRows
  <1> QED
    BY <1>3, <1>4

\* The nodes of one height over those of the height below.
IsNodes(f, n, start, leaves) ==
    f = [k \in 0 .. n |-> IF k = 0 THEN start ELSE NodesAbove(leaves, k, f[k - 1])]

LEMMA NodesExist ==
    ASSUME NEW W \in Nat, NEW start, NEW leaves
    PROVE  \E f : IsNodes(f, W, start, leaves)
  <1> DEFINE Q == {n \in 0 .. W : \E f : IsNodes(f, n, start, leaves)}
  <1>1. 0 \in Q
    <2> DEFINE f == [k \in 0 .. 0 |-> start]
    <2>1. IsNodes(f, 0, start, leaves)
      BY DEF IsNodes
    <2> HIDE DEF f
    <2> QED
      BY <2>1
  <1>2. ASSUME NEW n \in 1 .. W, n - 1 \in Q PROVE n \in Q
    <2>1. PICK g : IsNodes(g, n - 1, start, leaves)
      BY <1>2
    <2> DEFINE f == [k \in 0 .. n |-> IF k = n THEN NodesAbove(leaves, n, g[n - 1]) ELSE g[k]]
    <2>2. ASSUME NEW k \in 0 .. n
          PROVE  f[k] = IF k = 0 THEN start ELSE NodesAbove(leaves, k, f[k - 1])
      <3>1. k # 0 => f[k - 1] = g[k - 1]
        OBVIOUS
      <3>2. k # n => k \in 0 .. n - 1
        OBVIOUS
      <3> QED
        BY <2>1, <3>1, <3>2 DEF IsNodes
    <2>3. f = [k \in 0 .. n |-> f[k]]
      OBVIOUS
    <2> HIDE DEF f
    <2>4. IsNodes(f, n, start, leaves)
      BY <2>2, <2>3 DEF IsNodes
    <2> QED
      BY <2>4
  <1>3. W \in Q
    <2> HIDE DEF Q
    <2>1. 0 .. W \subseteq Q
      BY <1>1, <1>2, UptoInduction
    <2> QED
      BY <2>1
  <1> QED
    BY <1>3

LEMMA NodesAre ==
    ASSUME NEW leaves, Len(leaves) \in Nat
    PROVE  /\ Nodes(leaves)[0] = [i \in 0 .. Len(leaves) - 1 |-> leaves[i + 1]]
           /\ \A k \in 1 .. Len(leaves) : Nodes(leaves)[k] = NodesAbove(leaves, k, Nodes(leaves)[k - 1])
  <1> DEFINE start == [i \in 0 .. Len(leaves) - 1 |-> leaves[i + 1]]
             it == CHOOSE f : IsNodes(f, Len(leaves), start, leaves)
  <1>1. \E f : IsNodes(f, Len(leaves), start, leaves)
    <2> HIDE DEF start
    <2> QED
      BY NodesExist
  <1>2. IsNodes(it, Len(leaves), start, leaves)
    <2> HIDE DEF start
    <2> QED
      BY <1>1
  <1>3. Nodes(leaves) = it
    BY DEF Nodes, IsNodes
  <1> HIDE DEF it
  <1>4. \A k \in 0 .. Len(leaves) : it[k] = IF k = 0 THEN start ELSE NodesAbove(leaves, k, it[k - 1])
    BY <1>2 DEF IsNodes
  <1> QED
    BY <1>3, <1>4

\* The hashes along a path (CalculateMerkleRootFromMerklePath).
IsHashes(f, n, start, path) ==
    f = [k \in 0 .. n |-> IF k = 0 THEN start ELSE JoinElement(path[k], f[k - 1])]

LEMMA HashesExist ==
    ASSUME NEW W \in Nat, NEW start, NEW path
    PROVE  \E f : IsHashes(f, W, start, path)
  <1> DEFINE Q == {n \in 0 .. W : \E f : IsHashes(f, n, start, path)}
  <1>1. 0 \in Q
    <2> DEFINE f == [k \in 0 .. 0 |-> start]
    <2>1. IsHashes(f, 0, start, path)
      BY DEF IsHashes
    <2> HIDE DEF f
    <2> QED
      BY <2>1
  <1>2. ASSUME NEW n \in 1 .. W, n - 1 \in Q PROVE n \in Q
    <2>1. PICK g : IsHashes(g, n - 1, start, path)
      BY <1>2
    <2> DEFINE f == [k \in 0 .. n |-> IF k = n THEN JoinElement(path[n], g[n - 1]) ELSE g[k]]
    <2>2. ASSUME NEW k \in 0 .. n
          PROVE  f[k] = IF k = 0 THEN start ELSE JoinElement(path[k], f[k - 1])
      <3>1. k # 0 => f[k - 1] = g[k - 1]
        OBVIOUS
      <3>2. k # n => k \in 0 .. n - 1
        OBVIOUS
      <3> QED
        BY <2>1, <3>1, <3>2 DEF IsHashes
    <2>3. f = [k \in 0 .. n |-> f[k]]
      OBVIOUS
    <2> HIDE DEF f
    <2>4. IsHashes(f, n, start, path)
      BY <2>2, <2>3 DEF IsHashes
    <2> QED
      BY <2>4
  <1>3. W \in Q
    <2> HIDE DEF Q
    <2>1. 0 .. W \subseteq Q
      BY <1>1, <1>2, UptoInduction
    <2> QED
      BY <2>1
  <1> QED
    BY <1>3

LEMMA HashesAre ==
    ASSUME NEW leaf, NEW path, Len(path) \in Nat
    PROVE  /\ CumulativeHashes(leaf, path)[0] = leaf
           /\ \A k \in 1 .. Len(path) : CumulativeHashes(leaf, path)[k] = JoinElement(path[k], CumulativeHashes(leaf, path)[k - 1])
  <1> DEFINE start == leaf
             it == CHOOSE f : IsHashes(f, Len(path), start, path)
  <1>1. \E f : IsHashes(f, Len(path), start, path)
    <2> HIDE DEF start
    <2> QED
      BY HashesExist
  <1>2. IsHashes(it, Len(path), start, path)
    <2> HIDE DEF start
    <2> QED
      BY <1>1
  <1>3. CumulativeHashes(leaf, path) = it
    BY DEF CumulativeHashes, IsHashes
  <1> HIDE DEF it
  <1>4. \A k \in 0 .. Len(path) : it[k] = IF k = 0 THEN start ELSE JoinElement(path[k], it[k - 1])
    BY <1>2 DEF IsHashes
  <1> QED
    BY <1>3, <1>4

\* The elements along a path (MerklePathForLeaf).
IsAncestors(f, n, start) ==
    f = [k \in 0 .. n |-> IF k = 0 THEN start ELSE Above(f[k - 1])]

LEMMA AncestorsExist ==
    ASSUME NEW W \in Nat, NEW start
    PROVE  \E f : IsAncestors(f, W, start)
  <1> DEFINE Q == {n \in 0 .. W : \E f : IsAncestors(f, n, start)}
  <1>1. 0 \in Q
    <2> DEFINE f == [k \in 0 .. 0 |-> start]
    <2>1. IsAncestors(f, 0, start)
      BY DEF IsAncestors
    <2> HIDE DEF f
    <2> QED
      BY <2>1
  <1>2. ASSUME NEW n \in 1 .. W, n - 1 \in Q PROVE n \in Q
    <2>1. PICK g : IsAncestors(g, n - 1, start)
      BY <1>2
    <2> DEFINE f == [k \in 0 .. n |-> IF k = n THEN Above(g[n - 1]) ELSE g[k]]
    <2>2. ASSUME NEW k \in 0 .. n
          PROVE  f[k] = IF k = 0 THEN start ELSE Above(f[k - 1])
      <3>1. k # 0 => f[k - 1] = g[k - 1]
        OBVIOUS
      <3>2. k # n => k \in 0 .. n - 1
        OBVIOUS
      <3> QED
        BY <2>1, <3>1, <3>2 DEF IsAncestors
    <2>3. f = [k \in 0 .. n |-> f[k]]
      OBVIOUS
    <2> HIDE DEF f
    <2>4. IsAncestors(f, n, start)
      BY <2>2, <2>3 DEF IsAncestors
    <2> QED
      BY <2>4
  <1>3. W \in Q
    <2> HIDE DEF Q
    <2>1. 0 .. W \subseteq Q
      BY <1>1, <1>2, UptoInduction
    <2> QED
      BY <2>1
  <1> QED
    BY <1>3

LEMMA AncestorsAre ==
    ASSUME NEW tree, NEW leaf, Len(tree) \in Nat
    PROVE  /\ Ancestors(tree, leaf)[0] = leaf
           /\ \A k \in 1 .. Len(tree) : Ancestors(tree, leaf)[k] = Above(Ancestors(tree, leaf)[k - 1])
  <1> DEFINE start == leaf
             it == CHOOSE f : IsAncestors(f, Len(tree), start)
  <1>1. \E f : IsAncestors(f, Len(tree), start)
    <2> HIDE DEF start
    <2> QED
      BY AncestorsExist
  <1>2. IsAncestors(it, Len(tree), start)
    <2> HIDE DEF start
    <2> QED
      BY <1>1
  <1>3. Ancestors(tree, leaf) = it
    BY DEF Ancestors, IsAncestors
  <1> HIDE DEF it
  <1>4. \A k \in 0 .. Len(tree) : it[k] = IF k = 0 THEN start ELSE Above(it[k - 1])
    BY <1>2 DEF IsAncestors
  <1> QED
    BY <1>3, <1>4

LEMMA RowAbove ==
    ASSUME NEW below, NEW l \in Nat, Len(below) = l
    PROVE  /\ Len(makeRowAbove(below)) = (l + 1) \div 2
           /\ \A i \in 1 .. (l + 1) \div 2 :
                 makeRowAbove(below)[i] =
                     JoinAndHash(below[2 * i - 1], IF 2 * i <= l THEN below[2 * i]
                                                   ELSE below[2 * i - 1])
  <1>1. (l + 1) \div 2 \in Nat
    BY SMT
  <1> QED
    BY <1>1 DEF makeRowAbove

\* A row is as long as there are leaves for its nodes.
LEMMA RowLengths ==
    ASSUME NEW leaves, Len(leaves) \in Nat \ {0}, NEW k \in 0 .. Len(leaves)
    PROVE  /\ Len(RowsAbove(leaves)[k]) \in Nat \ {0}
           /\ \A i \in Nat : i < Len(RowsAbove(leaves)[k]) <=> Present(leaves, k, i)
  <1> DEFINE n == Len(leaves)
             row == RowsAbove(leaves)
             Fits(d) == /\ Len(row[d]) \in Nat \ {0}
                        /\ \A i \in Nat : i < Len(row[d]) <=> i * TwoTo[d] < n
             Q == {d \in 0 .. n : Fits(d)}
  <1>1. row[0] = leaves /\ \A d \in 1 .. n : row[d] = makeRowAbove(row[d - 1])
    BY RowsAre
  <1> HIDE DEF row
  <1>2. 0 \in Q
    <2>1. TwoTo[0] = 1
      BY PowersOfTwo
    <2> QED
      BY <1>1, <2>1
  <1>3. ASSUME NEW d \in 1 .. n, d - 1 \in Q PROVE d \in Q
    <2> DEFINE l == Len(row[d - 1])
               m == Len(row[d])
               p == TwoTo[d - 1]
    <2>1. l \in Nat \ {0} /\ \A i \in Nat : i < l <=> i * p < n
      BY <1>3
    <2>2. m = (l + 1) \div 2
      BY <1>1, <2>1, RowAbove
    <2>3. TwoTo[d] = 2 * p /\ p \in Nat \ {0}
      <3>1. d \in Nat \ {0}
        OBVIOUS
      <3> QED
        BY <3>1, TwoToStep
    <2> HIDE DEF l, m, p
    <2>4. m \in Nat \ {0}
      BY <2>1, <2>2, SMT
    <2>5. ASSUME NEW i \in Nat PROVE i < m <=> i * TwoTo[d] < n
      <3>1. i < m <=> 2 * i < l
        BY <2>1, <2>2, SMT
      <3>2. 2 * i \in Nat /\ (2 * i) * p = i * (2 * p)
        BY <2>3, SMT
      <3> QED
        BY <2>1, <2>3, <3>1, <3>2
    <2> QED
      BY <2>4, <2>5 DEF m
  <1> HIDE DEF Q
  <1>4. 0 .. n \subseteq Q
    <2>1. n \in Nat
      OBVIOUS
    <2> HIDE DEF n
    <2> QED
      BY <1>2, <1>3, <2>1, UptoInduction
  <1>5. k \in Q
    BY <1>4
  <1> QED
    BY <1>5 DEF Q, Present, row

\* A node that is present is the element of its row.
LEMMA NodesAreRows ==
    ASSUME NEW leaves, Len(leaves) \in Nat \ {0}, NEW d \in 0 .. Len(leaves),
           NEW i \in 0 .. Len(leaves) - 1, Present(leaves, d, i)
    PROVE  Nodes(leaves)[d][i] = RowsAbove(leaves)[d][i + 1]
  <1> DEFINE n == Len(leaves)
             row == RowsAbove(leaves)
             node == Nodes(leaves)
             Same(e) == \A j \in 0 .. n - 1 : Present(leaves, e, j) => node[e][j] = row[e][j + 1]
             Q == {e \in 0 .. n : Same(e)}
  <1>1. row[0] = leaves /\ \A e \in 1 .. n : row[e] = makeRowAbove(row[e - 1])
    BY RowsAre
  <1>2. /\ node[0] = [j \in 0 .. n - 1 |-> leaves[j + 1]]
        /\ \A e \in 1 .. n : node[e] = NodesAbove(leaves, e, node[e - 1])
    BY NodesAre
  <1>3. \A e \in 0 .. n : /\ Len(row[e]) \in Nat \ {0}
                          /\ \A j \in Nat : j < Len(row[e]) <=> Present(leaves, e, j)
    BY RowLengths
  <1> HIDE DEF row, node
  <1>4. 0 \in Q
    BY <1>1, <1>2
  <1>5. ASSUME NEW e \in 1 .. n, e - 1 \in Q PROVE e \in Q
    <2> DEFINE below == row[e - 1]
               l == Len(below)
    <2>1. e - 1 \in 0 .. n /\ e \in 0 .. n /\ l \in Nat \ {0}
      BY <1>3
    <2>2. row[e] = makeRowAbove(below)
      BY <1>1
    <2>3. /\ Len(row[e]) = (l + 1) \div 2
          /\ \A j \in 1 .. (l + 1) \div 2 :
                row[e][j] = JoinAndHash(below[2 * j - 1], IF 2 * j <= l THEN below[2 * j]
                                                          ELSE below[2 * j - 1])
      BY <2>1, <2>2, RowAbove
    <2>4. \A j \in Nat : j < l <=> Present(leaves, e - 1, j)
      BY <1>3, <2>1
    <2>5. l <= n
      <3>1. ~ Present(leaves, e - 1, n)
        <4>1. e - 1 \in Nat
          OBVIOUS
        <4>2. TwoTo[e - 1] \in Nat \ {0}
          BY <4>1, PowersOfTwo
        <4>3. n \in Nat
          OBVIOUS
        <4> HIDE DEF n
        <4>4. ~ (n * TwoTo[e - 1] < n)
          BY <4>2, <4>3, SMT
        <4> QED
          BY <4>4 DEF Present, n
      <3> QED
        BY <2>1, <2>4, <3>1
    <2>6. \A j \in 0 .. n - 1 : Present(leaves, e - 1, j) => node[e - 1][j] = below[j + 1]
      BY <1>5
    <2>7. ASSUME NEW j \in 0 .. n - 1, Present(leaves, e, j)
          PROVE  node[e][j] = row[e][j + 1]
      <3>1. j < Len(row[e])
        BY <1>3, <2>1, <2>7
      <3> HIDE DEF l
      <3>2. j + 1 \in 1 .. (l + 1) \div 2 /\ 2 * j < l /\ 2 * j + 1 \in Nat
        BY <2>1, <2>3, <3>1, SMT
      <3>3. node[e][j] =
                JoinAndHash(node[e - 1][2 * j],
                            IF Present(leaves, e - 1, 2 * j + 1) THEN node[e - 1][2 * j + 1]
                            ELSE node[e - 1][2 * j])
        <4>1. node[e] = NodesAbove(leaves, e, node[e - 1])
          BY <1>2
        <4> HIDE DEF n
        <4> QED
          BY <2>7, <4>1 DEF NodesAbove, n
      <3>4. node[e - 1][2 * j] = below[2 * (j + 1) - 1]
        <4>1. 2 * j \in Nat /\ 2 * j \in 0 .. n - 1 /\ 2 * j + 1 = 2 * (j + 1) - 1
          BY <2>1, <2>5, <3>2
        <4>2. Present(leaves, e - 1, 2 * j)
          BY <2>4, <3>2, <4>1
        <4> QED
          BY <2>6, <4>1, <4>2
      <3>5. Present(leaves, e - 1, 2 * j + 1) <=> 2 * (j + 1) <= l
        <4>1. 2 * j + 1 < l <=> 2 * (j + 1) <= l
          BY <2>1
        <4> QED
          BY <2>4, <3>2, <4>1
      <3>6. 2 * (j + 1) <= l => node[e - 1][2 * j + 1] = below[2 * (j + 1)]
        <4> SUFFICES ASSUME 2 * (j + 1) <= l PROVE node[e - 1][2 * j + 1] = below[2 * (j + 1)]
          OBVIOUS
        <4>1. 2 * j + 1 \in 0 .. n - 1 /\ (2 * j + 1) + 1 = 2 * (j + 1)
          BY <2>1, <2>5
        <4> QED
          BY <2>6, <3>5, <4>1
      <3>7. row[e][j + 1] =
                JoinAndHash(below[2 * (j + 1) - 1],
                            IF 2 * (j + 1) <= l THEN below[2 * (j + 1)]
                            ELSE below[2 * (j + 1) - 1])
        BY <2>3, <3>2
      <3> QED
        BY <3>3, <3>4, <3>5, <3>6, <3>7
    <2> QED
      BY <2>1, <2>7
  <1> HIDE DEF Q
  <1>6. 0 .. n \subseteq Q
    <2>1. n \in Nat
      OBVIOUS
    <2> HIDE DEF n
    <2> QED
      BY <1>4, <1>5, <2>1, UptoInduction
  <1>7. d \in Q
    BY <1>6
  <1> QED
    BY <1>7 DEF Q, row, node

LEMMA PowerAbove ==
    ASSUME NEW n \in Nat
    PROVE  n < TwoTo[n]
  <1> DEFINE Q == {k \in 0 .. n : k < TwoTo[k]}
  <1>1. 0 \in Q
    BY PowersOfTwo
  <1>2. ASSUME NEW k \in 1 .. n, k - 1 \in Q PROVE k \in Q
    <2>1. k \in Nat \ {0} /\ k - 1 < TwoTo[k - 1]
      BY <1>2
    <2>2. TwoTo[k] = 2 * TwoTo[k - 1] /\ TwoTo[k - 1] \in Nat \ {0}
      BY <2>1, TwoToStep
    <2> QED
      BY <2>1, <2>2
  <1> HIDE DEF Q
  <1>3. n \in Q
    <2>1. 0 .. n \subseteq Q
      BY <1>1, <1>2, UptoInduction
    <2> QED
      BY <2>1
  <1> QED
    BY <1>3 DEF Q

\* A row has one node as soon as one stands for all leaves.
LEMMA OneNode ==
    ASSUME NEW leaves, Len(leaves) \in Nat \ {0}, NEW k \in 0 .. Len(leaves)
    PROVE  Len(RowsAbove(leaves)[k]) = 1 <=> TwoTo[k] >= Len(leaves)
  <1> DEFINE l == Len(RowsAbove(leaves)[k])
  <1>1. l \in Nat \ {0} /\ \A i \in Nat : i < l <=> Present(leaves, k, i)
    BY RowLengths
  <1>2. 1 < l <=> 1 * TwoTo[k] < Len(leaves)
    BY <1>1 DEF Present
  <1>3. TwoTo[k] \in Nat
    <2>1. k \in Nat
      OBVIOUS
    <2> QED
      BY <2>1, PowersOfTwo
  <1>4. 1 * TwoTo[k] = TwoTo[k]
    BY <1>3
  <1> HIDE DEF l
  <1>5. l = 1 <=> TwoTo[k] >= Len(leaves)
    BY <1>1, <1>2, <1>3, <1>4
  <1> QED
    BY <1>5 DEF l

\* The loop ends; the tree is the rows up to then.
LEMMA TreeIs ==
    ASSUME NEW leaves, Len(leaves) \in Nat \ {0}
    PROVE  \E top \in 1 .. Len(leaves) :
              /\ TwoTo[top] >= Len(leaves)
              /\ \A e \in 1 .. top - 1 : TwoTo[e] < Len(leaves)
              /\ NewMerkleTree(leaves) = [k \in 1 .. top + 1 |-> RowsAbove(leaves)[k - 1]]
              /\ Len(NewMerkleTree(leaves)) = top + 1
              /\ MerkleRoot(NewMerkleTree(leaves)) = RowsAbove(leaves)[top][1]
  <1> DEFINE n == Len(leaves)
             row == RowsAbove(leaves)
             top == CHOOSE k \in 1 .. n : isComplete(row, k)
  <1>1. ASSUME NEW k \in 1 .. n
        PROVE  isComplete(row, k) <=> TwoTo[k] >= n /\ \A e \in 1 .. k - 1 : TwoTo[e] < n
    <2>1. \A e \in 0 .. n : TwoTo[e] \in Nat
      <3>1. \A e \in 0 .. n : e \in Nat
        OBVIOUS
      <3> QED
        BY <3>1, PowersOfTwo
    <2>2. \A e \in 0 .. n : Len(row[e]) = 1 <=> TwoTo[e] >= n
      BY OneNode
    <2>3. k \in 0 .. n /\ \A e \in 1 .. k - 1 : e \in 0 .. n
      OBVIOUS
    <2>4. \A e \in 1 .. k - 1 : Len(row[e]) # 1 <=> TwoTo[e] < n
      BY <2>1, <2>2, <2>3
    <2> HIDE DEF row, n
    <2> QED
      BY <2>2, <2>3, <2>4 DEF isComplete
  <1>2. \E k \in 1 .. n : isComplete(row, k)
    <2> DEFINE Enough == {k \in 1 .. n : TwoTo[k] >= n}
    <2>1. n \in Enough
      <3>1. n \in Nat
        OBVIOUS
      <3>2. n < TwoTo[n] /\ TwoTo[n] \in Nat
        <4> HIDE DEF n
        <4> QED
          BY <3>1, PowerAbove, PowersOfTwo
      <3> QED
        BY <3>2
    <2>2. PICK k \in Enough : \A m \in Enough : k <= m
      <3>1. Enough \subseteq Nat
        OBVIOUS
      <3> HIDE DEF Enough
      <3> QED
        BY <2>1, <3>1, LeastNatural
    <2>3. ASSUME NEW e \in 1 .. k - 1 PROVE TwoTo[e] < n
      <3>1. e \in 1 .. n /\ e \in Nat /\ e < k
        BY <2>2
      <3>2. e \notin Enough
        BY <2>2, <3>1
      <3>3. TwoTo[e] \in Nat
        BY <3>1, PowersOfTwo
      <3> QED
        BY <3>1, <3>2, <3>3
    <2>4. k \in 1 .. n /\ TwoTo[k] >= n
      BY <2>2
    <2> HIDE DEF Enough, n, row
    <2> QED
      BY <1>1, <2>3, <2>4
  <1>3. top \in 1 .. n /\ isComplete(row, top)
    <2> HIDE DEF n, row
    <2> QED
      BY <1>2
  <1>4. NewMerkleTree(leaves) = [k \in 1 .. top + 1 |-> row[k - 1]]
    BY DEF NewMerkleTree
  <1> HIDE DEF top, row
  <1>5. TwoTo[top] >= n /\ \A e \in 1 .. top - 1 : TwoTo[e] < n
    BY <1>1, <1>3
  <1>6. top + 1 \in Nat /\ top + 1 \in 1 .. top + 1 /\ (top + 1) - 1 = top
    BY <1>3
  <1>7. Len(NewMerkleTree(leaves)) = top + 1
    BY <1>4, <1>6
  <1>8. MerkleRoot(NewMerkleTree(leaves)) = row[top][1]
    <2>1. NewMerkleTree(leaves)[top + 1] = row[top]
      BY <1>4, <1>6
    <2> QED
      BY <1>7, <2>1 DEF MerkleRoot
  <1> QED
    BY <1>3, <1>4, <1>5, <1>7, <1>8 DEF row

\* The root in the header is that of the block, for any transactions
\* (fetchWork, NewMerkleTree).
THEOREM RootIsTrueCorrect ==
    ASSUME NEW S, NEW coinbase \in S, NEW txs \in Seq(S)
    PROVE  RootIsTrue(coinbase, txs)
  <1> DEFINE leaves == <<coinbase>> \o txs
             n == Len(leaves)
  <1>1. n = Len(txs) + 1 /\ Len(txs) \in Nat
    BY SMT
  <1>2. leaves[1] = coinbase
    BY SMT
  <1>3. n \in Nat \ {0}
    BY <1>1
  <1> HIDE DEF leaves
  <1>4. \A d \in 0 .. n : TwoTo[d] \in Nat
    <2>1. \A d \in 0 .. n : d \in Nat
      OBVIOUS
    <2> QED
      BY <2>1, PowersOfTwo
  <1>5. CASE txs = <<>>
    <2>1. n = 1
      BY <1>1, <1>5
    <2>2. Depth(n) = 0
      <3>1. TwoTo[0] >= 1 /\ TwoTo[1] = 2
        <4>1. 0 \in Nat /\ 0 + 1 = 1
          OBVIOUS
        <4> QED
          BY <4>1, PowersOfTwo
      <3>2. \A d \in 0 .. 1 : (TwoTo[d] >= 1 /\ \A e \in 0 .. d - 1 : TwoTo[e] < 1) <=> d = 0
        <4>1. 1 \in 0 .. 1 /\ 0 \in 0 .. 1 - 1 /\ ~ (TwoTo[0] < 1)
          BY PowersOfTwo
        <4> QED
          BY <3>1, <4>1
      <3> QED
        BY <2>1, <3>2 DEF Depth
    <2>3. TrueRoot(leaves) = coinbase
      <3>1. Nodes(leaves)[0] = [i \in 0 .. n - 1 |-> leaves[i + 1]]
        BY <1>3, NodesAre
      <3>2. 0 \in 0 .. n - 1 /\ 0 + 1 = 1
        BY <2>1
      <3>3. Nodes(leaves)[0][0] = leaves[1]
        BY <3>1, <3>2
      <3> QED
        BY <1>2, <2>2, <3>3 DEF TrueRoot
    <2> QED
      BY <1>5, <2>3 DEF RootIsTrue, BlockRoot, leaves
  <1>6. CASE txs # <<>>
    <2>1. n \in Nat /\ n >= 2
      <3>1. Len(txs) # 0
        BY <1>6, SMT
      <3> QED
        BY <1>1, <3>1
    <2>2. PICK top \in 1 .. n : /\ TwoTo[top] >= n
                                /\ \A e \in 1 .. top - 1 : TwoTo[e] < n
                                /\ MerkleRoot(NewMerkleTree(leaves)) = RowsAbove(leaves)[top][1]
      BY <1>3, TreeIs
    <2> HIDE DEF n
    <2>3. TwoTo[0] < n
      BY <2>1, PowersOfTwo
    <2>4. \A d \in 0 .. n : (TwoTo[d] >= n /\ \A e \in 0 .. d - 1 : TwoTo[e] < n) <=> d = top
      <3> TAKE d \in 0 .. n
      <3>1. CASE d = top
        <4>1. \A e \in 0 .. top - 1 : e = 0 \/ e \in 1 .. top - 1
          OBVIOUS
        <4> QED
          BY <2>2, <2>3, <3>1, <4>1
      <3>2. CASE d < top
        <4>1. TwoTo[d] < n
          <5>1. d = 0 \/ d \in 1 .. top - 1
            BY <3>2
          <5> QED
            BY <2>2, <2>3, <5>1
        <4> QED
          BY <1>4, <2>1, <3>2, <4>1
      <3>3. CASE d > top
        <4>1. top \in 0 .. d - 1 /\ top \in 0 .. n
          BY <3>3
        <4>2. ~ (TwoTo[top] < n)
          BY <1>4, <2>1, <2>2, <4>1
        <4> QED
          BY <3>3, <4>1, <4>2
      <3> QED
        BY <2>1, <3>1, <3>2, <3>3
    <2>5. Depth(n) = top
      <3>1. top \in 0 .. n
        BY <2>2
      <3> QED
        BY <2>4, <3>1 DEF Depth
    <2>6. Nodes(leaves)[top][0] = RowsAbove(leaves)[top][1]
      <3>1. top \in 0 .. n /\ 0 \in 0 .. n - 1 /\ 0 + 1 = 1
        BY <2>1, <2>2
      <3>2. Present(leaves, top, 0)
        <4>1. 0 * TwoTo[top] = 0
          BY <1>4, <3>1
        <4> QED
          BY <2>1, <4>1 DEF Present, n
      <3>3. Len(leaves) \in Nat \ {0} /\ top \in 0 .. Len(leaves) /\ 0 \in 0 .. Len(leaves) - 1
        BY <1>3, <3>1 DEF n
      <3> QED
        BY <3>1, <3>2, <3>3, NodesAreRows
    <2> QED
      BY <1>6, <2>2, <2>5, <2>6 DEF RootIsTrue, BlockRoot, TrueRoot, leaves, n
  <1> QED
    BY <1>5, <1>6

\* One step of a path: the element and its sibling make the one above.
LEMMA PathStep ==
    ASSUME NEW below, NEW l \in Nat \ {0}, Len(below) = l, NEW i \in 1 .. l,
           NEW element, element = [hash |-> below[evaluateSibling(below, i).index],
                                   first |-> evaluateSibling(below, i).first]
    PROVE  /\ Above(i) \in 1 .. Len(makeRowAbove(below))
           /\ JoinElement(element, below[i]) = makeRowAbove(below)[Above(i)]
  <1> DEFINE a == (i - 1) \div 2 + 1
  <1>1. a \in 1 .. (l + 1) \div 2
    BY SMT
  <1>2. Above(i) = a
    BY DEF Above
  <1>3. /\ Len(makeRowAbove(below)) = (l + 1) \div 2
        /\ makeRowAbove(below)[a] =
               JoinAndHash(below[2 * a - 1], IF 2 * a <= l THEN below[2 * a]
                                             ELSE below[2 * a - 1])
    <2> HIDE DEF a
    <2> QED
      BY <1>1, RowAbove
  <1>4. CASE i % 2 = 0
    <2>1. 2 * a = i /\ 2 * a - 1 = i - 1
      BY <1>4, SMT
    <2> HIDE DEF a
    <2>2. evaluateSibling(below, i) = [index |-> i - 1, first |-> TRUE]
      BY <1>4 DEF evaluateSibling
    <2>3. JoinElement(element, below[i]) = JoinAndHash(below[i - 1], below[i])
      BY <2>2 DEF JoinElement
    <2> QED
      BY <1>1, <1>2, <1>3, <2>1, <2>3
  <1>5. CASE i % 2 = 1
    <2>1. 2 * a - 1 = i /\ 2 * a = i + 1
      BY <1>5, SMT
    <2> HIDE DEF a
    <2>2. i % 2 # 0
      BY <1>5
    <2>3. CASE i < l
      <3>1. evaluateSibling(below, i) = [index |-> i + 1, first |-> FALSE]
        BY <1>5, <2>2, <2>3 DEF evaluateSibling
      <3>2. JoinElement(element, below[i]) = JoinAndHash(below[i], below[i + 1])
        BY <3>1 DEF JoinElement
      <3>3. 2 * a <= l
        BY <2>1, <2>3
      <3> QED
        BY <1>1, <1>2, <1>3, <2>1, <3>2, <3>3
    <2>4. CASE ~ (i < l)
      <3>1. evaluateSibling(below, i) = [index |-> i, first |-> TRUE]
        BY <1>5, <2>2, <2>4 DEF evaluateSibling
      <3>2. JoinElement(element, below[i]) = JoinAndHash(below[i], below[i])
        BY <3>1 DEF JoinElement
      <3>3. ~ (2 * a <= l)
        BY <2>1, <2>4
      <3> QED
        BY <1>1, <1>2, <1>3, <2>1, <3>2, <3>3
    <2> QED
      BY <2>3, <2>4
  <1>6. i % 2 = 0 \/ i % 2 = 1
    BY SMT
  <1> QED
    BY <1>4, <1>5, <1>6

\* The path of every leaf leads to the root, for any number of leaves
\* (MerklePathForLeaf, CalculateMerkleRootFromMerklePath).
THEOREM PathsLeadToRootCorrect ==
    ASSUME NEW leaves, Len(leaves) \in Nat \ {0}
    PROVE  PathsLeadToRoot(leaves)
  <1> DEFINE n == Len(leaves)
             row == RowsAbove(leaves)
             tree == NewMerkleTree(leaves)
  <1>1. PICK top \in 1 .. n :
            /\ tree = [k \in 1 .. top + 1 |-> row[k - 1]]
            /\ Len(tree) = top + 1
            /\ MerkleRoot(tree) = row[top][1]
            /\ TwoTo[top] >= n
    BY TreeIs
  <1>2. row[0] = leaves /\ \A k \in 1 .. n : row[k] = makeRowAbove(row[k - 1])
    BY RowsAre
  <1>3. \A k \in 0 .. n : Len(row[k]) \in Nat \ {0}
    BY RowLengths
  <1>4. Len(row[top]) = 1
    <2>1. top \in 0 .. n
      BY <1>1
    <2> QED
      BY <1>1, <2>1, OneNode
  <1> HIDE DEF row, tree
  <1>5. SUFFICES ASSUME NEW leaf \in 1 .. n
                 PROVE  CalculateMerkleRootFromMerklePath(leaves[leaf],
                            MerklePathForLeaf(tree, leaf)) = MerkleRoot(tree)
    BY DEF PathsLeadToRoot, tree
  <1> DEFINE path == MerklePathForLeaf(tree, leaf)
             at == Ancestors(tree, leaf)
             hash == CumulativeHashes(leaves[leaf], path)
  <1>6. top \in Nat /\ Len(tree) \in Nat /\ Len(tree) - 1 = top
    BY <1>1
  <1>7. Len(path) = top
    BY <1>6 DEF MerklePathForLeaf
  <1>8. at[0] = leaf /\ \A k \in 1 .. top : at[k] = Above(at[k - 1])
    <2>1. at[0] = leaf /\ \A k \in 1 .. Len(tree) : at[k] = Above(at[k - 1])
      BY <1>6, AncestorsAre
    <2>2. \A k \in 1 .. top : k \in 1 .. Len(tree)
      BY <1>6
    <2> QED
      BY <2>1, <2>2
  <1>9. \A k \in 1 .. top :
            path[k] = [hash |-> row[k - 1][evaluateSibling(row[k - 1], at[k - 1]).index],
                       first |-> evaluateSibling(row[k - 1], at[k - 1]).first]
    <2> TAKE k \in 1 .. top
    <2>1. k \in 1 .. Len(tree) - 1 /\ tree[k] = row[k - 1]
      BY <1>1, <1>6
    <2> HIDE DEF at
    <2> QED
      BY <2>1 DEF MerklePathForLeaf, at
  <1> HIDE DEF path, at
  <1>10. hash[0] = leaves[leaf] /\ \A k \in 1 .. top : hash[k] = JoinElement(path[k], hash[k - 1])
    BY <1>6, <1>7, HashesAre
  <1> HIDE DEF hash
  <1> DEFINE Q == {k \in 0 .. top : at[k] \in 1 .. Len(row[k]) /\ hash[k] = row[k][at[k]]}
  <1>11. 0 \in Q
    BY <1>2, <1>6, <1>8, <1>10
  <1>12. ASSUME NEW k \in 1 .. top, k - 1 \in Q PROVE k \in Q
    <2> DEFINE below == row[k - 1]
               l == Len(below)
    <2>1. k \in 1 .. n /\ k - 1 \in 0 .. n
      BY <1>1
    <2>2. l \in Nat \ {0} /\ row[k] = makeRowAbove(below)
      BY <1>2, <1>3, <2>1
    <2>3. at[k - 1] \in 1 .. l /\ hash[k - 1] = below[at[k - 1]]
      BY <1>12
    <2>4. path[k] = [hash |-> below[evaluateSibling(below, at[k - 1]).index],
                     first |-> evaluateSibling(below, at[k - 1]).first]
      BY <1>9
    <2> HIDE DEF below
    <2>5. /\ Above(at[k - 1]) \in 1 .. Len(makeRowAbove(below))
          /\ JoinElement(path[k], below[at[k - 1]]) = makeRowAbove(below)[Above(at[k - 1])]
      BY <2>2, <2>3, <2>4, PathStep
    <2> QED
      BY <1>8, <1>10, <2>2, <2>3, <2>5
  <1>13. top \in Q
    <2> HIDE DEF Q
    <2>1. 0 .. top \subseteq Q
      BY <1>6, <1>11, <1>12, UptoInduction
    <2> QED
      BY <1>6, <2>1
  <1>14. hash[top] = row[top][1]
    <2>1. at[top] = 1
      BY <1>4, <1>13
    <2> QED
      BY <1>13, <2>1
  <1> QED
    BY <1>1, <1>7, <1>14 DEF CalculateMerkleRootFromMerklePath, hash, path

-----------------------------------------------------------------------------
(***************************************************************************)
(* The coinbase, for every height that fits the code's integers.           *)
(***************************************************************************)
\* An int64 is what has 63 bits; IsInt64 says so without a larger number.
LEMMA Int64Is ==
    ASSUME NEW n \in Nat
    PROVE  IsInt64(n) <=> n < TwoTo[IntBits]
  <1> DEFINE p == TwoTo[30]
             t == TwoTo[3]
  <1>1. p \in Nat \ {0} /\ t \in Nat \ {0} /\ TwoTo[60] = p * p /\ TwoTo[63] = t * TwoTo[60]
    <2>1. TwoTo[30 + 30] = TwoTo[30] * TwoTo[30] /\ TwoTo[30] \in Nat \ {0}
      <3>1. 30 \in Nat
        OBVIOUS
      <3> QED
        BY <3>1, PowerOfSum
    <2>2. TwoTo[3 + 60] = TwoTo[3] * TwoTo[60] /\ TwoTo[3] \in Nat \ {0}
      <3>1. 3 \in Nat /\ 60 \in Nat
        OBVIOUS
      <3> QED
        BY <3>1, PowerOfSum
    <2>3. 30 + 30 = 60 /\ 3 + 60 = 63
      OBVIOUS
    <2> QED
      BY <2>1, <2>2, <2>3
  <1>2. IsInt64(n) <=> (n \div p) \div p < t
    <2>1. IntBits - 60 = 3
      BY DEF IntBits
    <2> QED
      BY <2>1 DEF IsInt64
  <1>3. TwoTo[IntBits] = TwoTo[63]
    BY DEF IntBits
  <1> HIDE DEF p, t
  <1>4. n \div (p * p) = (n \div p) \div p /\ p * p \in Nat \ {0}
    <2>1. p * p \in Nat \ {0}
      BY <1>1, SMT
    <2> QED
      BY <1>1, <2>1, QuotientOfQuotient
  <1>5. n \div (p * p) < t <=> n < t * (p * p)
    BY <1>1, <1>4, QuotientBelow
  <1> QED
    BY <1>1, <1>2, <1>3, <1>4, <1>5

\* The digits are as many as the number needs.
LEMMA DigitCountIs ==
    ASSUME NEW n \in Nat, n < TwoTo[IntBits], NEW w \in {1, 4}
    PROVE  LET l == DigitCount(n, w) IN
           /\ l \in 1 .. IntBits
           /\ n < TwoTo[w * l]
           /\ l = 1 \/ n >= TwoTo[w * (l - 1)]
  <1> DEFINE Right(l) == /\ n \div TwoTo[w * (l - 1)] < TwoTo[w]
                         /\ l = 1 \/ n >= TwoTo[w * (l - 1)]
             S == {l \in 1 .. IntBits : n < TwoTo[w * l]}
  <1>1. ASSUME NEW l \in 1 .. IntBits
        PROVE  n \div TwoTo[w * (l - 1)] < TwoTo[w] <=> n < TwoTo[w * l]
    <2>1. w * (l - 1) \in Nat /\ w \in Nat /\ w + w * (l - 1) = w * l
      BY SMT DEF IntBits
    <2> DEFINE a == w * (l - 1)
    <2>2. a \in Nat /\ w + a = w * l
      BY <2>1
    <2> HIDE DEF a
    <2>3. TwoTo[w + a] = TwoTo[w] * TwoTo[a] /\ TwoTo[w] \in Nat /\ TwoTo[a] \in Nat \ {0}
      BY <2>1, <2>2, PowerOfSum
    <2>4. n \div TwoTo[a] < TwoTo[w] <=> n < TwoTo[w] * TwoTo[a]
      BY <2>3, QuotientBelow
    <2>5. n \div TwoTo[a] < TwoTo[w] <=> n < TwoTo[w * l]
      BY <2>2, <2>3, <2>4
    <2> QED
      BY <2>5 DEF a
  <1>2. S \subseteq Nat /\ IntBits \in S
    <2>1. IntBits \in Nat /\ IntBits \in 1 .. IntBits /\ w * IntBits \in Nat /\ IntBits <= w * IntBits
      BY SMT DEF IntBits
    <2>2. TwoTo[IntBits] <= TwoTo[w * IntBits] /\ TwoTo[IntBits] \in Nat
          /\ TwoTo[w * IntBits] \in Nat
      BY <2>1, TwoToGrows
    <2>3. n < TwoTo[w * IntBits]
      BY <2>2
    <2> QED
      BY <2>1, <2>3 DEF IntBits
  <1>3. PICK l \in S : \A k \in S : l <= k
    <2> HIDE DEF S
    <2> QED
      BY <1>2, LeastNatural
  <1>4. l \in 1 .. IntBits /\ Right(l)
    <2>1. l \in 1 .. IntBits /\ n < TwoTo[w * l]
      BY <1>3
    <2>2. ASSUME l # 1 PROVE n >= TwoTo[w * (l - 1)]
      <3>1. l - 1 \in 1 .. IntBits /\ ~(l <= l - 1) /\ w * (l - 1) \in Nat
        BY <2>1, <2>2, SMT DEF IntBits
      <3>2. ~(n < TwoTo[w * (l - 1)])
        BY <1>3, <3>1
      <3>3. TwoTo[w * (l - 1)] \in Nat
        BY <3>1, PowersOfTwo
      <3> QED
        BY <3>2, <3>3
    <2> QED
      BY <1>1, <2>1, <2>2
  <1> DEFINE count == CHOOSE c \in 1 .. IntBits : Right(c)
  <1>5. DigitCount(n, w) = count
    BY DEF DigitCount
  <1>6. count \in 1 .. IntBits /\ Right(count)
    <2> HIDE DEF Right
    <2> QED
      BY <1>4
  <1>7. n < TwoTo[w * count]
    <2> HIDE DEF count
    <2> QED
      BY <1>1, <1>6
  <1> HIDE DEF count
  <1> QED
    BY <1>5, <1>6, <1>7

\* The bytes of a height, and the room that is announced for them.
SerialLength(n) == (DigitCount(n, 4) + 1) \div 2

LEMMA SerialLengthIs ==
    ASSUME NEW n \in Nat, n < TwoTo[IntBits]
    PROVE  LET m == SerialLength(n) IN
           /\ m \in Nat \ {0} /\ n < TwoTo[8 * m]
           /\ m = 1 \/ n >= TwoTo[8 * (m - 1)]
  <1> DEFINE l == DigitCount(n, 4)
             m == SerialLength(n)
  <1>1. l \in 1 .. IntBits /\ n < TwoTo[4 * l] /\ (l = 1 \/ n >= TwoTo[4 * (l - 1)])
    BY DigitCountIs
  <1>2. m = (l + 1) \div 2
    BY DEF SerialLength
  <1> HIDE DEF l, m
  <1>3. /\ m \in Nat \ {0} /\ l \in Nat \ {0} /\ 8 * m \in Nat /\ 8 * (m - 1) \in Nat
        /\ 4 * l \in Nat /\ 4 * (l - 1) \in Nat
        /\ 4 * l <= 8 * m /\ 8 * (m - 1) <= 4 * (l - 1) /\ (m # 1 => l # 1)
    BY <1>1, <1>2, SMT DEF IntBits
  <1>4. TwoTo[4 * l] <= TwoTo[8 * m] /\ TwoTo[4 * l] \in Nat /\ TwoTo[8 * m] \in Nat
    BY <1>3, TwoToGrows
  <1>5. TwoTo[8 * (m - 1)] <= TwoTo[4 * (l - 1)]
        /\ TwoTo[8 * (m - 1)] \in Nat /\ TwoTo[4 * (l - 1)] \in Nat
    BY <1>3, TwoToGrows
  <1>6. n < TwoTo[8 * m]
    BY <1>1, <1>4
  <1>7. m # 1 => n >= TwoTo[8 * (m - 1)]
    BY <1>1, <1>3, <1>5
  <1> QED
    BY <1>3, <1>6, <1>7 DEF m

LEMMA HeightIs ==
    ASSUME NEW h \in Nat, 2 * h < TwoTo[IntBits]
    PROVE  LET H == Height(h) IN
           /\ H \in Nat \ {0} /\ 2 * h < TwoTo[8 * H]
           /\ H = 1 \/ 2 * h >= TwoTo[8 * (H - 1)]
  <1> DEFINE l == DigitCount(2 * h, 1)
             H == Height(h)
  <1>0. 2 * h \in Nat /\ 1 \in {1, 4}
    OBVIOUS
  <1>1. l \in 1 .. IntBits /\ 2 * h < TwoTo[1 * l] /\ (l = 1 \/ 2 * h >= TwoTo[1 * (l - 1)])
    BY <1>0, DigitCountIs
  <1>2. H = (l + 7) \div 8
    <2>1. Len(Digits(2 * h, 1)) = l
      <3> HIDE DEF l
      <3>1. Digits(2 * h, 1) = [i \in 1 .. l |-> ((2 * h) \div TwoTo[1 * (l - i)]) % TwoTo[1]]
        BY DEF Digits, l
      <3>2. l \in Nat
        BY <1>1 DEF IntBits
      <3> QED
        BY <3>1, <3>2
    <2> QED
      BY <2>1 DEF Height
  <1> HIDE DEF l, H
  <1>3. /\ H \in Nat \ {0} /\ l \in Nat \ {0} /\ 8 * H \in Nat /\ 8 * (H - 1) \in Nat
        /\ 1 * l = l /\ 1 * (l - 1) = l - 1 /\ l - 1 \in Nat
        /\ l <= 8 * H /\ 8 * (H - 1) <= l - 1 /\ (H # 1 => l # 1)
    BY <1>1, <1>2, SMT DEF IntBits
  <1>4. TwoTo[l] <= TwoTo[8 * H] /\ TwoTo[l] \in Nat /\ TwoTo[8 * H] \in Nat
    BY <1>3, TwoToGrows
  <1>5. TwoTo[8 * (H - 1)] <= TwoTo[l - 1]
        /\ TwoTo[8 * (H - 1)] \in Nat /\ TwoTo[l - 1] \in Nat
    BY <1>3, TwoToGrows
  <1>6. 2 * h < TwoTo[8 * H]
    BY <1>0, <1>1, <1>3, <1>4
  <1>7. H # 1 => 2 * h >= TwoTo[8 * (H - 1)]
    BY <1>0, <1>1, <1>3, <1>5
  <1> QED
    BY <1>3, <1>6, <1>7 DEF H

\* The sign bit takes at most one byte more.
LEMMA RoomForSign ==
    ASSUME NEW h \in Nat, 2 * h < TwoTo[IntBits]
    PROVE  Height(h) \in {SerialLength(h), SerialLength(h) + 1}
  <1> DEFINE m == SerialLength(h)
             H == Height(h)
  <1>1. H \in Nat \ {0} /\ 2 * h < TwoTo[8 * H] /\ (H = 1 \/ 2 * h >= TwoTo[8 * (H - 1)])
    BY HeightIs
  <1>2. m \in Nat \ {0} /\ h < TwoTo[8 * m] /\ (m = 1 \/ h >= TwoTo[8 * (m - 1)])
    <2>1. TwoTo[IntBits] \in Nat /\ h < TwoTo[IntBits]
      BY PowersOfTwo DEF IntBits
    <2> QED
      BY <2>1, SerialLengthIs
  <1> HIDE DEF m, H
  <1>3. ASSUME H < m PROVE FALSE
    <2>1. 8 * H \in Nat /\ 8 * (m - 1) \in Nat /\ 8 * H <= 8 * (m - 1) /\ m # 1
      BY <1>1, <1>2, <1>3
    <2>2. TwoTo[8 * H] <= TwoTo[8 * (m - 1)] /\ TwoTo[8 * H] \in Nat /\ TwoTo[8 * (m - 1)] \in Nat
      BY <2>1, TwoToGrows
    <2> QED
      BY <1>1, <1>2, <2>1, <2>2
  <1>4. ASSUME H > m + 1 PROVE FALSE
    <2>1. 8 * m \in Nat /\ 8 * m + 1 \in Nat /\ 8 * (H - 1) \in Nat /\ 8 * m + 1 <= 8 * (H - 1) /\ H # 1
      BY <1>1, <1>2, <1>4
    <2>2. TwoTo[8 * m + 1] <= TwoTo[8 * (H - 1)] /\ TwoTo[8 * m + 1] \in Nat
          /\ TwoTo[8 * (H - 1)] \in Nat
      BY <2>1, TwoToGrows
    <2>3. TwoTo[8 * m + 1] = 2 * TwoTo[8 * m] /\ TwoTo[8 * m] \in Nat
      BY <2>1, PowersOfTwo
    <2> QED
      BY <1>1, <1>2, <2>1, <2>2, <2>3
  <1> QED
    BY <1>1, <1>2, <1>3, <1>4 DEF m, H

\* The bytes of a number: the i-th of m is what it leaves below 256 when the
\* m - i bytes behind it are cut off.
LEMMA SerialIs ==
    ASSUME NEW n \in Nat, n < TwoTo[IntBits]
    PROVE  Serial(n) = [i \in 1 .. SerialLength(n) |->
                            (n \div TwoTo[8 * (SerialLength(n) - i)]) % 256]
  <1> DEFINE l == DigitCount(n, 4)
             m == SerialLength(n)
             hex == Digits(n, 4)
             even == Even(hex)
  <1>1. l \in 1 .. IntBits /\ n < TwoTo[4 * l]
    BY DigitCountIs
  <1>2. hex = [i \in 1 .. l |-> (n \div TwoTo[4 * (l - i)]) % 16]
    BY SomePowers DEF Digits
  <1>3. m = (l + 1) \div 2
    BY DEF SerialLength
  <1>4. even = IF Len(hex) % 2 = 1 THEN <<0>> \o hex ELSE hex
    BY DEF Even
  <1>5. Serial(n) = [i \in 1 .. Len(even) \div 2 |-> 16 * even[2 * i - 1] + even[2 * i]]
    BY DEF Serial, HexToBytes
  <1> HIDE DEF l, m, hex, even
  <1>6. l \in Nat \ {0} /\ Len(hex) = l
    BY <1>1, <1>2 DEF IntBits
  <1>7. \A j \in 1 .. l : hex[j] = (n \div TwoTo[4 * (l - j)]) % 16
    BY <1>2
  <1>8. /\ Len(even) = 2 * m
        /\ \A j \in 1 .. 2 * m : even[j] = (n \div TwoTo[4 * (2 * m - j)]) % 16
    <2>1. CASE l % 2 = 0
      <3>1. l = 2 * m /\ even = hex
        BY <1>3, <1>4, <1>6, <2>1, SMT
      <3> QED
        BY <1>6, <1>7, <3>1
    <2>2. CASE l % 2 # 0
      <3>0. l % 2 = 1 /\ l + 1 = 2 * m /\ m \in Nat
        BY <1>3, <1>6, <2>2, SMT
      <3>1. l + 1 = 2 * m /\ even = <<0>> \o hex /\ m \in Nat
        BY <1>4, <1>6, <3>0
      <3> DEFINE digit(j) == (n \div TwoTo[4 * (l - j)]) % 16
      <3>2. hex \in Seq({digit(j) : j \in 1 .. l})
        <4> HIDE DEF digit
        <4>1. hex = [j \in 1 .. l |-> digit(j)]
          BY <1>2 DEF digit
        <4>2. l \in Nat
          BY <1>6
        <4> QED
          BY <4>1, <4>2
      <3>3. Len(even) = 2 * m /\ even[1] = 0 /\ \A j \in 2 .. 2 * m : even[j] = hex[j - 1]
        BY <1>6, <3>1, <3>2
      <3>4. (n \div TwoTo[4 * (2 * m - 1)]) % 16 = 0
        <4>1. 2 * m - 1 = l /\ 4 * l \in Nat
          BY <1>6, <3>1
        <4>2. TwoTo[4 * l] \in Nat \ {0} /\ 0 * TwoTo[4 * l] <= n /\ n < (0 + 1) * TwoTo[4 * l]
          BY <1>1, <4>1, PowersOfTwo
        <4>3. n \div TwoTo[4 * l] = 0
          <5>1. 0 \in Nat
            OBVIOUS
          <5> QED
            BY <4>2, <5>1, QuotientIs
        <4> QED
          BY <4>1, <4>3
      <3>5. ASSUME NEW j \in 2 .. 2 * m PROVE even[j] = (n \div TwoTo[4 * (2 * m - j)]) % 16
        <4>1. j - 1 \in 1 .. l /\ l - (j - 1) = 2 * m - j
          BY <1>6, <3>1
        <4> QED
          BY <1>7, <3>3, <4>1
      <3>6. \A j \in 1 .. 2 * m : j = 1 \/ j \in 2 .. 2 * m
        BY <3>1
      <3> QED
        BY <3>3, <3>4, <3>5, <3>6
    <2>3. l % 2 = 0 \/ l % 2 # 0
      OBVIOUS
    <2> QED
      BY <2>1, <2>2
  <1>9. m \in Nat /\ Len(even) \div 2 = m
    BY <1>3, <1>6, <1>8, SMT
  <1>10. ASSUME NEW i \in 1 .. m
         PROVE  16 * even[2 * i - 1] + even[2 * i] = (n \div TwoTo[8 * (m - i)]) % 256
    <2> DEFINE p == TwoTo[8 * (m - i)]
               q == n \div p
    <2>1. /\ 2 * i - 1 \in 1 .. 2 * m /\ 2 * i \in 1 .. 2 * m
          /\ 8 * (m - i) \in Nat /\ 4 * (2 * m - 2 * i) = 8 * (m - i)
          /\ 4 * (2 * m - (2 * i - 1)) = 4 + 8 * (m - i)
      BY <1>9
    <2>2. p \in Nat \ {0} /\ TwoTo[4 + 8 * (m - i)] = 16 * p
      <3> DEFINE a == 8 * (m - i)
      <3>1. a \in Nat /\ 4 \in Nat
        BY <2>1
      <3> HIDE DEF a
      <3>2. TwoTo[4 + a] = TwoTo[4] * TwoTo[a] /\ TwoTo[a] \in Nat \ {0}
        BY <3>1, PowerOfSum
      <3> QED
        BY <3>2, SomePowers DEF a
    <2>3. even[2 * i] = q % 16 /\ even[2 * i - 1] = (n \div (16 * p)) % 16
      BY <1>8, <2>1, <2>2
    <2> HIDE DEF p
    <2>4. n \div (16 * p) = q \div 16 /\ q \in Nat
      <3>1. 16 \in Nat \ {0}
        OBVIOUS
      <3> QED
        BY <2>2, <3>1, QuotientOfQuotient, Quotient0
    <2> HIDE DEF q
    <2>5. 16 * ((q \div 16) % 16) + (q % 16) = q % 256
      <3> DEFINE a == q \div 16
                 c == a \div 16
                 x == a % 16
                 y == q % 16
      <3>0. 16 \in Nat \ {0}
        OBVIOUS
      <3>1. a \in Nat /\ q = 16 * a + y /\ y \in 0 .. 16 - 1
        BY <2>4, <3>0, Remainder, Zenon
      <3> HIDE DEF a
      <3>2. c \in Nat /\ a = 16 * c + x /\ x \in 0 .. 16 - 1
        BY <3>0, <3>1, Remainder, Zenon
      <3> HIDE DEF c, x, y
      <3>3. q = 256 * c + (16 * x + y) /\ 16 * x + y \in 0 .. 255
        BY <3>1, <3>2
      <3>4. q % 256 = 16 * x + y
        BY <2>4, <3>2, <3>3, SMT
      <3> QED
        BY <3>4 DEF x, y, a
    <2> QED
      BY <2>3, <2>4, <2>5 DEF p, q
  <1> QED
    BY <1>5, <1>9, <1>10 DEF m

\* The value of a number's bytes, byte by byte.
IsValues(f, n, start, bytes) ==
    f = [k \in 0 .. n |-> IF k = 0 THEN start ELSE 256 * f[k - 1] + bytes[Len(bytes) + 1 - k]]

LEMMA ValuesExist ==
    ASSUME NEW W \in Nat, NEW start, NEW bytes
    PROVE  \E f : IsValues(f, W, start, bytes)
  <1> DEFINE Q == {n \in 0 .. W : \E f : IsValues(f, n, start, bytes)}
  <1>1. 0 \in Q
    <2> DEFINE f == [k \in 0 .. 0 |-> start]
    <2>1. IsValues(f, 0, start, bytes)
      BY DEF IsValues
    <2> HIDE DEF f
    <2> QED
      BY <2>1
  <1>2. ASSUME NEW n \in 1 .. W, n - 1 \in Q PROVE n \in Q
    <2>1. PICK g : IsValues(g, n - 1, start, bytes)
      BY <1>2
    <2> DEFINE f == [k \in 0 .. n |-> IF k = n THEN 256 * g[n - 1] + bytes[Len(bytes) + 1 - n] ELSE g[k]]
    <2>2. ASSUME NEW k \in 0 .. n
          PROVE  f[k] = IF k = 0 THEN start ELSE 256 * f[k - 1] + bytes[Len(bytes) + 1 - k]
      <3>1. k # 0 => f[k - 1] = g[k - 1]
        OBVIOUS
      <3>2. k # n => k \in 0 .. n - 1
        OBVIOUS
      <3> QED
        BY <2>1, <3>1, <3>2 DEF IsValues
    <2>3. f = [k \in 0 .. n |-> f[k]]
      OBVIOUS
    <2> HIDE DEF f
    <2>4. IsValues(f, n, start, bytes)
      BY <2>2, <2>3 DEF IsValues
    <2> QED
      BY <2>4
  <1>3. W \in Q
    <2> HIDE DEF Q
    <2>1. 0 .. W \subseteq Q
      BY <1>1, <1>2, UptoInduction
    <2> QED
      BY <2>1
  <1> QED
    BY <1>3

LEMMA ValuesAre ==
    ASSUME NEW bytes, Len(bytes) \in Nat
    PROVE  /\ Values(bytes)[0] = 0
           /\ \A k \in 1 .. Len(bytes) : Values(bytes)[k] = 256 * Values(bytes)[k - 1] + bytes[Len(bytes) + 1 - k]
  <1> DEFINE start == 0
             it == CHOOSE f : IsValues(f, Len(bytes), start, bytes)
  <1>1. \E f : IsValues(f, Len(bytes), start, bytes)
    <2> HIDE DEF start
    <2> QED
      BY ValuesExist
  <1>2. IsValues(it, Len(bytes), start, bytes)
    <2> HIDE DEF start
    <2> QED
      BY <1>1
  <1>3. Values(bytes) = it
    BY DEF Values, IsValues
  <1> HIDE DEF it
  <1>4. \A k \in 0 .. Len(bytes) : it[k] = IF k = 0 THEN start ELSE 256 * it[k - 1] + bytes[Len(bytes) + 1 - k]
    BY <1>2 DEF IsValues
  <1> QED
    BY <1>3, <1>4

\* Elements of a sequence from the second on.
LEMMA Slice ==
    ASSUME NEW B, NEW s \in Seq(B), NEW n \in Nat, n + 1 <= Len(s)
    PROVE  SubSeq(s, 2, n + 1) = [i \in 1 .. n |-> s[i + 1]]
  BY SMT

\* What a node finds in the script: the bytes of the height, the lowest
\* first, as far as they were announced.
LEMMA PushIs ==
    ASSUME NEW h \in Nat, 2 * h < TwoTo[IntBits]
    PROVE  LET script == blockHeightScript(h) IN
           /\ script[1] = Height(h) /\ script[1] < Len(script)
           /\ SubSeq(script, 2, script[1] + 1) =
                  [i \in 1 .. Height(h) |-> (h \div TwoTo[8 * (i - 1)]) % 256]
  <1> DEFINE m == SerialLength(h)
             H == Height(h)
             serial == Serial(h)
             script == blockHeightScript(h)
             Byte(i) == (h \div TwoTo[8 * (i - 1)]) % 256
  <1>1. H \in {m, m + 1}
    BY RoomForSign
  <1>2. h < TwoTo[IntBits]
    BY PowersOfTwo DEF IntBits
  <1>3. m \in Nat \ {0} /\ h < TwoTo[8 * m]
    BY <1>2, SerialLengthIs
  <1>4. serial = [i \in 1 .. m |-> (h \div TwoTo[8 * (m - i)]) % 256]
    BY <1>2, SerialIs
  <1>5. script = HexToBytes(<<0, H>>) \o Reverse(serial \o
                     (IF Len(serial) - H > 0 THEN [i \in 1 .. Len(serial) - H |-> 0] ELSE <<>>))
                     \o <<0>>
    BY DEF blockHeightScript
  <1>6. HexToBytes(<<0, H>>) = <<H>>
    <2>1. Len(<<0, H>>) \div 2 = 1
      OBVIOUS
    <2>2. HexToBytes(<<0, H>>) = [i \in 1 .. 1 |-> 16 * <<0, H>>[2 * i - 1] + <<0, H>>[2 * i]]
      BY <2>1 DEF HexToBytes
    <2>3. \A i \in 1 .. 1 : 16 * <<0, H>>[2 * i - 1] + <<0, H>>[2 * i] = H
      <3> HIDE DEF H
      <3>1. 16 * <<0, H>>[1] + <<0, H>>[2] = H
        BY <1>1, <1>3
      <3>2. \A i \in 1 .. 1 : 2 * i - 1 = 1 /\ 2 * i = 2
        OBVIOUS
      <3> QED
        BY <3>1, <3>2
    <2>4. <<H>> = [i \in 1 .. 1 |-> H]
      OBVIOUS
    <2> QED
      BY <2>2, <2>3, <2>4
  <1>7. h % 256 \in Nat /\ \A i \in 1 .. H : Byte(i) \in Nat
    <2>1. ASSUME NEW i \in 1 .. H PROVE Byte(i) \in Nat
      <3>1. 8 * (i - 1) \in Nat
        BY <1>1, <1>3
      <3>2. TwoTo[8 * (i - 1)] \in Nat \ {0}
        BY <3>1, PowersOfTwo
      <3> DEFINE q == h \div TwoTo[8 * (i - 1)]
      <3>3. q \in Nat
        BY <3>2, Quotient0
      <3> HIDE DEF q
      <3>4. q % 256 \in Nat
        BY <3>3, SMT
      <3> QED
        BY <3>4 DEF q
    <2> QED
      BY <2>1, SMT
  <1> HIDE DEF m, H, serial, script, Byte
  <1>8. Len(serial) = m /\ \A j \in 1 .. m : serial[j] = Byte(m + 1 - j)
    <2>1. \A j \in 1 .. m : (m + 1 - j) - 1 = m - j
      BY <1>3
    <2> QED
      BY <1>3, <1>4, <2>1 DEF Byte
  <1>9. serial \in Seq(Nat)
    <2>1. \A j \in 1 .. m : m + 1 - j \in 1 .. H
      BY <1>1, <1>3
    <2>2. \A j \in 1 .. m : serial[j] \in Nat
      BY <1>7, <1>8, <2>1
    <2>3. serial = [j \in 1 .. m |-> serial[j]]
      BY <1>4
    <2> QED
      BY <1>3, <2>2, <2>3
  <1>10. script = <<H>> \o Reverse(serial) \o <<0>>
    <2>1. ~(Len(serial) - H > 0)
      BY <1>1, <1>3, <1>8
    <2>2. serial \o <<>> = serial
      BY <1>9
    <2> QED
      BY <1>5, <1>6, <2>1, <2>2
  <1> DEFINE turned == Reverse(serial)
  <1>11. /\ turned \in Seq(Nat) /\ Len(turned) = m
         /\ \A j \in 1 .. m : turned[j] = Byte(j)
    <2>1. turned = [i \in 1 .. m |-> serial[m - i + 1]]
      BY <1>8 DEF Reverse
    <2>2. \A j \in 1 .. m : m - j + 1 \in 1 .. m /\ m + 1 - (m - j + 1) = j
      BY <1>3
    <2>3. \A j \in 1 .. m : turned[j] = Byte(j) /\ turned[j] \in Nat
      <3>1. \A j \in 1 .. m : serial[j] \in Nat
        BY <1>8, <1>9
      <3> HIDE DEF turned
      <3> QED
        BY <1>8, <2>1, <2>2, <3>1
    <2> HIDE DEF turned
    <2> QED
      BY <1>3, <2>1, <2>3
  <1> HIDE DEF turned
  <1>12. /\ script \in Seq(Nat) /\ Len(script) = m + 2
         /\ script[1] = H /\ script[m + 2] = 0
         /\ \A j \in 1 .. m : script[j + 1] = Byte(j)
    <2>1. H \in Nat /\ m \in Nat
      BY <1>1, <1>3
    <2>2. script = (<<H>> \o turned) \o <<0>>
      BY <1>10 DEF turned
    <2> DEFINE front == <<H>> \o turned
    <2>3. front \in Seq(Nat) /\ Len(front) = m + 1 /\ front[1] = H
          /\ \A j \in 1 .. m : front[j + 1] = Byte(j)
      <3>1. \A j \in 1 .. m : front[j + 1] = turned[j]
        BY <1>11, <2>1
      <3>2. front \in Seq(Nat) /\ Len(front) = m + 1 /\ front[1] = H
        BY <1>11, <2>1
      <3> HIDE DEF front
      <3> QED
        BY <1>11, <3>1, <3>2
    <2> HIDE DEF front
    <2>4. script = front \o <<0>>
      BY <2>2 DEF front
    <2>5. \A j \in 1 .. m + 1 : script[j] = front[j]
      BY <2>1, <2>3, <2>4
    <2>6. script \in Seq(Nat) /\ Len(script) = m + 2 /\ script[m + 2] = 0
      BY <2>1, <2>3, <2>4
    <2>7. 1 \in 1 .. m + 1 /\ \A j \in 1 .. m : j + 1 \in 1 .. m + 1
      BY <2>1
    <2> QED
      BY <2>3, <2>5, <2>6, <2>7
  \* the byte that is not written is zero
  <1>13. Byte(m + 1) = 0
    <2>1. 8 * m \in Nat /\ (m + 1) - 1 = m
      BY <1>3
    <2>2. TwoTo[8 * m] \in Nat \ {0} /\ 0 \in Nat /\ 0 * TwoTo[8 * m] <= h
          /\ h < (0 + 1) * TwoTo[8 * m]
      BY <1>3, <2>1, PowersOfTwo
    <2>3. h \div TwoTo[8 * m] = 0
      BY <2>2, QuotientIs
    <2> QED
      BY <2>1, <2>3 DEF Byte
  <1>14. \A i \in 1 .. H : script[i + 1] = Byte(i)
    <2>1. \A i \in 1 .. H : i \in 1 .. m \/ (i = m + 1 /\ i + 1 = m + 2)
      BY <1>1, <1>3
    <2> QED
      BY <1>12, <1>13, <2>1
  <1>15. H \in Nat /\ H + 1 <= Len(script)
    BY <1>1, <1>3, <1>12
  <1>16. SubSeq(script, 2, H + 1) = [i \in 1 .. H |-> script[i + 1]]
    BY <1>12, <1>15, Slice
  <1>17. SubSeq(script, 2, H + 1) = [i \in 1 .. H |-> Byte(i)]
    BY <1>14, <1>16
  <1>18. /\ script[1] = H /\ script[1] < Len(script)
         /\ SubSeq(script, 2, script[1] + 1) = [i \in 1 .. H |-> Byte(i)]
    BY <1>12, <1>15, <1>17
  <1> QED
    BY <1>18 DEF Byte, H, script

\* Any number of bytes that has room for a number has its value.
LEMMA ValueOfBytes ==
    ASSUME NEW h \in Nat, NEW H \in Nat, h < TwoTo[8 * H]
    PROVE  Value([i \in 1 .. H |-> (h \div TwoTo[8 * (i - 1)]) % 256]) = h
  <1> DEFINE bytes == [i \in 1 .. H |-> (h \div TwoTo[8 * (i - 1)]) % 256]
             value == Values(bytes)
             Left(k) == h \div TwoTo[8 * (H - k)]
             Q == {k \in 0 .. H : value[k] = Left(k)}
  <1>1. Len(bytes) = H
    OBVIOUS
  <1>2. /\ value[0] = 0
        /\ \A k \in 1 .. H : value[k] = 256 * value[k - 1] + bytes[H + 1 - k]
    <2> HIDE DEF bytes
    <2>1. Len(bytes) \in Nat
      BY <1>1
    <2> QED
      BY <1>1, <2>1, ValuesAre
  <1>3. 0 \in Q
    <2>1. 8 * H \in Nat /\ H - 0 = H /\ 0 \in Nat
      OBVIOUS
    <2>2. TwoTo[8 * H] \in Nat \ {0} /\ 0 * TwoTo[8 * H] <= h /\ h < (0 + 1) * TwoTo[8 * H]
      BY <2>1, PowersOfTwo
    <2>3. Left(0) = 0
      BY <2>1, <2>2, QuotientIs
    <2> HIDE DEF Left, value
    <2> QED
      BY <1>2, <2>3
  <1>4. ASSUME NEW k \in 1 .. H, k - 1 \in Q PROVE k \in Q
    <2> DEFINE p == TwoTo[8 * (H - k)]
               q == h \div p
    <2>1. 8 * (H - k) \in Nat /\ 8 * (H - (k - 1)) = 8 + 8 * (H - k) /\ 8 \in Nat
          /\ H + 1 - k \in 1 .. H /\ (H + 1 - k) - 1 = H - k /\ 256 \in Nat \ {0}
      OBVIOUS
    <2>2. p \in Nat \ {0} /\ TwoTo[8 * (H - (k - 1))] = 256 * p
      <3> DEFINE a == 8 * (H - k)
      <3>1. a \in Nat /\ 8 \in Nat /\ 8 * (H - (k - 1)) = 8 + a
        BY <2>1
      <3> HIDE DEF a
      <3>2. TwoTo[8 + a] = TwoTo[8] * TwoTo[a] /\ TwoTo[a] \in Nat \ {0}
        BY <3>1, PowerOfSum
      <3> QED
        BY <3>1, <3>2, SomePowers DEF a
    <2>3. Left(k - 1) = h \div (256 * p)
      BY <2>2
    <2>4. bytes[H + 1 - k] = q % 256
      BY <2>1
    <2>5. value[k - 1] = Left(k - 1)
      BY <1>4
    <2>6. value[k] = 256 * value[k - 1] + bytes[H + 1 - k]
      BY <1>2
    <2> HIDE DEF p, bytes, value
    <2>7. h \div (256 * p) = q \div 256 /\ q \in Nat
      <3>1. h \div (256 * p) = q \div 256
        <4>1. 256 \in Nat \ {0} /\ p \in Nat \ {0} /\ h \in Nat
          BY <2>2
        <4>2. ASSUME NEW b \in Nat \ {0} PROVE h \div (b * p) = (h \div p) \div b
          BY <4>1, QuotientOfQuotient
        <4>3. h \div (256 * p) = (h \div p) \div 256
          BY <4>1, <4>2, Zenon
        <4> QED
          BY <4>3
      <3>2. q \in Nat
        BY <2>2, Quotient0, Zenon
      <3> QED
        BY <3>1, <3>2
    <2>8. Left(k) = q
      BY DEF p
    <2> HIDE DEF q, Left
    <2>9. q = 256 * (q \div 256) + (q % 256)
      BY <2>1, <2>7, Remainder
    <2>10. value[k] = q
      BY <2>3, <2>4, <2>5, <2>6, <2>7, <2>9
    <2> QED
      BY <2>8, <2>10
  <1>5. H \in Q
    <2> HIDE DEF Q
    <2>1. 0 .. H \subseteq Q
      BY <1>3, <1>4, UptoInduction
    <2> QED
      BY <2>1
  <1>6. Left(H) = h
    <2>1. 8 * (H - H) = 0
      OBVIOUS
    <2>2. h \div 1 = h
      BY SMT
    <2> QED
      BY <2>1, <2>2, SomePowers
  <1>7. value[H] = h
    <2> HIDE DEF Left
    <2> QED
      BY <1>5, <1>6
  <1> HIDE DEF bytes
  <1> QED
    BY <1>1, <1>7 DEF Value, bytes

\* A node reads every height above 16 as what it is, a positive number in as
\* few bytes as possible, as long as twice the height, which the code shifts
\* for the sign, is an int64 (blockHeightScript).
THEOREM HeightReadableCorrect ==
    ASSUME NEW h \in Nat, h > 16, IsInt64(2 * h)
    PROVE  HeightReadable(h)
  <1>0. 2 * h < TwoTo[IntBits]
    <2>1. 2 * h \in Nat
      OBVIOUS
    <2> QED
      BY <2>1, Int64Is
  <1> DEFINE H == Height(h)
             script == blockHeightScript(h)
             push == SubSeq(script, 2, script[1] + 1)
             bytes == [i \in 1 .. H |-> (h \div TwoTo[8 * (i - 1)]) % 256]
  <1>1. script[1] < Len(script) /\ push = bytes
    BY <1>0, PushIs
  <1>2. H \in Nat \ {0} /\ 2 * h < TwoTo[8 * H] /\ (H = 1 \/ 2 * h >= TwoTo[8 * (H - 1)])
    BY <1>0, HeightIs
  <1> HIDE DEF H, script, push
  <1>3. Len(bytes) = H /\ bytes \in Seq({bytes[i] : i \in 1 .. H})
    <2> DEFINE byte(i) == (h \div TwoTo[8 * (i - 1)]) % 256
    <2>1. bytes = [i \in 1 .. H |-> byte(i)]
      OBVIOUS
    <2> HIDE DEF byte, bytes
    <2> QED
      BY <1>2, <2>1
  \* the highest byte
  <1> DEFINE p == TwoTo[8 * (H - 1)]
             q == h \div p
  <1>4. p \in Nat \ {0} /\ 8 * (H - 1) \in Nat
    BY <1>2, PowersOfTwo
  <1>5. h < 128 * p /\ h < TwoTo[8 * H]
    <2>1. 8 * H - 1 = 7 + 8 * (H - 1) /\ 8 * H \in Nat \ {0} /\ 7 \in Nat
      BY <1>2
    <2>2. TwoTo[8 * H] = 2 * TwoTo[8 * H - 1] /\ TwoTo[8 * H - 1] \in Nat
      BY <2>1, TwoToStep
    <2>3. TwoTo[7 + 8 * (H - 1)] = 128 * p
      <3> DEFINE a == 8 * (H - 1)
      <3>1. a \in Nat
        BY <1>4
      <3> HIDE DEF a
      <3>2. TwoTo[7 + a] = TwoTo[7] * TwoTo[a]
        BY <2>1, <3>1, PowerOfSum
      <3> QED
        BY <3>2, SomePowers DEF a
    <2> HIDE DEF p
    <2> QED
      BY <1>2, <1>4, <2>1, <2>2, <2>3
  <1>6. q \in Nat /\ q < 128
    <2>1. 128 \in Nat
      OBVIOUS
    <2> HIDE DEF p
    <2> QED
      BY <1>4, <1>5, <2>1, Quotient0, QuotientBelow
  <1>7. bytes[H] = q
    <2>1. bytes[H] = q % 256
      BY <1>2
    <2> HIDE DEF q, bytes
    <2>2. q % 256 = q
      BY <1>6, SMT
    <2> QED
      BY <2>1, <2>2
  <1>8. Positive(bytes)
    <2> HIDE DEF bytes, q
    <2>1. bytes # <<>> /\ Last(bytes) = bytes[H]
      BY <1>2, <1>3 DEF Last
    <2> QED
      BY <1>6, <1>7, <2>1 DEF Positive
  <1>9. Value(bytes) = h
    BY <1>2, <1>5, ValueOfBytes
  <1>10. ASSUME H > 1, bytes[H] = 0, bytes[H - 1] < 128 PROVE FALSE
    <2> DEFINE a == 8 * (H - 2)
               r == TwoTo[a]
               s == h \div r
    <2>1. H - 1 \in 1 .. H /\ a \in Nat /\ 8 * (H - 1) = 8 + a /\ 8 * ((H - 1) - 1) = a
          /\ 7 \in Nat /\ 8 \in Nat /\ 8 * (H - 1) \in Nat \ {0} /\ 8 * (H - 1) - 1 = 7 + a
      BY <1>2, <1>10
    <2> HIDE DEF a
    <2>2. r \in Nat \ {0} /\ p = 256 * r
      <3>1. TwoTo[8 + a] = TwoTo[8] * TwoTo[a] /\ TwoTo[a] \in Nat \ {0}
        BY <2>1, PowerOfSum
      <3> QED
        BY <2>1, <3>1, SomePowers
    <2>3. bytes[H - 1] = s % 256
      BY <2>1
    <2> HIDE DEF bytes, p, r
    <2>4. h < 1 * p
      <3>1. 1 \in Nat /\ q < 1
        BY <1>7, <1>10
      <3> QED
        BY <1>4, <3>1, QuotientBelow
    <2>5. s \in Nat /\ s < 256
      <3>1. h < 256 * r /\ 256 \in Nat
        BY <2>2, <2>4
      <3> QED
        BY <2>2, <3>1, Quotient0, QuotientBelow
    <2>6. s < 128
      <3> HIDE DEF s
      <3>1. s % 256 = s
        BY <2>5, SMT
      <3> QED
        BY <1>10, <2>3, <3>1
    <2>7. h < 128 * r
      <3>1. 128 \in Nat
        OBVIOUS
      <3> QED
        BY <2>2, <2>6, <3>1, QuotientBelow
    <2>8. 2 * h < p
      BY <2>2, <2>7
    <2> QED
      BY <1>2, <1>4, <1>10, <2>8 DEF p
  <1> HIDE DEF bytes
  <1>11. Len(push) > 1 => ~(push[Len(push)] = 0 /\ push[Len(push) - 1] < 128)
    BY <1>1, <1>3, <1>10
  <1> QED
    BY <1>1, <1>8, <1>9, <1>11 DEF HeightReadable, script, push

\* Every height before the halving has a founder's address
\* (BuildCoinbaseTxn).
THEOREM FounderExistsCorrect == \A h \in Nat : FounderExists(h)
  <1> SUFFICES ASSUME NEW h \in Nat, NEW i \in 2 .. Len(Outputs(h))
               PROVE  Outputs(h)[i] \in 0 .. FoundersAddresses - 1
    BY DEF FounderExists
  <1>1. h < HalvingHeight /\ i = 2
    <2>1. CASE h < HalvingHeight
      <3>1. Len(Outputs(h)) = 2
        BY <2>1 DEF Outputs
      <3> QED
        BY <2>1, <3>1
    <2>2. CASE ~(h < HalvingHeight)
      <3>1. Len(Outputs(h)) = 1
        BY <2>2 DEF Outputs
      <3> QED
        BY <3>1
    <2> QED
      BY <2>1, <2>2
  <1>2. Outputs(h)[i] = (16 * h) \div Interval16
    BY <1>1 DEF Outputs, FounderIndex
  <1>3. /\ HalvingHeight \in Nat /\ Interval16 \in Nat \ {0} /\ FoundersAddresses \in Nat
        /\ 16 * (HalvingHeight - 1) < Interval16 * FoundersAddresses
    BY FoundersAssumption
  <1>4. 16 * h < FoundersAddresses * Interval16
    <2> DEFINE x == Interval16 * FoundersAddresses
    <2>1. x = FoundersAddresses * Interval16 /\ x \in Nat
      BY <1>3, SMT
    <2> HIDE DEF x
    <2>2. 16 * (HalvingHeight - 1) < x
      BY <1>3 DEF x
    <2>3. 16 * h < x
      BY <1>1, <1>3, <2>1, <2>2
    <2> QED
      BY <2>1, <2>3
  <1>5. 16 * h \in Nat
    OBVIOUS
  <1>6. (16 * h) \div Interval16 \in Nat /\ (16 * h) \div Interval16 < FoundersAddresses
    BY <1>3, <1>4, <1>5, Quotient0, QuotientBelow
  <1> QED
    BY <1>2, <1>3, <1>6

\* Every block of at most 252 transactions has their number as a node reads
\* it (processShare).
THEOREM TxCountReadableCorrect == \A txs \in Nat : TxCountReadable(txs)
  <1> SUFFICES ASSUME NEW txs \in Nat, txs + 1 < 253
               PROVE  TxCount(txs) = <<txs + 1>>
    BY DEF TxCountReadable
  <1> DEFINE n == txs + 1
             m == SerialLength(n)
  <1>1. n \in Nat /\ n < 256
    OBVIOUS
  <1> HIDE DEF n
  <1>2. n < TwoTo[IntBits]
    <2>1. 8 \in Nat /\ IntBits \in Nat /\ 8 <= IntBits
      BY DEF IntBits
    <2>2. TwoTo[8] <= TwoTo[IntBits] /\ TwoTo[IntBits] \in Nat
      BY <2>1, TwoToGrows
    <2> QED
      BY <1>1, <2>2, SomePowers
  <1>3. m \in Nat \ {0} /\ (m = 1 \/ n >= TwoTo[8 * (m - 1)])
    BY <1>1, <1>2, SerialLengthIs
  <1>4. Serial(n) = [i \in 1 .. m |-> (n \div TwoTo[8 * (m - i)]) % 256]
    BY <1>1, <1>2, SerialIs
  <1> HIDE DEF m
  <1>5. m = 1
    <2> SUFFICES ASSUME m # 1 PROVE FALSE
      OBVIOUS
    <2>1. 8 \in Nat /\ 8 * (m - 1) \in Nat /\ 8 <= 8 * (m - 1)
      BY <1>3
    <2>2. TwoTo[8] <= TwoTo[8 * (m - 1)] /\ TwoTo[8 * (m - 1)] \in Nat
      BY <2>1, TwoToGrows
    <2> QED
      BY <1>1, <1>3, <2>2, SomePowers
  <1>6. (n \div TwoTo[8 * (1 - 1)]) % 256 = n
    <2>1. TwoTo[8 * (1 - 1)] = 1
      BY SomePowers
    <2>2. (n \div 1) % 256 = n
      BY <1>1, SMT
    <2> QED
      BY <2>1, <2>2
  <1>7. Serial(n) = [i \in 1 .. 1 |-> n]
    <2>1. \A i \in 1 .. 1 : i = 1
      OBVIOUS
    <2> QED
      BY <1>4, <1>5, <1>6, <2>1
  <1>8. Serial(n) = <<n>>
    BY <1>7
  <1> QED
    BY <1>8 DEF TxCount, n

-----------------------------------------------------------------------------
(***************************************************************************)
(* The Equihash verifier, for any parameters, hashes and indices.          *)
(***************************************************************************)
\* The calls of verifyrec, level by level.
IsReplies(f, n, start, indices) ==
    f = [k \in 0 .. n |-> IF k = 0 THEN start ELSE verifyLevel(indices, k, f[k - 1])]

LEMMA RepliesExist ==
    ASSUME NEW W \in Nat, NEW start, NEW indices
    PROVE  \E f : IsReplies(f, W, start, indices)
  <1> DEFINE Q == {n \in 0 .. W : \E f : IsReplies(f, n, start, indices)}
  <1>1. 0 \in Q
    <2> DEFINE f == [k \in 0 .. 0 |-> start]
    <2>1. IsReplies(f, 0, start, indices)
      BY DEF IsReplies
    <2> HIDE DEF f
    <2> QED
      BY <2>1
  <1>2. ASSUME NEW n \in 1 .. W, n - 1 \in Q PROVE n \in Q
    <2>1. PICK g : IsReplies(g, n - 1, start, indices)
      BY <1>2
    <2> DEFINE f == [k \in 0 .. n |-> IF k = n THEN verifyLevel(indices, n, g[n - 1]) ELSE g[k]]
    <2>2. ASSUME NEW k \in 0 .. n
          PROVE  f[k] = IF k = 0 THEN start ELSE verifyLevel(indices, k, f[k - 1])
      <3>1. k # 0 => f[k - 1] = g[k - 1]
        OBVIOUS
      <3>2. k # n => k \in 0 .. n - 1
        OBVIOUS
      <3> QED
        BY <2>1, <3>1, <3>2 DEF IsReplies
    <2>3. f = [k \in 0 .. n |-> f[k]]
      OBVIOUS
    <2> HIDE DEF f
    <2>4. IsReplies(f, n, start, indices)
      BY <2>2, <2>3 DEF IsReplies
    <2> QED
      BY <2>4
  <1>3. W \in Q
    <2> HIDE DEF Q
    <2>1. 0 .. W \subseteq Q
      BY <1>1, <1>2, UptoInduction
    <2> QED
      BY <2>1
  <1> QED
    BY <1>3

LEMMA RepliesAre ==
    ASSUME NEW genhash, NEW indices, WK \in Nat
    PROVE  /\ Replies(genhash, indices)[0] = [k \in Groups(0) |-> Reply("POW_OK", genhash[indices[k + 1]])]
           /\ \A k \in 1 .. WK : Replies(genhash, indices)[k] = verifyLevel(indices, k, Replies(genhash, indices)[k - 1])
  <1> DEFINE start == [k \in Groups(0) |-> Reply("POW_OK", genhash[indices[k + 1]])]
             it == CHOOSE f : IsReplies(f, WK, start, indices)
  <1>1. \E f : IsReplies(f, WK, start, indices)
    <2> HIDE DEF start
    <2> QED
      BY RepliesExist
  <1>2. IsReplies(it, WK, start, indices)
    <2> HIDE DEF start
    <2> QED
      BY <1>1
  <1>3. Replies(genhash, indices) = it
    BY DEF Replies, IsReplies
  <1> HIDE DEF it
  <1>4. \A k \in 0 .. WK : it[k] = IF k = 0 THEN start ELSE verifyLevel(indices, k, it[k - 1])
    BY <1>2 DEF IsReplies
  <1> QED
    BY <1>3, <1>4

\* The reader, bit by bit.
IsReading(f, n, start, bytes) ==
    f = [k \in 0 .. n |-> IF k = 0 THEN start ELSE ReadBit(f[k - 1], bytes)]

LEMMA ReadingExist ==
    ASSUME NEW W \in Nat, NEW start, NEW bytes
    PROVE  \E f : IsReading(f, W, start, bytes)
  <1> DEFINE Q == {n \in 0 .. W : \E f : IsReading(f, n, start, bytes)}
  <1>1. 0 \in Q
    <2> DEFINE f == [k \in 0 .. 0 |-> start]
    <2>1. IsReading(f, 0, start, bytes)
      BY DEF IsReading
    <2> HIDE DEF f
    <2> QED
      BY <2>1
  <1>2. ASSUME NEW n \in 1 .. W, n - 1 \in Q PROVE n \in Q
    <2>1. PICK g : IsReading(g, n - 1, start, bytes)
      BY <1>2
    <2> DEFINE f == [k \in 0 .. n |-> IF k = n THEN ReadBit(g[n - 1], bytes) ELSE g[k]]
    <2>2. ASSUME NEW k \in 0 .. n
          PROVE  f[k] = IF k = 0 THEN start ELSE ReadBit(f[k - 1], bytes)
      <3>1. k # 0 => f[k - 1] = g[k - 1]
        OBVIOUS
      <3>2. k # n => k \in 0 .. n - 1
        OBVIOUS
      <3> QED
        BY <2>1, <3>1, <3>2 DEF IsReading
    <2>3. f = [k \in 0 .. n |-> f[k]]
      OBVIOUS
    <2> HIDE DEF f
    <2>4. IsReading(f, n, start, bytes)
      BY <2>2, <2>3 DEF IsReading
    <2> QED
      BY <2>4
  <1>3. W \in Q
    <2> HIDE DEF Q
    <2>1. 0 .. W \subseteq Q
      BY <1>1, <1>2, UptoInduction
    <2> QED
      BY <2>1
  <1> QED
    BY <1>3

LEMMA ReadingAre ==
    ASSUME NEW bytes, NEW bits \in Nat
    PROVE  /\ Reading(bytes, bits)[0] = NewReader
           /\ \A k \in 1 .. bits : Reading(bytes, bits)[k] = ReadBit(Reading(bytes, bits)[k - 1], bytes)
  <1> DEFINE start == NewReader
             it == CHOOSE f : IsReading(f, bits, start, bytes)
  <1>1. \E f : IsReading(f, bits, start, bytes)
    <2> HIDE DEF start
    <2> QED
      BY ReadingExist
  <1>2. IsReading(it, bits, start, bytes)
    <2> HIDE DEF start
    <2> QED
      BY <1>1
  <1>3. Reading(bytes, bits) = it
    BY DEF Reading, IsReading
  <1> HIDE DEF it
  <1>4. \A k \in 0 .. bits : it[k] = IF k = 0 THEN start ELSE ReadBit(it[k - 1], bytes)
    BY <1>2 DEF IsReading
  <1> QED
    BY <1>3, <1>4

\* The index, bit by bit.
IsResults(f, n, start, reader, from) ==
    f = [k \in 0 .. n |-> IF k = 0 THEN start ELSE f[k - 1] + Weighted(reader, from, k)]

LEMMA ResultsExist ==
    ASSUME NEW W \in Nat, NEW start, NEW reader, NEW from
    PROVE  \E f : IsResults(f, W, start, reader, from)
  <1> DEFINE Q == {n \in 0 .. W : \E f : IsResults(f, n, start, reader, from)}
  <1>1. 0 \in Q
    <2> DEFINE f == [k \in 0 .. 0 |-> start]
    <2>1. IsResults(f, 0, start, reader, from)
      BY DEF IsResults
    <2> HIDE DEF f
    <2> QED
      BY <2>1
  <1>2. ASSUME NEW n \in 1 .. W, n - 1 \in Q PROVE n \in Q
    <2>1. PICK g : IsResults(g, n - 1, start, reader, from)
      BY <1>2
    <2> DEFINE f == [k \in 0 .. n |-> IF k = n THEN g[n - 1] + Weighted(reader, from, n) ELSE g[k]]
    <2>2. ASSUME NEW k \in 0 .. n
          PROVE  f[k] = IF k = 0 THEN start ELSE f[k - 1] + Weighted(reader, from, k)
      <3>1. k # 0 => f[k - 1] = g[k - 1]
        OBVIOUS
      <3>2. k # n => k \in 0 .. n - 1
        OBVIOUS
      <3> QED
        BY <2>1, <3>1, <3>2 DEF IsResults
    <2>3. f = [k \in 0 .. n |-> f[k]]
      OBVIOUS
    <2> HIDE DEF f
    <2>4. IsResults(f, n, start, reader, from)
      BY <2>2, <2>3 DEF IsResults
    <2> QED
      BY <2>4
  <1>3. W \in Q
    <2> HIDE DEF Q
    <2>1. 0 .. W \subseteq Q
      BY <1>1, <1>2, UptoInduction
    <2> QED
      BY <2>1
  <1> QED
    BY <1>3

LEMMA ResultsAre ==
    ASSUME NEW reader, NEW from, IndexBits \in Nat
    PROVE  /\ Results(reader, from)[0] = 0
           /\ \A k \in 1 .. IndexBits : Results(reader, from)[k] = Results(reader, from)[k - 1] + Weighted(reader, from, k)
  <1> DEFINE start == 0
             it == CHOOSE f : IsResults(f, IndexBits, start, reader, from)
  <1>1. \E f : IsResults(f, IndexBits, start, reader, from)
    <2> HIDE DEF start
    <2> QED
      BY ResultsExist
  <1>2. IsResults(it, IndexBits, start, reader, from)
    <2> HIDE DEF start
    <2> QED
      BY <1>1
  <1>3. Results(reader, from) = it
    BY DEF Results, IsResults
  <1> HIDE DEF it
  <1>4. \A k \in 0 .. IndexBits : it[k] = IF k = 0 THEN start ELSE it[k - 1] + Weighted(reader, from, k)
    BY <1>2 DEF IsResults
  <1> QED
    BY <1>3, <1>4

\* The groups of a level are the halves of those above.
LEMMA HalvesAreGroups ==
    ASSUME NEW r \in 1 .. WK, NEW k \in Groups(r)
    PROVE  /\ r - 1 \in 0 .. WK
           /\ 2 * k \in Groups(r - 1) /\ 2 * k + 1 \in Groups(r - 1)
           /\ First(r, k) \in Nat /\ First(r - 1, 2 * k + 1) \in Nat
           /\ First(r - 1, 2 * k) = First(r, k)
           /\ First(r - 1, 2 * k + 2) = First(r, k + 1)
           /\ First(r, k) <= First(r - 1, 2 * k + 1)
           /\ First(r - 1, 2 * k + 1) <= First(r, k + 1)
  <1>1. WK \in Nat \ {0} /\ r \in Nat \ {0} /\ r - 1 \in 0 .. WK
    BY EquihashAssumption
  <1> DEFINE p == TwoTo[r - 1]
             g == TwoTo[WK - r]
  <1>2. TwoTo[r] = 2 * p /\ p \in Nat \ {0}
    BY <1>1, TwoToStep
  <1>3. TwoTo[WK - (r - 1)] = 2 * g /\ g \in Nat \ {0}
    <2>1. WK - r \in Nat /\ (WK - r) + 1 = WK - (r - 1)
      BY <1>1
    <2> QED
      BY <2>1, PowersOfTwo
  <1>4. k \in 0 .. g - 1
    BY DEF Groups
  <1> HIDE DEF p, g
  <1>5. 2 * k \in 0 .. 2 * g - 1 /\ 2 * k + 1 \in 0 .. 2 * g - 1
    BY <1>3, <1>4
  <1>6. k \in Nat /\ 2 * k + 1 \in Nat /\ 2 * k + 2 = 2 * (k + 1)
    BY <1>4
  <1>7. /\ k * (2 * p) = (2 * k) * p /\ (k + 1) * (2 * p) = (2 * (k + 1)) * p
        /\ (2 * k + 1) * p = (2 * k) * p + p
        /\ (2 * (k + 1)) * p = (2 * k) * p + p + p
        /\ (2 * k) * p \in Nat
    BY <1>2, <1>6, SMT
  <1>8. First(r, k) = (2 * k) * p + 1 /\ First(r, k + 1) = (2 * k) * p + p + p + 1
    BY <1>2, <1>7 DEF First
  <1>9. /\ First(r - 1, 2 * k) = (2 * k) * p + 1
        /\ First(r - 1, 2 * k + 1) = (2 * k) * p + p + 1
        /\ First(r - 1, 2 * k + 2) = (2 * k) * p + p + p + 1
    BY <1>6, <1>7 DEF First, p
  <1>10. 2 * k \in Groups(r - 1) /\ 2 * k + 1 \in Groups(r - 1)
    BY <1>3, <1>5 DEF Groups
  <1> HIDE DEF First
  <1> QED
    BY <1>1, <1>2, <1>7, <1>8, <1>9, <1>10

\* The replies of a level are made from those of the level below.
LEMMA RepliesOfLevel ==
    ASSUME NEW genhash, NEW indices
    PROVE  /\ \A k \in Groups(0) :
                 Replies(genhash, indices)[0][k] = Reply("POW_OK", genhash[indices[k + 1]])
           /\ \A r \in 1 .. WK : \A k \in Groups(r) :
                 Replies(genhash, indices)[r][k] =
                     verifyrec(indices, r, k, Replies(genhash, indices)[r - 1])
  <1> DEFINE vrf == Replies(genhash, indices)
  <1>1. /\ vrf[0] = [k \in Groups(0) |-> Reply("POW_OK", genhash[indices[k + 1]])]
        /\ \A r \in 1 .. WK : vrf[r] = verifyLevel(indices, r, vrf[r - 1])
    BY EquihashAssumption, RepliesAre
  <1> HIDE DEF vrf
  <1>2. ASSUME NEW r \in 1 .. WK, NEW k \in Groups(r)
        PROVE  vrf[r][k] = verifyrec(indices, r, k, vrf[r - 1])
    BY <1>1 DEF verifyLevel
  <1> QED
    BY <1>1, <1>2 DEF vrf

\* When a group is accepted, and the hash it is accepted with.
Ordered(indices, r, k) == indices[First(r, k)] < indices[First(r - 1, 2 * k + 1)]
LEMMA GroupAccepted ==
    ASSUME NEW indices, NEW r \in 1 .. WK, NEW k \in Groups(r), NEW below,
           indices[First(r, k)] \in Int, indices[First(r - 1, 2 * k + 1)] \in Int
    PROVE  /\ verifyrec(indices, r, k, below).code = "POW_OK" <=>
                 /\ Ordered(indices, r, k)
                 /\ below[2 * k].code = "POW_OK" /\ below[2 * k + 1].code = "POW_OK"
                 /\ LeadingZero(Xor(below[2 * k].hash, below[2 * k + 1].hash), r)
           /\ verifyrec(indices, r, k, below).code = "POW_OK" =>
                 verifyrec(indices, r, k, below).hash =
                     Xor(below[2 * k].hash, below[2 * k + 1].hash)
  <1> DEFINE vrf0 == below[2 * k]
             vrf1 == below[2 * k + 1]
             hash == Xor(vrf0.hash, vrf1.hash)
             zero == LeadingZero(hash, r)
             outOfOrder == indices[First(r, k)] >= indices[First(r - 1, 2 * k + 1)]
             reply == verifyrec(indices, r, k, below)
  <1>1. reply = CASE outOfOrder -> Reply("POW_OUT_OF_ORDER", {})
                  [] ~outOfOrder /\ vrf0.code # "POW_OK" -> vrf0
                  [] ~outOfOrder /\ vrf0.code = "POW_OK" /\ vrf1.code # "POW_OK" -> vrf1
                  [] OTHER -> Reply(IF zero THEN "POW_OK" ELSE "POW_NONZERO_XOR", hash)
    BY DEF verifyrec
  <1>2. outOfOrder <=> ~ Ordered(indices, r, k)
    BY DEF Ordered
  <1>3. \A c, h : Reply(c, h).code = c /\ Reply(c, h).hash = h
    BY DEF Reply
  <1> HIDE DEF outOfOrder, vrf0, vrf1, hash, zero, reply
  <1>4. CASE outOfOrder
    <2>1. reply = Reply("POW_OUT_OF_ORDER", {})
      BY <1>1, <1>4
    <2> QED
      BY <1>2, <1>3, <1>4, <2>1 DEF reply
  <1>5. CASE ~outOfOrder /\ vrf0.code # "POW_OK"
    <2>1. reply = vrf0
      BY <1>1, <1>5
    <2> QED
      BY <1>5, <2>1 DEF reply, vrf0
  <1>6. CASE ~outOfOrder /\ vrf0.code = "POW_OK" /\ vrf1.code # "POW_OK"
    <2>1. reply = vrf1
      BY <1>1, <1>6
    <2> QED
      BY <1>6, <2>1 DEF reply, vrf1
  <1>7. CASE ~outOfOrder /\ vrf0.code = "POW_OK" /\ vrf1.code = "POW_OK"
    <2>1. reply = Reply(IF zero THEN "POW_OK" ELSE "POW_NONZERO_XOR", hash)
      BY <1>1, <1>7
    <2>2. (reply.code = "POW_OK" <=> zero) /\ reply.hash = hash
      BY <1>3, <2>1
    <2> QED
      BY <1>2, <1>7, <2>2 DEF reply, vrf0, vrf1, hash, zero
  <1> QED
    BY <1>4, <1>5, <1>6, <1>7

\* Every group lies within the solution.
LEMMA MembersWithin ==
    ASSUME NEW r \in 0 .. WK, NEW k \in Groups(r)
    PROVE  /\ First(r, k) \in 1 .. PROOFSIZE
           /\ First(r, k) \in Nat /\ First(r, k + 1) \in Nat
           /\ Members(r, k) \subseteq 1 .. PROOFSIZE
  <1> DEFINE p == TwoTo[r]
             g == TwoTo[WK - r]
  <1>1. WK \in Nat /\ r \in Nat /\ WK - r \in Nat
    BY EquihashAssumption
  <1>2. p \in Nat \ {0} /\ g \in Nat \ {0}
    BY <1>1, PowersOfTwo
  <1>3. g * p = PROOFSIZE
    BY <1>1, SplitPower DEF PROOFSIZE
  <1>4. k \in 0 .. g - 1
    BY DEF Groups
  <1>5. First(r, k) = k * p + 1 /\ First(r, k + 1) = (k + 1) * p + 1
    BY DEF First
  <1> HIDE DEF p, g
  <1>6. k * p \in Nat /\ (k + 1) * p = k * p + p /\ (k + 1) * p <= g * p
    BY <1>2, <1>4, SMT
  <1>7. First(r, k) \in Nat \ {0} /\ First(r, k + 1) \in Nat
        /\ First(r, k) <= PROOFSIZE /\ First(r, k + 1) - 1 <= PROOFSIZE /\ PROOFSIZE \in Nat
    BY <1>2, <1>3, <1>5, <1>6
  <1> QED
    BY <1>7 DEF Members

LEMMA Parity ==
    ASSUME NEW A, NEW B, IsFiniteSet(A), IsFiniteSet(B), A \cap B = {}
    PROVE  Cardinality(A \cup B) % 2 = 1 <=>
               ~ (Cardinality(A) % 2 = 1 <=> Cardinality(B) % 2 = 1)
  <1> DEFINE a == Cardinality(A)
             b == Cardinality(B)
  <1>1. a \in Nat /\ b \in Nat
    BY FS_CardinalityType
  <1>2. Cardinality(A \cup B) = a + b - Cardinality(A \cap B)
    BY FS_Union
  <1>3. Cardinality(A \cap B) = 0
    BY FS_EmptySet
  <1> HIDE DEF a, b
  <1>4. Cardinality(A \cup B) = a + b
    BY <1>1, <1>2, <1>3
  <1>5. (a + b) % 2 = 1 <=> ~ (a % 2 = 1 <=> b % 2 = 1)
    BY <1>1, SMT
  <1> QED
    BY <1>4, <1>5 DEF a, b

\* The hashes of a group's members cancel out to the difference of its halves.
LEMMA XorOfHalves ==
    ASSUME NEW genhash, NEW indices, NEW r \in 1 .. WK, NEW k \in Groups(r)
    PROVE  GroupXor(genhash, indices, r, k) =
               Xor(GroupXor(genhash, indices, r - 1, 2 * k),
                   GroupXor(genhash, indices, r - 1, 2 * k + 1))
  <1> DEFINE Having(M, p) == {i \in M : p \in genhash[indices[i]]}
             M0 == Members(r - 1, 2 * k)
             M1 == Members(r - 1, 2 * k + 1)
  <1>1. /\ r - 1 \in 0 .. WK /\ 2 * k \in Groups(r - 1) /\ 2 * k + 1 \in Groups(r - 1)
        /\ First(r - 1, 2 * k) = First(r, k)
        /\ First(r - 1, 2 * k + 2) = First(r, k + 1)
        /\ First(r, k) <= First(r - 1, 2 * k + 1)
        /\ First(r - 1, 2 * k + 1) <= First(r, k + 1)
    BY HalvesAreGroups
  <1>2. /\ First(r, k) \in Nat /\ First(r - 1, 2 * k + 1) \in Nat /\ First(r, k + 1) \in Nat
    <2>1. r \in 0 .. WK
      OBVIOUS
    <2> QED
      BY <1>1, <2>1, MembersWithin
  <1>3. k \in Int
    BY DEF Groups
  <1>4. /\ M0 = First(r, k) .. First(r - 1, 2 * k + 1) - 1
        /\ M1 = First(r - 1, 2 * k + 1) .. First(r, k + 1) - 1
    <2>1. (2 * k + 1) + 1 = 2 * k + 2
      BY <1>3
    <2> QED
      BY <1>1, <2>1 DEF Members
  <1>5. Members(r, k) = M0 \cup M1 /\ M0 \cap M1 = {}
    <2> HIDE DEF M0, M1
    <2> QED
      BY <1>1, <1>2, <1>4 DEF Members
  <1>6. IsFiniteSet(M0) /\ IsFiniteSet(M1)
    <2>1. \A a, b \in Int : IsFiniteSet(a .. b)
      BY FS_Interval
    <2> HIDE DEF M0, M1
    <2> QED
      BY <1>2, <1>4, <2>1
  <1> HIDE DEF M0, M1
  <1>7. ASSUME NEW p \in 0 .. WN - 1
        PROVE  p \in GroupXor(genhash, indices, r, k) <=>
                   ~ (p \in GroupXor(genhash, indices, r - 1, 2 * k) <=>
                      p \in GroupXor(genhash, indices, r - 1, 2 * k + 1))
    <2>1. /\ Having(Members(r, k), p) = Having(M0, p) \cup Having(M1, p)
          /\ Having(M0, p) \cap Having(M1, p) = {}
      BY <1>5
    <2>2. IsFiniteSet(Having(M0, p)) /\ IsFiniteSet(Having(M1, p))
      BY <1>6, FS_Subset
    <2>3. /\ p \in GroupXor(genhash, indices, r, k) <=>
                 Cardinality(Having(Members(r, k), p)) % 2 = 1
          /\ p \in GroupXor(genhash, indices, r - 1, 2 * k) <=>
                 Cardinality(Having(M0, p)) % 2 = 1
          /\ p \in GroupXor(genhash, indices, r - 1, 2 * k + 1) <=>
                 Cardinality(Having(M1, p)) % 2 = 1
      BY DEF GroupXor, M0, M1
    <2> HIDE DEF Having
    <2>4. Cardinality(Having(Members(r, k), p)) % 2 = 1 <=>
              ~ (Cardinality(Having(M0, p)) % 2 = 1 <=> Cardinality(Having(M1, p)) % 2 = 1)
      BY <2>1, <2>2, Parity
    <2> QED
      BY <2>3, <2>4
  <1>8. \A s \in 0 .. WK, j \in Int : GroupXor(genhash, indices, s, j) \subseteq 0 .. WN - 1
    BY DEF GroupXor
  <1>9. /\ GroupXor(genhash, indices, r, k) \subseteq 0 .. WN - 1
        /\ GroupXor(genhash, indices, r - 1, 2 * k) \subseteq 0 .. WN - 1
        /\ GroupXor(genhash, indices, r - 1, 2 * k + 1) \subseteq 0 .. WN - 1
    BY DEF GroupXor
  <1> QED
    BY <1>7, <1>9 DEF Xor

LEMMA XorOfOne ==
    ASSUME NEW genhash, NEW indices, NEW k \in Groups(0),
           genhash[indices[k + 1]] \subseteq 0 .. WN - 1
    PROVE  GroupXor(genhash, indices, 0, k) = genhash[indices[k + 1]]
  <1>1. k \in Nat
    BY DEF Groups
  <1>2. Members(0, k) = {k + 1}
    <2>1. First(0, k) = k + 1 /\ First(0, k + 1) = k + 2
      BY <1>1, PowersOfTwo DEF First
    <2> QED
      BY <1>1, <2>1 DEF Members
  <1>3. ASSUME NEW p \in 0 .. WN - 1
        PROVE  Cardinality({i \in {k + 1} : p \in genhash[indices[i]]}) % 2 = 1
                   <=> p \in genhash[indices[k + 1]]
    <2>1. CASE p \in genhash[indices[k + 1]]
      <3>1. {i \in {k + 1} : p \in genhash[indices[i]]} = {k + 1}
        BY <2>1
      <3>2. Cardinality({k + 1}) = 1
        BY FS_Singleton
      <3>3. 1 % 2 = 1
        BY SMT
      <3>4. Cardinality({i \in {k + 1} : p \in genhash[indices[i]]}) % 2 = 1
        BY <3>1, <3>2, <3>3, Zenon
      <3> QED
        BY <2>1, <3>4
    <2>2. CASE p \notin genhash[indices[k + 1]]
      <3>1. {i \in {k + 1} : p \in genhash[indices[i]]} = {}
        BY <2>2
      <3>2. Cardinality({}) = 0
        BY FS_EmptySet
      <3>3. 0 % 2 = 0
        BY SMT
      <3>4. Cardinality({i \in {k + 1} : p \in genhash[indices[i]]}) % 2 = 0
        BY <3>1, <3>2, <3>3, Zenon
      <3> QED
        BY <2>2, <3>4
    <2> QED
      BY <2>1, <2>2
  <1>4. GroupXor(genhash, indices, 0, k) = {p \in 0 .. WN - 1 :
            Cardinality({i \in {k + 1} : p \in genhash[indices[i]]}) % 2 = 1}
    BY <1>2 DEF GroupXor
  <1> QED
    BY <1>3, <1>4

\* The first indices of a group and of its right half are numbers.
LEMMA IndicesOfGroup ==
    ASSUME NEW genhash, NEW indices, NEW I, IsProof(genhash, indices, I),
           NEW r \in 1 .. WK, NEW k \in Groups(r)
    PROVE  indices[First(r, k)] \in Int /\ indices[First(r - 1, 2 * k + 1)] \in Int
  <1>1. r \in 0 .. WK /\ r - 1 \in 0 .. WK /\ 2 * k + 1 \in Groups(r - 1)
    BY HalvesAreGroups
  <1>2. First(r, k) \in 1 .. PROOFSIZE /\ First(r - 1, 2 * k + 1) \in 1 .. PROOFSIZE
    BY <1>1, MembersWithin
  <1> QED
    BY <1>2 DEF IsProof

\* What the code accepts a group with is what the hashes of its members cancel
\* out to.
LEMMA HashOfGroup ==
    ASSUME NEW genhash, NEW indices, NEW I, IsProof(genhash, indices, I),
           NEW r \in 0 .. WK, NEW k \in Groups(r),
           Replies(genhash, indices)[r][k].code = "POW_OK"
    PROVE  Replies(genhash, indices)[r][k].hash = GroupXor(genhash, indices, r, k)
  <1> DEFINE vrf == Replies(genhash, indices)
             Q == {s \in 0 .. WK : \A j \in Groups(s) :
                      vrf[s][j].code = "POW_OK" => vrf[s][j].hash = GroupXor(genhash, indices, s, j)}
  <1>1. WK \in Nat
    BY EquihashAssumption
  <1>2. /\ \A j \in Groups(0) : vrf[0][j] = Reply("POW_OK", genhash[indices[j + 1]])
        /\ \A s \in 1 .. WK : \A j \in Groups(s) : vrf[s][j] = verifyrec(indices, s, j, vrf[s - 1])
    BY RepliesOfLevel
  <1> HIDE DEF vrf
  <1>3. 0 \in Q
    <2> SUFFICES ASSUME NEW j \in Groups(0) PROVE vrf[0][j].hash = GroupXor(genhash, indices, 0, j)
      BY <1>1
    <2>1. j + 1 \in 1 .. PROOFSIZE
      <3>1. WK - 0 = WK /\ TwoTo[WK] \in Nat
        BY <1>1, PowersOfTwo
      <3> QED
        BY <3>1 DEF Groups, PROOFSIZE
    <2>2. genhash[indices[j + 1]] \subseteq 0 .. WN - 1
      BY <2>1 DEF IsProof
    <2>3. vrf[0][j].hash = genhash[indices[j + 1]]
      <3>1. \A c, h : Reply(c, h).hash = h
        BY DEF Reply
      <3> QED
        BY <1>2, <3>1
    <2> QED
      BY <2>2, <2>3, XorOfOne
  <1>4. ASSUME NEW s \in 1 .. WK, s - 1 \in Q PROVE s \in Q
    <2> SUFFICES ASSUME NEW j \in Groups(s), vrf[s][j].code = "POW_OK"
                 PROVE  vrf[s][j].hash = GroupXor(genhash, indices, s, j)
      OBVIOUS
    <2>1. 2 * j \in Groups(s - 1) /\ 2 * j + 1 \in Groups(s - 1)
      BY HalvesAreGroups
    <2>2. /\ vrf[s - 1][2 * j].code = "POW_OK" /\ vrf[s - 1][2 * j + 1].code = "POW_OK"
          /\ vrf[s][j].hash = Xor(vrf[s - 1][2 * j].hash, vrf[s - 1][2 * j + 1].hash)
      <3>1. indices[First(s, j)] \in Int /\ indices[First(s - 1, 2 * j + 1)] \in Int
        BY IndicesOfGroup
      <3>2. vrf[s][j] = verifyrec(indices, s, j, vrf[s - 1])
        BY <1>2
      <3> QED
        BY <3>1, <3>2, GroupAccepted
    <2>3. /\ vrf[s - 1][2 * j].hash = GroupXor(genhash, indices, s - 1, 2 * j)
          /\ vrf[s - 1][2 * j + 1].hash = GroupXor(genhash, indices, s - 1, 2 * j + 1)
      BY <1>4, <2>1, <2>2
    <2> QED
      BY <2>2, <2>3, XorOfHalves
  <1> HIDE DEF Q
  <1>5. 0 .. WK \subseteq Q
    BY <1>1, <1>3, <1>4, UptoInduction
  <1>6. r \in Q
    BY <1>5
  <1> QED
    BY <1>6 DEF Q, vrf

\* A group is accepted if and only if its halves are, in order, and the hashes
\* of its members cancel out on the level's whole bytes.
LEMMA GroupAcceptedIff ==
    ASSUME NEW genhash, NEW indices, NEW I, IsProof(genhash, indices, I),
           NEW r \in 1 .. WK, NEW k \in Groups(r)
    PROVE  Replies(genhash, indices)[r][k].code = "POW_OK" <=>
               /\ Ordered(indices, r, k)
               /\ Replies(genhash, indices)[r - 1][2 * k].code = "POW_OK"
               /\ Replies(genhash, indices)[r - 1][2 * k + 1].code = "POW_OK"
               /\ \A p \in GroupXor(genhash, indices, r, k) : p >= WholeBytes[r]
  <1> DEFINE vrf == Replies(genhash, indices)
             below == vrf[r - 1]
  <1>1. vrf[r][k] = verifyrec(indices, r, k, below)
    BY RepliesOfLevel
  <1>2. r - 1 \in 0 .. WK /\ 2 * k \in Groups(r - 1) /\ 2 * k + 1 \in Groups(r - 1)
    BY HalvesAreGroups
  <1>3. indices[First(r, k)] \in Int /\ indices[First(r - 1, 2 * k + 1)] \in Int
    BY IndicesOfGroup
  <1>4. (below[2 * k].code = "POW_OK" /\ below[2 * k + 1].code = "POW_OK") =>
            /\ below[2 * k].hash = GroupXor(genhash, indices, r - 1, 2 * k)
            /\ below[2 * k + 1].hash = GroupXor(genhash, indices, r - 1, 2 * k + 1)
    BY <1>2, HashOfGroup
  <1> HIDE DEF vrf, below
  <1>5. vrf[r][k].code = "POW_OK" <=>
            /\ Ordered(indices, r, k)
            /\ below[2 * k].code = "POW_OK" /\ below[2 * k + 1].code = "POW_OK"
            /\ LeadingZero(Xor(below[2 * k].hash, below[2 * k + 1].hash), r)
    BY <1>1, <1>3, GroupAccepted
  <1>6. (below[2 * k].code = "POW_OK" /\ below[2 * k + 1].code = "POW_OK") =>
            Xor(below[2 * k].hash, below[2 * k + 1].hash) = GroupXor(genhash, indices, r, k)
    BY <1>4, XorOfHalves
  <1>7. \A hash : LeadingZero(hash, r) <=> \A p \in hash : p >= WholeBytes[r]
    BY DEF LeadingZero, WholeBytes
  <1> QED
    BY <1>5, <1>6, <1>7 DEF vrf, below

\* The code accepts the whole list if and only if every group is in order and
\* cancels out on whole bytes.
LEMMA AllGroups ==
    ASSUME NEW genhash, NEW indices, NEW I, IsProof(genhash, indices, I)
    PROVE  Replies(genhash, indices)[WK][0].code = "POW_OK" <=>
               \A r \in 1 .. WK : \A k \in Groups(r) :
                   /\ Ordered(indices, r, k)
                   /\ \A p \in GroupXor(genhash, indices, r, k) : p >= WholeBytes[r]
  <1> DEFINE vrf == Replies(genhash, indices)
             Good(r, k) == /\ Ordered(indices, r, k)
                           /\ \A p \in GroupXor(genhash, indices, r, k) : p >= WholeBytes[r]
  <1>1. WK \in Nat \ {0}
    BY EquihashAssumption
  <1>2. ASSUME NEW r \in 1 .. WK, NEW k \in Groups(r)
        PROVE  vrf[r][k].code = "POW_OK" <=>
                   /\ Good(r, k)
                   /\ vrf[r - 1][2 * k].code = "POW_OK" /\ vrf[r - 1][2 * k + 1].code = "POW_OK"
    BY GroupAcceptedIff
  <1>3. \A k \in Groups(0) : vrf[0][k].code = "POW_OK"
    <2>1. \A c, h : Reply(c, h).code = c
      BY DEF Reply
    <2>2. \A k \in Groups(0) : vrf[0][k] = Reply("POW_OK", genhash[indices[k + 1]])
      BY RepliesOfLevel
    <2> HIDE DEF vrf
    <2> QED
      BY <2>1, <2>2
  <1>4. \A r \in 1 .. WK : \A k \in Groups(r) :
            2 * k \in Groups(r - 1) /\ 2 * k + 1 \in Groups(r - 1)
    BY HalvesAreGroups
  <1>5. Groups(WK) = {0}
    <2>1. WK - WK = 0 /\ TwoTo[0] = 1
      BY <1>1, PowersOfTwo
    <2> QED
      BY <2>1 DEF Groups
  \* every group is a half of one of the level above
  <1>6. ASSUME NEW r \in 1 .. WK, NEW j \in Groups(r - 1)
        PROVE  \E k \in Groups(r) : j = 2 * k \/ j = 2 * k + 1
    <2> DEFINE g == TwoTo[WK - r]
    <2>1. WK - r \in Nat /\ (WK - r) + 1 = WK - (r - 1)
      BY <1>1
    <2>2. TwoTo[WK - (r - 1)] = 2 * g /\ g \in Nat \ {0}
      BY <2>1, PowersOfTwo
    <2>3. j \in 0 .. 2 * g - 1
      BY <2>2 DEF Groups
    <2> HIDE DEF g
    <2>4. j \div 2 \in 0 .. g - 1 /\ (j = 2 * (j \div 2) \/ j = 2 * (j \div 2) + 1)
      BY <2>2, <2>3, SMT
    <2>5. j \div 2 \in Groups(r)
      BY <2>4 DEF Groups, g
    <2> QED
      BY <2>4, <2>5
  <1> HIDE DEF vrf, Good
  <1>7. ASSUME vrf[WK][0].code = "POW_OK"
        PROVE  \A r \in 1 .. WK : \A k \in Groups(r) : Good(r, k)
    <2> DEFINE Q == {i \in 0 .. WK : \A k \in Groups(WK - i) : vrf[WK - i][k].code = "POW_OK"}
    <2>1. 0 \in Q
      <3>1. WK - 0 = WK
        BY <1>1
      <3> QED
        BY <1>1, <1>5, <1>7, <3>1
    <2>2. ASSUME NEW i \in 1 .. WK, i - 1 \in Q PROVE i \in Q
      <3> DEFINE r == WK - (i - 1)
      <3>1. r \in 1 .. WK /\ WK - i = r - 1
        BY <1>1
      <3>2. \A k \in Groups(r) : vrf[r][k].code = "POW_OK"
        BY <2>2
      <3> HIDE DEF r
      <3>3. ASSUME NEW j \in Groups(r - 1) PROVE vrf[r - 1][j].code = "POW_OK"
        BY <1>2, <1>6, <3>1, <3>2
      <3> QED
        BY <3>1, <3>3
    <2> HIDE DEF Q
    <2>3. 0 .. WK \subseteq Q
      BY <1>1, <2>1, <2>2, UptoInduction
    <2>4. ASSUME NEW r \in 1 .. WK, NEW k \in Groups(r) PROVE Good(r, k)
      <3>1. WK - r \in 0 .. WK /\ WK - (WK - r) = r
        BY <1>1
      <3>2. WK - r \in Q
        BY <2>3, <3>1
      <3>3. vrf[r][k].code = "POW_OK"
        BY <3>1, <3>2 DEF Q
      <3> QED
        BY <1>2, <3>3
    <2> QED
      BY <2>4
  <1>8. ASSUME \A r \in 1 .. WK : \A k \in Groups(r) : Good(r, k)
        PROVE  vrf[WK][0].code = "POW_OK"
    <2> DEFINE Q == {r \in 0 .. WK : \A k \in Groups(r) : vrf[r][k].code = "POW_OK"}
    <2>1. 0 \in Q
      BY <1>1, <1>3
    <2>2. ASSUME NEW r \in 1 .. WK, r - 1 \in Q PROVE r \in Q
      BY <1>2, <1>4, <1>8, <2>2
    <2> HIDE DEF Q
    <2>3. 0 .. WK \subseteq Q
      BY <1>1, <2>1, <2>2, UptoInduction
    <2>4. WK \in Q /\ 0 \in Groups(WK)
      BY <1>1, <1>5, <2>3
    <2> QED
      BY <2>4 DEF Q
  <1> QED
    BY <1>7, <1>8 DEF vrf, Good

\* The loop over the sorted indices finds every index that is there twice.
LEMMA DistinctAreNotDuped ==
    ASSUME NEW P \in Nat, NEW I, NEW indices \in [1 .. P -> I]
    PROVE  Cardinality({indices[i] : i \in 1 .. P}) = P <=> ~duped(indices)
  <1> DEFINE S == 1 .. P
             T == {indices[i] : i \in S}
  <1>1. IsFiniteSet(S) /\ Cardinality(S) = P
    BY FS_Interval
  <1>2. Len(indices) = P
    BY SMT
  <1>3. indices \in Surjection(S, T)
    BY DEF Surjection
  <1>4. Cardinality(T) = Cardinality(S) <=> indices \in Injection(S, T)
    BY <1>1, <1>3, FS_Surjection
  <1>5. indices \in Injection(S, T) <=> \A i, j \in S : indices[i] = indices[j] => i = j
    BY DEF Injection, IsInjective
  <1>6. duped(indices) <=> \E i, j \in S : i # j /\ indices[i] = indices[j]
    BY <1>2 DEF duped
  <1> QED
    BY <1>1, <1>4, <1>5, <1>6

\* The bits a solution cancels out on are at least the whole bytes.
LEMMA BitsOfLevel ==
    ASSUME NEW r \in 1 .. WK
    PROVE  ValidBits[r] \in Int /\ WholeBytes[r] \in Int /\ ValidBits[r] >= WholeBytes[r]
  <1>1. WK \in Nat \ {0} /\ ByteBits \in Nat \ {0} /\ WN \in Nat \ {0} /\ r \in Nat \ {0}
    BY EquihashAssumption
  <1> DEFINE d == WN \div (WK + 1)
             m == r * d
             b == ByteBits
  <1>2. WK + 1 \in Nat \ {0}
    BY <1>1
  <1>3. d \in Nat /\ d * (WK + 1) <= WN
    BY <1>1, <1>2, Quotient0
  <1> HIDE DEF d
  <1>4. m \in Nat /\ m <= WN
    <2>1. r * d \in Nat /\ r * d <= (WK + 1) * d /\ (WK + 1) * d = d * (WK + 1)
      BY <1>1, <1>3, SMT
    <2> QED
      BY <1>1, <1>3, <2>1
  <1>5. WholeBytes[r] = (m \div b) * b
    BY DEF WholeBytes, DIGITBITS, d
  <1>6. ValidBits[r] = IF r = WK THEN WN ELSE m
    BY DEF ValidBits, DIGITBITS, d
  <1> HIDE DEF m
  <1>7. m \div b \in Nat /\ (m \div b) * b <= m
    BY <1>1, <1>4, Quotient0
  <1>8. (m \div b) * b \in Nat
    BY <1>1, <1>7, SMT
  <1> HIDE DEF b
  <1> QED
    BY <1>1, <1>4, <1>5, <1>6, <1>7, <1>8

\* What the verifier accepts, exactly: distinct indices that are in order and
\* cancel out on the whole bytes of every level, for any parameters, hashes
\* and indices (verify_200_9).
THEOREM AcceptsExactly ==
    ASSUME NEW genhash, NEW indices, NEW I, IsProof(genhash, indices, I)
    PROVE  Verify(genhash, indices) = "POW_OK" <=> Solves(genhash, indices, WholeBytes)
  <1> DEFINE Differ == Cardinality({indices[i] : i \in 1 .. PROOFSIZE}) = PROOFSIZE
             Groupwise == \A r \in 1 .. WK : \A k \in Groups(r) :
                 /\ Ordered(indices, r, k)
                 /\ \A p \in GroupXor(genhash, indices, r, k) : p >= WholeBytes[r]
  <1>1. PROOFSIZE \in Nat
    <2>1. WK \in Nat
      BY EquihashAssumption
    <2> QED
      BY <2>1, PowersOfTwo DEF PROOFSIZE
  <1>2. Differ <=> ~duped(indices)
    BY <1>1, DistinctAreNotDuped DEF IsProof
  <1>3. Replies(genhash, indices)[WK][0].code = "POW_OK" <=> Groupwise
    BY AllGroups
  <1>4. Solves(genhash, indices, WholeBytes) <=> Differ /\ Groupwise
    BY DEF Solves, Ordered
  <1>5. Verify(genhash, indices) = "POW_OK" <=>
            ~duped(indices) /\ Replies(genhash, indices)[WK][0].code = "POW_OK"
    BY DEF Verify
  <1> HIDE DEF Differ, Groupwise
  <1> QED
    BY <1>2, <1>3, <1>4, <1>5

\* No solution is turned away, for any hashes and indices (verify_200_9).
THEOREM ValidIsAcceptedCorrect ==
    ASSUME NEW genhash, NEW indices, NEW I, IsProof(genhash, indices, I)
    PROVE  ValidIsAccepted(genhash, indices)
  <1> SUFFICES ASSUME Valid(genhash, indices)
               PROVE  Solves(genhash, indices, WholeBytes)
    BY AcceptsExactly DEF ValidIsAccepted
  <1>1. ASSUME NEW r \in 1 .. WK, NEW k \in Groups(r), NEW p \in GroupXor(genhash, indices, r, k)
        PROVE  p >= WholeBytes[r]
    <2>1. p >= ValidBits[r] /\ p \in Int
      BY DEF Valid, Solves, GroupXor
    <2>2. ValidBits[r] >= WholeBytes[r] /\ ValidBits[r] \in Int /\ WholeBytes[r] \in Int
      BY BitsOfLevel
    <2> QED
      BY <2>1, <2>2
  <1> QED
    BY <1>1 DEF Valid, Solves

-----------------------------------------------------------------------------
(***************************************************************************)
(* The reader of the bits.                                                 *)
(***************************************************************************)
LEMMA NextQuotient ==
    ASSUME NEW a \in Nat, NEW b \in Nat \ {0}
    PROVE  /\ a \div b \in Nat /\ a % b \in 0 .. b - 1
           /\ a % b = b - 1 => (a + 1) \div b = a \div b + 1 /\ (a + 1) % b = 0
           /\ a % b # b - 1 => (a + 1) \div b = a \div b /\ (a + 1) % b = (a % b) + 1
  <1> DEFINE q == a \div b
             m == a % b
             q2 == (a + 1) \div b
             m2 == (a + 1) % b
  <1>1. q \in Nat /\ m \in 0 .. b - 1 /\ a = b * q + m
    <2>1. q \in Int /\ m \in 0 .. b - 1 /\ a = b * q + m
      BY SMT
    <2>2. q >= 0
      BY SMT
    <2> QED
      BY <2>1, <2>2
  <1>2. q2 \in Int /\ m2 \in 0 .. b - 1 /\ a + 1 = b * q2 + m2
    BY SMT
  <1> HIDE DEF q, m
  <1>3. CASE m = b - 1
    <2>1. (q + 1) * b <= a + 1 /\ a + 1 < ((q + 1) + 1) * b
      BY <1>1, <1>3, SMT
    <2>2. q2 = q + 1
      BY <1>1, <2>1, QuotientIs
    <2> HIDE DEF q2, m2
    <2>3. m2 = 0
      BY <1>1, <1>2, <1>3, <2>2, SMT
    <2> QED
      BY <1>1, <1>3, <2>2, <2>3 DEF q, m, q2, m2
  <1>4. CASE m # b - 1
    <2>1. q * b <= a + 1 /\ a + 1 < (q + 1) * b
      BY <1>1, <1>4, SMT
    <2>2. q2 = q
      BY <1>1, <2>1, QuotientIs
    <2> HIDE DEF q2, m2
    <2>3. m2 = m + 1
      BY <1>1, <1>2, <1>4, <2>2, SMT
    <2> QED
      BY <1>1, <1>4, <2>2, <2>3 DEF q, m, q2, m2
  <1> QED
    BY <1>3, <1>4

\* After k bits the reader is where the k-th bit is, and has read it.
LEMMA ReaderIs ==
    ASSUME NEW bytes, NEW bits \in Nat, NEW k \in 1 .. bits
    PROVE  Reading(bytes, bits)[k] =
               [next |-> (k - 1) \div ByteBits + 2, b |-> bytes[(k - 1) \div ByteBits + 1],
                offset |-> ((k - 1) % ByteBits) + 1, bit |-> BitOf(bytes, k - 1)]
  <1> DEFINE reader == Reading(bytes, bits)
             At(j) == [next |-> j \div ByteBits + 2, b |-> bytes[j \div ByteBits + 1],
                       offset |-> (j % ByteBits) + 1, bit |-> BitOf(bytes, j)]
             Q == {j \in 0 .. bits : j # 0 => reader[j] = At(j - 1)}
  <1>1. ByteBits \in Nat \ {0}
    BY EquihashAssumption
  <1>2. reader[0] = NewReader /\ \A j \in 1 .. bits : reader[j] = ReadBit(reader[j - 1], bytes)
    BY ReadingAre
  <1> HIDE DEF reader
  <1>3. 0 \in Q
    OBVIOUS
  <1>4. ASSUME NEW j \in 1 .. bits, j - 1 \in Q PROVE j \in Q
    <2> DEFINE r == reader[j - 1]
               offset == IF r.offset = ByteBits THEN 0 ELSE r.offset
               b == IF offset = 0 THEN bytes[r.next] ELSE r.b
    <2>1. reader[j] = [next |-> IF offset = 0 THEN r.next + 1 ELSE r.next, b |-> b,
                       offset |-> offset + 1, bit |-> Bit(b, offset)]
      BY <1>2 DEF ReadBit
    <2>2. CASE j = 1
      <3>1. r = [next |-> 1, b |-> 0, offset |-> 0, bit |-> 0]
        BY <1>2, <2>2 DEF NewReader
      <3>2. offset = 0 /\ b = bytes[1] /\ r.next = 1
        BY <1>1, <3>1
      <3>3. 0 \div ByteBits = 0 /\ 0 % ByteBits = 0
        BY <1>1, SMT
      <3> HIDE DEF r, offset, b
      <3>4. reader[j] = [next |-> 2, b |-> bytes[1], offset |-> 1, bit |-> Bit(bytes[1], 0)]
        BY <2>1, <3>2
      <3>5. At(0) = [next |-> 2, b |-> bytes[1], offset |-> 1, bit |-> Bit(bytes[1], 0)]
        BY <3>3 DEF BitOf
      <3>6. j - 1 = 0
        BY <2>2
      <3> QED
        BY <3>4, <3>5, <3>6
    <2>3. CASE j # 1
      <3> DEFINE a == j - 2
                 q == a \div ByteBits
                 m == a % ByteBits
      <3>1. a \in Nat /\ a + 1 = j - 1 /\ (j - 1) - 1 = a /\ j - 1 # 0
        BY <2>3
      <3>2. r = At(a)
        BY <1>4, <3>1
      <3>3. r.next = q + 2 /\ r.b = bytes[q + 1] /\ r.offset = m + 1
        <4> HIDE DEF r
        <4> QED
          BY <3>2
      <3>4. /\ q \in Nat /\ m \in 0 .. ByteBits - 1
            /\ m = ByteBits - 1 => (j - 1) \div ByteBits = q + 1 /\ (j - 1) % ByteBits = 0
            /\ m # ByteBits - 1 => (j - 1) \div ByteBits = q /\ (j - 1) % ByteBits = m + 1
        <4> HIDE DEF a
        <4> QED
          BY <1>1, <3>1, NextQuotient
      <3> HIDE DEF r, q, m
      <3>5. CASE m = ByteBits - 1
        <4>1. offset = 0 /\ b = bytes[q + 2]
          BY <1>1, <3>3, <3>4, <3>5
        <4> HIDE DEF offset, b
        <4>2. reader[j] = [next |-> q + 3, b |-> bytes[q + 2], offset |-> 1,
                           bit |-> Bit(bytes[q + 2], 0)]
          BY <2>1, <3>3, <3>4, <4>1
        <4>3. At(j - 1) = [next |-> q + 3, b |-> bytes[q + 2], offset |-> 1,
                           bit |-> Bit(bytes[q + 2], 0)]
          BY <3>4, <3>5 DEF BitOf
        <4> QED
          BY <4>2, <4>3
      <3>6. CASE m # ByteBits - 1
        <4>1. offset = m + 1 /\ offset # 0 /\ b = bytes[q + 1]
          BY <1>1, <3>3, <3>4, <3>6
        <4> HIDE DEF offset, b
        <4>2. reader[j] = [next |-> q + 2, b |-> bytes[q + 1], offset |-> m + 2,
                           bit |-> Bit(bytes[q + 1], m + 1)]
          BY <2>1, <3>3, <3>4, <4>1
        <4>3. At(j - 1) = [next |-> q + 2, b |-> bytes[q + 1], offset |-> m + 2,
                           bit |-> Bit(bytes[q + 1], m + 1)]
          BY <3>4, <3>6 DEF BitOf
        <4> QED
          BY <4>2, <4>3
      <3> QED
        BY <3>5, <3>6
    <2> HIDE DEF At, r
    <2> QED
      BY <2>2, <2>3
  <1>5. k \in Q
    <2> HIDE DEF Q
    <2>1. 0 .. bits \subseteq Q
      BY <1>3, <1>4, UptoInduction
    <2> QED
      BY <2>1
  <1> QED
    BY <1>5 DEF reader

\* What is put together from bits, each at its weight, has these bits.
LEMMA BitsOfSum ==
    ASSUME NEW L \in Nat, NEW H \in [1 .. L -> 0 .. 1], NEW s, s[0] = 0,
           \A k \in 1 .. L : s[k] = s[k - 1] + TwoTo[L - k] * H[k]
    PROVE  \A b \in 0 .. L - 1 : (s[L] \div TwoTo[b]) % 2 = H[L - b]
  <1>1. H \in [1 .. L -> Int] /\ 0 \in Int /\ 2 \in Int
    OBVIOUS
  <1>2. PICK h \in [0 .. L -> Int] : h[0] = 0 /\ \A k \in 1 .. L : h[k] = 2 * h[k - 1] + H[k]
    BY <1>1, RecurrenceExists, Zenon
  <1>3. \A k \in 1 .. L : L - k \in Nat /\ k - 1 \in 0 .. L /\ L - (k - 1) = (L - k) + 1 /\ k \in 0 .. L
    OBVIOUS
  <1>4. \A k \in 0 .. L : h[k] \in Nat
    <2> DEFINE Q == {k \in 0 .. L : h[k] \in Nat}
    <2>1. 0 \in Q
      BY <1>2
    <2>2. ASSUME NEW k \in 1 .. L, k - 1 \in Q PROVE k \in Q
      <3>1. h[k] = 2 * h[k - 1] + H[k] /\ h[k - 1] \in Nat /\ H[k] \in 0 .. 1
        BY <1>2, <2>2
      <3> QED
        BY <3>1
    <2> HIDE DEF Q
    <2>3. 0 .. L \subseteq Q
      BY <2>1, <2>2, UptoInduction
    <2> QED
      BY <2>3 DEF Q
  <1>5. \A k \in 0 .. L : s[k] = TwoTo[L - k] * h[k]
    <2> DEFINE Q == {k \in 0 .. L : s[k] = TwoTo[L - k] * h[k]}
    <2>1. 0 \in Q
      <3>1. TwoTo[L] \in Nat /\ L - 0 = L
        BY PowersOfTwo
      <3>2. TwoTo[L] * 0 = 0
        BY <3>1
      <3> QED
        BY <1>2, <3>1, <3>2
    <2>2. ASSUME NEW k \in 1 .. L, k - 1 \in Q PROVE k \in Q
      <3> DEFINE p == TwoTo[L - k]
                 x == h[k - 1]
                 y == H[k]
      <3>1. TwoTo[L - (k - 1)] = 2 * p /\ p \in Nat
        BY <1>3, PowersOfTwo
      <3>2. s[k - 1] = (2 * p) * x
        BY <2>2, <3>1
      <3>3. s[k] = (2 * p) * x + p * y /\ h[k] = 2 * x + y
        BY <1>2, <3>2
      <3>4. x \in Nat /\ y \in Nat
        <4>1. k - 1 \in 0 .. L /\ H[k] \in 0 .. 1
          OBVIOUS
        <4>2. h[k - 1] \in Nat
          BY <1>4, <4>1
        <4> QED
          BY <4>1, <4>2
      <3> HIDE DEF p, x, y
      <3>5. (2 * p) * x + p * y = p * (2 * x + y)
        BY <3>1, <3>4, SMT
      <3> QED
        BY <1>3, <3>3, <3>5 DEF p
    <2> HIDE DEF Q
    <2>3. 0 .. L \subseteq Q
      BY <2>1, <2>2, UptoInduction
    <2> QED
      BY <2>3 DEF Q
  <1>6. s[L] = h[L]
    <2>1. L - L = 0 /\ L \in 0 .. L /\ TwoTo[0] = 1
      BY PowersOfTwo
    <2> QED
      BY <1>4, <1>5, <2>1
  <1>7. \A b \in 0 .. L : h[L] \div TwoTo[b] = h[L - b]
    <2> DEFINE Q == {b \in 0 .. L : h[L] \div TwoTo[b] = h[L - b]}
    <2>1. 0 \in Q
      <3>1. h[L] \in Nat /\ TwoTo[0] = 1 /\ L - 0 = L
        BY <1>4, PowersOfTwo
      <3>2. h[L] \div 1 = h[L]
        BY <3>1, SMT
      <3> QED
        BY <3>1, <3>2
    <2>2. ASSUME NEW b \in 1 .. L, b - 1 \in Q PROVE b \in Q
      <3> DEFINE k == L - (b - 1)
      <3>1. k \in 1 .. L /\ k - 1 = L - b /\ b \in Nat \ {0} /\ L - b \in 0 .. L /\ L \in 0 .. L
        OBVIOUS
      <3>2. TwoTo[b] = 2 * TwoTo[b - 1] /\ TwoTo[b - 1] \in Nat \ {0}
        BY <3>1, TwoToStep
      <3>3. h[L] \in Nat
        BY <1>4, <3>1
      <3>4. h[L] \div TwoTo[b] = (h[L] \div TwoTo[b - 1]) \div 2
        <4> DEFINE v == h[L]
                   p == TwoTo[b - 1]
        <4>1. 2 \in Nat \ {0} /\ v \in Nat /\ p \in Nat \ {0} /\ TwoTo[b] = 2 * p
          BY <3>2, <3>3
        <4> HIDE DEF v, p
        <4>2. v \div (2 * p) = (v \div p) \div 2
          BY <4>1, QuotientOfQuotient
        <4>3. v \div TwoTo[b] = (v \div p) \div 2
          BY <4>1, <4>2
        <4> QED
          BY <4>3 DEF v, p
      <3>5. h[L] \div TwoTo[b - 1] = h[k]
        BY <2>2
      <3>6. h[k] = 2 * h[L - b] + H[k] /\ H[k] \in 0 .. 1
        BY <1>2, <3>1
      <3>7. h[L - b] \in Nat
        BY <1>4, <3>1
      <3>8. h[k] \div 2 = h[L - b]
        <4> DEFINE x == h[L - b]
                   y == H[k]
        <4>1. x \in Nat /\ y \in 0 .. 1 /\ h[k] = 2 * x + y
          BY <3>6, <3>7
        <4> HIDE DEF x, y
        <4>2. (2 * x + y) \div 2 = x
          BY <4>1, SMT
        <4> QED
          BY <4>1, <4>2 DEF x
      <3> QED
        BY <3>4, <3>5, <3>8
    <2> HIDE DEF Q
    <2>3. 0 .. L \subseteq Q
      BY <2>1, <2>2, UptoInduction
    <2> QED
      BY <2>3 DEF Q
  <1>8. ASSUME NEW b \in 0 .. L - 1 PROVE (s[L] \div TwoTo[b]) % 2 = H[L - b]
    <2> DEFINE k == L - b
    <2>1. k \in 1 .. L /\ b \in 0 .. L
      OBVIOUS
    <2>2. h[k] = 2 * h[k - 1] + H[k] /\ H[k] \in 0 .. 1 /\ h[k - 1] \in Nat
      BY <1>2, <1>3, <1>4, <2>1
    <2>3. h[k] % 2 = H[k]
      <3> DEFINE x == h[k - 1]
                 y == H[k]
      <3>1. x \in Nat /\ y \in 0 .. 1 /\ h[k] = 2 * x + y
        BY <2>2
      <3> HIDE DEF x, y
      <3>2. (2 * x + y) % 2 = y
        BY <3>1, SMT
      <3> QED
        BY <3>1, <3>2 DEF y
    <2> QED
      BY <1>6, <1>7, <2>1, <2>3
  <1> QED
    BY <1>8

\* An index that is read has the bits that follow one another from there.
LEMMA ReadIndexBits ==
    ASSUME NEW reader, NEW from \in Nat,
           \A k \in 1 .. IndexBits : reader[from + k].bit \in 0 .. 1
    PROVE  \A b \in 0 .. IndexBits - 1 :
               (ReadIndex(reader, from) \div TwoTo[b]) % 2 = reader[from + (IndexBits - b)].bit
  <1> DEFINE H == [k \in 1 .. IndexBits |-> reader[from + k].bit]
             s == Results(reader, from)
  <1>1. IndexBits \in Nat
    BY EquihashAssumption
  <1>2. H \in [1 .. IndexBits -> 0 .. 1]
    OBVIOUS
  <1>3. s[0] = 0 /\ \A k \in 1 .. IndexBits : s[k] = s[k - 1] + Weighted(reader, from, k)
    BY <1>1, ResultsAre
  <1> HIDE DEF s
  <1>4. \A k \in 1 .. IndexBits : s[k] = s[k - 1] + TwoTo[IndexBits - k] * H[k]
    BY <1>3 DEF Weighted
  <1>5. \A b \in 0 .. IndexBits - 1 : IndexBits - b \in 1 .. IndexBits
    BY <1>1
  <1>6. \A b \in 0 .. IndexBits - 1 : H[IndexBits - b] = reader[from + (IndexBits - b)].bit
    BY <1>5
  <1> HIDE DEF H
  <1>7. \A b \in 0 .. IndexBits - 1 : (s[IndexBits] \div TwoTo[b]) % 2 = H[IndexBits - b]
    BY <1>1, <1>2, <1>3, <1>4, BitsOfSum
  <1> QED
    BY <1>6, <1>7 DEF ReadIndex, s

\* The indices are the bits of the solution, in order, over the boundaries of
\* bytes, for every solution of the length that Verify asks for (Read21Bits).
THEOREM IndicesAreBitsCorrect ==
    ASSUME NEW n \in Nat, NEW m \in Nat, m * ByteBits = n * IndexBits,
           NEW bytes \in [1 .. m -> Nat]
    PROVE  IndicesAreBits(bytes, n)
  <1> DEFINE bits == n * IndexBits
             reader == Reading(bytes, bits)
  <1>1. ByteBits \in Nat \ {0} /\ IndexBits \in Nat \ {0}
    BY EquihashAssumption
  <1>2. bits \in Nat
    BY <1>1, SMT
  <1>3. ASSUME NEW k \in 1 .. bits
        PROVE  reader[k].bit = BitOf(bytes, k - 1) /\ BitOf(bytes, k - 1) \in 0 .. 1
    <2> DEFINE q == (k - 1) \div ByteBits
               o == (k - 1) % ByteBits
    <2>1. k - 1 \in Nat /\ k - 1 < m * ByteBits
      BY <1>2
    <2>2. q \in Nat /\ o \in 0 .. ByteBits - 1
      BY <1>1, <2>1, NextQuotient
    <2>3. q * ByteBits <= k - 1
      BY <1>1, <2>1, Quotient0
    <2>4. reader[k].bit = BitOf(bytes, k - 1)
      <3>1. reader[k] = [next |-> q + 2, b |-> bytes[q + 1], offset |-> o + 1,
                         bit |-> BitOf(bytes, k - 1)]
        <4> HIDE DEF bits
        <4> QED
          BY <1>2, ReaderIs
      <3> HIDE DEF reader, q, o
      <3> QED
        BY <3>1
    <2>5. BitOf(bytes, k - 1) = (bytes[q + 1] \div TwoTo[ByteBits - 1 - o]) % 2
      BY DEF BitOf, Bit
    <2> HIDE DEF q, o
    <2>6. q + 1 \in 1 .. m
      <3>1. q < m
        <4> SUFFICES ASSUME q >= m PROVE FALSE
          BY <2>2
        <4>1. q * ByteBits >= m * ByteBits /\ q * ByteBits \in Nat /\ m * ByteBits \in Nat
          BY <1>1, <2>2, SMT
        <4> QED
          BY <2>1, <2>3, <4>1
      <3> QED
        BY <2>2, <3>1
    <2>7. bytes[q + 1] \in Nat /\ TwoTo[ByteBits - 1 - o] \in Nat \ {0}
      <3>1. ByteBits - 1 - o \in Nat
        BY <1>1, <2>2
      <3> QED
        BY <2>6, <3>1, PowersOfTwo
    <2> DEFINE x == bytes[q + 1] \div TwoTo[ByteBits - 1 - o]
    <2>8. x \in Nat
      BY <2>7, Quotient0
    <2> HIDE DEF x
    <2>9. x % 2 \in 0 .. 1
      BY <2>8, SMT
    <2> QED
      BY <2>4, <2>5, <2>9 DEF x
  <1>4. SUFFICES ASSUME NEW i \in 1 .. n, NEW b \in 0 .. IndexBits - 1
                 PROVE  (Proof(bytes, n)[i] \div TwoTo[b]) % 2 = BitOf(bytes, i * IndexBits - 1 - b)
    BY DEF IndicesAreBits
  <1> DEFINE from == (i - 1) * IndexBits
  <1>5. Proof(bytes, n)[i] = ReadIndex(reader, from)
    BY DEF Proof
  <1> HIDE DEF reader
  <1>6. from \in Nat /\ from + IndexBits = i * IndexBits /\ i * IndexBits <= bits
    <2>1. i - 1 \in Nat
      OBVIOUS
    <2> QED
      BY <1>1, <2>1, SMT
  <1> HIDE DEF from, bits
  <1>7. i * IndexBits \in Nat
    BY <1>1, <1>6
  <1>8. \A k \in 1 .. IndexBits : from + k \in 1 .. bits
    BY <1>1, <1>2, <1>6, <1>7
  <1>9. \A k \in 1 .. IndexBits : reader[from + k].bit \in 0 .. 1
    BY <1>3, <1>8
  <1>10. (ReadIndex(reader, from) \div TwoTo[b]) % 2 = reader[from + (IndexBits - b)].bit
    BY <1>6, <1>9, ReadIndexBits
  <1>11. IndexBits - b \in 1 .. IndexBits
    BY <1>1
  <1>12. reader[from + (IndexBits - b)].bit = BitOf(bytes, (from + (IndexBits - b)) - 1)
    BY <1>3, <1>8, <1>11
  <1>13. (from + (IndexBits - b)) - 1 = i * IndexBits - 1 - b
    BY <1>1, <1>6, <1>7
  <1> QED
    BY <1>5, <1>10, <1>12, <1>13

-----------------------------------------------------------------------------
(***************************************************************************)
(* The invariants of Formats, for every set of inputs.  An input is one of *)
(* them from the start, and no step changes it.                            *)
(***************************************************************************)
InputInv == input \in Inputs \cup {Nonces, ApiServer, Accepting}

LEMMA InputInvariant == Spec => []InputInv
  <1>1. Init => InputInv
    BY DEF Init, InputInv
  <1>2. InputInv /\ [Next]_vars => InputInv'
    <2> SUFFICES ASSUME InputInv, [Next]_vars PROVE InputInv'
      OBVIOUS
    <2>1. input' = input
      BY DEF Next, vars
    <2> QED
      BY <2>1 DEF InputInv, Nonces, ApiServer, Accepting
  <1> QED
    BY <1>1, <1>2, PTL DEF Spec

\* An input of an algorithm is none of the three parts that run.
LEMMA InputOf ==
    ASSUME InputInv, NEW kind \in {"leaves", "height", "txs", "hash", "proof", "bytes",
                                   "shares", "blocks"}, Is(kind)
    PROVE  input \in Inputs /\ input.kind = kind
  BY DEF InputInv, Is, Nonces, ApiServer, Accepting

\* The root in the header is that of the block and every path leads to it, for
\* blocks of any size (fetchWork, MerklePathForLeaf).
THEOREM RootsCorrect == Spec => []Roots
  <1>1. InputInv => Roots
    <2> SUFFICES ASSUME InputInv, Is("leaves")
                 PROVE  /\ RootIsTrue([leaf |-> 0], Leaves(input.n - 1))
                        /\ PathsLeadToRoot(Leaves(input.n))
      BY DEF Roots
    <2>1. input.n \in Nat \ {0}
      BY InputOf, InputsAssumption
    <2> DEFINE n == input.n
    <2> HIDE DEF n
    <2>2. ASSUME NEW m \in Nat
          PROVE  Leaves(m) \in Seq([leaf : Nat]) /\ Len(Leaves(m)) = m
      <3>1. \A i \in 1 .. m : [leaf |-> i] \in [leaf : Nat]
        OBVIOUS
      <3> QED
        BY <3>1 DEF Leaves
    <2>3. RootIsTrue([leaf |-> 0], Leaves(n - 1))
      <3>1. n - 1 \in Nat /\ [leaf |-> 0] \in [leaf : Nat]
        BY <2>1 DEF n
      <3>2. Leaves(n - 1) \in Seq([leaf : Nat])
        BY <2>2, <3>1
      <3> QED
        BY <3>1, <3>2, RootIsTrueCorrect
    <2>4. PathsLeadToRoot(Leaves(n))
      <3>1. Len(Leaves(n)) \in Nat \ {0}
        BY <2>1, <2>2 DEF n
      <3> QED
        BY <3>1, PathsLeadToRootCorrect
    <2> QED
      BY <2>3, <2>4 DEF n
  <1> QED
    BY <1>1, InputInvariant, PTL

\* Every height above 16, the founder of every height above 16, and the number
\* of transactions of every block of at most 252, is what a node reads
\* (BuildCoinbaseTxn, processShare).
THEOREM CoinbaseCorrect == Spec => []CoinbaseRight
  <1>1. InputInv => CoinbaseRight
    <2> SUFFICES ASSUME InputInv PROVE CoinbaseRight
      OBVIOUS
    <2>1. ASSUME Is("height") PROVE HeightReadable(input.h) /\ FounderExists(input.h)
      <3>1. input.h \in Nat /\ input.h > 16 /\ IsInt64(2 * input.h)
        BY <2>1, InputOf, InputsAssumption
      <3> QED
        BY <3>1, HeightReadableCorrect, FounderExistsCorrect
    <2>2. ASSUME Is("txs") PROVE TxCountReadable(input.n)
      <3>1. input.n \in Nat
        BY <2>2, InputOf, InputsAssumption
      <3> QED
        BY <3>1, TxCountReadableCorrect
    <2> QED
      BY <2>1, <2>2 DEF CoinbaseRight
  <1> QED
    BY <1>1, InputInvariant, PTL

\* Miner and pool agree on every hash and difficulty, and a block is a share
\* (GetTargetHex, isShareDiffGeDiff, processShare).
THEOREM ToldAreCheckedCorrect == Spec => []ToldAreChecked
  <1>1. InputInv => ToldAreChecked
    <2> SUFFICES ASSUME InputInv, Is("hash")
                 PROVE  /\ ToldIsChecked(input.hash, input.diff)
                        /\ BlockIsShare(input.hash, input.target, input.diff)
      BY DEF ToldAreChecked
    <2>1. input.hash \in Nat /\ input.target \in Nat /\ input.diff \in Nat \ {0}
      BY InputOf, InputsAssumption
    <2> QED
      BY <2>1, ToldIsCheckedCorrect, BlocksAreShares
  <1> QED
    BY <1>1, InputInvariant, PTL

\* Every solution is read as its bits and no valid one is turned away, for
\* every genhash and index list (Read21Bits, verify_200_9).
THEOREM VerifierCorrect == Spec => []VerifierRight
  <1>1. InputInv => VerifierRight
    <2> SUFFICES ASSUME InputInv PROVE VerifierRight
      OBVIOUS
    <2>1. ASSUME Is("bytes") PROVE IndicesAreBits(input.bytes, input.n)
      <3> DEFINE bytes == input.bytes
                 n == input.n
                 m == Len(bytes)
      <3>1. bytes \in Seq(Nat) /\ n \in Nat /\ m * ByteBits = n * IndexBits
        BY <2>1, InputOf, InputsAssumption
      <3> HIDE DEF bytes, n
      <3>2. m \in Nat /\ bytes \in [1 .. m -> Nat]
        BY <3>1
      <3> HIDE DEF m
      <3> QED
        BY <3>1, <3>2, IndicesAreBitsCorrect DEF bytes, n
    <2>2. ASSUME Is("proof")
          PROVE  /\ ValidIsAccepted(input.hashes, input.indices)
                 /\ AcceptedIsOrdered(input.hashes, input.indices)
      <3>1. IsProof(input.hashes, input.indices, DOMAIN input.hashes)
        BY <2>2, InputOf, InputsAssumption
      <3>2. ValidIsAccepted(input.hashes, input.indices)
        BY <3>1, ValidIsAcceptedCorrect
      <3>3. AcceptedIsOrdered(input.hashes, input.indices)
        BY <3>1, AcceptsExactly DEF AcceptedIsOrdered
      <3> QED
        BY <3>2, <3>3
    <2> QED
      BY <2>1, <2>2 DEF VerifierRight
  <1> QED
    BY <1>1, InputInvariant, PTL

\* Purges, offline marks and luck windows are right for every share log and
\* every list of blocks (FlushStaleStats, CollectStats, CollectWorkersStats,
\* CollectLuckStats).
THEOREM StatisticsCorrect == Spec => []StatisticsRight
  <1>1. InputInv => StatisticsRight
    <2> SUFFICES ASSUME InputInv PROVE StatisticsRight
      OBVIOUS
    <2>1. ASSUME Is("shares")
          PROVE  /\ PurgeIsInvisible(input.shares, input.then, Now)
                 /\ OfflineAgrees(input.shares, Now)
      <3>1. /\ IsFiniteSet(input.shares) /\ Timed(input.shares)
            /\ input.then \in Int /\ Now \in Int /\ input.then <= Now
        BY <2>1, InputOf, InputsAssumption DEF Timed
      <3> QED
        BY <3>1, PurgesInvisible, OfflineAgreement
    <2>2. ASSUME Is("blocks")
          PROVE  LuckIsOfNewest(Upto(input.immature),
                     [i \in 1 .. input.matured |-> 10 + i], input.windows)
      <3> DEFINE newest == Upto(input.immature)
                 older == [i \in 1 .. input.matured |-> 10 + i]
                 windows == input.windows
      <3>1. /\ input.immature \in Nat /\ input.matured \in Nat
            /\ windows \in Seq(Nat) /\ windows # <<>>
            /\ \A k, l \in 1 .. Len(windows) : k <= l => windows[k] <= windows[l]
        BY <2>2, InputOf, InputsAssumption
      <3>2. newest \in Seq(Nat)
        BY <3>1 DEF Upto
      <3>3. older \in Seq(Nat)
        <4>1. \A i \in 1 .. input.matured : 10 + i \in Nat
          OBVIOUS
        <4> QED
          BY <3>1, <4>1
      <3> HIDE DEF newest, older, windows
      <3>4. LuckIsOfNewest(newest, older, windows)
        BY <3>1, <3>2, <3>3, LuckOfNewest
      <3> QED
        BY <3>4 DEF newest, older, windows
    <2> QED
      BY <2>1, <2>2 DEF StatisticsRight
  <1> QED
    BY <1>1, InputInvariant, PTL

-----------------------------------------------------------------------------
(***************************************************************************)
(* Instances never share a nonce, for any ids, ranges and sessions.        *)
(*                                                                         *)
(* The invariant has to bound what a goroutine may still store: the        *)
(* counter, and every value that is loaded, is so far below the end of the *)
(* instance's part as there are goroutines about to increment it.          *)
(***************************************************************************)
PartStart(i) == i * NonceRange

NonceTypes ==
    /\ counter \in [Instances -> Nat]
    /\ subscriber \in [Instances -> [Sessions -> [at : {"idle", "read", "loaded"}, loaded : Nat]]]
    /\ subscribed \in [Instances -> 0 .. MaxSubscriptions]
    /\ issued \in [Instances -> SUBSET Nat]

\* After k subscriptions, v can be incremented by all that are busy.
Roomy(i, v, busy, k) == PartStart(i) <= v /\ v + busy <= PartStart(i) + k
Fits(i, v) == Roomy(i, v, Cardinality(Busy(i)), subscribed[i])

Room ==
    \A i \in Instances :
        /\ Fits(i, counter[i])
        /\ \A s \in Sessions : subscriber[i][s].at = "loaded" => Fits(i, subscriber[i][s].loaded)

InPart == \A i \in Instances : \A n \in issued[i] : PartStart(i) <= n /\ n < PartStart(i) + NonceRange

NonceInv == NonceTypes /\ Room /\ InPart

USE ExtraNonceAssumption

LEMMA BusyFinite ==
    ASSUME NEW i \in Instances
    PROVE  IsFiniteSet(Busy(i)) /\ Cardinality(Busy(i)) \in Nat
  <1>1. Busy(i) \subseteq Sessions
    BY DEF Busy
  <1> QED
    BY <1>1, FS_Subset, FS_CardinalityType

\* The part of an instance fits into the word.
LEMMA PartFits ==
    ASSUME NEW i \in Instances
    PROVE  i \in Nat /\ PartStart(i) \in Nat /\ PartStart(i) + NonceRange <= Word
  <1>1. i \in Nat /\ (i + 1) * NonceRange <= Word
    OBVIOUS
  <1>2. (i + 1) * NonceRange = i * NonceRange + NonceRange
    BY <1>1, SMT
  <1>3. i * NonceRange \in Nat
    BY <1>1, SMT
  <1> QED
    BY <1>1, <1>2, <1>3, SMT DEF PartStart

\* What the bits say of a number in an instance's part.
LEMMA ModInWord ==
    ASSUME NEW v \in Nat, v < Word
    PROVE  v % Word = v
  BY SMT

LEMMA InvInit == NonceInit => NonceInv
  <1> SUFFICES ASSUME NonceInit PROVE NonceInv
    OBVIOUS
  <1>1. ASSUME NEW i \in Instances
        PROVE  counter[i] = PartStart(i) /\ Busy(i) = {} /\ subscribed[i] = 0 /\ issued[i] = {}
    <2>1. PartStart(i) \in Nat /\ PartStart(i) < Word
      BY PartFits, <1>1, SMT
    <2>2. PartStart(i) % Word = PartStart(i)
      BY <2>1, ModInWord
    <2> QED
      BY <2>2 DEF NonceInit, CreateExtraNonceCounter, Busy, PartStart
  <1>2. NonceTypes
    <2>1. counter \in [Instances -> Nat]
      BY <1>1, PartFits DEF NonceInit
    <2>2. subscriber \in [Instances -> [Sessions -> [at : {"idle", "read", "loaded"}, loaded : Nat]]]
      BY SMT DEF NonceInit
    <2>3. subscribed \in [Instances -> 0 .. MaxSubscriptions]
      BY SMT DEF NonceInit
    <2> QED
      BY <2>1, <2>2, <2>3 DEF NonceInit, NonceTypes
  <1>3. Room
    <2>1. ASSUME NEW i \in Instances PROVE Fits(i, counter[i])
      <3>1. Cardinality(Busy(i)) = 0
        BY <1>1, <2>1, FS_EmptySet
      <3>2. counter[i] = PartStart(i) /\ subscribed[i] = 0 /\ PartStart(i) \in Nat
        BY <1>1, <2>1, PartFits
      <3> QED
        BY <3>1, <3>2, SMT DEF Fits, Roomy
    <2>2. \A i \in Instances, s \in Sessions : subscriber[i][s].at # "loaded"
      BY DEF NonceInit
    <2> QED
      BY <2>1, <2>2 DEF Room
  <1>4. InPart
    BY <1>1 DEF InPart
  <1> QED
    BY <1>2, <1>3, <1>4 DEF NonceInv

\* Room survives a step of instance i that changes the number of those busy
\* and of subscriptions so that there is no less room, and after which the
\* counter and what is loaded are values that had room.
LEMMA RoomKept ==
    ASSUME NonceInv, NEW i \in Instances,
           \A j \in Instances \ {i} :
               /\ subscriber'[j] = subscriber[j] /\ counter'[j] = counter[j]
               /\ subscribed'[j] = subscribed[j],
           \A v \in Nat : Fits(i, v) => Roomy(i, v, Cardinality(Busy(i)'), subscribed'[i]),
           Roomy(i, counter'[i], Cardinality(Busy(i)'), subscribed'[i]),
           \A t \in Sessions : subscriber'[i][t].at = "loaded" =>
               subscriber'[i][t].loaded \in Nat /\ Fits(i, subscriber'[i][t].loaded)
    PROVE  Room'
  <1>1. ASSUME NEW j \in Instances, j # i
        PROVE  /\ Fits(j, counter[j])'
               /\ \A t \in Sessions : subscriber'[j][t].at = "loaded" => Fits(j, subscriber[j][t].loaded)'
    <2>1. Busy(j)' = Busy(j)
      BY <1>1 DEF Busy
    <2>2. /\ Fits(j, counter[j])
          /\ \A t \in Sessions : subscriber[j][t].at = "loaded" => Fits(j, subscriber[j][t].loaded)
      BY DEF NonceInv, Room
    <2> QED
      BY <1>1, <2>1, <2>2 DEF Fits, Roomy
  <1>2. /\ Fits(i, counter[i])'
        /\ \A t \in Sessions : subscriber'[i][t].at = "loaded" => Fits(i, subscriber[i][t].loaded)'
    BY DEF Fits
  <1> QED
    BY <1>1, <1>2 DEF Room

LEMMA ReadKeeps ==
    ASSUME NonceInv, NEW i \in Instances, NEW s \in Sessions, Read(i, s)
    PROVE  NonceInv'
  <1> DEFINE b == Cardinality(Busy(i))
  <1> DEFINE k == subscribed[i]
  <1>1. /\ counter' = counter
        /\ subscriber' = [subscriber EXCEPT ![i][s] = [at |-> "read", loaded |-> 0]]
        /\ subscribed' = [subscribed EXCEPT ![i] = @ + 1]
        /\ issued' = [issued EXCEPT ![i] = @ \cup {counter[i]}]
        /\ subscriber[i][s].at = "idle" /\ k < MaxSubscriptions
    BY DEF Read
  <1>2. Busy(i)' = Busy(i) \cup {s} /\ s \notin Busy(i)
    BY <1>1 DEF Busy, NonceInv, NonceTypes
  <1>3. Cardinality(Busy(i)') = b + 1 /\ b \in Nat
    BY <1>2, BusyFinite, FS_AddElement
  <1>4. subscribed'[i] = k + 1 /\ k \in Nat /\ k + 1 \in 0 .. MaxSubscriptions
    BY <1>1 DEF NonceInv, NonceTypes
  <1>5. counter[i] \in Nat /\ Roomy(i, counter[i], b, k) /\ PartStart(i) \in Nat
    BY PartFits DEF NonceInv, Room, NonceTypes, Fits
  <1>6. \A v \in Nat : Roomy(i, v, b, k) => Roomy(i, v, b + 1, k + 1)
    BY <1>3, <1>4, <1>5, SMT DEF Roomy
  <1>7. NonceTypes'
    <2>1. subscriber' \in [Instances -> [Sessions -> [at : {"idle", "read", "loaded"}, loaded : Nat]]]
      BY <1>1 DEF NonceInv, NonceTypes
    <2>2. issued' \in [Instances -> SUBSET Nat]
      BY <1>1, <1>5 DEF NonceInv, NonceTypes
    <2>3. subscribed' \in [Instances -> 0 .. MaxSubscriptions]
      BY <1>1, <1>4 DEF NonceInv, NonceTypes
    <2> QED
      BY <1>1, <2>1, <2>2, <2>3 DEF NonceInv, NonceTypes
  <1>8. Room'
    <2>1. \A j \in Instances \ {i} :
             /\ subscriber'[j] = subscriber[j] /\ counter'[j] = counter[j]
             /\ subscribed'[j] = subscribed[j]
      BY <1>1 DEF NonceInv, NonceTypes
    <2>2. \A v \in Nat : Fits(i, v) => Roomy(i, v, Cardinality(Busy(i)'), subscribed'[i])
      BY <1>3, <1>4, <1>6 DEF Fits
    <2>3. Roomy(i, counter'[i], Cardinality(Busy(i)'), subscribed'[i])
      BY <1>1, <1>3, <1>4, <1>5, <1>6
    <2>4. \A t \in Sessions : subscriber'[i][t].at = "loaded" =>
             subscriber'[i][t].loaded \in Nat /\ Fits(i, subscriber'[i][t].loaded)
      <3>1. \A t \in Sessions : subscriber'[i][t].at = "loaded" =>
               /\ subscriber[i][t].at = "loaded" /\ subscriber'[i][t].loaded = subscriber[i][t].loaded
               /\ subscriber[i][t].loaded \in Nat
        BY <1>1 DEF NonceInv, NonceTypes
      <3> QED
        BY <3>1 DEF NonceInv, Room
    <2> QED
      BY <2>1, <2>2, <2>3, <2>4, RoomKept
  <1>9. InPart'
    <2>1. PartStart(i) <= counter[i] /\ counter[i] < PartStart(i) + NonceRange
      BY <1>3, <1>4, <1>5, SMT DEF Roomy
    <2> QED
      BY <1>1, <2>1 DEF InPart, NonceInv, NonceTypes, PartStart
  <1> QED
    BY <1>7, <1>8, <1>9 DEF NonceInv

LEMMA LoadKeeps ==
    ASSUME NonceInv, NEW i \in Instances, NEW s \in Sessions, Load(i, s)
    PROVE  NonceInv'
  <1>1. /\ counter' = counter /\ subscribed' = subscribed /\ issued' = issued
        /\ subscriber' = [subscriber EXCEPT ![i][s] = [at |-> "loaded", loaded |-> counter[i]]]
        /\ subscriber[i][s].at = "read"
    BY DEF Load
  <1>2. Busy(i)' = Busy(i)
    BY <1>1 DEF Busy, NonceInv, NonceTypes
  <1>3. counter[i] \in Nat /\ Fits(i, counter[i])
    BY DEF NonceInv, Room, NonceTypes
  <1>4. NonceTypes'
    <2>1. subscriber' \in [Instances -> [Sessions -> [at : {"idle", "read", "loaded"}, loaded : Nat]]]
      BY <1>1, <1>3 DEF NonceInv, NonceTypes
    <2> QED
      BY <1>1, <2>1 DEF NonceInv, NonceTypes
  <1>5. Room'
    <2>1. \A j \in Instances \ {i} :
             /\ subscriber'[j] = subscriber[j] /\ counter'[j] = counter[j]
             /\ subscribed'[j] = subscribed[j]
      BY <1>1 DEF NonceInv, NonceTypes
    <2>2. \A v \in Nat : Fits(i, v) => Roomy(i, v, Cardinality(Busy(i)'), subscribed'[i])
      BY <1>1, <1>2 DEF Fits
    <2>3. Roomy(i, counter'[i], Cardinality(Busy(i)'), subscribed'[i])
      BY <1>1, <1>2, <1>3 DEF Fits
    <2>4. \A t \in Sessions : subscriber'[i][t].at = "loaded" =>
             subscriber'[i][t].loaded \in Nat /\ Fits(i, subscriber'[i][t].loaded)
      <3>1. subscriber'[i][s].loaded = counter[i]
        BY <1>1 DEF NonceInv, NonceTypes
      <3>2. \A t \in Sessions \ {s} : subscriber'[i][t] = subscriber[i][t] /\ subscriber[i][t].loaded \in Nat
        BY <1>1 DEF NonceInv, NonceTypes
      <3> QED
        BY <1>3, <3>1, <3>2 DEF NonceInv, Room
    <2> QED
      BY <2>1, <2>2, <2>3, <2>4, RoomKept
  <1> QED
    BY <1>1, <1>4, <1>5 DEF NonceInv, InPart

\* What is about to be stored has not left the instance's part.
LEMMA Increment ==
    ASSUME NonceInv, NEW i \in Instances, NEW s \in Sessions, subscriber[i][s].at = "loaded"
    PROVE  /\ subscriber[i][s].loaded \in Nat
           /\ (subscriber[i][s].loaded + 1) % Word = subscriber[i][s].loaded + 1
  <1> DEFINE b == Cardinality(Busy(i))
  <1> DEFINE k == subscribed[i]
  <1> DEFINE v0 == subscriber[i][s].loaded
  <1> DEFINE w == PartStart(i)
  <1>1. s \in Busy(i)
    BY DEF Busy
  <1>2. b \in Nat /\ b # 0
    BY <1>1, BusyFinite, FS_EmptySet
  <1>3. v0 \in Nat /\ k \in 0 .. MaxSubscriptions /\ Roomy(i, v0, b, k)
    BY DEF NonceInv, Room, NonceTypes, Fits
  <1>4. w \in Nat /\ w + NonceRange <= Word /\ v0 + b <= w + k
    BY <1>3, PartFits DEF Roomy
  <1>5. k \in Nat /\ k < NonceRange
    BY <1>3, SMT
  <1> HIDE DEF w, b, k, v0
  <1>6. v0 + 1 \in Nat /\ v0 + 1 < Word
    BY <1>2, <1>3, <1>4, <1>5, SMT
  <1>7. (v0 + 1) % Word = v0 + 1
    BY <1>6, ModInWord
  <1> QED
    BY <1>3, <1>7 DEF v0

LEMMA WriteKeeps ==
    ASSUME NonceInv, NEW i \in Instances, NEW s \in Sessions, Write(i, s)
    PROVE  NonceInv'
  <1> DEFINE b == Cardinality(Busy(i))
  <1> DEFINE k == subscribed[i]
  <1> DEFINE v0 == subscriber[i][s].loaded
  <1>1. /\ counter' = [counter EXCEPT ![i] = (v0 + 1) % Word]
        /\ subscribed' = subscribed /\ issued' = issued
        /\ subscriber' = [subscriber EXCEPT ![i][s] = [at |-> "idle", loaded |-> 0]]
        /\ subscriber[i][s].at = "loaded"
    BY DEF Write
  <1>2. Busy(i)' = Busy(i) \ {s} /\ s \in Busy(i)
    BY <1>1 DEF Busy, NonceInv, NonceTypes
  <1>3. Cardinality(Busy(i)') = b - 1 /\ b \in Nat
    BY <1>2, BusyFinite, FS_RemoveElement
  <1>4. Cardinality(Busy(i)') \in Nat
    <2>1. IsFiniteSet(Busy(i)')
      BY <1>2, BusyFinite, FS_RemoveElement
    <2> QED
      BY <2>1, FS_CardinalityType
  <1>5. v0 \in Nat /\ k \in 0 .. MaxSubscriptions /\ Roomy(i, v0, b, k)
    BY <1>1 DEF NonceInv, Room, NonceTypes, Fits
  <1>6. (v0 + 1) % Word = v0 + 1
    BY <1>1, Increment
  <1>7. counter'[i] = v0 + 1
    BY <1>1, <1>6 DEF NonceInv, NonceTypes
  <1>8. \A v \in Nat : Roomy(i, v, b, k) => Roomy(i, v, b - 1, k)
    <2> DEFINE w == PartStart(i)
    <2>1. w \in Nat
      BY PartFits
    <2> HIDE DEF w, b, k, v0
    <2>2. \A v \in Nat : v + b <= w + k => v + (b - 1) <= w + k
      BY <2>1, <1>3, <1>5, SMT
    <2> QED
      BY <2>2 DEF Roomy, w
  <1>9. Roomy(i, v0 + 1, b - 1, k)
    <2> DEFINE w == PartStart(i)
    <2>1. w \in Nat /\ w <= v0 /\ v0 + b <= w + k
      BY <1>5, PartFits DEF Roomy
    <2> HIDE DEF w, b, k, v0
    <2>2. w <= v0 + 1 /\ (v0 + 1) + (b - 1) <= w + k
      BY <2>1, <1>3, <1>5, SMT
    <2> QED
      BY <2>2 DEF Roomy, w
  <1>10. NonceTypes'
    <2>1. counter' \in [Instances -> Nat]
      BY <1>1, <1>5, <1>6 DEF NonceInv, NonceTypes
    <2>2. subscriber' \in [Instances -> [Sessions -> [at : {"idle", "read", "loaded"}, loaded : Nat]]]
      BY <1>1 DEF NonceInv, NonceTypes
    <2> QED
      BY <1>1, <2>1, <2>2 DEF NonceInv, NonceTypes
  <1>11. Room'
    <2>1. \A j \in Instances \ {i} :
             /\ subscriber'[j] = subscriber[j] /\ counter'[j] = counter[j]
             /\ subscribed'[j] = subscribed[j]
      BY <1>1 DEF NonceInv, NonceTypes
    <2>2. \A v \in Nat : Fits(i, v) => Roomy(i, v, Cardinality(Busy(i)'), subscribed'[i])
      BY <1>1, <1>3, <1>8 DEF Fits
    <2>3. Roomy(i, counter'[i], Cardinality(Busy(i)'), subscribed'[i])
      BY <1>1, <1>3, <1>7, <1>9
    <2>4. \A t \in Sessions : subscriber'[i][t].at = "loaded" =>
             subscriber'[i][t].loaded \in Nat /\ Fits(i, subscriber'[i][t].loaded)
      <3>1. subscriber'[i][s].at = "idle"
        BY <1>1 DEF NonceInv, NonceTypes
      <3>2. \A t \in Sessions \ {s} : subscriber'[i][t] = subscriber[i][t] /\ subscriber[i][t].loaded \in Nat
        BY <1>1 DEF NonceInv, NonceTypes
      <3> QED
        BY <3>1, <3>2 DEF NonceInv, Room
    <2> QED
      BY <2>1, <2>2, <2>3, <2>4, RoomKept
  <1> QED
    BY <1>1, <1>10, <1>11 DEF NonceInv, InPart

\* Parts do not overlap.
LEMMA PartsApart ==
    ASSUME NEW i \in Instances, NEW j \in Instances, i < j,
           NEW m \in Nat, NEW n \in Nat, m < PartStart(i) + NonceRange, PartStart(j) <= n
    PROVE  m < n
  <1>1. i \in Nat /\ j \in Nat /\ i + 1 <= j
    BY PartFits, SMT
  <1>2. (i + 1) * NonceRange <= j * NonceRange
    BY <1>1, SMT
  <1>3. (i + 1) * NonceRange = i * NonceRange + NonceRange
    BY <1>1, SMT
  <1> QED
    BY <1>1, <1>2, <1>3, PartFits, SMT DEF PartStart

LEMMA InvStep == NonceInv /\ [NonceNext]_nonceVars => NonceInv'
  <1> SUFFICES ASSUME NonceInv, [NonceNext]_nonceVars PROVE NonceInv'
    OBVIOUS
  <1>1. CASE NonceNext
    BY <1>1, ReadKeeps, LoadKeeps, WriteKeeps DEF NonceNext
  <1>2. CASE UNCHANGED nonceVars
    BY <1>2 DEF nonceVars, NonceInv, NonceTypes, Room, InPart, Fits, Busy
  <1> QED
    BY <1>1, <1>2

\* However the goroutines of an instance race for its counter, no nonce it
\* gives out is one of another instance (CreateExtraNonceCounter,
\* nextExtraNonce1).
THEOREM InstancesApartCorrect == NonceSpec => []InstancesApart
  <1>1. NonceInit => NonceInv
    BY InvInit
  <1>2. NonceInv /\ [NonceNext]_nonceVars => NonceInv'
    BY InvStep
  <1>3. NonceInv => InstancesApart
    <2> SUFFICES ASSUME NonceInv, NEW i \in Instances, NEW j \in Instances, i # j,
                        NEW n \in issued[i], n \in issued[j]
                 PROVE  FALSE
      BY DEF InstancesApart
    <2>1. n \in Nat /\ PartStart(i) <= n /\ n < PartStart(i) + NonceRange
                   /\ PartStart(j) <= n /\ n < PartStart(j) + NonceRange
      BY DEF NonceInv, NonceTypes, InPart
    <2>2. i < j \/ j < i
      <3>1. i \in Nat /\ j \in Nat /\ i # j
        BY PartFits
      <3> QED
        BY ONLY <3>1, SMT
    <2>3. ~(n < n)
      BY <2>1, SMT
    <2> QED
      BY <2>1, <2>2, <2>3, PartsApart
  <1> QED
    BY <1>1, <1>2, <1>3, PTL DEF NonceSpec

-----------------------------------------------------------------------------
(***************************************************************************)
(* Within an instance: as long as subscriptions have not overlapped, the   *)
(* counter is ahead of what was given out, or the one session that is      *)
(* under way is about to move it there.                                    *)
(***************************************************************************)
HistoryTypes == repeated \in [Instances -> BOOLEAN] /\ overlapped \in [Instances -> BOOLEAN]

Alone(i) == \A s, t \in Busy(i) : s = t
Ahead(i) ==
    /\ \A n \in issued[i] : n <= counter[i]
    /\ Busy(i) = {} => \A n \in issued[i] : n < counter[i]
    /\ \A s \in Sessions : subscriber[i][s].at = "loaded" => subscriber[i][s].loaded = counter[i]

OneByOne == \A i \in Instances : ~overlapped[i] => Alone(i) /\ Ahead(i) /\ ~repeated[i]

RaceInv == NonceInv /\ HistoryTypes /\ OneByOne

LEMMA RaceInit == NonceInit => RaceInv
  <1> SUFFICES ASSUME NonceInit PROVE RaceInv
    OBVIOUS
  <1>1. HistoryTypes /\ \A i \in Instances : ~repeated[i]
    BY DEF NonceInit, HistoryTypes
  <1>2. \A i \in Instances : Busy(i) = {} /\ issued[i] = {}
    BY DEF NonceInit, Busy
  <1>3. \A i \in Instances, s \in Sessions : subscriber[i][s].at # "loaded"
    BY DEF NonceInit
  <1> QED
    BY <1>1, <1>2, <1>3, InvInit DEF RaceInv, OneByOne, Alone, Ahead

\* The other instances are not touched.
LEMMA OthersKept ==
    ASSUME RaceInv, NEW i \in Instances,
           \A j \in Instances \ {i} :
               /\ subscriber'[j] = subscriber[j] /\ counter'[j] = counter[j]
               /\ issued'[j] = issued[j] /\ repeated'[j] = repeated[j]
               /\ overlapped'[j] = overlapped[j],
           ~overlapped'[i] => (Alone(i) /\ Ahead(i))' /\ ~repeated'[i]
    PROVE  OneByOne'
  <1>1. ASSUME NEW j \in Instances, j # i, ~overlapped'[j]
        PROVE  (Alone(j) /\ Ahead(j))' /\ ~repeated'[j]
    <2>1. Busy(j)' = Busy(j)
      BY <1>1 DEF Busy
    <2>2. Alone(j) /\ Ahead(j) /\ ~repeated[j]
      BY <1>1 DEF RaceInv, OneByOne
    <2> QED
      BY <1>1, <2>1, <2>2 DEF Alone, Ahead
  <1> QED
    BY <1>1 DEF OneByOne

LEMMA ReadOneByOne ==
    ASSUME RaceInv, NEW i \in Instances, NEW s \in Sessions, Read(i, s)
    PROVE  HistoryTypes' /\ OneByOne'
  <1>1. /\ counter' = counter
        /\ subscriber' = [subscriber EXCEPT ![i][s] = [at |-> "read", loaded |-> 0]]
        /\ issued' = [issued EXCEPT ![i] = @ \cup {counter[i]}]
        /\ repeated' = [repeated EXCEPT ![i] = @ \/ counter[i] \in issued[i]]
        /\ overlapped' = [overlapped EXCEPT ![i] = @ \/ Busy(i) # {}]
    BY DEF Read
  <1>2. Busy(i)' = Busy(i) \cup {s}
    BY <1>1 DEF Busy, RaceInv, NonceInv, NonceTypes
  <1>3. ASSUME ~overlapped'[i]
        PROVE  (Alone(i) /\ Ahead(i))' /\ ~repeated'[i]
    <2>1. ~overlapped[i] /\ Busy(i) = {}
      BY <1>1, <1>3 DEF RaceInv, HistoryTypes
    <2>2. ~repeated[i] /\ \A n \in issued[i] : n < counter[i]
      BY <2>1 DEF RaceInv, OneByOne, Ahead
    <2>3. counter[i] \in Nat /\ issued[i] \subseteq Nat
      BY DEF RaceInv, NonceInv, NonceTypes
    <2>4. counter[i] \notin issued[i]
      BY <2>2, <2>3
    <2>5. ~repeated'[i]
      BY <1>1, <2>2, <2>4 DEF RaceInv, HistoryTypes
    <2>6. Alone(i)'
      BY <1>2, <2>1 DEF Alone
    <2>7. issued'[i] = issued[i] \cup {counter[i]}
      BY <1>1 DEF RaceInv, NonceInv, NonceTypes
    <2>8. \A n \in issued'[i] : n <= counter'[i]
      BY <1>1, <2>2, <2>3, <2>7
    <2>9. \A t \in Sessions : subscriber'[i][t].at # "loaded"
      BY <1>1, <2>1 DEF Busy, RaceInv, NonceInv, NonceTypes
    <2> QED
      BY <1>2, <2>5, <2>6, <2>8, <2>9 DEF Ahead
  <1>4. \A j \in Instances \ {i} :
            /\ subscriber'[j] = subscriber[j] /\ counter'[j] = counter[j]
            /\ issued'[j] = issued[j] /\ repeated'[j] = repeated[j]
            /\ overlapped'[j] = overlapped[j]
    BY <1>1 DEF RaceInv, NonceInv, NonceTypes, HistoryTypes
  <1>5. HistoryTypes'
    BY <1>1 DEF RaceInv, HistoryTypes
  <1> QED
    BY <1>3, <1>4, <1>5, OthersKept

LEMMA LoadOneByOne ==
    ASSUME RaceInv, NEW i \in Instances, NEW s \in Sessions, Load(i, s)
    PROVE  HistoryTypes' /\ OneByOne'
  <1>1. /\ subscriber' = [subscriber EXCEPT ![i][s] = [at |-> "loaded", loaded |-> counter[i]]]
        /\ subscriber[i][s].at = "read"
        /\ UNCHANGED <<counter, issued, repeated, overlapped>>
    BY DEF Load
  <1>2. Busy(i)' = Busy(i)
    BY <1>1 DEF Busy, RaceInv, NonceInv, NonceTypes
  <1>3. ASSUME ~overlapped'[i]
        PROVE  (Alone(i) /\ Ahead(i))' /\ ~repeated'[i]
    <2>1. Alone(i) /\ Ahead(i) /\ ~repeated[i]
      BY <1>1, <1>3 DEF RaceInv, OneByOne
    <2>2. \A t \in Sessions : subscriber'[i][t].at = "loaded" => subscriber'[i][t].loaded = counter[i]
      BY <1>1, <2>1 DEF Ahead, RaceInv, NonceInv, NonceTypes
    <2> QED
      BY <1>1, <1>2, <2>1, <2>2 DEF Alone, Ahead
  <1>4. \A j \in Instances \ {i} : subscriber'[j] = subscriber[j]
    BY <1>1 DEF RaceInv, NonceInv, NonceTypes
  <1> QED
    BY <1>1, <1>3, <1>4, OthersKept DEF RaceInv, HistoryTypes

LEMMA WriteOneByOne ==
    ASSUME RaceInv, NEW i \in Instances, NEW s \in Sessions, Write(i, s)
    PROVE  HistoryTypes' /\ OneByOne'
  <1>1. /\ counter' = [counter EXCEPT ![i] = (subscriber[i][s].loaded + 1) % Word]
        /\ subscriber' = [subscriber EXCEPT ![i][s] = [at |-> "idle", loaded |-> 0]]
        /\ subscriber[i][s].at = "loaded"
        /\ UNCHANGED <<issued, repeated, overlapped>>
    BY DEF Write
  <1>2. Busy(i)' = Busy(i) \ {s} /\ s \in Busy(i)
    BY <1>1 DEF Busy, RaceInv, NonceInv, NonceTypes
  <1>3. subscriber[i][s].loaded \in Nat /\ counter'[i] = subscriber[i][s].loaded + 1
    BY <1>1, Increment DEF RaceInv, NonceInv, NonceTypes
  <1>4. ASSUME ~overlapped'[i]
        PROVE  (Alone(i) /\ Ahead(i))' /\ ~repeated'[i]
    <2>1. Alone(i) /\ Ahead(i) /\ ~repeated[i]
      BY <1>1, <1>4 DEF RaceInv, OneByOne
    <2>2. counter'[i] = counter[i] + 1 /\ counter[i] \in Nat /\ issued[i] \subseteq Nat
      BY <1>1, <1>3, <2>1 DEF Ahead, RaceInv, NonceInv, NonceTypes
    <2>3. \A n \in issued[i] : n <= counter'[i] /\ n < counter'[i]
      BY <2>1, <2>2 DEF Ahead
    <2>4. Busy(i)' = {}
      BY <1>2, <2>1 DEF Alone
    <2>5. \A t \in Sessions : subscriber'[i][t].at # "loaded"
      BY <2>4 DEF Busy
    <2> QED
      BY <1>1, <2>1, <2>3, <2>4, <2>5 DEF Alone, Ahead
  <1>5. \A j \in Instances \ {i} : subscriber'[j] = subscriber[j] /\ counter'[j] = counter[j]
    BY <1>1 DEF RaceInv, NonceInv, NonceTypes
  <1> QED
    BY <1>1, <1>4, <1>5, OthersKept DEF RaceInv, HistoryTypes

\* An instance gives out a nonce twice only if two of its subscriptions have
\* overlapped (nextExtraNonce1), as long as its range is not used up.
THEOREM RepeatsNeedOverlapCorrect == NonceSpec => []RepeatsNeedOverlap
  <1>1. RaceInv /\ [NonceNext]_nonceVars => RaceInv'
    <2> SUFFICES ASSUME RaceInv, [NonceNext]_nonceVars PROVE RaceInv'
      OBVIOUS
    <2>1. NonceInv'
      BY InvStep DEF RaceInv
    <2>2. CASE NonceNext
      BY <2>1, <2>2, ReadOneByOne, LoadOneByOne, WriteOneByOne DEF NonceNext, RaceInv
    <2>3. CASE UNCHANGED nonceVars
      <3>1. HistoryTypes' /\ OneByOne'
        BY <2>3 DEF RaceInv, nonceVars, HistoryTypes, OneByOne, Alone, Ahead, Busy
      <3> QED
        BY <2>1, <3>1 DEF RaceInv
    <2> QED
      BY <2>2, <2>3
  <1>2. RaceInv => RepeatsNeedOverlap
    BY DEF RaceInv, OneByOne, RepeatsNeedOverlap
  <1> QED
    BY RaceInit, <1>1, <1>2, PTL DEF NonceSpec

-----------------------------------------------------------------------------
(***************************************************************************)
(* What module Api says of the API server, for any number of handlers and  *)
(* accounts, any interval and any bounds.  The invariant says how the      *)
(* revisions that Redis had when a second began, those on a cached page    *)
(* and those that a handler has read are ordered.                          *)
(***************************************************************************)
USE ApiAssumption

ReadRevisions == Revisions \cup {NoRevision}
CollectorRecords == [at : {"off", "timers", "purge", "collect", "luck"}, got : ReadRevisions,
                     starting : BOOLEAN]
StatsRecords == [totals : ReadRevisions, luck : ReadRevisions]
PageRecords == [stats : ReadRevisions, workers : ReadRevisions, updatedAt : Times]
HandlerRecords ==
    [at : {"idle", "lock"} \cup Holding \cup Answers, login : Accounts \cup {"none"},
     now : Times, stats : ReadRevisions, failed : BOOLEAN, knew : BOOLEAN]

RedisTyped ==
    /\ clock \in Times /\ revision \in Revisions /\ known \subseteq Accounts
    /\ revisionAt \in [Times -> Revisions]
CollectorTyped ==
    collector \in CollectorRecords /\ stats \in StatsRecords /\ apiFaults \in 0 .. MaxApiFaults
CacheTyped == miners \in [Accounts -> PageRecords]
HandlersTyped == handler \in [Handlers -> HandlerRecords]

Mutex ==
    /\ holder \in Handlers \cup {"nobody"}
    /\ \A h \in Handlers : handler[h].at \in Holding <=> holder = h

\* Revisions only grow.
Past ==
    /\ \A t \in Times : t <= clock => revisionAt[t] <= revision
    /\ \A t, u \in Times : t <= u /\ u <= clock => revisionAt[t] <= revisionAt[u]

\* A cached page was read after the time it is dated, its parts in order.
PageOf(l) ==
    miners[l].stats # NoRevision =>
        /\ miners[l].updatedAt <= clock
        /\ revisionAt[miners[l].updatedAt] <= miners[l].stats
        /\ miners[l].stats <= miners[l].workers
        /\ miners[l].workers <= revision
HasPage(l) ==
    (miners[l].stats = NoRevision) <=> (miners[l] = NoPage)
Pages == \A l \in Accounts : PageOf(l) /\ HasPage(l)

\* Where the handler h is in AccountIndex, and what it has found by then.
Asking(h) ==
    handler[h].at \in {"lock"} \cup Holding =>
        handler[h].login \in Accounts /\ (handler[h].knew => handler[h].login \in known)
HasRead(h) ==
    handler[h].at = "workers" =>
        /\ handler[h].stats # NoRevision
        /\ revisionAt[handler[h].now] <= handler[h].stats
        /\ handler[h].stats <= revision
Writing(h) ==
    handler[h].at = "write" =>
        /\ miners[handler[h].login].stats # NoRevision
        /\ miners[handler[h].login].updatedAt + StatsIntv >= handler[h].now
Answered(h) == handler[h].at = "notFound" /\ handler[h].knew => handler[h].failed
Right(h) ==
    handler[h].now <= clock /\ Asking(h) /\ HasRead(h) /\ Writing(h) /\ Answered(h)

ApiInv ==
    /\ RedisTyped /\ CollectorTyped /\ CacheTyped /\ HandlersTyped
    /\ Mutex /\ Past /\ Pages
    /\ \A h \in Handlers : Right(h)

LEMMA InitInv == ApiInit => ApiInv
  <1> SUFFICES ASSUME ApiInit PROVE ApiInv
    OBVIOUS
  <1>1. 0 \in Times /\ 0 \in Revisions
    BY DEF Times, Revisions
  <1>2. RedisTyped /\ CacheTyped
    BY <1>1 DEF ApiInit, RedisTyped, CacheTyped, PageRecords, NoPage, ReadRevisions
  <1>7. CollectorTyped
    <2>1. collector \in [at : {"off", "purge"}, got : {NoRevision}, starting : {TRUE}]
          /\ stats = [totals |-> NoRevision, luck |-> NoRevision] /\ apiFaults = 0
      BY DEF ApiInit, NoStats
    <2>2. collector \in CollectorRecords
      BY <2>1 DEF CollectorRecords, ReadRevisions
    <2>3. stats \in StatsRecords
      BY <2>1 DEF StatsRecords, ReadRevisions
    <2> QED
      BY <2>1, <2>2, <2>3 DEF CollectorTyped
  <1>3. HandlersTyped
    BY <1>1 DEF ApiInit, HandlersTyped, HandlerRecords, Idle, ReadRevisions
  <1>4. Mutex
    BY DEF ApiInit, Mutex, Idle, Holding
  <1>5. Past /\ Pages
    BY <1>1 DEF ApiInit, Past, Pages, PageOf, HasPage, NoPage, NoRevision, Times, Revisions
  <1>6. ASSUME NEW h \in Handlers PROVE Right(h)
    BY DEF ApiInit, Right, Asking, HasRead, Writing, Answered, Idle, Holding
  <1> QED
    BY <1>2, <1>3, <1>4, <1>5, <1>6, <1>7 DEF ApiInv

-----------------------------------------------------------------------------
\* What the clock and the writers of Redis do.
LEMMA TickKept == ASSUME ApiInv, Tick PROVE ApiInv'
  <1> USE DEF Times, Revisions
  <1>1. /\ clock \in Times /\ revision \in Revisions /\ revisionAt \in [Times -> Revisions]
        /\ clock + 1 \in Times /\ clock' = clock + 1 /\ revision' = revision
        /\ \A t \in Times : revisionAt'[t] = IF t = clock + 1 THEN revision ELSE revisionAt[t]
        /\ \A t \in Times : revisionAt[t] \in Int
    BY DEF ApiInv, RedisTyped, Tick
  <1>2. RedisTyped'
    BY DEF ApiInv, RedisTyped, Tick
  <1>3. CollectorTyped' /\ CacheTyped' /\ HandlersTyped' /\ Mutex'
    BY DEF ApiInv, CollectorTyped, CacheTyped, HandlersTyped, Mutex, Tick
  <1>4. Past'
    BY <1>1 DEF ApiInv, Past
  <1>5. ASSUME NEW l \in Accounts PROVE (PageOf(l) /\ HasPage(l))'
    <2>1. miners[l].updatedAt \in Times /\ miners' = miners /\ PageOf(l) /\ HasPage(l)
      BY DEF ApiInv, CacheTyped, PageRecords, Tick, Pages
    <2> QED
      BY <1>1, <2>1 DEF PageOf, HasPage
  <1>6. ASSUME NEW h \in Handlers PROVE Right(h)'
    <2>1. handler[h].now \in Times /\ handler' = handler /\ Right(h)
          /\ miners' = miners /\ known' = known
      BY DEF ApiInv, HandlersTyped, HandlerRecords, Tick
    <2>2. handler[h].now <= clock' /\ revisionAt'[handler[h].now] = revisionAt[handler[h].now]
      BY <1>1, <2>1 DEF Right
    <2>3. Asking(h)' /\ Writing(h)' /\ Answered(h)'
      BY <2>1 DEF Right, Asking, Writing, Answered
    <2>4. HasRead(h)'
      BY <1>1, <2>1, <2>2 DEF Right, HasRead
    <2> QED
      BY <2>1, <2>2, <2>3, <2>4 DEF Right
  <1> QED
    BY <1>2, <1>3, <1>4, <1>5, <1>6 DEF ApiInv, Pages

LEMMA UpdateKept == ASSUME ApiInv, Update PROVE ApiInv'
  <1>1. /\ clock \in Times /\ revision \in Revisions /\ revisionAt \in [Times -> Revisions]
        /\ revision' = revision + 1 /\ revision' \in Revisions
        /\ \A t \in Times : revisionAt[t] \in Int
        /\ UNCHANGED <<clock, revisionAt, miners, handler>>
    BY DEF ApiInv, RedisTyped, Update, Revisions
  <1>2. known \subseteq known' /\ known' \subseteq Accounts
    BY DEF ApiInv, RedisTyped, Update
  <1>3. RedisTyped'
    BY <1>1, <1>2 DEF RedisTyped
  <1>4. CollectorTyped' /\ CacheTyped' /\ HandlersTyped' /\ Mutex'
    BY DEF ApiInv, CollectorTyped, CacheTyped, HandlersTyped, Mutex, Update
  <1>5. Past'
    BY <1>1 DEF ApiInv, Past, Revisions
  <1>6. ASSUME NEW l \in Accounts PROVE (PageOf(l) /\ HasPage(l))'
    <2>1. miners[l].workers \in Int /\ PageOf(l) /\ HasPage(l)
      BY DEF ApiInv, CacheTyped, PageRecords, Pages, ReadRevisions, Revisions, NoRevision
    <2> QED
      BY <1>1, <2>1 DEF PageOf, HasPage, Revisions
  <1>7. ASSUME NEW h \in Handlers PROVE Right(h)'
    <2>1. handler[h].stats \in Int /\ Right(h)
      BY DEF ApiInv, HandlersTyped, HandlerRecords, ReadRevisions, Revisions, NoRevision
    <2> QED
      BY <1>1, <1>2, <2>1 DEF Right, Asking, HasRead, Writing, Answered, Revisions
  <1> QED
    BY <1>3, <1>4, <1>5, <1>6, <1>7 DEF ApiInv, Pages

\* The goroutine of the timers touches neither the cache nor the handlers.
LEMMA CollectorKept == ASSUME ApiInv, CollectorStep \/ StatsTimer PROVE ApiInv'
  <1>1. UNCHANGED <<redisVars, miners, holder, handler>>
    BY DEF CollectorStep, StatsTimer, PurgeTimer, purgeStale, collectTotals, collectLuck
  <1>2. CollectorTyped'
    <2>1. collector \in CollectorRecords /\ stats \in StatsRecords
          /\ apiFaults \in 0 .. MaxApiFaults /\ revision \in Revisions
      BY DEF ApiInv, CollectorTyped, RedisTyped
    <2>2. apiFaults' \in 0 .. MaxApiFaults
      BY <2>1 DEF CollectorStep, StatsTimer, PurgeTimer, purgeStale, collectTotals, collectLuck,
         CallFails, CallWorks
    <2>3. collector' \in CollectorRecords
      <3>1. \/ Rearm
            \/ \E at \in {"purge", "collect", "luck"}, got \in ReadRevisions : Go(at, got)
        BY <2>1 DEF CollectorStep, StatsTimer, PurgeTimer, purgeStale, collectTotals, collectLuck,
           ReadRevisions
      <3>2. ASSUME Rearm PROVE collector' \in CollectorRecords
        BY <3>2 DEF Rearm, CollectorRecords, ReadRevisions
      <3>3. ASSUME NEW at \in {"purge", "collect", "luck"}, NEW got \in ReadRevisions, Go(at, got)
            PROVE  collector' \in CollectorRecords
        BY <2>1, <3>3 DEF Go, CollectorRecords
      <3> QED
        BY <3>1, <3>2, <3>3
    <2>4. stats' \in StatsRecords
      BY <2>1 DEF CollectorStep, StatsTimer, PurgeTimer, purgeStale, collectTotals, collectLuck,
         CollectorRecords, StatsRecords, ReadRevisions
    <2> QED
      BY <2>2, <2>3, <2>4 DEF CollectorTyped
  <1>3. RedisTyped' /\ CacheTyped' /\ HandlersTyped' /\ Mutex' /\ Past'
    BY <1>1 DEF ApiInv, RedisTyped, CacheTyped, HandlersTyped, Mutex, Past, redisVars
  <1>4. Pages'
    BY <1>1 DEF ApiInv, Pages, PageOf, HasPage, redisVars
  <1>5. \A h \in Handlers : Right(h)'
    BY <1>1 DEF ApiInv, Right, Asking, HasRead, Writing, Answered, redisVars
  <1> QED
    BY <1>2, <1>3, <1>4, <1>5 DEF ApiInv

-----------------------------------------------------------------------------
\* A step of the handler h that leaves Redis and the cache alone.
Moved(h) ==
    /\ handler' \in [Handlers -> HandlerRecords]
    /\ \A g \in Handlers \ {h} : handler'[g] = handler[g]
Held(h) ==
    /\ holder' = holder \/ (holder \in {h, "nobody"} /\ holder' \in {h, "nobody"})
    /\ handler'[h].at \in Holding <=> holder' = h

LEMMA HandlerKept ==
    ASSUME ApiInv, NEW h \in Handlers, Moved(h), Held(h), Right(h)',
           UNCHANGED <<redisVars, collector, stats, miners>>, apiFaults' \in 0 .. MaxApiFaults
    PROVE  ApiInv'
  <1>1. RedisTyped' /\ CollectorTyped' /\ CacheTyped' /\ Past'
    BY DEF ApiInv, RedisTyped, CollectorTyped, CacheTyped, Past, redisVars
  <1>2. Pages'
    BY DEF ApiInv, Pages, PageOf, HasPage, redisVars
  <1>3. HandlersTyped'
    BY DEF Moved, HandlersTyped
  <1>4. Mutex'
    BY DEF ApiInv, Mutex, Moved, Held
  <1>5. ASSUME NEW g \in Handlers PROVE Right(g)'
    <2>1. CASE g = h
      BY <2>1
    <2>2. CASE g # h
      <3>1. handler'[g] = handler[g] /\ Right(g)
        BY <2>2 DEF Moved, ApiInv
      <3> QED
        BY <3>1 DEF Right, Asking, HasRead, Writing, Answered, redisVars
    <2> QED
      BY <2>1, <2>2
  <1> QED
    BY <1>1, <1>2, <1>3, <1>4, <1>5 DEF ApiInv

LEMMA Faults == ASSUME ApiInv, CallFails \/ CallWorks PROVE apiFaults' \in 0 .. MaxApiFaults
  BY DEF ApiInv, CollectorTyped, CallFails, CallWorks

\* The answer of a handler that holds the mutex.
LEMMA AnswerKept ==
    ASSUME ApiInv, NEW h \in Handlers, handler[h].at \in Holding,
           NEW answer \in Answers, NEW failed \in BOOLEAN, Return(h, answer, failed),
           answer = "notFound" /\ handler[h].knew => failed,
           UNCHANGED <<redisVars, collector, stats, miners>>, apiFaults' \in 0 .. MaxApiFaults
    PROVE  ApiInv'
  <1>1. handler \in [Handlers -> HandlerRecords] /\ clock \in Times /\ 0 \in Times
    BY DEF ApiInv, HandlersTyped, RedisTyped, Times
  <1>2. handler[h].knew \in BOOLEAN
    BY <1>1 DEF HandlerRecords
  <1>3. /\ handler'[h] = [at |-> answer, login |-> "none", now |-> 0, stats |-> NoRevision,
                          failed |-> failed, knew |-> handler[h].knew]
        /\ \A g \in Handlers \ {h} : handler'[g] = handler[g]
        /\ DOMAIN handler' = Handlers /\ handler' = [g \in Handlers |-> handler'[g]]
        /\ holder' = "nobody"
    BY <1>1 DEF Return, Answer, Idle
  <1>4. Moved(h)
    <2>1. handler'[h] \in HandlerRecords
      BY <1>1, <1>2, <1>3 DEF HandlerRecords, ReadRevisions
    <2>2. \A g \in Handlers : handler'[g] \in HandlerRecords
      BY <1>1, <1>3, <2>1
    <2> QED
      BY <1>3, <2>2 DEF Moved
  <1>5. Held(h)
    BY <1>3 DEF ApiInv, Mutex, Held, Holding, Answers
  <1>6. Right(h)'
    BY <1>1, <1>3 DEF Right, Asking, HasRead, Writing, Answered, Holding, Answers, Times, redisVars
  <1> QED
    BY <1>4, <1>5, <1>6, HandlerKept

\* A step that is no answer: the handler h becomes r.
Turns(h, r) == handler' = [handler EXCEPT ![h] = r]

LEMMA TurnMoves ==
    ASSUME ApiInv, NEW h \in Handlers, NEW r \in HandlerRecords, Turns(h, r)
    PROVE  Moved(h) /\ handler'[h] = r
  BY DEF ApiInv, HandlersTyped, Turns, Moved

\* What is known of the handler before it moves.
LEMMA HandlerFacts ==
    ASSUME ApiInv, NEW h \in Handlers
    PROVE  /\ handler[h] \in HandlerRecords
           /\ handler[h].login \in Accounts \cup {"none"} /\ handler[h].now \in Times
           /\ handler[h].stats \in ReadRevisions
           /\ handler[h].failed \in BOOLEAN /\ handler[h].knew \in BOOLEAN
           /\ handler[h] = [at |-> handler[h].at, login |-> handler[h].login,
                            now |-> handler[h].now, stats |-> handler[h].stats,
                            failed |-> handler[h].failed, knew |-> handler[h].knew]
           /\ handler[h].now <= clock
           /\ Asking(h) /\ HasRead(h) /\ Writing(h)
  <1>1. handler[h] \in HandlerRecords
    BY DEF ApiInv, HandlersTyped
  <1>2. Right(h)
    BY DEF ApiInv
  <1> QED
    BY <1>1, <1>2 DEF HandlerRecords, Right

LEMMA RequestKept ==
    ASSUME ApiInv, NEW h \in Handlers, NEW l \in Accounts, Request(h, l) PROVE ApiInv'
  <1> DEFINE knew == l \in known
             r == [Idle EXCEPT !.at = "lock", !.login = l, !.knew = knew]
  <1>1. clock \in Times /\ 0 \in Times /\ apiFaults \in 0 .. MaxApiFaults
    BY DEF ApiInv, RedisTyped, CollectorTyped, Times
  <1>2. knew \in BOOLEAN /\ (knew => l \in known)
    OBVIOUS
  <1>3. Turns(h, r)
    BY DEF Request, Turns
  <1> HIDE DEF knew
  <1>4. Idle \in HandlerRecords /\ Idle.now = 0
    BY <1>1 DEF HandlerRecords, ReadRevisions, Idle
  <1>5. r \in HandlerRecords
    BY <1>2, <1>4 DEF HandlerRecords
  <1>6. Moved(h) /\ handler'[h] = r
    BY <1>3, <1>5, TurnMoves
  <1>7. r.at = "lock" /\ r.login = l /\ r.now = 0 /\ r.knew = knew
    BY <1>4 DEF HandlerRecords
  <1> HIDE DEF r
  <1>8. /\ handler'[h].at = "lock" /\ handler'[h].login = l /\ handler'[h].now = 0
        /\ handler'[h].knew => l \in known
    BY <1>2, <1>6, <1>7
  <1>9. /\ handler[h].at = "idle"
        /\ UNCHANGED <<redisVars, collector, stats, miners, holder, apiFaults>>
    BY DEF Request
  <1>10. Held(h)
    BY <1>8, <1>9 DEF ApiInv, Mutex, Held, Holding
  <1>11. Right(h)'
    BY <1>1, <1>8, <1>9 DEF Right, Asking, HasRead, Writing, Answered, Holding, Times, redisVars
  <1> QED
    BY <1>1, <1>6, <1>9, <1>10, <1>11, HandlerKept

LEMMA LockKept == ASSUME ApiInv, NEW h \in Handlers, Lock(h) PROVE ApiInv'
  <1> DEFINE l == handler[h].login
             at == IF isFresh(l) THEN "write" ELSE "exists"
             r == [handler[h] EXCEPT !.now = clock, !.at = at]
  <1>1. clock \in Times /\ apiFaults \in 0 .. MaxApiFaults
    BY DEF ApiInv, RedisTyped, CollectorTyped
  <1>2. handler[h].at = "lock" /\ holder = "nobody" /\ holder' = h
        /\ UNCHANGED <<redisVars, collector, stats, miners, apiFaults>>
    BY DEF Lock
  <1>3. l \in Accounts /\ (handler[h].knew => l \in known)
    BY <1>2, HandlerFacts DEF Asking
  <1>4. handler[h] \in HandlerRecords
    BY HandlerFacts
  <1>5. r \in HandlerRecords
    BY <1>1, <1>4 DEF HandlerRecords, Holding
  <1>6. Turns(h, r)
    BY <1>4 DEF Lock, Turns, HandlersTyped, ApiInv
  <1>7. Moved(h) /\ handler'[h] = r
    BY <1>5, <1>6, TurnMoves
  <1>8. /\ handler'[h].at = at /\ handler'[h].now = clock
        /\ handler'[h].login = l /\ handler'[h].knew = handler[h].knew
    BY <1>4, <1>7 DEF HandlerRecords
  <1> HIDE DEF at, l, r
  <1>9. at \in {"write", "exists"} /\ (at = "write" => isFresh(l))
    BY DEF at
  <1>10. Held(h)
    BY <1>2, <1>8, <1>9 DEF Held, Holding
  <1>11. Writing(h)'
    <2>1. ASSUME at = "write" PROVE miners[l].stats # NoRevision /\ miners[l].updatedAt + StatsIntv >= clock
      <3>1. HasPage(l) /\ miners[l].updatedAt \in Times
        BY <1>3 DEF ApiInv, Pages, CacheTyped, PageRecords
      <3> QED
        BY <1>1, <1>9, <2>1, <3>1 DEF HasPage, isFresh, Times
    <2> QED
      BY <1>2, <1>8, <2>1 DEF Writing
  <1>12. Right(h)'
    BY <1>1, <1>2, <1>3, <1>8, <1>9, <1>11 DEF Right, Asking, HasRead, Answered, Times, redisVars
  <1> QED
    BY <1>1, <1>2, <1>7, <1>10, <1>12, HandlerKept

\* A step of the handler h, which holds the mutex and keeps it, to `at',
\* with the revision it has read.
LEMMA StepKept ==
    ASSUME ApiInv, NEW h \in Handlers, handler[h].at \in Holding,
           NEW at \in {"stats", "workers"}, NEW read \in ReadRevisions,
           Turns(h, [handler[h] EXCEPT !.at = at, !.stats = read]),
           at = "workers" => read = revision,
           UNCHANGED <<redisVars, collector, stats, miners, holder>>,
           apiFaults' \in 0 .. MaxApiFaults
    PROVE  ApiInv'
  <1> DEFINE r == [handler[h] EXCEPT !.at = at, !.stats = read]
  <1>1. clock \in Times /\ revision \in Revisions
    BY DEF ApiInv, RedisTyped
  <1>2. handler[h] \in HandlerRecords
    BY HandlerFacts
  <1>3. r \in HandlerRecords
    BY <1>2 DEF HandlerRecords, Holding
  <1>4. Moved(h) /\ handler'[h] = r
    BY <1>3, TurnMoves
  <1>5. /\ handler'[h].at = at /\ handler'[h].stats = read /\ handler'[h].now = handler[h].now
        /\ handler'[h].login = handler[h].login /\ handler'[h].knew = handler[h].knew
    BY <1>2, <1>4 DEF HandlerRecords
  <1> HIDE DEF r
  <1>6. Held(h)
    BY <1>5 DEF ApiInv, Mutex, Held, Holding
  <1>7. handler[h].now \in Times /\ handler[h].now <= clock /\ Asking(h)
    BY HandlerFacts
  <1>8. revisionAt[handler[h].now] <= revision
    BY <1>7 DEF ApiInv, Past
  <1>9. HasRead(h)'
    BY <1>1, <1>5, <1>8 DEF HasRead, redisVars, Revisions, NoRevision
  <1>10. Right(h)'
    BY <1>5, <1>7, <1>9 DEF Right, Asking, Writing, Answered, Holding, redisVars
  <1> QED
    BY <1>4, <1>6, <1>10, HandlerKept

LEMMA ExistsKept == ASSUME ApiInv, NEW h \in Handlers, IsMinerExists(h) PROVE ApiInv'
  <1>1. handler[h].at = "exists" /\ handler[h].at \in Holding
        /\ UNCHANGED <<redisVars, collector, stats, miners>>
    BY DEF IsMinerExists, Holding
  <1>2. apiFaults' \in 0 .. MaxApiFaults
    BY Faults DEF IsMinerExists
  <1>3. ASSUME handler[h].login \in known, Step(h, "stats"), UNCHANGED holder PROVE ApiInv'
    <2>1. handler[h] \in HandlerRecords /\ handler[h].stats \in ReadRevisions
      BY HandlerFacts
    <2>2. Turns(h, [handler[h] EXCEPT !.at = "stats", !.stats = handler[h].stats])
      <3>1. [handler[h] EXCEPT !.at = "stats", !.stats = handler[h].stats] =
            [handler[h] EXCEPT !.at = "stats"]
        BY <2>1 DEF HandlerRecords
      <3> QED
        BY <1>3, <3>1 DEF Step, Turns
    <2> QED
      BY <1>1, <1>2, <1>3, <2>1, <2>2, StepKept
  <1>4. ASSUME handler[h].login \notin known, Return(h, "notFound", FALSE) PROVE ApiInv'
    <2>1. ~handler[h].knew
      BY <1>1, <1>4, HandlerFacts DEF Asking
    <2> QED
      BY <1>1, <1>2, <1>4, <2>1, AnswerKept DEF Answers
  <1>5. ASSUME Return(h, "notFound", TRUE) PROVE ApiInv'
    BY <1>1, <1>2, <1>5, AnswerKept DEF Answers
  <1> QED
    BY <1>3, <1>4, <1>5 DEF IsMinerExists

LEMMA RefuseKept ==
    ASSUME ApiInv, NEW h \in Handlers, handler[h].at \in Holding, Refuse(h),
           UNCHANGED <<redisVars, collector, stats>>
    PROVE  ApiInv'
  BY Faults, AnswerKept DEF Refuse, Answers

LEMMA StatsKept == ASSUME ApiInv, NEW h \in Handlers, GetMinerStats(h) PROVE ApiInv'
  <1>1. handler[h].at \in Holding /\ UNCHANGED <<redisVars, collector, stats>>
    BY DEF GetMinerStats, Holding
  <1>2. revision \in ReadRevisions
    BY DEF ApiInv, RedisTyped, ReadRevisions
  <1>3. ASSUME CallWorks, UNCHANGED <<miners, holder>>,
               handler' = [handler EXCEPT ![h].at = "workers", ![h].stats = revision]
        PROVE  ApiInv'
    <2>1. apiFaults' \in 0 .. MaxApiFaults
      BY <1>3, Faults
    <2>2. Turns(h, [handler[h] EXCEPT !.at = "workers", !.stats = revision])
      BY <1>3 DEF Turns, ApiInv, HandlersTyped
    <2> QED
      BY <1>1, <1>2, <1>3, <2>1, <2>2, StepKept
  <1> QED
    BY <1>1, <1>3, RefuseKept DEF GetMinerStats

\* The page that h puts in the cache is dated and ordered as it should be;
\* nobody else is about to write one, for h has the mutex.
LEMMA CachedKept ==
    ASSUME ApiInv, NEW h \in Handlers, handler[h].at = "workers",
           UNCHANGED <<redisVars, collector, stats, holder>>, apiFaults' \in 0 .. MaxApiFaults,
           miners' = [miners EXCEPT ![handler[h].login] = Cached(h)],
           handler' = [handler EXCEPT ![h].at = "write", ![h].stats = NoRevision]
    PROVE  ApiInv'
  <1> DEFINE l == handler[h].login
             r == [handler[h] EXCEPT !.at = "write", !.stats = NoRevision]
             page == [stats |-> handler[h].stats, workers |-> revision,
                      updatedAt |-> handler[h].now]
  <1>1. /\ handler[h] \in HandlerRecords /\ handler[h].stats \in ReadRevisions
        /\ handler[h].now \in Times /\ handler[h].now <= clock
        /\ HasRead(h) /\ Asking(h)
    BY HandlerFacts
  <1>2. l \in Accounts /\ (handler[h].knew => l \in known)
    BY <1>1 DEF Asking, Holding
  <1>3. /\ clock \in Times /\ revision \in Revisions
        /\ miners \in [Accounts -> PageRecords]
    BY DEF ApiInv, RedisTyped, CacheTyped
  <1>4. handler[h].stats # NoRevision /\ revisionAt[handler[h].now] <= handler[h].stats
        /\ handler[h].stats <= revision
    BY <1>1 DEF HasRead
  <1>5. page \in PageRecords
    BY <1>1, <1>3 DEF PageRecords, ReadRevisions
  <1>6. miners'[l] = page /\ \A k \in Accounts \ {l} : miners'[k] = miners[k]
    BY <1>2, <1>3 DEF Cached
  <1>7. CacheTyped'
    <2>1. miners' = [miners EXCEPT ![l] = page]
      BY DEF Cached
    <2> HIDE DEF l, page
    <2> QED
      BY <1>2, <1>3, <1>5, <2>1 DEF CacheTyped
  <1>8. Turns(h, r)
    BY DEF Turns, ApiInv, HandlersTyped
  <1>9. r \in HandlerRecords
    BY <1>1 DEF HandlerRecords, Holding, ReadRevisions
  <1>10. Moved(h) /\ handler'[h] = r
    BY <1>8, <1>9, TurnMoves
  <1>11. /\ handler'[h].at = "write" /\ handler'[h].now = handler[h].now
         /\ handler'[h].login = l /\ handler'[h].knew = handler[h].knew
    BY <1>1, <1>10 DEF HandlerRecords
  <1> HIDE DEF r
  <1>12. Mutex'
    BY <1>10, <1>11 DEF ApiInv, Mutex, Moved, Holding
  <1>13. RedisTyped' /\ CollectorTyped' /\ Past' /\ HandlersTyped'
    BY <1>10 DEF ApiInv, RedisTyped, CollectorTyped, Past, HandlersTyped, Moved, redisVars
  <1>14. page.stats = handler[h].stats /\ page.workers = revision /\ page.updatedAt = handler[h].now
    OBVIOUS
  <1> HIDE DEF page, l
  <1>15. ASSUME NEW k \in Accounts PROVE (PageOf(k) /\ HasPage(k))'
    <2>1. CASE k = l
      <3>1. miners'[k].stats # NoRevision /\ miners'[k] # NoPage
        BY <1>4, <1>6, <1>14, <2>1 DEF NoPage
      <3>2. HasPage(k)'
        BY <3>1 DEF HasPage
      <3>3. UNCHANGED <<clock, revision, revisionAt>>
        BY DEF redisVars
      <3>4. /\ miners'[k].stats = handler[h].stats /\ miners'[k].workers = revision
            /\ miners'[k].updatedAt = handler[h].now
        BY <1>6, <1>14, <2>1
      <3>6. revision \in Int /\ revision <= revision
        BY <1>3 DEF Revisions
      <3>5. PageOf(k)'
        BY <1>1, <1>4, <3>3, <3>4, <3>6 DEF PageOf
      <3> QED
        BY <3>2, <3>5
    <2>2. CASE k # l
      <3>1. miners'[k] = miners[k] /\ PageOf(k) /\ HasPage(k)
        BY <1>6, <2>2 DEF ApiInv, Pages
      <3> QED
        BY <3>1 DEF PageOf, HasPage, redisVars
    <2> QED
      BY <2>1, <2>2
  <1>16. Right(h)'
    <2>1. Writing(h)'
      BY <1>1, <1>4, <1>6, <1>11, <1>14 DEF Writing, Times
    <2> QED
      BY <1>1, <1>2, <1>11, <2>1 DEF Right, Asking, HasRead, Answered, redisVars
  <1>17. ASSUME NEW g \in Handlers \ {h} PROVE Right(g)'
    <2>1. handler'[g] = handler[g] /\ Right(g)
      BY <1>10 DEF Moved, ApiInv
    <2>2. handler[g].at # "write"
      BY DEF ApiInv, Mutex, Holding
    <2> QED
      BY <2>1, <2>2 DEF Right, Asking, HasRead, Writing, Answered, redisVars
  <1> QED
    BY <1>7, <1>12, <1>13, <1>15, <1>16, <1>17 DEF ApiInv, Pages

LEMMA WorkersKept == ASSUME ApiInv, NEW h \in Handlers, GetWorkers(h) PROVE ApiInv'
  <1>1. handler[h].at = "workers" /\ handler[h].at \in Holding
        /\ UNCHANGED <<redisVars, collector, stats>>
    BY DEF GetWorkers, Holding
  <1> QED
    BY <1>1, Faults, CachedKept, RefuseKept DEF GetWorkers

LEMMA WriteKept == ASSUME ApiInv, NEW h \in Handlers, WritePage(h) PROVE ApiInv'
  <1>1. handler[h].at \in Holding /\ Return(h, "page", FALSE)
        /\ UNCHANGED <<redisVars, collector, stats, miners, apiFaults>>
    BY DEF WritePage, Holding
  <1>2. apiFaults \in 0 .. MaxApiFaults
    BY DEF ApiInv, CollectorTyped
  <1> QED
    BY <1>1, <1>2, AnswerKept DEF Answers

LEMMA DoneKept == ASSUME ApiInv, NEW h \in Handlers, Done(h) PROVE ApiInv'
  <1>1. clock \in Times /\ 0 \in Times /\ apiFaults \in 0 .. MaxApiFaults
    BY DEF ApiInv, RedisTyped, CollectorTyped, Times
  <1>2. Idle \in HandlerRecords /\ Idle.at = "idle" /\ Idle.now = 0
    BY <1>1 DEF HandlerRecords, ReadRevisions, Idle
  <1>3. handler[h].at \in Answers /\ Turns(h, Idle)
        /\ UNCHANGED <<redisVars, collector, stats, miners, holder, apiFaults>>
    BY DEF Done, Turns
  <1>4. Moved(h) /\ handler'[h] = Idle
    BY <1>2, <1>3, TurnMoves
  <1>5. Held(h)
    BY <1>2, <1>3, <1>4 DEF ApiInv, Mutex, Held, Holding, Answers
  <1>6. Right(h)'
    BY <1>1, <1>2, <1>3, <1>4 DEF Right, Asking, HasRead, Writing, Answered, Holding, Times,
       redisVars
  <1> QED
    BY <1>1, <1>3, <1>4, <1>5, <1>6, HandlerKept

-----------------------------------------------------------------------------
LEMMA ApiInvNext == ApiInv /\ [ApiNext]_apiVars => ApiInv'
  <1> SUFFICES ASSUME ApiInv, [ApiNext]_apiVars PROVE ApiInv'
    OBVIOUS
  <1>1. CASE Tick
    BY <1>1, TickKept
  <1>2. CASE Update
    BY <1>2, UpdateKept
  <1>3. CASE CollectorStep \/ StatsTimer
    BY <1>3, CollectorKept
  <1>4. ASSUME NEW h \in Handlers, Lock(h) PROVE ApiInv'
    BY <1>4, LockKept
  <1>5. ASSUME NEW h \in Handlers, AccountStep(h) PROVE ApiInv'
    BY <1>5, ExistsKept, StatsKept, WorkersKept, WriteKept, DoneKept DEF AccountStep, RedisStep
  <1>6. ASSUME NEW h \in Handlers, NEW l \in Accounts, Request(h, l) PROVE ApiInv'
    BY <1>6, RequestKept
  <1>7. CASE UNCHANGED apiVars
    <2>1. RedisTyped' /\ CollectorTyped' /\ CacheTyped' /\ HandlersTyped' /\ Mutex' /\ Past'
      BY <1>7 DEF ApiInv, RedisTyped, CollectorTyped, CacheTyped, HandlersTyped, Mutex, Past,
         apiVars, redisVars
    <2>2. Pages'
      BY <1>7 DEF ApiInv, Pages, PageOf, HasPage, apiVars, redisVars
    <2>3. ASSUME NEW h \in Handlers PROVE Right(h)'
      BY <1>7 DEF ApiInv, Right, Asking, HasRead, Writing, Answered, apiVars, redisVars
    <2> QED
      BY <2>1, <2>2, <2>3 DEF ApiInv
  <1> QED
    BY <1>1, <1>2, <1>3, <1>4, <1>5, <1>6, <1>7 DEF ApiNext

LEMMA ApiInvariant == ApiSpec => []ApiInv
  BY InitInv, ApiInvNext, PTL DEF ApiSpec

\* Every variable has its type, and exactly who is between Lock and Unlock of
\* AccountIndex holds minersMu.
THEOREM ApiTypeCorrect == ApiSpec => []ApiTypeOK
  <1>1. ApiInv => ApiTypeOK
    BY DEF ApiInv, ApiTypeOK, RedisTyped, CollectorTyped, CacheTyped, HandlersTyped, Mutex,
       CollectorRecords, StatsRecords, PageRecords, HandlerRecords, ReadRevisions
  <1> QED
    BY <1>1, ApiInvariant, PTL

\* The answers of AccountIndex are true: a page is at most the interval old
\* when its handler takes the lock, and only a failed call makes a known miner
\* "not found".
THEOREM AnswersTrueCorrect == ApiSpec => []AnswersTrue
  <1>1. ApiInv => AnswersTrue
    <2> SUFFICES ASSUME ApiInv PROVE AnswersTrue
      OBVIOUS
    <2>1. ASSUME NEW h \in Handlers, handler[h].at = "write"
          PROVE  /\ miners[handler[h].login].stats >= Due(handler[h].now)
                 /\ miners[handler[h].login].workers >= miners[handler[h].login].stats
      <3> DEFINE page == miners[handler[h].login]
                 now == handler[h].now
      <3>1. now \in Times /\ now <= clock /\ handler[h].login \in Accounts
            /\ page.stats # NoRevision /\ page.updatedAt + StatsIntv >= now
        BY <2>1, HandlerFacts DEF Asking, Writing, Holding
      <3>2. page \in PageRecords /\ PageOf(handler[h].login)
        BY <3>1 DEF ApiInv, CacheTyped, Pages
      <3>3. /\ page.updatedAt \in Times /\ page.updatedAt <= clock
            /\ revisionAt[page.updatedAt] <= page.stats /\ page.stats <= page.workers
            /\ page.stats \in Int /\ page.workers \in Int
        BY <3>1, <3>2 DEF PageOf, PageRecords, ReadRevisions, Revisions, NoRevision
      <3> HIDE DEF page, now
      <3>4. /\ \A t \in Times : revisionAt[t] \in Int
            /\ \A t, u \in Times : t <= u /\ u <= clock => revisionAt[t] <= revisionAt[u]
            /\ clock \in Times
        BY DEF ApiInv, Past, RedisTyped, Revisions
      <3>5. PICK t \in Times : Due(now) = revisionAt[t] /\ t <= page.updatedAt
        <4>1. CASE now >= StatsIntv
          <5>1. now - StatsIntv \in Times /\ now - StatsIntv <= page.updatedAt
            BY <3>1, <3>3, <4>1 DEF Times
          <5> QED
            BY <4>1, <5>1 DEF Due
        <4>2. CASE ~(now >= StatsIntv)
          <5>1. 0 \in Times /\ 0 <= page.updatedAt
            BY <3>3 DEF Times
          <5> QED
            BY <4>2, <5>1 DEF Due
        <4> QED
          BY <4>1, <4>2
      <3>6. revisionAt[t] <= revisionAt[page.updatedAt]
        BY <3>3, <3>4, <3>5
      <3>7. page.stats >= Due(now) /\ page.workers >= page.stats
        BY <3>3, <3>4, <3>5, <3>6
      <3> QED
        BY <3>7 DEF page, now
    <2>2. NotFoundNeedsFault
      BY DEF ApiInv, Right, Answered, NotFoundNeedsFault
    <2> QED
      BY <2>1, <2>2 DEF AnswersTrue, PagesFresh
  <1> QED
    BY <1>1, ApiInvariant, PTL

-----------------------------------------------------------------------------
(***************************************************************************)
(* The accept loop.  A place is taken before a connection is served and    *)
(* held until its goroutine gives it back.  The places are as many as the  *)
(* connections that hold one, because the loop starts none of them twice:  *)
(* what waits for it, waits once.                                          *)
(***************************************************************************)
\* Connections whose goroutine holds a place, and the state they are in.
HasPlace == {"served", "failed"} \cup Gone
PlaceHolders == {c \in Conns : conn[c] \in HasPlace}

\* The channel `accept' holds one item for each connection that is served or
\* on its way out, and no more than MaxConn; the session table holds no
\* connection that was refused, has not come, or ended other than by an
\* oversized line (ListenTCP, handleTCPClient).
PlacesRight ==
    /\ IsFiniteSet(PlaceHolders) /\ places = Cardinality(PlaceHolders)
    /\ places <= MaxConn
    /\ \A c \in table : conn[c] \in {"served", "failed", "flooded", "unread"}

ConnStates == {"away", "waiting", "unread", "over"} \cup HasPlace

\* What waits, in the loop or in the backlog, waits once.
WaitsOnce ==
    /\ \A i \in 1 .. Len(backlog) : conn[backlog[i]] = "waiting"
    /\ \A i, j \in 1 .. Len(backlog) : backlog[i] = backlog[j] => i = j
    /\ accepted # <<>> =>
          /\ conn[Head(accepted)] = "waiting"
          /\ \A i \in 1 .. Len(backlog) : backlog[i] # Head(accepted)

ListenerTypeOK ==
    /\ backlog \in Seq(Conns)
    /\ accepted = <<>> \/ \E c \in Conns : accepted = <<c>>
    /\ places \in Nat
    /\ conn \in [Conns -> ConnStates]
    /\ table \subseteq Conns

ListenerInv == ListenerTypeOK /\ WaitsOnce /\ PlacesRight

\* A step that moves one connection changes the holders by that connection at
\* most.
LEMMA HoldersAfter ==
  ASSUME NEW c \in Conns, NEW at, ListenerTypeOK, Becomes(c, at)
  PROVE  PlaceHolders' = IF at \in HasPlace THEN PlaceHolders \cup {c}
                                            ELSE PlaceHolders \ {c}
  <1>1. conn'[c] = at /\ \A d \in Conns \ {c} : conn'[d] = conn[d]
    BY DEF ListenerTypeOK, Becomes
  <1> QED
    BY <1>1 DEF PlaceHolders

\* A step that leaves backlog and accepted alone, and moves a connection that
\* does not wait, keeps the order of those that do.
LEMMA StillWaits ==
  ASSUME NEW c \in Conns, NEW at, ListenerTypeOK, WaitsOnce, Becomes(c, at),
         conn[c] # "waiting", UNCHANGED <<backlog, accepted>>
  PROVE  WaitsOnce'
  <1>1. \A d \in Conns : conn[d] = "waiting" => conn'[d] = "waiting"
    BY DEF ListenerTypeOK, Becomes
  <1>2. \A i \in 1 .. Len(backlog) : backlog[i] \in Conns
    BY DEF ListenerTypeOK
  <1>3. accepted # <<>> => Head(accepted) \in Conns
    BY DEF ListenerTypeOK
  <1> QED
    BY <1>1, <1>2, <1>3 DEF WaitsOnce

LEMMA ListenerStarts == ListenerInit => ListenerInv
  <1> SUFFICES ASSUME ListenerInit PROVE ListenerInv
    OBVIOUS
  <1>1. PlaceHolders = {}
    BY DEF ListenerInit, PlaceHolders, HasPlace, Gone
  <1>2. IsFiniteSet(PlaceHolders) /\ Cardinality(PlaceHolders) = 0
    BY <1>1, FS_EmptySet
  <1>3. PlacesRight
    BY <1>2, ListenerAssumption DEF PlacesRight, ListenerInit
  <1>4. ListenerTypeOK /\ WaitsOnce
    BY DEF ListenerTypeOK, WaitsOnce, ListenerInit, ConnStates
  <1> QED
    BY <1>3, <1>4 DEF ListenerInv

\* A step that moves a connection without taking or giving back its place.
LEMMA PlaceKept ==
  ASSUME NEW c \in Conns, NEW at \in ConnStates, ListenerInv, Becomes(c, at),
         conn[c] # "waiting",
         conn[c] \in HasPlace <=> at \in HasPlace,
         UNCHANGED <<backlog, accepted, places>>,
         table' \in {table, table \ {c}},
         c \in table' => at \in {"served", "failed", "flooded", "unread"}
  PROVE  ListenerInv'
  <1>1. PlaceHolders' = PlaceHolders
    BY HoldersAfter DEF ListenerInv, PlaceHolders
  <1>2. WaitsOnce'
    BY StillWaits DEF ListenerInv
  <1>3. ListenerTypeOK'
    BY DEF ListenerInv, ListenerTypeOK, Becomes
  <1>4. \A d \in table' : conn'[d] \in {"served", "failed", "flooded", "unread"}
    BY DEF ListenerInv, ListenerTypeOK, PlacesRight, Becomes
  <1>5. PlacesRight'
    BY <1>1, <1>4 DEF ListenerInv, PlacesRight
  <1> QED
    BY <1>2, <1>3, <1>5 DEF ListenerInv

LEMMA ConnectKeeps ==
  ASSUME NEW c \in Conns, ListenerInv, Connect(c) PROVE ListenerInv'
  <1>1. "waiting" \notin HasPlace /\ "away" \notin HasPlace /\ "waiting" \in ConnStates
    BY DEF HasPlace, Gone, ConnStates
  <1>2. PlaceHolders' = PlaceHolders
    BY <1>1, HoldersAfter DEF Connect, ListenerInv, PlaceHolders
  <1>3. /\ backlog' \in Seq(Conns) /\ Len(backlog') = Len(backlog) + 1
        /\ \A i \in 1 .. Len(backlog) : backlog'[i] = backlog[i] /\ backlog[i] \in Conns
        /\ backlog'[Len(backlog) + 1] = c /\ Len(backlog) \in Nat
    BY DEF Connect, ListenerInv, ListenerTypeOK
  <1>4. ListenerTypeOK'
    BY <1>1, <1>3 DEF Connect, Becomes, ListenerInv, ListenerTypeOK
  <1>5. conn'[c] = "waiting" /\ \A d \in Conns \ {c} : conn'[d] = conn[d]
    BY DEF Connect, Becomes, ListenerInv, ListenerTypeOK
  <1>6. /\ \A i \in 1 .. Len(backlog) : backlog[i] # c
        /\ accepted # <<>> => Head(accepted) # c /\ Head(accepted) \in Conns
    BY DEF Connect, ListenerInv, ListenerTypeOK, WaitsOnce
  <1>7. WaitsOnce'
    <2>1. \A i \in 1 .. Len(backlog') : conn'[backlog'[i]] = "waiting"
      BY <1>3, <1>5, <1>6 DEF ListenerInv, WaitsOnce
    <2>2. \A i, j \in 1 .. Len(backlog') : backlog'[i] = backlog'[j] => i = j
      <3> SUFFICES ASSUME NEW i \in 1 .. Len(backlog'), NEW j \in 1 .. Len(backlog'),
                          backlog'[i] = backlog'[j]
                   PROVE  i = j
        OBVIOUS
      <3> QED
        BY <1>3, <1>6 DEF ListenerInv, WaitsOnce
    <2>3. accepted' = accepted
      BY DEF Connect
    <2>4. accepted' # <<>> => /\ conn'[Head(accepted')] = "waiting"
                             /\ \A i \in 1 .. Len(backlog') : backlog'[i] # Head(accepted')
      BY <1>3, <1>5, <1>6, <2>3 DEF ListenerInv, WaitsOnce
    <2> QED
      BY <2>1, <2>2, <2>4 DEF WaitsOnce
  <1>8. PlacesRight'
    <2>1. \A d \in table' : conn'[d] \in {"served", "failed", "flooded", "unread"}
      BY <1>5 DEF Connect, ListenerInv, ListenerTypeOK, PlacesRight
    <2> QED
      BY <1>2, <2>1 DEF Connect, ListenerInv, PlacesRight
  <1> QED
    BY <1>4, <1>7, <1>8 DEF ListenerInv

LEMMA AcceptKeeps ==
  ASSUME ListenerInv, AcceptTCP PROVE ListenerInv'
  <1>1. /\ backlog \in Seq(Conns) /\ backlog # <<>> /\ accepted = <<>>
        /\ accepted' = <<Head(backlog)>> /\ backlog' = Tail(backlog)
        /\ UNCHANGED <<places, conn, table>>
    BY DEF AcceptTCP, ListenerInv, ListenerTypeOK
  <1>2. /\ Head(backlog) = backlog[1] /\ backlog[1] \in Conns
        /\ backlog' \in Seq(Conns) /\ Len(backlog') = Len(backlog) - 1 /\ Len(backlog) \in Nat
        /\ Len(backlog) >= 1
    BY <1>1
  <1>3. \A i \in 1 .. Len(backlog') : i + 1 \in 1 .. Len(backlog) /\ backlog'[i] = backlog[i + 1]
    BY <1>1, <1>2
  <1>4. ListenerTypeOK'
    BY <1>1, <1>2 DEF ListenerInv, ListenerTypeOK
  <1>5. Head(accepted') = backlog[1]
    BY <1>1, <1>2
  <1>6. WaitsOnce'
    <2>1. \A i \in 1 .. Len(backlog') : conn'[backlog'[i]] = "waiting"
      BY <1>1, <1>3 DEF ListenerInv, WaitsOnce
    <2>2. \A i, j \in 1 .. Len(backlog') : backlog'[i] = backlog'[j] => i = j
      <3> SUFFICES ASSUME NEW i \in 1 .. Len(backlog'), NEW j \in 1 .. Len(backlog'),
                          backlog'[i] = backlog'[j]
                   PROVE  i = j
        OBVIOUS
      <3>1. i + 1 = j + 1
        BY <1>3 DEF ListenerInv, WaitsOnce
      <3> QED
        BY <3>1, <1>2
    <2>3. conn'[Head(accepted')] = "waiting"
      BY <1>1, <1>2, <1>5 DEF ListenerInv, WaitsOnce
    <2>4. \A i \in 1 .. Len(backlog') : backlog'[i] # Head(accepted')
      <3> TAKE i \in 1 .. Len(backlog')
      <3>1. 1 \in 1 .. Len(backlog) /\ i + 1 # 1
        BY <1>2
      <3> QED
        BY <3>1, <1>3, <1>5 DEF ListenerInv, WaitsOnce
    <2> QED
      BY <2>1, <2>2, <2>3, <2>4 DEF WaitsOnce
  <1>7. PlacesRight'
    BY <1>1 DEF ListenerInv, PlacesRight, PlaceHolders
  <1> QED
    BY <1>4, <1>6, <1>7 DEF ListenerInv

LEMMA TakePlaceKeeps ==
  ASSUME ListenerInv, TakePlace PROVE ListenerInv'
  <1>1. PICK c \in Conns : accepted = <<c>>
    BY DEF TakePlace, ListenerInv, ListenerTypeOK
  <1>2. /\ Head(accepted) = c /\ places < MaxConn /\ places' = places + 1
        /\ Becomes(c, "served") /\ accepted' = <<>> /\ UNCHANGED <<backlog, table>>
    BY <1>1 DEF TakePlace
  <1>3. conn[c] = "waiting" /\ \A i \in 1 .. Len(backlog) : backlog[i] # c
    BY <1>1, <1>2 DEF ListenerInv, WaitsOnce
  <1>4. conn'[c] = "served" /\ \A d \in Conns \ {c} : conn'[d] = conn[d]
    BY <1>2 DEF Becomes, ListenerInv, ListenerTypeOK
  <1>5. "served" \in HasPlace /\ "waiting" \notin HasPlace /\ "served" \in ConnStates
    BY DEF HasPlace, Gone, ConnStates
  <1>6. PlaceHolders' = PlaceHolders \cup {c} /\ c \notin PlaceHolders
    BY <1>2, <1>3, <1>5, HoldersAfter DEF ListenerInv, PlaceHolders
  <1>7. IsFiniteSet(PlaceHolders') /\ Cardinality(PlaceHolders') = Cardinality(PlaceHolders) + 1
    BY <1>6, FS_AddElement DEF ListenerInv, PlacesRight
  <1>8. ListenerTypeOK'
    BY <1>2, <1>5 DEF Becomes, ListenerInv, ListenerTypeOK
  <1>9. WaitsOnce'
    <2>1. \A i \in 1 .. Len(backlog) : backlog[i] \in Conns
      BY DEF ListenerInv, ListenerTypeOK
    <2> QED
      BY <2>1, <1>2, <1>3, <1>4 DEF ListenerInv, WaitsOnce
  <1>10. PlacesRight'
    <2>1. \A d \in table' : conn'[d] \in {"served", "failed", "flooded", "unread"}
      BY <1>2, <1>4 DEF ListenerInv, ListenerTypeOK, PlacesRight
    <2>2. places' <= MaxConn
      BY <1>2, ListenerAssumption DEF ListenerInv, ListenerTypeOK
    <2> QED
      BY <1>2, <1>7, <2>1, <2>2 DEF ListenerInv, PlacesRight
  <1> QED
    BY <1>8, <1>9, <1>10 DEF ListenerInv

LEMMA GivePlaceKeeps ==
  ASSUME NEW c \in Conns, ListenerInv, GivePlace(c) PROVE ListenerInv'
  <1> DEFINE at == IF conn[c] = "flooded" THEN "unread" ELSE "over"
  <1>1. /\ conn[c] \in Gone /\ places' = places - 1 /\ Becomes(c, at)
        /\ UNCHANGED <<backlog, accepted, table>>
    BY DEF GivePlace
  <1>2. at \notin HasPlace /\ at \in ConnStates /\ conn[c] \in HasPlace /\ conn[c] # "waiting"
    BY <1>1 DEF HasPlace, Gone, ConnStates
  <1>3. c \in table => at = "unread"
    BY <1>1 DEF ListenerInv, PlacesRight, Gone
  <1> HIDE DEF at
  <1>4. PlaceHolders' = PlaceHolders \ {c} /\ c \in PlaceHolders
    BY <1>1, <1>2, HoldersAfter DEF ListenerInv, PlaceHolders
  <1>5. IsFiniteSet(PlaceHolders') /\ Cardinality(PlaceHolders') = Cardinality(PlaceHolders) - 1
    BY <1>4, FS_RemoveElement DEF ListenerInv, PlacesRight
  <1>6. Cardinality(PlaceHolders') \in Nat
    BY <1>5, FS_CardinalityType
  <1>7. ListenerTypeOK'
    BY <1>1, <1>2, <1>5, <1>6 DEF Becomes, ListenerInv, ListenerTypeOK, PlacesRight
  <1>8. WaitsOnce'
    BY <1>1, <1>2, StillWaits DEF ListenerInv
  <1>9. PlacesRight'
    <2>1. \A d \in table' : conn'[d] \in {"served", "failed", "flooded", "unread"}
      BY <1>1, <1>3 DEF Becomes, ListenerInv, ListenerTypeOK, PlacesRight
    <2>2. places' <= MaxConn
      BY <1>1, ListenerAssumption DEF ListenerInv, ListenerTypeOK, PlacesRight
    <2> QED
      BY <1>1, <1>5, <2>1, <2>2 DEF ListenerInv, PlacesRight
  <1> QED
    BY <1>7, <1>8, <1>9 DEF ListenerInv

LEMMA ListenerKeeps ==
  ASSUME ListenerInv, [ListenerNext]_listenerVars PROVE ListenerInv'
  <1>1. CASE AcceptTCP
    BY <1>1, AcceptKeeps
  <1>2. CASE TakePlace
    BY <1>2, TakePlaceKeeps
  <1>3. ASSUME NEW c \in Conns, Connect(c) PROVE ListenerInv'
    BY <1>3, ConnectKeeps
  <1>4. ASSUME NEW c \in Conns, registerSession(c) PROVE ListenerInv'
    <2>1. conn[c] = "served" /\ table' = table \cup {c}
          /\ UNCHANGED <<backlog, accepted, places, conn>>
      BY <1>4 DEF registerSession
    <2>2. ListenerTypeOK' /\ WaitsOnce'
      BY <2>1 DEF ListenerInv, ListenerTypeOK, WaitsOnce
    <2>3. PlacesRight'
      BY <2>1 DEF ListenerInv, PlacesRight, PlaceHolders
    <2> QED
      BY <2>2, <2>3 DEF ListenerInv
  <1>5. ASSUME NEW c \in Conns, Leave(c) PROVE ListenerInv'
    <2>1. PICK at \in {"left", "failed", "flooded"} :
             Becomes(c, at) /\ table' = IF at = "left" THEN table \ {c} ELSE table
      BY <1>5 DEF Leave
    <2>2. at \in HasPlace /\ conn[c] \in HasPlace /\ at \in ConnStates /\ conn[c] # "waiting"
          /\ UNCHANGED <<backlog, accepted, places>>
      BY <1>5 DEF Leave, HasPlace, Gone, ConnStates
    <2>3. c \in table' => at \in {"served", "failed", "flooded", "unread"}
      BY <2>1
    <2>4. table' \in {table, table \ {c}}
      BY <2>1
    <2> QED
      BY <2>1, <2>2, <2>3, <2>4, PlaceKept
  <1>6. ASSUME NEW c \in Conns, Close(c) PROVE ListenerInv'
    <2>1. conn[c] = "failed" /\ Becomes(c, "closed") /\ table' = table \ {c}
          /\ UNCHANGED <<backlog, accepted, places>>
      BY <1>6 DEF Close
    <2>2. "closed" \in HasPlace /\ "failed" \in HasPlace /\ "closed" \in ConnStates
      BY DEF HasPlace, Gone, ConnStates
    <2>3. c \notin table' /\ table' \in {table, table \ {c}} /\ conn[c] # "waiting"
      BY <2>1
    <2> QED
      BY <2>1, <2>2, <2>3, PlaceKept
  <1>7. ASSUME NEW c \in Conns, GivePlace(c) PROVE ListenerInv'
    BY <1>7, GivePlaceKeeps
  <1>8. ASSUME NEW c \in Conns, PushFails(c) PROVE ListenerInv'
    <2>1. table' = table \ {c} /\ UNCHANGED <<backlog, accepted, places, conn>>
      BY <1>8 DEF PushFails
    <2>2. ListenerTypeOK' /\ WaitsOnce'
      BY <2>1 DEF ListenerInv, ListenerTypeOK, WaitsOnce
    <2>3. PlacesRight'
      BY <2>1 DEF ListenerInv, PlacesRight, PlaceHolders
    <2> QED
      BY <2>2, <2>3 DEF ListenerInv
  <1>9. CASE UNCHANGED listenerVars
    BY <1>9 DEF listenerVars, ListenerInv, ListenerTypeOK, WaitsOnce, PlacesRight, PlaceHolders
  <1> QED
    BY <1>1, <1>2, <1>3, <1>4, <1>5, <1>6, <1>7, <1>8, <1>9
    DEF ListenerNext, LoopStep, ConnStep

\* The accept loop never serves more than MaxConn connections: its places are
\* as many as the connections served or on their way out, after every end of a
\* connection, and an ordinary end leaves no session in the table (ListenTCP).
THEOREM PlacesRightCorrect == ListenerSpec => []PlacesRight
  <1>1. ListenerInv => PlacesRight
    BY DEF ListenerInv
  <1> QED
    BY <1>1, ListenerStarts, ListenerKeeps, PTL DEF ListenerSpec
=============================================================================
