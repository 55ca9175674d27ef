--------------------------- MODULE EncodingProofs ---------------------------
(***************************************************************************)
(* That encoded keys behave as the values in them, that the LSM layers are *)
(* read, scanned and merged as if they were one map, and that every C call *)
(* keeps its contract: for every base, width, filter, block size, number   *)
(* of layers and input.                                                    *)
(*                                                                         *)
(* For keys, the argument goes up from the digits of a number and the byte *)
(* order to encodings none of which begins another: those sort, scan and   *)
(* split as their parts do.  For layers, a cursor and a merge each yield   *)
(* the entries of a layer in order, up to where they fail, and there is    *)
(* only one such list.  Induction over the naturals takes a set for its    *)
(* predicate, and recursion a function for its step.                       *)
(***************************************************************************)
EXTENDS Encodings, FiniteSetTheorems, WellFoundedInduction, TLAPS

-----------------------------------------------------------------------------
(* Induction over the naturals, with a set for the predicate *)

\* A nonempty set of naturals has a least element.
LEMMA LeastNatural ==
  ASSUME NEW S \in SUBSET Nat, S # {}
  PROVE  \E m \in S : \A n \in S : m <= n
<1>1. PICK m \in S : \A n \in S : ~(<<n, m>> \in OpToRel(<, Nat))
  BY NatLessThanWellFounded, WFMin
<1>2. ASSUME NEW n \in S PROVE m <= n
  <2>1. m \in Nat /\ n \in Nat
    OBVIOUS
  <2>2. ~(n < m)
    BY <1>1, <2>1 DEF OpToRel
  <2> QED
    BY <2>1, <2>2
<1> QED
  BY <1>2

\* A set that contains 0 and with each number the next contains them all.
LEMMA Induction ==
  ASSUME NEW S, 0 \in S, \A n \in Nat : n \in S => n + 1 \in S
  PROVE  \A n \in Nat : n \in S
<1> DEFINE B == {n \in Nat : n \notin S}
<1>1. SUFFICES ASSUME B # {} PROVE FALSE
  OBVIOUS
<1>2. PICK m \in B : \A n \in B : m <= n
  <2>1. B \in SUBSET Nat
    OBVIOUS
  <2> HIDE DEF B
  <2> QED
    BY <1>1, <2>1, LeastNatural
<1>3. m \in Nat /\ m # 0
  BY <1>2
<1>4. m - 1 \in Nat /\ ~(m <= m - 1)
  BY <1>3
<1>5. m - 1 \in S
  BY <1>2, <1>4
<1>6. (m - 1) + 1 \in S
  BY <1>4, <1>5
<1> QED
  BY <1>2, <1>3, <1>6

-----------------------------------------------------------------------------
(* Powers of the base, and the digits of a number *)

\* The powers exist: each stretch of them is unique and can be prolonged.
LEMMA PowerDef ==
  Power = [n \in Nat |-> IF n = 0 THEN 1 ELSE Base * Power[n - 1]]
<1> DEFINE Upto(n, g) == /\ g \in [0..n -> Nat] /\ g[0] = 1
                         /\ \A i \in 1..n : g[i] = Base * g[i - 1]
           E == {n \in Nat : \E g : Upto(n, g)}
<1>1. \A n \in Nat : n \in E
  <2>1. 0 \in E
    <3>1. Upto(0, [i \in 0..0 |-> 1])
      OBVIOUS
    <3> QED BY <3>1
  <2>2. ASSUME NEW n \in Nat, n \in E PROVE n + 1 \in E
    <3>1. PICK g : Upto(n, g)
      BY <2>2
    <3> DEFINE h == [i \in 0..(n + 1) |-> IF i = n + 1 THEN Base * g[n] ELSE g[i]]
    <3>2. h \in [0..(n + 1) -> Nat]
      <4>1. Base * g[n] \in Nat
        BY <3>1, CodecAssumption
      <4> QED BY <3>1, <4>1
    <3>3. h[0] = 1
      BY <3>1
    <3>4. ASSUME NEW i \in 1..(n + 1) PROVE h[i] = Base * h[i - 1]
      <4>1. i \in 0..(n + 1) /\ i - 1 \in 0..(n + 1) /\ i - 1 # n + 1
        OBVIOUS
      <4>2. h[i - 1] = g[i - 1]
        BY <4>1
      <4>3. CASE i = n + 1
        BY <4>1, <4>2, <4>3
      <4>4. CASE i # n + 1
        <5>1. i \in 1..n
          BY <4>4
        <5> QED BY <3>1, <4>1, <4>2, <4>4, <5>1
      <4> QED BY <4>3, <4>4
    <3> HIDE DEF h
    <3>5. Upto(n + 1, h)
      BY <3>2, <3>3, <3>4
    <3> QED BY <3>5
  <2> HIDE DEF E
  <2> QED BY <2>1, <2>2, Induction
<1>2. ASSUME NEW n \in Nat, NEW g, Upto(n, g), NEW k \in Nat, NEW h, Upto(k, h)
      PROVE  \A i \in Nat : i <= n /\ i <= k => g[i] = h[i]
  <2> DEFINE S == {i \in Nat : i <= n /\ i <= k => g[i] = h[i]}
  <2>1. 0 \in S
    BY <1>2
  <2>2. ASSUME NEW i \in Nat, i \in S PROVE i + 1 \in S
    <3> SUFFICES ASSUME i + 1 <= n, i + 1 <= k PROVE g[i + 1] = h[i + 1]
      OBVIOUS
    <3>1. g[i] = h[i]
      BY <2>2
    <3>2. i + 1 \in 1..n /\ i + 1 \in 1..k /\ (i + 1) - 1 = i
      OBVIOUS
    <3> QED BY <1>2, <3>1, <3>2
  <2> HIDE DEF S
  <2>3. \A i \in Nat : i \in S
    BY <2>1, <2>2, Induction
  <2> QED BY <2>3 DEF S
<1> DEFINE G(n) == CHOOSE g : Upto(n, g)
           f == [n \in Nat |-> G(n)[n]]
<1>3. \A n \in Nat : Upto(n, G(n))
  BY <1>1
<1>4. ASSUME NEW n \in Nat PROVE f[n] = IF n = 0 THEN 1 ELSE Base * f[n - 1]
  <2>1. CASE n = 0
    BY <1>3, <2>1
  <2>2. CASE n # 0
    <3>1. n - 1 \in Nat /\ n \in 1..n
      BY <2>2
    <3> HIDE DEF G, Upto
    <3>2. Upto(n, G(n)) /\ Upto(n - 1, G(n - 1))
      BY <1>3, <3>1
    <3>3. G(n)[n - 1] = G(n - 1)[n - 1]
      BY <1>2, <3>1, <3>2
    <3>4. G(n)[n] = Base * G(n)[n - 1]
      BY <3>1, <3>2 DEF Upto
    <3> QED BY <2>2, <3>1, <3>3, <3>4
  <2> QED BY <2>1, <2>2
<1> HIDE DEF G
<1>5. f = [n \in Nat |-> IF n = 0 THEN 1 ELSE Base * f[n - 1]]
  BY <1>4
<1> HIDE DEF f
<1>6. \E g : g = [n \in Nat |-> IF n = 0 THEN 1 ELSE Base * g[n - 1]]
  BY <1>5
<1> QED
  BY <1>6, Zenon DEF Power
\* The powers of the base are positive, and each is the base times the one before.
LEMMA PowerFacts ==
  /\ Power[0] = 1
  /\ \A n \in Nat : Power[n] \in Nat \ {0} /\ Power[n + 1] = Base * Power[n]
<1>1. Power[0] = 1
  BY PowerDef
<1>2. ASSUME NEW n \in Nat PROVE Power[n + 1] = Base * Power[n]
  <2>1. n + 1 \in Nat /\ n + 1 # 0 /\ (n + 1) - 1 = n
    OBVIOUS
  <2> QED BY <2>1, PowerDef
<1> DEFINE S == {n \in Nat : Power[n] \in Nat \ {0}}
<1>3. \A n \in Nat : n \in S
  <2>1. 0 \in S
    BY <1>1
  <2>2. ASSUME NEW n \in Nat, n \in S PROVE n + 1 \in S
    <3>1. Base * Power[n] \in Nat \ {0}
      BY <2>2, CodecAssumption
    <3> QED BY <1>2, <3>1
  <2> HIDE DEF S
  <2> QED BY <2>1, <2>2, Induction
<1> QED BY <1>1, <1>2, <1>3

\* The range of an integer is positive and even, so half of it is its sign bit.
LEMMA RangeFacts == Range64 \in Nat \ {0} /\ Range64 = 2 * (Range64 \div 2) /\ Range64 \div 2 \in Nat
<1>1. Width - 1 \in Nat /\ Width = (Width - 1) + 1
  BY CodecAssumption
<1>2. Range64 = Base * Power[Width - 1] /\ Power[Width - 1] \in Nat /\ Range64 \in Nat \ {0}
  BY <1>1, PowerFacts DEF Range64
<1>3. PICK h \in Nat : Base = 2 * h
  <2>1. Base \div 2 \in Nat /\ Base = 2 * (Base \div 2)
    BY CodecAssumption
  <2> QED BY <2>1
<1>4. Range64 = 2 * (h * Power[Width - 1]) /\ h * Power[Width - 1] \in Nat
  BY <1>2, <1>3
<1> QED BY <1>2, <1>4

\* Quotient and remainder.
LEMMA Euclid ==
  ASSUME NEW n \in Nat, NEW a \in Nat \ {0}
  PROVE  n = a * (n \div a) + (n % a) /\ n % a \in 0..a - 1 /\ n \div a \in Nat
  OBVIOUS

\* Dividing twice is dividing by the product.
LEMMA NestedDiv ==
  ASSUME NEW n \in Nat, NEW a \in Nat \ {0}, NEW b \in Nat \ {0}
  PROVE  (n \div a) \div b = n \div (b * a)
  OBVIOUS

\* A quotient tells two numbers apart only as they are.
LEMMA DivOrder ==
  ASSUME NEW m \in Nat, NEW n \in Nat, NEW a \in Nat \ {0}, m \div a < n \div a
  PROVE  m < n
<1>1. m = a * (m \div a) + (m % a) /\ m % a \in 0..a - 1 /\ m \div a \in Nat
  BY Euclid
<1>2. n = a * (n \div a) + (n % a) /\ n % a \in 0..a - 1 /\ n \div a \in Nat
  BY Euclid
<1> QED
  OBVIOUS

\* What is left of n when its last k digits are cut.
Cut(n, k) == n \div Power[k]

\* What is left of a number without its last k digits, and its next digit.
LEMMA CutFacts ==
  ASSUME NEW n \in Nat, NEW k \in Nat
  PROVE  /\ Cut(n, k) \in Nat /\ Cut(n, 0) = n
         /\ Cut(n, k) = Base * Cut(n, k + 1) + (Cut(n, k) % Base)
         /\ Cut(n, k) % Base \in 0..Top
<1>1. Power[k] \in Nat \ {0} /\ Power[k + 1] = Base * Power[k] /\ Base \in Nat \ {0}
  BY PowerFacts, CodecAssumption
<1>2. Cut(n, k) \in Nat
  BY <1>1, Euclid DEF Cut
<1>3. Cut(n, k + 1) = Cut(n, k) \div Base
  BY <1>1, NestedDiv DEF Cut
<1>4. Cut(n, 0) = n
  BY PowerFacts DEF Cut
<1> QED BY <1>1, <1>2, <1>3, <1>4, Euclid DEF Top

\* Width digits are all a number in range has.
LEMMA CutWhole ==
  ASSUME NEW n \in 0..Range64 - 1
  PROVE  n \in Nat /\ Cut(n, Width) = 0
<1>1. Range64 \in Nat \ {0} /\ n \in Nat /\ n < Range64
  BY RangeFacts
<1>2. n = Range64 * (n \div Range64) + (n % Range64) /\ n \div Range64 \in Nat /\ n % Range64 \in Nat
  BY <1>1, Euclid
<1>3. n \div Range64 = 0
  BY <1>1, <1>2
<1> QED BY <1>1, <1>3 DEF Cut, Range64

\* to_be_bytes gives Width bytes, the digits from the most significant one.
LEMMA BeType ==
  ASSUME NEW n \in Nat
  PROVE  /\ Be(n) \in [1..Width -> 0..Top] /\ Len(Be(n)) = Width /\ Be(n) \in Seq(0..Top)
         /\ \A i \in 1..Width : Be(n)[i] = Cut(n, Width - i) % Base
<1>1. ASSUME NEW i \in 1..Width PROVE Cut(n, Width - i) % Base \in 0..Top
  <2>1. Width - i \in Nat
    BY CodecAssumption
  <2> QED BY <2>1, CutFacts
<1>2. Be(n) = [i \in 1..Width |-> Cut(n, Width - i) % Base]
  BY DEF Be, Cut
<1>3. Be(n) \in [1..Width -> 0..Top]
  BY <1>1, <1>2
<1>4. Width \in Nat
  BY CodecAssumption
<1> QED BY <1>2, <1>3, <1>4

\* Equal leading digits leave equal numbers when the rest is cut.
LEMMA EqualDigits ==
  ASSUME NEW m \in 0..Range64 - 1, NEW n \in 0..Range64 - 1, NEW i \in 0..Width,
         \A j \in 1..i : Be(m)[j] = Be(n)[j]
  PROVE  Cut(m, Width - i) = Cut(n, Width - i)
<1> DEFINE S == {k \in Nat : k <= i => Cut(m, Width - k) = Cut(n, Width - k)}
<1>0. m \in Nat /\ n \in Nat /\ Width \in Nat
  BY CutWhole, CodecAssumption
<1>1. 0 \in S
  BY <1>0, CutWhole
<1>2. ASSUME NEW k \in Nat, k \in S PROVE k + 1 \in S
  <2> SUFFICES ASSUME k + 1 <= i PROVE Cut(m, Width - (k + 1)) = Cut(n, Width - (k + 1))
    OBVIOUS
  <2> DEFINE r == Width - (k + 1)
  <2>1. r \in Nat /\ r + 1 = Width - k /\ k + 1 \in 1..i /\ k + 1 \in 1..Width
    BY <1>0
  <2>2. Cut(m, r + 1) = Cut(n, r + 1)
    BY <1>2, <2>1
  <2>3. Be(m)[k + 1] = Be(n)[k + 1]
    BY <2>1
  <2>4. Cut(m, r) % Base = Cut(n, r) % Base
    BY <1>0, <2>1, <2>3, BeType
  <2> HIDE DEF r
  <2>5. /\ Cut(m, r) = Base * Cut(m, r + 1) + (Cut(m, r) % Base)
        /\ Cut(n, r) = Base * Cut(n, r + 1) + (Cut(n, r) % Base)
    BY <1>0, <2>1, CutFacts
  <2>6. Cut(m, r) = Cut(n, r)
    BY <2>2, <2>4, <2>5
  <2> QED BY <2>6 DEF r
<1> HIDE DEF S
<1>3. \A k \in Nat : k \in S
  BY <1>1, <1>2, Induction
<1>4. i \in Nat /\ i <= i
  BY <1>0
<1> QED BY <1>3, <1>4 DEF S

-----------------------------------------------------------------------------
(* The order of byte strings *)

\* The strings differ at i, and before it they are equal.
DifferAt(a, b, i) ==
    /\ i \in DOMAIN a /\ i \in DOMAIN b
    /\ \A j \in 1..i - 1 : a[j] = b[j]
    /\ a[i] # b[i]
Differ(a, b) == \E i \in Nat : DifferAt(a, b, i)

\* What a byte string consists of.
LEMMA BytesElements ==
  ASSUME NEW a \in Bytes
  PROVE  /\ DOMAIN a = 1..Len(a) /\ Len(a) \in Nat
         /\ \A i \in 1..Len(a) : a[i] \in 0..Top /\ a[i] \in Nat
         /\ Top \in Nat
<1>1. Top \in Nat
  BY CodecAssumption DEF Top
<1> QED BY <1>1 DEF Bytes

\* Of two byte strings one starts with the other, or they differ.
LEMMA StartsOrDiffer ==
  ASSUME NEW a \in Bytes, NEW b \in Bytes
  PROVE  Starts(a, b) \/ Starts(b, a) \/ Differ(a, b)
<1> DEFINE D == {i \in Nat : i \in DOMAIN a /\ i \in DOMAIN b /\ a[i] # b[i]}
<1>0. /\ DOMAIN a = 1..Len(a) /\ Len(a) \in Nat
      /\ DOMAIN b = 1..Len(b) /\ Len(b) \in Nat
  BY BytesElements
<1>1. CASE D = {}
  <2>1. \A i \in 1..Len(a) : i \in 1..Len(b) => a[i] = b[i]
    BY <1>0, <1>1
  <2>2. CASE Len(a) <= Len(b)
    BY <1>0, <2>1, <2>2 DEF Starts
  <2>3. CASE Len(b) <= Len(a)
    BY <1>0, <2>1, <2>3 DEF Starts
  <2> QED BY <1>0, <2>2, <2>3
<1>2. CASE D # {}
  <2>1. PICK i \in D : \A n \in D : i <= n
    <3>1. D \in SUBSET Nat
      OBVIOUS
    <3> HIDE DEF D
    <3> QED BY <1>2, <3>1, LeastNatural
  <2>2. i \in Nat /\ i \in DOMAIN a /\ i \in DOMAIN b /\ a[i] # b[i]
    BY <2>1
  <2>3. ASSUME NEW j \in 1..i - 1 PROVE a[j] = b[j]
    <3>1. j \in Nat /\ j \in DOMAIN a /\ j \in DOMAIN b /\ ~(i <= j)
      BY <1>0, <2>2
    <3>2. j \notin D
      BY <2>1, <3>1
    <3> QED BY <3>1, <3>2
  <2>4. DifferAt(a, b, i)
    BY <2>2, <2>3 DEF DifferAt
  <2> QED BY <2>2, <2>4 DEF Differ
<1> QED BY <1>1, <1>2

\* Where strings differ, whatever follows, the byte there decides.
LEMMA DifferDecides ==
  ASSUME NEW a \in Bytes, NEW b \in Bytes, NEW i \in Nat, DifferAt(a, b, i)
  PROVE  /\ Less(a, b) <=> a[i] < b[i]
         /\ ~Starts(a, b) /\ ~Starts(b, a) /\ a # b
<1>0. /\ DOMAIN a = 1..Len(a) /\ Len(a) \in Nat
      /\ DOMAIN b = 1..Len(b) /\ Len(b) \in Nat
      /\ i \in 1..Len(a) /\ i \in 1..Len(b) /\ a[i] \in Nat /\ b[i] \in Nat
      /\ \A j \in 1..i - 1 : a[j] = b[j]
      /\ a[i] # b[i]
  BY BytesElements DEF DifferAt
<1>1. ASSUME a[i] < b[i] PROVE Less(a, b)
  BY <1>0, <1>1 DEF Less
<1>2. ASSUME Less(a, b) PROVE a[i] < b[i]
  <2>1. PICK k \in 1..Len(b) : /\ k <= Len(a) + 1 /\ \A j \in 1..k - 1 : a[j] = b[j]
                               /\ k <= Len(a) => a[k] < b[k]
    BY <1>2 DEF Less
  <2>2. CASE k = i
    BY <1>0, <2>1, <2>2
  <2>3. CASE k < i
    <3>1. k \in 1..i - 1 /\ k <= Len(a) /\ a[k] \in Nat
      BY <1>0, <2>1, <2>3, BytesElements
    <3> QED BY <1>0, <2>1, <3>1
  <2>4. CASE i < k
    <3>1. i \in 1..k - 1
      BY <1>0, <2>1, <2>4
    <3> QED BY <1>0, <2>1, <3>1
  <2> QED BY <1>0, <2>1, <2>2, <2>3, <2>4
<1>3. ~Starts(a, b) /\ ~Starts(b, a)
  BY <1>0 DEF Starts
<1> QED BY <1>0, <1>1, <1>2, <1>3

\* Which byte two strings first differ in does not depend on their order.
LEMMA DifferSymmetric ==
  ASSUME NEW a, NEW b, NEW i, DifferAt(a, b, i)
  PROVE  DifferAt(b, a, i)
  BY DEF DifferAt

\* A string comes after the strings it starts with, and after no string that
\* starts with it.
LEMMA StartsOrder ==
  ASSUME NEW a \in Bytes, NEW b \in Bytes, Starts(a, b)
  PROVE  ~Less(b, a) /\ (Less(a, b) <=> a # b) /\ (Starts(b, a) <=> a = b)
<1>0. /\ DOMAIN a = 1..Len(a) /\ Len(a) \in Nat
      /\ DOMAIN b = 1..Len(b) /\ Len(b) \in Nat
      /\ Len(a) <= Len(b) /\ \A j \in 1..Len(a) : a[j] = b[j] /\ a[j] \in Nat
  BY BytesElements DEF Starts
<1>1. ASSUME Less(b, a) PROVE FALSE
  <2>1. PICK k \in 1..Len(a) : k <= Len(b) => b[k] < a[k]
    BY <1>1 DEF Less
  <2>2. a[k] = b[k] /\ a[k] \in Nat /\ k <= Len(b)
    BY <1>0, <2>1
  <2> QED BY <2>1, <2>2
<1>2. CASE Len(a) = Len(b)
  <2>1. a = b
    BY <1>0, <1>2 DEF Bytes
  <2>2. Starts(b, a)
    BY <2>1 DEF Starts
  <2> QED BY <1>1, <2>1, <2>2
<1>3. CASE Len(a) < Len(b)
  <2>1. Len(a) + 1 \in 1..Len(b) /\ \A j \in 1..(Len(a) + 1) - 1 : a[j] = b[j]
    BY <1>0, <1>3
  <2>2. Less(a, b)
    BY <1>0, <2>1 DEF Less
  <2>3. a # b /\ ~Starts(b, a)
    BY <1>0, <1>3 DEF Starts
  <2> QED BY <1>1, <2>2, <2>3
<1>4. Len(a) = Len(b) \/ Len(a) < Len(b)
  <2>1. Len(a) \in Nat /\ Len(b) \in Nat /\ Len(a) <= Len(b)
    BY <1>0
  <2> HIDE DEF Bytes
  <2> DEFINE m == Len(a)  n == Len(b)
  <2>2. m \in Nat /\ n \in Nat /\ m <= n
    BY <2>1
  <2> HIDE DEF m, n
  <2>3. m = n \/ m < n
    BY <2>2
  <2> QED BY <2>3 DEF m, n
<1> QED BY <1>2, <1>3, <1>4

\* A string starts with itself.
LEMMA StartsSelf == ASSUME NEW a PROVE Starts(a, a) <=> Len(a) <= Len(a)
  BY DEF Starts

\* The byte order is total and irreflexive.
LEMMA LessTotal ==
  ASSUME NEW a \in Bytes, NEW b \in Bytes
  PROVE  /\ a = b \/ Less(a, b) \/ Less(b, a)
         /\ ~(Less(a, b) /\ Less(b, a)) /\ ~Less(a, a)
<1>1. CASE Starts(a, b)
  <2>1. Starts(a, a)
    BY BytesElements, StartsSelf
  <2> QED BY <1>1, <2>1, StartsOrder
<1>2. CASE Starts(b, a)
  <2>1. Starts(a, a)
    BY BytesElements, StartsSelf
  <2> QED BY <1>2, <2>1, StartsOrder
<1>3. CASE Differ(a, b)
  <2>1. PICK i \in Nat : DifferAt(a, b, i)
    BY <1>3 DEF Differ
  <2>2. Less(a, b) <=> a[i] < b[i]
    BY <2>1, DifferDecides
  <2>3. Less(b, a) <=> b[i] < a[i]
    BY <2>1, DifferSymmetric, DifferDecides
  <2>4. a[i] \in Nat /\ b[i] \in Nat /\ a[i] # b[i]
    BY <2>1, BytesElements DEF DifferAt
  <2>5. Starts(a, a)
    BY BytesElements, StartsSelf
  <2> QED BY <2>2, <2>3, <2>4, <2>5, StartsOrder
<1> QED BY <1>1, <1>2, <1>3, StartsOrDiffer

\* A concatenation is a byte string that starts with its first part.
LEMMA ConcatBytes ==
  ASSUME NEW a \in Bytes, NEW s \in Bytes
  PROVE  /\ a \o s \in Bytes /\ Len(a \o s) = Len(a) + Len(s)
         /\ DOMAIN a \subseteq DOMAIN (a \o s)
         /\ \A i \in DOMAIN a : (a \o s)[i] = a[i]
         /\ \A i \in 1..Len(s) : (a \o s)[Len(a) + i] = s[i]
         /\ Starts(a, a \o s)
<1>1. a \o s \in Bytes /\ Len(a \o s) = Len(a) + Len(s) /\ Len(a) \in Nat /\ Len(s) \in Nat
  BY DEF Bytes
<1>2. \A i \in 1..Len(a) : (a \o s)[i] = a[i]
  BY DEF Bytes
<1>3. \A i \in 1..Len(s) : (a \o s)[Len(a) + i] = s[i]
  BY DEF Bytes
<1>4. DOMAIN a = 1..Len(a) /\ DOMAIN (a \o s) = 1..Len(a \o s)
  BY <1>1, BytesElements
<1>5. Starts(a, a \o s)
  BY <1>1, <1>2, <1>4 DEF Starts
<1> QED BY <1>1, <1>2, <1>3, <1>4, <1>5

\* The length of a concatenation.
LEMMA ConcatLen ==
  ASSUME NEW a \in Bytes, NEW s \in Bytes
  PROVE  a \o s \in Bytes /\ Len(a \o s) = Len(a) + Len(s)
  BY ConcatBytes

\* Concatenation is associative.
LEMMA ConcatAssociative ==
  ASSUME NEW a \in Bytes, NEW b \in Bytes, NEW c \in Bytes
  PROVE  (a \o b) \o c = a \o (b \o c)
  BY DEF Bytes

\* Strings that differ in a byte still do whatever follows them.
LEMMA DifferConcat ==
  ASSUME NEW a \in Bytes, NEW b \in Bytes, NEW i \in Nat, DifferAt(a, b, i),
         NEW s \in Bytes, NEW t \in Bytes
  PROVE  DifferAt(a \o s, b \o t, i) /\ DifferAt(a \o s, b, i) /\ DifferAt(a, b \o t, i)
<1>1. /\ DOMAIN a = 1..Len(a) /\ Len(a) \in Nat
      /\ DOMAIN b = 1..Len(b) /\ Len(b) \in Nat
  BY BytesElements
<1>2. \A j \in 1..i : j \in DOMAIN a /\ j \in DOMAIN b
  BY <1>1 DEF DifferAt
<1>3. \A j \in 1..i : (a \o s)[j] = a[j] /\ (b \o t)[j] = b[j]
  BY <1>2, ConcatBytes
<1>4. i \in DOMAIN (a \o s) /\ i \in DOMAIN (b \o t) /\ i \in 1..i
  BY <1>1, ConcatBytes DEF DifferAt
<1> QED BY <1>3, <1>4 DEF DifferAt

-----------------------------------------------------------------------------
(* Bounds of scans *)

\* A bounded nonempty set of naturals has a greatest element.
LEMMA MaxNatural ==
  ASSUME NEW S \in SUBSET Nat, NEW n \in Nat, \A s \in S : s <= n, S # {}
  PROVE  \E m \in S : \A s \in S : s <= m
<1> DEFINE T == {i \in Nat : \E s \in S : i = n - s}
<1>1. T \in SUBSET Nat /\ T # {}
  <2>1. PICK s \in S : TRUE
    OBVIOUS
  <2>2. n - s \in T
    BY <2>1
  <2> QED BY <2>2
<1>2. PICK x \in T : \A y \in T : x <= y
  <2> HIDE DEF T
  <2> QED BY <1>1, LeastNatural
<1>3. PICK m \in S : x = n - m
  BY <1>2
<1>4. ASSUME NEW s \in S PROVE s <= m
  <2>1. n - s \in T /\ s \in Nat /\ m \in Nat
    OBVIOUS
  <2>2. x <= n - s
    BY <1>2, <2>1
  <2> QED BY <1>3, <2>1, <2>2
<1> QED BY <1>4

\* prefix_upper_bound: the byte that grows, and what is before and behind it.
LEMMA UpperBoundShape ==
  ASSUME NEW p \in Bytes, PrefixUpperBound(p) # <<>>
  PROVE  \E i \in 1..Len(p), u \in Bytes :
            /\ PrefixUpperBound(p) = <<u>> /\ Len(u) = i
            /\ \A j \in 1..i - 1 : u[j] = p[j]
            /\ u[i] = p[i] + 1
            /\ \A j \in i + 1..Len(p) : p[j] = Top
<1> DEFINE grow == {i \in DOMAIN p : p[i] # Top}
<1>0. DOMAIN p = 1..Len(p) /\ Len(p) \in Nat /\ Top \in Nat /\ \A i \in 1..Len(p) : p[i] \in 0..Top
  BY BytesElements
<1>1. grow # {}
  BY DEF PrefixUpperBound
<1>2. \E x \in grow : \A y \in grow : y <= x
  <2>1. grow \in SUBSET Nat /\ \A s \in grow : s <= Len(p)
    BY <1>0
  <2> HIDE DEF grow
  <2> QED BY <1>0, <1>1, <2>1, MaxNatural
<1> DEFINE i == CHOOSE x \in grow : \A y \in grow : y <= x
           u == Append(SubSeq(p, 1, i - 1), p[i] + 1)
<1>3. i \in grow /\ \A y \in grow : y <= i
  BY <1>2
<1>4. PrefixUpperBound(p) = <<u>>
  BY <1>1 DEF PrefixUpperBound
<1> HIDE DEF i
<1>5. i \in 1..Len(p) /\ p[i] # Top /\ p[i] + 1 \in 0..Top
  BY <1>0, <1>3
<1>6. \A j \in i + 1..Len(p) : p[j] = Top
  <2> SUFFICES ASSUME NEW j \in i + 1..Len(p), p[j] # Top PROVE FALSE
    OBVIOUS
  <2>1. j \in 1..Len(p) /\ ~(j <= i)
    BY <1>0, <1>5
  <2>2. j \in grow
    BY <1>0, <2>1
  <2> QED BY <1>3, <2>1, <2>2
<1>7. /\ SubSeq(p, 1, i - 1) \in Bytes /\ Len(SubSeq(p, 1, i - 1)) = i - 1
      /\ \A j \in 1..i - 1 : SubSeq(p, 1, i - 1)[j] = p[j]
  BY <1>0, <1>5 DEF Bytes
<1>8. u \in Bytes /\ Len(u) = i /\ u[i] = p[i] + 1 /\ \A j \in 1..i - 1 : u[j] = p[j]
  BY <1>0, <1>5, <1>7 DEF Bytes
<1> QED BY <1>4, <1>5, <1>6, <1>8

\* The strings below the bound are those before the prefix and those with it.
LEMMA PastPrefixExact ==
  ASSUME NEW p \in Bytes, NEW x \in Bytes, PrefixUpperBound(p) # <<>>
  PROVE  Less(x, PrefixUpperBound(p)[1]) <=> (Less(x, p) \/ Starts(p, x))
<1>1. PICK i \in 1..Len(p), u \in Bytes :
            /\ PrefixUpperBound(p) = <<u>> /\ Len(u) = i
            /\ \A j \in 1..i - 1 : u[j] = p[j]
            /\ u[i] = p[i] + 1
            /\ \A j \in i + 1..Len(p) : p[j] = Top
  BY UpperBoundShape
<1>2. PrefixUpperBound(p)[1] = u
  BY <1>1
<1>3. /\ DOMAIN p = 1..Len(p) /\ Len(p) \in Nat /\ DOMAIN u = 1..i /\ i \in Nat
      /\ DOMAIN x = 1..Len(x) /\ Len(x) \in Nat /\ Top \in Nat
      /\ \A j \in 1..Len(p) : p[j] \in 0..Top /\ p[j] \in Nat
      /\ \A j \in 1..Len(x) : x[j] \in 0..Top /\ x[j] \in Nat
      /\ u[i] \in Nat
  BY <1>1, BytesElements
\* A string that agrees with the prefix up to the byte that grows.
<1>4. ASSUME i \in 1..Len(x), \A j \in 1..i : x[j] = p[j] PROVE Less(x, u)
  <2>1. DifferAt(x, u, i) /\ x[i] < u[i]
    BY <1>1, <1>3, <1>4 DEF DifferAt
  <2> QED BY <1>3, <2>1, DifferDecides
<1>5. ASSUME Starts(p, x) PROVE Less(x, u)
  BY <1>1, <1>3, <1>4, <1>5 DEF Starts
<1>6. ASSUME Less(x, p) PROVE Less(x, u)
  <2>1. CASE Starts(x, p)
    <3>1. \A j \in 1..Len(x) : x[j] = p[j]
      BY <1>3, <2>1 DEF Starts
    <3>2. CASE i <= Len(x)
      BY <1>3, <1>4, <3>1, <3>2
    <3>3. CASE Len(x) < i
      <4>1. Starts(x, u)
        BY <1>1, <1>3, <3>1, <3>3 DEF Starts
      <4>2. x # u
        BY <1>1, <1>3, <3>3
      <4> QED BY <4>1, <4>2, StartsOrder
    <3> QED BY <1>3, <3>2, <3>3
  <2>2. CASE Starts(p, x)
    BY <1>6, <2>2, StartsOrder
  <2>3. CASE Differ(x, p)
    <3>1. PICK k \in Nat : DifferAt(x, p, k)
      BY <2>3 DEF Differ
    <3>2. x[k] < p[k] /\ k \in 1..Len(x) /\ k \in 1..Len(p) /\ \A j \in 1..k - 1 : x[j] = p[j]
      BY <1>3, <1>6, <3>1, DifferDecides DEF DifferAt
    <3>3. CASE k <= i
      <4>1. x[k] < u[k] /\ k \in 1..i /\ \A j \in 1..k - 1 : x[j] = u[j]
        BY <1>1, <1>3, <3>2, <3>3
      <4>2. DifferAt(x, u, k)
        BY <1>3, <3>2, <4>1 DEF DifferAt
      <4> QED BY <3>1, <4>1, <4>2, DifferDecides
    <3>4. CASE i < k
      BY <1>3, <1>4, <3>2, <3>4
    <3> QED BY <1>3, <3>2, <3>3, <3>4
  <2> QED BY <2>1, <2>2, <2>3, StartsOrDiffer
<1>7. ASSUME Less(x, u), ~Less(x, p), ~Starts(p, x) PROVE FALSE
  <2>1. Differ(x, p)
    <3>1. CASE Starts(x, p)
      BY <1>7, <3>1, StartsOrder
    <3> QED BY <1>7, <3>1, StartsOrDiffer
  <2>2. PICK k \in Nat : DifferAt(x, p, k)
    BY <2>1 DEF Differ
  <2>3. p[k] < x[k] /\ k \in 1..Len(x) /\ k \in 1..Len(p) /\ \A j \in 1..k - 1 : x[j] = p[j]
    <3>1. k \in 1..Len(x) /\ k \in 1..Len(p) /\ (\A j \in 1..k - 1 : x[j] = p[j]) /\ x[k] # p[k]
      BY <1>3, <2>2 DEF DifferAt
    <3>2. ~(x[k] < p[k])
      BY <1>7, <2>2, DifferDecides
    <3> QED BY <1>3, <3>1, <3>2
  <2>4. ~(i < k)
    BY <1>1, <1>3, <2>3
  <2>5. CASE k = i /\ x[k] = u[k]
    <3>1. Starts(u, x)
      BY <1>1, <1>3, <2>3, <2>5 DEF Starts
    <3> QED BY <1>7, <3>1, StartsOrder
  <2>6. CASE ~(k = i /\ x[k] = u[k])
    <3>1. u[k] < x[k] /\ k \in 1..i /\ (\A j \in 1..k - 1 : x[j] = u[j]) /\ u[k] \in Nat
      BY <1>1, <1>3, <2>3, <2>4, <2>6
    <3>2. DifferAt(x, u, k)
      BY <1>3, <2>3, <3>1 DEF DifferAt
    <3>3. x[k] < u[k]
      BY <1>7, <3>2, DifferDecides
    <3> QED BY <1>3, <2>3, <3>1, <3>3
  <2> QED BY <2>5, <2>6
<1> QED BY <1>2, <1>5, <1>6, <1>7

\* Without a bound, all of the prefix is the greatest byte.
LEMMA NoUpperBound ==
  ASSUME NEW p \in Bytes, PrefixUpperBound(p) = <<>>
  PROVE  \A j \in 1..Len(p) : p[j] = Top
<1> SUFFICES ASSUME NEW j \in 1..Len(p), p[j] # Top PROVE FALSE
  OBVIOUS
<1>1. j \in {i \in DOMAIN p : p[i] # Top}
  BY BytesElements
<1> DEFINE u == Append(SubSeq(p, 1, (CHOOSE x \in {i \in DOMAIN p : p[i] # Top} : \A y \in {i \in DOMAIN p : p[i] # Top} : y <= x) - 1), p[CHOOSE x \in {i \in DOMAIN p : p[i] # Top} : \A y \in {i \in DOMAIN p : p[i] # Top} : y <= x] + 1)
<1>2. PrefixUpperBound(p) = <<u>>
  BY <1>1 DEF PrefixUpperBound
<1> HIDE DEF u
<1>3. <<u>> # <<>>
  OBVIOUS
<1> QED BY <1>2, <1>3

\* Behind a prefix of greatest bytes only, which has no upper bound
\* (prefix_upper_bound gives none), there are only strings that start with it.
LEMMA AllTop ==
  ASSUME NEW p \in Bytes, NEW x \in Bytes, PrefixUpperBound(p) = <<>>
  PROVE  Less(x, p) \/ Starts(p, x)
<1>1. \A j \in 1..Len(p) : p[j] = Top
  BY NoUpperBound
<1>2. CASE Starts(x, p)
  <2>1. CASE x = p
    BY <1>2, <2>1
  <2>2. CASE x # p
    BY <1>2, <2>2, StartsOrder
  <2> QED BY <2>1, <2>2
<1>3. CASE Differ(x, p)
  <2>1. PICK k \in Nat : DifferAt(x, p, k)
    BY <1>3 DEF Differ
  <2>2. k \in 1..Len(p) /\ k \in 1..Len(x) /\ x[k] # p[k] /\ x[k] \in 0..Top /\ Top \in Nat
    BY <2>1, BytesElements DEF DifferAt
  <2>3. x[k] < p[k]
    BY <1>1, <2>2
  <2> QED BY <2>1, <2>3, DifferDecides
<1> QED BY <1>2, <1>3, StartsOrDiffer

\* scan_prefix finds the keys that start with the prefix, and no others.
LEMMA ScanPrefixExact ==
  ASSUME NEW p \in Bytes, NEW x \in Bytes
  PROVE  /\ ScanPrefix(p, x) <=> Starts(p, x)
         /\ Below(PastPrefix(p, "excluded"), x) <=> (Less(x, p) \/ Starts(p, x))
         /\ PrefixUpperBound(p) # <<>> =>
               (Above(PastPrefix(p, "included"), x) <=> ~(Less(x, p) \/ Starts(p, x)))
<1>1. Above(Included(p), x) <=> ~Less(x, p)
  BY DEF Above, Included
<1>2. Starts(p, x) => ~Less(x, p)
  BY StartsOrder
<1>3. Below(PastPrefix(p, "excluded"), x) <=> (Less(x, p) \/ Starts(p, x))
  <2>1. CASE PrefixUpperBound(p) = <<>>
    BY <2>1, AllTop DEF Below, PastPrefix, Unbounded
  <2>2. CASE PrefixUpperBound(p) # <<>>
    BY <2>2, PastPrefixExact DEF Below, PastPrefix
  <2> QED BY <2>1, <2>2
<1>4. ASSUME PrefixUpperBound(p) # <<>>
      PROVE  Above(PastPrefix(p, "included"), x) <=> ~(Less(x, p) \/ Starts(p, x))
  BY <1>4, PastPrefixExact DEF Above, PastPrefix
<1> QED BY <1>1, <1>2, <1>3, <1>4 DEF ScanPrefix

-----------------------------------------------------------------------------
(* Encodings none of which begins another *)

Apart(a, b) == a = b \/ Differ(a, b)

\* Strings of one length are equal or differ.
LEMMA SameLength ==
  ASSUME NEW a \in Bytes, NEW b \in Bytes, Len(a) = Len(b)
  PROVE  Apart(a, b)
<1>1. Starts(a, b) \/ Starts(b, a) => a = b
  BY DEF Starts, Bytes
<1> QED BY <1>1, StartsOrDiffer DEF Apart

\* What follows an encoding decides nothing.
LEMMA Suffixed ==
  ASSUME NEW a \in Bytes, NEW b \in Bytes, Apart(a, b), NEW s \in Bytes
  PROVE  /\ Less(a \o s, b) <=> Less(a, b)
         /\ Starts(b, a \o s) <=> a = b
<1>0. a \o s \in Bytes
  BY ConcatBytes
<1>1. CASE a = b
  <2>1. Starts(b, a \o s)
    BY <1>1, ConcatBytes
  <2>2. ~Less(a \o s, b)
    BY <1>0, <2>1, StartsOrder
  <2>3. ~Less(a, b)
    BY <1>1, LessTotal
  <2> QED BY <1>1, <2>1, <2>2, <2>3
<1>2. CASE Differ(a, b)
  <2>1. PICK i \in Nat : DifferAt(a, b, i)
    BY <1>2 DEF Differ
  <2>2. DifferAt(a \o s, b, i) /\ (a \o s)[i] = a[i]
    <3>1. <<>> \in Bytes
      BY DEF Bytes
    <3>2. i \in DOMAIN a
      BY <2>1 DEF DifferAt
    <3> QED BY <2>1, <3>1, <3>2, DifferConcat, ConcatBytes
  <2>3. Less(a \o s, b) <=> (a \o s)[i] < b[i]
    BY <1>0, <2>2, DifferDecides
  <2>4. ~Starts(b, a \o s)
    BY <1>0, <2>2, DifferDecides
  <2>5. (Less(a, b) <=> a[i] < b[i]) /\ a # b
    BY <2>1, DifferDecides
  <2> QED BY <2>2, <2>3, <2>4, <2>5
<1> QED BY <1>1, <1>2 DEF Apart

\* A common prefix decides nothing either.
LEMMA Prefixed ==
  ASSUME NEW a \in Bytes, NEW s \in Bytes, NEW t \in Bytes
  PROVE  /\ \A i \in Nat : DifferAt(s, t, i) => DifferAt(a \o s, a \o t, Len(a) + i)
         /\ Starts(s, t) => Starts(a \o s, a \o t)
         /\ a \o s = a \o t => s = t
         /\ Less(a \o s, a \o t) <=> Less(s, t)
<1>00. Len(a) \in Nat /\ Len(s) \in Nat /\ Len(t) \in Nat
  BY BytesElements
<1>0. /\ a \o s \in Bytes /\ a \o t \in Bytes
      /\ Len(a \o s) = Len(a) + Len(s) /\ Len(a \o t) = Len(a) + Len(t)
      /\ Len(a) \in Nat /\ Len(s) \in Nat /\ Len(t) \in Nat
      /\ DOMAIN s = 1..Len(s) /\ DOMAIN t = 1..Len(t)
      /\ DOMAIN (a \o s) = 1..Len(a) + Len(s) /\ DOMAIN (a \o t) = 1..Len(a) + Len(t)
  BY ConcatBytes, BytesElements
<1>1. /\ \A j \in 1..Len(a) : (a \o s)[j] = a[j] /\ (a \o t)[j] = a[j]
      /\ \A j \in 1..Len(s) : (a \o s)[Len(a) + j] = s[j]
      /\ \A j \in 1..Len(t) : (a \o t)[Len(a) + j] = t[j]
  <2>1. \A j \in 1..Len(s) : (a \o s)[Len(a) + j] = s[j]
    BY ConcatBytes
  <2>2. \A j \in 1..Len(t) : (a \o t)[Len(a) + j] = t[j]
    BY ConcatBytes
  <2>3. DOMAIN a = 1..Len(a)
    BY BytesElements
  <2>4. \A j \in DOMAIN a : (a \o s)[j] = a[j] /\ (a \o t)[j] = a[j]
    BY ConcatBytes
  <2> QED BY <2>1, <2>2, <2>3, <2>4, Zenon
<1>2. ASSUME NEW j \in Nat, j > Len(a), j <= Len(a) + Len(s), j <= Len(a) + Len(t)
      PROVE  /\ j - Len(a) \in 1..Len(s) /\ j - Len(a) \in 1..Len(t)
             /\ (a \o s)[j] = s[j - Len(a)] /\ (a \o t)[j] = t[j - Len(a)]
  <2> DEFINE m == j - Len(a)
  <2>1. m \in 1..Len(s) /\ m \in 1..Len(t) /\ Len(a) + m = j
    BY <1>0, <1>2
  <2>2. (a \o s)[Len(a) + m] = s[m] /\ (a \o t)[Len(a) + m] = t[m]
    BY <1>1, <2>1
  <2> QED BY <2>1, <2>2
<1>3. ASSUME NEW i \in Nat, DifferAt(s, t, i) PROVE DifferAt(a \o s, a \o t, Len(a) + i)
  <2>1. i \in 1..Len(s) /\ i \in 1..Len(t) /\ s[i] # t[i] /\ \A j \in 1..i - 1 : s[j] = t[j]
    BY <1>0, <1>3 DEF DifferAt
  <2>2. Len(a) + i \in DOMAIN (a \o s) /\ Len(a) + i \in DOMAIN (a \o t)
    BY <1>0, <2>1
  <2>3. (a \o s)[Len(a) + i] # (a \o t)[Len(a) + i]
    BY <1>1, <2>1
  <2>4. ASSUME NEW j \in 1..(Len(a) + i) - 1 PROVE (a \o s)[j] = (a \o t)[j]
    <3>1. CASE j <= Len(a)
      BY <1>0, <1>1, <3>1
    <3>2. CASE j > Len(a)
      <4>1. j \in Nat /\ j <= Len(a) + Len(s) /\ j <= Len(a) + Len(t) /\ j - Len(a) \in 1..i - 1
        BY <1>0, <2>1, <3>2
      <4> QED BY <1>2, <2>1, <3>2, <4>1
    <3>3. j <= Len(a) \/ j > Len(a)
      BY <1>00
    <3> QED BY <3>1, <3>2, <3>3, Zenon
  <2> QED BY <2>2, <2>3, <2>4 DEF DifferAt
<1>4. ASSUME Starts(s, t) PROVE Starts(a \o s, a \o t)
  <2>1. Len(s) <= Len(t) /\ \A j \in 1..Len(s) : s[j] = t[j]
    BY <1>0, <1>4 DEF Starts
  <2>2. ASSUME NEW j \in 1..Len(a) + Len(s) PROVE (a \o s)[j] = (a \o t)[j]
    <3>1. CASE j <= Len(a)
      BY <1>0, <1>1, <3>1
    <3>2. CASE j > Len(a)
      <4>1. j \in Nat /\ j <= Len(a) + Len(s) /\ j <= Len(a) + Len(t) /\ j - Len(a) \in 1..Len(s)
        BY <1>0, <2>1, <3>2
      <4> QED BY <1>2, <2>1, <3>2, <4>1
    <3>3. j <= Len(a) \/ j > Len(a)
      BY <1>00
    <3> QED BY <3>1, <3>2, <3>3, Zenon
  <2>3. Len(a) + Len(s) <= Len(a) + Len(t)
    BY <1>0, <2>1
  <2> QED BY <1>0, <2>2, <2>3 DEF Starts
<1>5. ASSUME a \o s = a \o t PROVE s = t
  <2>1. Len(s) = Len(t)
    <3>1. Len(a \o s) = Len(a \o t)
      BY <1>5
    <3>2. Len(a) + Len(s) = Len(a) + Len(t)
      BY <1>0, <3>1, Zenon
    <3> QED BY <1>00, <3>2
  <2>2. \A j \in 1..Len(s) : s[j] = t[j]
    BY <1>1, <1>5, <2>1
  <2> QED BY <2>1, <2>2 DEF Bytes
<1>6. CASE Starts(s, t)
  <2>1. Less(s, t) <=> s # t
    BY <1>6, StartsOrder
  <2>2. Less(a \o s, a \o t) <=> a \o s # a \o t
    BY <1>0, <1>4, <1>6, StartsOrder
  <2> QED BY <1>3, <1>4, <1>5, <2>1, <2>2
<1>7. CASE Starts(t, s)
  <2>1. ~Less(s, t)
    BY <1>7, StartsOrder
  <2>2. Len(t) <= Len(s) /\ \A j \in 1..Len(t) : t[j] = s[j]
    BY <1>0, <1>7 DEF Starts
  <2>3. ASSUME NEW j \in 1..Len(a) + Len(t) PROVE (a \o t)[j] = (a \o s)[j]
    <3>1. CASE j <= Len(a)
      BY <1>0, <1>1, <3>1
    <3>2. CASE j > Len(a)
      <4>1. j \in Nat /\ j <= Len(a) + Len(s) /\ j <= Len(a) + Len(t) /\ j - Len(a) \in 1..Len(t)
        BY <1>0, <2>2, <3>2
      <4> QED BY <1>2, <2>2, <3>2, <4>1
    <3>3. j <= Len(a) \/ j > Len(a)
      BY <1>00
    <3> QED BY <3>1, <3>2, <3>3, Zenon
  <2>4. Starts(a \o t, a \o s)
    <3>1. Len(a) + Len(t) <= Len(a) + Len(s)
      BY <1>0, <2>2
    <3> QED BY <1>0, <2>3, <3>1 DEF Starts
  <2>5. ~Less(a \o s, a \o t)
    BY <1>0, <2>4, StartsOrder
  <2> QED BY <1>3, <1>4, <1>5, <2>1, <2>5
<1>8. CASE Differ(s, t)
  <2>1. PICK i \in Nat : DifferAt(s, t, i)
    BY <1>8 DEF Differ
  <2>2. Less(s, t) <=> s[i] < t[i]
    BY <2>1, DifferDecides
  <2>3. Len(a) + i \in Nat /\ DifferAt(a \o s, a \o t, Len(a) + i)
    BY <1>0, <1>3, <2>1
  <2>4. Less(a \o s, a \o t) <=> (a \o s)[Len(a) + i] < (a \o t)[Len(a) + i]
    BY <1>0, <2>3, DifferDecides
  <2>5. i \in 1..Len(s) /\ i \in 1..Len(t)
    BY <1>0, <2>1 DEF DifferAt
  <2> QED BY <1>1, <1>3, <1>4, <1>5, <2>2, <2>4, <2>5
<1> QED BY <1>6, <1>7, <1>8, StartsOrDiffer

\* Encodings written one after the other.
LEMMA ApartConcat ==
  ASSUME NEW a \in Bytes, NEW b \in Bytes, NEW s \in Bytes, NEW t \in Bytes, Apart(a, b), Apart(s, t)
  PROVE  Apart(a \o s, b \o t)
<1>1. CASE a = b
  <2>2. ASSUME Differ(s, t) PROVE Differ(a \o s, b \o t)
    <3>1. PICK i \in Nat : DifferAt(s, t, i)
      BY <2>2 DEF Differ
    <3>2. DifferAt(a \o s, a \o t, Len(a) + i) /\ Len(a) + i \in Nat
      BY <3>1, Prefixed, BytesElements
    <3> QED BY <1>1, <3>2 DEF Differ
  <2> QED BY <1>1, <2>2 DEF Apart
<1>2. CASE Differ(a, b)
  <2>1. PICK i \in Nat : DifferAt(a, b, i)
    BY <1>2 DEF Differ
  <2>2. DifferAt(a \o s, b \o t, i)
    BY <2>1, DifferConcat
  <2>3. Differ(a \o s, b \o t)
    BY <2>2 DEF Differ
  <2> QED BY <2>3 DEF Apart
<1> QED BY <1>1, <1>2 DEF Apart

\* Concatenations that begin with encodings of which none begins another are
\* equal part by part.
LEMMA ConcatEqual ==
  ASSUME NEW a \in Bytes, NEW b \in Bytes, NEW s \in Bytes, NEW t \in Bytes, Apart(a, b),
         a \o s = b \o t
  PROVE  a = b /\ s = t
<1>1. CASE a = b
  <2>1. a \o s = a \o t
    BY <1>1
  <2> QED BY <1>1, <2>1, Prefixed
<1>2. CASE Differ(a, b)
  <2>1. PICK i \in Nat : DifferAt(a, b, i)
    BY <1>2 DEF Differ
  <2>2. DifferAt(a \o s, b \o t, i) /\ a \o s \in Bytes /\ b \o t \in Bytes
    BY <2>1, DifferConcat, ConcatLen
  <2> QED BY <2>2, DifferDecides
<1> QED BY <1>1, <1>2 DEF Apart

-----------------------------------------------------------------------------
(* Integers *)

\* Big-endian integers order as the integers, and no two are equal.
LEMMA BeOrder ==
  ASSUME NEW m \in Ids, NEW n \in Ids
  PROVE  /\ Apart(Be(m), Be(n)) /\ (Be(m) = Be(n) <=> m = n)
         /\ Less(Be(m), Be(n)) <=> m < n
<1>0. m \in Nat /\ n \in Nat /\ Width \in Nat /\ m \in 0..Range64 - 1 /\ n \in 0..Range64 - 1
  BY CutWhole, CodecAssumption DEF Ids
<1>1. Be(m) \in Bytes /\ Be(n) \in Bytes /\ Len(Be(m)) = Width /\ Len(Be(n)) = Width
  BY <1>0, BeType DEF Bytes
<1>2. ASSUME Be(m) = Be(n) PROVE m = n
  <2>1. Width \in 0..Width /\ Width - Width = 0
    BY <1>0
  <2>2. Cut(m, 0) = Cut(n, 0)
    BY <1>0, <1>2, <2>1, EqualDigits
  <2> QED BY <1>0, <2>2, CutFacts
<1>3. Apart(Be(m), Be(n))
  BY <1>1, SameLength
<1>4. ASSUME NEW a \in Ids, NEW b \in Ids, NEW i \in Nat, DifferAt(Be(a), Be(b), i), Be(a)[i] < Be(b)[i]
      PROVE  a < b
  <2>0. a \in Nat /\ b \in Nat /\ a \in 0..Range64 - 1 /\ b \in 0..Range64 - 1
    BY CutWhole DEF Ids
  <2>1. i \in 1..Width
    <3>1. DOMAIN Be(a) = 1..Width
      BY <2>0, BeType
    <3> QED BY <1>4, <3>1 DEF DifferAt
  <2> DEFINE r == Width - i
  <2>2. r \in Nat /\ Width - (i - 1) = r + 1 /\ i - 1 \in 0..Width
    BY <1>0, <2>1
  <2>3. \A j \in 1..i - 1 : Be(a)[j] = Be(b)[j]
    BY <1>4 DEF DifferAt
  <2>4. Cut(a, r + 1) = Cut(b, r + 1)
    BY <2>0, <2>2, <2>3, EqualDigits
  <2>5. Cut(a, r) % Base < Cut(b, r) % Base
    BY <1>4, <2>0, <2>1, BeType
  <2> HIDE DEF r
  <2>6. /\ Cut(a, r) = Base * Cut(a, r + 1) + (Cut(a, r) % Base) /\ Cut(a, r) \in Nat
        /\ Cut(a, r) % Base \in 0..Top
    BY <2>0, <2>2, CutFacts
  <2>7. /\ Cut(b, r) = Base * Cut(b, r + 1) + (Cut(b, r) % Base) /\ Cut(b, r) \in Nat
        /\ Cut(b, r) % Base \in 0..Top
    BY <2>0, <2>2, CutFacts
  <2>8. Base * Cut(b, r + 1) \in Nat
    <3>1. Cut(b, r + 1) \in Nat /\ r + 1 \in Nat
      BY <2>0, <2>2, CutFacts
    <3> QED BY <3>1, CodecAssumption
  <2> DEFINE x == Base * Cut(b, r + 1)  c == Cut(a, r) % Base  d == Cut(b, r) % Base
  <2>9. Cut(a, r) < Cut(b, r)
    <3>1. x \in Nat /\ c \in 0..Top /\ d \in 0..Top /\ c < d /\ Cut(a, r) = x + c /\ Cut(b, r) = x + d /\ Top \in Nat
      BY <2>4, <2>5, <2>6, <2>7, <2>8, CodecAssumption DEF Top
    <3> HIDE DEF x, c, d
    <3> QED BY <3>1
  <2>10. Power[r] \in Nat \ {0}
    BY <2>2, PowerFacts
  <2> QED BY <2>0, <2>9, <2>10, DivOrder DEF Cut
<1>5. CASE Be(m) = Be(n)
  BY <1>0, <1>1, <1>2, <1>3, <1>5, LessTotal
<1>6. CASE Differ(Be(m), Be(n))
  <2>1. PICK i \in Nat : DifferAt(Be(m), Be(n), i)
    BY <1>6 DEF Differ
  <2>2. DifferAt(Be(n), Be(m), i)
    BY <2>1, DifferSymmetric
  <2>3. Less(Be(m), Be(n)) <=> Be(m)[i] < Be(n)[i]
    BY <1>1, <2>1, DifferDecides
  <2>4. Be(m) # Be(n) /\ m # n
    BY <1>1, <2>1, DifferDecides
  <2>5. Be(m)[i] \in Nat /\ Be(n)[i] \in Nat /\ Be(m)[i] # Be(n)[i]
    BY <1>1, <2>1, BytesElements DEF DifferAt
  <2>6. Be(m)[i] < Be(n)[i] => m < n
    BY <1>4, <2>1
  <2>7. Be(n)[i] < Be(m)[i] => n < m
    BY <1>4, <2>2
  <2>8. Less(Be(m), Be(n)) <=> m < n
    BY <1>0, <2>3, <2>5, <2>6, <2>7
  <2> QED BY <1>3, <2>4, <2>8
<1> QED BY <1>3, <1>5, <1>6 DEF Apart

\* from_be_bytes undoes to_be_bytes.
LEMMA FromBeExact ==
  ASSUME NEW n \in Ids
  PROVE  FromBe(Be(n)) = n /\ Be(n) \in Bytes /\ Len(Be(n)) = Width
<1>1. n \in Nat
  BY CutWhole DEF Ids
<1>2. \E m \in 0..Range64 - 1 : Be(m) = Be(n)
  BY DEF Ids
<1>3. FromBe(Be(n)) \in Ids /\ Be(FromBe(Be(n))) = Be(n)
  BY <1>2 DEF FromBe, Ids
<1>4. FromBe(Be(n)) = n
  BY <1>3, BeOrder
<1> QED BY <1>1, <1>4, BeType DEF Bytes

-----------------------------------------------------------------------------
(* Values *)

\* The terminator of an encoded string is a byte, and not the greatest.
LEMMA ZeroByte == <<0>> \in Bytes /\ Len(<<0>>) = 1 /\ Top \in Nat /\ Top > 1
<1>1. Top \in Nat /\ Top > 1
  BY CodecAssumption DEF Top
<1> QED BY <1>1 DEF Bytes

\* A terminated string.
LEMMA StrShape ==
  ASSUME NEW v \in Seq(1..Top - 1)
  PROVE  /\ SortableKey("str", v) = <<v \o <<0>>>> /\ SortableEncode("str", v) = v \o <<0>>
         /\ v \in Bytes /\ v \o <<0>> \in Bytes /\ Len(v \o <<0>>) = Len(v) + 1
         /\ (v \o <<0>>)[Len(v) + 1] = 0
         /\ \A i \in 1..Len(v) : v[i] \in 1..Top - 1 /\ (v \o <<0>>)[i] = v[i] /\ (v \o <<0>>)[i] # 0
<1>0. Top \in Nat /\ Top > 1 /\ <<0>> \in Bytes
  BY ZeroByte
<1>1. v \in Bytes
  BY <1>0 DEF Bytes
<1>2. Len(v) \in Nat /\ DOMAIN v = 1..Len(v) /\ \A i \in 1..Len(v) : v[i] \in 1..Top - 1
  <2> DEFINE S == 1..Top - 1
  <2>1. v \in Seq(S)
    OBVIOUS
  <2> HIDE DEF S
  <2>2. Len(v) \in Nat /\ DOMAIN v = 1..Len(v) /\ \A i \in 1..Len(v) : v[i] \in S
    BY <2>1
  <2> QED BY <2>2 DEF S
<1>3. 0 \notin ToSet(v)
  BY <1>2 DEF ToSet
<1>4. Append(v, 0) = v \o <<0>>
  OBVIOUS
<1>5. SortableKey("str", v) = <<v \o <<0>>>>
  BY <1>3, <1>4 DEF SortableKey
<1>6. SortableEncode("str", v) = v \o <<0>>
  BY <1>5 DEF SortableEncode
<1>7. v \o <<0>> \in Bytes /\ Len(v \o <<0>>) = Len(v) + 1
  BY <1>0, <1>1, ConcatBytes
<1>8. (v \o <<0>>)[Len(v) + 1] = 0
  OBVIOUS
<1>9. \A i \in 1..Len(v) : (v \o <<0>>)[i] = v[i]
  OBVIOUS
<1>10. \A i \in 1..Len(v) : (v \o <<0>>)[i] # 0
  BY <1>2, <1>9
<1> QED BY <1>1, <1>2, <1>5, <1>6, <1>7, <1>8, <1>9, <1>10

\* The terminator is smaller than every byte of a string.
LEMMA StrShorter ==
  ASSUME NEW v \in Seq(1..Top - 1), NEW w \in Seq(1..Top - 1), Starts(v, w), v # w
  PROVE  /\ DifferAt(v \o <<0>>, w \o <<0>>, Len(v) + 1)
         /\ (v \o <<0>>)[Len(v) + 1] < (w \o <<0>>)[Len(v) + 1]
<1>1. /\ v \in Bytes /\ v \o <<0>> \in Bytes /\ Len(v \o <<0>>) = Len(v) + 1 /\ (v \o <<0>>)[Len(v) + 1] = 0
      /\ \A i \in 1..Len(v) : (v \o <<0>>)[i] = v[i]
  BY StrShape
<1>2. /\ w \in Bytes /\ w \o <<0>> \in Bytes /\ Len(w \o <<0>>) = Len(w) + 1
      /\ \A i \in 1..Len(w) : (w \o <<0>>)[i] = w[i] /\ w[i] \in 1..Top - 1
  BY StrShape
<1>3. Len(v) \in Nat /\ Len(w) \in Nat
  OBVIOUS
<1>4. Len(v) <= Len(w) /\ \A i \in 1..Len(v) : v[i] = w[i]
  BY DEF Starts
<1>5. Len(v) # Len(w)
  BY <1>4
<1>6. Len(v) + 1 \in 1..Len(w) /\ \A i \in 1..Len(v) : i \in 1..Len(w)
  BY <1>3, <1>4, <1>5
<1>7. (w \o <<0>>)[Len(v) + 1] = w[Len(v) + 1] /\ w[Len(v) + 1] \in 1..Top - 1
  BY <1>2, <1>6
<1>8. 0 < w[Len(v) + 1]
  BY <1>7, ZeroByte
<1>9. \A i \in 1..(Len(v) + 1) - 1 : (v \o <<0>>)[i] = (w \o <<0>>)[i]
  <2>1. \A i \in 1..(Len(v) + 1) - 1 : i \in 1..Len(v)
    BY <1>3
  <2> QED BY <1>1, <1>2, <1>4, <1>6, <2>1, Zenon
<1>10. Len(v) + 1 \in DOMAIN (v \o <<0>>) /\ Len(v) + 1 \in DOMAIN (w \o <<0>>)
  <2>1. DOMAIN (v \o <<0>>) = 1..Len(v) + 1 /\ DOMAIN (w \o <<0>>) = 1..Len(w) + 1
    BY <1>1, <1>2, BytesElements
  <2>2. Len(v) + 1 \in 1..Len(v) + 1 /\ Len(v) + 1 \in 1..Len(w) + 1
    BY <1>3, <1>6
  <2> QED BY <2>1, <2>2, Zenon
<1>11. (v \o <<0>>)[Len(v) + 1] # (w \o <<0>>)[Len(v) + 1]
  <2>1. 0 # w[Len(v) + 1]
    <3> DEFINE x == w[Len(v) + 1]
    <3>1. 0 < x /\ x \in 1..Top - 1
      BY <1>7, <1>8
    <3> HIDE DEF x
    <3>2. 0 # x
      BY <3>1, ZeroByte
    <3> QED BY <3>2 DEF x
  <2> QED BY <1>1, <1>7, <2>1, Zenon
<1>12. DifferAt(v \o <<0>>, w \o <<0>>, Len(v) + 1)
  BY <1>9, <1>10, <1>11, Zenon DEF DifferAt
<1>13. (v \o <<0>>)[Len(v) + 1] < (w \o <<0>>)[Len(v) + 1]
  BY <1>1, <1>7, <1>8
<1> QED BY <1>12, <1>13

\* Terminated strings sort as the strings do, and none begins another.
LEMMA StrOrder ==
  ASSUME NEW v \in Seq(1..Top - 1), NEW w \in Seq(1..Top - 1)
  PROVE  /\ Apart(v \o <<0>>, w \o <<0>>) /\ (v \o <<0>> = w \o <<0>> <=> v = w)
         /\ Less(v \o <<0>>, w \o <<0>>) <=> Less(v, w)
<1>0. v \in Bytes /\ w \in Bytes /\ v \o <<0>> \in Bytes /\ w \o <<0>> \in Bytes /\ <<0>> \in Bytes
  BY StrShape, ZeroByte
<1>00. Len(v) + 1 \in Nat /\ Len(w) + 1 \in Nat
  OBVIOUS
<1> DEFINE a == v \o <<0>>  b == w \o <<0>>
<1> HIDE DEF a, b
<1>1. CASE v = w
  <2>1. a = b /\ a \in Bytes
    BY <1>0, <1>1 DEF a, b
  <2> QED BY <1>0, <1>1, <2>1, LessTotal DEF Apart, a, b
<1>2. CASE v # w /\ Starts(v, w)
  <2>1. DifferAt(a, b, Len(v) + 1) /\ a[Len(v) + 1] < b[Len(v) + 1]
    BY <1>2, StrShorter DEF a, b
  <2>2. Less(a, b) /\ a # b
    BY <1>0, <1>00, <2>1, DifferDecides DEF a, b
  <2>3. Less(v, w)
    BY <1>0, <1>2, StartsOrder
  <2>4. Differ(a, b)
    BY <1>00, <2>1 DEF Differ
  <2> QED BY <1>2, <2>2, <2>3, <2>4 DEF Apart, a, b
<1>3. CASE v # w /\ Starts(w, v)
  <2>1. DifferAt(b, a, Len(w) + 1) /\ b[Len(w) + 1] < a[Len(w) + 1]
    BY <1>3, StrShorter DEF a, b
  <2>2. Less(b, a) /\ a # b
    BY <1>0, <1>00, <2>1, DifferDecides DEF a, b
  <2>3. ~Less(a, b)
    BY <1>0, <2>2, LessTotal DEF a, b
  <2>4. ~Less(v, w)
    BY <1>0, <1>3, StartsOrder
  <2>5. Differ(a, b)
    BY <1>00, <2>1, DifferSymmetric DEF Differ
  <2> QED BY <1>3, <2>2, <2>3, <2>4, <2>5 DEF Apart, a, b
<1>4. CASE Differ(v, w)
  <2>1. PICK i \in Nat : DifferAt(v, w, i)
    BY <1>4 DEF Differ
  <2>2. DifferAt(a, b, i)
    BY <1>0, <2>1, DifferConcat DEF a, b
  <2>3. a[i] = v[i] /\ b[i] = w[i]
    BY <1>0, <2>1, ConcatBytes DEF DifferAt, a, b
  <2>4. (Less(v, w) <=> v[i] < w[i]) /\ v # w
    BY <1>0, <2>1, DifferDecides
  <2>5. (Less(a, b) <=> a[i] < b[i]) /\ a # b
    BY <1>0, <2>2, DifferDecides DEF a, b
  <2> QED BY <2>2, <2>3, <2>4, <2>5 DEF Apart, Differ, a, b
<1> QED BY <1>0, <1>1, <1>2, <1>3, <1>4, StartsOrDiffer

\* Flipping the sign bit maps the signed integers onto the ids and back.
LEMMA FlipFacts ==
  ASSUME NEW v \in -(Range64 \div 2)..Range64 \div 2 - 1
  PROVE  v \in Int /\ Flip(v) \in Ids /\ Flip(v) - Range64 \div 2 = v
<1> DEFINE h == Range64 \div 2
<1>1. h \in Nat /\ Range64 = 2 * h
  BY RangeFacts
<1>2. v \in -h..h - 1
  OBVIOUS
<1> HIDE DEF h
<1>3. v \in Int /\ v + h \in 0..2 * h - 1 /\ (v + h) - h = v
  BY <1>1, <1>2
<1> QED BY <1>1, <1>3 DEF Flip, Ids, h

\* Encoded values: byte strings of which none begins another, in the order of
\* the values.
LEMMA EncodedOrder ==
  ASSUME NEW kind \in Kinds, NEW v \in Values(kind), NEW w \in Values(kind)
  PROVE  /\ SortableEncode(kind, v) \in Bytes /\ Len(SortableEncode(kind, v)) \in Nat \ {0}
         /\ Apart(SortableEncode(kind, v), SortableEncode(kind, w))
         /\ SortableEncode(kind, v) = SortableEncode(kind, w) <=> v = w
         /\ Less(SortableEncode(kind, v), SortableEncode(kind, w)) <=> Precedes(kind, v, w)
<1>0. Width \in Nat \ {0}
  BY CodecAssumption
<1>1. CASE kind \in {"int", "timestamp"}
  <2>1. v \in -(Range64 \div 2)..Range64 \div 2 - 1 /\ w \in -(Range64 \div 2)..Range64 \div 2 - 1
    BY <1>1 DEF Values
  <2>2. SortableEncode(kind, v) = Be(Flip(v)) /\ SortableEncode(kind, w) = Be(Flip(w))
    BY <1>1 DEF SortableEncode, SortableKey
  <2>3. v \in Int /\ w \in Int /\ Flip(v) \in Ids /\ Flip(w) \in Ids
    BY <2>1, FlipFacts
  <2>4. (Flip(v) < Flip(w) <=> v < w) /\ (Flip(v) = Flip(w) <=> v = w)
    <3>1. Range64 \div 2 \in Nat
      BY RangeFacts
    <3> QED BY <2>3, <3>1 DEF Flip
  <2>5. Precedes(kind, v, w) <=> v < w
    BY <1>1 DEF Precedes
  <2>6. Be(Flip(v)) \in Bytes /\ Len(Be(Flip(v))) = Width
    BY <2>3, FromBeExact
  <2> QED BY <1>0, <2>2, <2>3, <2>4, <2>5, <2>6, BeOrder
<1>2. CASE kind = "str"
  <2>1. v \in Seq(1..Top - 1) /\ w \in Seq(1..Top - 1)
    BY <1>2 DEF Values
  <2>2. SortableEncode(kind, v) = v \o <<0>> /\ SortableEncode(kind, w) = w \o <<0>>
    BY <1>2, <2>1, StrShape
  <2>3. Precedes(kind, v, w) <=> Less(v, w)
    BY <1>2 DEF Precedes
  <2>4. v \o <<0>> \in Bytes /\ Len(v \o <<0>>) = Len(v) + 1
    BY <2>1, StrShape
  <2>5. Len(v) + 1 \in Nat \ {0}
    BY <2>1
  <2>6. /\ Apart(v \o <<0>>, w \o <<0>>) /\ (v \o <<0>> = w \o <<0>> <=> v = w)
        /\ Less(v \o <<0>>, w \o <<0>>) <=> Less(v, w)
    BY <2>1, StrOrder
  <2> QED BY <2>2, <2>3, <2>4, <2>5, <2>6, Zenon
<1>3. CASE kind = "uuid"
  <2>1. v \in [1..Width -> 0..Top] /\ w \in [1..Width -> 0..Top]
    BY <1>3 DEF Values
  <2>2. SortableEncode(kind, v) = v /\ SortableEncode(kind, w) = w
    BY <1>3 DEF SortableEncode, SortableKey
  <2>3. ASSUME NEW x \in [1..Width -> 0..Top] PROVE x \in Bytes /\ Len(x) = Width
    <3>1. x = [i \in 1..Width |-> x[i]] /\ Width \in Nat
      BY <1>0
    <3>2. x \in Seq(0..Top)
      BY <3>1
    <3> QED BY <3>1, <3>2 DEF Bytes
  <2>4. Precedes(kind, v, w) <=> Less(v, w)
    BY <1>3 DEF Precedes
  <2>5. v \in Bytes /\ w \in Bytes /\ Len(v) = Width /\ Len(w) = Width
    BY <2>1, <2>3
  <2>6. Apart(v, w)
    BY <2>5, SameLength
  <2> QED BY <1>0, <2>2, <2>4, <2>5, <2>6, Zenon
<1> QED BY <1>1, <1>2, <1>3 DEF Kinds

\* The parts of a key, cut out again.
LEMMA Parts ==
  ASSUME NEW a \in Bytes, NEW b \in Bytes, NEW c \in Bytes
  PROVE  /\ SubSeq(a \o b, 1, Len(a)) = a
         /\ SubSeq(a \o b, Len(a) + 1, Len(a \o b)) = b
         /\ SubSeq((a \o b) \o c, Len(a) + 1, Len(a) + Len(b)) = b
<1>0. Len(a) \in Nat /\ Len(b) \in Nat /\ Len(c) \in Nat
  BY BytesElements
<1>1. SubSeq(a \o b, 1, Len(a)) = a
  BY DEF Bytes
<1>2. SubSeq(a \o b, Len(a) + 1, Len(a \o b)) = b
  BY DEF Bytes
<1>3. SubSeq((a \o b) \o c, Len(a) + 1, Len(a) + Len(b)) = b
  BY DEF Bytes
<1> QED BY <1>1, <1>2, <1>3

\* decode_sortable gives back the value sortable_key encoded.
LEMMA DecodeExact ==
  ASSUME NEW kind \in Kinds, NEW v \in Values(kind)
  PROVE  DecodeSortable(kind, SortableEncode(kind, v)) = <<v>>
<1>0. Width \in Nat \ {0}
  BY CodecAssumption
<1>1. CASE kind \in {"int", "timestamp"}
  <2>1. v \in -(Range64 \div 2)..Range64 \div 2 - 1
    BY <1>1 DEF Values
  <2>2. SortableEncode(kind, v) = Be(Flip(v))
    BY <1>1 DEF SortableEncode, SortableKey
  <2>3. Flip(v) \in Ids /\ Flip(v) - Range64 \div 2 = v
    BY <2>1, FlipFacts
  <2>4. Len(Be(Flip(v))) = Width /\ FromBe(Be(Flip(v))) = Flip(v)
    BY <2>3, FromBeExact
  <2>5. DecodeSortable(kind, Be(Flip(v))) = <<FromBe(Be(Flip(v))) - Range64 \div 2>>
    BY <1>1, <2>4 DEF DecodeSortable
  <2> QED BY <2>2, <2>3, <2>4, <2>5
<1>2. CASE kind = "str"
  <2>1. v \in Seq(1..Top - 1)
    BY <1>2 DEF Values
  <2>2. /\ SortableEncode(kind, v) = v \o <<0>> /\ Len(v \o <<0>>) = Len(v) + 1
        /\ (v \o <<0>>)[Len(v) + 1] = 0 /\ v \o <<0>> \in Bytes /\ v \in Bytes
    BY <1>2, <2>1, StrShape
  <2>3. Last(v \o <<0>>) = 0
    BY <2>2 DEF Last
  <2>4. v \o <<0>> # <<>>
    <3>1. Len(v) + 1 # 0
      BY <2>1
    <3> QED BY <2>2, <3>1
  <2>5. Front(v \o <<0>>) = v
    <3>1. Len(v \o <<0>>) - 1 = Len(v)
      BY <2>1, <2>2
    <3>2. SubSeq(v \o <<0>>, 1, Len(v)) = v
      BY <2>2, ZeroByte, Parts
    <3> QED BY <3>1, <3>2 DEF Front
  <2>6. DecodeSortable("str", v \o <<0>>) = <<Front(v \o <<0>>)>>
    BY <2>3, <2>4 DEF DecodeSortable
  <2> QED BY <1>2, <2>2, <2>5, <2>6
<1>3. CASE kind = "uuid"
  <2>1. v \in [1..Width -> 0..Top]
    BY <1>3 DEF Values
  <2>2. SortableEncode(kind, v) = v
    BY <1>3 DEF SortableEncode, SortableKey
  <2>3. Len(v) = Width
    <3>1. v = [i \in 1..Width |-> v[i]] /\ Width \in Nat
      BY <1>0, <2>1
    <3> QED BY <3>1
  <2> QED BY <1>3, <2>2, <2>3 DEF DecodeSortable
<1> QED BY <1>1, <1>2, <1>3 DEF Kinds

\* The value at the head of an index key ends where it was made to end.
LEMMA IndexedLen ==
  ASSUME NEW kind \in Kinds, NEW v \in Values(kind), NEW s \in Bytes
  PROVE  IndexedValueLen(kind, SortableEncode(kind, v) \o s) = Len(SortableEncode(kind, v))
<1>0. Width \in Nat \ {0}
  BY CodecAssumption
<1>1. CASE kind \in {"int", "timestamp"}
  <2>1. v \in -(Range64 \div 2)..Range64 \div 2 - 1
    BY <1>1 DEF Values
  <2>2. SortableEncode(kind, v) = Be(Flip(v))
    BY <1>1 DEF SortableEncode, SortableKey
  <2>3. Len(Be(Flip(v))) = Width
    BY <2>1, FlipFacts, FromBeExact
  <2> QED BY <1>1, <2>2, <2>3 DEF IndexedValueLen
<1>2. CASE kind = "str"
  <2>1. v \in Seq(1..Top - 1) /\ Len(v) \in Nat
    BY <1>2 DEF Values
  <2> DEFINE a == v \o <<0>>  key == a \o s
  <2>2. /\ SortableEncode(kind, v) = a /\ Len(a) = Len(v) + 1 /\ a \in Bytes
        /\ a[Len(v) + 1] = 0 /\ \A i \in 1..Len(v) : a[i] # 0
    BY <1>2, <2>1, StrShape
  <2> HIDE DEF a
  <2>3. DOMAIN a \subseteq DOMAIN key /\ (\A i \in DOMAIN a : key[i] = a[i]) /\ DOMAIN a = 1..Len(v) + 1
    BY <2>2, ConcatBytes, BytesElements
  <2>4. key \in Bytes /\ \A n \in DOMAIN key : n \in Nat
    <3>1. key \in Bytes
      BY <2>2, ConcatBytes
    <3> HIDE DEF key
    <3> QED BY <3>1, BytesElements
  <2> HIDE DEF key
  <2>5. Len(v) + 1 \in DOMAIN key /\ key[Len(v) + 1] = 0 /\ \A m \in 1..Len(v) : key[m] # 0
    <3>1. Len(v) + 1 \in 1..Len(v) + 1 /\ \A m \in 1..Len(v) : m \in 1..Len(v) + 1
      BY <2>1
    <3> QED BY <2>2, <2>3, <3>1
  <2> DEFINE N == Len(v) + 1
  <2>6. ASSUME NEW n \in DOMAIN key, key[n] = 0, \A m \in 1..n - 1 : key[m] # 0 PROVE n = Len(v) + 1
    <3>1. n \in Nat
      BY <2>4
    <3>2. ~(n \in 1..Len(v))
      BY <2>5, <2>6
    <3>3. ~(Len(v) + 1 \in 1..n - 1)
      BY <2>5, <2>6
    <3>4. n # 0
      BY <2>4, <2>6, BytesElements
    <3> QED BY <2>1, <3>1, <3>2, <3>3, <3>4
  <2>7. \A m \in 1..(Len(v) + 1) - 1 : key[m] # 0
    BY <2>1, <2>5
  <2>8. IndexedValueLen("str", key) = Len(v) + 1
    BY <2>5, <2>6, <2>7 DEF IndexedValueLen
  <2> QED BY <1>2, <2>2, <2>8 DEF key
<1>3. CASE kind = "uuid"
  <2>1. v \in [1..Width -> 0..Top]
    BY <1>3 DEF Values
  <2>2. SortableEncode(kind, v) = v
    BY <1>3 DEF SortableEncode, SortableKey
  <2>3. Len(v) = Width
    <3>1. v = [i \in 1..Width |-> v[i]] /\ Width \in Nat
      BY <1>0, <2>1
    <3> QED BY <3>1
  <2> QED BY <1>3, <2>2, <2>3 DEF IndexedValueLen
<1> QED BY <1>1, <1>2, <1>3 DEF Kinds

\* The primary key read from an index key is the one the entry was made with,
\* whatever value stands before it (pk_from_index_key).
LEMMA PkExact ==
  ASSUME NEW kind \in Kinds, NEW v \in Values(kind), NEW pkKind \in Kinds, NEW pk \in Values(pkKind)
  PROVE  PkFromIndexKey(kind, pkKind, IndexKey(kind, v, pkKind, pk)) = <<pk>>
<1> DEFINE a == SortableEncode(kind, v)  b == SortableEncode(pkKind, pk)
<1>1. a \in Bytes /\ b \in Bytes
  BY EncodedOrder
<1>2. IndexedValueLen(kind, a \o b) = Len(a)
  BY <1>1, IndexedLen
<1>3. DecodeSortable(pkKind, b) = <<pk>>
  BY DecodeExact
<1>4. IndexKey(kind, v, pkKind, pk) = a \o b
  BY DEF IndexKey
<1> HIDE DEF a, b
<1>5. SubSeq(a \o b, Len(a) + 1, Len(a \o b)) = b
  BY <1>1, Parts
<1> QED BY <1>2, <1>3, <1>4, <1>5 DEF PkFromIndexKey

-----------------------------------------------------------------------------
(* Keys of rows and indexes *)

\* Byte bounds and value bounds agree on a key that begins with the value.
LEMMA BoundsExact ==
  ASSUME NEW kind \in Kinds, NEW v \in Values(kind), NEW w \in Values(kind), NEW x \in Bytes,
         x = SortableEncode(kind, v) \/ (\E s \in Bytes : x = SortableEncode(kind, v) \o s),
         NEW side \in {"unbounded", "included", "excluded"}
  PROVE  LET b == [side |-> side, v |-> w] IN
         /\ Below(UpperBoundBytes(kind, b), x) <=> WithinUpper(kind, b, v)
         /\ \/ Above(LowerBoundBytes(kind, b), x) <=> WithinLower(kind, b, v)
            \/ b.side = "excluded" /\ ToSet(SortableEncode(kind, w)) = {Top}
         /\ ScanPrefix(SortableEncode(kind, w), x) <=> v = w
<1> DEFINE b == [side |-> side, v |-> w]
           c == SortableEncode(kind, w)
           a == SortableEncode(kind, v)
<1>0. /\ a \in Bytes /\ c \in Bytes /\ Apart(a, c) /\ (a = c <=> v = w) /\ Len(c) \in Nat \ {0}
      /\ Less(a, c) <=> Precedes(kind, v, w)
      /\ Less(c, a) <=> Precedes(kind, w, v)
  BY EncodedOrder
<1>1. b.side = side /\ b.v = w
  OBVIOUS
<1> HIDE DEF a, c
<1>2. (Less(x, c) <=> Less(a, c)) /\ (Starts(c, x) <=> a = c)
  <2>1. CASE x = a
    <3>1. <<>> \in Bytes
      BY DEF Bytes
    <3>2. a \o <<>> = a
      BY <1>0 DEF Bytes
    <3>3. (Less(a \o <<>>, c) <=> Less(a, c)) /\ (Starts(c, a \o <<>>) <=> a = c)
      BY <1>0, <3>1, Suffixed
    <3> QED BY <2>1, <3>2, <3>3, Zenon
  <2>2. CASE \E s \in Bytes : x = a \o s
    BY <1>0, <2>2, Suffixed
  <2> QED BY <2>1, <2>2 DEF a
<1>3. Less(c, a) <=> ~(Less(a, c) \/ a = c)
  BY <1>0, LessTotal
<1>4. /\ ScanPrefix(c, x) <=> Starts(c, x)
      /\ Below(PastPrefix(c, "excluded"), x) <=> (Less(x, c) \/ Starts(c, x))
      /\ PrefixUpperBound(c) # <<>> =>
               (Above(PastPrefix(c, "included"), x) <=> ~(Less(x, c) \/ Starts(c, x)))
  BY <1>0, ScanPrefixExact
<1>5. ASSUME PrefixUpperBound(c) = <<>> PROVE ToSet(c) = {Top}
  <2>1. \A j \in 1..Len(c) : c[j] = Top
    BY <1>0, <1>5, NoUpperBound
  <2>2. DOMAIN c = 1..Len(c) /\ 1 \in 1..Len(c)
    BY <1>0, BytesElements
  <2> QED BY <2>1, <2>2 DEF ToSet
<1>6. CASE side = "unbounded"
  <2>1. UpperBoundBytes(kind, b) = Unbounded /\ LowerBoundBytes(kind, b) = Unbounded
    BY <1>1, <1>6 DEF UpperBoundBytes, LowerBoundBytes
  <2>2. Below(Unbounded, x) /\ Above(Unbounded, x)
    BY DEF Below, Above, Unbounded
  <2>3. WithinUpper(kind, b, v) /\ WithinLower(kind, b, v)
    BY <1>1, <1>6 DEF WithinUpper, WithinLower
  <2> QED BY <1>0, <1>2, <1>4, <2>1, <2>2, <2>3 DEF c
<1>7. CASE side = "included"
  <2>1. UpperBoundBytes(kind, b) = PastPrefix(c, "excluded") /\ LowerBoundBytes(kind, b) = Included(c)
    BY <1>1, <1>7 DEF UpperBoundBytes, LowerBoundBytes, c
  <2>2. Above(Included(c), x) <=> ~Less(x, c)
    BY DEF Above, Included
  <2>3. /\ WithinUpper(kind, b, v) <=> ~Precedes(kind, w, v)
        /\ WithinLower(kind, b, v) <=> ~Precedes(kind, v, w)
    BY <1>1, <1>7 DEF WithinUpper, WithinLower
  <2> QED BY <1>0, <1>2, <1>3, <1>4, <2>1, <2>2, <2>3 DEF c
<1>8. CASE side = "excluded"
  <2>1. UpperBoundBytes(kind, b) = Excluded(c) /\ LowerBoundBytes(kind, b) = PastPrefix(c, "included")
    BY <1>1, <1>8 DEF UpperBoundBytes, LowerBoundBytes, c
  <2>2. Below(Excluded(c), x) <=> Less(x, c)
    BY DEF Below, Excluded
  <2>3. /\ WithinUpper(kind, b, v) <=> Precedes(kind, v, w)
        /\ WithinLower(kind, b, v) <=> Precedes(kind, w, v)
    BY <1>1, <1>8 DEF WithinUpper, WithinLower
  <2>4. CASE PrefixUpperBound(c) = <<>>
    BY <1>0, <1>1, <1>2, <1>4, <1>5, <1>8, <2>1, <2>2, <2>3, <2>4 DEF c
  <2>5. CASE PrefixUpperBound(c) # <<>>
    BY <1>0, <1>2, <1>3, <1>4, <2>1, <2>2, <2>3, <2>5 DEF c
  <2> QED BY <2>4, <2>5
<1> QED BY <1>6, <1>7, <1>8

\* A prefix query on strings: the bounds hold the strings with the prefix.
LEMMA StrPrefixExact ==
  ASSUME NEW v \in Seq(1..Top - 1), NEW w \in Seq(1..Top - 1), NEW s \in Bytes
  PROVE  LET key == (v \o <<0>>) \o s IN
         (Above(StrPrefixBounds(w).lo, key) /\ Below(StrPrefixBounds(w).hi, key)) <=> Starts(w, v)
<1> DEFINE a == v \o <<0>>  key == a \o s
<1>1. /\ v \in Bytes /\ a \in Bytes /\ Len(a) = Len(v) + 1 /\ a[Len(v) + 1] = 0
      /\ \A i \in 1..Len(v) : a[i] = v[i]
  BY StrShape
<1>2. w \in Bytes /\ \A i \in 1..Len(w) : w[i] # 0
  <2>1. \A i \in 1..Len(w) : (w \o <<0>>)[i] = w[i] /\ (w \o <<0>>)[i] # 0
    BY StrShape
  <2> QED BY <2>1, StrShape
<1> HIDE DEF a
<1>3. key \in Bytes /\ Len(key) = Len(a) + Len(s) /\ (\A i \in DOMAIN a : key[i] = a[i])
  BY <1>1, ConcatBytes
<1>4. Len(v) \in Nat /\ Len(w) \in Nat /\ Len(s) \in Nat
  BY BytesElements
<1>5. DOMAIN a = 1..Len(v) + 1 /\ DOMAIN w = 1..Len(w)
  BY <1>1, <1>2, BytesElements
<1> HIDE DEF key
<1>6. (\A i \in 1..Len(v) : key[i] = v[i]) /\ key[Len(v) + 1] = 0
  <2>1. Len(v) + 1 \in 1..Len(v) + 1 /\ \A i \in 1..Len(v) : i \in 1..Len(v) + 1
    BY <1>4
  <2> QED BY <1>1, <1>3, <1>5, <2>1, Zenon
<1>7. Starts(w, key) <=> Starts(w, v)
  <2>1. ASSUME Starts(w, v) PROVE Starts(w, key)
    <3>1. Len(w) <= Len(v) /\ \A i \in 1..Len(w) : w[i] = v[i]
      BY <1>5, <2>1 DEF Starts
    <3>2. Len(w) <= Len(key)
      <4>1. Len(key) = (Len(v) + 1) + Len(s)
        BY <1>1, <1>3
      <4> QED BY <1>4, <3>1, <4>1
    <3>3. \A i \in 1..Len(w) : i \in 1..Len(v)
      BY <1>4, <3>1
    <3>4. \A i \in 1..Len(w) : w[i] = key[i]
      BY <1>6, <3>1, <3>3, Zenon
    <3> QED BY <1>5, <3>2, <3>4 DEF Starts
  <2>2. ASSUME Starts(w, key) PROVE Starts(w, v)
    <3>1. \A i \in 1..Len(w) : w[i] = key[i]
      BY <1>5, <2>2 DEF Starts
    <3>2. Len(w) <= Len(v)
      <4>1. ~(Len(v) + 1 \in 1..Len(w))
        BY <1>2, <1>6, <3>1
      <4> QED BY <1>4, <4>1
    <3>3. \A i \in 1..Len(w) : i \in 1..Len(v)
      BY <1>4, <3>2
    <3>4. \A i \in 1..Len(w) : w[i] = v[i]
      BY <1>6, <3>1, <3>3, Zenon
    <3> QED BY <1>5, <3>2, <3>4 DEF Starts
  <2> QED BY <2>1, <2>2
<1>8. CASE w = <<>>
  <2>1. StrPrefixBounds(w).lo = Unbounded /\ StrPrefixBounds(w).hi = Unbounded
    BY <1>8 DEF StrPrefixBounds
  <2>2. Starts(w, v)
    BY <1>4, <1>8 DEF Starts
  <2> QED BY <2>1, <2>2 DEF Above, Below, Unbounded, key, a
<1>9. CASE w # <<>>
  <2>1. StrPrefixBounds(w).lo = Included(w) /\ StrPrefixBounds(w).hi = PastPrefix(w, "excluded")
    BY <1>9 DEF StrPrefixBounds
  <2>2. ScanPrefix(w, key) <=> Starts(w, key)
    BY <1>2, <1>3, ScanPrefixExact
  <2> QED BY <1>7, <2>1, <2>2 DEF ScanPrefix, key, a
<1> QED BY <1>8, <1>9

\* Rows and index entries sort, scan and decode as their values do.
LEMMA RowKeysExact ==
  ASSUME NEW kind \in Kinds, NEW v \in Values(kind), NEW w \in Values(kind),
         NEW pkKind \in Kinds, NEW pk \in Values(pkKind)
  PROVE  ValueKeysExact(kind, v, w, pkKind, pk)
<1> DEFINE a == SortableEncode(kind, v)  s == SortableEncode(pkKind, pk)
           key == IndexKey(kind, v, pkKind, pk)
<1>1. a \in Bytes /\ s \in Bytes /\ (Less(a, SortableEncode(kind, w)) <=> Precedes(kind, v, w))
  BY EncodedOrder
<1>2. key = a \o s
  BY DEF IndexKey
<1>3. DecodeSortable(kind, a) = <<v>>
  BY DecodeExact
<1>4. PkFromIndexKey(kind, pkKind, key) = <<pk>>
  BY PkExact
<1>5. kind = "str" =>
        ((Above(StrPrefixBounds(w).lo, key) /\ Below(StrPrefixBounds(w).hi, key)) <=> Starts(w, v))
  <2> SUFFICES ASSUME kind = "str"
               PROVE  (Above(StrPrefixBounds(w).lo, key) /\ Below(StrPrefixBounds(w).hi, key)) <=> Starts(w, v)
    OBVIOUS
  <2>1. v \in Seq(1..Top - 1) /\ w \in Seq(1..Top - 1)
    BY DEF Values
  <2>2. a = v \o <<0>>
    BY <2>1, StrShape
  <2> HIDE DEF a, s, key
  <2>3. key = (v \o <<0>>) \o s
    BY <1>2, <2>2
  <2> QED BY <1>1, <2>1, <2>3, StrPrefixExact
<1> HIDE DEF key, s
<1>6. key \in Bytes /\ \E t \in Bytes : key = a \o t
  BY <1>1, <1>2, ConcatBytes
<1>7. \A side \in {"unbounded", "included", "excluded"}, x \in {key, a} :
           LET b == [side |-> side, v |-> w] IN
           /\ Below(UpperBoundBytes(kind, b), x) <=> WithinUpper(kind, b, v)
           /\ \/ Above(LowerBoundBytes(kind, b), x) <=> WithinLower(kind, b, v)
              \/ b.side = "excluded" /\ ToSet(SortableEncode(kind, w)) = {Top}
  <2> SUFFICES ASSUME NEW side \in {"unbounded", "included", "excluded"}, NEW x \in {key, a}
               PROVE  LET b == [side |-> side, v |-> w] IN
           /\ Below(UpperBoundBytes(kind, b), x) <=> WithinUpper(kind, b, v)
           /\ \/ Above(LowerBoundBytes(kind, b), x) <=> WithinLower(kind, b, v)
              \/ b.side = "excluded" /\ ToSet(SortableEncode(kind, w)) = {Top}
    OBVIOUS
  <2>1. x \in Bytes /\ (x = a \/ \E t \in Bytes : x = a \o t)
    BY <1>1, <1>6
  <2> QED BY <2>1, BoundsExact
<1>8. ScanPrefix(SortableEncode(kind, w), key) <=> v = w
  <2>1. "included" \in {"unbounded", "included", "excluded"}
    OBVIOUS
  <2> QED BY <1>6, <2>1, BoundsExact
<1> QED BY <1>1, <1>3, <1>4, <1>5, <1>7, <1>8 DEF ValueKeysExact, key

-----------------------------------------------------------------------------
(* Keys of edges, of the property index and of tables *)

\* A name after its length.
LEMMA NamePrefix ==
  ASSUME NEW t \in Names
  PROVE  /\ t \in Bytes /\ <<Len(t)>> \o t \in Bytes /\ Len(t) \in 0..Top
         /\ Len(<<Len(t)>> \o t) = Len(t) + 1
         /\ (<<Len(t)>> \o t)[1] = Len(t)
         /\ <<Len(t) % Base>> \o t = <<Len(t)>> \o t
         /\ <<Len(t)>> \in Bytes /\ Len(<<Len(t)>>) = 1
<1>1. t \in Bytes /\ Len(t) \in Nat /\ Len(t) < Base
  BY BytesElements DEF Names
<1>2. Len(t) \in 0..Top
  BY <1>1, CodecAssumption DEF Top
<1>3. <<Len(t)>> \in Bytes /\ Len(<<Len(t)>>) = 1
  BY <1>2 DEF Bytes
<1>4. <<Len(t)>> \o t \in Bytes /\ Len(<<Len(t)>> \o t) = 1 + Len(t)
  BY <1>1, <1>3, ConcatBytes
<1>5. (<<Len(t)>> \o t)[1] = Len(t)
  BY <1>1 DEF Bytes
<1>6. Len(t) % Base = Len(t)
  <2> DEFINE n == Len(t)
  <2>1. n \in Nat /\ n < Base /\ Base \in Nat \ {0}
    BY <1>1, CodecAssumption
  <2> HIDE DEF n
  <2>2. n % Base = n
    BY <2>1
  <2> QED BY <2>2 DEF n
<1>7. 1 + Len(t) = Len(t) + 1
  BY <1>1
<1> QED BY <1>1, <1>2, <1>3, <1>4, <1>5, <1>6, <1>7

\* None of these begins another.
LEMMA NamesApart ==
  ASSUME NEW t \in Names, NEW u \in Names
  PROVE  /\ Apart(<<Len(t)>> \o t, <<Len(u)>> \o u)
         /\ <<Len(t)>> \o t = <<Len(u)>> \o u <=> t = u
<1> DEFINE a == <<Len(t)>> \o t  b == <<Len(u)>> \o u
<1>1. t \in Bytes /\ a \in Bytes /\ a[1] = Len(t) /\ Len(a) = Len(t) + 1 /\ Len(t) \in Nat
      /\ <<Len(t)>> \in Bytes
  BY NamePrefix, BytesElements
<1>2. u \in Bytes /\ b \in Bytes /\ b[1] = Len(u) /\ Len(b) = Len(u) + 1 /\ Len(u) \in Nat
  BY NamePrefix, BytesElements
<1>3. ASSUME a = b PROVE t = u
  <2>1. Len(t) = Len(u)
    BY <1>1, <1>2, <1>3
  <2>2. <<Len(t)>> \o t = <<Len(t)>> \o u
    BY <1>3, <2>1
  <2> QED BY <1>1, <1>2, <2>2, Prefixed
<1> HIDE DEF a, b
<1>4. CASE Len(t) = Len(u)
  <2>1. Len(a) = Len(b)
    BY <1>1, <1>2, <1>4
  <2> QED BY <1>1, <1>2, <1>3, <2>1, SameLength DEF a, b
<1>5. CASE Len(t) # Len(u)
  <2>1. DOMAIN a = 1..Len(t) + 1 /\ DOMAIN b = 1..Len(u) + 1
    BY <1>1, <1>2, BytesElements
  <2>2. 1 \in 1..Len(t) + 1 /\ 1 \in 1..Len(u) + 1 /\ 1..(1 - 1) = {}
    BY <1>1, <1>2
  <2>3. a[1] # b[1]
    BY <1>1, <1>2, <1>5
  <2>4. DifferAt(a, b, 1)
    BY <2>1, <2>2, <2>3 DEF DifferAt
  <2>5. Differ(a, b)
    BY <2>4 DEF Differ
  <2> QED BY <1>3, <2>5 DEF Apart, a, b
<1> QED BY <1>4, <1>5

\* The prefix of the edges of a node and a type.
LEMMA AdjPrefix ==
  ASSUME NEW m \in Ids, NEW t \in Names
  PROVE  /\ AdjTypePrefix(m, t) \in Bytes /\ AdjTypePrefix(m, t) = Be(m) \o (<<Len(t)>> \o t)
         /\ Be(m) \in Bytes /\ <<Len(t)>> \o t \in Bytes
<1> DEFINE a == Be(m)  s == <<Len(t)>> \o t
<1>1. AdjTypePrefix(m, t) = a \o s
  BY NamePrefix DEF AdjTypePrefix, EncodeEdgeType
<1>2. a \in Bytes /\ s \in Bytes
  BY FromBeExact, NamePrefix
<1> HIDE DEF a, s
<1>3. a \o s \in Bytes
  BY <1>2, ConcatLen
<1> QED BY <1>1, <1>2, <1>3, Zenon DEF a, s

\* No adjacency prefix begins that of another node or type.
LEMMA AdjPrefixApart ==
  ASSUME NEW m \in Ids, NEW t \in Names, NEW n \in Ids, NEW u \in Names
  PROVE  Apart(AdjTypePrefix(m, t), AdjTypePrefix(n, u))
<1> DEFINE a == Be(m)  b == Be(n)  s == <<Len(t)>> \o t  r == <<Len(u)>> \o u
<1>1. AdjTypePrefix(m, t) = a \o s /\ AdjTypePrefix(n, u) = b \o r
  BY AdjPrefix
<1>2. a \in Bytes /\ b \in Bytes /\ s \in Bytes /\ r \in Bytes
  BY AdjPrefix
<1>3. Apart(a, b) /\ Apart(s, r)
  BY BeOrder, NamesApart
<1> HIDE DEF a, b, s, r
<1>4. Apart(a \o s, b \o r)
  BY <1>2, <1>3, ApartConcat
<1> QED BY <1>1, <1>4, Zenon

\* Adjacency prefixes are equal only for the same node and type.
LEMMA AdjPrefixEqual ==
  ASSUME NEW m \in Ids, NEW t \in Names, NEW n \in Ids, NEW u \in Names,
         AdjTypePrefix(m, t) = AdjTypePrefix(n, u)
  PROVE  m = n /\ t = u
<1> DEFINE a == Be(m)  b == Be(n)  s == <<Len(t)>> \o t  r == <<Len(u)>> \o u
<1>1. AdjTypePrefix(m, t) = a \o s /\ AdjTypePrefix(n, u) = b \o r
  BY AdjPrefix
<1>2. a \in Bytes /\ b \in Bytes /\ s \in Bytes /\ r \in Bytes
  BY AdjPrefix
<1>3. Apart(a, b) /\ (a = b => m = n)
  BY BeOrder
<1>4. s = r => t = u
  BY NamesApart
<1> HIDE DEF a, b, s, r
<1>5. a = b /\ s = r
  BY <1>1, <1>2, <1>3, ConcatEqual
<1> QED BY <1>3, <1>4, <1>5

\* decode_adj_key gives back what adj_key wrote.
LEMMA AdjDecode ==
  ASSUME NEW k \in EdgeFields
  PROVE  DecodeAdjKey(AdjKey(k.first, k.type, k.second, k.edge)) = k
<1>0. k.first \in Ids /\ k.type \in Names /\ k.second \in Ids /\ k.edge \in Ids
  BY DEF EdgeFields
<1> DEFINE a == Be(k.first)  l == <<Len(k.type)>>  t == k.type  b == Be(k.second)  c == Be(k.edge)
           key == ((a \o (l \o t)) \o b) \o c
<1>1. /\ a \in Bytes /\ l \in Bytes /\ t \in Bytes /\ b \in Bytes /\ c \in Bytes
      /\ Len(a) = Width /\ Len(b) = Width /\ Len(c) = Width /\ Len(l) = 1 /\ l[1] = Len(t)
      /\ FromBe(a) = k.first /\ FromBe(b) = k.second /\ FromBe(c) = k.edge
      /\ Width \in Nat /\ Len(t) \in Nat
  BY <1>0, FromBeExact, NamePrefix, BytesElements, CodecAssumption
<1>2. AdjKey(k.first, k.type, k.second, k.edge) = key
  BY <1>0, NamePrefix DEF AdjKey, EncodeEdgeType
<1> HIDE DEF a, l, t, b, c
<1> DEFINE x == l \o t  y == b \o c  z == a \o x  al == a \o l
<1>3. x \in Bytes /\ Len(x) = Len(l) + Len(t)
  BY <1>1, ConcatLen
<1>3a. y \in Bytes
  BY <1>1, ConcatLen
<1>3b. al \in Bytes /\ Len(al) = Len(a) + Len(l)
  BY <1>1, ConcatLen
<1>3c. al \o t = a \o x
  BY <1>1, ConcatAssociative
<1> HIDE DEF x, al
<1>3d. z \in Bytes /\ Len(z) = Len(a) + Len(x)
  BY <1>1, <1>3, ConcatLen
<1> HIDE DEF z
<1>3e. z \o b \in Bytes /\ Len(z \o b) = Len(z) + Len(b)
  BY <1>1, <1>3d, ConcatLen
<1>3f. Len((z \o b) \o c) = Len(z \o b) + Len(c)
  BY <1>1, <1>3e, ConcatLen
<1>3g. key = (z \o b) \o c
  BY DEF z, x
<1>4. key = z \o y
  BY <1>1, <1>3d, <1>3g, ConcatAssociative
<1> HIDE DEF y
<1>4a. x \o y \in Bytes
  BY <1>3, <1>3a, ConcatLen
<1>5. key = a \o (x \o y)
  <2>1. z \o y = a \o (x \o y)
    BY <1>1, <1>3, <1>3a, ConcatAssociative DEF z
  <2> QED BY <1>4, <2>1
<1>6. key = (al \o t) \o y
  BY <1>3c, <1>4 DEF z
<1> HIDE DEF key
<1>7. key[Width + 1] = Len(t)
  <2>1. 1 \in DOMAIN l
    BY <1>1, BytesElements
  <2>2. x[1] = l[1] /\ 1 \in DOMAIN x
    BY <1>1, <2>1, ConcatBytes DEF x
  <2>3. (x \o y)[1] = x[1] /\ 1 \in DOMAIN (x \o y)
    BY <1>3, <1>3a, <2>2, ConcatBytes
  <2> DEFINE s == x \o y
  <2>4. s \in Bytes /\ s[1] = Len(t) /\ 1 \in 1..Len(s)
    BY <1>1, <1>4a, <2>2, <2>3, BytesElements
  <2> HIDE DEF s
  <2>5. (a \o s)[Len(a) + 1] = s[1]
    <3>1. a \in Bytes /\ s \in Bytes /\ 1 \in 1..Len(s)
      BY <1>1, <2>4
    <3>2. \A i \in 1..Len(s) : (a \o s)[Len(a) + i] = s[i]
      BY <3>1, ConcatBytes
    <3> QED BY <3>1, <3>2, Zenon
  <2> QED BY <1>1, <1>5, <2>4, <2>5, Zenon DEF s
<1>8. SubSeq(key, 1, Width) = a
  <2>1. SubSeq(a \o (x \o y), 1, Len(a)) = a
    BY <1>1, <1>4a, Parts
  <2> QED BY <1>1, <1>5, <2>1, Zenon
<1>9. SubSeq(key, Width + 2, (Width + 1) + Len(t)) = t
  <2>1. SubSeq((al \o t) \o y, Len(al) + 1, Len(al) + Len(t)) = t
    BY <1>1, <1>3a, <1>3b, Parts
  <2>2. (Width + 1) + 1 = Width + 2
    BY <1>1
  <2>3. Len(al) = Width + 1
    BY <1>1, <1>3b, Zenon
  <2> QED BY <1>6, <2>1, <2>2, <2>3, Zenon
<1> DEFINE off == (Width + 1) + Len(t)
<1>9a. Len(z) = off
  <2>1. Len(z) = Width + (1 + Len(t))
    BY <1>1, <1>3, <1>3d, Zenon
  <2>2. Width + (1 + Len(t)) = off
    BY <1>1
  <2> QED BY <2>1, <2>2, Zenon
<1>10. SubSeq(key, off + 1, off + Width) = b
  <2>1. SubSeq((z \o b) \o c, Len(z) + 1, Len(z) + Len(b)) = b
    BY <1>1, <1>3d, Parts
  <2> QED BY <1>1, <1>3g, <1>9a, <2>1, Zenon
<1>11. SubSeq(key, (off + Width) + 1, off + 2 * Width) = c
  <2> DEFINE zb == z \o b
  <2>1. SubSeq(zb \o c, Len(zb) + 1, Len(zb \o c)) = c
    BY <1>1, <1>3e, Parts
  <2>2. Len(zb) = off + Width
    BY <1>1, <1>3e, <1>9a, Zenon
  <2>3. Len(zb \o c) = (off + Width) + Width
    BY <1>1, <1>3f, <2>2, Zenon
  <2>4. (off + Width) + Width = off + 2 * Width
    <3>1. off \in Nat
      BY <1>1
    <3> HIDE DEF off
    <3> QED BY <1>1, <3>1
  <2> QED BY <1>3g, <2>1, <2>2, <2>3, <2>4, Zenon
<1>12. DecodeAdjKey(key) = [first |-> k.first, type |-> t, second |-> k.second, edge |-> k.edge]
  BY <1>1, <1>7, <1>8, <1>9, <1>10, <1>11 DEF DecodeAdjKey
<1>13. k = [first |-> k.first, type |-> k.type, second |-> k.second, edge |-> k.edge]
  BY DEF EdgeFields
<1> QED BY <1>2, <1>12, <1>13 DEF t

\* Nothing of the length of an edge's two ids comes after the greatest bytes.
LEMMA TopBytes ==
  ASSUME NEW n \in Nat
  PROVE  LET T == [i \in 1..n |-> Top] IN
         /\ T \in Bytes /\ Len(T) = n
         /\ \A s \in Bytes : Len(s) = n => ~Less(T, s)
<1> DEFINE T == [i \in 1..n |-> Top]
<1>0. Top \in Nat /\ Top \in 0..Top
  BY ZeroByte
<1>1. T \in Bytes /\ Len(T) = n /\ \A i \in 1..n : T[i] = Top
  BY <1>0 DEF Bytes
<1> HIDE DEF T
<1>2. ASSUME NEW s \in Bytes, Len(s) = n, Less(T, s) PROVE FALSE
  <2>1. PICK i \in 1..Len(s) : i <= Len(T) => T[i] < s[i]
    BY <1>2 DEF Less
  <2>2. s[i] \in 0..Top
    BY BytesElements
  <2>3. T[i] = Top /\ T[i] < s[i]
    BY <1>1, <1>2, <2>1
  <2> QED BY <1>0, <2>2, <2>3
<1> QED BY <1>1, <1>2 DEF T

\* Adjacency keys decode to their fields, and the scans over a node and over
\* one type of its edges find exactly their own keys (graph/codec.rs).
LEMMA EdgeKeysExact ==
  ASSUME NEW k \in EdgeFields, NEW node \in Ids, NEW type \in Names
  PROVE  AdjKeysExact(k, node, type)
<1>0. k.first \in Ids /\ k.type \in Names /\ k.second \in Ids /\ k.edge \in Ids
  BY DEF EdgeFields
<1> DEFINE key == AdjKey(k.first, k.type, k.second, k.edge)
           P == AdjTypePrefix(k.first, k.type)  Q == AdjTypePrefix(node, type)
           f == Be(k.first)  e == <<Len(k.type)>> \o k.type  s == Be(k.second)  d == Be(k.edge)
           T == [i \in 1..2 * Width |-> Top]
<1>1. DecodeAdjKey(key) = k
  BY AdjDecode
<1>2. /\ P \in Bytes /\ P = f \o e /\ Apart(P, Q) /\ (P = Q <=> k.first = node /\ k.type = type)
  <2>1. P \in Bytes /\ P = f \o e
    BY <1>0, AdjPrefix
  <2>2. Apart(P, Q)
    BY <1>0, AdjPrefixApart
  <2>3. ASSUME P = Q PROVE k.first = node /\ k.type = type
    BY <1>0, <2>3, AdjPrefixEqual
  <2>4. ASSUME k.first = node, k.type = type PROVE P = Q
    BY <2>4
  <2> QED BY <2>1, <2>2, <2>3, <2>4
<1>2a. Q \in Bytes
  BY <1>0, AdjPrefix
<1>3. f \in Bytes /\ s \in Bytes /\ d \in Bytes /\ Len(s) = Width /\ Len(d) = Width
  BY <1>0, FromBeExact
<1>4. e \in Bytes
  BY <1>0, NamePrefix
<1>5. key = (P \o s) \o d
  BY DEF AdjKey, AdjTypePrefix
<1>6. Width \in Nat /\ 2 * Width \in Nat /\ Width + Width = 2 * Width
  BY CodecAssumption
<1>7. T \in Bytes /\ Len(T) = 2 * Width /\ \A r \in Bytes : Len(r) = 2 * Width => ~Less(T, r)
  BY <1>6, TopBytes
<1>8. AdjTypeUpperBound(node, type) = Q \o T
  BY DEF AdjTypeUpperBound
<1> HIDE DEF key, P, Q, f, e, s, d, T
<1> DEFINE sd == s \o d  es == e \o sd
<1>9. sd \in Bytes /\ Len(sd) = 2 * Width
  <2>1. sd \in Bytes /\ Len(sd) = Len(s) + Len(d)
    BY <1>3, ConcatLen
  <2> QED BY <1>3, <1>6, <2>1
<1>10. key = P \o sd
  BY <1>2, <1>3, <1>5, ConcatAssociative
<1> HIDE DEF sd
<1>11. es \in Bytes
  BY <1>4, <1>9, ConcatLen
<1>12. key = f \o es
  <2>1. (f \o e) \o sd = f \o (e \o sd)
    BY <1>3, <1>4, <1>9, ConcatAssociative
  <2> QED BY <1>2, <1>10, <2>1
<1> HIDE DEF es
<1>13. (Above(Included(Be(node)), key) /\ Below(NextNodePrefix(node), key)) <=> k.first = node
  <2>0. k.first \in Nat /\ node \in Nat /\ Range64 \in Nat /\ k.first < Range64 /\ node < Range64
    BY <1>0, RangeFacts DEF Ids
  <2>1. ASSUME NEW n \in Ids PROVE Less(key, Be(n)) <=> k.first < n
    <3>1. Be(n) \in Bytes /\ Apart(f, Be(n)) /\ (Less(f, Be(n)) <=> k.first < n)
      BY <1>0, FromBeExact, BeOrder DEF f
    <3>2. Less(f \o es, Be(n)) <=> Less(f, Be(n))
      BY <1>3, <1>11, <3>1, Suffixed
    <3> QED BY <1>12, <3>1, <3>2
  <2>2. Above(Included(Be(node)), key) <=> ~(k.first < node)
    BY <2>1 DEF Above, Included
  <2>3. Below(NextNodePrefix(node), key) <=> k.first < node + 1
    <3>1. CASE node + 1 = Range64
      <4>1. NextNodePrefix(node) = Unbounded
        BY <3>1 DEF NextNodePrefix
      <4>2. Below(Unbounded, key)
        BY DEF Below, Unbounded
      <4> QED BY <2>0, <3>1, <4>1, <4>2
    <3>2. CASE node + 1 # Range64
      <4>1. NextNodePrefix(node) = Excluded(Be(node + 1))
        BY <3>2 DEF NextNodePrefix
      <4>2. node + 1 \in Ids
        BY <2>0, <3>2 DEF Ids
      <4>3. Below(Excluded(Be(node + 1)), key) <=> Less(key, Be(node + 1))
        BY DEF Below, Excluded
      <4> QED BY <2>1, <4>1, <4>2, <4>3
    <3> QED BY <3>1, <3>2
  <2> QED BY <2>0, <2>2, <2>3
<1>14. (Above(Included(Q), key) /\ Below(Included(Q \o T), key)) <=> P = Q
  <2>1. Above(Included(Q), key) <=> ~Less(P, Q)
    <3>1. Less(P \o sd, Q) <=> Less(P, Q)
      BY <1>2, <1>2a, <1>9, Suffixed
    <3> QED BY <1>10, <3>1 DEF Above, Included
  <2>2. Below(Included(Q \o T), key) <=> ~Less(Q \o T, key)
    BY DEF Below, Included
  <2>3. CASE P = Q
    <3>1. Less(Q \o T, Q \o sd) <=> Less(T, sd)
      BY <1>2a, <1>7, <1>9, Prefixed
    <3>2. ~Less(T, sd)
      BY <1>7, <1>9
    <3>3. ~Less(P, Q)
      BY <1>2, <2>3, LessTotal
    <3> QED BY <1>10, <2>1, <2>2, <2>3, <3>1, <3>2, <3>3
  <2>4. CASE Differ(P, Q)
    <3>1. PICK i \in Nat : DifferAt(P, Q, i)
      BY <2>4 DEF Differ
    <3>2. DifferAt(Q, P, i)
      BY <3>1, DifferSymmetric
    <3>3. DifferAt(Q \o T, P \o sd, i)
      BY <1>2, <1>2a, <1>7, <1>9, <3>2, DifferConcat
    <3>4. Q \o T \in Bytes /\ P \o sd \in Bytes
      BY <1>2, <1>2a, <1>7, <1>9, ConcatLen
    <3>5. Less(Q \o T, P \o sd) <=> (Q \o T)[i] < (P \o sd)[i]
      BY <3>3, <3>4, DifferDecides
    <3>6. (Q \o T)[i] = Q[i] /\ (P \o sd)[i] = P[i]
      <4>1. i \in DOMAIN Q /\ i \in DOMAIN P
        BY <3>1 DEF DifferAt
      <4>2. (Q \o T)[i] = Q[i]
        BY <1>2a, <1>7, <4>1, ConcatBytes
      <4>3. (P \o sd)[i] = P[i]
        BY <1>2, <1>9, <4>1, ConcatBytes
      <4> QED BY <4>2, <4>3
    <3>7. (Less(Q, P) <=> Q[i] < P[i]) /\ P # Q
      BY <1>2, <1>2a, <3>2, DifferDecides
    <3>8. Less(P, Q) \/ Less(Q, P)
      BY <1>2, <1>2a, <3>7, LessTotal
    <3>9. Less(Q \o T, P \o sd) <=> Less(Q, P)
      BY <3>5, <3>6, <3>7, Zenon
    <3> QED BY <1>10, <2>1, <2>2, <3>7, <3>8, <3>9, Zenon
  <2> QED BY <1>2, <2>3, <2>4 DEF Apart
<1> QED BY <1>1, <1>2, <1>8, <1>13, <1>14 DEF AdjKeysExact, key, Q

\* No property-index prefix begins that of another label or property.
LEMMA PropPrefixApart ==
  ASSUME NEW l \in Names, NEW p \in Names, NEW m \in Names, NEW r \in Names
  PROVE  /\ PropPrefix(l, p) \in Bytes /\ Apart(PropPrefix(l, p), PropPrefix(m, r))
         /\ PropPrefix(l, p) = PropPrefix(m, r) <=> (l = m /\ p = r)
<1> DEFINE a == <<Len(l)>> \o l  b == <<Len(p)>> \o p  c == <<Len(m)>> \o m  d == <<Len(r)>> \o r
<1>1. a \in Bytes /\ b \in Bytes /\ c \in Bytes /\ d \in Bytes
  BY NamePrefix
<1>2. Apart(a, c) /\ (a = c <=> l = m) /\ Apart(b, d) /\ (b = d <=> p = r)
  BY NamesApart
<1>3. PropPrefix(l, p) = a \o b /\ PropPrefix(m, r) = c \o d
  <2>1. ASSUME NEW x \in Names, NEW y \in Names
        PROVE  PropPrefix(x, y) = (<<Len(x)>> \o x) \o (<<Len(y)>> \o y)
    <3>1. <<Len(x)>> \o x \in Bytes /\ <<Len(y)>> \in Bytes /\ y \in Bytes
      BY NamePrefix
    <3> DEFINE u == <<Len(x)>> \o x  v == <<Len(y)>>
    <3>2. PropPrefix(x, y) = (u \o v) \o y
      BY DEF PropPrefix
    <3> HIDE DEF u, v
    <3>3. (u \o v) \o y = u \o (v \o y)
      BY <3>1, ConcatAssociative DEF u, v
    <3> QED BY <3>2, <3>3 DEF u, v
  <2> QED BY <2>1
<1> HIDE DEF a, b, c, d
<1>4. Apart(a \o b, c \o d) /\ (a \o b = c \o d <=> (a = c /\ b = d))
  <2>1. Apart(a \o b, c \o d)
    BY <1>1, <1>2, ApartConcat
  <2>2. ASSUME a \o b = c \o d PROVE a = c /\ b = d
    BY <1>1, <1>2, <2>2, ConcatEqual
  <2> QED BY <2>1, <2>2
<1>5. a \o b \in Bytes
  BY <1>1, ConcatLen
<1> QED BY <1>2, <1>3, <1>4, <1>5, Zenon

\* A scan of the property index finds exactly the entries of its label, property
\* and value, and reads their node back (graph/index.rs).
LEMMA PropIndexKeysExact ==
  ASSUME NEW k, k.label \in Names, k.property \in Names, k.kind \in Kinds,
         k.v \in Values(k.kind), k.node \in Ids,
         NEW label \in Names, NEW property \in Names, NEW v \in Values(k.kind)
  PROVE  PropKeysExact(k, label, property, v)
<1>0. /\ k.label \in Names /\ k.property \in Names /\ k.kind \in Kinds
      /\ k.v \in Values(k.kind) /\ k.node \in Ids
  OBVIOUS
<1> DEFINE P == PropPrefix(k.label, k.property)  Q == PropPrefix(label, property)
           a == SortableEncode(k.kind, k.v)  b == SortableEncode(k.kind, v)  n == Be(k.node)
           key == PropKey(k.label, k.property, k.kind, k.v, k.node)
<1>1. /\ P \in Bytes /\ Apart(P, Q) /\ (P = Q <=> (k.label = label /\ k.property = property))
  BY <1>0, PropPrefixApart
<1>1a. Q \in Bytes
  BY <1>0, PropPrefixApart
<1>2. a \in Bytes /\ b \in Bytes /\ Apart(a, b) /\ (a = b <=> k.v = v)
  BY <1>0, EncodedOrder
<1>3. n \in Bytes /\ Len(n) = Width /\ FromBe(n) = k.node /\ Width \in Nat
  BY <1>0, FromBeExact, CodecAssumption
<1>4. key = (P \o a) \o n
  BY DEF PropKey
<1> HIDE DEF P, Q, a, b, n, key
<1> DEFINE Pa == P \o a  Qb == Q \o b
<1>5. Apart(Pa, Qb) /\ (Pa = Qb <=> (P = Q /\ a = b))
  <2>1. Apart(P \o a, Q \o b)
    BY <1>1, <1>1a, <1>2, ApartConcat
  <2>2. ASSUME P \o a = Q \o b PROVE P = Q /\ a = b
    BY <1>1, <1>1a, <1>2, <2>2, ConcatEqual
  <2> QED BY <2>1, <2>2
<1>6. Pa \in Bytes /\ Qb \in Bytes
  BY <1>1, <1>1a, <1>2, ConcatLen
<1> HIDE DEF Pa, Qb
<1>7. key = Pa \o n
  BY <1>4 DEF Pa
<1>8. key \in Bytes /\ Len(key) = Len(Pa) + Len(n) /\ Len(Pa) \in Nat
  BY <1>3, <1>6, <1>7, ConcatLen, BytesElements
<1>9. TrailingNodeId(key) = k.node
  <2>1. SubSeq(Pa \o n, Len(Pa) + 1, Len(Pa \o n)) = n
    BY <1>3, <1>6, Parts
  <2>2. Len(key) - Width + 1 = Len(Pa) + 1
    BY <1>3, <1>8
  <2>3. SubSeq(key, Len(key) - Width + 1, Len(key)) = n
    BY <1>7, <2>1, <2>2, Zenon
  <2> QED BY <1>3, <2>3 DEF TrailingNodeId
<1>10. ScanPrefix(Qb, key) <=> Pa = Qb
  <2>1. ScanPrefix(Qb, key) <=> Starts(Qb, key)
    BY <1>6, <1>8, ScanPrefixExact
  <2>2. Starts(Qb, Pa \o n) <=> Pa = Qb
    BY <1>3, <1>5, <1>6, Suffixed
  <2> QED BY <1>7, <2>1, <2>2
<1>11. ScanPrefix(PropPrefix(label, property) \o SortableEncode(k.kind, v), key)
         <=> (k.label = label /\ k.property = property /\ k.v = v)
  BY <1>1, <1>2, <1>5, <1>10, Zenon DEF Qb, Q, b
<1> QED BY <1>9, <1>11, Zenon DEF PropKeysExact, key

\* Tables are disjoint ranges of the one key space and keep the order of their
\* keys (keys.rs).
LEMMA TablesKeysExact ==
  ASSUME NEW table \in Names, NEW key \in Bytes, NEW other \in Names, NEW otherKey \in Bytes
  PROVE  TableKeysExact(table, key, other, otherKey)
<1> DEFINE P == TablePrefix(table)  Q == TablePrefix(other)
<1>1. P \in Bytes /\ Q \in Bytes /\ Apart(P, Q) /\ (P = Q <=> table = other)
  BY NamePrefix, NamesApart DEF TablePrefix
<1>2. EncodeKey(table, key) = P \o key /\ EncodeKey(other, otherKey) = Q \o otherKey
  BY DEF EncodeKey
<1> HIDE DEF P, Q
<1>3. P \o key \in Bytes
  BY <1>1, ConcatLen
<1>4. ScanPrefix(Q, P \o key) <=> P = Q
  <2>1. ScanPrefix(Q, P \o key) <=> Starts(Q, P \o key)
    BY <1>1, <1>3, ScanPrefixExact
  <2>2. Starts(Q, P \o key) <=> P = Q
    BY <1>1, Suffixed
  <2> QED BY <2>1, <2>2
<1>5. Less(P \o key, P \o otherKey) <=> Less(key, otherKey)
  BY <1>1, Prefixed
<1>6. ASSUME P \o key = Q \o otherKey PROVE P = Q /\ key = otherKey
  BY <1>1, <1>6, ConcatEqual
<1>7. table = other => (Less(P \o key, Q \o otherKey) <=> Less(key, otherKey))
  BY <1>1, <1>5, Zenon
<1> QED BY <1>1, <1>2, <1>4, <1>6, <1>7, Zenon DEF TableKeysExact, Q

-----------------------------------------------------------------------------
(* Reads by key *)

\* What is known of the entries of a table.
LEMMA TableEntries ==
  ASSUME NEW sst, IsTable(sst)
  PROVE  /\ DOMAIN sst.blocks = 1..Len(sst.blocks) /\ Len(sst.blocks) \in Nat
         /\ \A i \in DOMAIN sst.blocks :
               /\ Len(sst.blocks[i]) \in Nat \ {0} /\ DOMAIN sst.blocks[i] = 1..Len(sst.blocks[i])
               /\ \A p \in DOMAIN sst.blocks[i] :
                     sst.blocks[i][p] \in EntriesIn(sst) /\ sst.blocks[i][p].k \in Bytes
         /\ \A x \in EntriesIn(sst) :
               \E i \in DOMAIN sst.blocks : \E p \in DOMAIN sst.blocks[i] : x = sst.blocks[i][p]
<1> DEFINE E == EntriesIn(sst)
<1>1. sst.blocks \in Seq(Seq(E) \ {<<>>}) /\ \A x \in E : x.k \in Bytes
  BY DEF IsTable
<1>2. \A x \in E : \E i \in DOMAIN sst.blocks : \E p \in DOMAIN sst.blocks[i] : x = sst.blocks[i][p]
  BY Zenon DEF EntriesIn, ToSet
<1> HIDE DEF E
<1>3. DOMAIN sst.blocks = 1..Len(sst.blocks) /\ Len(sst.blocks) \in Nat
  BY <1>1
<1>4. ASSUME NEW i \in DOMAIN sst.blocks
      PROVE  /\ Len(sst.blocks[i]) \in Nat \ {0} /\ DOMAIN sst.blocks[i] = 1..Len(sst.blocks[i])
             /\ \A p \in DOMAIN sst.blocks[i] : sst.blocks[i][p] \in E
  <2>1. sst.blocks[i] \in Seq(E) /\ sst.blocks[i] # <<>>
    BY <1>1
  <2> QED BY <2>1
<1> QED BY <1>1, <1>2, <1>3, <1>4, Zenon DEF E

\* A key is in one place of a table only.
LEMMA PlaceUnique ==
  ASSUME NEW sst, IsTable(sst),
         NEW i \in DOMAIN sst.blocks, NEW p \in DOMAIN sst.blocks[i],
         NEW j \in DOMAIN sst.blocks, NEW q \in DOMAIN sst.blocks[j],
         sst.blocks[i][p].k = sst.blocks[j][q].k
  PROVE  i = j /\ p = q
<1> DEFINE k == sst.blocks[i][p].k
<1>1. k \in Bytes /\ ~Less(k, k)
  BY TableEntries, LessTotal
<1>2. i \in Nat /\ j \in Nat /\ p \in Nat /\ q \in Nat
  <2>1. DOMAIN sst.blocks = 1..Len(sst.blocks) /\ Len(sst.blocks) \in Nat
        /\ DOMAIN sst.blocks[i] = 1..Len(sst.blocks[i]) /\ Len(sst.blocks[i]) \in Nat
        /\ DOMAIN sst.blocks[j] = 1..Len(sst.blocks[j]) /\ Len(sst.blocks[j]) \in Nat
    BY TableEntries
  <2> QED BY <2>1
<1>3. ~(i < j) /\ ~(j < i) /\ ~(i = j /\ p < q) /\ ~(i = j /\ q < p)
  <2>1. \A a, b \in DOMAIN sst.blocks : \A r \in DOMAIN sst.blocks[a], t \in DOMAIN sst.blocks[b] :
            a < b \/ (a = b /\ r < t) => Less(sst.blocks[a][r].k, sst.blocks[b][t].k)
    BY DEF IsTable
  <2> QED BY <2>1, <1>1, Zenon
<1> QED BY <1>2, <1>3

\* The cardinality block_for counts with.
LEMMA CardinalityUpto ==
  ASSUME NEW n \in Nat
  PROVE  Cardinality(1..n) = n
<1>1. Cardinality(1..n) = IF 1 > n THEN 0 ELSE n - 1 + 1
  BY FS_Interval
<1> QED BY <1>1

\* block_for finds the block of a key that is in the table.
LEMMA BlockForExact ==
  ASSUME NEW sst, IsTable(sst), NEW j \in DOMAIN sst.blocks, NEW p \in DOMAIN sst.blocks[j]
  PROVE  BlockFor(sst, sst.blocks[j][p].k) = j
<1> DEFINE key == sst.blocks[j][p].k
<1>1. /\ DOMAIN sst.blocks = 1..Len(sst.blocks) /\ Len(sst.blocks) \in Nat
      /\ DOMAIN sst.blocks[j] = 1..Len(sst.blocks[j]) /\ Len(sst.blocks[j]) \in Nat \ {0}
      /\ key \in Bytes
  BY TableEntries
<1>2. j \in 1..Len(sst.blocks) /\ j \in Nat /\ p \in Nat /\ 1 <= p
  BY <1>1
<1>3. ASSUME NEW i \in DOMAIN sst.blocks PROVE ~Less(key, sst.blocks[i][1].k) <=> i <= j
  <2>1. 1 \in DOMAIN sst.blocks[i] /\ sst.blocks[i][1].k \in Bytes /\ i \in Nat
    <3>1. Len(sst.blocks[i]) \in Nat \ {0} /\ DOMAIN sst.blocks[i] = 1..Len(sst.blocks[i])
      BY TableEntries
    <3>2. 1 \in DOMAIN sst.blocks[i]
      BY <3>1
    <3> QED BY <1>1, <3>2, TableEntries
  <2>2. /\ i < j \/ (i = j /\ 1 < p) => Less(sst.blocks[i][1].k, key)
        /\ j < i => Less(key, sst.blocks[i][1].k)
    BY <2>1 DEF IsTable
  <2>3. ~(Less(key, sst.blocks[i][1].k) /\ Less(sst.blocks[i][1].k, key)) /\ ~Less(key, key)
    BY <1>1, <2>1, LessTotal
  <2>4. CASE i < j
    BY <2>1, <2>2, <2>3, <2>4, <1>2
  <2>5. CASE i = j /\ 1 < p
    BY <2>1, <2>2, <2>3, <2>5, <1>2
  <2>6. CASE i = j /\ p = 1
    BY <2>3, <2>6, <1>2
  <2>7. CASE j < i
    BY <2>1, <2>2, <2>7, <1>2
  <2> QED BY <2>1, <2>4, <2>5, <2>6, <2>7, <1>2
<1>4. {i \in DOMAIN sst.blocks : ~Less(key, sst.blocks[i][1].k)} = 1..j
  <2> HIDE DEF key
  <2> QED BY <1>1, <1>2, <1>3
<1> QED BY <1>2, <1>4, CardinalityUpto DEF BlockFor

\* The least of a set with one element.
LEMMA MinSingleton == ASSUME NEW n \in Nat PROVE Min({n}) = n
  BY DEF Min

\* A table answers for a key it holds with the entry, or with an error of the
\* block the entry is in; for any other key it has no answer, or an error of
\* the block it looked in (SstableHandle::get).
LEMMA SstGetExact ==
  ASSUME NEW sst, IsTable(sst), NEW key \in Bytes
  PROVE  /\ SstGet(sst, key).bad \in BOOLEAN
         /\ SstGet(sst, key).bad => BlockFor(sst, key) \in sst.bad /\ SstGet(sst, key).found = <<>>
         /\ key \in DOMAIN LayerOf(sst) =>
               SstGet(sst, key).bad \/ SstGet(sst, key).found = <<LayerOf(sst)[key]>>
         /\ key \notin DOMAIN LayerOf(sst) => SstGet(sst, key).found = <<>>
<1> DEFINE i == BlockFor(sst, key)
           at == {j \in DOMAIN sst.blocks[i] : sst.blocks[i][j].k = key}
           none == [bad |-> FALSE, found |-> <<>>]
           out == sst.blocks = <<>> \/ Less(key, sst.min) \/ Less(sst.max, key) \/ ~MightContain(sst.bloom, key) \/ i = 0
<1>1. SstGet(sst, key) = IF out THEN none
                         ELSE IF i \in sst.bad THEN [bad |-> TRUE, found |-> <<>>]
                         ELSE IF at = {} THEN none ELSE [bad |-> FALSE, found |-> <<sst.blocks[i][Min(at)].e>>]
  BY Zenon DEF SstGet
<1>2. DOMAIN LayerOf(sst) = {x.k : x \in EntriesIn(sst)}
  BY DEF LayerOf
<1>3. ASSUME key \in DOMAIN LayerOf(sst)
      PROVE  ~out /\ at # {} /\ sst.blocks[i][Min(at)].e = LayerOf(sst)[key]
  <2>1. PICK x \in EntriesIn(sst) : x.k = key
    BY <1>2, <1>3
  <2>a. PICK j \in DOMAIN sst.blocks : \E p \in DOMAIN sst.blocks[j] : x = sst.blocks[j][p]
    BY <2>1, TableEntries
  <2>2. PICK p \in DOMAIN sst.blocks[j] : x = sst.blocks[j][p]
    BY <2>a
  <2>3. i = j
    BY <2>1, <2>2, BlockForExact
  <2>4. j # 0 /\ sst.blocks # <<>>
    <3>1. DOMAIN sst.blocks = 1..Len(sst.blocks) /\ Len(sst.blocks) \in Nat
      BY TableEntries
    <3>2. j \in 1..Len(sst.blocks)
      BY <3>1, <2>2
    <3> QED BY <3>1, <3>2
  <2>5. ~Less(key, sst.min) /\ ~Less(sst.max, key) /\ MightContain(sst.bloom, key)
    BY <2>1 DEF IsTable
  <2>6. at = {p}
    <3>1. \A q \in DOMAIN sst.blocks[i] : sst.blocks[i][q].k = key => q = p
      BY <2>1, <2>2, <2>3, PlaceUnique
    <3>2. p \in DOMAIN sst.blocks[i] /\ sst.blocks[i][p].k = key
      BY <2>1, <2>2, <2>3
    <3> QED BY <3>1, <3>2, Zenon
  <2>7. p \in Nat
    <3>1. DOMAIN sst.blocks[j] = 1..Len(sst.blocks[j]) /\ Len(sst.blocks[j]) \in Nat
      BY <2>2, TableEntries
    <3> QED BY <3>1, <2>2
  <2>8. \A y \in EntriesIn(sst) : y.k = key => y = x
    <3> SUFFICES ASSUME NEW y \in EntriesIn(sst), y.k = key PROVE y = x
      OBVIOUS
    <3>a. PICK a \in DOMAIN sst.blocks : \E q \in DOMAIN sst.blocks[a] : y = sst.blocks[a][q]
      BY TableEntries
    <3>1. PICK q \in DOMAIN sst.blocks[a] : y = sst.blocks[a][q]
      BY <3>a
    <3>2. a = j /\ q = p
      BY <2>1, <2>2, <3>1, PlaceUnique
    <3> QED BY <2>2, <3>1, <3>2
  <2>9. LayerOf(sst)[key] = x.e
    <3>1. (CHOOSE y \in EntriesIn(sst) : y.k = key) = x
      BY <2>1, <2>8, Zenon
    <3>2. LayerOf(sst)[key] = (CHOOSE y \in EntriesIn(sst) : y.k = key).e
      BY <1>2, <1>3, Zenon DEF LayerOf
    <3> QED BY <3>1, <3>2
  <2>10. Min(at) = p
    BY <2>6, <2>7, MinSingleton
  <2> HIDE DEF i, at
  <2> QED BY <2>2, <2>3, <2>4, <2>5, <2>6, <2>9, <2>10
<1>4. ASSUME key \notin DOMAIN LayerOf(sst), ~out PROVE at = {}
  <2> SUFFICES ASSUME NEW q \in DOMAIN sst.blocks[i], sst.blocks[i][q].k = key PROVE FALSE
    BY Zenon
  <2>1. i \in DOMAIN sst.blocks
    <3>1. DOMAIN sst.blocks = 1..Len(sst.blocks) /\ Len(sst.blocks) \in Nat
      BY TableEntries
    <3> DEFINE S == {j \in DOMAIN sst.blocks : ~Less(key, sst.blocks[j][1].k)}
    <3>2. S \subseteq 1..Len(sst.blocks) /\ i = Cardinality(S)
      BY <3>1 DEF BlockFor
    <3> HIDE DEF S, i
    <3>3. IsFiniteSet(1..Len(sst.blocks)) /\ Cardinality(1..Len(sst.blocks)) = Len(sst.blocks)
      BY <3>1, CardinalityUpto, FS_Interval
    <3>4. IsFiniteSet(S) /\ Cardinality(S) <= Len(sst.blocks)
      BY <3>2, <3>3, FS_Subset
    <3>5. Cardinality(S) \in Nat
      BY <3>4, FS_CardinalityType
    <3>6. i # 0
      BY <1>4
    <3> QED BY <3>1, <3>2, <3>4, <3>5, <3>6
  <2>2. sst.blocks[i][q] \in EntriesIn(sst)
    BY <2>1, TableEntries
  <2> QED BY <1>2, <1>4, <2>2
<1> HIDE DEF i, at, out
<1>5. CASE out
  BY <1>1, <1>3, <1>5
<1>6. CASE ~out /\ i \in sst.bad
  BY <1>1, <1>6 DEF i
<1>7. CASE ~out /\ i \notin sst.bad
  BY <1>1, <1>3, <1>4, <1>7
<1> QED BY <1>5, <1>6, <1>7

\* The layers under a list of others come after them.
LEMMA LayersOver ==
  ASSUME NEW X, NEW a \in Seq(X), NEW Y, NEW b \in Seq(Y)
  PROVE  /\ Len(a \o b) = Len(a) + Len(b) /\ Len(a) \in Nat /\ Len(b) \in Nat
         /\ DOMAIN a = 1..Len(a) /\ DOMAIN b = 1..Len(b) /\ DOMAIN (a \o b) = 1..Len(a) + Len(b)
         /\ \A i \in 1..Len(a) : (a \o b)[i] = a[i]
         /\ \A i \in 1..Len(b) : (a \o b)[Len(a) + i] = b[i]
<1>1. a \in Seq(X \cup Y) /\ b \in Seq(X \cup Y)
  <2>1. DOMAIN a = 1..Len(a) /\ Len(a) \in Nat /\ \A i \in 1..Len(a) : a[i] \in X
    OBVIOUS
  <2>2. DOMAIN b = 1..Len(b) /\ Len(b) \in Nat /\ \A i \in 1..Len(b) : b[i] \in Y
    OBVIOUS
  <2>3. a \in [1..Len(a) -> X \cup Y] /\ b \in [1..Len(b) -> X \cup Y]
    BY <2>1, <2>2
  <2> QED BY <2>1, <2>2, <2>3
<1> DEFINE Z == X \cup Y
<1> HIDE DEF Z
<1>2. a \in Seq(Z) /\ b \in Seq(Z)
  BY <1>1 DEF Z
<1> QED BY <1>2

\* The least of a set of naturals.
LEMMA MinNatural ==
  ASSUME NEW S \in SUBSET Nat, NEW m \in S, \A n \in S : m <= n
  PROVE  Min(S) = m
<1>1. \A x \in S : (\A y \in S : x =< y) => x = m
  <2> SUFFICES ASSUME NEW x \in S, \A y \in S : x =< y PROVE x = m
    OBVIOUS
  <2>1. x \in Nat /\ m \in Nat /\ x <= m /\ m <= x
    OBVIOUS
  <2> QED BY <2>1
<1> DEFINE P(x) == \A y \in S : x =< y
<1>2. P(m)
  OBVIOUS
<1>3. \A x \in S : P(x) => x = m
  BY <1>1
<1> HIDE DEF P
<1>4. (CHOOSE x \in S : P(x)) = m
  BY <1>2, <1>3, Zenon
<1> QED BY <1>4, Zenon DEF P, Min

\* A nonempty set of naturals has its least element.
LEMMA MinIn ==
  ASSUME NEW S \in SUBSET Nat, S # {}
  PROVE  Min(S) \in S /\ \A n \in S : Min(S) <= n
<1>1. PICK m \in S : \A n \in S : m <= n
  BY LeastNatural
<1>2. Min(S) = m
  BY <1>1, MinNatural
<1> QED BY <1>1, <1>2

\* What is visible under a key is what the first layer that holds it says.
LEMMA VisibleAt ==
  ASSUME NEW stack, DOMAIN stack \subseteq Nat, NEW key, NEW m \in DOMAIN stack, key \in DOMAIN stack[m],
         \A i \in DOMAIN stack : i < m => key \notin DOMAIN stack[i]
  PROVE  Visible(stack, key) = stack[m][key]
<1> DEFINE held == {i \in DOMAIN stack : key \in DOMAIN stack[i]}
<1>1. held \in SUBSET Nat /\ m \in held
  OBVIOUS
<1>2. ASSUME NEW n \in held PROVE m <= n
  <2>1. n \in DOMAIN stack /\ ~(n < m) /\ n \in Nat /\ m \in Nat
    BY <1>1
  <2> QED BY <2>1
<1>3. Visible(stack, key) = IF held = {} THEN <<>> ELSE stack[Min(held)][key]
  BY Zenon DEF Visible
<1> HIDE DEF held
<1>4. Min(held) = m
  BY <1>1, <1>2, MinNatural
<1> QED BY <1>1, <1>3, <1>4

\* A read by key through pending writes, memtables and SSTables answers with the
\* newest entry, and fails only on a damaged block that the answer depends on:
\* whatever the number of layers, the cut into blocks, the size of the filter
\* and the hashes (engine/tx.rs lookup, sstable get, bloom.rs).
THEOREM PointReadsExact ==
  ASSUME NEW M, NEW T, NEW s, NEW pending \in Seq(M), s.mems \in Seq(M), s.ssts \in Seq(T),
         \A i \in DOMAIN s.ssts : IsTable(s.ssts[i]), NEW key \in Bytes
  PROVE  GetExact(s, pending, key)
<1> DEFINE layers == pending \o s.mems
           tables == [i \in DOMAIN s.ssts |-> LayerOf(s.ssts[i])]
           stack == layers \o tables
           newer == Len(pending) + Len(s.mems)
           held == {i \in DOMAIN layers : key \in DOMAIN layers[i]}
           told == {i \in DOMAIN s.ssts : Tells(s.ssts[i], key)}
           r == Lookup(s, pending, key)
<1>1. /\ newer \in Nat /\ Len(layers) = newer /\ DOMAIN layers = 1..newer /\ layers \in Seq(M)
  BY LayersOver
<1>2. DOMAIN s.ssts = 1..Len(s.ssts) /\ Len(s.ssts) \in Nat
  OBVIOUS
<1> DEFINE Y == {LayerOf(s.ssts[i]) : i \in DOMAIN s.ssts}
<1>3. tables \in Seq(Y) /\ Len(tables) = Len(s.ssts)
  BY <1>2
<1>4. /\ DOMAIN stack = 1..newer + Len(s.ssts)
      /\ \A i \in 1..newer : stack[i] = layers[i]
      /\ \A i \in DOMAIN s.ssts : stack[newer + i] = LayerOf(s.ssts[i])
  <2> HIDE DEF layers, tables, newer, Y, held, told, r
  <2>1. /\ DOMAIN stack = 1..Len(layers) + Len(tables)
        /\ \A i \in 1..Len(layers) : stack[i] = layers[i]
        /\ \A i \in 1..Len(tables) : stack[Len(layers) + i] = tables[i]
    <3>1. layers \in Seq(M) /\ tables \in Seq(Y)
      BY <1>1, <1>3
    <3>2. DOMAIN (layers \o tables) = 1..Len(layers) + Len(tables)
      BY <3>1, LayersOver
    <3>3. \A i \in 1..Len(layers) : (layers \o tables)[i] = layers[i]
      BY <3>1, LayersOver
    <3>4. \A i \in 1..Len(tables) : (layers \o tables)[Len(layers) + i] = tables[i]
      BY <3>1, LayersOver
    <3> QED BY <3>2, <3>3, <3>4, Zenon
  <2>2. \A i \in DOMAIN s.ssts : tables[i] = LayerOf(s.ssts[i])
    BY DEF tables
  <2> QED BY <1>1, <1>2, <1>3, <2>1, <2>2
<1>5. r = IF held # {} THEN [bad |-> FALSE, v |-> layers[Min(held)][key]]
          ELSE IF told = {} THEN [bad |-> FALSE, v |-> <<>>]
          ELSE [bad |-> SstGet(s.ssts[Min(told)], key).bad,
                v |-> IF SstGet(s.ssts[Min(told)], key).bad THEN <<>> ELSE SstGet(s.ssts[Min(told)], key).found[1]]
  BY Zenon DEF Lookup
<1>6. Stack(s, pending) = stack
  BY DEF Stack
<1>7. GetExact(s, pending, key) <=>
        IF r.bad
        THEN \E i \in DOMAIN s.ssts :
                /\ BlockFor(s.ssts[i], key) \in s.ssts[i].bad
                /\ \A j \in 1..newer + i - 1 : key \notin DOMAIN stack[j]
        ELSE r.v = Visible(stack, key)
  BY <1>6 DEF GetExact
<1>8. held \in SUBSET Nat /\ told \in SUBSET Nat
  BY <1>1, <1>2
<1>9. \A i \in DOMAIN s.ssts : i \notin told => key \notin DOMAIN stack[newer + i]
  <2> SUFFICES ASSUME NEW i \in DOMAIN s.ssts, i \notin told PROVE key \notin DOMAIN LayerOf(s.ssts[i])
    BY <1>4
  <2>1. IsTable(s.ssts[i]) /\ ~Tells(s.ssts[i], key)
    OBVIOUS
  <2> HIDE DEF layers, tables, stack, newer, held, told, r, Y
  <2>2. SstGet(s.ssts[i], key).found = <<>> /\ ~SstGet(s.ssts[i], key).bad
    BY <2>1 DEF Tells
  <2>3. ASSUME key \in DOMAIN LayerOf(s.ssts[i]) PROVE FALSE
    <3>1. SstGet(s.ssts[i], key).found = <<LayerOf(s.ssts[i])[key]>>
      BY <2>1, <2>2, <2>3, SstGetExact
    <3>2. \A x : <<x>> # <<>>
      OBVIOUS
    <3> QED BY <2>2, <3>1, <3>2, Zenon
  <2> QED BY <2>3
<1>10. CASE held # {}
  <2>a. PICK m : m = Min(held)
    OBVIOUS
  <2>1. m \in held /\ \A n \in held : m <= n
    <3> HIDE DEF held
    <3> QED BY <1>8, <1>10, <2>a, MinIn
  <2>2. m \in 1..newer /\ key \in DOMAIN layers[m] /\ m \in Nat
    BY <1>1, <2>1
  <2>3. \A i \in 1..newer : i < m => key \notin DOMAIN layers[i]
    <3> SUFFICES ASSUME NEW i \in 1..newer, i < m, key \in DOMAIN layers[i] PROVE FALSE
      OBVIOUS
    <3>1. i \in held /\ i \in Nat
      BY <1>1
    <3> HIDE DEF held
    <3> QED BY <2>1, <2>2, <3>1
  <2> HIDE DEF stack, layers, newer, tables, held, told, r, Y
  <2>4. ~r.bad /\ r.v = layers[m][key]
    BY <1>5, <1>10, <2>a
  <2>5. Visible(stack, key) = stack[m][key]
    <3>1. DOMAIN stack \subseteq Nat /\ m \in DOMAIN stack /\ key \in DOMAIN stack[m]
      BY <1>1, <1>2, <1>4, <2>2
    <3>2. \A i \in DOMAIN stack : i < m => key \notin DOMAIN stack[i]
      <4> SUFFICES ASSUME NEW i \in DOMAIN stack, i < m PROVE key \notin DOMAIN stack[i]
        OBVIOUS
      <4>1. i \in 1..newer
        BY <1>1, <1>2, <1>4, <2>2
      <4> QED BY <4>1, <1>4, <2>3
    <3> QED BY <3>1, <3>2, VisibleAt
  <2>6. stack[m] = layers[m]
    BY <1>4, <2>2
  <2> QED BY <1>7, <2>4, <2>5, <2>6
<1>11. ASSUME held = {}, NEW i \in 1..newer PROVE key \notin DOMAIN stack[i]
  <2>1. i \notin held /\ i \in DOMAIN layers
    BY <1>1, <1>11
  <2> QED BY <1>4, <2>1
<1>12. CASE held = {} /\ told = {}
  <2>1. ~r.bad /\ r.v = <<>>
    BY <1>5, <1>12
  <2>2. \A j \in DOMAIN stack : key \notin DOMAIN stack[j]
    <3> SUFFICES ASSUME NEW j \in DOMAIN stack PROVE key \notin DOMAIN stack[j]
      OBVIOUS
    <3> HIDE DEF stack, newer, told, held, layers, tables, r, Y
    <3>1. CASE j \in 1..newer
      BY <1>11, <1>12, <3>1
    <3>2. CASE j \notin 1..newer
      <4>1. j - newer \in DOMAIN s.ssts /\ newer + (j - newer) = j
        BY <1>1, <1>2, <1>4, <3>2
      <4> QED BY <1>9, <1>12, <4>1
    <3> QED BY <3>1, <3>2
  <2>3. Visible(stack, key) = <<>>
    <3> HIDE DEF stack
    <3> QED BY <2>2, Zenon DEF Visible
  <2> HIDE DEF r, stack
  <2> QED BY <1>7, <2>1, <2>3
<1>13. CASE held = {} /\ told # {}
  <2>a. PICK t : t = Min(told)
    OBVIOUS
  <2>1. t \in told /\ \A n \in told : t <= n
    <3> HIDE DEF told
    <3> QED BY <1>8, <1>13, <2>a, MinIn
  <2> DEFINE g == SstGet(s.ssts[t], key)
  <2>2. t \in DOMAIN s.ssts /\ t \in Nat /\ Tells(s.ssts[t], key) /\ IsTable(s.ssts[t])
    BY <1>2, <2>1
  <2> HIDE DEF layers, tables, stack, newer, held, r, Y
  <2>3. r = [bad |-> g.bad, v |-> IF g.bad THEN <<>> ELSE g.found[1]]
    <3> HIDE DEF told
    <3> QED BY <1>5, <1>13, <2>a
  <2>4. ASSUME NEW i \in DOMAIN s.ssts, i < t PROVE i \notin told
    <3> HIDE DEF told
    <3> QED BY <1>2, <2>1, <2>2, <2>4
  <2> HIDE DEF told
  <2>5. \A j \in 1..newer + t - 1 : key \notin DOMAIN stack[j]
    <3> SUFFICES ASSUME NEW j \in 1..newer + t - 1 PROVE key \notin DOMAIN stack[j]
      OBVIOUS
    <3>1. CASE j \in 1..newer
      BY <1>11, <1>13, <3>1
    <3>2. CASE j \notin 1..newer
      <4>1. j - newer \in DOMAIN s.ssts /\ newer + (j - newer) = j /\ j - newer < t
        BY <1>1, <1>2, <2>2, <3>2
      <4> QED BY <1>9, <2>4, <4>1
    <3> QED BY <3>1, <3>2
  <2>6. g.bad \in BOOLEAN /\ (g.bad => BlockFor(s.ssts[t], key) \in s.ssts[t].bad /\ g.found = <<>>)
    BY <2>2, SstGetExact
  <2>7. CASE g.bad
    <3>1. r.bad
      BY <2>3, <2>7
    <3> HIDE DEF r, g
    <3> QED BY <1>7, <2>2, <2>5, <2>6, <2>7, <3>1
  <2>8. CASE ~g.bad
    <3>1. g.found # <<>>
      BY <2>2, <2>8 DEF Tells
    <3>2. key \in DOMAIN LayerOf(s.ssts[t]) /\ g.found = <<LayerOf(s.ssts[t])[key]>>
      BY <2>2, <2>8, <3>1, SstGetExact
    <3>3. ~r.bad /\ r.v = LayerOf(s.ssts[t])[key]
      BY <2>3, <2>8, <3>2
    <3>4. Visible(stack, key) = stack[newer + t][key]
      <4>1. DOMAIN stack \subseteq Nat /\ newer + t \in DOMAIN stack /\ key \in DOMAIN stack[newer + t]
        BY <1>1, <1>2, <1>4, <2>2, <3>2
      <4>2. \A j \in DOMAIN stack : j < newer + t => key \notin DOMAIN stack[j]
        <5> SUFFICES ASSUME NEW j \in DOMAIN stack, j < newer + t PROVE key \notin DOMAIN stack[j]
          OBVIOUS
        <5>1. j \in 1..newer + t - 1
          BY <1>1, <1>2, <1>4, <2>2
        <5> QED BY <2>5, <5>1
      <4> QED BY <4>1, <4>2, VisibleAt
    <3> HIDE DEF r, g
    <3> QED BY <1>4, <1>7, <2>2, <3>3, <3>4
  <2> QED BY <2>6, <2>7, <2>8
<1> HIDE DEF held, told
<1> QED BY <1>10, <1>12, <1>13

-----------------------------------------------------------------------------
(* Keys in order *)

\* The byte order is transitive.
LEMMA LessTransitive ==
  ASSUME NEW a \in Bytes, NEW b \in Bytes, NEW c \in Bytes, Less(a, b), Less(b, c)
  PROVE  Less(a, c)
<1>1. /\ Len(a) \in Nat /\ Len(b) \in Nat /\ Len(c) \in Nat
      /\ \A i \in 1..Len(a) : a[i] \in Nat
      /\ \A i \in 1..Len(b) : b[i] \in Nat
      /\ \A i \in 1..Len(c) : c[i] \in Nat
  BY BytesElements
<1>2. PICK i \in 1..Len(b) : i <= Len(a) + 1 /\ (\A n \in 1..i - 1 : a[n] = b[n]) /\ (i <= Len(a) => a[i] < b[i])
  BY DEF Less
<1>3. PICK j \in 1..Len(c) : j <= Len(b) + 1 /\ (\A n \in 1..j - 1 : b[n] = c[n]) /\ (j <= Len(b) => b[j] < c[j])
  BY DEF Less
<1>4. CASE i < j
  <2>1. i \in 1..Len(c) /\ i <= Len(a) + 1
    BY <1>1, <1>2, <1>3, <1>4
  <2>2. \A n \in 1..i - 1 : a[n] = c[n]
    BY <1>1, <1>2, <1>3, <1>4
  <2>3. i <= Len(a) => a[i] < c[i]
    BY <1>1, <1>2, <1>3, <1>4
  <2> QED BY <2>1, <2>2, <2>3 DEF Less
<1>5. CASE j <= i
  <2>1. j \in 1..Len(c) /\ j <= Len(a) + 1 /\ j <= Len(b) /\ j \in 1..Len(b)
    BY <1>1, <1>2, <1>3, <1>5
  <2>2. \A n \in 1..j - 1 : a[n] = c[n]
    BY <1>1, <1>2, <1>3, <1>5
  <2>3. j <= Len(a) => a[j] < c[j]
    <3> HAVE j <= Len(a)
    <3>1. b[j] < c[j] /\ j \in 1..Len(a) /\ j \in 1..Len(b) /\ j \in 1..Len(c)
      BY <1>1, <1>3, <2>1
    <3>2. a[j] <= b[j]
      <4>1. CASE j = i
        BY <1>1, <1>2, <3>1, <4>1
      <4>2. CASE j < i
        <5>1. j \in 1..i - 1
          BY <1>1, <2>1, <4>2
        <5> QED BY <1>1, <1>2, <3>1, <5>1
      <4> QED BY <1>5, <4>1, <4>2, <1>1
    <3> QED BY <1>1, <3>1, <3>2
  <2> QED BY <2>1, <2>2, <2>3 DEF Less
<1> QED BY <1>4, <1>5, <1>1

\* A sequence of keys climbs.
Climbs(t) == \A i, j \in DOMAIN t : i < j => Less(t[i], t[j])

\* A climbing sequence has as many elements as it has places.
LEMMA ClimbsCardinality ==
  ASSUME NEW t \in Seq(Bytes), Climbs(t), NEW n \in Nat, n <= Len(t)
  PROVE  IsFiniteSet({t[j] : j \in 1..n}) /\ Cardinality({t[j] : j \in 1..n}) = n
<1> DEFINE S == {t[j] : j \in 1..n}
           f == [j \in 1..n |-> t[j]]
<1>1. DOMAIN t = 1..Len(t) /\ Len(t) \in Nat /\ \A j \in 1..n : j \in DOMAIN t /\ t[j] \in Bytes
  OBVIOUS
<1>2. \A a, b \in 1..n : f[a] = f[b] => a = b
  <2> SUFFICES ASSUME NEW a \in 1..n, NEW b \in 1..n, t[a] = t[b], a # b PROVE FALSE
    OBVIOUS
  <2>1. a < b \/ b < a
    OBVIOUS
  <2>2. Less(t[a], t[b]) \/ Less(t[b], t[a])
    BY <1>1, <2>1 DEF Climbs
  <2> QED BY <1>1, <2>2, LessTotal
<1>3. f \in Bijection(1..n, S)
  BY <1>2 DEF Bijection, Injection, Surjection, IsInjective
<1>4. ExistsBijection(1..n, S)
  BY <1>3 DEF ExistsBijection
<1>5. IsFiniteSet(1..n) /\ Cardinality(1..n) = n
  BY CardinalityUpto, FS_Interval
<1> HIDE DEF S, f
<1>6. IsFiniteSet(S) /\ Cardinality(S) = n
  BY <1>4, <1>5, FS_Bijection
<1> QED BY <1>6 DEF S

-----------------------------------------------------------------------------
(* Writing a table *)

\* The values a recursion goes through.
Runs(f, D, a, step) == f \in [Nat -> D] /\ f[0] = a /\ \A n \in Nat : f[n + 1] = step[<<n, f[n]>>]

\* A function defined by recursion over the naturals exists: the values come
\* from a set and the steps are those of a function on it.
LEMMA RecursionExists ==
  ASSUME NEW D, NEW a \in D, NEW step \in [Nat \X D -> D]
  PROVE  \E f : Runs(f, D, a, step)
<1> DEFINE Upto(n, g) == /\ g \in [0..n -> D] /\ g[0] = a
                         /\ \A i \in 0..n - 1 : g[i + 1] = step[<<i, g[i]>>]
           E == {n \in Nat : \E g : Upto(n, g)}
<1>1. \A n \in Nat : n \in E
  <2>1. 0 \in E
    <3>1. Upto(0, [i \in 0..0 |-> a])
      OBVIOUS
    <3> QED BY <3>1
  <2>2. ASSUME NEW n \in Nat, n \in E PROVE n + 1 \in E
    <3>1. PICK g : Upto(n, g)
      BY <2>2
    <3> DEFINE h == [i \in 0..(n + 1) |-> IF i = n + 1 THEN step[<<n, g[n]>>] ELSE g[i]]
    <3>2. h \in [0..(n + 1) -> D]
      <4>1. step[<<n, g[n]>>] \in D
        BY <3>1
      <4> QED BY <3>1, <4>1
    <3>3. h[0] = a
      BY <3>1
    <3>4. ASSUME NEW i \in 0..(n + 1) - 1 PROVE h[i + 1] = step[<<i, h[i]>>]
      <4>1. i \in 0..(n + 1) /\ i + 1 \in 0..(n + 1) /\ i # n + 1
        OBVIOUS
      <4>2. h[i] = g[i]
        BY <4>1
      <4>3. CASE i = n
        BY <4>1, <4>2, <4>3
      <4>4. CASE i # n
        <5>1. i \in 0..n - 1 /\ i + 1 # n + 1
          BY <4>4
        <5>2. h[i + 1] = g[i + 1]
          BY <4>1, <5>1
        <5> QED BY <3>1, <4>2, <5>1, <5>2
      <4> QED BY <4>3, <4>4
    <3> HIDE DEF h
    <3>5. Upto(n + 1, h)
      BY <3>2, <3>3, <3>4
    <3> QED BY <3>5
  <2> HIDE DEF E
  <2> QED BY <2>1, <2>2, Induction
<1>2. ASSUME NEW n \in Nat, NEW g, Upto(n, g), NEW k \in Nat, NEW h, Upto(k, h)
      PROVE  \A i \in Nat : i <= n /\ i <= k => g[i] = h[i]
  <2> DEFINE S == {i \in Nat : i <= n /\ i <= k => g[i] = h[i]}
  <2>1. 0 \in S
    BY <1>2
  <2>2. ASSUME NEW i \in Nat, i \in S PROVE i + 1 \in S
    <3> SUFFICES ASSUME i + 1 <= n, i + 1 <= k PROVE g[i + 1] = h[i + 1]
      OBVIOUS
    <3>1. g[i] = h[i]
      BY <2>2
    <3>2. i \in 0..n - 1 /\ i \in 0..k - 1
      OBVIOUS
    <3> QED BY <1>2, <3>1, <3>2
  <2> HIDE DEF S
  <2>3. \A i \in Nat : i \in S
    BY <2>1, <2>2, Induction
  <2> QED BY <2>3 DEF S
<1> DEFINE G(n) == CHOOSE g : Upto(n, g)
           f == [n \in Nat |-> G(n)[n]]
<1>3. \A n \in Nat : Upto(n, G(n))
  BY <1>1
<1>4. f \in [Nat -> D] /\ f[0] = a
  <2> HIDE DEF G
  <2>1. \A n \in Nat : G(n)[n] \in D
    BY <1>3
  <2>2. G(0)[0] = a
    BY <1>3
  <2> QED BY <2>1, <2>2
<1>5. ASSUME NEW n \in Nat PROVE f[n + 1] = step[<<n, f[n]>>]
  <2>1. n + 1 \in Nat /\ n \in 0..(n + 1) - 1 /\ n <= n /\ n <= n + 1
    OBVIOUS
  <2> HIDE DEF G, Upto
  <2>2. Upto(n, G(n)) /\ Upto(n + 1, G(n + 1))
    BY <1>3, <2>1
  <2>3. G(n + 1)[n] = G(n)[n]
    BY <1>2, <2>1, <2>2
  <2>4. G(n + 1)[n + 1] = step[<<n, G(n + 1)[n]>>]
    BY <2>1, <2>2 DEF Upto
  <2> QED BY <2>1, <2>3, <2>4
<1> HIDE DEF f
<1> QED BY <1>4, <1>5 DEF Runs

\* The writer while it goes through the entries.
EmptyWriter == [blocks |-> <<>>, raw |-> <<>>, len |-> 0, bloom |-> {}]
Writers(E) == [blocks : Seq(Seq(E)), raw : Seq(E), len : Nat, bloom : SUBSET UNION {ProbeBits(x.k) : x \in E}]

\* Changing fields of the writer leaves it a writer.
LEMMA WriterFields ==
  ASSUME NEW A, NEW R, NEW N, NEW B, NEW w \in [blocks : A, raw : R, len : N, bloom : B],
         NEW r \in R, NEW n \in N
  PROVE  /\ \A b \in B : [w EXCEPT !.raw = r, !.len = n, !.bloom = b] \in [blocks : A, raw : R, len : N, bloom : B]
         /\ \A a \in A : [w EXCEPT !.blocks = a, !.raw = r, !.len = n] \in [blocks : A, raw : R, len : N, bloom : B]
  OBVIOUS

\* Finishing a block leaves the writer a writer.
LEMMA FinishTyped ==
  ASSUME NEW E, NEW w \in Writers(E)
  PROVE  FinishBlock(w) \in Writers(E)
<1> DEFINE B == UNION {ProbeBits(y.k) : y \in E}
<1> HIDE DEF B
<1>1. w \in Writers(E)
  OBVIOUS
<1>2. Writers(E) = [blocks : Seq(Seq(E)), raw : Seq(E), len : Nat, bloom : SUBSET B]
  BY DEF Writers, B
<1>3. CASE w.raw = <<>>
  BY <1>1, <1>3 DEF FinishBlock
<1>4. CASE w.raw # <<>>
  <2>1. FinishBlock(w) = [w EXCEPT !.blocks = Append(@, w.raw), !.raw = <<>>, !.len = 0]
    BY <1>4 DEF FinishBlock
  <2>2. w.blocks \in Seq(Seq(E)) /\ w.raw \in Seq(E)
    BY <1>1 DEF Writers
  <2>3. Append(w.blocks, w.raw) \in Seq(Seq(E)) /\ <<>> \in Seq(E)
    BY <2>2
  <2>4. w \in [blocks : Seq(Seq(E)), raw : Seq(E), len : Nat, bloom : SUBSET B] /\ 0 \in Nat
    BY <1>1, <1>2
  <2>5. FinishBlock(w) \in [blocks : Seq(Seq(E)), raw : Seq(E), len : Nat, bloom : SUBSET B]
    <3> DEFINE A == Seq(Seq(E))
               R == Seq(E)
               D == SUBSET B
               a == Append(w.blocks, w.raw)
               none == <<>>
    <3>1. a \in A /\ none \in R /\ w \in [blocks : A, raw : R, len : Nat, bloom : D]
      BY <2>3, <2>4
    <3>2. FinishBlock(w) = [w EXCEPT !.blocks = a, !.raw = none, !.len = 0]
      BY <2>1
    <3> HIDE DEF A, R, D, a, none
    <3>3. FinishBlock(w) \in [blocks : A, raw : R, len : Nat, bloom : D]
      <4>1. [w EXCEPT !.blocks = a, !.raw = none, !.len = 0] \in [blocks : A, raw : R, len : Nat, bloom : D]
        BY <3>1
      <4> QED BY <3>2, <4>1, Zenon
    <3> QED BY <3>3 DEF A, R, D
  <2> QED BY <1>2, <2>5, Zenon
<1> QED BY <1>3, <1>4

\* A pushed entry is one more of the open block, which may be finished then.
LEMMA PushTyped ==
  ASSUME NEW E, \A x \in E : x.k \in Bytes, NEW w \in Writers(E), NEW x \in E, NEW blockSize
  PROVE  LET fuller == [w EXCEPT !.raw = Append(@, x), !.len = @ + EntryLen(x), !.bloom = @ \cup ProbeBits(x.k)]
         IN  /\ fuller \in Writers(E)
             /\ Push(w, x, blockSize) \in {fuller, FinishBlock(fuller)}
             /\ FinishBlock(fuller) \in Writers(E)
<1> DEFINE fuller == [w EXCEPT !.raw = Append(@, x), !.len = @ + EntryLen(x), !.bloom = @ \cup ProbeBits(x.k)]
           B == UNION {ProbeBits(y.k) : y \in E}
<1>1. w.raw \in Seq(E) /\ w.blocks \in Seq(Seq(E)) /\ w.len \in Nat /\ w.bloom \in SUBSET B
  BY DEF Writers
<1>2. EntryLen(x) \in Nat
  <2>1. Len(x.k) \in Nat
    BY BytesElements
  <2> DEFINE more == IF x.e = <<>> THEN 0 ELSE 4 + 1
  <2>2. more \in Nat
    OBVIOUS
  <2>3. EntryLen(x) = 4 + Len(x.k) + 1 + more
    BY Zenon DEF EntryLen
  <2> HIDE DEF more
  <2> QED BY <2>1, <2>2, <2>3
<1>3. ProbeBits(x.k) \subseteq B
  OBVIOUS
<1>4. Append(w.raw, x) \in Seq(E)
  BY <1>1
<1> HIDE DEF B
<1>5a. Writers(E) = [blocks : Seq(Seq(E)), raw : Seq(E), len : Nat, bloom : SUBSET B]
  BY DEF Writers, B
<1>5. fuller \in Writers(E)
  <2>2. w.len + EntryLen(x) \in Nat /\ w.bloom \cup ProbeBits(x.k) \in SUBSET B
    BY <1>1, <1>2, <1>3
  <2>3. w \in [blocks : Seq(Seq(E)), raw : Seq(E), len : Nat, bloom : SUBSET B]
    BY <1>5a
  <2>4. fuller \in [blocks : Seq(Seq(E)), raw : Seq(E), len : Nat, bloom : SUBSET B]
    BY <1>1, <1>4, <2>2, <2>3, WriterFields
  <2> QED BY <1>5a, <2>4, Zenon
<1> HIDE DEF fuller
<1>6. FinishBlock(fuller) \in Writers(E)
  BY <1>5, FinishTyped
<1>7. Push(w, x, blockSize) \in {fuller, FinishBlock(fuller)}
  BY Zenon DEF Push, fuller
<1> QED BY <1>5, <1>6, <1>7, Zenon DEF fuller

\* The blocks of a writer, the open one last.
Fill(w) == Append(w.blocks, w.raw)
Ordered(B) ==
    \A i, j \in DOMAIN B : \A p \in DOMAIN B[i], q \in DOMAIN B[j] :
        i < j \/ (i = j /\ p < q) => Less(B[i][p].k, B[j][q].k)

\* What a writer holds after the first n entries: those, in order.
Holds(w, entries, n) ==
    /\ w \in Writers(ToSet(entries))
    /\ \A i \in DOMAIN w.blocks : w.blocks[i] # <<>>
    /\ Ordered(Fill(w))
    /\ \A i \in DOMAIN Fill(w) : \A p \in DOMAIN Fill(w)[i] : \E m \in 1..n : Fill(w)[i][p] = entries[m]
    /\ \A m \in 1..n : \E i \in DOMAIN Fill(w) : \E p \in DOMAIN Fill(w)[i] : Fill(w)[i][p] = entries[m]
    /\ \A m \in 1..n : ProbeBits(entries[m].k) \subseteq w.bloom

\* An appended element comes last.
LEMMA AppendFacts ==
  ASSUME NEW S, NEW s \in Seq(S), NEW x \in S
  PROVE  /\ Append(s, x) \in Seq(S) /\ Len(s) \in Nat /\ Len(Append(s, x)) = Len(s) + 1
         /\ DOMAIN s = 1..Len(s) /\ DOMAIN Append(s, x) = 1..Len(s) + 1
         /\ \A i \in 1..Len(s) : Append(s, x)[i] = s[i]
         /\ Append(s, x)[Len(s) + 1] = x
  OBVIOUS

\* The blocks of a writer, one by one.
LEMMA FillFacts ==
  ASSUME NEW E, NEW w, w.blocks \in Seq(Seq(E)), w.raw \in Seq(E)
  PROVE  /\ Len(w.blocks) \in Nat /\ Len(w.raw) \in Nat /\ Fill(w) \in Seq(Seq(E))
         /\ DOMAIN w.blocks = 1..Len(w.blocks) /\ DOMAIN w.raw = 1..Len(w.raw)
         /\ DOMAIN Fill(w) = 1..Len(w.blocks) + 1
         /\ \A i \in 1..Len(w.blocks) : Fill(w)[i] = w.blocks[i]
         /\ Fill(w)[Len(w.blocks) + 1] = w.raw
<1> DEFINE S == Seq(E)
<1>1. w.blocks \in Seq(S) /\ w.raw \in S
  OBVIOUS
<1>2. Len(w.raw) \in Nat /\ DOMAIN w.raw = 1..Len(w.raw)
  OBVIOUS
<1> HIDE DEF S
<1>3. /\ Append(w.blocks, w.raw) \in Seq(S) /\ Len(w.blocks) \in Nat
      /\ DOMAIN w.blocks = 1..Len(w.blocks) /\ DOMAIN Append(w.blocks, w.raw) = 1..Len(w.blocks) + 1
      /\ \A i \in 1..Len(w.blocks) : Append(w.blocks, w.raw)[i] = w.blocks[i]
      /\ Append(w.blocks, w.raw)[Len(w.blocks) + 1] = w.raw
  BY <1>1, AppendFacts
<1> QED BY <1>2, <1>3 DEF Fill, S

\* Finishing a block leaves the entries where they are.
LEMMA FinishHolds ==
  ASSUME NEW entries, NEW n, NEW w, Holds(w, entries, n), FinishBlock(w) \in Writers(ToSet(entries))
  PROVE  Holds(FinishBlock(w), entries, n) /\ FinishBlock(w).raw = <<>>
<1> DEFINE E == ToSet(entries)
           f == FinishBlock(w)
<1>1. w.blocks \in Seq(Seq(E)) /\ w.raw \in Seq(E)
  BY DEF Holds, Writers
<1>2. CASE w.raw = <<>>
  BY <1>2 DEF FinishBlock
<1>3. CASE w.raw # <<>>
  <2>1. f.blocks = Fill(w) /\ f.raw = <<>> /\ f.bloom = w.bloom
    <3>1. w = [blocks |-> w.blocks, raw |-> w.raw, len |-> w.len, bloom |-> w.bloom]
      BY DEF Holds, Writers
    <3>2. f = [w EXCEPT !.blocks = Append(@, w.raw), !.raw = <<>>, !.len = 0]
      BY <1>3 DEF FinishBlock
    <3> HIDE DEF f
    <3> QED BY <3>1, <3>2 DEF Fill
  <2> HIDE DEF f, E
  <2> DEFINE L == Len(w.blocks)
  <2>2. /\ L \in Nat /\ Fill(w) \in Seq(Seq(E)) /\ DOMAIN w.blocks = 1..L
        /\ DOMAIN Fill(w) = 1..L + 1 /\ Fill(w)[L + 1] = w.raw
        /\ \A i \in 1..L : Fill(w)[i] = w.blocks[i]
    BY <1>1, FillFacts
  <2>3. <<>> \in Seq(E) /\ Len(Fill(w)) = L + 1
    BY <2>2
  <2>4. /\ DOMAIN Fill(f) = 1..L + 2 /\ \A i \in 1..L + 1 : Fill(f)[i] = Fill(w)[i]
        /\ Fill(f)[L + 2] = <<>>
    <3>1. /\ DOMAIN Fill(f) = 1..Len(f.blocks) + 1 /\ \A i \in 1..Len(f.blocks) : Fill(f)[i] = f.blocks[i]
          /\ Fill(f)[Len(f.blocks) + 1] = f.raw
      <4>1. f.blocks \in Seq(Seq(E)) /\ f.raw \in Seq(E)
        BY <2>1, <2>2, <2>3
      <4> QED BY <4>1, FillFacts
    <3> HIDE DEF L
    <3> QED BY <2>1, <2>2, <2>3, <3>1
  <2> HIDE DEF L
  <2>5. DOMAIN (<<>>) = {}
    OBVIOUS
  <2>6. ASSUME NEW i \in DOMAIN Fill(f), NEW p \in DOMAIN Fill(f)[i]
        PROVE  i \in DOMAIN Fill(w) /\ Fill(f)[i] = Fill(w)[i] /\ p \in DOMAIN Fill(w)[i]
    <3>1. i # L + 2
      BY <2>4, <2>5
    <3>2. i \in 1..L + 1
      BY <2>2, <2>4, <3>1
    <3> QED BY <2>2, <2>4, <3>2
  <2>7. \A i \in DOMAIN f.blocks : f.blocks[i] # <<>>
    <3> SUFFICES ASSUME NEW i \in DOMAIN Fill(w) PROVE Fill(w)[i] # <<>>
      BY <2>1
    <3>1. CASE i = L + 1
      BY <1>3, <2>2, <3>1
    <3>2. CASE i # L + 1
      <4>1. i \in 1..L
        BY <2>2, <3>2
      <4> QED BY <2>2, <4>1 DEF Holds
    <3> QED BY <3>1, <3>2
  <2>8. Ordered(Fill(f))
    <3>1. Ordered(Fill(w))
      BY DEF Holds
    <3> QED BY <2>6, <3>1, Zenon DEF Ordered
  <2>9. \A i \in DOMAIN Fill(f) : \A p \in DOMAIN Fill(f)[i] : \E m \in 1..n : Fill(f)[i][p] = entries[m]
    <3>1. \A i \in DOMAIN Fill(w) : \A p \in DOMAIN Fill(w)[i] : \E m \in 1..n : Fill(w)[i][p] = entries[m]
      BY DEF Holds
    <3> SUFFICES ASSUME NEW i \in DOMAIN Fill(f), NEW p \in DOMAIN Fill(f)[i]
                 PROVE  \E m \in 1..n : Fill(f)[i][p] = entries[m]
      OBVIOUS
    <3>2. i \in DOMAIN Fill(w) /\ Fill(f)[i] = Fill(w)[i] /\ p \in DOMAIN Fill(w)[i]
      BY <2>6
    <3> QED BY <3>1, <3>2, Zenon
  <2>10. \A m \in 1..n : \E i \in DOMAIN Fill(f) : \E p \in DOMAIN Fill(f)[i] : Fill(f)[i][p] = entries[m]
    <3> SUFFICES ASSUME NEW m \in 1..n
                 PROVE  \E i \in DOMAIN Fill(f) : \E p \in DOMAIN Fill(f)[i] : Fill(f)[i][p] = entries[m]
      OBVIOUS
    <3>1. PICK i \in DOMAIN Fill(w) : \E p \in DOMAIN Fill(w)[i] : Fill(w)[i][p] = entries[m]
      BY DEF Holds
    <3>2. i \in DOMAIN Fill(f) /\ Fill(f)[i] = Fill(w)[i]
      BY <2>2, <2>4
    <3> QED BY <3>1, <3>2, Zenon
  <2>11. \A m \in 1..n : ProbeBits(entries[m].k) \subseteq f.bloom
    BY <2>1 DEF Holds
  <2>12. f \in Writers(ToSet(entries))
    BY DEF f
  <2>13. Holds(f, entries, n)
    BY <2>7, <2>8, <2>9, <2>10, <2>11, <2>12, Zenon DEF Holds
  <2> QED BY <2>1, <2>13 DEF f
<1> QED BY <1>2, <1>3

\* Pushing the next entry keeps the order, since it is greater than all before.
LEMMA PushHolds ==
  ASSUME NEW X, NEW entries \in Seq(X), NEW n \in Nat, n < Len(entries), NEW w, Holds(w, entries, n),
         \A i \in DOMAIN entries : entries[i].k \in Bytes,
         \A i, j \in DOMAIN entries : i < j => Less(entries[i].k, entries[j].k), NEW blockSize
  PROVE  Holds(Push(w, entries[n + 1], blockSize), entries, n + 1)
<1> DEFINE E == ToSet(entries)
           x == entries[n + 1]
           g == [w EXCEPT !.raw = Append(@, x), !.len = @ + EntryLen(x), !.bloom = @ \cup ProbeBits(x.k)]
<1>1. DOMAIN entries = 1..Len(entries) /\ Len(entries) \in Nat /\ n + 1 \in DOMAIN entries
  OBVIOUS
<1>2. x \in E /\ \A y \in E : y.k \in Bytes
  BY <1>1, Zenon DEF ToSet
<1>3. w \in Writers(E) /\ w.blocks \in Seq(Seq(E)) /\ w.raw \in Seq(E)
  BY DEF Holds, Writers
<1>4. g \in Writers(E) /\ Push(w, x, blockSize) \in {g, FinishBlock(g)} /\ FinishBlock(g) \in Writers(E)
  <2> HIDE DEF x, E
  <2> QED BY <1>2, <1>3, PushTyped, Zenon
<1>5. g.blocks = w.blocks /\ g.raw = Append(w.raw, x) /\ g.bloom = w.bloom \cup ProbeBits(x.k)
  <2>1. w = [blocks |-> w.blocks, raw |-> w.raw, len |-> w.len, bloom |-> w.bloom]
    BY DEF Holds, Writers
  <2> HIDE DEF x
  <2> QED BY <2>1
<1> DEFINE L == Len(w.blocks)
           R == Len(w.raw)
<1> HIDE DEF g, E
<1>6. /\ L \in Nat /\ R \in Nat /\ DOMAIN Fill(w) = 1..L + 1 /\ Fill(w)[L + 1] = w.raw
      /\ DOMAIN w.raw = 1..R /\ \A i \in 1..L : Fill(w)[i] = w.blocks[i]
  BY <1>3, FillFacts
<1>7. /\ Append(w.raw, x) \in Seq(E) /\ DOMAIN Append(w.raw, x) = 1..R + 1
      /\ \A p \in 1..R : Append(w.raw, x)[p] = w.raw[p]
      /\ Append(w.raw, x)[R + 1] = x
  <2> HIDE DEF x
  <2> QED BY <1>2, <1>3, AppendFacts
<1>8. /\ DOMAIN Fill(g) = 1..L + 1 /\ Fill(g)[L + 1] = Append(w.raw, x)
      /\ \A i \in 1..L : Fill(g)[i] = Fill(w)[i]
  <2> HIDE DEF x
  <2>1. g.blocks \in Seq(Seq(E)) /\ g.raw \in Seq(E)
    BY <1>3, <1>5, <1>7
  <2>2. /\ DOMAIN Fill(g) = 1..Len(g.blocks) + 1 /\ Fill(g)[Len(g.blocks) + 1] = g.raw
        /\ \A i \in 1..Len(g.blocks) : Fill(g)[i] = g.blocks[i]
    BY <2>1, FillFacts
  <2> QED BY <1>5, <1>6, <2>2
<1> HIDE DEF L, R, x
\* A place of the fuller writer is the new one or one the writer had.
<1>9. ASSUME NEW i \in DOMAIN Fill(g), NEW p \in DOMAIN Fill(g)[i], ~(i = L + 1 /\ p = R + 1)
      PROVE  i \in DOMAIN Fill(w) /\ p \in DOMAIN Fill(w)[i] /\ Fill(g)[i][p] = Fill(w)[i][p]
  <2>1. i \in DOMAIN Fill(w)
    BY <1>6, <1>8
  <2>2. CASE i = L + 1
    <3>1. p \in 1..R + 1 /\ p # R + 1
      BY <1>7, <1>8, <1>9, <2>2
    <3>2. p \in 1..R
      BY <1>6, <3>1
    <3> QED BY <1>6, <1>7, <1>8, <2>1, <2>2, <3>2
  <2>3. CASE i # L + 1
    <3>1. i \in 1..L
      BY <1>6, <1>8, <2>3
    <3> QED BY <1>8, <2>1, <3>1
  <2> QED BY <2>2, <2>3
<1>10. ASSUME NEW i \in DOMAIN Fill(w), NEW p \in DOMAIN Fill(w)[i]
       PROVE  i \in DOMAIN Fill(g) /\ p \in DOMAIN Fill(g)[i] /\ Fill(g)[i][p] = Fill(w)[i][p]
  <2>1. i \in DOMAIN Fill(g)
    BY <1>6, <1>8
  <2>2. CASE i = L + 1
    <3>1. p \in 1..R /\ p \in 1..R + 1
      BY <1>6, <2>2
    <3> QED BY <1>6, <1>7, <1>8, <2>1, <2>2, <3>1
  <2>3. CASE i # L + 1
    <3>1. i \in 1..L
      BY <1>6, <2>3
    <3> QED BY <1>8, <2>1, <3>1
  <2> QED BY <2>2, <2>3
<1>11. L + 1 \in DOMAIN Fill(g) /\ R + 1 \in DOMAIN Fill(g)[L + 1] /\ Fill(g)[L + 1][R + 1] = x
  BY <1>6, <1>7, <1>8
<1>12. \A i \in DOMAIN Fill(w) : \A p \in DOMAIN Fill(w)[i] : \E m \in 1..n : Fill(w)[i][p] = entries[m]
  BY DEF Holds
<1>13. \A i \in DOMAIN Fill(w) : \A p \in DOMAIN Fill(w)[i] : Less(Fill(w)[i][p].k, x.k)
  <2> SUFFICES ASSUME NEW i \in DOMAIN Fill(w), NEW p \in DOMAIN Fill(w)[i] PROVE Less(Fill(w)[i][p].k, x.k)
    OBVIOUS
  <2>1. PICK m \in 1..n : Fill(w)[i][p] = entries[m]
    BY <1>12
  <2>2. m \in DOMAIN entries /\ m < n + 1
    BY <1>1
  <2>3. Less(entries[m].k, entries[n + 1].k)
    BY <1>1, <2>2
  <2> QED BY <2>1, <2>3 DEF x
<1>14. Ordered(Fill(g))
  <2> SUFFICES ASSUME NEW i \in DOMAIN Fill(g), NEW j \in DOMAIN Fill(g),
                      NEW p \in DOMAIN Fill(g)[i], NEW q \in DOMAIN Fill(g)[j], i < j \/ (i = j /\ p < q)
               PROVE  Less(Fill(g)[i][p].k, Fill(g)[j][q].k)
    BY DEF Ordered
  <2>1. ~(i = L + 1 /\ p = R + 1)
    <3> SUFFICES ASSUME i = L + 1, p = R + 1 PROVE FALSE
      OBVIOUS
    <3>1. j \in 1..L + 1 /\ ~(i < j)
      BY <1>6, <1>8
    <3>2. q \in 1..R + 1 /\ p < q
      BY <1>7, <1>8, <3>1
    <3> QED BY <1>6, <3>2
  <2>2. i \in DOMAIN Fill(w) /\ p \in DOMAIN Fill(w)[i] /\ Fill(g)[i][p] = Fill(w)[i][p]
    BY <1>9, <2>1
  <2>3. CASE j = L + 1 /\ q = R + 1
    BY <1>11, <1>13, <2>2, <2>3
  <2>4. CASE ~(j = L + 1 /\ q = R + 1)
    <3>1. j \in DOMAIN Fill(w) /\ q \in DOMAIN Fill(w)[j] /\ Fill(g)[j][q] = Fill(w)[j][q]
      BY <1>9, <2>4
    <3>2. Ordered(Fill(w))
      BY DEF Holds
    <3>3. Less(Fill(w)[i][p].k, Fill(w)[j][q].k)
      BY <2>2, <3>1, <3>2, Zenon DEF Ordered
    <3> QED BY <2>2, <3>1, <3>3
  <2> QED BY <2>3, <2>4
<1>15. \A i \in DOMAIN Fill(g) : \A p \in DOMAIN Fill(g)[i] : \E m \in 1..n + 1 : Fill(g)[i][p] = entries[m]
  <2> SUFFICES ASSUME NEW i \in DOMAIN Fill(g), NEW p \in DOMAIN Fill(g)[i]
               PROVE  \E m \in 1..n + 1 : Fill(g)[i][p] = entries[m]
    OBVIOUS
  <2>1. CASE i = L + 1 /\ p = R + 1
    <3>1. n + 1 \in 1..n + 1
      OBVIOUS
    <3> QED BY <1>11, <2>1, <3>1 DEF x
  <2>2. CASE ~(i = L + 1 /\ p = R + 1)
    <3>1. i \in DOMAIN Fill(w) /\ p \in DOMAIN Fill(w)[i] /\ Fill(g)[i][p] = Fill(w)[i][p]
      BY <1>9, <2>2
    <3>2. PICK m \in 1..n : Fill(w)[i][p] = entries[m]
      BY <1>12, <3>1
    <3>3. m \in 1..n + 1
      OBVIOUS
    <3> QED BY <3>1, <3>2, <3>3
  <2> QED BY <2>1, <2>2
<1>16. \A m \in 1..n + 1 : \E i \in DOMAIN Fill(g) : \E p \in DOMAIN Fill(g)[i] : Fill(g)[i][p] = entries[m]
  <2> SUFFICES ASSUME NEW m \in 1..n + 1
               PROVE  \E i \in DOMAIN Fill(g) : \E p \in DOMAIN Fill(g)[i] : Fill(g)[i][p] = entries[m]
    OBVIOUS
  <2>1. CASE m = n + 1
    BY <1>11, <2>1, Zenon DEF x
  <2>2. CASE m # n + 1
    <3>1. m \in 1..n
      BY <2>2
    <3>2. PICK i \in DOMAIN Fill(w) : \E p \in DOMAIN Fill(w)[i] : Fill(w)[i][p] = entries[m]
      BY <3>1 DEF Holds
    <3>3. PICK p \in DOMAIN Fill(w)[i] : Fill(w)[i][p] = entries[m]
      BY <3>2
    <3>4. i \in DOMAIN Fill(g) /\ p \in DOMAIN Fill(g)[i] /\ Fill(g)[i][p] = Fill(w)[i][p]
      BY <1>10, <3>3
    <3> QED BY <3>3, <3>4, Zenon
  <2> QED BY <2>1, <2>2
<1>17. \A m \in 1..n + 1 : ProbeBits(entries[m].k) \subseteq g.bloom
  <2> SUFFICES ASSUME NEW m \in 1..n + 1 PROVE ProbeBits(entries[m].k) \subseteq g.bloom
    OBVIOUS
  <2>1. CASE m = n + 1
    BY <1>5, <2>1 DEF x
  <2>2. CASE m # n + 1
    <3>1. m \in 1..n
      BY <2>2
    <3>2. ProbeBits(entries[m].k) \subseteq w.bloom
      BY <3>1 DEF Holds
    <3> QED BY <1>5, <3>2
  <2> QED BY <2>1, <2>2
<1>18. \A i \in DOMAIN g.blocks : g.blocks[i] # <<>>
  BY <1>5 DEF Holds
<1>19. Holds(g, entries, n + 1)
  BY <1>4, <1>14, <1>15, <1>16, <1>17, <1>18, Zenon DEF Holds, E
<1>20. Holds(FinishBlock(g), entries, n + 1)
  BY <1>4, <1>19, FinishHolds DEF E
<1> QED BY <1>4, <1>19, <1>20 DEF x

\* The writer after all entries: the recursion has a solution, and at each of
\* its steps the writer holds what was pushed.
LEMMA PushedHolds ==
  ASSUME NEW X, NEW entries \in Seq(X), NEW blockSize,
         \A i \in DOMAIN entries : entries[i].k \in Bytes,
         \A i, j \in DOMAIN entries : i < j => Less(entries[i].k, entries[j].k)
  PROVE  Holds(Pushed(entries, blockSize), entries, Len(entries))
<1> DEFINE N == Len(entries)
           E == ToSet(entries)
           D == Writers(E)
           Solves(f) == f = [n \in 0..N |-> IF n = 0 THEN EmptyWriter ELSE Push(f[n - 1], entries[n], blockSize)]
<1>1. DOMAIN entries = 1..N /\ N \in Nat
  OBVIOUS
<1>2. \A i \in 1..N : entries[i] \in E
  BY <1>1, Zenon DEF ToSet
<1>3. \A y \in E : y.k \in Bytes
  BY Zenon DEF ToSet
<1>4. Pushed(entries, blockSize) = (CHOOSE f : Solves(f))[N]
  BY Zenon DEF Pushed, EmptyWriter
<1>5. EmptyWriter \in D
  <2> DEFINE B == UNION {ProbeBits(y.k) : y \in E}
  <2>1. D = [blocks : Seq(Seq(E)), raw : Seq(E), len : Nat, bloom : SUBSET B]
    BY DEF Writers
  <2> HIDE DEF B, D, E
  <2>2. <<>> \in Seq(Seq(E)) /\ <<>> \in Seq(E) /\ 0 \in Nat /\ {} \in SUBSET B
    OBVIOUS
  <2> QED BY <2>1, <2>2 DEF EmptyWriter
<1>6. ASSUME NEW w \in D, NEW i \in 1..N PROVE Push(w, entries[i], blockSize) \in D
  <2>1. entries[i] \in E
    BY <1>2
  <2> DEFINE x == entries[i]
             g == [w EXCEPT !.raw = Append(@, x), !.len = @ + EntryLen(x), !.bloom = @ \cup ProbeBits(x.k)]
  <2> HIDE DEF x, E
  <2>2. g \in Writers(E) /\ Push(w, x, blockSize) \in {g, FinishBlock(g)} /\ FinishBlock(g) \in Writers(E)
    BY <1>3, <2>1, PushTyped, Zenon DEF x
  <2> HIDE DEF g
  <2> QED BY <2>2 DEF x
<1>7. \E f : Solves(f)
  <2> HIDE DEF D, E
  <2> DEFINE step == [a \in Nat \X D |-> IF a[1] + 1 \in 1..N THEN Push(a[2], entries[a[1] + 1], blockSize) ELSE a[2]]
  <2>1. step \in [Nat \X D -> D]
    <3> SUFFICES ASSUME NEW a \in Nat \X D
                 PROVE  (IF a[1] + 1 \in 1..N THEN Push(a[2], entries[a[1] + 1], blockSize) ELSE a[2]) \in D
      OBVIOUS
    <3>1. a[2] \in D
      OBVIOUS
    <3> HIDE DEF N
    <3> QED BY <1>6, <3>1
  <2>2. ASSUME NEW w \in D, NEW n \in Nat, n + 1 \in 1..N
        PROVE  step[<<n, w>>] = Push(w, entries[n + 1], blockSize)
    <3>1. <<n, w>> \in Nat \X D /\ <<n, w>>[1] = n /\ <<n, w>>[2] = w
      OBVIOUS
    <3> HIDE DEF N
    <3> QED BY <2>2, <3>1
  <2> HIDE DEF step
  <2>3. PICK g \in [Nat -> D] : g[0] = EmptyWriter /\ \A n \in Nat : g[n + 1] = step[<<n, g[n]>>]
    <3>1. PICK g : Runs(g, D, EmptyWriter, step)
      BY <1>5, <2>1, RecursionExists, Zenon
    <3> QED BY <3>1 DEF Runs
  <2> DEFINE f == [n \in 0..N |-> g[n]]
  <2> HIDE DEF N
  <2>4. ASSUME NEW n \in 0..N
        PROVE  f[n] = IF n = 0 THEN EmptyWriter ELSE Push(f[n - 1], entries[n], blockSize)
    <3>1. CASE n = 0
      BY <2>3, <3>1
    <3>2. CASE n # 0
      <4>1. n - 1 \in Nat /\ n - 1 \in 0..N /\ n \in 1..N /\ (n - 1) + 1 = n
        BY <1>1, <3>2
      <4>2. f[n - 1] = g[n - 1] /\ g[n - 1] \in D /\ f[n] = g[n]
        BY <2>3, <4>1
      <4> HIDE DEF f
      <4>3. g[n] = step[<<n - 1, g[n - 1]>>]
        BY <2>3, <4>1
      <4>4. step[<<n - 1, g[n - 1]>>] = Push(g[n - 1], entries[n], blockSize)
        BY <2>2, <4>1, <4>2
      <4> QED BY <3>2, <4>2, <4>3, <4>4
    <3> QED BY <3>1, <3>2
  <2>5. Solves(f)
    <3>1. f = [n \in 0..N |-> f[n]]
      OBVIOUS
    <3> HIDE DEF f
    <3> QED BY <2>4, <3>1
  <2> QED BY <2>5
<1>8. PICK f : f = (CHOOSE h : Solves(h)) /\ Solves(f)
  <2> HIDE DEF Solves
  <2> QED BY <1>7, Zenon
<1> DEFINE S == {n \in Nat : n <= N => Holds(f[n], entries, n)}
<1>9. 0 \in S
  <2>1. f[0] = EmptyWriter
    BY <1>1, <1>8
  <2>2. EmptyWriter.blocks = <<>> /\ EmptyWriter.raw = <<>>
    BY DEF EmptyWriter
  <2>3. DOMAIN Fill(EmptyWriter) = {1} /\ Fill(EmptyWriter)[1] = <<>> /\ DOMAIN (<<>>) = {}
    BY <2>2 DEF Fill
  <2>4. Ordered(Fill(EmptyWriter))
    BY <2>3 DEF Ordered
  <2>5. \A i \in DOMAIN Fill(EmptyWriter) : DOMAIN Fill(EmptyWriter)[i] = {}
    BY <2>3
  <2>6. 1..0 = {}
    OBVIOUS
  <2>7. \A i \in DOMAIN EmptyWriter.blocks : EmptyWriter.blocks[i] # <<>>
    BY <2>2
  <2>8. Holds(EmptyWriter, entries, 0)
    BY <1>5, <2>4, <2>5, <2>6, <2>7, Zenon DEF Holds
  <2> QED BY <2>1, <2>8
<1>10. ASSUME NEW n \in Nat, n \in S PROVE n + 1 \in S
  <2> SUFFICES ASSUME n + 1 <= N PROVE Holds(f[n + 1], entries, n + 1)
    OBVIOUS
  <2>1. n < N /\ n + 1 \in 0..N /\ n + 1 # 0 /\ (n + 1) - 1 = n /\ n <= N
    BY <1>1
  <2>2. f[n + 1] = Push(f[n], entries[n + 1], blockSize)
    BY <1>8, <2>1
  <2>3. Holds(f[n], entries, n)
    BY <1>10, <2>1
  <2> HIDE DEF Solves
  <2>4. Holds(Push(f[n], entries[n + 1], blockSize), entries, n + 1)
    BY <2>1, <2>3, PushHolds
  <2> QED BY <2>2, <2>4
<1> HIDE DEF S
<1>11. N \in S
  BY <1>1, <1>9, <1>10, Induction
<1> QED BY <1>1, <1>4, <1>8, <1>11 DEF S

\* A table written from ascending entries, as a flush, a compaction and a backup
\* write it, holds exactly those entries, is cut into blocks and summarised as
\* reads rely on, and stays so whichever of its blocks are damaged later: for
\* every number and size of entries and every block size (SstableHandle::write).
THEOREM WrittenTables ==
  ASSUME NEW X, NEW entries \in Seq(X), NEW blockSize,
         \A i \in DOMAIN entries : entries[i] = [k |-> entries[i].k, e |-> entries[i].e] /\ entries[i].k \in Bytes,
         \A i, j \in DOMAIN entries : i < j => Less(entries[i].k, entries[j].k)
  PROVE  LET sst == Write(entries, blockSize) IN
         /\ EntriesIn(sst) = ToSet(entries) /\ sst.bad = {}
         /\ \A d \in SUBSET DOMAIN sst.blocks : IsTable([sst EXCEPT !.bad = d])
         /\ IsTable(sst)
<1> DEFINE w == FinishBlock(Pushed(entries, blockSize))
           least == IF entries = <<>> THEN <<>> ELSE Head(entries).k
           most == IF entries = <<>> THEN <<>> ELSE Last(entries).k
           N == Len(entries)
           E == ToSet(entries)
<1>1. DOMAIN entries = 1..N /\ N \in Nat
  OBVIOUS
<1>2. Write(entries, blockSize) =
        [blocks |-> w.blocks, bloom |-> w.bloom, count |-> N, bad |-> {}, min |-> least, max |-> most]
  BY Zenon DEF Write
<1>3. Holds(w, entries, N) /\ w.raw = <<>>
  <2>1. Holds(Pushed(entries, blockSize), entries, N)
    BY PushedHolds
  <2>2. w \in Writers(E)
    BY <2>1, FinishTyped DEF Holds
  <2> QED BY <2>1, <2>2, FinishHolds
<1> HIDE DEF w
<1>4. w.blocks \in Seq(Seq(E)) /\ w.raw \in Seq(E) /\ \A i \in DOMAIN w.blocks : w.blocks[i] # <<>>
  BY <1>3 DEF Holds, Writers
<1> DEFINE L == Len(w.blocks)
<1>5. /\ L \in Nat /\ DOMAIN w.blocks = 1..L /\ DOMAIN Fill(w) = 1..L + 1 /\ Fill(w)[L + 1] = <<>>
      /\ \A i \in 1..L : Fill(w)[i] = w.blocks[i]
  <2> HIDE DEF E
  <2> QED BY <1>3, <1>4, FillFacts
<1> HIDE DEF L
<1>6. \A i \in DOMAIN w.blocks : i \in DOMAIN Fill(w) /\ Fill(w)[i] = w.blocks[i]
  BY <1>5
<1>7. ASSUME NEW i \in DOMAIN Fill(w), NEW p \in DOMAIN Fill(w)[i]
      PROVE  i \in DOMAIN w.blocks /\ Fill(w)[i] = w.blocks[i]
  <2>1. DOMAIN (<<>>) = {}
    OBVIOUS
  <2>2. i # L + 1
    BY <1>5, <2>1
  <2>3. i \in 1..L
    BY <1>5, <2>2
  <2> QED BY <1>5, <2>3
<1> DEFINE In == UNION {ToSet(w.blocks[i]) : i \in DOMAIN w.blocks}
<1>8. In = E
  <2>1. ASSUME NEW x \in In PROVE x \in E
    <3>1. PICK i \in DOMAIN w.blocks : x \in ToSet(w.blocks[i])
      OBVIOUS
    <3>2. PICK p \in DOMAIN w.blocks[i] : x = w.blocks[i][p]
      BY <3>1, Zenon DEF ToSet
    <3>3. PICK m \in 1..N : Fill(w)[i][p] = entries[m]
      BY <1>3, <1>6, <3>2 DEF Holds
    <3>4. x = entries[m] /\ m \in DOMAIN entries
      BY <1>1, <1>6, <3>2, <3>3
    <3> QED BY <3>4, Zenon DEF ToSet
  <2>2. ASSUME NEW x \in E PROVE x \in In
    <3>1. PICK m \in DOMAIN entries : x = entries[m]
      BY Zenon DEF ToSet
    <3>2. PICK i \in DOMAIN Fill(w) : \E p \in DOMAIN Fill(w)[i] : Fill(w)[i][p] = entries[m]
      BY <1>1, <1>3, <3>1 DEF Holds
    <3>3. PICK p \in DOMAIN Fill(w)[i] : Fill(w)[i][p] = entries[m]
      BY <3>2
    <3>4. i \in DOMAIN w.blocks /\ p \in DOMAIN w.blocks[i] /\ w.blocks[i][p] = x
      BY <1>7, <3>1, <3>3
    <3>5. x \in ToSet(w.blocks[i])
      BY <3>4, Zenon DEF ToSet
    <3> QED BY <3>4, <3>5
  <2> HIDE DEF In, E
  <2> QED BY <2>1, <2>2
<1>9. w.blocks \in Seq(Seq(E) \ {<<>>})
  <2> HIDE DEF E
  <2>1. \A i \in 1..L : w.blocks[i] \in Seq(E) \ {<<>>}
    BY <1>4, <1>5
  <2> DEFINE T == Seq(E) \ {<<>>}
  <2>2. w.blocks \in [1..L -> T]
    BY <1>4, <1>5, <2>1
  <2> HIDE DEF T
  <2>3. w.blocks \in Seq(T)
    BY <1>5, <2>2
  <2> QED BY <2>3 DEF T
<1>10. least \in Bytes /\ most \in Bytes /\ \A x \in E : x.k \in Bytes /\ ~Less(x.k, least) /\ ~Less(most, x.k)
  <2>1. CASE N = 0
    <3>1. entries = <<>> /\ DOMAIN entries = {}
      BY <1>1, <2>1
    <3>2. <<>> \in Bytes
      BY DEF Bytes
    <3>3. E = {}
      BY <3>1 DEF ToSet
    <3> QED BY <3>1, <3>2, <3>3
  <2>2. CASE N # 0
    <3>1. entries # <<>> /\ 1 \in DOMAIN entries /\ N \in DOMAIN entries
      BY <1>1, <2>2
    <3>2. least = entries[1].k /\ most = entries[N].k
      BY <3>1 DEF Last
    <3> HIDE DEF least, most
    <3>3. ASSUME NEW x \in E PROVE x.k \in Bytes /\ ~Less(x.k, least) /\ ~Less(most, x.k)
      <4>1. PICK m \in DOMAIN entries : x = entries[m]
        BY Zenon DEF ToSet
      <4> DEFINE k == x.k
      <4>2. k \in Bytes /\ least \in Bytes /\ most \in Bytes
        BY <3>1, <3>2, <4>1
      <4>3. (1 < m => Less(least, k)) /\ (1 = m => k = least) /\ (m < N => Less(k, most)) /\ (m = N => k = most)
        BY <3>1, <3>2, <4>1
      <4>4. (1 < m \/ 1 = m) /\ (m < N \/ m = N)
        BY <1>1
      <4>5. ~Less(k, k) /\ ~(Less(k, least) /\ Less(least, k)) /\ ~(Less(k, most) /\ Less(most, k))
        BY <4>2, LessTotal
      <4> HIDE DEF k
      <4>6. ~Less(k, least) /\ ~Less(most, k)
        BY <4>3, <4>4, <4>5, Zenon
      <4> QED BY <4>2, <4>6 DEF k
    <3> QED BY <3>1, <3>2, <3>3
  <2> QED BY <2>1, <2>2
<1>11. \A x \in E : MightContain(w.bloom, x.k)
  <2> SUFFICES ASSUME NEW x \in E PROVE ProbeBits(x.k) \subseteq w.bloom
    BY DEF MightContain
  <2>1. PICK m \in DOMAIN entries : x = entries[m]
    BY Zenon DEF ToSet
  <2> QED BY <1>1, <1>3, <2>1 DEF Holds
<1>12. \A i, j \in DOMAIN w.blocks : \A p \in DOMAIN w.blocks[i], q \in DOMAIN w.blocks[j] :
           i < j \/ (i = j /\ p < q) => Less(w.blocks[i][p].k, w.blocks[j][q].k)
  <2>1. Ordered(Fill(w))
    BY <1>3 DEF Holds
  <2> SUFFICES ASSUME NEW i \in DOMAIN w.blocks, NEW j \in DOMAIN w.blocks,
                      NEW p \in DOMAIN w.blocks[i], NEW q \in DOMAIN w.blocks[j], i < j \/ (i = j /\ p < q)
               PROVE  Less(w.blocks[i][p].k, w.blocks[j][q].k)
    BY Zenon
  <2>2. /\ i \in DOMAIN Fill(w) /\ Fill(w)[i] = w.blocks[i]
        /\ j \in DOMAIN Fill(w) /\ Fill(w)[j] = w.blocks[j]
    BY <1>6
  <2>3. Less(Fill(w)[i][p].k, Fill(w)[j][q].k)
    BY <2>1, <2>2 DEF Ordered
  <2> QED BY <2>2, <2>3
<1> DEFINE t == [a \in 1..N |-> entries[a].k]
           K == {x.k : x \in E}
<1>13. K = {t[a] : a \in 1..N} /\ \A x \in E : x = [k |-> x.k, e |-> x.e]
  <2>1. E = {entries[a] : a \in 1..N}
    BY <1>1 DEF ToSet
  <2> HIDE DEF E
  <2> QED BY <1>1, <2>1
<1>14. Cardinality(K) = N
  <2>1. t \in [1..N -> Bytes]
    BY <1>1
  <2>2. \A a \in 1..N : t[a] = entries[a].k
    OBVIOUS
  <2> HIDE DEF t
  <2>3. t \in Seq(Bytes) /\ Len(t) = N /\ DOMAIN t = 1..N
    BY <1>1, <2>1
  <2>4. Climbs(t)
    BY <1>1, <2>2, <2>3 DEF Climbs
  <2>5. N \in Nat /\ N <= Len(t)
    BY <1>1, <2>3
  <2> HIDE DEF N, K
  <2>6. Cardinality({t[a] : a \in 1..N}) = N
    BY <2>3, <2>4, <2>5, ClimbsCardinality, Zenon
  <2> QED BY <1>13, <2>6
<1> HIDE DEF E, In, least, most, t, K
<1>15. ASSUME NEW sst, sst.blocks = w.blocks, sst.bloom = w.bloom, sst.min = least, sst.max = most, sst.count = N,
              sst.bad \subseteq DOMAIN w.blocks
       PROVE  EntriesIn(sst) = E /\ IsTable(sst)
  <2>1. EntriesIn(sst) = E
    BY <1>8, <1>15 DEF EntriesIn, In
  <2>2. DOMAIN LayerOf(sst) = K
    BY <2>1 DEF LayerOf, K
  <2>3. sst.count = Cardinality(DOMAIN LayerOf(sst)) /\ sst.bad \subseteq DOMAIN sst.blocks
    BY <1>14, <1>15, <2>2
  <2>4. \A x \in E : /\ x = [k |-> x.k, e |-> x.e] /\ x.k \in Bytes
                     /\ ~Less(x.k, least) /\ ~Less(most, x.k) /\ MightContain(w.bloom, x.k)
    BY <1>10, <1>11, <1>13
  <2> HIDE DEF N
  <2> QED BY <1>9, <1>10, <1>12, <1>15, <2>1, <2>3, <2>4, Zenon DEF IsTable
<1> DEFINE sst == Write(entries, blockSize)
<1> HIDE DEF sst, N
<1>16. sst = [blocks |-> w.blocks, bloom |-> w.bloom, count |-> N, bad |-> {}, min |-> least, max |-> most]
  BY <1>2 DEF sst
<1>17. EntriesIn(sst) = E /\ IsTable(sst) /\ sst.bad = {} /\ sst.blocks = w.blocks
  BY <1>15, <1>16
<1>18. ASSUME NEW d \in SUBSET DOMAIN sst.blocks PROVE IsTable([sst EXCEPT !.bad = d])
  <2> DEFINE b == [sst EXCEPT !.bad = d]
  <2>1. b.blocks = w.blocks /\ b.bloom = w.bloom /\ b.min = least /\ b.max = most /\ b.count = N /\ b.bad = d
    BY <1>16
  <2> HIDE DEF b
  <2>2. IsTable(b)
    BY <1>15, <1>17, <2>1
  <2> QED BY <2>2 DEF b
<1> QED BY <1>17, <1>18 DEF sst, E

-----------------------------------------------------------------------------
(* What an iterator yields of a layer *)

\* The keys in order begin with whatever climbing sequence of them leaves only
\* greater ones out.
LEMMA KeysInOrderBegin ==
  ASSUME NEW K \in SUBSET Bytes, IsFiniteSet(K), NEW t \in Seq(K), Climbs(t),
         \A k \in K : (\E i \in DOMAIN t : t[i] = k) \/ (\A i \in DOMAIN t : Less(t[i], k))
  PROVE  /\ Len(t) <= Cardinality(K) /\ Cardinality(K) \in Nat
         /\ \A i \in 1..Len(t) : KeysInOrder(K)[i] = t[i]
         /\ (\A k \in K : \E i \in DOMAIN t : t[i] = k) => KeysInOrder(K) = t
<1> DEFINE N == Len(t)
           R(n) == {t[j] : j \in 1..n}
           Lower(k) == {x \in K : Less(x, k)}
<1>1. DOMAIN t = 1..N /\ N \in Nat /\ \A i \in 1..N : t[i] \in K /\ t[i] \in Bytes
  OBVIOUS
<1>2. t \in Seq(Bytes)
  <2>1. t \in [1..N -> Bytes]
    BY <1>1
  <2> HIDE DEF N
  <2> QED BY <1>1, <2>1
<1>3. \A n \in Nat : n <= N => IsFiniteSet(R(n)) /\ Cardinality(R(n)) = n
  BY <1>2, ClimbsCardinality
<1>4. Cardinality(K) \in Nat
  BY FS_CardinalityType
<1>5. N <= Cardinality(K)
  <2>1. R(N) \in SUBSET K
    BY <1>1
  <2>2. Cardinality(R(N)) <= Cardinality(K)
    BY <2>1, FS_Subset
  <2>3. Cardinality(R(N)) = N
    <3> HIDE DEF R, N
    <3> QED BY <1>1, <1>3
  <2> QED BY <2>2, <2>3
<1>6. ASSUME NEW i \in 1..N PROVE Lower(t[i]) = R(i - 1)
  <2>1. ASSUME NEW x \in R(i - 1) PROVE x \in Lower(t[i])
    <3>1. PICK j \in 1..i - 1 : x = t[j]
      OBVIOUS
    <3>2. j \in DOMAIN t /\ i \in DOMAIN t /\ j < i
      BY <1>1
    <3> QED BY <1>1, <3>1, <3>2 DEF Climbs
  <2>2. ASSUME NEW x \in Lower(t[i]) PROVE x \in R(i - 1)
    <3>1. x \in K /\ x \in Bytes /\ Less(x, t[i]) /\ t[i] \in Bytes /\ i \in DOMAIN t
      BY <1>1
    <3>2. ~Less(t[i], x)
      BY <3>1, LessTotal
    <3>3. PICK j \in DOMAIN t : t[j] = x
      BY <3>1, <3>2
    <3>4. ~(i < j) /\ i # j
      BY <3>1, <3>2, <3>3, LessTotal DEF Climbs
    <3>5. j \in 1..i - 1
      BY <1>1, <3>4
    <3> QED BY <3>3, <3>5
  <2> HIDE DEF R, Lower
  <2> QED BY <2>1, <2>2
<1>7. ASSUME NEW i \in 1..N PROVE IsFiniteSet(Lower(t[i])) /\ Cardinality(Lower(t[i])) = i - 1
  <2>1. i - 1 \in Nat /\ i - 1 <= N
    BY <1>1
  <2> HIDE DEF R, Lower, N
  <2> QED BY <1>3, <1>6, <2>1
<1>8. ASSUME NEW i \in 1..N, NEW k \in K, Cardinality(Lower(k)) = i - 1 PROVE k = t[i]
  <2>1. k \in Bytes /\ t[i] \in Bytes /\ t[i] \in K
    BY <1>1
  <2>2. ASSUME Less(k, t[i]) PROVE FALSE
    <3>1. k \in Lower(t[i])
      BY <2>2
    <3>2. k \in R(i - 1)
      BY <1>6, <3>1
    <3>3. PICK j \in 1..i - 1 : k = t[j]
      BY <3>2
    <3>4. j \in 1..N
      BY <1>1
    <3>5. Cardinality(Lower(k)) = j - 1
      BY <1>7, <3>3, <3>4
    <3> QED BY <1>8, <3>3, <3>5
  <2>3. ASSUME Less(t[i], k) PROVE FALSE
    <3>1. R(i) \in SUBSET Lower(k)
      <4> SUFFICES ASSUME NEW j \in 1..i PROVE t[j] \in K /\ Less(t[j], k)
        OBVIOUS
      <4>1. j \in 1..N /\ i \in 1..N /\ (j = i \/ j < i)
        BY <1>1
      <4>2. t[j] \in Bytes /\ t[j] \in K
        BY <1>1, <4>1
      <4>3. CASE j = i
        BY <2>3, <4>2, <4>3
      <4>4. CASE j < i
        <5>1. Less(t[j], t[i])
          BY <1>1, <4>1, <4>4 DEF Climbs
        <5> QED BY <2>1, <2>3, <4>2, <5>1, LessTransitive
      <4> QED BY <4>1, <4>3, <4>4
    <3>2. Lower(k) \in SUBSET K
      OBVIOUS
    <3>3. IsFiniteSet(Lower(k))
      BY <3>2, FS_Subset
    <3>4. i \in Nat /\ i <= N
      BY <1>1
    <3> HIDE DEF R, Lower
    <3>5. Cardinality(R(i)) = i
      BY <1>3, <3>4
    <3>6. Cardinality(R(i)) <= Cardinality(Lower(k))
      BY <3>1, <3>3, FS_Subset
    <3> QED BY <1>8, <3>4, <3>5, <3>6
  <2> QED BY <2>1, <2>2, <2>3, LessTotal
<1>9. ASSUME NEW i \in 1..N PROVE KeysInOrder(K)[i] = t[i]
  <2>1. i \in 1..Cardinality(K)
    BY <1>1, <1>4, <1>5
  <2> DEFINE P(k) == Cardinality(Lower(k)) = i - 1
  <2>2. P(t[i]) /\ t[i] \in K
    BY <1>1, <1>7
  <2>3. \A k \in K : P(k) => k = t[i]
    BY <1>8
  <2>4. KeysInOrder(K)[i] = CHOOSE k \in K : P(k)
    BY <2>1 DEF KeysInOrder
  <2> HIDE DEF P
  <2>5. (CHOOSE k \in K : P(k)) = t[i]
    BY <2>2, <2>3, Zenon
  <2> QED BY <2>4, <2>5
<1>10. ASSUME \A k \in K : \E i \in DOMAIN t : t[i] = k PROVE KeysInOrder(K) = t
  <2>1. R(N) = K
    BY <1>1, <1>10
  <2>2. Cardinality(K) = N
    <3> HIDE DEF R
    <3> QED BY <1>1, <1>3, <2>1
  <2> DEFINE C(n) == CHOOSE k \in K : Cardinality({x \in K : Less(x, k)}) = n - 1
  <2>3. KeysInOrder(K) = [n \in 1..N |-> C(n)]
    BY <2>2 DEF KeysInOrder
  <2> HIDE DEF C
  <2>4. KeysInOrder(K) = [i \in 1..N |-> KeysInOrder(K)[i]]
    BY <2>3
  <2>5. t = [i \in 1..N |-> t[i]]
    BY <1>1
  <2> HIDE DEF N
  <2> QED BY <1>9, <2>4, <2>5
<1> QED BY <1>4, <1>5, <1>9, <1>10

\* A finite nonempty set of keys has a least and a greatest one.
LEMMA KeyExtremes ==
  ASSUME NEW K \in SUBSET Bytes, IsFiniteSet(K), K # {}
  PROVE  /\ \E m \in K : \A k \in K : k = m \/ Less(k, m)
         /\ \E m \in K : \A k \in K : k = m \/ Less(m, k)
<1> DEFINE Both(T) == /\ \E m \in T : \A k \in T : k = m \/ Less(k, m)
                      /\ \E m \in T : \A k \in T : k = m \/ Less(m, k)
           S == {n \in Nat : \A T \in SUBSET Bytes : IsFiniteSet(T) /\ Cardinality(T) = n /\ T # {} => Both(T)}
<1>1. 0 \in S
  <2> SUFFICES ASSUME NEW T \in SUBSET Bytes, IsFiniteSet(T), Cardinality(T) = 0 PROVE T = {}
    OBVIOUS
  <2> QED BY FS_EmptySet
<1>2. ASSUME NEW n \in Nat, n \in S PROVE n + 1 \in S
  <2> SUFFICES ASSUME NEW T \in SUBSET Bytes, IsFiniteSet(T), Cardinality(T) = n + 1, T # {} PROVE Both(T)
    OBVIOUS
  <2>1. PICK x \in T : TRUE
    OBVIOUS
  <2> DEFINE U == T \ {x}
  <2>2. IsFiniteSet(U) /\ Cardinality(U) = n
    <3>1. IsFiniteSet(U) /\ Cardinality(U) = Cardinality(T) - 1
      BY FS_RemoveElement
    <3> QED BY <3>1
  <2>3. U \in SUBSET Bytes /\ x \in Bytes /\ T = U \cup {x}
    OBVIOUS
  <2>4. CASE U = {}
    <3>1. T = {x}
      BY <2>3, <2>4
    <3> QED BY <3>1
  <2>5. CASE U # {}
    <3>1. Both(U)
      BY <1>2, <2>2, <2>3, <2>5
    <3> HIDE DEF U
    <3>2. PICK a \in U : \A k \in U : k = a \/ Less(k, a)
      BY <3>1
    <3>3. PICK b \in U : \A k \in U : k = b \/ Less(b, k)
      BY <3>1
    <3>4. a \in Bytes /\ b \in Bytes
      BY <2>3
    <3>5. \E m \in T : \A k \in T : k = m \/ Less(k, m)
      <4>1. CASE Less(x, a) \/ x = a
        BY <2>3, <3>2, <4>1
      <4>2. CASE Less(a, x)
        <5>1. \A k \in U : Less(k, x)
          <6> SUFFICES ASSUME NEW k \in U PROVE Less(k, x)
            OBVIOUS
          <6>1. k = a \/ Less(k, a)
            BY <3>2
          <6> QED BY <2>3, <3>4, <4>2, <6>1, LessTransitive
        <5> QED BY <2>3, <5>1
      <4> QED BY <2>3, <3>4, <4>1, <4>2, LessTotal
    <3>6. \E m \in T : \A k \in T : k = m \/ Less(m, k)
      <4>1. CASE Less(b, x) \/ x = b
        BY <2>3, <3>3, <4>1
      <4>2. CASE Less(x, b)
        <5>1. \A k \in U : Less(x, k)
          <6> SUFFICES ASSUME NEW k \in U PROVE Less(x, k)
            OBVIOUS
          <6>1. k = b \/ Less(b, k)
            BY <3>3
          <6> QED BY <2>3, <3>4, <4>2, <6>1, LessTransitive
        <5> QED BY <2>3, <5>1
      <4> QED BY <2>3, <3>4, <4>1, <4>2, LessTotal
    <3> QED BY <3>5, <3>6
  <2> QED BY <2>4, <2>5
<1>3. \A n \in Nat : n \in S
  <2> HIDE DEF S
  <2> QED BY <1>1, <1>2, Induction
<1>4. Cardinality(K) \in Nat
  BY FS_CardinalityType
<1>5. Both(K)
  <2> HIDE DEF Both
  <2> QED BY <1>3, <1>4
<1> QED BY <1>5

\* The keys of a finite set can be put in order, and KeysInOrder does it.
LEMMA KeysInOrderClimb ==
  ASSUME NEW K \in SUBSET Bytes, IsFiniteSet(K)
  PROVE  /\ KeysInOrder(K) \in Seq(K) /\ Climbs(KeysInOrder(K))
         /\ \A k \in K : \E i \in DOMAIN KeysInOrder(K) : KeysInOrder(K)[i] = k
<1> DEFINE Lists(t, T) == t \in Seq(T) /\ Climbs(t) /\ \A k \in T : \E i \in DOMAIN t : t[i] = k
           S == {n \in Nat : \A T \in SUBSET Bytes : IsFiniteSet(T) /\ Cardinality(T) = n => \E t : Lists(t, T)}
<1>1. 0 \in S
  <2> SUFFICES ASSUME NEW T \in SUBSET Bytes, IsFiniteSet(T), Cardinality(T) = 0 PROVE \E t : Lists(t, T)
    OBVIOUS
  <2>1. T = {}
    BY FS_EmptySet
  <2>2. <<>> \in Seq(T) /\ DOMAIN (<<>>) = {}
    OBVIOUS
  <2>3. Lists(<<>>, T)
    BY <2>1, <2>2 DEF Climbs
  <2> QED BY <2>3
<1>2. ASSUME NEW n \in Nat, n \in S PROVE n + 1 \in S
  <2> SUFFICES ASSUME NEW T \in SUBSET Bytes, IsFiniteSet(T), Cardinality(T) = n + 1 PROVE \E t : Lists(t, T)
    OBVIOUS
  <2>1. T # {}
    BY FS_EmptySet
  <2>2. PICK x \in T : \A k \in T : k = x \/ Less(k, x)
    BY <2>1, KeyExtremes
  <2> DEFINE U == T \ {x}
  <2>3. IsFiniteSet(U) /\ Cardinality(U) = n
    <3>1. IsFiniteSet(U) /\ Cardinality(U) = Cardinality(T) - 1
      BY FS_RemoveElement
    <3> QED BY <3>1
  <2>4. U \in SUBSET Bytes
    OBVIOUS
  <2>5. PICK t : Lists(t, U)
    BY <1>2, <2>3, <2>4
  <2>6. t \in Seq(U) /\ t \in Seq(T)
    <3>1. t \in Seq(U)
      BY <2>5
    <3>2. DOMAIN t = 1..Len(t) /\ Len(t) \in Nat /\ \A i \in 1..Len(t) : t[i] \in U
      BY <3>1
    <3>3. t \in [1..Len(t) -> T]
      BY <3>1, <3>2
    <3> QED BY <3>1, <3>2, <3>3
  <2> DEFINE u == Append(t, x)  N == Len(t)
  <2>7. /\ u \in Seq(T) /\ N \in Nat /\ DOMAIN t = 1..N /\ DOMAIN u = 1..N + 1
        /\ \A i \in 1..N : u[i] = t[i] /\ t[i] \in U
        /\ u[N + 1] = x
    BY <2>6, AppendFacts
  <2> HIDE DEF u, N
  <2>8. Climbs(u)
    <3> SUFFICES ASSUME NEW i \in 1..N + 1, NEW j \in 1..N + 1, i < j PROVE Less(u[i], u[j])
      BY <2>7 DEF Climbs
    <3>1. i \in 1..N /\ u[i] = t[i] /\ t[i] \in U
      BY <2>7
    <3>2. CASE j = N + 1
      BY <2>2, <2>7, <3>1, <3>2
    <3>3. CASE j # N + 1
      <4>1. j \in 1..N /\ u[j] = t[j]
        BY <2>7, <3>3
      <4> QED BY <2>5, <2>7, <3>1, <4>1 DEF Climbs
    <3> QED BY <3>2, <3>3
  <2>9. \A k \in T : \E i \in DOMAIN u : u[i] = k
    <3> SUFFICES ASSUME NEW k \in T PROVE \E i \in 1..N + 1 : u[i] = k
      BY <2>7
    <3>1. CASE k = x
      BY <2>7, <3>1
    <3>2. CASE k # x
      <4>1. PICK i \in 1..N : t[i] = k
        BY <2>5, <2>7, <3>2
      <4>2. i \in 1..N + 1
        BY <2>7
      <4> QED BY <2>7, <4>1, <4>2
    <3> QED BY <3>1, <3>2
  <2>10. Lists(u, T)
    BY <2>7, <2>8, <2>9
  <2> QED BY <2>10
<1>3. \A n \in Nat : n \in S
  <2> HIDE DEF S
  <2> QED BY <1>1, <1>2, Induction
<1>4. Cardinality(K) \in Nat
  BY FS_CardinalityType
<1>5. PICK t : Lists(t, K)
  <2> HIDE DEF Lists
  <2> QED BY <1>3, <1>4
<1>6. KeysInOrder(K) = t
  BY <1>5, KeysInOrderBegin
<1> QED BY <1>5, <1>6


\* What an iterator that starts in order yields of a layer: entries of it in the
\* order of their keys, all of them, or the first before it fails.
EntrySet(layer) == {[k |-> k, e |-> layer[k]] : k \in DOMAIN layer}
Rising(list) == \A i, j \in DOMAIN list : i < j => Less(list[i].k, list[j].k)
Has(list, k) == \E i \in DOMAIN list : list[i].k = k
Yields(src, layer) ==
    /\ src.list \in Seq(EntrySet(layer)) /\ Rising(src.list) /\ src.fails \in BOOLEAN
    /\ \A k \in DOMAIN layer :
           Has(src.list, k) \/ (src.fails /\ \A i \in DOMAIN src.list : Less(src.list[i].k, k))
IsLayer(layer) == IsFiniteSet(DOMAIN layer) /\ DOMAIN layer \subseteq Bytes

\* The entries of a layer, one by one.
LEMMA EntryFacts ==
  ASSUME NEW layer, NEW list \in Seq(EntrySet(layer))
  PROVE  /\ Len(list) \in Nat /\ DOMAIN list = 1..Len(list)
         /\ \A i \in DOMAIN list : /\ list[i] \in EntrySet(layer) /\ list[i].k \in DOMAIN layer
                                   /\ list[i] = [k |-> list[i].k, e |-> layer[list[i].k]]
                                   /\ list[i].e = layer[list[i].k]
<1> DEFINE E == EntrySet(layer)
<1>1. list \in Seq(E)
  OBVIOUS
<1>2. \A x \in E : x.k \in DOMAIN layer /\ x = [k |-> x.k, e |-> layer[x.k]] /\ x.e = layer[x.k]
  BY DEF EntrySet
<1> HIDE DEF E
<1>3. Len(list) \in Nat /\ DOMAIN list = 1..Len(list) /\ \A i \in 1..Len(list) : list[i] \in E
  BY <1>1
<1> QED BY <1>2, <1>3 DEF E

\* Entries puts all of a layer in order.
LEMMA EntriesYield ==
  ASSUME NEW layer, IsLayer(layer)
  PROVE  /\ Yields([list |-> Entries(layer), fails |-> FALSE], layer)
         /\ Len(Entries(layer)) = Cardinality(DOMAIN layer)
         /\ \A i \in DOMAIN Entries(layer) : Entries(layer)[i] = [k |-> KeysInOrder(DOMAIN layer)[i], e |-> layer[KeysInOrder(DOMAIN layer)[i]]]
<1> DEFINE K == DOMAIN layer
           t == KeysInOrder(K)
           N == Cardinality(K)
           E == EntrySet(layer)
           list == Entries(layer)
<1>1. t \in Seq(K) /\ Climbs(t) /\ \A k \in K : \E i \in DOMAIN t : t[i] = k
  BY KeysInOrderClimb DEF IsLayer
<1>2. N \in Nat
  BY FS_CardinalityType DEF IsLayer
<1>3. DOMAIN t = 1..N
  BY DEF KeysInOrder
<1>4. list = [n \in 1..N |-> [k |-> t[n], e |-> layer[t[n]]]]
  BY <1>3 DEF Entries
<1> HIDE DEF t, N, list
<1>5. \A n \in 1..N : t[n] \in K
  <2> HIDE DEF K
  <2>1. \A n \in DOMAIN t : t[n] \in K
    BY <1>1
  <2> QED BY <1>3, <2>1
<1>6. \A n \in 1..N : list[n] = [k |-> t[n], e |-> layer[t[n]]] /\ list[n].k = t[n] /\ list[n] \in E
  <2> SUFFICES ASSUME NEW n \in 1..N
               PROVE  list[n] = [k |-> t[n], e |-> layer[t[n]]] /\ list[n].k = t[n] /\ list[n] \in E
    OBVIOUS
  <2>1. list[n] = [k |-> t[n], e |-> layer[t[n]]]
    BY <1>4
  <2> QED BY <1>5, <2>1 DEF EntrySet
<1> HIDE DEF E
<1>7. list \in [1..N -> E]
  BY <1>4, <1>6
<1>8. list \in Seq(E) /\ DOMAIN list = 1..N /\ Len(list) = N
  BY <1>2, <1>7
<1>9. Rising(list)
  BY <1>1, <1>3, <1>6, <1>8 DEF Rising, Climbs
<1>10. \A k \in K : Has(list, k)
  BY <1>1, <1>3, <1>6, <1>8 DEF Has
<1>11. Yields([list |-> list, fails |-> FALSE], layer)
  BY <1>8, <1>9, <1>10 DEF Yields, E
<1> QED BY <1>6, <1>8, <1>11 DEF list, N, t

\* There is only one such order: what is yielded begins as the entries in order
\* do, and is all of them if nothing fails.
LEMMA YieldsUnique ==
  ASSUME NEW layer, IsLayer(layer), NEW src, Yields(src, layer)
  PROVE  /\ Len(src.list) <= Len(Entries(layer))
         /\ \A i \in 1..Len(src.list) : src.list[i] = Entries(layer)[i]
         /\ ~src.fails => src.list = Entries(layer)
<1> DEFINE K == DOMAIN layer
           list == src.list
           N == Len(list)
           t == [i \in 1..N |-> list[i].k]
           u == KeysInOrder(K)
<1>1. /\ N \in Nat /\ DOMAIN list = 1..N
      /\ \A i \in 1..N : list[i].k \in K /\ list[i] = [k |-> list[i].k, e |-> layer[list[i].k]]
  BY EntryFacts DEF Yields
<1>a. list \in Seq(EntrySet(layer)) /\ Rising(list)
  BY DEF Yields
<1> HIDE DEF list, N
<1>2. t \in Seq(K) /\ DOMAIN t = 1..N /\ Len(t) = N
  <2>1. t \in [1..N -> K]
    BY <1>1
  <2> HIDE DEF t
  <2> QED BY <1>1, <2>1
<1>3. Climbs(t)
  BY <1>a, <1>1, <1>2 DEF Climbs, Rising
<1>4. \A k \in K : (\E i \in DOMAIN t : t[i] = k) \/ (src.fails /\ \A i \in DOMAIN t : Less(t[i], k))
  <2> SUFFICES ASSUME NEW k \in K
               PROVE (\E i \in 1..N : t[i] = k) \/ (src.fails /\ \A i \in 1..N : Less(t[i], k))
    BY <1>2
  <2>1. Has(list, k) \/ (src.fails /\ \A i \in DOMAIN list : Less(list[i].k, k))
    BY DEF Yields, list
  <2> QED BY <1>1, <2>1 DEF Has
<1> HIDE DEF t
<1>5. K \in SUBSET Bytes /\ IsFiniteSet(K)
  BY DEF IsLayer
<1>6. N <= Cardinality(K) /\ Cardinality(K) \in Nat /\ \A i \in 1..N : u[i] = t[i]
  BY <1>2, <1>3, <1>4, <1>5, KeysInOrderBegin
<1>7. DOMAIN Entries(layer) = 1..Cardinality(K) /\ Len(Entries(layer)) = Cardinality(K)
  <2>1. Len(Entries(layer)) = Cardinality(K) /\ Entries(layer) \in Seq(EntrySet(layer))
    BY EntriesYield DEF Yields
  <2> QED BY <2>1, EntryFacts
<1>8. \A i \in 1..N : list[i] = Entries(layer)[i]
  <2> SUFFICES ASSUME NEW i \in 1..N PROVE list[i] = Entries(layer)[i]
    OBVIOUS
  <2>1. i \in DOMAIN Entries(layer)
    BY <1>1, <1>6, <1>7
  <2>2. Entries(layer)[i] = [k |-> u[i], e |-> layer[u[i]]]
    BY <2>1, EntriesYield
  <2>3. u[i] = list[i].k
    BY <1>6 DEF t
  <2> QED BY <1>1, <2>2, <2>3
<1>9. ASSUME ~src.fails PROVE list = Entries(layer)
  <2>1. u = t
    BY <1>2, <1>3, <1>4, <1>5, <1>9, KeysInOrderBegin
  <2>2. DOMAIN u = 1..Cardinality(K)
    BY DEF KeysInOrder
  <2>3. 1..N = 1..Cardinality(K)
    BY <1>2, <2>1, <2>2
  <2>4. N = Cardinality(K)
    BY <1>1, <1>6, <2>3
  <2>5. Entries(layer) = [i \in 1..N |-> Entries(layer)[i]]
    <3>1. Entries(layer) \in Seq(EntrySet(layer))
      BY EntriesYield DEF Yields
    <3> QED BY <1>7, <2>4, <3>1
  <2>6. list = [i \in 1..N |-> list[i]]
    BY <1>1, <1>a
  <2> QED BY <1>8, <2>5, <2>6
<1> QED BY <1>6, <1>7, <1>8, <1>9 DEF list, N


-----------------------------------------------------------------------------
(* The merge *)

\* MergeIter while it goes: of the sources in the heap the parked entry is the
\* first whose key is not yet done, of the others all are done; the keys done
\* are the least there are, and those of them that live have been returned.
Merging(sources, stack, m, D) ==
    LET I == DOMAIN sources
        K == UNION {DOMAIN stack[i] : i \in DOMAIN stack}
    IN  /\ m \in [pos : [I -> Nat], heap : SUBSET I, fails : BOOLEAN, list : Seq(EntrySet(Live(stack)))]
        /\ \A i \in m.heap : /\ m.pos[i] \in 1..Len(sources[i].list)
                             /\ Parked(sources, m, i).k \notin D
                             /\ \A j \in 1..m.pos[i] - 1 : sources[i].list[j].k \in D
        /\ \A i \in I \ m.heap : /\ m.pos[i] = Len(sources[i].list) /\ (sources[i].fails => m.fails)
                                 /\ \A j \in 1..Len(sources[i].list) : sources[i].list[j].k \in D
        /\ m.fails => \E i \in I : sources[i].fails
        /\ D \subseteq KeysOf(sources) /\ \A k \in D : \A l \in K \ D : Less(k, l)
        /\ Rising(m.list) /\ (\A j \in DOMAIN m.list : m.list[j].k \in D)
        /\ \A k \in LiveKeys(stack) \cap D : Has(m.list, k)

\* Sources and the layers they yield.
Matching(sources, stack) ==
    /\ \E n \in Nat : DOMAIN sources = 1..n
    /\ DOMAIN stack = DOMAIN sources
    /\ \A i \in DOMAIN sources : IsLayer(stack[i]) /\ Yields(sources[i], stack[i])

\* What is in the sources.
LEMMA SourceFacts ==
  ASSUME NEW sources, NEW stack, Matching(sources, stack), NEW i \in DOMAIN sources
  PROVE  /\ i \in Nat /\ Len(sources[i].list) \in Nat /\ DOMAIN sources[i].list = 1..Len(sources[i].list)
         /\ \A j \in 1..Len(sources[i].list) :
               /\ sources[i].list[j].k \in DOMAIN stack[i] /\ sources[i].list[j].k \in Bytes
               /\ sources[i].list[j].k \in KeysOf(sources)
               /\ sources[i].list[j] = [k |-> sources[i].list[j].k, e |-> stack[i][sources[i].list[j].k]]
               /\ sources[i].list[j].e = stack[i][sources[i].list[j].k]
         /\ Rising(sources[i].list) /\ sources[i].fails \in BOOLEAN
         /\ i \in DOMAIN stack /\ DOMAIN stack[i] \subseteq Bytes
<1>1. i \in Nat /\ i \in DOMAIN stack /\ IsLayer(stack[i]) /\ Yields(sources[i], stack[i])
  BY DEF Matching
<1> DEFINE list == sources[i].list
<1>2. list \in Seq(EntrySet(stack[i])) /\ Rising(list) /\ sources[i].fails \in BOOLEAN
  BY <1>1 DEF Yields
<1> HIDE DEF list
<1>3. /\ Len(list) \in Nat /\ DOMAIN list = 1..Len(list)
      /\ \A j \in DOMAIN list : /\ list[j].k \in DOMAIN stack[i] /\ list[j].e = stack[i][list[j].k]
                                /\ list[j] = [k |-> list[j].k, e |-> stack[i][list[j].k]]
  BY <1>2, EntryFacts
<1>4. \A j \in DOMAIN list : list[j].k \in KeysOf(sources)
  <2> SUFFICES ASSUME NEW j \in DOMAIN list PROVE list[j].k \in KeysOf(sources)
    OBVIOUS
  <2>1. list[j] \in ToSet(list)
    BY Zenon DEF ToSet
  <2>2. list[j].k \in {x.k : x \in ToSet(sources[i].list)}
    BY <2>1 DEF list
  <2> QED BY <2>2 DEF KeysOf
<1>5. DOMAIN stack[i] \subseteq Bytes
  BY <1>1 DEF IsLayer
<1> QED BY <1>1, <1>2, <1>3, <1>4, <1>5 DEF list

\* The keys of the sources are finitely many keys of the layers.
LEMMA KeysOfFinite ==
  ASSUME NEW sources, NEW stack, Matching(sources, stack)
  PROVE  /\ IsFiniteSet(KeysOf(sources)) /\ KeysOf(sources) \subseteq Bytes
         /\ KeysOf(sources) \subseteq UNION {DOMAIN stack[i] : i \in DOMAIN stack}
         /\ IsFiniteSet(UNION {DOMAIN stack[i] : i \in DOMAIN stack})
<1> DEFINE I == DOMAIN stack
           Ks == {DOMAIN stack[i] : i \in I}
           K == UNION Ks
<1>1. PICK n \in Nat : I = 1..n /\ DOMAIN sources = 1..n
  BY DEF Matching
<1>2. IsFiniteSet(I)
  BY <1>1, FS_Interval
<1>3. IsFiniteSet(Ks)
  <2> DEFINE f == [i \in I |-> DOMAIN stack[i]]
  <2>1. f \in Surjection(I, Ks)
    BY DEF Surjection
  <2> HIDE DEF f, I, Ks
  <2> QED BY <1>2, <2>1, FS_Surjection
<1>4. \A S \in Ks : IsFiniteSet(S) /\ S \subseteq Bytes
  BY DEF Matching, IsLayer
<1>5. IsFiniteSet(K)
  <2> HIDE DEF Ks
  <2> QED BY <1>3, <1>4, FS_UNION
<1>6. KeysOf(sources) \subseteq K
  <2> SUFFICES ASSUME NEW k \in KeysOf(sources) PROVE k \in K
    OBVIOUS
  <2>1. PICK i \in DOMAIN sources : k \in {x.k : x \in ToSet(sources[i].list)}
    BY DEF KeysOf
  <2>2. PICK j \in DOMAIN sources[i].list : k = sources[i].list[j].k
    BY <2>1 DEF ToSet
  <2>3. k \in DOMAIN stack[i] /\ i \in I
    <3>1. j \in 1..Len(sources[i].list)
      BY SourceFacts
    <3>2. sources[i].list[j].k \in DOMAIN stack[i] /\ i \in DOMAIN stack
      BY <3>1, SourceFacts
    <3> QED BY <2>2, <3>2
  <2> QED BY <2>3
<1>7. K \subseteq Bytes
  BY <1>4
<1> HIDE DEF K
<1>8. IsFiniteSet(KeysOf(sources))
  BY <1>5, <1>6, FS_Subset
<1> QED BY <1>5, <1>6, <1>7, <1>8 DEF K

\* advance, field by field.
LEMMA AdvanceFacts ==
  ASSUME NEW sources, NEW A, NEW B, NEW C, NEW E, NEW m \in [pos : A, heap : B, fails : C, list : E], NEW J
  PROVE  LET r == Advance(sources, m, J)
             more == {i \in J : m.pos[i] < Len(sources[i].list)}
         IN  /\ r = [pos |-> r.pos, heap |-> r.heap, fails |-> r.fails, list |-> m.list]
             /\ r.pos = [i \in DOMAIN sources |-> IF i \in more THEN m.pos[i] + 1 ELSE m.pos[i]]
             /\ r.heap = (m.heap \ J) \cup more
             /\ r.fails = (m.fails \/ \E i \in J \ more : sources[i].fails)
             /\ r.list = m.list
<1> DEFINE more == {i \in J : m.pos[i] < Len(sources[i].list)}
           P == [i \in DOMAIN sources |-> IF i \in more THEN m.pos[i] + 1 ELSE m.pos[i]]
           H == (m.heap \ J) \cup more
           F == m.fails \/ \E i \in J \ more : sources[i].fails
           r == Advance(sources, m, J)
<1>1. r = [m EXCEPT !.pos = P, !.heap = H, !.fails = F]
  BY DEF Advance
<1> HIDE DEF P, H, F, r
<1>2. r.pos = P /\ r.heap = H /\ r.fails = F /\ r.list = m.list /\ r = [pos |-> P, heap |-> H, fails |-> F, list |-> m.list]
  BY <1>1
<1>3. r = [pos |-> r.pos, heap |-> r.heap, fails |-> r.fails, list |-> m.list]
  BY <1>2
<1> QED BY <1>2, <1>3 DEF P, H, F, r


\* MergeIter::new has done no key yet.
LEMMA MergeStartHolds ==
  ASSUME NEW sources, NEW stack, Matching(sources, stack)
  PROVE  Merging(sources, stack, MergeStart(sources), {})
<1> DEFINE I == DOMAIN sources
           E == EntrySet(Live(stack))
           none == [pos |-> [i \in I |-> 0], heap |-> {}, fails |-> FALSE, list |-> <<>>]
           more == {i \in I : none.pos[i] < Len(sources[i].list)}
           m == MergeStart(sources)
<1>1. none \in [pos : [I -> Nat], heap : SUBSET I, fails : BOOLEAN, list : Seq(E)]
  <2> HIDE DEF E
  <2> QED OBVIOUS
<1>2. /\ m = [pos |-> m.pos, heap |-> m.heap, fails |-> m.fails, list |-> none.list]
      /\ m.pos = [i \in I |-> IF i \in more THEN none.pos[i] + 1 ELSE none.pos[i]]
      /\ m.heap = (none.heap \ I) \cup more
      /\ m.fails = (none.fails \/ \E i \in I \ more : sources[i].fails)
      /\ m.list = none.list
  <2> DEFINE A == [I -> Nat]  B == SUBSET I  C == BOOLEAN  L == Seq(E)
  <2>1. none \in [pos : A, heap : B, fails : C, list : L] /\ m = Advance(sources, none, I)
    BY <1>1 DEF MergeStart
  <2> HIDE DEF A, B, C, L, none, m
  <2> QED BY <2>1, AdvanceFacts
<1>3. \A i \in I : /\ Len(sources[i].list) \in Nat /\ sources[i].fails \in BOOLEAN
                   /\ i \in more <=> Len(sources[i].list) # 0
  BY SourceFacts
<1>4. more \subseteq I /\ m.heap = more /\ m.list = <<>>
  BY <1>2
<1>5. m.fails = \E i \in I \ more : sources[i].fails
  BY <1>2
<1>6. \A i \in I : m.pos[i] = IF i \in more THEN 1 ELSE 0
  BY <1>2
<1> HIDE DEF m, more
<1>7. m \in [pos : [I -> Nat], heap : SUBSET I, fails : BOOLEAN, list : Seq(E)]
  <2>1. m.pos \in [I -> Nat]
    BY <1>2
  <2>2. m.fails \in BOOLEAN
    BY <1>5
  <2>3. <<>> \in Seq(E)
    OBVIOUS
  <2> HIDE DEF E
  <2> QED BY <1>2, <1>4, <2>1, <2>2, <2>3
<1>8. ASSUME NEW i \in m.heap
      PROVE  /\ m.pos[i] \in 1..Len(sources[i].list) /\ \A j \in 1..m.pos[i] - 1 : sources[i].list[j].k \in {}
  BY <1>3, <1>4, <1>6
<1>9. ASSUME NEW i \in I \ m.heap
      PROVE  /\ m.pos[i] = Len(sources[i].list) /\ (sources[i].fails => m.fails)
             /\ \A j \in 1..Len(sources[i].list) : sources[i].list[j].k \in {}
  BY <1>3, <1>4, <1>5, <1>6
<1>10. Rising(m.list) /\ \A j \in DOMAIN m.list : m.list[j].k \in {}
  BY <1>4 DEF Rising
<1> HIDE DEF none
<1>11. Merging(sources, stack, m, {})
  BY <1>5, <1>7, <1>8, <1>9, <1>10 DEF Merging
<1> QED BY <1>11 DEF m

\* The least of the parked keys.
LEMMA LeastParkedFacts ==
  ASSUME NEW sources, NEW stack, Matching(sources, stack), NEW m, m.heap \subseteq DOMAIN sources, m.heap # {},
         \A i \in m.heap : m.pos[i] \in 1..Len(sources[i].list)
  PROVE  /\ \E i \in m.heap : Parked(sources, m, i).k = LeastParked(sources, m)
         /\ \A i \in m.heap : \/ Parked(sources, m, i).k = LeastParked(sources, m)
                              \/ Less(LeastParked(sources, m), Parked(sources, m, i).k)
         /\ LeastParked(sources, m) \in Bytes /\ LeastParked(sources, m) \in KeysOf(sources)
<1> DEFINE H == {Parked(sources, m, i).k : i \in m.heap}
<1>1. H \subseteq KeysOf(sources) /\ H \subseteq Bytes
  <2> SUFFICES ASSUME NEW i \in m.heap
               PROVE  Parked(sources, m, i).k \in KeysOf(sources) /\ Parked(sources, m, i).k \in Bytes
    OBVIOUS
  <2> QED BY SourceFacts DEF Parked
<1>2. H # {}
  OBVIOUS
<1> DEFINE P(k) == \A i \in m.heap : ~Less(Parked(sources, m, i).k, k)
<1> HIDE DEF H
<1>3. IsFiniteSet(H)
  BY <1>1, KeysOfFinite, FS_Subset
<1>4. PICK a \in H : \A k \in H : k = a \/ Less(a, k)
  BY <1>1, <1>2, <1>3, KeyExtremes
<1>5. P(a)
  <2> SUFFICES ASSUME NEW i \in m.heap PROVE ~Less(Parked(sources, m, i).k, a)
    OBVIOUS
  <2>1. Parked(sources, m, i).k \in H
    BY DEF H
  <2> QED BY <1>1, <1>4, <2>1, LessTotal
<1>6. LeastParked(sources, m) = CHOOSE k \in H : P(k)
  BY DEF LeastParked, H
<1>7. LeastParked(sources, m) \in H /\ P(LeastParked(sources, m))
  <2> HIDE DEF P
  <2> QED BY <1>5, <1>6, Zenon
<1>8. \E i \in m.heap : Parked(sources, m, i).k = LeastParked(sources, m)
  BY <1>7 DEF H
<1>9. ASSUME NEW i \in m.heap
      PROVE  \/ Parked(sources, m, i).k = LeastParked(sources, m)
             \/ Less(LeastParked(sources, m), Parked(sources, m, i).k)
  <2>1. Parked(sources, m, i).k \in H
    BY DEF H
  <2> QED BY <1>1, <1>7, <2>1, LessTotal
<1> QED BY <1>1, <1>7, <1>8, <1>9

\* A key that is not done is still ahead in every source whose layer holds it,
\* however little the source yields of it.
LEMMA Ahead ==
  ASSUME NEW sources, NEW stack, Matching(sources, stack), NEW m, NEW D, Merging(sources, stack, m, D), ~m.fails,
         NEW i \in DOMAIN sources, NEW l \in DOMAIN stack[i], l \notin D
  PROVE  i \in m.heap /\ (Parked(sources, m, i).k = l \/ Less(Parked(sources, m, i).k, l))
<1> DEFINE list == sources[i].list
           N == Len(list)
<1>1. /\ N \in Nat /\ DOMAIN list = 1..N /\ Rising(list)
  BY SourceFacts
<1>2. Has(list, l) \/ (sources[i].fails /\ \A j \in 1..N : Less(list[j].k, l))
  BY <1>1 DEF Matching, Yields
<1>3. i \in m.heap
  <2> SUFFICES ASSUME i \notin m.heap PROVE FALSE
    OBVIOUS
  <2>1. ~sources[i].fails /\ \A j \in 1..N : list[j].k \in D
    BY DEF Merging
  <2> QED BY <1>1, <1>2, <2>1 DEF Has
<1>4. m.pos[i] \in 1..N /\ \A j \in 1..m.pos[i] - 1 : list[j].k \in D
  BY <1>3 DEF Merging
<1> HIDE DEF list, N
<1>5. Parked(sources, m, i) = list[m.pos[i]]
  BY DEF Parked, list
<1>6. CASE Has(list, l)
  <2>1. PICK j \in 1..N : list[j].k = l
    BY <1>1, <1>6 DEF Has
  <2>2. ~(j \in 1..m.pos[i] - 1)
    BY <1>4, <2>1
  <2>3. j = m.pos[i] \/ m.pos[i] < j
    BY <1>1, <1>4, <2>2
  <2>4. m.pos[i] < j => Less(list[m.pos[i]].k, list[j].k)
    BY <1>1, <1>4 DEF Rising
  <2> QED BY <1>3, <1>5, <2>1, <2>3, <2>4
<1>7. CASE \A j \in 1..N : Less(list[j].k, l)
  BY <1>3, <1>4, <1>5, <1>7
<1> QED BY <1>2, <1>6, <1>7

\* One round of MergeIter::next does the least key that is not done: what it
\* returns is what the layers show under that key.
LEMMA MergeNextHolds ==
  ASSUME NEW sources, NEW stack, Matching(sources, stack), NEW m, NEW D, Merging(sources, stack, m, D),
         ~m.fails, m.heap # {}
  PROVE  \E k \in KeysOf(sources) : k \notin D /\ Merging(sources, stack, MergeNext(sources, m), D \cup {k})
<1> DEFINE I == DOMAIN sources
           L(i) == sources[i].list
           K == UNION {DOMAIN stack[i] : i \in DOMAIN stack}
           E == EntrySet(Live(stack))
           k == LeastParked(sources, m)
           same == {i \in m.heap : Parked(sources, m, i).k = k}
           x == Parked(sources, m, Min(same))
           next == IF x.e = <<>> THEN m ELSE [m EXCEPT !.list = Append(@, x)]
           r == Advance(sources, next, same)
           more == {i \in same : m.pos[i] < Len(L(i))}
           DD == D \cup {k}
<1>1. /\ m \in [pos : [I -> Nat], heap : SUBSET I, fails : BOOLEAN, list : Seq(E)]
      /\ m.pos \in [I -> Nat] /\ m.heap \subseteq I /\ m.list \in Seq(E)
  BY DEF Merging
<1>2. \A i \in m.heap : /\ m.pos[i] \in 1..Len(L(i)) /\ Parked(sources, m, i).k \notin D
                        /\ \A j \in 1..m.pos[i] - 1 : L(i)[j].k \in D
  BY DEF Merging
<1>3. \A i \in I \ m.heap : /\ m.pos[i] = Len(L(i)) /\ ~sources[i].fails
                            /\ \A j \in 1..Len(L(i)) : L(i)[j].k \in D
  BY DEF Merging
<1>4. D \subseteq KeysOf(sources) /\ \A a \in D : \A l \in K \ D : Less(a, l)
  BY DEF Merging
<1>5. Rising(m.list) /\ (\A j \in DOMAIN m.list : m.list[j].k \in D) /\ \A a \in LiveKeys(stack) \cap D : Has(m.list, a)
  BY DEF Merging
<1>6. DOMAIN stack = I /\ I \subseteq Nat
  BY DEF Matching
<1>7. \A i \in I : /\ Len(L(i)) \in Nat /\ DOMAIN L(i) = 1..Len(L(i)) /\ Rising(L(i)) /\ sources[i].fails \in BOOLEAN
                   /\ \A j \in 1..Len(L(i)) :
                         /\ L(i)[j].k \in DOMAIN stack[i] /\ L(i)[j].k \in Bytes
                         /\ L(i)[j] = [k |-> L(i)[j].k, e |-> stack[i][L(i)[j].k]]
                         /\ L(i)[j].e = stack[i][L(i)[j].k]
  <2> SUFFICES ASSUME NEW i \in I
               PROVE  /\ Len(L(i)) \in Nat /\ DOMAIN L(i) = 1..Len(L(i)) /\ Rising(L(i)) /\ sources[i].fails \in BOOLEAN
                      /\ \A j \in 1..Len(L(i)) :
                            /\ L(i)[j].k \in DOMAIN stack[i] /\ L(i)[j].k \in Bytes
                            /\ L(i)[j] = [k |-> L(i)[j].k, e |-> stack[i][L(i)[j].k]]
                            /\ L(i)[j].e = stack[i][L(i)[j].k]
    OBVIOUS
  <2> DEFINE N == Len(L(i))
  <2> HIDE DEF K, E, k, same, x, next, r, more, DD
  <2>1. N \in Nat /\ DOMAIN L(i) = 1..N /\ Rising(L(i)) /\ sources[i].fails \in BOOLEAN
    BY SourceFacts
  <2>2. ASSUME NEW j \in 1..N
        PROVE  /\ L(i)[j].k \in DOMAIN stack[i] /\ L(i)[j].k \in Bytes
               /\ L(i)[j] = [k |-> L(i)[j].k, e |-> stack[i][L(i)[j].k]]
               /\ L(i)[j].e = stack[i][L(i)[j].k]
    BY SourceFacts
  <2> QED BY <2>1, <2>2
<1>8. \A i : Parked(sources, m, i) = L(i)[m.pos[i]]
  BY DEF Parked
<1>9. /\ \E i \in m.heap : Parked(sources, m, i).k = k
      /\ \A i \in m.heap : Parked(sources, m, i).k = k \/ Less(k, Parked(sources, m, i).k)
      /\ k \in Bytes /\ k \in KeysOf(sources)
  BY <1>1, <1>2, LeastParkedFacts
<1>10. K \subseteq Bytes /\ KeysOf(sources) \subseteq K
  <2>1. \A i \in I : DOMAIN stack[i] \subseteq Bytes
    BY SourceFacts
  <2> QED BY <1>6, <2>1, KeysOfFinite
<1>11. same # {} /\ same \subseteq m.heap /\ same \subseteq I /\ k \notin D
  BY <1>1, <1>2, <1>9
<1> HIDE DEF k
<1>12. ASSUME NEW i \in I, NEW l \in DOMAIN stack[i], l \notin D
       PROVE  (l = k /\ i \in same) \/ (l # k /\ Less(k, l))
  <2>1. i \in m.heap /\ (Parked(sources, m, i).k = l \/ Less(Parked(sources, m, i).k, l))
    BY <1>12, Ahead
  <2> DEFINE p == Parked(sources, m, i).k
  <2>2. p \in Bytes /\ l \in Bytes /\ k \in Bytes
    BY <1>2, <1>6, <1>7, <1>8, <1>9, <1>10, <2>1
  <2>3. (p = l \/ Less(p, l)) /\ (p = k \/ Less(k, p)) /\ (p = k => i \in same)
    BY <1>9, <2>1
  <2> HIDE DEF p
  <2>4. p = k => (l = k /\ i \in same) \/ (l # k /\ Less(k, l))
    BY <2>2, <2>3, LessTotal
  <2>5. Less(k, p) => l # k /\ Less(k, l)
    BY <2>2, <2>3, LessTotal, LessTransitive
  <2> QED BY <2>3, <2>4, <2>5
<1>13. \A a \in DD : \A l \in K \ DD : Less(a, l)
  <2> SUFFICES ASSUME NEW a \in DD, NEW l \in K, l \notin DD PROVE Less(a, l)
    OBVIOUS
  <2>1. PICK i \in I : l \in DOMAIN stack[i]
    BY <1>6
  <2>2. Less(k, l)
    BY <1>12, <2>1
  <2> QED BY <1>4, <2>2
<1>14. DD \subseteq KeysOf(sources)
  BY <1>4, <1>9
<1>15. PICK t \in same : Min(same) = t /\ \A i \in same : t <= i
  <2>1. same \in SUBSET Nat
    BY <1>6, <1>11
  <2> HIDE DEF same
  <2> QED BY <1>11, <2>1, MinIn
<1> HIDE DEF same
<1>16. x = [k |-> k, e |-> Visible(stack, k)] /\ k \in K /\ x.e = Visible(stack, k) /\ x.k = k
  <2>1. t \in m.heap /\ t \in I /\ Parked(sources, m, t).k = k /\ m.pos[t] \in 1..Len(L(t))
    BY <1>2, <1>11 DEF same
  <2>2. x = L(t)[m.pos[t]] /\ x.k = k
    BY <1>8, <1>15, <2>1
  <2>3. k \in DOMAIN stack[t] /\ x = [k |-> k, e |-> stack[t][k]] /\ x.e = stack[t][k]
    BY <1>7, <2>1, <2>2
  <2>4. \A i \in DOMAIN stack : i < t => k \notin DOMAIN stack[i]
    <3> SUFFICES ASSUME NEW i \in DOMAIN stack, i < t, k \in DOMAIN stack[i] PROVE FALSE
      OBVIOUS
    <3>1. i \in same
      BY <1>6, <1>11, <1>12
    <3>2. t <= i /\ i \in Nat /\ t \in Nat
      BY <1>6, <1>15, <2>1, <3>1
    <3> QED BY <3>2
  <2>5. Visible(stack, k) = stack[t][k]
    BY <1>6, <2>1, <2>3, <2>4, VisibleAt
  <2> QED BY <1>6, <2>1, <2>2, <2>3, <2>5
<1> HIDE DEF x
<1>17. /\ next \in [pos : [I -> Nat], heap : SUBSET I, fails : BOOLEAN, list : Seq(E)]
       /\ next.pos = m.pos /\ next.heap = m.heap /\ next.fails = m.fails
       /\ next.list \in Seq(E) /\ Rising(next.list) /\ (\A j \in DOMAIN next.list : next.list[j].k \in DD)
       /\ \A a \in LiveKeys(stack) \cap DD : Has(next.list, a)
  <2>1. CASE x.e = <<>>
    <3>1. k \notin LiveKeys(stack)
      BY <1>16, <2>1 DEF LiveKeys
    <3> HIDE DEF E
    <3> QED BY <1>1, <1>5, <2>1, <3>1
  <2>2. CASE x.e # <<>>
    <3>1. k \in LiveKeys(stack)
      BY <1>16, <2>2 DEF LiveKeys
    <3>2. x \in E
      BY <1>16, <3>1 DEF EntrySet, Live
    <3> DEFINE u == Append(m.list, x)  N == Len(m.list)
    <3> HIDE DEF E
    <3>3. /\ u \in Seq(E) /\ N \in Nat /\ DOMAIN m.list = 1..N /\ DOMAIN u = 1..N + 1
          /\ (\A j \in 1..N : u[j] = m.list[j]) /\ u[N + 1] = x
      BY <1>1, <3>2, AppendFacts
    <3>4. next = [m EXCEPT !.list = u]
      BY <2>2
    <3> HIDE DEF next, u, N
    <3>5. /\ next \in [pos : [I -> Nat], heap : SUBSET I, fails : BOOLEAN, list : Seq(E)]
          /\ next.pos = m.pos /\ next.heap = m.heap /\ next.fails = m.fails /\ next.list = u
      BY <1>1, <3>3, <3>4
    <3>6. Rising(u)
      <4> SUFFICES ASSUME NEW i \in 1..N + 1, NEW j \in 1..N + 1, i < j PROVE Less(u[i].k, u[j].k)
        BY <3>3 DEF Rising
      <4>1. i \in 1..N /\ u[i] = m.list[i] /\ m.list[i].k \in D
        BY <1>5, <3>3
      <4>2. CASE j = N + 1
        <5>1. k \in K /\ k \notin D
          BY <1>11, <1>16
        <5> QED BY <1>4, <1>16, <3>3, <4>1, <4>2, <5>1
      <4>3. CASE j # N + 1
        <5>1. j \in 1..N /\ u[j] = m.list[j]
          BY <3>3, <4>3
        <5> QED BY <1>5, <3>3, <4>1, <5>1 DEF Rising
      <4> QED BY <4>2, <4>3
    <3>7. \A j \in DOMAIN u : u[j].k \in DD
      <4> SUFFICES ASSUME NEW j \in 1..N + 1 PROVE u[j].k \in DD
        BY <3>3
      <4>1. CASE j = N + 1
        BY <1>16, <3>3, <4>1
      <4>2. CASE j # N + 1
        <5>1. j \in 1..N /\ u[j] = m.list[j]
          BY <3>3, <4>2
        <5> QED BY <1>5, <3>3, <5>1
      <4> QED BY <4>1, <4>2
    <3>8. \A a \in LiveKeys(stack) \cap DD : Has(u, a)
      <4> SUFFICES ASSUME NEW a \in LiveKeys(stack), a \in DD PROVE \E j \in 1..N + 1 : u[j].k = a
        BY <3>3 DEF Has
      <4>1. CASE a = k
        BY <1>16, <3>3, <4>1
      <4>2. CASE a # k
        <5>1. PICK j \in 1..N : m.list[j].k = a
          BY <1>5, <3>3, <4>2 DEF Has
        <5>2. j \in 1..N + 1
          BY <3>3
        <5> QED BY <3>3, <5>1, <5>2
      <4> QED BY <4>1, <4>2
    <3> QED BY <3>3, <3>5, <3>6, <3>7, <3>8
  <2> QED BY <2>1, <2>2
<1> HIDE DEF next
<1>18. /\ r = [pos |-> r.pos, heap |-> r.heap, fails |-> r.fails, list |-> next.list]
       /\ r.pos = [i \in I |-> IF i \in more THEN m.pos[i] + 1 ELSE m.pos[i]]
       /\ r.heap = (m.heap \ same) \cup more
       /\ r.fails = \E i \in same \ more : sources[i].fails
       /\ r.list = next.list
  <2> DEFINE A == [I -> Nat]  B == SUBSET I  C == BOOLEAN  F == Seq(E)
             some == {i \in same : next.pos[i] < Len(sources[i].list)}
  <2>1. next \in [pos : A, heap : B, fails : C, list : F]
    BY <1>17
  <2>2. some = more
    BY <1>17
  <2> HIDE DEF A, B, C, F, r, more
  <2>3. /\ r = [pos |-> r.pos, heap |-> r.heap, fails |-> r.fails, list |-> next.list]
        /\ r.pos = [i \in I |-> IF i \in some THEN next.pos[i] + 1 ELSE next.pos[i]]
        /\ r.heap = (next.heap \ same) \cup some
        /\ r.fails = (next.fails \/ \E i \in same \ some : sources[i].fails)
        /\ r.list = next.list
    BY <2>1, AdvanceFacts DEF r
  <2> HIDE DEF some
  <2> QED BY <1>17, <2>2, <2>3
<1>19. MergeNext(sources, m) = r
  BY DEF MergeNext, r, next, x, same, k
<1> HIDE DEF r
<1>20. more \subseteq same /\ more \subseteq I /\ r.heap \subseteq I
  BY <1>1, <1>11, <1>18
<1>21. r \in [pos : [I -> Nat], heap : SUBSET I, fails : BOOLEAN, list : Seq(E)]
  <2>1. r.pos \in [I -> Nat]
    BY <1>1, <1>18
  <2>2. r.fails \in BOOLEAN
    BY <1>18
  <2> HIDE DEF E, more
  <2> QED BY <1>17, <1>18, <1>20, <2>1, <2>2
<1>22. ASSUME NEW i \in r.heap
       PROVE  /\ r.pos[i] \in 1..Len(L(i)) /\ Parked(sources, r, i).k \notin DD
              /\ \A j \in 1..r.pos[i] - 1 : L(i)[j].k \in DD
  <2>1. i \in I /\ Parked(sources, r, i) = L(i)[r.pos[i]]
    BY <1>20 DEF Parked
  <2>2. CASE i \in more
    <3>1. i \in same /\ i \in m.heap /\ r.pos[i] = m.pos[i] + 1 /\ m.pos[i] < Len(L(i))
      BY <1>11, <1>18, <2>1, <2>2
    <3> HIDE DEF more
    <3> DEFINE p == m.pos[i]  N == Len(L(i))
    <3>2. p \in 1..N /\ p + 1 \in 1..N /\ p \in DOMAIN L(i) /\ p + 1 \in DOMAIN L(i) /\ L(i)[p].k = k
      BY <1>2, <1>7, <1>8, <2>1, <3>1 DEF same
    <3> DEFINE q == L(i)[p + 1].k
    <3>3. Less(k, q)
      BY <1>7, <2>1, <3>2 DEF Rising
    <3>4. q \in Bytes /\ k \in Bytes
      BY <1>7, <1>9, <2>1, <3>2
    <3>5. q # k /\ ~Less(q, k)
      <4> HIDE DEF q
      <4> QED BY <3>3, <3>4, LessTotal
    <3>6. q \notin D
      BY <1>4, <1>11, <1>16, <3>5
    <3>7. \A j \in 1..p : L(i)[j].k \in DD
      <4> SUFFICES ASSUME NEW j \in 1..p PROVE L(i)[j].k \in DD
        OBVIOUS
      <4>1. j = p \/ j \in 1..p - 1
        BY <3>2, <1>7, <2>1
      <4> QED BY <1>2, <3>1, <3>2, <4>1
    <3>8. (p + 1) - 1 = p
      BY <3>2, <1>7, <2>1
    <3> QED BY <2>1, <3>1, <3>2, <3>5, <3>6, <3>7, <3>8
  <2>3. CASE i \notin more
    <3>1. i \in m.heap /\ i \notin same /\ r.pos[i] = m.pos[i]
      BY <1>18, <2>1, <2>3
    <3>2. L(i)[m.pos[i]].k # k
      BY <1>8, <3>1 DEF same
    <3> HIDE DEF more
    <3> QED BY <1>2, <1>8, <2>1, <3>1, <3>2
  <2> QED BY <2>2, <2>3
<1>23. ASSUME NEW i \in I \ r.heap
       PROVE  /\ r.pos[i] = Len(L(i)) /\ (sources[i].fails => r.fails)
              /\ \A j \in 1..Len(L(i)) : L(i)[j].k \in DD
  <2>1. i \notin more /\ (i \in m.heap => i \in same) /\ r.pos[i] = m.pos[i]
    BY <1>18
  <2>2. CASE i \in same
    <3>1. ~(m.pos[i] < Len(L(i)))
      BY <2>1, <2>2
    <3>2. r.fails <=> \E a \in same \ more : sources[a].fails
      BY <1>18
    <3>3. sources[i].fails => r.fails
      <4> HIDE DEF more
      <4> QED BY <2>1, <2>2, <3>2
    <3> HIDE DEF more
    <3> DEFINE p == m.pos[i]  N == Len(L(i))
    <3>4. p \in 1..N /\ N \in Nat /\ L(i)[p].k = k /\ \A j \in 1..p - 1 : L(i)[j].k \in D
      BY <1>2, <1>7, <1>8, <1>11, <2>2 DEF same
    <3>5. p = N
      BY <3>1, <3>4
    <3>6. \A j \in 1..N : L(i)[j].k \in DD
      <4> SUFFICES ASSUME NEW j \in 1..N PROVE L(i)[j].k \in DD
        OBVIOUS
      <4>1. j = p \/ j \in 1..p - 1
        BY <3>4, <3>5
      <4> QED BY <3>4, <4>1
    <3> QED BY <2>1, <3>3, <3>5, <3>6
  <2>3. CASE i \notin same
    <3> HIDE DEF more
    <3> QED BY <1>3, <2>1, <2>3
  <2> QED BY <2>2, <2>3
<1>24. r.fails => \E i \in I : sources[i].fails
  BY <1>11, <1>18
<1> HIDE DEF more, E, K
<1>25. Merging(sources, stack, r, DD)
  BY <1>13, <1>14, <1>17, <1>18, <1>21, <1>22, <1>23, <1>24 DEF Merging, E, K
<1> QED BY <1>9, <1>11, <1>19, <1>25

\* A merge of what the layers yield is what the layers together show: the live
\* entries in order, each once and as the newest layer has it, or the first of
\* them, before it fails as one of the sources does (MergeIter).
LEMMA MergeYields ==
  ASSUME NEW sources, NEW stack, Matching(sources, stack)
  PROVE  /\ Yields(Merge(sources), Live(stack))
         /\ Merge(sources).fails <=> \E i \in DOMAIN sources : sources[i].fails
<1> DEFINE R == Cardinality(KeysOf(sources))
           a == MergeStart(sources)
           Solves(f) == f = [n \in 0..R |-> IF n = 0 THEN a ELSE MergeNext(sources, f[n - 1])]
           I == DOMAIN sources
           K == UNION {DOMAIN stack[i] : i \in DOMAIN stack}
           Done(m, n) == \E D : Merging(sources, stack, m, D) /\ (m.fails \/ m.heap = {} \/ Cardinality(D) >= n)
<1>1. IsFiniteSet(KeysOf(sources)) /\ R \in Nat
  BY KeysOfFinite, FS_CardinalityType
<1>2. \E f : Solves(f)
  <2> DEFINE Upto(n, g) == g = [j \in 0..n |-> IF j = 0 THEN a ELSE MergeNext(sources, g[j - 1])]
             S == {n \in Nat : \E g : Upto(n, g)}
  <2> HIDE DEF a
  <2>1. 0 \in S
    <3> DEFINE g == [j \in 0..0 |-> a]
    <3>1. Upto(0, g)
      OBVIOUS
    <3> QED BY <3>1
  <2>2. ASSUME NEW n \in Nat, n \in S PROVE n + 1 \in S
    <3>1. PICK g : Upto(n, g)
      BY <2>2
    <3> DEFINE h == [j \in 0..(n + 1) |-> IF j = n + 1 THEN MergeNext(sources, g[n]) ELSE g[j]]
    <3>2. ASSUME NEW j \in 0..(n + 1) PROVE h[j] = IF j = 0 THEN a ELSE MergeNext(sources, h[j - 1])
      <4>1. CASE j = n + 1
        <5>1. j # 0 /\ j - 1 = n /\ n \in 0..(n + 1) /\ n # n + 1
          BY <4>1
        <5>2. h[n] = g[n] /\ h[j] = MergeNext(sources, g[n])
          BY <4>1, <5>1
        <5> QED BY <5>1, <5>2
      <4>2. CASE j # n + 1
        <5>1. j \in 0..n /\ h[j] = g[j]
          BY <4>2
        <5>2. CASE j = 0
          BY <3>1, <5>1, <5>2
        <5>3. CASE j # 0
          <6>1. j - 1 \in 0..(n + 1) /\ j - 1 # n + 1
            BY <5>1, <5>3
          <6>2. h[j - 1] = g[j - 1]
            BY <6>1
          <6> QED BY <3>1, <5>1, <5>3, <6>2
        <5> QED BY <5>2, <5>3
      <4> QED BY <4>1, <4>2
    <3>3. h = [j \in 0..(n + 1) |-> h[j]]
      OBVIOUS
    <3> HIDE DEF h
    <3>4. Upto(n + 1, h)
      BY <3>2, <3>3
    <3> QED BY <3>4
  <2>3. \A n \in Nat : n \in S
    <3> HIDE DEF S
    <3> QED BY <2>1, <2>2, Induction
  <2> HIDE DEF R
  <2> QED BY <1>1, <2>3
<1>3. PICK f : f = (CHOOSE g : Solves(g)) /\ Solves(f)
  <2> HIDE DEF Solves
  <2> QED BY <1>2, Zenon
<1>4. Merge(sources) = [list |-> f[R].list, fails |-> f[R].fails]
  <2>1. Merge(sources) = [list |-> (CHOOSE g : Solves(g))[R].list, fails |-> (CHOOSE g : Solves(g))[R].fails]
    BY Zenon DEF Merge
  <2> HIDE DEF Solves
  <2> QED BY <1>3, <2>1
<1> HIDE DEF R
<1> DEFINE S == {n \in Nat : n <= R => Done(f[n], n)}
<1>5. 0 \in S
  <2>1. f[0] = a
    BY <1>1, <1>3
  <2>2. Merging(sources, stack, a, {}) /\ Cardinality({}) >= 0
    BY MergeStartHolds, FS_EmptySet
  <2> HIDE DEF a
  <2> QED BY <2>1, <2>2
<1>6. ASSUME NEW n \in Nat, n \in S PROVE n + 1 \in S
  <2> SUFFICES ASSUME n + 1 <= R PROVE Done(f[n + 1], n + 1)
    OBVIOUS
  <2>1. n <= R /\ n + 1 \in 0..R /\ n + 1 # 0 /\ (n + 1) - 1 = n
    BY <1>1
  <2>2. f[n + 1] = MergeNext(sources, f[n])
    BY <1>3, <2>1
  <2>3. PICK D : Merging(sources, stack, f[n], D) /\ (f[n].fails \/ f[n].heap = {} \/ Cardinality(D) >= n)
    BY <1>6, <2>1
  <2> HIDE DEF Solves
  <2>4. CASE f[n].fails \/ f[n].heap = {}
    <3>1. f[n + 1] = f[n]
      BY <2>2, <2>4 DEF MergeNext
    <3> QED BY <2>3, <2>4, <3>1
  <2>5. CASE ~f[n].fails /\ f[n].heap # {}
    <3>1. PICK k \in KeysOf(sources) : k \notin D /\ Merging(sources, stack, MergeNext(sources, f[n]), D \cup {k})
      BY <2>3, <2>5, MergeNextHolds
    <3>2. D \subseteq KeysOf(sources)
      BY <2>3 DEF Merging
    <3>3. IsFiniteSet(D)
      BY <1>1, <3>2, FS_Subset
    <3>4. Cardinality(D \cup {k}) = Cardinality(D) + 1 /\ Cardinality(D) \in Nat
      BY <3>1, <3>3, FS_AddElement, FS_CardinalityType
    <3>5. Cardinality(D) >= n
      BY <2>3, <2>5
    <3>6. Cardinality(D \cup {k}) >= n + 1
      BY <3>4, <3>5
    <3> QED BY <2>2, <3>1, <3>6
  <2> QED BY <2>4, <2>5
<1>7. R \in S
  <2> HIDE DEF S
  <2> QED BY <1>1, <1>5, <1>6, Induction
<1> DEFINE m == f[R]
<1>8. PICK D : Merging(sources, stack, m, D) /\ (m.fails \/ m.heap = {} \/ Cardinality(D) >= R)
  BY <1>1, <1>7
<1> HIDE DEF m, S, Solves, Done
<1>9. m.fails \/ m.heap = {}
  <2> SUFFICES ASSUME ~m.fails, m.heap # {} PROVE FALSE
    OBVIOUS
  <2>1. PICK k \in KeysOf(sources) : k \notin D
    BY <1>8, MergeNextHolds
  <2>2. D \subseteq KeysOf(sources)
    BY <1>8 DEF Merging
  <2>3. IsFiniteSet(D) /\ Cardinality(D) <= R /\ (R = Cardinality(D) => KeysOf(sources) = D)
    BY <1>1, <2>2, FS_Subset DEF R
  <2>4. Cardinality(D) \in Nat
    BY <2>3, FS_CardinalityType
  <2>5. Cardinality(D) = R
    BY <1>1, <1>8, <2>3, <2>4
  <2> QED BY <2>1, <2>3, <2>5
<1>10. /\ m.list \in Seq(EntrySet(Live(stack))) /\ m.fails \in BOOLEAN /\ Rising(m.list)
       /\ (m.fails => \E i \in I : sources[i].fails)
       /\ \A j \in DOMAIN m.list : m.list[j].k \in D
       /\ \A k \in LiveKeys(stack) \cap D : Has(m.list, k)
       /\ \A k \in D : \A l \in K \ D : Less(k, l)
  BY <1>8 DEF Merging
<1>11. ASSUME ~m.fails, NEW i \in I
       PROVE  ~sources[i].fails /\ \A l \in DOMAIN stack[i] : l \in D
  <2>1. i \notin m.heap
    BY <1>9, <1>11
  <2>2. ~sources[i].fails
    BY <1>8, <1>11, <2>1 DEF Merging
  <2>3. \A l \in DOMAIN stack[i] : l \notin D => i \in m.heap
    BY <1>8, <1>11, Ahead
  <2> QED BY <2>1, <2>2, <2>3
<1>12. DOMAIN stack = I /\ DOMAIN Live(stack) = LiveKeys(stack) /\ LiveKeys(stack) \subseteq K
  BY DEF Matching, Live, LiveKeys
<1>13. ASSUME NEW k \in LiveKeys(stack)
       PROVE  Has(m.list, k) \/ (m.fails /\ \A j \in DOMAIN m.list : Less(m.list[j].k, k))
  <2>1. CASE k \in D
    BY <1>10, <2>1
  <2>2. CASE k \notin D
    <3>1. k \in K \ D
      BY <1>12, <2>2
    <3>2. PICK i \in I : k \in DOMAIN stack[i]
      BY <1>12, <3>1
    <3>3. m.fails
      BY <1>11, <2>2, <3>2
    <3> HIDE DEF K
    <3> QED BY <1>10, <3>1, <3>3
  <2> QED BY <2>1, <2>2
<1>14. Yields([list |-> m.list, fails |-> m.fails], Live(stack))
  BY <1>10, <1>12, <1>13 DEF Yields
<1>15. m.fails <=> \E i \in I : sources[i].fails
  BY <1>10, <1>11
<1> QED BY <1>4, <1>14, <1>15 DEF m

-----------------------------------------------------------------------------
(* Blocks one after the other *)

\* A concatenation, place by place.
LEMMA ConcatFacts ==
  ASSUME NEW S, NEW s \in Seq(S), NEW t \in Seq(S)
  PROVE  /\ s \o t \in Seq(S) /\ Len(s) \in Nat /\ Len(t) \in Nat /\ Len(s \o t) = Len(s) + Len(t)
         /\ DOMAIN s = 1..Len(s) /\ DOMAIN t = 1..Len(t) /\ DOMAIN (s \o t) = 1..Len(s) + Len(t)
         /\ \A i \in 1..Len(s) : (s \o t)[i] = s[i]
         /\ \A i \in 1..Len(t) : (s \o t)[Len(s) + i] = t[i]
  OBVIOUS

\* Elements of sequences of sequences, and of one sequence, related as their
\* places are; a sequence that holds those of the first n.
Related(B, R) ==
    \A i, j \in DOMAIN B : \A p \in DOMAIN B[i], q \in DOMAIN B[j] :
        i < j \/ (i = j /\ p < q) => <<B[i][p], B[j][q]>> \in R
Chained(s, R) == \A a, b \in DOMAIN s : a < b => <<s[a], s[b]>> \in R
FlatUpto(s, B, R, n) ==
    /\ Chained(s, R)
    /\ \A a \in DOMAIN s : \E i \in 1..n : \E p \in DOMAIN B[i] : s[a] = B[i][p]
    /\ \A i \in 1..n : \A p \in DOMAIN B[i] : \E a \in DOMAIN s : s[a] = B[i][p]

\* FlattenSeq puts the elements of the sequences one after another: those of
\* any two places are related as their places are.
LEMMA FlattenFacts ==
  ASSUME NEW S, NEW B \in Seq(Seq(S)), NEW R, Related(B, R)
  PROVE  FlattenSeq(B) \in Seq(S) /\ FlatUpto(FlattenSeq(B), B, R, Len(B))
<1> DEFINE N == Len(B)
           Solves(f) == f = [i \in 1..N |-> IF i = 1 THEN B[i] ELSE f[i - 1] \o B[i]]
           T == Seq(S)
<1>1. N \in Nat /\ DOMAIN B = 1..N /\ \A i \in 1..N : B[i] \in T
  <2> HIDE DEF T
  <2>1. B \in Seq(T)
    BY DEF T
  <2> QED BY <2>1
<1>2. CASE N = 0
  <2>1. B = <<>> /\ FlattenSeq(B) = <<>> /\ DOMAIN (<<>>) = {} /\ <<>> \in Seq(S) /\ 1..0 = {}
    BY <1>1, <1>2 DEF FlattenSeq
  <2> QED BY <1>2, <2>1 DEF FlatUpto, Chained
<1>3. CASE N # 0
  <2>1. \E f : Solves(f)
    <3> DEFINE Upto(n, g) == g = [i \in 1..n |-> IF i = 1 THEN B[i] ELSE g[i - 1] \o B[i]]
               U == {n \in Nat : \E g : Upto(n, g)}
    <3>1. 0 \in U
      <4>1. Upto(0, [i \in 1..0 |-> B[i]])
        OBVIOUS
      <4> QED BY <4>1
    <3>2. ASSUME NEW n \in Nat, n \in U PROVE n + 1 \in U
      <4>1. PICK g : Upto(n, g)
        BY <3>2
      <4> DEFINE last == IF n = 0 THEN B[1] ELSE g[n] \o B[n + 1]
                 h == [i \in 1..n + 1 |-> IF i = n + 1 THEN last ELSE g[i]]
      <4>2. ASSUME NEW i \in 1..n + 1 PROVE h[i] = IF i = 1 THEN B[i] ELSE h[i - 1] \o B[i]
        <5>1. CASE i = n + 1
          <6>1. h[i] = last
            BY <5>1
          <6>2. CASE n = 0
            BY <5>1, <6>1, <6>2
          <6>3. CASE n # 0
            <7>1. i # 1 /\ i - 1 = n /\ n \in 1..n + 1 /\ n # n + 1
              BY <5>1, <6>3
            <7>2. h[n] = g[n]
              BY <7>1
            <7> QED BY <5>1, <6>1, <6>3, <7>1, <7>2
          <6> QED BY <6>2, <6>3
        <5>2. CASE i # n + 1
          <6>1. i \in 1..n /\ h[i] = g[i]
            BY <5>2
          <6>2. CASE i = 1
            BY <4>1, <6>1, <6>2
          <6>3. CASE i # 1
            <7>1. i - 1 \in 1..n + 1 /\ i - 1 # n + 1
              BY <6>1, <6>3
            <7>2. h[i - 1] = g[i - 1]
              BY <7>1
            <7> QED BY <4>1, <6>1, <6>3, <7>2
          <6> QED BY <6>2, <6>3
        <5> QED BY <5>1, <5>2
      <4>3. h = [i \in 1..n + 1 |-> h[i]]
        OBVIOUS
      <4> HIDE DEF h
      <4>4. Upto(n + 1, h)
        BY <4>2, <4>3
      <4> HIDE DEF Upto
      <4>5. n + 1 \in Nat
        OBVIOUS
      <4> QED BY <4>4, <4>5
    <3>3. \A n \in Nat : n \in U
      <4> HIDE DEF U
      <4> QED BY <3>1, <3>2, Induction
    <3> HIDE DEF N
    <3> QED BY <1>1, <3>3
  <2>2. PICK f : f = (CHOOSE g : Solves(g)) /\ Solves(f)
    <3> HIDE DEF Solves
    <3> QED BY <2>1, Zenon
  <2>3. FlattenSeq(B) = f[N]
    <3>1. FlattenSeq(B) = (CHOOSE g : Solves(g))[N]
      BY <1>3, Zenon DEF FlattenSeq
    <3> HIDE DEF Solves
    <3> QED BY <2>2, <3>1
  <2> DEFINE Good(n) == f[n] \in T /\ FlatUpto(f[n], B, R, n)
             G == {n \in Nat : n + 1 <= N => Good(n + 1)}
  <2> HIDE DEF N
  <2>4. 0 \in G
    <3>0. 1 \in 1..N /\ 1..1 = {1}
      BY <1>1, <1>3
    <3>1. 1 \in 1..N /\ f[1] = B[1] /\ B[1] \in Seq(S) /\ 1 \in DOMAIN B /\ 1..1 = {1}
      BY <1>1, <2>2, <3>0
    <3>2. Chained(B[1], R)
      BY <3>1 DEF Chained, Related
    <3>3. FlatUpto(B[1], B, R, 1)
      BY <3>1, <3>2 DEF FlatUpto
    <3> QED BY <3>1, <3>3
  <2>5. ASSUME NEW n \in Nat, n \in G PROVE n + 1 \in G
    <3> SUFFICES ASSUME n + 2 <= N PROVE f[n + 2] \in T /\ FlatUpto(f[n + 2], B, R, n + 2)
      OBVIOUS
    <3> DEFINE s == f[n + 1]  t == B[n + 2]  u == s \o t  a == Len(s)  b == Len(t)
    <3>1. n + 2 \in 1..N /\ n + 2 # 1 /\ (n + 2) - 1 = n + 1 /\ n + 1 <= N /\ n + 1 \in 1..N
      BY <1>1
    <3>2. f[n + 2] = u
      BY <2>2, <3>1
    <3>3. s \in Seq(S) /\ t \in Seq(S) /\ FlatUpto(s, B, R, n + 1)
      BY <1>1, <2>5, <3>1
    <3> HIDE DEF s, t
    <3>4. /\ u \in Seq(S) /\ a \in Nat /\ b \in Nat /\ DOMAIN s = 1..a /\ DOMAIN t = 1..b /\ DOMAIN u = 1..a + b
          /\ (\A i \in 1..a : u[i] = s[i]) /\ \A i \in 1..b : u[a + i] = t[i]
      BY <3>3, ConcatFacts
    <3>5. \A i \in 1..n + 2 : i \in 1..n + 1 \/ i = n + 2
      OBVIOUS
    <3> HIDE DEF s, t, u, a, b, Solves
    <3>6. \A i \in 1..a + b : i \in 1..a \/ \E j \in 1..b : i = a + j
      <4> SUFFICES ASSUME NEW i \in 1..a + b, i \notin 1..a PROVE \E j \in 1..b : i = a + j
        OBVIOUS
      <4>1. i - a \in 1..b /\ i = a + (i - a)
        BY <3>4
      <4> QED BY <4>1
    <3>7. ASSUME NEW x \in 1..a + b, NEW y \in 1..a + b, x < y PROVE <<u[x], u[y]>> \in R
      <4>1. CASE y \in 1..a
        <5>1. x \in 1..a
          BY <3>4, <3>7, <4>1
        <5> QED BY <3>3, <3>4, <3>7, <4>1, <5>1 DEF FlatUpto, Chained
      <4>2. CASE y \notin 1..a
        <5>1. PICK q \in 1..b : y = a + q
          BY <3>6, <4>2
        <5>2. CASE x \in 1..a
          <6>1. PICK i \in 1..n + 1 : \E p \in DOMAIN B[i] : s[x] = B[i][p]
            BY <3>3, <3>4, <5>2 DEF FlatUpto
          <6>2. PICK p \in DOMAIN B[i] : s[x] = B[i][p]
            BY <6>1
          <6>3. i \in DOMAIN B /\ n + 2 \in DOMAIN B /\ i < n + 2 /\ q \in DOMAIN B[n + 2]
            BY <1>1, <3>1, <3>4 DEF t
          <6>4. <<B[i][p], B[n + 2][q]>> \in R
            BY <6>3 DEF Related
          <6> QED BY <3>4, <5>1, <5>2, <6>2, <6>4 DEF t
        <5>3. CASE x \notin 1..a
          <6>1. PICK p \in 1..b : x = a + p
            BY <3>6, <5>3
          <6>2. p < q /\ n + 2 \in DOMAIN B /\ p \in DOMAIN B[n + 2] /\ q \in DOMAIN B[n + 2]
            BY <1>1, <3>1, <3>4, <3>7, <5>1, <6>1 DEF t
          <6>3. <<B[n + 2][p], B[n + 2][q]>> \in R
            BY <6>2 DEF Related
          <6> QED BY <3>4, <5>1, <6>1, <6>3 DEF t
        <5> QED BY <5>2, <5>3
      <4> QED BY <4>1, <4>2
    <3>8. ASSUME NEW x \in 1..a + b PROVE \E i \in 1..n + 2 : \E p \in DOMAIN B[i] : u[x] = B[i][p]
      <4>1. CASE x \in 1..a
        <5>1. PICK i \in 1..n + 1 : \E p \in DOMAIN B[i] : s[x] = B[i][p]
          BY <3>3, <3>4, <4>1 DEF FlatUpto
        <5>2. i \in 1..n + 2
          OBVIOUS
        <5> QED BY <3>4, <4>1, <5>1, <5>2
      <4>2. CASE x \notin 1..a
        <5>1. PICK p \in 1..b : x = a + p
          BY <3>6, <4>2
        <5>2. n + 2 \in 1..n + 2 /\ p \in DOMAIN B[n + 2] /\ u[x] = B[n + 2][p]
          BY <3>4, <5>1 DEF t
        <5> QED BY <5>2
      <4> QED BY <4>1, <4>2
    <3>9. ASSUME NEW i \in 1..n + 2, NEW p \in DOMAIN B[i] PROVE \E x \in 1..a + b : u[x] = B[i][p]
      <4>1. CASE i \in 1..n + 1
        <5>1. PICK x \in 1..a : s[x] = B[i][p]
          BY <3>3, <3>4, <4>1 DEF FlatUpto
        <5>2. x \in 1..a + b /\ u[x] = s[x]
          BY <3>4
        <5> QED BY <5>1, <5>2
      <4>2. CASE i = n + 2
        <5>1. p \in 1..b /\ t[p] = B[i][p]
          BY <3>4, <4>2 DEF t
        <5>2. a + p \in 1..a + b /\ u[a + p] = t[p]
          BY <3>4, <5>1
        <5> QED BY <5>1, <5>2
      <4> QED BY <3>5, <4>1, <4>2
    <3>10. FlatUpto(u, B, R, n + 2)
      BY <3>4, <3>7, <3>8, <3>9 DEF FlatUpto, Chained
    <3> QED BY <3>2, <3>4, <3>10
  <2>6. \A n \in Nat : n \in G
    <3> HIDE DEF G
    <3> QED BY <2>4, <2>5, Induction
  <2>7. N - 1 \in Nat /\ (N - 1) + 1 = N
    BY <1>1, <1>3
  <2>8. N - 1 \in G
    BY <2>6, <2>7
  <2>9. Good(N)
    BY <1>1, <2>7, <2>8
  <2> QED BY <2>3, <2>9 DEF N
<1> QED BY <1>2, <1>3

\* A table read from end to end: its entries in order, each once.
LEMMA TableFlat ==
  ASSUME NEW sst, IsTable(sst)
  PROVE  /\ FlattenSeq(sst.blocks) \in Seq(EntriesIn(sst)) /\ Rising(FlattenSeq(sst.blocks))
         /\ \A x \in EntriesIn(sst) : \E a \in DOMAIN FlattenSeq(sst.blocks) : FlattenSeq(sst.blocks)[a] = x
<1> DEFINE B == sst.blocks
           E == EntriesIn(sst)
           R == {y \in E \X E : Less(y[1].k, y[2].k)}
           s == FlattenSeq(B)
<1>1. B \in Seq(Seq(E) \ {<<>>})
  BY DEF IsTable
<1>2. /\ DOMAIN B = 1..Len(B) /\ Len(B) \in Nat
      /\ \A i \in DOMAIN B : \A p \in DOMAIN B[i] : B[i][p] \in E
      /\ \A x \in E : \E i \in DOMAIN B : \E p \in DOMAIN B[i] : x = B[i][p]
  BY TableEntries
<1>3. B \in Seq(Seq(E))
  <2> DEFINE T == Seq(E)
  <2> HIDE DEF E
  <2>1. \A i \in 1..Len(B) : B[i] \in T
    BY <1>1
  <2>2. B \in [1..Len(B) -> T] /\ Len(B) \in Nat
    BY <1>1, <2>1
  <2> HIDE DEF T, B
  <2>3. B \in Seq(T)
    BY <2>2
  <2> QED BY <2>3 DEF T
<1>4. Related(B, R)
  <2> SUFFICES ASSUME NEW i \in DOMAIN B, NEW j \in DOMAIN B, NEW p \in DOMAIN B[i], NEW q \in DOMAIN B[j],
                      i < j \/ (i = j /\ p < q)
               PROVE  <<B[i][p], B[j][q]>> \in R
    BY DEF Related
  <2>1. Less(B[i][p].k, B[j][q].k)
    BY DEF IsTable
  <2>2. B[i][p] \in E /\ B[j][q] \in E
    BY <1>2
  <2> HIDE DEF E, B
  <2> QED BY <2>1, <2>2
<1>5. s \in Seq(E) /\ FlatUpto(s, B, R, Len(B))
  <2> HIDE DEF E, B, R, s
  <2> QED BY <1>3, <1>4, FlattenFacts DEF s
<1>6. Rising(s)
  <2> SUFFICES ASSUME NEW a \in DOMAIN s, NEW b \in DOMAIN s, a < b PROVE Less(s[a].k, s[b].k)
    BY DEF Rising
  <2>1. <<s[a], s[b]>> \in R
    BY <1>5 DEF FlatUpto, Chained
  <2> HIDE DEF s, E
  <2> QED BY <2>1
<1>7. ASSUME NEW x \in E PROVE \E a \in DOMAIN s : s[a] = x
  <2>1. PICK i \in DOMAIN B : \E p \in DOMAIN B[i] : x = B[i][p]
    BY <1>2
  <2> HIDE DEF s, E, B
  <2> QED BY <1>2, <1>5, <2>1 DEF FlatUpto
<1> QED BY <1>5, <1>6, <1>7

\* A table as a layer: each key leads to its one entry.
LEMMA LayerOfFacts ==
  ASSUME NEW sst, IsTable(sst)
  PROVE  /\ IsLayer(LayerOf(sst)) /\ EntrySet(LayerOf(sst)) = EntriesIn(sst)
         /\ \A x \in EntriesIn(sst) : x = [k |-> x.k, e |-> x.e] /\ x.k \in DOMAIN LayerOf(sst) /\ LayerOf(sst)[x.k] = x.e
         /\ Len(FlattenSeq(sst.blocks)) = Cardinality(DOMAIN LayerOf(sst))
<1> DEFINE E == EntriesIn(sst)
           K == {x.k : x \in E}
           layer == LayerOf(sst)
           s == FlattenSeq(sst.blocks)
           N == Len(s)
           t == [a \in 1..N |-> s[a].k]
<1>1. \A x \in E : x = [k |-> x.k, e |-> x.e] /\ x.k \in Bytes
  BY DEF IsTable
<1>2. s \in Seq(E) /\ Rising(s) /\ \A x \in E : \E a \in DOMAIN s : s[a] = x
  BY TableFlat
<1>3. layer = [k \in K |-> (CHOOSE x \in E : x.k = k).e]
  BY DEF LayerOf
<1> HIDE DEF E, s, layer
<1>4. N \in Nat /\ DOMAIN s = 1..N /\ \A a \in 1..N : s[a] \in E
  BY <1>2
<1> HIDE DEF N
<1>5. ASSUME NEW x \in E, NEW y \in E, x.k = y.k PROVE x = y
  <2>1. PICK a \in 1..N : s[a] = x
    BY <1>2, <1>4
  <2>2. PICK b \in 1..N : s[b] = y
    BY <1>2, <1>4
  <2>3. ~Less(x.k, y.k) /\ ~Less(y.k, x.k)
    BY <1>1, <1>5, LessTotal
  <2>4. ~(a < b) /\ ~(b < a)
    BY <1>2, <1>4, <2>1, <2>2, <2>3 DEF Rising
  <2>5. a = b
    BY <1>4, <2>4
  <2> QED BY <2>1, <2>2, <2>5
<1>6. ASSUME NEW x \in E PROVE x.k \in K /\ layer[x.k] = x.e
  <2>1. x.k \in K
    OBVIOUS
  <2>2. layer[x.k] = (CHOOSE y \in E : y.k = x.k).e
    BY <1>3, <2>1
  <2>3. (CHOOSE y \in E : y.k = x.k) = x
    BY <1>5
  <2> QED BY <2>1, <2>2, <2>3
<1>7. DOMAIN layer = K
  BY <1>3
<1>8. t \in Seq(Bytes) /\ Len(t) = N /\ DOMAIN t = 1..N
  <2>1. t \in [1..N -> Bytes]
    BY <1>1, <1>4
  <2> HIDE DEF t
  <2> QED BY <1>4, <2>1
<1>9. Climbs(t)
  BY <1>2, <1>4, <1>8 DEF Climbs, Rising
<1>10. K = {t[j] : j \in 1..N}
  BY <1>2, <1>4, <1>8
<1> HIDE DEF t
<1>11. IsFiniteSet(K) /\ Cardinality(K) = N
  <2>1. IsFiniteSet({t[j] : j \in 1..N}) /\ Cardinality({t[j] : j \in 1..N}) = N
    <3>1. N \in Nat /\ N <= Len(t) /\ t \in Seq(Bytes) /\ Climbs(t)
      BY <1>4, <1>8, <1>9
    <3> HIDE DEF K
    <3> QED BY <3>1, ClimbsCardinality, Zenon
  <2> QED BY <1>10, <2>1
<1>12. IsLayer(layer)
  BY <1>1, <1>7, <1>11 DEF IsLayer
<1>13. EntrySet(layer) = E
  <2>1. ASSUME NEW y \in EntrySet(layer) PROVE y \in E
    <3>1. PICK k \in K : y = [k |-> k, e |-> layer[k]]
      BY <1>7 DEF EntrySet
    <3>2. PICK x \in E : x.k = k
      OBVIOUS
    <3> QED BY <1>1, <1>6, <3>1, <3>2
  <2>2. ASSUME NEW x \in E PROVE x \in EntrySet(layer)
    <3>1. x = [k |-> x.k, e |-> layer[x.k]] /\ x.k \in DOMAIN layer
      BY <1>1, <1>6, <1>7
    <3> QED BY <3>1 DEF EntrySet
  <2> QED BY <2>1, <2>2
<1> HIDE DEF K
<1> QED BY <1>1, <1>6, <1>7, <1>11, <1>12, <1>13 DEF E, layer, s, N

-----------------------------------------------------------------------------
(* Walking a table *)

\* What a cursor goes through: entries with the mark of a block that is lost.
Items(E) == [x : E, lost : BOOLEAN]
Mounting(items) == \A a, b \in DOMAIN items : a < b => Less(items[a].x.k, items[b].x.k)

\* The items from a block on: the entries of that block and of those after it,
\* in order.
LEMMA BlockItemsFacts ==
  ASSUME NEW sst, IsTable(sst), NEW from \in Nat
  PROVE  /\ BlockItems(sst, from) \in Seq(Items(EntriesIn(sst))) /\ Mounting(BlockItems(sst, from))
         /\ \A a \in DOMAIN BlockItems(sst, from) : BlockItems(sst, from)[a].lost => sst.bad # {}
         /\ \A i \in DOMAIN sst.blocks : i >= from => \A p \in DOMAIN sst.blocks[i] :
               \E a \in DOMAIN BlockItems(sst, from) :
                   BlockItems(sst, from)[a].x = sst.blocks[i][p] /\ (BlockItems(sst, from)[a].lost <=> i \in sst.bad)
<1> DEFINE C == sst.blocks
           E == EntriesIn(sst)
           S == Items(E)
           B == [i \in DOMAIN C |-> IF i < from THEN <<>> ELSE [p \in DOMAIN C[i] |-> [x |-> C[i][p], lost |-> i \in sst.bad]]]
           R == {y \in S \X S : Less(y[1].x.k, y[2].x.k)}
           s == BlockItems(sst, from)
<1>1. s = FlattenSeq(B)
  BY DEF BlockItems
<1>2. /\ DOMAIN C = 1..Len(C) /\ Len(C) \in Nat
      /\ \A i \in DOMAIN C : Len(C[i]) \in Nat /\ DOMAIN C[i] = 1..Len(C[i]) /\ \A p \in DOMAIN C[i] : C[i][p] \in E
  BY TableEntries
<1>3. \A i, j \in DOMAIN C : \A p \in DOMAIN C[i], q \in DOMAIN C[j] :
           i < j \/ (i = j /\ p < q) => Less(C[i][p].k, C[j][q].k)
  BY DEF IsTable
<1> HIDE DEF C, E, s
<1>4. ASSUME NEW i \in DOMAIN C
      PROVE  /\ i \in DOMAIN B /\ B[i] \in Seq(S)
             /\ \A p \in DOMAIN B[i] : ~(i < from) /\ p \in DOMAIN C[i] /\ B[i][p] = [x |-> C[i][p], lost |-> i \in sst.bad]
             /\ ~(i < from) => DOMAIN B[i] = DOMAIN C[i]
  <2>1. CASE i < from
    <3>1. B[i] = <<>> /\ DOMAIN (<<>>) = {}
      BY <2>1
    <3>2. <<>> \in Seq(S)
      OBVIOUS
    <3> QED BY <2>1, <3>1, <3>2
  <2>2. CASE ~(i < from)
    <3> DEFINE b == [p \in DOMAIN C[i] |-> [x |-> C[i][p], lost |-> i \in sst.bad]]
    <3>1. B[i] = b /\ i \in DOMAIN B
      BY <2>2
    <3>2. \A p \in DOMAIN C[i] : [x |-> C[i][p], lost |-> i \in sst.bad] \in S
      BY <1>2 DEF Items
    <3> HIDE DEF S
    <3>3. b \in [1..Len(C[i]) -> S] /\ Len(C[i]) \in Nat
      BY <1>2, <3>2
    <3>4. b \in Seq(S)
      <4> HIDE DEF b
      <4> QED BY <3>3
    <3> HIDE DEF B
    <3> QED BY <2>2, <3>1, <3>4
  <2> QED BY <2>1, <2>2
<1>5. DOMAIN B = DOMAIN C
  OBVIOUS
<1>6. B \in Seq(Seq(S)) /\ Len(B) = Len(C)
  <2> DEFINE T == Seq(S)
  <2> HIDE DEF S
  <2>1. B = [i \in 1..Len(C) |-> B[i]] /\ \A i \in 1..Len(C) : B[i] \in T
    BY <1>2, <1>4
  <2> HIDE DEF B, T
  <2>2. B \in [1..Len(C) -> T]
    BY <2>1
  <2>3. B \in Seq(T) /\ Len(B) = Len(C)
    BY <1>2, <2>2
  <2> QED BY <2>3 DEF T
<1> HIDE DEF B
<1>7. \A i \in DOMAIN C : \A p \in DOMAIN B[i] : B[i][p].x = C[i][p] /\ B[i][p] \in S /\ (B[i][p].lost <=> i \in sst.bad)
  <2> SUFFICES ASSUME NEW i \in DOMAIN C, NEW p \in DOMAIN B[i]
               PROVE  B[i][p].x = C[i][p] /\ B[i][p] \in S /\ (B[i][p].lost <=> i \in sst.bad)
    OBVIOUS
  <2>1. B[i][p] = [x |-> C[i][p], lost |-> i \in sst.bad] /\ p \in DOMAIN C[i]
    BY <1>4
  <2> DEFINE y == C[i][p]  b == i \in sst.bad
  <2>2. y \in E /\ b \in BOOLEAN
    BY <1>2, <2>1
  <2>3. B[i][p] = [x |-> y, lost |-> b]
    BY <2>1
  <2> HIDE DEF y, b
  <2>4. B[i][p].x = y /\ B[i][p] \in S /\ B[i][p].lost = b
    BY <2>2, <2>3 DEF Items
  <2> QED BY <2>4 DEF y, b
<1>8. Related(B, R)
  <2> SUFFICES ASSUME NEW i \in DOMAIN C, NEW j \in DOMAIN C, NEW p \in DOMAIN B[i], NEW q \in DOMAIN B[j],
                      i < j \/ (i = j /\ p < q)
               PROVE  <<B[i][p], B[j][q]>> \in R
    BY <1>5 DEF Related
  <2>1. p \in DOMAIN C[i] /\ q \in DOMAIN C[j]
    BY <1>4
  <2>2. Less(C[i][p].k, C[j][q].k)
    BY <1>3, <2>1
  <2> HIDE DEF S
  <2>3. B[i][p] \in S /\ B[j][q] \in S /\ Less(B[i][p].x.k, B[j][q].x.k)
    BY <1>7, <2>2
  <2> QED BY <2>3
<1>9. s \in Seq(S) /\ FlatUpto(s, B, R, Len(B))
  <2> HIDE DEF S, R
  <2> QED BY <1>1, <1>6, <1>8, FlattenFacts
<1>10. Mounting(s)
  <2> SUFFICES ASSUME NEW a \in DOMAIN s, NEW b \in DOMAIN s, a < b PROVE Less(s[a].x.k, s[b].x.k)
    BY DEF Mounting
  <2>1. <<s[a], s[b]>> \in R
    BY <1>9 DEF FlatUpto, Chained
  <2> HIDE DEF S
  <2> QED BY <2>1
<1>11. ASSUME NEW a \in DOMAIN s, s[a].lost PROVE sst.bad # {}
  <2>1. PICK i \in 1..Len(B) : \E p \in DOMAIN B[i] : s[a] = B[i][p]
    BY <1>9 DEF FlatUpto
  <2>2. i \in DOMAIN C /\ i \in sst.bad
    BY <1>2, <1>6, <1>7, <1>11, <2>1
  <2> QED BY <2>2
<1>12. ASSUME NEW i \in DOMAIN C, i >= from, NEW p \in DOMAIN C[i]
       PROVE  \E a \in DOMAIN s : s[a].x = C[i][p] /\ (s[a].lost <=> i \in sst.bad)
  <2>0. i \in 1..Len(B) /\ ~(i < from)
    BY <1>2, <1>6, <1>12
  <2>1. i \in 1..Len(B) /\ p \in DOMAIN B[i]
    BY <1>4, <2>0
  <2>2. PICK a \in DOMAIN s : s[a] = B[i][p]
    BY <1>9, <2>1 DEF FlatUpto
  <2> QED BY <1>7, <2>1, <2>2
<1> QED BY <1>9, <1>10, <1>11, <1>12 DEF s, C, E

\* A cursor after n items: it took, in order, those before its place that lie
\* within the bounds; its place is the next item, or where it stopped for a
\* lost item or for one past the end.
WalkedTo(w, items, n, lo, hi, m) ==
    /\ \A a \in 1..m - 1 : /\ ~items[a].lost
                           /\ Above(lo, items[a].x.k) /\ Below(hi, items[a].x.k) => Has(w.list, items[a].x.k)
    /\ \A j \in DOMAIN w.list : \E a \in 1..m - 1 :
           w.list[j] = items[a].x /\ Above(lo, items[a].x.k) /\ Below(hi, items[a].x.k)
    /\ ~w.done => m = n + 1 /\ ~w.fails
    /\ w.done => m <= n /\ (w.fails => items[m].lost) /\ (~w.fails => ~Below(hi, items[m].x.k))
Walked(w, E, items, n, lo, hi) ==
    /\ w \in [list : Seq(E), fails : BOOLEAN, done : BOOLEAN] /\ Rising(w.list)
    /\ \E m \in 1..n + 1 : WalkedTo(w, items, n, lo, hi, m)

\* One item more (SstCursor::next).
LEMMA TakeWalks ==
  ASSUME NEW E, NEW items \in Seq(Items(E)), Mounting(items), NEW n \in Nat, n < Len(items), NEW lo, NEW hi,
         NEW w, Walked(w, E, items, n, lo, hi)
  PROVE  Walked(Take(w, items[n + 1], lo, hi), E, items, n + 1, lo, hi)
<1> DEFINE S == Items(E)
           item == items[n + 1]
           k == item.x.k
           v == Take(w, item, lo, hi)
           W == [list : Seq(E), fails : BOOLEAN, done : BOOLEAN]
<1>1. PICK m \in 1..n + 1 : WalkedTo(w, items, n, lo, hi, m)
  BY DEF Walked
<1>2. w \in W /\ Rising(w.list)
  BY DEF Walked
<1>3. items \in Seq(S)
  OBVIOUS
<1>4. n + 1 \in DOMAIN items /\ DOMAIN items = 1..Len(items) /\ Len(items) \in Nat /\ item \in S
  <2> HIDE DEF S
  <2> QED BY <1>3
<1>5. item.x \in E /\ item.lost \in BOOLEAN
  BY <1>4 DEF Items
<1>6. m \in Nat /\ m \in 1..(n + 1) + 1 /\ n + 1 \in Nat
  OBVIOUS
<1> DEFINE Q == Seq(E)
<1>7. w \in [list : Q, fails : BOOLEAN, done : BOOLEAN] /\ w.list \in Q /\ w.fails \in BOOLEAN /\ w.done \in BOOLEAN
  <2> HIDE DEF Q
  <2>1. w \in [list : Q, fails : BOOLEAN, done : BOOLEAN]
    BY <1>2 DEF Q
  <2> QED BY <2>1
<1> HIDE DEF S, item
<1>8. CASE w.done
  <2>1. v = w
    BY <1>8 DEF Take
  <2>2. WalkedTo(w, items, n + 1, lo, hi, m)
    BY <1>1, <1>6, <1>8 DEF WalkedTo
  <2> QED BY <1>2, <1>6, <2>1, <2>2 DEF Walked, item
<1>9. CASE ~w.done /\ item.lost
  <2> HIDE DEF Q
  <2>1. v = [w EXCEPT !.done = TRUE, !.fails = TRUE]
    BY <1>9 DEF Take
  <2> HIDE DEF v
  <2>2. v \in [list : Q, fails : BOOLEAN, done : BOOLEAN] /\ v.list = w.list /\ v.done /\ v.fails
    BY <1>7, <2>1
  <2>3. m = n + 1 /\ items[m].lost
    BY <1>1, <1>9 DEF WalkedTo, item
  <2>4. WalkedTo(v, items, n + 1, lo, hi, m)
    BY <1>1, <1>6, <2>2, <2>3 DEF WalkedTo
  <2> QED BY <1>2, <1>6, <2>2, <2>4 DEF Walked, item, v, Q
<1>10. CASE ~w.done /\ ~item.lost /\ ~Above(lo, k)
  <2>1. v = w
    BY <1>10 DEF Take
  <2>2. m = n + 1
    BY <1>1, <1>10 DEF WalkedTo
  <2>3. \A a \in 1..n + 1 : a \in 1..n \/ a = n + 1
    OBVIOUS
  <2>4. n + 2 \in 1..(n + 1) + 1 /\ (n + 2) - 1 = n + 1 /\ n + 2 = (n + 1) + 1 /\ (n + 1) - 1 = n /\ \A a \in 1..n : a \in 1..n + 1
    OBVIOUS
  <2>5. WalkedTo(w, items, n + 1, lo, hi, n + 2)
    BY <1>1, <1>10, <2>2, <2>3, <2>4 DEF WalkedTo, item
  <2> QED BY <1>2, <2>1, <2>4, <2>5 DEF Walked, item
<1>11. CASE ~w.done /\ ~item.lost /\ Above(lo, k) /\ ~Below(hi, k)
  <2> HIDE DEF Q
  <2>1. v = [w EXCEPT !.done = TRUE]
    BY <1>11 DEF Take
  <2> HIDE DEF v
  <2>2. v \in [list : Q, fails : BOOLEAN, done : BOOLEAN] /\ v.list = w.list /\ v.done /\ v.fails = w.fails
    BY <1>7, <2>1
  <2>3. m = n + 1 /\ ~w.fails /\ ~Below(hi, items[m].x.k)
    BY <1>1, <1>11 DEF WalkedTo, item
  <2>4. WalkedTo(v, items, n + 1, lo, hi, m)
    BY <1>1, <1>6, <2>2, <2>3 DEF WalkedTo
  <2> QED BY <1>2, <1>6, <2>2, <2>4 DEF Walked, item, v, Q
<1>12. CASE ~w.done /\ ~item.lost /\ Above(lo, k) /\ Below(hi, k)
  <2> DEFINE u == Append(w.list, item.x)  N == Len(w.list)
  <2>1. v = [w EXCEPT !.list = u]
    BY <1>12 DEF Take
  <2>2. /\ u \in Seq(E) /\ N \in Nat /\ DOMAIN w.list = 1..N /\ DOMAIN u = 1..N + 1
        /\ (\A j \in 1..N : u[j] = w.list[j]) /\ u[N + 1] = item.x
    BY <1>5, <1>7, AppendFacts
  <2> HIDE DEF v, u, Q, N
  <2>3. v \in [list : Q, fails : BOOLEAN, done : BOOLEAN] /\ v.list = u /\ ~v.done /\ v.fails = w.fails
    BY <1>7, <1>12, <2>1, <2>2 DEF Q
  <2>4. m = n + 1 /\ ~w.fails
    BY <1>1, <1>12 DEF WalkedTo
  <2>5. \A a \in 1..n + 1 : a \in 1..n \/ a = n + 1
    OBVIOUS
  <2>6. n + 2 \in 1..(n + 1) + 1 /\ (n + 2) - 1 = n + 1 /\ n + 2 = (n + 1) + 1 /\ (n + 1) - 1 = n /\ \A a \in 1..n : a \in 1..n + 1
    OBVIOUS
  <2>7. \A i \in 1..N + 1 : i \in 1..N \/ i = N + 1
    BY <2>2
  <2>8. ASSUME NEW j \in 1..N
        PROVE  \E a \in 1..n : u[j] = items[a].x /\ Above(lo, items[a].x.k) /\ Below(hi, items[a].x.k)
    <3>1. j \in DOMAIN w.list /\ u[j] = w.list[j]
      BY <2>2
    <3>2. m - 1 = n
      BY <2>4, <2>6
    <3>3. \E a \in 1..m - 1 : w.list[j] = items[a].x /\ Above(lo, items[a].x.k) /\ Below(hi, items[a].x.k)
      BY <1>1, <3>1, Zenon DEF WalkedTo
    <3> QED BY <3>1, <3>2, <3>3
  <2>9. Rising(u)
    <3> SUFFICES ASSUME NEW i \in 1..N + 1, NEW j \in 1..N + 1, i < j PROVE Less(u[i].k, u[j].k)
      BY <2>2 DEF Rising
    <3>1. i \in 1..N
      BY <2>2
    <3>2. CASE j = N + 1
      <4>1. PICK a \in 1..n : u[i] = items[a].x
        BY <2>8, <3>1
      <4>2. a \in DOMAIN items /\ a < n + 1
        BY <1>4
      <4>3. Less(items[a].x.k, items[n + 1].x.k)
        BY <1>4, <4>2 DEF Mounting
      <4> QED BY <2>2, <3>2, <4>1, <4>3 DEF item
    <3>3. CASE j \in 1..N
      BY <1>2, <2>2, <3>1, <3>3 DEF Rising
    <3> QED BY <2>7, <3>2, <3>3
  <2>10. ASSUME NEW a \in 1..n + 1
         PROVE  ~items[a].lost /\ (Above(lo, items[a].x.k) /\ Below(hi, items[a].x.k) => Has(u, items[a].x.k))
    <3>1. CASE a = n + 1
      <4>1. items[a].x = u[N + 1] /\ ~items[a].lost /\ N + 1 \in DOMAIN u
        BY <1>12, <2>2, <3>1 DEF item
      <4> QED BY <4>1 DEF Has
    <3>2. CASE a \in 1..n
      <4>1. ~items[a].lost /\ (Above(lo, items[a].x.k) /\ Below(hi, items[a].x.k) => Has(w.list, items[a].x.k))
        BY <1>1, <2>4, <2>6, <3>2 DEF WalkedTo
      <4>2. \A z : Has(w.list, z) => Has(u, z)
        <5> SUFFICES ASSUME NEW z, NEW j \in 1..N, w.list[j].k = z PROVE \E i \in 1..N + 1 : u[i].k = z
          BY <2>2 DEF Has
        <5>1. j \in 1..N + 1 /\ u[j] = w.list[j]
          BY <2>2
        <5> QED BY <5>1
      <4> QED BY <4>1, <4>2
    <3> QED BY <2>5, <3>1, <3>2
  <2>11. ASSUME NEW j \in 1..N + 1
         PROVE  \E a \in 1..n + 1 : u[j] = items[a].x /\ Above(lo, items[a].x.k) /\ Below(hi, items[a].x.k)
    <3>1. CASE j = N + 1
      <4>1. n + 1 \in 1..n + 1
        OBVIOUS
      <4> QED BY <1>12, <2>2, <3>1, <4>1 DEF item
    <3>2. CASE j \in 1..N
      BY <2>6, <2>8, <3>2
    <3> QED BY <2>7, <3>1, <3>2
  <2>12. WalkedTo(v, items, n + 1, lo, hi, n + 2)
    BY <2>2, <2>3, <2>4, <2>6, <2>10, <2>11 DEF WalkedTo
  <2> QED BY <2>3, <2>6, <2>9, <2>12 DEF Walked, item, v, Q
<1> HIDE DEF k
<1> QED BY <1>5, <1>7, <1>8, <1>9, <1>10, <1>11, <1>12 DEF k

\* Bounds as scans are given them.
IsBound(b) == b \in [side : {"unbounded", "included", "excluded"}, v : Bytes]

\* What follows a key past the end is past the end, and a key that precedes the
\* start's lies before the start.
LEMMA BoundFacts ==
  ASSUME NEW b, IsBound(b), NEW j \in Bytes, NEW k \in Bytes
  PROVE  /\ Less(j, k) /\ Below(b, k) => Below(b, j)
         /\ b.side # "unbounded" /\ Above(b, k) => ~Less(k, b.v)
         /\ b.side # "unbounded" /\ Below(b, k) => ~Less(b.v, k)
<1>1. b.side \in {"unbounded", "included", "excluded"} /\ b.v \in Bytes
  BY DEF IsBound
<1>2. ~(Less(b.v, k) /\ Less(k, b.v))
  BY <1>1, LessTotal
<1>3. /\ b.side # "unbounded" /\ Above(b, k) => ~Less(k, b.v)
      /\ b.side # "unbounded" /\ Below(b, k) => ~Less(b.v, k)
  BY <1>1, <1>2 DEF Above, Below
<1>4. ASSUME Less(j, k), Below(b, k) PROVE Below(b, j)
  <2>1. CASE b.side = "unbounded"
    BY <2>1 DEF Below
  <2>2. CASE b.side = "included"
    <3>1. ~Less(b.v, k)
      BY <1>4, <2>2 DEF Below
    <3>2. ~Less(b.v, j)
      BY <1>1, <1>4, <3>1, LessTransitive
    <3> QED BY <2>2, <3>2 DEF Below
  <2>3. CASE b.side = "excluded"
    <3>1. Less(k, b.v)
      BY <1>4, <2>3 DEF Below
    <3>2. Less(j, b.v)
      BY <1>1, <1>4, <3>1, LessTransitive
    <3> QED BY <2>3, <3>2 DEF Below
  <2> QED BY <1>1, <2>1, <2>2, <2>3
<1> QED BY <1>3, <1>4

\* The recursion of a cursor has a solution, and the cursor walks along it.
LEMMA CursorWalks ==
  ASSUME NEW sst, IsTable(sst), NEW from \in Nat, NEW lo, NEW hi
  PROVE  \E w : /\ Walked(w, EntriesIn(sst), BlockItems(sst, from), Len(BlockItems(sst, from)), lo, hi)
                /\ CursorFrom(sst, from, lo, hi) = [list |-> w.list, fails |-> w.fails]
<1> DEFINE items == BlockItems(sst, from)
           E == EntriesIn(sst)
           N == Len(items)
           a == [list |-> <<>>, fails |-> FALSE, done |-> FALSE]
           Solves(f) == f = [n \in 0..N |-> IF n = 0 THEN a ELSE Take(f[n - 1], items[n], lo, hi)]
<1>1. items \in Seq(Items(E)) /\ Mounting(items)
  BY BlockItemsFacts
<1>2. N \in Nat
  BY <1>1
<1>3. \E f : Solves(f)
  <2> DEFINE Upto(n, g) == g = [j \in 0..n |-> IF j = 0 THEN a ELSE Take(g[j - 1], items[j], lo, hi)]
             S == {n \in Nat : \E g : Upto(n, g)}
  <2> HIDE DEF a, items
  <2>1. 0 \in S
    <3> DEFINE g == [j \in 0..0 |-> a]
    <3>1. Upto(0, g)
      OBVIOUS
    <3> QED BY <3>1
  <2>2. ASSUME NEW n \in Nat, n \in S PROVE n + 1 \in S
    <3>1. PICK g : Upto(n, g)
      BY <2>2
    <3> DEFINE h == [j \in 0..(n + 1) |-> IF j = n + 1 THEN Take(g[n], items[n + 1], lo, hi) ELSE g[j]]
    <3>2. ASSUME NEW j \in 0..(n + 1) PROVE h[j] = IF j = 0 THEN a ELSE Take(h[j - 1], items[j], lo, hi)
      <4>1. CASE j = n + 1
        <5>1. j # 0 /\ j - 1 = n /\ n \in 0..(n + 1) /\ n # n + 1
          BY <4>1
        <5>2. h[n] = g[n] /\ h[j] = Take(g[n], items[n + 1], lo, hi)
          BY <4>1, <5>1
        <5> QED BY <4>1, <5>1, <5>2
      <4>2. CASE j # n + 1
        <5>1. j \in 0..n /\ h[j] = g[j]
          BY <4>2
        <5>2. CASE j = 0
          BY <3>1, <5>1, <5>2
        <5>3. CASE j # 0
          <6>1. j - 1 \in 0..(n + 1) /\ j - 1 # n + 1
            BY <5>1, <5>3
          <6>2. h[j - 1] = g[j - 1]
            BY <6>1
          <6> QED BY <3>1, <5>1, <5>3, <6>2
        <5> QED BY <5>2, <5>3
      <4> QED BY <4>1, <4>2
    <3>3. h = [j \in 0..(n + 1) |-> h[j]]
      OBVIOUS
    <3> HIDE DEF h
    <3>4. Upto(n + 1, h)
      BY <3>2, <3>3
    <3> QED BY <3>4
  <2>3. \A n \in Nat : n \in S
    <3> HIDE DEF S
    <3> QED BY <2>1, <2>2, Induction
  <2> HIDE DEF N
  <2> QED BY <1>2, <2>3
<1>4. PICK f : f = (CHOOSE g : Solves(g)) /\ Solves(f)
  <2> HIDE DEF Solves
  <2> QED BY <1>3, Zenon
<1>5. CursorFrom(sst, from, lo, hi) = [list |-> f[N].list, fails |-> f[N].fails]
  <2>1. CursorFrom(sst, from, lo, hi) = [list |-> (CHOOSE g : Solves(g))[N].list, fails |-> (CHOOSE g : Solves(g))[N].fails]
    BY Zenon DEF CursorFrom
  <2> HIDE DEF Solves
  <2> QED BY <1>4, <2>1
<1> HIDE DEF N, items, E
<1> DEFINE S == {n \in Nat : n <= N => Walked(f[n], E, items, n, lo, hi)}
<1>6. 0 \in S
  <2>1. f[0] = a
    <3> HIDE DEF a
    <3>1. 0 \in 0..N
      BY <1>2
    <3> QED BY <1>4, <3>1
  <2>2. a \in [list : Seq(E), fails : BOOLEAN, done : BOOLEAN] /\ a.list = <<>> /\ ~a.fails /\ ~a.done
    <3> DEFINE Q == Seq(E)
    <3>1. <<>> \in Q
      OBVIOUS
    <3> HIDE DEF Q
    <3>2. a \in [list : Q, fails : BOOLEAN, done : BOOLEAN] /\ a.list = <<>> /\ ~a.fails /\ ~a.done
      BY <3>1
    <3> QED BY <3>2 DEF Q
  <2> HIDE DEF a
  <2>3. DOMAIN a.list = {} /\ Rising(a.list)
    BY <2>2 DEF Rising
  <2>4. 1..1 - 1 = {} /\ 1 = 0 + 1 /\ 1 \in 1..0 + 1
    OBVIOUS
  <2>5. WalkedTo(a, items, 0, lo, hi, 1)
    BY <2>2, <2>3, <2>4 DEF WalkedTo
  <2>6. Walked(a, E, items, 0, lo, hi)
    BY <2>2, <2>3, <2>4, <2>5 DEF Walked
  <2> QED BY <2>1, <2>6
<1>7. ASSUME NEW n \in Nat, n \in S PROVE n + 1 \in S
  <2> SUFFICES ASSUME n + 1 <= N PROVE Walked(f[n + 1], E, items, n + 1, lo, hi)
    OBVIOUS
  <2>1. n < N /\ n <= N /\ n + 1 \in 0..N /\ n + 1 # 0 /\ (n + 1) - 1 = n
    BY <1>2
  <2>2. f[n + 1] = Take(f[n], items[n + 1], lo, hi)
    BY <1>4, <2>1
  <2>3. Walked(f[n], E, items, n, lo, hi)
    BY <1>7, <2>1
  <2> HIDE DEF Solves, S
  <2>4. Walked(Take(f[n], items[n + 1], lo, hi), E, items, n + 1, lo, hi)
    BY <1>1, <2>1, <2>3, TakeWalks DEF N
  <2> QED BY <2>2, <2>4
<1>8. \A n \in Nat : n \in S
  <2> HIDE DEF S
  <2> QED BY <1>6, <1>7, Induction
<1>9. Walked(f[N], E, items, N, lo, hi)
  BY <1>2, <1>8
<1> QED BY <1>5, <1>9 DEF N, items, E

\* A cursor that starts no later than the first entry within the bounds yields
\* what the table holds within them; it fails only for a damaged block, and
\* without bounds for every one.
LEMMA CursorFromYields ==
  ASSUME NEW sst, IsTable(sst), NEW from \in Nat, NEW lo, IsBound(lo), NEW hi, IsBound(hi),
         \A j \in DOMAIN sst.blocks : \A p \in DOMAIN sst.blocks[j] : Above(lo, sst.blocks[j][p].k) => j >= from
  PROVE  /\ Yields(CursorFrom(sst, from, lo, hi), Between(LayerOf(sst), lo, hi))
         /\ CursorFrom(sst, from, lo, hi).fails => sst.bad # {}
         /\ lo = Unbounded /\ hi = Unbounded => (CursorFrom(sst, from, lo, hi).fails <=> sst.bad # {})
<1> DEFINE items == BlockItems(sst, from)
           E == EntriesIn(sst)
           N == Len(items)
           layer == LayerOf(sst)
           part == Between(layer, lo, hi)
           c == CursorFrom(sst, from, lo, hi)
<1>1. PICK w : Walked(w, E, items, N, lo, hi) /\ c = [list |-> w.list, fails |-> w.fails]
  BY CursorWalks
<1>2. /\ items \in Seq(Items(E)) /\ Mounting(items)
      /\ \A a \in DOMAIN items : items[a].lost => sst.bad # {}
      /\ \A i \in DOMAIN sst.blocks : i >= from => \A p \in DOMAIN sst.blocks[i] :
            \E a \in DOMAIN items : items[a].x = sst.blocks[i][p] /\ (items[a].lost <=> i \in sst.bad)
  BY BlockItemsFacts
<1>3. /\ \A i \in DOMAIN sst.blocks : /\ Len(sst.blocks[i]) \in Nat \ {0} /\ DOMAIN sst.blocks[i] = 1..Len(sst.blocks[i])
                                      /\ \A p \in DOMAIN sst.blocks[i] : sst.blocks[i][p] \in E /\ sst.blocks[i][p].k \in Bytes
      /\ \A x \in E : \E i \in DOMAIN sst.blocks : \E p \in DOMAIN sst.blocks[i] : x = sst.blocks[i][p]
  BY TableEntries
<1>4. /\ EntrySet(layer) = E
      /\ \A x \in E : x = [k |-> x.k, e |-> x.e] /\ x.k \in DOMAIN layer /\ layer[x.k] = x.e
      /\ DOMAIN layer \subseteq Bytes
  BY LayerOfFacts DEF IsLayer
<1>5. sst.bad \subseteq DOMAIN sst.blocks
  BY DEF IsTable
<1> HIDE DEF items, E, layer, c
<1>6. N \in Nat /\ DOMAIN items = 1..N /\ \A a \in 1..N : items[a].x \in E
  <2> DEFINE Q == Items(E)
  <2>1. \A y \in Q : y.x \in E
    BY DEF Items
  <2>2. items \in Seq(Q)
    BY <1>2
  <2> HIDE DEF Q
  <2> QED BY <2>1, <2>2
<1> HIDE DEF N
<1>7. w.list \in Seq(E) /\ w.fails \in BOOLEAN /\ w.done \in BOOLEAN /\ Rising(w.list)
  <2> DEFINE Q == Seq(E)
  <2>1. w \in [list : Q, fails : BOOLEAN, done : BOOLEAN] /\ Rising(w.list)
    BY <1>1 DEF Walked
  <2> HIDE DEF Q
  <2>2. w.list \in Q /\ w.fails \in BOOLEAN /\ w.done \in BOOLEAN
    BY <2>1
  <2> QED BY <2>1, <2>2 DEF Q
<1>8. PICK m \in 1..N + 1 : WalkedTo(w, items, N, lo, hi, m)
  BY <1>1 DEF Walked
<1>9. /\ \A a \in 1..m - 1 : a \in 1..N /\ ~items[a].lost
                             /\ (Above(lo, items[a].x.k) /\ Below(hi, items[a].x.k) => Has(w.list, items[a].x.k))
      /\ \A j \in DOMAIN w.list : \E a \in 1..m - 1 :
             w.list[j] = items[a].x /\ Above(lo, items[a].x.k) /\ Below(hi, items[a].x.k)
  <2>1. \A a \in 1..m - 1 : a \in 1..N
    BY <1>6
  <2> QED BY <1>8, <2>1, Zenon DEF WalkedTo
<1>10. /\ ~w.done => m = N + 1 /\ ~w.fails
       /\ w.done => m <= N /\ (w.fails => items[m].lost) /\ (~w.fails => ~Below(hi, items[m].x.k))
  BY <1>8 DEF WalkedTo
<1>11. /\ DOMAIN part = {x \in DOMAIN layer : Above(lo, x) /\ Below(hi, x)}
       /\ \A k \in DOMAIN part : part[k] = layer[k]
  BY DEF Between
<1> HIDE DEF part
<1>12. w.list \in Seq(EntrySet(part))
  <2> DEFINE Q == EntrySet(part)  M == Len(w.list)
  <2>1. M \in Nat /\ DOMAIN w.list = 1..M /\ w.list = [j \in 1..M |-> w.list[j]]
    BY <1>7
  <2>2. ASSUME NEW j \in 1..M PROVE w.list[j] \in Q
    <3>1. PICK a \in 1..m - 1 : w.list[j] = items[a].x /\ Above(lo, items[a].x.k) /\ Below(hi, items[a].x.k)
      BY <1>9, <2>1
    <3> DEFINE x == items[a].x
    <3>2. x \in E
      BY <1>6, <1>9
    <3> HIDE DEF x
    <3>3. x.k \in DOMAIN part /\ x = [k |-> x.k, e |-> part[x.k]]
      BY <1>4, <1>11, <3>1, <3>2 DEF x
    <3>4. x \in Q
      BY <3>3 DEF EntrySet
    <3> QED BY <3>1, <3>4 DEF x
  <2> HIDE DEF Q, M
  <2>3. w.list \in [1..M -> Q]
    BY <2>1, <2>2
  <2>4. w.list \in Seq(Q)
    BY <2>1, <2>3
  <2> QED BY <2>4 DEF Q
<1>13. ASSUME NEW k \in DOMAIN part
       PROVE  Has(w.list, k) \/ (w.fails /\ \A j \in DOMAIN w.list : Less(w.list[j].k, k))
  <2>1. k \in DOMAIN layer /\ Above(lo, k) /\ Below(hi, k) /\ k \in Bytes
    BY <1>4, <1>11
  <2>2. [k |-> k, e |-> layer[k]] \in EntrySet(layer)
    BY <2>1 DEF EntrySet
  <2> DEFINE x == [k |-> k, e |-> layer[k]]
  <2>3. x \in E /\ x.k = k
    BY <1>4, <2>2
  <2> HIDE DEF x
  <2>4. PICK i \in DOMAIN sst.blocks : \E p \in DOMAIN sst.blocks[i] : x = sst.blocks[i][p]
    BY <1>3, <2>3
  <2>5. PICK p \in DOMAIN sst.blocks[i] : x = sst.blocks[i][p]
    BY <2>4
  <2>6. i >= from
    BY <2>1, <2>3, <2>5
  <2>7. PICK a \in 1..N : items[a].x = x
    BY <1>2, <1>6, <2>5, <2>6
  <2>8. CASE a \in 1..m - 1
    BY <1>9, <2>1, <2>3, <2>7, <2>8
  <2>9. CASE a \notin 1..m - 1
    <3>1. m <= a /\ m \in 1..N /\ w.done
      BY <1>6, <1>7, <1>10, <2>9
    <3>2. w.fails
      <4> SUFFICES ASSUME ~w.fails PROVE FALSE
        BY <1>7
      <4>1. ~Below(hi, items[m].x.k)
        BY <1>10, <3>1
      <4>2. m = a \/ Less(items[m].x.k, items[a].x.k)
        <5>1. m = a \/ m < a
          BY <3>1, <1>6
        <5> QED BY <1>2, <1>6, <3>1, <5>1 DEF Mounting
      <4>3. items[m].x.k \in Bytes
        BY <1>4, <1>6, <3>1
      <4> QED BY <2>1, <2>3, <2>7, <4>1, <4>2, <4>3, BoundFacts
    <3>3. ASSUME NEW j \in DOMAIN w.list PROVE Less(w.list[j].k, k)
      <4>1. PICK b \in 1..m - 1 : w.list[j] = items[b].x
        BY <1>9
      <4>2. b < a /\ b \in 1..N
        BY <1>6, <3>1
      <4> QED BY <1>2, <1>6, <2>3, <2>7, <4>1, <4>2 DEF Mounting
    <3> QED BY <3>2, <3>3
  <2> QED BY <2>8, <2>9
<1>14. Yields(c, part)
  <2>1. Yields([list |-> w.list, fails |-> w.fails], part)
    BY <1>7, <1>12, <1>13 DEF Yields
  <2> QED BY <1>1, <2>1
<1>15. c.fails = w.fails
  BY <1>1
<1>16. w.fails => sst.bad # {}
  <2> HAVE w.fails
  <2>1. m \in 1..N /\ items[m].lost
    BY <1>6, <1>7, <1>10
  <2> QED BY <1>2, <1>6, <2>1
<1>17. ASSUME lo = Unbounded, hi = Unbounded, sst.bad # {} PROVE w.fails
  <2>1. PICK i \in sst.bad : i \in DOMAIN sst.blocks
    BY <1>5, <1>17
  <2>2. 1 \in DOMAIN sst.blocks[i]
    BY <1>3, <2>1
  <2>3. \A k : Above(lo, k) /\ Below(hi, k)
    BY <1>17 DEF Above, Below, Unbounded
  <2>4. i >= from
    BY <2>1, <2>2, <2>3
  <2>5. PICK a \in 1..N : items[a].lost
    BY <1>2, <1>6, <2>1, <2>2, <2>4
  <2>6. a \notin 1..m - 1
    BY <1>9, <2>5
  <2>7. m # N + 1
    BY <1>6, <2>6
  <2> QED BY <1>7, <1>10, <2>3, <2>7
<1> QED BY <1>14, <1>15, <1>16, <1>17, <1>7 DEF c, part, layer

\* A cursor yields what the table holds within the bounds: neither the tests on
\* the ends of the table nor the search for the first block lose an entry
\* (cursor, block_for).
LEMMA CursorYields ==
  ASSUME NEW sst, IsTable(sst), NEW lo, IsBound(lo), NEW hi, IsBound(hi)
  PROVE  /\ Yields(Cursor(sst, lo, hi), Between(LayerOf(sst), lo, hi))
         /\ Cursor(sst, lo, hi).fails => sst.bad # {}
         /\ lo = Unbounded /\ hi = Unbounded => (Cursor(sst, lo, hi).fails <=> sst.bad # {})
<1> DEFINE B == sst.blocks
           E == EntriesIn(sst)
           layer == LayerOf(sst)
           part == Between(layer, lo, hi)
           none == [list |-> <<>>, fails |-> FALSE]
           from == IF lo.side = "unbounded" THEN 1 ELSE BlockFor(sst, lo.v)
           out == \/ B = <<>>
                  \/ hi.side # "unbounded" /\ Less(hi.v, sst.min)
                  \/ lo.side # "unbounded" /\ Less(sst.max, lo.v)
<1>1. /\ DOMAIN B = 1..Len(B) /\ Len(B) \in Nat
      /\ \A i \in DOMAIN B : /\ Len(B[i]) \in Nat \ {0} /\ DOMAIN B[i] = 1..Len(B[i])
                             /\ \A p \in DOMAIN B[i] : B[i][p] \in E /\ B[i][p].k \in Bytes
      /\ \A x \in E : \E i \in DOMAIN B : \E p \in DOMAIN B[i] : x = B[i][p]
  BY TableEntries
<1>2. lo.side \in {"unbounded", "included", "excluded"} /\ lo.v \in Bytes /\ hi.v \in Bytes
  BY DEF IsBound
<1>3. /\ sst.bad \subseteq DOMAIN B /\ sst.min \in Bytes /\ sst.max \in Bytes
      /\ \A x \in E : x.k \in Bytes /\ ~Less(x.k, sst.min) /\ ~Less(sst.max, x.k)
  BY DEF IsTable
<1>4. EntrySet(layer) = E /\ DOMAIN layer \subseteq Bytes
  BY LayerOfFacts DEF IsLayer
<1>5. \A k \in DOMAIN layer : \E x \in E : x.k = k
  <2> SUFFICES ASSUME NEW k \in DOMAIN layer PROVE \E x \in E : x.k = k
    OBVIOUS
  <2>1. [k |-> k, e |-> layer[k]] \in EntrySet(layer)
    BY DEF EntrySet
  <2> QED BY <1>4, <2>1
<1>6. DOMAIN part = {x \in DOMAIN layer : Above(lo, x) /\ Below(hi, x)}
  BY DEF Between
<1> HIDE DEF E, B, layer, part
<1>7. CASE out
  <2>1. Cursor(sst, lo, hi) = none
    BY <1>7 DEF Cursor, B
  <2>2. DOMAIN part = {}
    <3> SUFFICES ASSUME NEW k \in DOMAIN part PROVE FALSE
      OBVIOUS
    <3>1. k \in DOMAIN layer /\ Above(lo, k) /\ Below(hi, k) /\ k \in Bytes
      BY <1>4, <1>6
    <3>2. PICK x \in E : x.k = k
      BY <1>5, <3>1
    <3>3. ~Less(k, sst.min) /\ ~Less(sst.max, k)
      BY <1>3, <3>2
    <3>4. CASE B = <<>>
      BY <1>1, <3>2, <3>4
    <3>5. CASE hi.side # "unbounded" /\ Less(hi.v, sst.min)
      <4>1. ~Less(hi.v, k)
        BY <3>1, <3>5, BoundFacts
      <4> QED BY <1>2, <1>3, <3>1, <3>3, <3>5, <4>1, LessTotal, LessTransitive
    <3>6. CASE lo.side # "unbounded" /\ Less(sst.max, lo.v)
      <4>1. ~Less(k, lo.v)
        BY <3>1, <3>6, BoundFacts
      <4> QED BY <1>2, <1>3, <3>1, <3>3, <3>6, <4>1, LessTotal, LessTransitive
    <3> QED BY <1>7, <3>4, <3>5, <3>6
  <2>3. Yields(none, part)
    <3>1. none.list = <<>> /\ none.fails = FALSE /\ DOMAIN none.list = {}
      OBVIOUS
    <3>2. <<>> \in Seq(EntrySet(part))
      OBVIOUS
    <3> HIDE DEF none
    <3> QED BY <2>2, <3>1, <3>2 DEF Yields, Rising
  <2>4. lo = Unbounded /\ hi = Unbounded => sst.bad = {}
    <3> SUFFICES ASSUME lo = Unbounded, hi = Unbounded PROVE B = <<>> /\ DOMAIN B = {}
      BY <1>3
    <3> QED BY <1>7 DEF Unbounded
  <2>5. ~none.fails
    OBVIOUS
  <2> HIDE DEF none
  <2> QED BY <2>1, <2>3, <2>4, <2>5 DEF part, layer
<1>8. CASE ~out
  <2>1. Cursor(sst, lo, hi) = CursorFrom(sst, from, lo, hi)
    BY <1>8 DEF Cursor, B
  <2>2. from \in Nat /\ \A j \in DOMAIN B : \A p \in DOMAIN B[j] : Above(lo, B[j][p].k) => j >= from
    <3>1. CASE lo.side = "unbounded"
      BY <1>1, <3>1
    <3>2. CASE lo.side # "unbounded"
      <4> DEFINE F == {i \in DOMAIN B : ~Less(lo.v, B[i][1].k)}
      <4>1. from = Cardinality(F)
        BY <3>2 DEF BlockFor, B
      <4>2. IsFiniteSet(1..Len(B)) /\ F \in SUBSET (1..Len(B))
        BY <1>1, FS_Interval
      <4>3. IsFiniteSet(F) /\ Cardinality(F) \in Nat
        BY <4>2, FS_Subset, FS_CardinalityType
      <4>4. ASSUME NEW j \in DOMAIN B, NEW p \in DOMAIN B[j], Above(lo, B[j][p].k) PROVE j >= from
        <5> DEFINE k == B[j][p].k
        <5>1. k \in Bytes /\ ~Less(k, lo.v)
          <6>1. k \in Bytes
            BY <1>1
          <6> QED BY <3>2, <4>4, <6>1, BoundFacts
        <5>2. ASSUME NEW i \in F, i > j PROVE FALSE
          <6>1. i \in DOMAIN B /\ 1 \in DOMAIN B[i] /\ B[i][1].k \in Bytes /\ j < i
            BY <1>1, <5>2
          <6>2. Less(k, B[i][1].k)
            BY <6>1 DEF IsTable, B
          <6>3. lo.v = k \/ Less(lo.v, k)
            BY <1>2, <5>1, LessTotal
          <6>4. Less(lo.v, B[i][1].k)
            BY <1>2, <5>1, <6>1, <6>2, <6>3, LessTransitive
          <6> QED BY <6>4
        <5>3. F \in SUBSET (1..j) /\ j \in Nat
          BY <1>1, <5>2
        <5>4. IsFiniteSet(1..j) /\ Cardinality(1..j) = j
          BY <5>3, FS_Interval, CardinalityUpto
        <5> HIDE DEF F
        <5>5. Cardinality(F) <= j
          BY <5>3, <5>4, FS_Subset
        <5> QED BY <4>1, <4>3, <5>3, <5>5
      <4> QED BY <4>1, <4>3, <4>4
    <3> QED BY <3>1, <3>2
  <2> HIDE DEF from
  <2> QED BY <2>1, <2>2, CursorFromYields DEF B, part, layer
<1> QED BY <1>7, <1>8

-----------------------------------------------------------------------------
(* Scans *)

\* Two lists one after the other, the parts given place by place.
LEMMA TwoParts ==
  ASSUME NEW a, NEW b, NEW M \in Nat, NEW N \in Nat, a = [i \in 1..M |-> a[i]], b = [i \in 1..N |-> b[i]]
  PROVE  /\ DOMAIN (a \o b) = 1..M + N /\ Len(a \o b) = M + N
         /\ \A i \in 1..M : (a \o b)[i] = a[i]
         /\ \A i \in 1..N : (a \o b)[M + i] = b[i]
         /\ \A j \in 1..M + N : j \in 1..M \/ \E i \in 1..N : j = M + i
<1> DEFINE X == {a[i] : i \in 1..M}  Y == {b[i] : i \in 1..N}
<1>1. a \in [1..M -> X] /\ b \in [1..N -> Y]
  OBVIOUS
<1> HIDE DEF X, Y
<1>2. a \in Seq(X) /\ Len(a) = M /\ b \in Seq(Y) /\ Len(b) = N
  BY <1>1
<1>3. /\ DOMAIN (a \o b) = 1..M + N /\ Len(a \o b) = M + N
      /\ \A i \in 1..M : (a \o b)[i] = a[i]
      /\ \A i \in 1..N : (a \o b)[M + i] = b[i]
  <2>1. Len(a \o b) = Len(a) + Len(b) /\ DOMAIN (a \o b) = 1..Len(a) + Len(b)
    BY <1>2, LayersOver
  <2>2. \A i \in 1..Len(a) : (a \o b)[i] = a[i]
    BY <1>2, LayersOver
  <2>3. \A i \in 1..Len(b) : (a \o b)[Len(a) + i] = b[i]
    BY <1>2, LayersOver
  <2> QED BY <1>2, <2>1, <2>2, <2>3
<1>4. ASSUME NEW j \in 1..M + N, j \notin 1..M PROVE \E i \in 1..N : j = M + i
  <2>1. j - M \in 1..N /\ j = M + (j - M)
    BY <1>4
  <2> QED BY <2>1
<1> QED BY <1>3, <1>4

\* The layers of a store, one by one: maps, then tables.
LEMMA StoreLayers ==
  ASSUME NEW s, NEW pending, IsStore(s, pending)
  PROVE  LET M == Len(pending \o s.mems)  N == Len(s.ssts)  stack == Stack(s, pending) IN
         /\ M \in Nat /\ N \in Nat /\ DOMAIN (pending \o s.mems) = 1..M /\ DOMAIN s.ssts = 1..N
         /\ DOMAIN stack = 1..M + N
         /\ \A i \in 1..M : stack[i] = (pending \o s.mems)[i]
         /\ \A i \in 1..N : IsTable(s.ssts[i]) /\ stack[M + i] = LayerOf(s.ssts[i])
         /\ \A j \in 1..M + N : IsLayer(stack[j]) /\ (j \in 1..M \/ \E i \in 1..N : j = M + i)
<1> DEFINE layers == pending \o s.mems
           M == Len(layers)
           N == Len(s.ssts)
           tables == [i \in DOMAIN s.ssts |-> LayerOf(s.ssts[i])]
           stack == layers \o tables
           X == ToSet(pending)  Y == ToSet(s.mems)
<1>1. /\ pending \in Seq(X) /\ s.mems \in Seq(Y) /\ s.ssts \in Seq(ToSet(s.ssts))
      /\ \A layer \in X \cup Y : IsLayer(layer)
      /\ \A sst \in ToSet(s.ssts) : IsTable(sst)
  BY DEF IsStore, IsLayer
<1>2. Stack(s, pending) = stack
  BY DEF Stack
<1>3. N \in Nat /\ DOMAIN s.ssts = 1..N
  BY <1>1
<1> HIDE DEF X, Y, tables
<1>4. /\ DOMAIN layers = 1..M /\ M \in Nat /\ \A i \in 1..M : IsLayer(layers[i])
  <2> DEFINE Z == X \cup Y
  <2>1. pending \in Seq(Z) /\ s.mems \in Seq(Z)
    <3>1. DOMAIN pending = 1..Len(pending) /\ Len(pending) \in Nat /\ \A i \in 1..Len(pending) : pending[i] \in Z
      BY <1>1
    <3>2. DOMAIN s.mems = 1..Len(s.mems) /\ Len(s.mems) \in Nat /\ \A i \in 1..Len(s.mems) : s.mems[i] \in Z
      BY <1>1
    <3> HIDE DEF Z
    <3>3. pending \in [1..Len(pending) -> Z] /\ s.mems \in [1..Len(s.mems) -> Z]
      BY <1>1, <3>1, <3>2
    <3> QED BY <3>1, <3>2, <3>3
  <2>2. \A z \in Z : IsLayer(z)
    BY <1>1
  <2> HIDE DEF Z
  <2>3. layers \in Seq(Z)
    BY <2>1, ConcatFacts
  <2> HIDE DEF layers
  <2> QED BY <2>2, <2>3
<1>5. \A i \in 1..N : IsTable(s.ssts[i]) /\ tables[i] = LayerOf(s.ssts[i])
  <2> SUFFICES ASSUME NEW i \in 1..N PROVE IsTable(s.ssts[i]) /\ tables[i] = LayerOf(s.ssts[i])
    OBVIOUS
  <2>1. s.ssts[i] \in ToSet(s.ssts)
    BY <1>3, Zenon DEF ToSet
  <2> QED BY <1>1, <1>3, <2>1 DEF tables
<1>6. tables = [i \in 1..N |-> tables[i]]
  BY <1>3 DEF tables
<1>7. layers = [i \in 1..M |-> layers[i]]
  <2>1. layers \in Seq(X \cup Y)
    <3>1. \A a \in Seq(X), b \in Seq(Y) : a \o b \in Seq(X \cup Y)
      <4> SUFFICES ASSUME NEW a \in Seq(X), NEW b \in Seq(Y) PROVE a \o b \in Seq(X \cup Y)
        OBVIOUS
      <4>1. /\ Len(a \o b) = Len(a) + Len(b) /\ Len(a) \in Nat /\ Len(b) \in Nat
            /\ DOMAIN a = 1..Len(a) /\ DOMAIN b = 1..Len(b)
        BY LayersOver
      <4>2. a \in Seq(X \cup Y) /\ b \in Seq(X \cup Y)
        <5> DEFINE Z == X \cup Y
        <5>1. a \in [1..Len(a) -> Z] /\ b \in [1..Len(b) -> Z]
          BY <4>1
        <5> HIDE DEF Z
        <5>2. a \in Seq(Z) /\ b \in Seq(Z)
          BY <4>1, <5>1
        <5> QED BY <5>2 DEF Z
      <4> DEFINE Z == X \cup Y
      <4> HIDE DEF Z
      <4>3. a \o b \in Seq(Z)
        BY <4>2, ConcatFacts DEF Z
      <4> QED BY <4>3 DEF Z
    <3> QED BY <1>1, <3>1
  <2> DEFINE Z == X \cup Y
  <2> HIDE DEF layers, Z
  <2>2. layers \in Seq(Z)
    BY <2>1 DEF Z
  <2> QED BY <2>2
<1> HIDE DEF layers, M, N
<1>8. /\ DOMAIN stack = 1..M + N
      /\ \A i \in 1..M : stack[i] = layers[i]
      /\ \A i \in 1..N : stack[M + i] = tables[i]
      /\ \A j \in 1..M + N : j \in 1..M \/ \E i \in 1..N : j = M + i
  BY <1>3, <1>4, <1>6, <1>7, TwoParts
<1>9. ASSUME NEW j \in 1..M + N PROVE IsLayer(stack[j]) /\ (j \in 1..M \/ \E i \in 1..N : j = M + i)
  <2>1. CASE j \in 1..M
    BY <1>4, <1>8, <2>1
  <2>2. CASE \E i \in 1..N : j = M + i
    <3>1. PICK i \in 1..N : j = M + i
      BY <2>2
    <3>2. IsLayer(LayerOf(s.ssts[i]))
      BY <1>5, LayerOfFacts
    <3> QED BY <1>5, <1>8, <3>1, <3>2
  <2> QED BY <1>8, <2>1, <2>2
<1> HIDE DEF stack
<1> QED BY <1>2, <1>3, <1>4, <1>5, <1>8, <1>9 DEF layers, M, N

\* A part of a layer is one.
LEMMA BetweenLayer ==
  ASSUME NEW layer, IsLayer(layer), NEW lo, NEW hi
  PROVE  IsLayer(Between(layer, lo, hi))
<1>1. DOMAIN Between(layer, lo, hi) \in SUBSET (DOMAIN layer)
  BY DEF Between
<1> QED BY <1>1, FS_Subset DEF IsLayer

\* The sources of a scan yield what the layers hold within the bounds, and fail
\* only where a table is damaged; of a scan without bounds, for each of them.
LEMMA SourcesMatch ==
  ASSUME NEW s, NEW pending, IsStore(s, pending), NEW lo, IsBound(lo), NEW hi, IsBound(hi), ~BoundsEmpty(lo, hi)
  PROVE  LET sources == ScanSources(s, pending, lo, hi)  stack == Stack(s, pending) IN
         /\ Matching(sources, [i \in DOMAIN stack |-> Between(stack[i], lo, hi)])
         /\ (\E i \in DOMAIN sources : sources[i].fails) => \E i \in DOMAIN s.ssts : s.ssts[i].bad # {}
         /\ lo = Unbounded /\ hi = Unbounded =>
               ((\E i \in DOMAIN sources : sources[i].fails) <=> \E i \in DOMAIN s.ssts : s.ssts[i].bad # {})
<1> DEFINE layers == pending \o s.mems
           M == Len(layers)
           N == Len(s.ssts)
           stack == Stack(s, pending)
           a == [i \in DOMAIN layers |-> [list |-> Entries(Between(layers[i], lo, hi)), fails |-> FALSE]]
           b == [i \in DOMAIN s.ssts |-> Cursor(s.ssts[i], lo, hi)]
           sources == a \o b
           part == [i \in DOMAIN stack |-> Between(stack[i], lo, hi)]
<1>1. ScanSources(s, pending, lo, hi) = sources
  BY Zenon DEF ScanSources
<1>2. /\ M \in Nat /\ N \in Nat /\ DOMAIN layers = 1..M /\ DOMAIN s.ssts = 1..N
      /\ DOMAIN stack = 1..M + N
      /\ \A i \in 1..M : stack[i] = layers[i]
      /\ \A i \in 1..N : IsTable(s.ssts[i]) /\ stack[M + i] = LayerOf(s.ssts[i])
      /\ \A j \in 1..M + N : IsLayer(stack[j]) /\ (j \in 1..M \/ \E i \in 1..N : j = M + i)
  BY StoreLayers
<1> HIDE DEF layers, M, N, stack
<1>3. /\ a = [i \in 1..M |-> a[i]] /\ \A i \in 1..M : a[i] = [list |-> Entries(Between(layers[i], lo, hi)), fails |-> FALSE]
      /\ b = [i \in 1..N |-> b[i]] /\ \A i \in 1..N : b[i] = Cursor(s.ssts[i], lo, hi)
  BY <1>2
<1> HIDE DEF a, b
<1>4. /\ DOMAIN sources = 1..M + N
      /\ \A i \in 1..M : sources[i] = a[i]
      /\ \A i \in 1..N : sources[M + i] = b[i]
  BY <1>2, <1>3, TwoParts
<1>5. ASSUME NEW i \in 1..M PROVE Yields(sources[i], Between(stack[i], lo, hi)) /\ ~sources[i].fails /\ i \in 1..M + N
  <2>1. i \in 1..M + N
    BY <1>2
  <2>2. IsLayer(Between(stack[i], lo, hi))
    BY <1>2, <2>1, BetweenLayer
  <2>3. sources[i] = [list |-> Entries(Between(stack[i], lo, hi)), fails |-> FALSE]
    BY <1>2, <1>3, <1>4
  <2>4. Yields([list |-> Entries(Between(stack[i], lo, hi)), fails |-> FALSE], Between(stack[i], lo, hi))
    BY <2>2, EntriesYield
  <2> QED BY <2>1, <2>3, <2>4
<1>6. ASSUME NEW i \in 1..N
      PROVE  /\ Yields(sources[M + i], Between(stack[M + i], lo, hi)) /\ M + i \in 1..M + N
             /\ sources[M + i].fails => s.ssts[i].bad # {}
             /\ lo = Unbounded /\ hi = Unbounded => (sources[M + i].fails <=> s.ssts[i].bad # {})
  <2>1. M + i \in 1..M + N
    BY <1>2
  <2>2. sources[M + i] = Cursor(s.ssts[i], lo, hi) /\ stack[M + i] = LayerOf(s.ssts[i]) /\ IsTable(s.ssts[i])
    BY <1>2, <1>3, <1>4
  <2> QED BY <2>1, <2>2, CursorYields
<1> HIDE DEF sources
<1>7. DOMAIN part = 1..M + N /\ \A i \in 1..M + N : part[i] = Between(stack[i], lo, hi) /\ IsLayer(part[i])
  <2>1. DOMAIN part = 1..M + N /\ \A i \in 1..M + N : part[i] = Between(stack[i], lo, hi)
    BY <1>2
  <2> HIDE DEF part
  <2> QED BY <1>2, <2>1, BetweenLayer
<1> HIDE DEF part
<1>8. \A j \in 1..M + N : Yields(sources[j], part[j])
  BY <1>2, <1>5, <1>6, <1>7
<1>9. Matching(sources, part)
  <2>1. M + N \in Nat
    BY <1>2
  <2> QED BY <1>4, <1>7, <1>8, <2>1 DEF Matching
<1>10. (\E i \in DOMAIN sources : sources[i].fails) => \E i \in DOMAIN s.ssts : s.ssts[i].bad # {}
  <2> SUFFICES ASSUME NEW j \in 1..M + N, sources[j].fails PROVE \E i \in 1..N : s.ssts[i].bad # {}
    BY <1>2, <1>4
  <2>1. j \notin 1..M
    BY <1>5
  <2>2. PICK i \in 1..N : j = M + i
    BY <1>2, <2>1
  <2> QED BY <1>6, <2>2
<1>11. ASSUME lo = Unbounded, hi = Unbounded, NEW i \in DOMAIN s.ssts, s.ssts[i].bad # {} PROVE \E j \in DOMAIN sources : sources[j].fails
  BY <1>2, <1>4, <1>6, <1>11
<1> QED BY <1>1, <1>9, <1>10, <1>11 DEF stack, part

\* What lives in the parts of the layers is the part of what lives in them.
LEMMA LiveBetween ==
  ASSUME NEW stack, DOMAIN stack \subseteq Nat, NEW lo, NEW hi
  PROVE  Live([i \in DOMAIN stack |-> Between(stack[i], lo, hi)]) = Between(Live(stack), lo, hi)
<1> DEFINE part == [i \in DOMAIN stack |-> Between(stack[i], lo, hi)]
           In(k) == Above(lo, k) /\ Below(hi, k)
<1>1. /\ DOMAIN part = DOMAIN stack
      /\ \A i \in DOMAIN stack : DOMAIN part[i] = {x \in DOMAIN stack[i] : In(x)}
      /\ \A i \in DOMAIN stack : \A k \in DOMAIN part[i] : part[i][k] = stack[i][k]
  BY DEF Between
<1> HIDE DEF part
<1>2. ASSUME NEW k, In(k) PROVE Visible(part, k) = Visible(stack, k)
  <2> DEFINE h == {i \in DOMAIN stack : k \in DOMAIN stack[i]}
             g == {i \in DOMAIN part : k \in DOMAIN part[i]}
  <2>1. h = g
    BY <1>1, <1>2
  <2>2. Visible(stack, k) = IF h = {} THEN <<>> ELSE stack[Min(h)][k]
    BY Zenon DEF Visible
  <2>3. Visible(part, k) = IF g = {} THEN <<>> ELSE part[Min(g)][k]
    BY Zenon DEF Visible
  <2>4. CASE h = {}
    BY <2>1, <2>2, <2>3, <2>4
  <2>5. CASE h # {}
    <3>1. h \in SUBSET Nat
      OBVIOUS
    <3> DEFINE n == Min(h)
    <3>2. n \in h
      <4> HIDE DEF h
      <4> QED BY <2>5, <3>1, MinIn
    <3>3. n \in DOMAIN stack /\ k \in DOMAIN part[n]
      BY <2>1, <3>2
    <3>4. part[n][k] = stack[n][k]
      BY <1>1, <3>3
    <3> HIDE DEF h, g
    <3>5. Visible(part, k) = part[n][k] /\ Visible(stack, k) = stack[n][k]
      BY <2>1, <2>2, <2>3, <2>5
    <3> QED BY <3>4, <3>5
  <2> QED BY <2>4, <2>5
<1>3. LiveKeys(part) = {x \in LiveKeys(stack) : In(x)}
  BY <1>1, <1>2 DEF LiveKeys
<1>4. \A k \in LiveKeys(part) : Visible(part, k) = Visible(stack, k)
  BY <1>2, <1>3
<1>5. Live(part) = [k \in LiveKeys(part) |-> Visible(part, k)]
  BY DEF Live
<1>6. Between(Live(stack), lo, hi) = [k \in {x \in LiveKeys(stack) : In(x)} |-> Visible(stack, k)]
  BY DEF Live, Between
<1> HIDE DEF In
<1> QED BY <1>3, <1>4, <1>5, <1>6 DEF part

\* What lives in finitely many layers is a layer.
LEMMA LiveLayer ==
  ASSUME NEW n \in Nat, NEW stack, DOMAIN stack = 1..n, \A i \in 1..n : IsLayer(stack[i])
  PROVE  IsLayer(Live(stack))
<1> DEFINE I == 1..n
           Ks == {DOMAIN stack[i] : i \in I}
           K == UNION Ks
<1>1. IsFiniteSet(I)
  BY FS_Interval
<1>2. IsFiniteSet(Ks)
  <2> DEFINE f == [i \in I |-> DOMAIN stack[i]]
  <2>1. f \in Surjection(I, Ks)
    BY DEF Surjection
  <2> HIDE DEF f, I, Ks
  <2> QED BY <1>1, <2>1, FS_Surjection
<1>3. \A S \in Ks : IsFiniteSet(S) /\ S \subseteq Bytes
  BY DEF IsLayer
<1>4. IsFiniteSet(K) /\ K \subseteq Bytes
  <2> HIDE DEF Ks
  <2> QED BY <1>2, <1>3, FS_UNION
<1>5. DOMAIN Live(stack) = LiveKeys(stack) /\ LiveKeys(stack) \in SUBSET K
  BY DEF Live, LiveKeys
<1> HIDE DEF K
<1> QED BY <1>4, <1>5, FS_Subset DEF IsLayer

\* Where no key can lie between the bounds none does.
LEMMA BoundsEmptyExact ==
  ASSUME NEW lo, IsBound(lo), NEW hi, IsBound(hi), BoundsEmpty(lo, hi), NEW k \in Bytes
  PROVE  ~(Above(lo, k) /\ Below(hi, k))
<1>1. /\ lo.side \in {"unbounded", "included", "excluded"} /\ lo.v \in Bytes
      /\ hi.side \in {"unbounded", "included", "excluded"} /\ hi.v \in Bytes
  BY DEF IsBound
<1> SUFFICES ASSUME Above(lo, k), Below(hi, k) PROVE FALSE
  OBVIOUS
<1>2. /\ lo.side # "unbounded" /\ hi.side # "unbounded"
      /\ Less(hi.v, lo.v) \/ (hi.v = lo.v /\ ~(lo.side = "included" /\ hi.side = "included"))
  BY DEF BoundsEmpty
<1>3. ~Less(k, lo.v) /\ ~Less(hi.v, k)
  BY <1>2, BoundFacts
<1>4. (k = lo.v \/ Less(lo.v, k)) /\ (k = hi.v \/ Less(k, hi.v))
  BY <1>1, <1>3, LessTotal
<1>5. CASE Less(hi.v, lo.v)
  BY <1>1, <1>3, <1>4, <1>5, LessTransitive
<1>6. CASE hi.v = lo.v
  <2>1. k = lo.v /\ k = hi.v /\ ~Less(k, k)
    BY <1>1, <1>3, <1>4, <1>6, LessTotal
  <2>2. lo.side = "excluded" \/ hi.side = "excluded"
    BY <1>1, <1>2, <1>5, <1>6, <2>1
  <2> QED BY <2>1, <2>2 DEF Above, Below
<1> QED BY <1>2, <1>5, <1>6

\* A merge over a store yields what lives in it within the bounds; it fails only
\* if a table is damaged, and without bounds for every damaged table.
LEMMA ScanYields ==
  ASSUME NEW s, NEW pending, IsStore(s, pending), NEW lo, IsBound(lo), NEW hi, IsBound(hi)
  PROVE  LET out == Merge(ScanSources(s, pending, lo, hi)) IN
         /\ Yields(out, Between(Live(Stack(s, pending)), lo, hi))
         /\ IsLayer(Between(Live(Stack(s, pending)), lo, hi))
         /\ out.fails => \E i \in DOMAIN s.ssts : s.ssts[i].bad # {}
         /\ lo = Unbounded /\ hi = Unbounded => (out.fails <=> \E i \in DOMAIN s.ssts : s.ssts[i].bad # {})
<1> DEFINE sources == ScanSources(s, pending, lo, hi)
           stack == Stack(s, pending)
           out == Merge(sources)
           damaged == \E i \in DOMAIN s.ssts : s.ssts[i].bad # {}
<1>1. PICK n \in Nat : DOMAIN stack = 1..n /\ \A j \in 1..n : IsLayer(stack[j])
  <2> DEFINE M == Len(pending \o s.mems)  N == Len(s.ssts)
  <2>1. M \in Nat /\ N \in Nat /\ DOMAIN stack = 1..M + N /\ \A j \in 1..M + N : IsLayer(stack[j])
    BY StoreLayers
  <2> HIDE DEF M, N
  <2>2. M + N \in Nat
    BY <2>1
  <2> QED BY <2>1, <2>2
<1> HIDE DEF stack
<1>2. IsLayer(Live(stack)) /\ IsLayer(Between(Live(stack), lo, hi)) /\ DOMAIN stack \subseteq Nat
  BY <1>1, LiveLayer, BetweenLayer
<1>3. CASE ~BoundsEmpty(lo, hi)
  <2> DEFINE part == [i \in DOMAIN stack |-> Between(stack[i], lo, hi)]
  <2>1. /\ Matching(sources, part)
        /\ (\E i \in DOMAIN sources : sources[i].fails) => damaged
        /\ lo = Unbounded /\ hi = Unbounded => ((\E i \in DOMAIN sources : sources[i].fails) <=> damaged)
    BY <1>3, SourcesMatch DEF stack
  <2>2. Live(part) = Between(Live(stack), lo, hi)
    BY <1>2, LiveBetween
  <2> HIDE DEF part, sources, damaged
  <2>3. Yields(out, Live(part)) /\ (out.fails <=> \E i \in DOMAIN sources : sources[i].fails)
    BY <2>1, MergeYields
  <2> HIDE DEF out
  <2> QED BY <1>2, <2>1, <2>2, <2>3 DEF out, sources, damaged, stack
<1>4. CASE BoundsEmpty(lo, hi)
  <2>1. sources = <<>>
    BY <1>4 DEF ScanSources
  <2>2. Matching(<<>>, <<>>)
    <3>1. DOMAIN (<<>>) = 1..0 /\ 0 \in Nat /\ DOMAIN (<<>>) = {}
      OBVIOUS
    <3> QED BY <3>1 DEF Matching
  <2>3. Yields(Merge(<<>>), Live(<<>>)) /\ (Merge(<<>>).fails <=> \E i \in DOMAIN (<<>>) : (<<>>)[i].fails)
    BY <2>2, MergeYields, Zenon
  <2>4. LiveKeys(<<>>) = {}
    BY DEF LiveKeys
  <2>5. Live(<<>>) = [k \in {} |-> Visible(<<>>, k)]
    BY <2>4 DEF Live
  <2>6. {x \in DOMAIN Live(stack) : Above(lo, x) /\ Below(hi, x)} = {}
    BY <1>2, <1>4, BoundsEmptyExact DEF IsLayer
  <2>7. Between(Live(stack), lo, hi) = [k \in {} |-> Live(stack)[k]]
    BY <2>6 DEF Between
  <2>8. Live(<<>>) = Between(Live(stack), lo, hi)
    BY <2>5, <2>7
  <2>9. ~(lo = Unbounded)
    BY <1>4 DEF BoundsEmpty, Unbounded
  <2>10. DOMAIN (<<>>) = {}
    OBVIOUS
  <2>11. out = Merge(<<>>)
    BY <2>1
  <2> HIDE DEF out, sources
  <2>12. ~out.fails
    BY <2>3, <2>10, <2>11
  <2> QED BY <1>2, <2>3, <2>8, <2>9, <2>11, <2>12 DEF out, sources, stack
<1> QED BY <1>3, <1>4

\* A string that starts with a prefix is the prefix and the rest.
LEMMA StrippedRest ==
  ASSUME NEW p \in Bytes, NEW k \in Bytes, Starts(p, k)
  PROVE  LET rest == SubSeq(k, Len(p) + 1, Len(k)) IN rest \in Bytes /\ k = p \o rest
<1> DEFINE a == Len(p)  b == Len(k)  rest == SubSeq(k, Len(p) + 1, Len(k))
<1>1. a \in Nat /\ b \in Nat /\ a <= b /\ DOMAIN p = 1..a /\ DOMAIN k = 1..b /\ \A i \in 1..a : p[i] = k[i]
  BY BytesElements DEF Starts
<1>2. rest \in Bytes /\ Len(rest) = b - a /\ \A i \in 1..b - a : rest[i] = k[a + i]
  <2>0. k \in Seq(0..Top)
    BY DEF Bytes
  <2> DEFINE T == 0..Top
  <2> HIDE DEF T
  <2>1. k \in Seq(T)
    BY <2>0 DEF T
  <2>2. k \in Seq(T) /\ \A i \in 1..b : k[i] \in T
    BY <1>1, <2>1
  <2> DEFINE c == b - a
             r == [i \in 1..c |-> k[a + i]]
  <2>3. c \in Nat /\ \A i \in 1..c : a + i \in 1..b
    BY <1>1
  <2>4. rest = r
    BY <1>1, <2>2
  <2>5. r \in [1..c -> T]
    BY <2>2, <2>3
  <2>6. \A i \in 1..c : r[i] = k[a + i]
    OBVIOUS
  <2> HIDE DEF r, c
  <2>7. r \in Seq(T) /\ Len(r) = c
    BY <2>3, <2>5
  <2> HIDE DEF rest
  <2> QED BY <2>4, <2>6, <2>7 DEF c, T, Bytes
<1> HIDE DEF rest
<1>3. p \o rest \in Bytes /\ Len(p \o rest) = b
  <2>1. p \o rest \in Bytes /\ Len(p \o rest) = a + Len(rest)
    BY <1>2, ConcatLen
  <2>2. a + (b - a) = b
    BY <1>1
  <2> QED BY <1>2, <2>1, <2>2
<1>4. ASSUME NEW i \in 1..b PROVE (p \o rest)[i] = k[i]
  <2>1. CASE i \in 1..a
    BY <1>1, <1>2, <2>1, ConcatBytes
  <2>2. CASE i \notin 1..a
    <3>1. i - a \in 1..b - a /\ a + (i - a) = i
      BY <1>1, <2>2
    <3>2. \A j \in 1..Len(rest) : (p \o rest)[Len(p) + j] = rest[j]
      BY <1>2, ConcatBytes
    <3>3. (p \o rest)[a + (i - a)] = rest[i - a]
      BY <1>2, <3>1, <3>2
    <3> QED BY <1>2, <3>1, <3>3
  <2> QED BY <2>1, <2>2
<1>5. k = [i \in 1..b |-> k[i]] /\ p \o rest = [i \in 1..b |-> (p \o rest)[i]]
  <2> DEFINE q == p \o rest
  <2>1. q \in Seq(0..Top) /\ Len(q) = b /\ k \in Seq(0..Top)
    BY <1>3 DEF Bytes
  <2> HIDE DEF q
  <2>2. k = [i \in 1..b |-> k[i]] /\ q = [i \in 1..b |-> q[i]]
    BY <1>1, <2>1
  <2> QED BY <2>2 DEF q
<1>6. k = p \o rest
  BY <1>4, <1>5
<1> QED BY <1>2, <1>6 DEF rest

\* The upper bound of a prefix is a bound.
LEMMA PastPrefixBound ==
  ASSUME NEW p \in Bytes
  PROVE  IsBound(PastPrefix(p, "excluded"))
<1>1. CASE PrefixUpperBound(p) = <<>>
  <2>1. <<>> \in Bytes
    BY DEF Bytes
  <2> QED BY <1>1, <2>1 DEF PastPrefix, Unbounded, IsBound
<1>2. CASE PrefixUpperBound(p) # <<>>
  <2>1. PrefixUpperBound(p)[1] \in Bytes
    BY <1>2, UpperBoundShape
  <2> QED BY <1>2, <2>1 DEF PastPrefix, IsBound
<1> QED BY <1>1, <1>2

\* Between the bounds of a table scan lie the keys of the table whose own keys
\* lie between the caller's bounds (table_scan_bounds).
LEMMA TableBounds ==
  ASSUME NEW table \in Names, NEW start, IsBound(start), NEW end, IsBound(end)
  PROVE  LET lo == TableBound(table, start, Included(TablePrefix(table)))
             hi == TableBound(table, end, PastPrefix(TablePrefix(table), "excluded"))
         IN  /\ IsBound(lo) /\ IsBound(hi)
             /\ \A k \in Bytes : (Above(lo, k) /\ Below(hi, k)) <=> InScan(table, start, end, k)
<1> DEFINE p == TablePrefix(table)
           past == PastPrefix(p, "excluded")
           lo == TableBound(table, start, Included(p))
           hi == TableBound(table, end, past)
           Sides == {"unbounded", "included", "excluded"}
<1>1. p \in Bytes
  BY NamePrefix DEF TablePrefix
<1>2. IsBound(past)
  BY <1>1, PastPrefixBound
<1>3. /\ start \in [side : Sides, v : Bytes] /\ start.side \in Sides /\ start.v \in Bytes
      /\ end \in [side : Sides, v : Bytes] /\ end.side \in Sides /\ end.v \in Bytes
  BY DEF IsBound
<1> DEFINE first == p \o start.v  last == p \o end.v
<1>4. EncodeKey(table, start.v) = first /\ EncodeKey(table, end.v) = last
  BY DEF EncodeKey
<1> HIDE DEF p, past
<1>5. first \in Bytes /\ last \in Bytes
  BY <1>1, <1>3, ConcatLen
<1> HIDE DEF first, last
<1>6. /\ start.side = "unbounded" => lo = Included(p)
      /\ start.side # "unbounded" => lo = [side |-> start.side, v |-> first]
      /\ end.side = "unbounded" => hi = past
      /\ end.side # "unbounded" => hi = [side |-> end.side, v |-> last]
  <2>1. start = [side |-> start.side, v |-> start.v] /\ end = [side |-> end.side, v |-> end.v]
    BY <1>3
  <2> QED BY <1>4, <2>1 DEF TableBound
<1> HIDE DEF lo, hi
<1>a. /\ start.side = "unbounded" => lo.side = "included" /\ lo.v = p
      /\ start.side # "unbounded" => lo.side = start.side /\ lo.v = first
      /\ end.side # "unbounded" => hi.side = end.side /\ hi.v = last
  BY <1>6 DEF Included
<1>7. IsBound(lo) /\ IsBound(hi)
  <2>1. IsBound(Included(p))
    BY <1>1 DEF IsBound, Included
  <2>2. start.side # "unbounded" => IsBound(lo)
    BY <1>3, <1>5, <1>6 DEF IsBound
  <2>3. end.side # "unbounded" => IsBound(hi)
    BY <1>3, <1>5, <1>6 DEF IsBound
  <2> QED BY <1>2, <1>6, <2>1, <2>2, <2>3
<1>8. \A k \in Bytes : Below(past, k) <=> (Less(k, p) \/ Starts(p, k))
  BY <1>1, ScanPrefixExact DEF past
<1>9. ASSUME NEW k \in Bytes, Above(lo, k), Below(hi, k) PROVE Starts(p, k)
  <2>1. ~Less(k, p)
    <3>1. CASE start.side = "unbounded"
      BY <1>a, <1>9, <3>1 DEF Above
    <3>2. CASE start.side # "unbounded"
      <4> DEFINE q == first
      <4>1. lo.side # "unbounded" /\ lo.v = q
        BY <1>a, <3>2
      <4>2. Starts(p, q) /\ q \in Bytes
        BY <1>1, <1>3, <1>5, ConcatBytes DEF first
      <4> HIDE DEF q
      <4>3. ~Less(k, q)
        BY <1>7, <1>9, <4>1, BoundFacts
      <4>4. p = q \/ Less(p, q)
        BY <1>1, <4>2, StartsOrder
      <4> QED BY <1>1, <4>2, <4>3, <4>4, LessTransitive
    <3> QED BY <3>1, <3>2
  <2>2. Below(past, k)
    <3>1. CASE end.side = "unbounded"
      BY <1>6, <1>9, <3>1
    <3>2. CASE end.side # "unbounded"
      <4> DEFINE q == last
      <4>1. hi.side # "unbounded" /\ hi.v = q
        BY <1>a, <3>2
      <4>2. Starts(p, q) /\ q \in Bytes
        BY <1>1, <1>3, <1>5, ConcatBytes DEF last
      <4> HIDE DEF q
      <4>3. ~Less(q, k)
        BY <1>7, <1>9, <4>1, BoundFacts
      <4>4. Below(past, q)
        BY <1>8, <4>2
      <4>5. k = q \/ Less(k, q)
        BY <4>2, <4>3, LessTotal
      <4> QED BY <1>2, <4>2, <4>4, <4>5, BoundFacts
    <3> QED BY <3>1, <3>2
  <2> QED BY <1>8, <2>1, <2>2
<1>10. ASSUME NEW k \in Bytes, Starts(p, k)
       PROVE  /\ Above(lo, k) <=> Above(start, Stripped(table, k))
              /\ Below(hi, k) <=> Below(end, Stripped(table, k))
  <2> DEFINE r == Stripped(table, k)
  <2>1. r \in Bytes /\ k = p \o r
    BY <1>1, <1>10, StrippedRest DEF Stripped, p
  <2>2. ~Less(k, p) /\ Below(past, k)
    BY <1>1, <1>8, <1>10, StartsOrder
  <2> HIDE DEF r
  <2>3. /\ Less(k, first) <=> Less(r, start.v)
        /\ Less(first, k) <=> Less(start.v, r)
        /\ Less(k, last) <=> Less(r, end.v)
        /\ Less(last, k) <=> Less(end.v, r)
    BY <1>1, <1>3, <2>1, Prefixed DEF first, last
  <2>4. Above(lo, k) <=> Above(start, r)
    <3>1. CASE start.side = "unbounded"
      BY <1>a, <2>2, <3>1 DEF Above
    <3>2. CASE start.side = "included"
      BY <1>a, <2>3, <3>2 DEF Above
    <3>3. CASE start.side = "excluded"
      BY <1>a, <2>3, <3>3 DEF Above
    <3> QED BY <1>3, <3>1, <3>2, <3>3
  <2>5. Below(hi, k) <=> Below(end, r)
    <3>1. CASE end.side = "unbounded"
      BY <1>6, <2>2, <3>1 DEF Below
    <3>2. CASE end.side = "included"
      BY <1>a, <2>3, <3>2 DEF Below
    <3>3. CASE end.side = "excluded"
      BY <1>a, <2>3, <3>3 DEF Below
    <3> QED BY <1>3, <3>1, <3>2, <3>3
  <2> QED BY <2>4, <2>5 DEF r
<1>11. \A k \in Bytes : (Above(lo, k) /\ Below(hi, k)) <=> InScan(table, start, end, k)
  BY <1>9, <1>10 DEF InScan, p
<1> QED BY <1>7, <1>11 DEF lo, hi, past, p

\* A list that agrees with the beginning of another is a prefix of it.
LEMMA AgreeingPrefix ==
  ASSUME NEW M \in Nat, NEW N \in Nat, M <= N, NEW a, NEW b,
         a = [i \in 1..M |-> a[i]], b = [i \in 1..N |-> b[i]], \A i \in 1..M : a[i] = b[i]
  PROVE  IsPrefix(a, b)
<1> DEFINE X == {a[i] : i \in 1..M}  Y == {b[i] : i \in 1..N}
<1>1. a \in [1..M -> X] /\ b \in [1..N -> Y]
  OBVIOUS
<1> HIDE DEF X, Y
<1>2. a \in Seq(X) /\ Len(a) = M /\ b \in Seq(Y) /\ Len(b) = N
  BY <1>1
<1>3. SubSeq(a, 1, M) = [i \in 1..M |-> a[i]] /\ SubSeq(b, 1, M) = [i \in 1..M |-> b[i]]
  BY <1>2
<1> QED BY <1>2, <1>3 DEF IsPrefix

\* A scan of a table returns exactly the live keys of the table that lie between
\* the bounds, each once, in order and with its newest value; if it fails, what
\* it returned before is the beginning of that list and some table is damaged.
\* It holds for every table name and bounds, every number and content of layers,
\* every cut into blocks and all damage to them (engine/tx.rs scan,
\* sstable/cursor.rs, compaction.rs MergeIter, keys.rs).
THEOREM ScansExact ==
  ASSUME NEW s, NEW pending, IsStore(s, pending), NEW table \in Names,
         NEW start, IsBound(start), NEW end, IsBound(end)
  PROVE  ScanExact(s, pending, table, start, end)
<1> DEFINE stack == Stack(s, pending)
           lo == TableBound(table, start, Included(TablePrefix(table)))
           hi == TableBound(table, end, PastPrefix(TablePrefix(table), "excluded"))
           out == Merge(ScanSources(s, pending, lo, hi))
           part == Between(Live(stack), lo, hi)
           found == Entries([k \in {x \in LiveKeys(stack) : InScan(table, start, end, x)} |-> Visible(stack, k)])
           Own(x) == [x EXCEPT !.k = Stripped(table, @)]
           got == [i \in DOMAIN out.list |-> Own(out.list[i])]
           want == [i \in DOMAIN found |-> Own(found[i])]
           damaged == \E i \in DOMAIN s.ssts : s.ssts[i].bad # {}
<1>1. /\ IsBound(lo) /\ IsBound(hi)
      /\ \A k \in Bytes : (Above(lo, k) /\ Below(hi, k)) <=> InScan(table, start, end, k)
  BY TableBounds
<1> HIDE DEF lo, hi
<1>2. Yields(out, part) /\ IsLayer(part) /\ (out.fails => damaged)
  BY <1>1, ScanYields
<1>3. LiveKeys(stack) \subseteq Bytes
  <2> DEFINE M == Len(pending \o s.mems)  N == Len(s.ssts)
  <2>1. M \in Nat /\ N \in Nat /\ DOMAIN stack = 1..M + N /\ \A j \in 1..M + N : IsLayer(stack[j])
    BY StoreLayers
  <2> HIDE DEF M, N, stack
  <2> QED BY <2>1 DEF LiveKeys, IsLayer
<1>4. found = Entries(part)
  <2> HIDE DEF stack
  <2>1. part = [k \in {x \in LiveKeys(stack) : Above(lo, x) /\ Below(hi, x)} |-> Visible(stack, k)]
    BY DEF Live, Between
  <2>2. {x \in LiveKeys(stack) : Above(lo, x) /\ Below(hi, x)} = {x \in LiveKeys(stack) : InScan(table, start, end, x)}
    BY <1>1, <1>3
  <2> QED BY <2>1, <2>2
<1>5. ScanTable(s, pending, table, start, end) = [list |-> got, fails |-> out.fails]
  BY Zenon DEF ScanTable, lo, hi
<1> HIDE DEF out, part, found, Own, damaged
<1>6. /\ Len(out.list) \in Nat /\ DOMAIN out.list = 1..Len(out.list)
      /\ Len(found) \in Nat /\ DOMAIN found = 1..Len(found)
      /\ Len(out.list) <= Len(found) /\ \A i \in 1..Len(out.list) : out.list[i] = found[i]
      /\ ~out.fails => out.list = found
  <2>1. Yields([list |-> Entries(part), fails |-> FALSE], part)
    BY <1>2, EntriesYield
  <2>2. out.list \in Seq(EntrySet(part)) /\ Entries(part) \in Seq(EntrySet(part))
    BY <1>2, <2>1 DEF Yields
  <2>3. Len(out.list) \in Nat /\ DOMAIN out.list = 1..Len(out.list)
    BY <2>2, EntryFacts
  <2>4. Len(found) \in Nat /\ DOMAIN found = 1..Len(found)
    BY <1>4, <2>2, EntryFacts
  <2> QED BY <1>2, <1>4, <2>3, <2>4, YieldsUnique
<1>7. IsPrefix(got, want) /\ (~out.fails => got = want)
  <2> DEFINE m == Len(out.list)  n == Len(found)
  <2>1. /\ got = [i \in 1..m |-> got[i]] /\ want = [i \in 1..n |-> want[i]]
        /\ \A i \in 1..m : got[i] = want[i]
    BY <1>6
  <2>2. ~out.fails => got = want
    BY <1>6
  <2>3. m \in Nat /\ n \in Nat /\ m <= n
    BY <1>6
  <2> HIDE DEF m, n, got, want
  <2>4. IsPrefix(got, want)
    BY <2>1, <2>3, AgreeingPrefix
  <2> QED BY <2>2, <2>4
<1> HIDE DEF got
<1>8. /\ ScanTable(s, pending, table, start, end).list = got
      /\ ScanTable(s, pending, table, start, end).fails = out.fails
  BY <1>5
<1>9. ScanExact(s, pending, table, start, end) <=>
         IF ScanTable(s, pending, table, start, end).fails
         THEN IsPrefix(ScanTable(s, pending, table, start, end).list, want) /\ damaged
         ELSE ScanTable(s, pending, table, start, end).list = want
  BY Zenon DEF ScanExact, found, Own, damaged
<1> QED BY <1>2, <1>7, <1>8, <1>9

-----------------------------------------------------------------------------
(* Compaction and backup *)

\* A table verifies exactly if none of its blocks is damaged.
LEMMA VerifyExact ==
  ASSUME NEW sst, IsTable(sst)
  PROVE  Verify(sst) <=> sst.bad = {}
<1>1. sst.count = Cardinality(DOMAIN LayerOf(sst))
  BY DEF IsTable
<1>2. Len(FlattenSeq(sst.blocks)) = Cardinality(DOMAIN LayerOf(sst))
  BY LayerOfFacts
<1> QED BY <1>1, <1>2 DEF Verify

\* A table written of the entries of a layer holds that layer: its entries in
\* order, and for each key its entry.
LEMMA WrittenLayer ==
  ASSUME NEW layer, IsLayer(layer), NEW blockSize
  PROVE  LET sst == Write(Entries(layer), blockSize) IN
         /\ IsTable(sst) /\ sst.bad = {} /\ FlattenSeq(sst.blocks) = Entries(layer)
         /\ \A k \in Bytes : SstGet(sst, k).found = IF k \in DOMAIN layer THEN <<layer[k]>> ELSE <<>>
<1> DEFINE list == Entries(layer)
           sst == Write(list, blockSize)
           E == EntrySet(layer)
           flat == FlattenSeq(sst.blocks)
<1>1. list \in Seq(E) /\ Rising(list) /\ \A k \in DOMAIN layer : Has(list, k)
  <2> DEFINE src == [list |-> list, fails |-> FALSE]
  <2>1. Yields(src, layer) /\ src.list = list /\ src.fails = FALSE
    BY EntriesYield
  <2> HIDE DEF src
  <2> QED BY <2>1 DEF Yields
<1> HIDE DEF list, E
<1>2. /\ DOMAIN list = 1..Len(list) /\ Len(list) \in Nat
      /\ \A i \in DOMAIN list : /\ list[i] \in E /\ list[i].k \in DOMAIN layer
                                /\ list[i] = [k |-> list[i].k, e |-> layer[list[i].k]]
                                /\ list[i].e = layer[list[i].k]
  BY <1>1, EntryFacts DEF E
<1>3. \A i \in DOMAIN list : list[i] = [k |-> list[i].k, e |-> list[i].e] /\ list[i].k \in Bytes
  BY <1>2 DEF IsLayer
<1>4. \A i, j \in DOMAIN list : i < j => Less(list[i].k, list[j].k)
  BY <1>1 DEF Rising
<1>5. EntriesIn(sst) = ToSet(list) /\ sst.bad = {} /\ IsTable(sst)
  BY <1>1, <1>3, <1>4, WrittenTables
<1>6. ToSet(list) = E
  <2>1. ToSet(list) \subseteq E
    BY <1>2, Zenon DEF ToSet
  <2>2. ASSUME NEW x \in E PROVE x \in ToSet(list)
    <3>1. PICK k \in DOMAIN layer : x = [k |-> k, e |-> layer[k]]
      BY <2>2 DEF E, EntrySet
    <3>2. PICK i \in DOMAIN list : list[i].k = k
      BY <1>1 DEF Has
    <3>3. list[i] = x
      BY <1>2, <3>1, <3>2
    <3> QED BY <3>3, Zenon DEF ToSet
  <2> QED BY <2>1, <2>2
<1> HIDE DEF sst
<1>7. flat \in Seq(E) /\ Rising(flat) /\ \A x \in E : \E a \in DOMAIN flat : flat[a] = x
  BY <1>5, <1>6, TableFlat
<1> HIDE DEF flat
<1>8. flat = list
  <2> DEFINE src == [list |-> flat, fails |-> FALSE]
  <2>1. src.list = flat /\ src.fails = FALSE
    OBVIOUS
  <2> HIDE DEF src
  <2>2. ASSUME NEW k \in DOMAIN layer PROVE Has(flat, k)
    <3> DEFINE x == [k |-> k, e |-> layer[k]]
    <3>1. x \in E /\ x.k = k
      BY DEF E, EntrySet
    <3> HIDE DEF x
    <3> QED BY <1>7, <3>1 DEF Has
  <2>3. Yields(src, layer)
    BY <1>7, <2>1, <2>2 DEF Yields, E
  <2> QED BY <2>1, <2>3, YieldsUnique DEF list
<1>9. ASSUME NEW k \in Bytes PROVE SstGet(sst, k).found = IF k \in DOMAIN layer THEN <<layer[k]>> ELSE <<>>
  <2> DEFINE held == LayerOf(sst)
  <2>1. EntrySet(held) = E /\ \A x \in E : x.k \in DOMAIN held /\ held[x.k] = x.e
    BY <1>5, <1>6, LayerOfFacts
  <2>2. ~SstGet(sst, k).bad
    BY <1>5, SstGetExact
  <2>3. /\ k \in DOMAIN held => SstGet(sst, k).found = <<held[k]>>
        /\ k \notin DOMAIN held => SstGet(sst, k).found = <<>>
    BY <1>5, <2>2, SstGetExact
  <2> HIDE DEF held
  <2>4. CASE k \in DOMAIN layer
    <3> DEFINE x == [k |-> k, e |-> layer[k]]
    <3>1. x \in E /\ x.k = k /\ x.e = layer[k]
      BY <2>4 DEF E, EntrySet
    <3> HIDE DEF x
    <3>2. k \in DOMAIN held /\ held[k] = layer[k]
      BY <2>1, <3>1
    <3> QED BY <2>3, <2>4, <3>2
  <2>5. CASE k \notin DOMAIN layer
    <3>1. k \notin DOMAIN held
      <4> SUFFICES ASSUME k \in DOMAIN held PROVE FALSE
        OBVIOUS
      <4> DEFINE x == [k |-> k, e |-> held[k]]
      <4>1. x \in EntrySet(held) /\ x.k = k
        BY DEF EntrySet
      <4> HIDE DEF x
      <4>2. x.k \in DOMAIN layer
        BY <2>1, <4>1 DEF E, EntrySet
      <4> QED BY <2>5, <4>1, <4>2
    <3> QED BY <2>3, <2>5, <3>1
  <2> QED BY <2>4, <2>5
<1> QED BY <1>5, <1>8, <1>9 DEF list, sst, flat

\* Compaction and backup write one table that verifies, holds the live keys in
\* order and answers for each of them, and for deleted ones nothing; they write
\* none exactly if a block of some table is damaged (compaction.rs, backup_to).
THEOREM MergesExact ==
  ASSUME NEW s, IsStore(s, <<>>), NEW blockSize
  PROVE  MergedExact(s, blockSize)
<1> DEFINE stack == Stack(s, <<>>)
           out == Merge(ScanSources(s, <<>>, Unbounded, Unbounded))
           sst == Write(out.list, blockSize)
           c == WriteMerged(s, blockSize)
           damaged == \E i \in DOMAIN s.ssts : ~Verify(s.ssts[i])
           AllKeys == UNION {DOMAIN stack[i] : i \in DOMAIN stack}
<1>1. IsBound(Unbounded)
  <2>1. <<>> \in Bytes
    BY DEF Bytes
  <2> QED BY <2>1 DEF IsBound, Unbounded
<1>2. c = IF out.fails THEN <<>> ELSE <<sst>>
  BY Zenon DEF WriteMerged
<1>3. AllKeys \subseteq Bytes /\ \A i \in DOMAIN s.ssts : IsTable(s.ssts[i])
  <2> DEFINE M == Len(<<>> \o s.mems)  N == Len(s.ssts)
  <2>1. /\ M \in Nat /\ N \in Nat /\ DOMAIN stack = 1..M + N /\ \A j \in 1..M + N : IsLayer(stack[j])
        /\ DOMAIN s.ssts = 1..N /\ \A i \in 1..N : IsTable(s.ssts[i])
    BY StoreLayers
  <2> HIDE DEF M, N, stack
  <2> QED BY <2>1 DEF IsLayer
<1>4. damaged <=> \E i \in DOMAIN s.ssts : s.ssts[i].bad # {}
  BY <1>3, VerifyExact
<1> HIDE DEF damaged
<1>5. Between(Live(stack), Unbounded, Unbounded) = Live(stack)
  <2>1. \A k : Above(Unbounded, k) /\ Below(Unbounded, k)
    BY DEF Above, Below, Unbounded
  <2>2. DOMAIN Live(stack) = LiveKeys(stack) /\ Live(stack) = [k \in LiveKeys(stack) |-> Live(stack)[k]]
    BY DEF Live
  <2>3. {x \in DOMAIN Live(stack) : Above(Unbounded, x) /\ Below(Unbounded, x)} = LiveKeys(stack)
    BY <2>1, <2>2
  <2> QED BY <2>2, <2>3 DEF Between
<1>6. Yields(out, Live(stack)) /\ IsLayer(Live(stack)) /\ (out.fails <=> damaged)
  <2>1. /\ Yields(out, Between(Live(stack), Unbounded, Unbounded)) /\ IsLayer(Between(Live(stack), Unbounded, Unbounded))
        /\ out.fails <=> \E i \in DOMAIN s.ssts : s.ssts[i].bad # {}
    BY <1>1, ScanYields
  <2> HIDE DEF out, stack
  <2> QED BY <1>4, <1>5, <2>1
<1> HIDE DEF out, stack, AllKeys
<1>7. ASSUME ~out.fails
      PROVE  /\ Verify(sst) /\ FlattenSeq(sst.blocks) = Entries(Live(stack))
             /\ \A k \in AllKeys : SstGet(sst, k).found = IF Visible(stack, k) = <<>> THEN <<>> ELSE <<Visible(stack, k)>>
  <2>1. sst = Write(Entries(Live(stack)), blockSize)
    BY <1>6, <1>7, YieldsUnique
  <2> HIDE DEF sst
  <2>2. /\ IsTable(sst) /\ sst.bad = {} /\ FlattenSeq(sst.blocks) = Entries(Live(stack))
        /\ \A k \in Bytes : SstGet(sst, k).found = IF k \in DOMAIN Live(stack) THEN <<Live(stack)[k]>> ELSE <<>>
    BY <1>6, <2>1, WrittenLayer
  <2>3. ASSUME NEW k \in AllKeys
        PROVE  SstGet(sst, k).found = IF Visible(stack, k) = <<>> THEN <<>> ELSE <<Visible(stack, k)>>
    <3>1. k \in DOMAIN Live(stack) <=> Visible(stack, k) # <<>>
      BY <2>3 DEF AllKeys, Live, LiveKeys
    <3>2. k \in DOMAIN Live(stack) => Live(stack)[k] = Visible(stack, k)
      BY DEF Live
    <3>3. k \in Bytes
      BY <1>3
    <3> QED BY <2>2, <3>1, <3>2, <3>3
  <2> QED BY <2>2, <2>3, VerifyExact
<1> HIDE DEF sst, c
<1>8. /\ (c = <<>>) <=> damaged
      /\ c # <<>> => ~out.fails /\ c[1] = sst
  <2>1. <<sst>> # <<>> /\ <<sst>>[1] = sst
    OBVIOUS
  <2> QED BY <1>2, <1>6, <2>1
<1>9. MergedExact(s, blockSize) <=>
        /\ (c = <<>>) <=> damaged
        /\ c # <<>> => /\ Verify(c[1])
                       /\ FlattenSeq(c[1].blocks) = Entries(Live(stack))
                       /\ \A k \in AllKeys :
                              SstGet(c[1], k).found = IF Visible(stack, k) = <<>> THEN <<>> ELSE <<Visible(stack, k)>>
  BY Zenon DEF MergedExact, c, damaged, stack, AllKeys
<1> QED BY <1>7, <1>8, <1>9

\* A sequence over a set is one over a larger set.
LEMMA WiderSeq ==
  ASSUME NEW A, NEW B, A \subseteq B, NEW s \in Seq(A)
  PROVE  s \in Seq(B)
<1>1. s \in [1..Len(s) -> A] /\ Len(s) \in Nat
  OBVIOUS
<1>2. s \in [1..Len(s) -> B]
  BY <1>1
<1> QED BY <1>1, <1>2

-----------------------------------------------------------------------------
(* The C functions *)

ArgKinds == {"str", "vector", "props", "params", "keys", "lenient"}
FnType == [handle : {"none", "engine", "tx"}, args : Seq(ArgKinds),
           gives : {"handle", "status", "string", "id", "optional"}]

\* A description of a C function is of the type of descriptions.
LEMMA FnTyped ==
  ASSUME NEW h \in {"none", "engine", "tx"}, NEW a \in Seq(ArgKinds),
         NEW g \in {"handle", "status", "string", "id", "optional"}
  PROVE  Fn(h, a, g) \in FnType
  BY DEF Fn, FnType

\* So are all the C functions.
LEMMA FunctionsTyped == \A fn \in Functions : fn \in FnType
<1>1. \A a \in ArgKinds : <<>> \in Seq(ArgKinds) /\ <<a>> \in Seq(ArgKinds)
  OBVIOUS
<1>2. \A a, b \in ArgKinds : <<a, b>> \in Seq(ArgKinds)
  OBVIOUS
<1>3. \A a, b, c \in ArgKinds : <<a, b, c>> \in Seq(ArgKinds)
  OBVIOUS
<1>4. \A a, b, c, d \in ArgKinds : <<a, b, c, d>> \in Seq(ArgKinds)
  OBVIOUS
<1>5. "str" \in ArgKinds /\ "vector" \in ArgKinds /\ "props" \in ArgKinds /\ "params" \in ArgKinds
      /\ "keys" \in ArgKinds /\ "lenient" \in ArgKinds
  BY DEF ArgKinds
<1>6. bkndb_open \in FnType /\ bkndb_in_memory \in FnType /\ bkndb_close \in FnType
      /\ bkndb_compact \in FnType /\ bkndb_backup \in FnType /\ bkndb_stats \in FnType
  BY <1>1, <1>5, FnTyped DEF bkndb_open, bkndb_in_memory, bkndb_close, bkndb_compact, bkndb_backup, bkndb_stats
<1>7. bkndb_sql \in FnType /\ bkndb_graph_query \in FnType /\ bkndb_create_node \in FnType
      /\ bkndb_update_node \in FnType /\ bkndb_create_edge \in FnType /\ bkndb_create_fulltext_index \in FnType
      /\ bkndb_tx_sql \in FnType
  BY <1>2, <1>5, FnTyped DEF bkndb_sql, bkndb_graph_query, bkndb_create_node, bkndb_update_node, bkndb_create_edge,
     bkndb_create_fulltext_index, bkndb_tx_sql
<1>8. bkndb_get_node \in FnType /\ bkndb_delete_node \in FnType /\ bkndb_get_edge \in FnType
      /\ bkndb_delete_edge \in FnType /\ bkndb_neighbors \in FnType /\ bkndb_begin_transaction \in FnType
      /\ bkndb_tx_commit \in FnType /\ bkndb_tx_rollback \in FnType
  BY <1>1, <1>5, FnTyped DEF bkndb_get_node, bkndb_delete_node, bkndb_get_edge, bkndb_delete_edge, bkndb_neighbors,
     bkndb_begin_transaction, bkndb_tx_commit, bkndb_tx_rollback
<1>9. bkndb_search_text \in FnType /\ bkndb_create_vector_index \in FnType /\ bkndb_search_vector \in FnType
  BY <1>3, <1>4, <1>5, FnTyped DEF bkndb_search_text, bkndb_create_vector_index, bkndb_search_vector
<1> QED
  BY <1>6, <1>7, <1>8, <1>9, Zenon DEF Functions

\* An argument converts exactly when the contract says it must.
LEMMA ConvertsExact ==
  ASSUME NEW arg \in ArgKinds, NEW text \in Texts
  PROVE  Converts(arg, text) <=>
            /\ arg = "str" => IsStr(text)
            /\ arg = "vector" => text \notin {"null", "empty"}
            /\ arg \in {"props", "params", "keys"} =>
                   /\ text \notin {"malformed", "scalar"}
                   /\ arg = "props" => text # "array"
                   /\ arg = "keys" => text # "object"
  BY DEF ArgKinds, Texts, Converts, IsStr, PropsOk, ParamsOk, KeysOk, Absent

\* Every call of every C function keeps the contract: the returned value alone
\* tells failure, a failed call leaves the out parameter as it was, and the
\* method ran exactly when handle and arguments were good (c_api.rs).
LEMMA CallsContract ==
  ASSUME NEW fn \in Functions, NEW c \in Calls(fn)
  PROVE  CallContract(fn, c)
<1>1. /\ fn.handle \in {"none", "engine", "tx"} /\ fn.args \in Seq(ArgKinds)
      /\ fn.gives \in {"handle", "status", "string", "id", "optional"}
  BY FunctionsTyped DEF FnType
<1>2. /\ c.live \in BOOLEAN /\ c.slot \in BOOLEAN /\ c.wantsOut \in BOOLEAN
      /\ c.texts \in [DOMAIN fn.args -> Texts] /\ c.answer \in {"value", "nothing", "error"}
      /\ fn.handle = "none" => c.live
      /\ c.answer = "nothing" => fn.gives = "optional"
  BY DEF Calls
<1> DEFINE ready == (fn.handle = "none" \/ c.live) /\ \A i \in DOMAIN fn.args : Converts(fn.args[i], c.texts[i])
           due == /\ fn.handle # "none" => c.live
                  /\ \A i \in DOMAIN fn.args :
                        /\ fn.args[i] = "str" => IsStr(c.texts[i])
                        /\ fn.args[i] = "vector" => c.texts[i] \notin {"null", "empty"}
                        /\ fn.args[i] \in {"props", "params", "keys"} =>
                               /\ c.texts[i] \notin {"malformed", "scalar"}
                               /\ fn.args[i] = "props" => c.texts[i] # "array"
                               /\ fn.args[i] = "keys" => c.texts[i] # "object"
           r == CallFn(fn, c)
<1>3. ready <=> due
  <2>1. \A i \in DOMAIN fn.args : fn.args[i] \in ArgKinds /\ c.texts[i] \in Texts
    BY <1>1, <1>2
  <2>2. \A i \in DOMAIN fn.args :
           Converts(fn.args[i], c.texts[i]) <=>
                        /\ fn.args[i] = "str" => IsStr(c.texts[i])
                        /\ fn.args[i] = "vector" => c.texts[i] \notin {"null", "empty"}
                        /\ fn.args[i] \in {"props", "params", "keys"} =>
                               /\ c.texts[i] \notin {"malformed", "scalar"}
                               /\ fn.args[i] = "props" => c.texts[i] # "array"
                               /\ fn.args[i] = "keys" => c.texts[i] # "object"
    BY <2>1, ConvertsExact
  <2> QED BY <2>2, Zenon
<1>4. ready /\ c.answer = "error" => r = Refused(fn, c.slot, TRUE)
  BY DEF CallFn
<1>5. ready /\ c.answer # "error" => r = Answered(fn, c.slot, c.wantsOut, c.answer)
  BY DEF CallFn
<1>6. ~ready => r = Refused(fn, c.slot, FALSE)
  BY DEF CallFn
<1> HIDE DEF ready, due, r
<1>7. ASSUME NEW ran \in BOOLEAN
      PROVE  LET f == Refused(fn, c.slot, ran)
             IN  f.ret \in {"-1", "null"} /\ f.out = "stale" /\ f.ran = ran /\ (c.slot => f.err = "message")
  BY <1>1, <1>2 DEF Refused, Found
<1>8. LET f == Answered(fn, c.slot, c.wantsOut, c.answer)
      IN  f.ret \notin {"-1", "null"} /\ f.ran = TRUE /\ (c.slot => f.err = "null")
  BY <1>1, <1>2 DEF Answered, Found
<1> DEFINE failed == r.ret \in {"-1", "null"}
<1>9. /\ c.slot => ((failed <=> r.err = "message") /\ (~failed <=> r.err = "null"))
      /\ failed => r.out = "stale"
      /\ ~failed => r.ran
      /\ r.ran <=> ready
  <2>1. CASE ready /\ c.answer = "error"
    BY <1>4, <1>7, <2>1
  <2>2. CASE ready /\ c.answer # "error"
    BY <1>5, <1>8, <2>2
  <2>3. CASE ~ready
    BY <1>6, <1>7, <2>3
  <2> QED BY <2>1, <2>2, <2>3
<1> QED BY <1>3, <1>9, Zenon DEF CallContract, r, due

\* One node of a value through prop_to_json and json_to_prop, and through them
\* a second time.
LEMMA NodeThroughJson ==
  ASSUME NEW p \in [k : NodeKinds, v : Int], p.k = "int" => p.v \in -IntMax - 1..IntMax
  PROVE  LET once == NodeFromJson(NodeToJson(p)) IN
         /\ NodeFromJson(NodeToJson(once)) = once
         /\ p.k \in {"null", "bool", "int", "float", "str", "list", "map"} => once = p
         /\ p.k = "bytes" => once.k = "list"
         /\ p.k \in Containers => once.k \in {"list", "map"}
<1>0. p = [k |-> p.k, v |-> p.v] /\ p.v \in Int
  OBVIOUS
<1> DEFINE n == p.v
<1>1. CASE p.k \in {"null", "bool", "float", "str", "int"}
  <2>1. NodeToJson(p) = p
    BY <1>0, <1>1 DEF NodeToJson
  <2>2. NodeFromJson(p) = p
    BY <1>0, <1>1 DEF NodeFromJson
  <2> QED BY <1>1, <2>1, <2>2 DEF Containers
<1>2. CASE p.k \in {"list", "map", "bytes"}
  <2> DEFINE c == IF p.k = "map" THEN "map" ELSE "list"
             j == [k |-> IF p.k = "map" THEN "obj" ELSE "arr", v |-> n]
  <2>1. NodeToJson(p) = j
    BY <1>2 DEF NodeToJson
  <2>2. NodeFromJson(j) = [k |-> c, v |-> n]
    BY <1>2 DEF NodeFromJson
  <2>3. NodeToJson([k |-> c, v |-> n]) = j
    BY <1>2 DEF NodeToJson
  <2>4. p.k # "bytes" => [k |-> c, v |-> n] = p
    BY <1>0, <1>2
  <2>5. p.k = "bytes" => c = "list"
    OBVIOUS
  <2> HIDE DEF j
  <2>6. NodeFromJson(NodeToJson(p)) = [k |-> c, v |-> n] /\ NodeFromJson(NodeToJson([k |-> c, v |-> n])) = [k |-> c, v |-> n]
    BY <2>1, <2>2, <2>3
  <2> QED BY <1>2, <2>4, <2>5, <2>6
<1>3. CASE p.k \notin {"null", "bool", "float", "str", "int", "list", "map", "bytes"}
  <2>0. p.k \in {"inf", "byte", "timestamp", "uuid"}
    BY <1>3 DEF NodeKinds, Containers
  <2> DEFINE j == CASE p.k = "inf" -> JsonNull [] p.k = "uuid" -> [k |-> "str", v |-> n] [] OTHER -> [k |-> "int", v |-> n]
             o == NodeFromJson(j)
  <2>1. NodeToJson(p) = j
    BY <2>0 DEF NodeToJson
  <2>2. j = [k |-> j.k, v |-> j.v] /\ j.k \in {"null", "str", "int"} /\ j.v \in Int
    BY <1>0, <2>0 DEF JsonNull
  <2> HIDE DEF j
  <2>3. o = [k |-> o.k, v |-> j.v] /\ o.k \in {"null", "str", "int", "float"} /\ (o.k = "int" => j.v \in -IntMax - 1..IntMax)
    BY <2>2 DEF NodeFromJson
  <2> HIDE DEF o
  <2>4. NodeToJson(o) = o
    BY <2>3 DEF NodeToJson
  <2>5. NodeFromJson(o) = o
    BY <2>3 DEF NodeFromJson
  <2>6. NodeFromJson(NodeToJson(p)) = o
    BY <2>1 DEF o
  <2> QED BY <1>3, <2>0, <2>4, <2>5, <2>6 DEF Containers
<1> QED BY <1>1, <1>2, <1>3

\* A value as a whole changes at most once on its way through JSON.
LEMMA ValuesStable ==
  ASSUME NEW p, IsValue(p)
  PROVE  JsonStable(p)
<1> DEFINE once == json_to_prop(prop_to_json(p))
           N(x) == NodeFromJson(NodeToJson(x))
<1>1. once = [at \in DOMAIN p |-> N(p[at])]
  BY DEF json_to_prop, prop_to_json
<1>2. json_to_prop(prop_to_json(once)) = [at \in DOMAIN once |-> N(once[at])]
  BY DEF json_to_prop, prop_to_json
<1> HIDE DEF once
<1>3. ASSUME NEW at \in DOMAIN p
      PROVE  /\ once[at] = N(p[at]) /\ N(once[at]) = once[at]
             /\ p[at].k \in {"null", "bool", "int", "float", "str", "list", "map"} => once[at] = p[at]
             /\ p[at].k = "bytes" => once[at].k = "list"
             /\ p[at].k \in Containers => once[at].k \in {"list", "map"}
  <2>1. p[at] \in [k : NodeKinds, v : Int] /\ (p[at].k = "int" => p[at].v \in -IntMax - 1..IntMax)
    BY DEF IsValue
  <2>2. once[at] = N(p[at])
    BY <1>1
  <2> HIDE DEF N
  <2>3. LET o == N(p[at]) IN
         /\ N(o) = o
         /\ p[at].k \in {"null", "bool", "int", "float", "str", "list", "map"} => o = p[at]
         /\ p[at].k = "bytes" => o.k = "list"
         /\ p[at].k \in Containers => o.k \in {"list", "map"}
    BY <2>1, NodeThroughJson DEF N
  <2> QED BY <2>2, <2>3
<1> HIDE DEF N
<1>4. json_to_prop(prop_to_json(once)) = once
  <2>1. DOMAIN once = DOMAIN p
    BY <1>1
  <2>2. \A at \in DOMAIN once : N(once[at]) = once[at]
    BY <1>3, <2>1
  <2>3. once = [at \in DOMAIN once |-> once[at]]
    BY <1>1
  <2> QED BY <1>2, <2>2, <2>3
<1>5. ASSUME NEW at \in DOMAIN p, at # <<>> PROVE once[Front(at)].k \in {"list", "map"}
  <2>1. Front(at) \in DOMAIN p /\ p[Front(at)].k \in Containers
    BY <1>5 DEF IsValue
  <2> QED BY <1>3, <2>1
<1>6. \A at \in DOMAIN p :
           /\ p[at].k \in {"null", "bool", "int", "float", "str", "list", "map"} => once[at] = p[at]
           /\ p[at].k = "bytes" => once[at].k = "list"
           /\ at # <<>> => once[Front(at)].k \in {"list", "map"}
  BY <1>3, <1>5
<1> QED BY <1>4, <1>6 DEF JsonStable, once

-----------------------------------------------------------------------------
(* The invariants *)

\* Inputs stay among those the specification chooses from.
Chosen ==
    /\ input.kind = "none" => input.q \in Seeds
    /\ input.kind # "none" =>
           \E seed \in Seeds :
               \/ input.kind = "valueKey" /\ input.q \in ValueKeys(seed)
               \/ input.kind = "edgeKey" /\ input.q \in EdgeKeys(seed)
               \/ input.kind = "propKey" /\ input.q \in PropKeys(seed)
               \/ input.kind = "tableKey" /\ input.q \in TableKeys(seed)
               \/ input.kind = "snapshot" /\ input.q \in Snapshots(seed)
               \/ input.kind = "call" /\ input.q \in CCalls(seed)
               \/ input.kind = "prop" /\ input.q \in Props(seed)

\* The first input is a seed.
LEMMA ChosenInit == Init => Chosen
  BY DEF Init, Chosen

\* A step picks an input of one of the kinds for the seed.
LEMMA ChosenStep == Chosen /\ [EncodingNext]_input => Chosen'
<1> SUFFICES ASSUME Chosen, [EncodingNext]_input PROVE Chosen'
  OBVIOUS
<1>1. CASE UNCHANGED input
  BY <1>1 DEF Chosen
<1>2. CASE PickValueKey
  <2>1. input.q \in Seeds /\ \E q \in ValueKeys(input.q) : input' = [kind |-> "valueKey", q |-> q]
    BY <1>2 DEF Chosen, PickValueKey, Pick
  <2>2. input'.kind = "valueKey" /\ input'.q \in ValueKeys(input.q)
    BY <2>1
  <2> QED BY <2>1, <2>2, Zenon DEF Chosen
<1>3. CASE PickEdgeKey
  <2>1. input.q \in Seeds /\ \E q \in EdgeKeys(input.q) : input' = [kind |-> "edgeKey", q |-> q]
    BY <1>3 DEF Chosen, PickEdgeKey, Pick
  <2>2. input'.kind = "edgeKey" /\ input'.q \in EdgeKeys(input.q)
    BY <2>1
  <2> QED BY <2>1, <2>2, Zenon DEF Chosen
<1>4. CASE PickPropKey
  <2>1. input.q \in Seeds /\ \E q \in PropKeys(input.q) : input' = [kind |-> "propKey", q |-> q]
    BY <1>4 DEF Chosen, PickPropKey, Pick
  <2>2. input'.kind = "propKey" /\ input'.q \in PropKeys(input.q)
    BY <2>1
  <2> QED BY <2>1, <2>2, Zenon DEF Chosen
<1>5. CASE PickTableKey
  <2>1. input.q \in Seeds /\ \E q \in TableKeys(input.q) : input' = [kind |-> "tableKey", q |-> q]
    BY <1>5 DEF Chosen, PickTableKey, Pick
  <2>2. input'.kind = "tableKey" /\ input'.q \in TableKeys(input.q)
    BY <2>1
  <2> QED BY <2>1, <2>2, Zenon DEF Chosen
<1>6. CASE PickCall
  <2>1. input.q \in Seeds /\ \E q \in CCalls(input.q) : input' = [kind |-> "call", q |-> q]
    BY <1>6 DEF Chosen, PickCall, Pick
  <2>2. input'.kind = "call" /\ input'.q \in CCalls(input.q)
    BY <2>1
  <2> QED BY <2>1, <2>2, Zenon DEF Chosen
<1>7. CASE PickProp
  <2>1. input.q \in Seeds /\ \E q \in Props(input.q) : input' = [kind |-> "prop", q |-> q]
    BY <1>7 DEF Chosen, PickProp, Pick
  <2>2. input'.kind = "prop" /\ input'.q \in Props(input.q)
    BY <2>1
  <2> QED BY <2>1, <2>2, Zenon DEF Chosen
<1>8. CASE PickSnapshot
  <2>1. input.q \in Seeds /\ \E q \in Snapshots(input.q) : input' = [kind |-> "snapshot", q |-> q]
    BY <1>8 DEF Chosen, PickSnapshot, Pick
  <2>2. input'.kind = "snapshot" /\ input'.q \in Snapshots(input.q)
    BY <2>1
  <2> QED BY <2>1, <2>2, Zenon DEF Chosen
<1> QED BY <1>1, <1>2, <1>3, <1>4, <1>5, <1>6, <1>7, <1>8 DEF EncodingNext

\* The key lemmas for the inputs the assumption admits.
LEMMA ChosenKeys == Chosen => KeysExact
<1> SUFFICES ASSUME Chosen PROVE KeysExact
  OBVIOUS
<1> DEFINE q == input.q
<1>1. ASSUME input.kind = "valueKey" PROVE ValueKeysExact(q.kind, q.v, q.w, q.pkKind, q.pk)
  <2>1. PICK seed \in Seeds : q \in ValueKeys(seed)
    BY <1>1 DEF Chosen
  <2>2. /\ q.kind \in Kinds /\ q.v \in Values(q.kind) /\ q.w \in Values(q.kind)
        /\ q.pkKind \in Kinds /\ q.pk \in Values(q.pkKind)
    BY <2>1, InputsAssumption, Zenon
  <2> QED BY <2>2, RowKeysExact
<1>2. ASSUME input.kind = "edgeKey" PROVE AdjKeysExact(q.k, q.node, q.type)
  <2>1. PICK seed \in Seeds : q \in EdgeKeys(seed)
    BY <1>2 DEF Chosen
  <2>2. q.k \in EdgeFields /\ q.node \in Ids /\ q.type \in Names
    BY <2>1, InputsAssumption, Zenon
  <2> QED BY <2>2, EdgeKeysExact
<1>3. ASSUME input.kind = "propKey" PROVE PropKeysExact(q.k, q.label, q.property, q.v)
  <2>1. PICK seed \in Seeds : q \in PropKeys(seed)
    BY <1>3 DEF Chosen
  <2>2. /\ q.k.label \in Names /\ q.k.property \in Names /\ q.k.node \in Ids
        /\ q.k.kind \in Kinds /\ q.k.v \in Values(q.k.kind)
        /\ q.label \in Names /\ q.property \in Names /\ q.v \in Values(q.k.kind)
    BY <2>1, InputsAssumption, Zenon
  <2> QED BY <2>2, PropIndexKeysExact
<1>4. ASSUME input.kind = "tableKey" PROVE TableKeysExact(q.table, q.key, q.other, q.otherKey)
  <2>1. PICK seed \in Seeds : q \in TableKeys(seed)
    BY <1>4 DEF Chosen
  <2>2. q.table \in Names /\ q.key \in Bytes /\ q.other \in Names /\ q.otherKey \in Bytes
    BY <2>1, InputsAssumption, Zenon
  <2> QED BY <2>2, TablesKeysExact
<1> QED BY <1>1, <1>2, <1>3, <1>4 DEF KeysExact

\* The lemmas on the C functions for the inputs the assumption admits.
LEMMA ChosenCalls == Chosen => ApiContract
<1> SUFFICES ASSUME Chosen PROVE ApiContract
  OBVIOUS
<1> DEFINE q == input.q
<1>1. ASSUME input.kind = "call" PROVE CallContract(q.fn, q.c)
  <2>1. PICK seed \in Seeds : q \in CCalls(seed)
    BY <1>1 DEF Chosen
  <2>2. q.fn \in Functions /\ q.c \in Calls(q.fn)
    BY <2>1, InputsAssumption, Zenon
  <2> QED BY <2>2, CallsContract
<1>2. ASSUME input.kind = "prop" PROVE JsonStable(q)
  <2>1. PICK seed \in Seeds : q \in Props(seed)
    BY <1>2 DEF Chosen
  <2>2. IsValue(q)
    BY <2>1, InputsAssumption, Zenon
  <2> QED BY <2>2, ValuesStable
<1> QED BY <1>1, <1>2 DEF ApiContract

\* The theorems on the layers for the stores the assumption admits.
LEMMA ChosenStores == Chosen => StoreReadsExact
<1> SUFFICES ASSUME Chosen, input.kind = "snapshot" PROVE StoreReadsExact
  BY Zenon DEF StoreReadsExact
<1> DEFINE q == input.q
           s == q.s
           pending == q.pending
           ends == {Unbounded, Included(<< 1 >>), Excluded(<< 1 >>), Included(<< 2 >>), Excluded(<< 3 >>)}
<1>1. IsStore(s, pending)
  <2>1. PICK seed \in Seeds : q \in Snapshots(seed)
    BY DEF Chosen
  <2> QED BY <2>1, InputsAssumption, Zenon
<1>2. IsStore(s, <<>>)
  <2>1. ToSet(<<>>) = {}
    BY DEF ToSet
  <2>2. <<>> \in Seq(ToSet(<<>>))
    OBVIOUS
  <2> QED BY <1>1, <2>1, <2>2, Zenon DEF IsStore
<1>3. {1, 2, 3} \subseteq 0..Top /\ Base > 2
  BY CodecAssumption DEF Top
<1>4. <<>> \in Bytes /\ << 1 >> \in Bytes /\ << 2 >> \in Bytes /\ << 3 >> \in Bytes /\ << 1, 1 >> \in Bytes
  <2> DEFINE T == 0..Top
  <2>1. 1 \in T /\ 2 \in T /\ 3 \in T
    BY <1>3
  <2> HIDE DEF T
  <2>2. <<>> \in Seq(T) /\ << 1 >> \in Seq(T) /\ << 2 >> \in Seq(T) /\ << 3 >> \in Seq(T) /\ << 1, 1 >> \in Seq(T)
    BY <2>1
  <2> QED BY <2>2 DEF T, Bytes
<1>5. << 1 >> \in Names /\ << 1, 1 >> \in Names
  <2>1. Len(<< 1 >>) = 1 /\ Len(<< 1, 1 >>) = 2
    OBVIOUS
  <2>2. 1 < Base /\ 2 < Base
    BY CodecAssumption
  <2> QED BY <1>4, <2>1, <2>2 DEF Names
<1>6. \A b \in ends : IsBound(b)
  BY <1>4 DEF IsBound, Unbounded, Included, Excluded
<1> HIDE DEF q, s, pending, ends
<1>7. ASSUME NEW table \in {<< 1 >>, << 1, 1 >>}, NEW key \in {<<>>, << 1 >>, << 2 >>, << 3 >>}
      PROVE  GetExact(s, pending, EncodeKey(table, key))
  <2>1. table \in Names /\ key \in Bytes
    BY <1>4, <1>5
  <2>2. EncodeKey(table, key) \in Bytes
    <3>1. TablePrefix(table) \in Bytes
      BY <2>1, NamePrefix DEF TablePrefix
    <3> QED BY <2>1, <3>1, ConcatLen DEF EncodeKey
  <2> DEFINE M == ToSet(pending) \cup ToSet(s.mems)
  <2>3. pending \in Seq(M) /\ s.mems \in Seq(M) /\ s.ssts \in Seq(ToSet(s.ssts))
    BY <1>1, WiderSeq DEF IsStore
  <2>4. \A i \in DOMAIN s.ssts : IsTable(s.ssts[i])
    <3>1. \A i \in DOMAIN s.ssts : s.ssts[i] \in ToSet(s.ssts)
      BY Zenon DEF ToSet
    <3> QED BY <1>1, <3>1 DEF IsStore
  <2> HIDE DEF M
  <2> QED BY <2>2, <2>3, <2>4, PointReadsExact
<1>8. ASSUME NEW start \in ends, NEW end \in ends PROVE ScanExact(s, pending, << 1 >>, start, end)
  BY <1>1, <1>5, <1>6, ScansExact
<1>9. MergedExact(s, q.blockSize)
  BY <1>2, MergesExact
<1> QED BY <1>7, <1>8, <1>9, Zenon DEF StoreReadsExact, q, s, pending, ends

\* For every base and width, every value, name, id and key: the encoded keys of
\* rows, index entries, edges, properties and tables sort, scan and decode as
\* what is in them does (value.rs, both codec.rs, graph/index.rs, keys.rs).
THEOREM KeysAlwaysExact == EncodingSpec => []KeysExact
<1>1. EncodingSpec => []Chosen
  BY ChosenInit, ChosenStep, PTL DEF EncodingSpec
<1> QED BY <1>1, ChosenKeys, PTL

\* For every C function, every argument and every answer: failure shows in the
\* returned value and the error slot alike, and a value of any shape is stable
\* once it has been through JSON (c_api.rs).
THEOREM ApiContractHolds == EncodingSpec => []ApiContract
<1>1. EncodingSpec => []Chosen
  BY ChosenInit, ChosenStep, PTL DEF EncodingSpec
<1> QED BY <1>1, ChosenCalls, PTL

\* For every store the code can keep, whatever its layers, their entries, the
\* cut into blocks, the filter, the hashes and the damage: reads by key, scans,
\* compaction and backup see the newest entry of every key and no deleted one,
\* and report damage where an answer depends on it (engine/tx.rs, sstable/,
\* compaction.rs, bloom.rs).
THEOREM StoreReadsAlwaysExact == EncodingSpec => []StoreReadsExact
<1>1. EncodingSpec => []Chosen
  BY ChosenInit, ChosenStep, PTL DEF EncodingSpec
<1> QED BY <1>1, ChosenStores, PTL

=============================================================================
