------------------------------ MODULE WireBytes -------------------------------
(***************************************************************************)
(* What the numbers of a request are read as and written as, and what the  *)
(* conversion of its bytes yields (Wire).                                  *)
(*                                                                         *)
(* Value, BigEndian and convertStr16ToStr8 are recursions over data.  Each *)
(* is related to the function it evaluates (Reads, RestExists, Converts),  *)
(* which is shown to exist, and the claims are proved by induction over    *)
(* its equation (DataInduction).                                           *)
(***************************************************************************)
EXTENDS Wire, DataInduction

Bytes == 0..(Byte - 1)

\* A number in base b is its quotient and its remainder.
LEMMA DivMod ==
    ASSUME NEW b \in Nat, NEW a \in Nat, NEW c \in 0..(b - 1)
    PROVE  (a * b + c) \div b = a /\ (a * b + c) % b = c
  OBVIOUS

\* Two digits are read one by one or at once.
LEMMA TwoDigits ==
    ASSUME NEW x \in Nat, NEW y \in Nat, NEW z \in Nat, NEW d \in Nat
    PROVE  (x * d + y) * d + z = x * (d * d) + (d * y + z)
  <1>1. \A a, b, c \in Int : (a + b) * c = a * c + c * b
    OBVIOUS
  <1>2. \A a, c \in Int : (a * c) * c = a * (c * c)
    OBVIOUS
  <1>3. \A a, c \in Int : a * c \in Int
    OBVIOUS
  <1> DEFINE a == x * d
  <1>4. a \in Int
    BY <1>3
  <1>5. a * d = x * (d * d)
    BY <1>2
  <1> HIDE DEF a
  <1>6. (a + y) * d = a * d + d * y
    BY <1>1, <1>4
  <1> QED
    BY <1>5, <1>6, <1>4, <1>3 DEF a

\* What WireAssumption says of the two bases.
LEMMA Bases == Digit \in Nat /\ Digit > 1 /\ Byte \in Nat /\ Byte > 1
  <1>1. Digit \in Nat /\ Digit > 1
    BY WireAssumption
  <1>2. \A d \in Nat : d > 1 => d * d \in Nat /\ d * d > 1
    OBVIOUS
  <1> QED
    BY <1>1, <1>2 DEF Byte

\* What has been read after each digit.
Reads(g, base, digits) ==
    g[0] = 0 /\ \A i \in 1..Len(digits) : g[i] = g[i-1] * base + digits[i]

\* What is read of each prefix is a number, and there is such a function.
LEMMA ReadsExist ==
    ASSUME NEW base \in Nat, NEW digits \in Seq(Nat)
    PROVE  \E g \in [0..Len(digits) -> Nat] : Reads(g, base, digits)
  <1> DEFINE n == Len(digits)
             step == [i \in 1..n |-> [x \in Nat |-> x * base + digits[i]]]
  <1>1. n \in Nat /\ \A i \in 1..n : digits[i] \in Nat
    BY LenProperties, ElementOfSeq
  <1>2. step \in [1..n -> [Nat -> Nat]]
    BY <1>1
  <1>3. \A i \in 1..n : \A x \in Nat : step[i][x] = x * base + digits[i]
    OBVIOUS
  <1> HIDE DEF step
  <1>4. PICK g \in [0..n -> Nat] : Follows(g, n, 0, step)
    BY <1>1, <1>2, PrefixRecursion
  <1>5. \A i \in 1..n : g[i-1] \in Nat
    BY <1>1
  <1>6. Reads(g, base, digits)
    BY <1>3, <1>4, <1>5 DEF Follows, Reads
  <1> QED
    BY <1>6

\* The value of a sequence of digits is what has been read after the last.
LEMMA ReadsValue ==
    ASSUME NEW base \in Nat, NEW digits \in Seq(Nat), NEW g, Reads(g, base, digits)
    PROVE  Value(base, digits) = g[Len(digits)]
  <1> DEFINE n == Len(digits)
             P(h) == h = [i \in 0..n |-> IF i = 0 THEN 0 ELSE h[i-1] * base + digits[i]]
             v == CHOOSE h : P(h)
             k == [i \in 0..n |-> g[i]]
  <1>1. n \in Nat
    BY LenProperties
  <1>2. P(k)
    <2>1. \A i \in 1..n : i - 1 \in 0..n
      BY <1>1
    <2>2. \A i \in 0..n : g[i] = IF i = 0 THEN 0 ELSE k[i-1] * base + digits[i]
      <3>1. \A i \in 0..n : k[i] = g[i]
        OBVIOUS
      <3>2. \A i \in 0..n : i # 0 => i \in 1..n
        BY <1>1
      <3> QED
        BY <2>1, <3>1, <3>2 DEF Reads
    <2> QED
      BY <2>2
  <1>3. P(v)
    <2> HIDE DEF P
    <2> QED BY <1>2
  <1>4. Value(base, digits) = v[n]
    BY DEF Value
  <1>5. \A i \in 0..n : v[i] = IF i = 0 THEN 0 ELSE v[i-1] * base + digits[i]
    <2> HIDE DEF v
    <2> QED BY <1>3, Zenon
  <1> HIDE DEF v
  <1> DEFINE T == {i \in 0..n : v[i] = g[i]}
  <1>6. 0 \in T
    BY <1>1, <1>5 DEF Reads
  <1>7. ASSUME NEW i \in 0..(n - 1), i \in T PROVE i + 1 \in T
    <2>1. i + 1 \in 1..n /\ i + 1 \in 0..n /\ (i + 1) - 1 = i /\ i + 1 # 0
      BY <1>1
    <2>2. v[i + 1] = v[i] * base + digits[i + 1]
      BY <2>1, <1>5
    <2>3. g[i + 1] = g[i] * base + digits[i + 1]
      BY <2>1 DEF Reads
    <2> QED
      BY <1>7, <2>1, <2>2, <2>3
  <1>8. 0..n \subseteq T
    <2> HIDE DEF T
    <2> QED BY <1>1, <1>6, <1>7, UpTo
  <1> QED
    BY <1>1, <1>4, <1>8

\* Digits are read as a natural number (Value).
LEMMA ValueNatural ==
    ASSUME NEW base \in Nat, NEW digits \in Seq(Nat)
    PROVE  Value(base, digits) \in Nat
  <1>1. PICK g \in [0..Len(digits) -> Nat] : Reads(g, base, digits)
    BY ReadsExist
  <1>2. Len(digits) \in 0..Len(digits)
    BY LenProperties
  <1> QED
    BY <1>1, <1>2, ReadsValue

\* Zeros in front do not count.
LEMMA LeadingZeros ==
    ASSUME NEW base \in Nat, NEW digits \in Seq(Nat), NEW k \in Nat
    PROVE  /\ [i \in 1..k |-> 0] \o digits \in Seq(Nat)
           /\ Value(base, [i \in 1..k |-> 0] \o digits) = Value(base, digits)
  <1> DEFINE zeros == [i \in 1..k |-> 0]   n == Len(digits)
  <1>1. n \in Nat /\ zeros \in Seq(Nat) /\ Len(zeros) = k /\ \A i \in 1..k : zeros[i] = 0
    BY LenProperties
  <1> HIDE DEF zeros
  <1>2. /\ zeros \o digits \in Seq(Nat) /\ Len(zeros \o digits) = k + n
        /\ \A i \in 1..(k + n) : (zeros \o digits)[i] = IF i <= k THEN zeros[i] ELSE digits[i - k]
    BY <1>1, ConcatProperties
  <1>3. PICK f \in [0..n -> Nat] : Reads(f, base, digits)
    BY ReadsExist
  <1> DEFINE g == [i \in 0..(k + n) |-> IF i <= k THEN 0 ELSE f[i - k]]
  <1>4. Reads(g, base, zeros \o digits)
    <2>1. g[0] = 0
      BY <1>1
    <2>2. ASSUME NEW i \in 1..(k + n) PROVE g[i] = g[i-1] * base + (zeros \o digits)[i]
      <3>1. CASE i <= k
        <4>1. g[i] = 0 /\ g[i-1] = 0
          BY <1>1, <3>1
        <4>2. (zeros \o digits)[i] = 0
          BY <1>1, <1>2, <3>1
        <4> QED
          BY <4>1, <4>2
      <3>2. CASE i > k
        <4>1. i - k \in 1..n /\ i - 1 \in 0..(k + n) /\ i \in 0..(k + n)
          BY <1>1, <3>2
        <4>2. (zeros \o digits)[i] = digits[i - k]
          BY <1>1, <1>2, <3>2
        <4>3. f[i - k] = f[(i - k) - 1] * base + digits[i - k]
          BY <4>1, <1>3 DEF Reads
        <4>4. g[i] = f[i - k]
          BY <4>1, <3>2
        <4>5. g[i-1] = f[(i - k) - 1]
          <5>1. CASE i - 1 <= k
            <6>1. (i - k) - 1 = 0 /\ g[i-1] = 0
              BY <5>1, <3>2, <4>1
            <6> QED
              BY <6>1, <1>3 DEF Reads
          <5>2. CASE i - 1 > k
            <6>1. (i - 1) - k = (i - k) - 1
              BY <4>1
            <6> QED
              BY <5>2, <6>1, <4>1
          <5> QED
            BY <5>1, <5>2, <4>1
        <4> HIDE DEF g
        <4> QED
          BY <4>2, <4>3, <4>4, <4>5
      <3> QED
        BY <3>1, <3>2, <1>1
    <2> HIDE DEF g
    <2> QED
      BY <1>2, <2>1, <2>2 DEF Reads
  <1>5. g[k + n] = f[n]
    <2>1. CASE n = 0
      BY <1>1, <1>3, <2>1 DEF Reads
    <2>2. CASE n > 0
      BY <1>1, <2>2
    <2> QED
      BY <1>1, <2>1, <2>2
  <1>6. Value(base, zeros \o digits) = g[k + n]
    <2> HIDE DEF g
    <2> QED BY <1>2, <1>4, ReadsValue
  <1>7. Value(base, digits) = f[n]
    BY <1>3, ReadsValue
  <1> QED
    BY <1>2, <1>5, <1>6, <1>7 DEF zeros

\* Two hexadecimal digits are a byte.
LEMMA PairsOfDigits ==
    ASSUME NEW e \in Seq(Nat), NEW m \in Nat, Len(e) = 2 * m
    PROVE  Value(Byte, [i \in 1..m |-> Digit * e[2*i - 1] + e[2*i]]) = Value(Digit, e)
  <1> DEFINE bytes == [i \in 1..m |-> Digit * e[2*i - 1] + e[2*i]]
  <1>1. \A i \in 1..m : e[2*i - 1] \in Nat /\ e[2*i] \in Nat
    <2> TAKE i \in 1..m
    <2>1. 2*i - 1 \in 1..Len(e) /\ 2*i \in 1..Len(e)
      OBVIOUS
    <2> QED
      BY <2>1, ElementOfSeq
  <1>2. bytes \in Seq(Nat) /\ Len(bytes) = m
    BY <1>1, Bases
  <1>3. PICK f \in [0..(2 * m) -> Nat] : Reads(f, Digit, e)
    BY ReadsExist, Bases
  <1> DEFINE g == [i \in 0..m |-> f[2 * i]]
  <1>4. Reads(g, Byte, bytes)
    <2>1. g[0] = 0
      BY <1>3 DEF Reads
    <2>2. ASSUME NEW i \in 1..m PROVE g[i] = g[i-1] * Byte + bytes[i]
      <3>1. /\ 2*i \in 1..(2*m) /\ 2*i - 1 \in 1..(2*m) /\ 2*(i-1) = 2*i - 2 /\ i - 1 \in 0..m
            /\ 2*i - 2 \in 0..(2*m) /\ (2*i - 1) - 1 = 2*i - 2
        OBVIOUS
      <3>2. f[2*i] = f[2*i - 1] * Digit + e[2*i]
        BY <1>3, <3>1 DEF Reads
      <3>3. f[2*i - 1] = f[2*i - 2] * Digit + e[2*i - 1]
        BY <1>3, <3>1 DEF Reads
      <3>4. g[i] = f[2*i] /\ g[i-1] = f[2*i - 2]
        BY <3>1
      <3>6. bytes[i] = Digit * e[2*i - 1] + e[2*i]
        OBVIOUS
      <3>7. f[2*i - 2] \in Nat
        BY <3>1
      <3> HIDE DEF g, bytes
      <3>8. f[2*i] = f[2*i - 2] * (Digit * Digit) + (Digit * e[2*i - 1] + e[2*i])
        <4>1. e[2*i - 1] \in Nat /\ e[2*i] \in Nat /\ Digit \in Nat
          BY <1>1, Bases
        <4> DEFINE x == f[2*i - 2]   y == e[2*i - 1]   z == e[2*i]
        <4>2. x \in Nat /\ y \in Nat /\ z \in Nat
          BY <4>1, <3>7
        <4>3. f[2*i] = (x * Digit + y) * Digit + z
          BY <3>2, <3>3
        <4> HIDE DEF x, y, z
        <4>4. (x * Digit + y) * Digit + z = x * (Digit * Digit) + (Digit * y + z)
          BY <4>1, <4>2, TwoDigits
        <4> QED
          BY <4>3, <4>4 DEF x, y, z
      <3> QED
        BY <3>4, <3>6, <3>8 DEF Byte
    <2> HIDE DEF g, bytes
    <2> QED
      BY <1>2, <2>1, <2>2 DEF Reads
  <1>5. Value(Byte, bytes) = g[m]
    <2> HIDE DEF g, bytes
    <2> QED BY <1>2, <1>4, ReadsValue, Bases
  <1>6. Value(Digit, e) = f[2 * m]
    BY <1>3, ReadsValue, Bases
  <1> QED
    BY <1>5, <1>6

\* A sequence of bytes is one of numbers.
LEMMA ByteSeq ==
    ASSUME NEW s \in Seq(Bytes)
    PROVE  s \in Seq(Nat) /\ Len(s) \in Nat /\ \A i \in 1..Len(s) : s[i] \in Bytes
  <1>1. Bytes \subseteq Nat
    BY Bases DEF Bytes
  <1>2. s \in Seq(Nat)
    BY <1>1, SeqMonotonic
  <1> QED
    BY <1>2, LenProperties, ElementOfSeq

\* A string that is decoded is read as the number its digits are.
LEMMA DecodedNumber ==
    ASSUME NEW text, IsText(text), decodeHex(text) # Failed
    PROVE  decodeHex(text) \in Seq(Bytes) /\ Value(Byte, decodeHex(text)) = Number(text)
  <1> DEFINE d == text.digits
             zero == [i \in 1..1 |-> 0]
             even == IF Len(d) % 2 = 1 THEN <<0>> \o d ELSE d
             m == Len(even) \div 2
             bytes == [i \in 1..m |-> Digit * even[2*i - 1] + even[2*i]]
  <1>0. \A x \in Nat : x % 2 # 1 => x \div 2 \in Nat /\ x = 2 * (x \div 2)
    OBVIOUS
  <1>1. d \in Seq(0..(Digit - 1)) /\ d \in Seq(Nat)
    <2>1. 0..(Digit - 1) \subseteq Nat
      BY Bases
    <2> QED
      BY <2>1, SeqMonotonic DEF IsText
  <1>2. Len(d) \in Nat
    BY <1>1, LenProperties
  <1>3. <<0>> = zero
    OBVIOUS
  <1>4. /\ even \in Seq(0..(Digit - 1)) /\ even \in Seq(Nat)
        /\ Value(Digit, even) = Value(Digit, d)
        /\ m \in Nat /\ Len(even) = 2 * m
    <2>1. CASE Len(d) % 2 = 1
      <3>1. even = zero \o d
        BY <2>1, <1>3
      <3>2. zero \o d \in Seq(Nat) /\ Value(Digit, zero \o d) = Value(Digit, d)
        BY <1>1, LeadingZeros, Bases
      <3>3. zero \in Seq(0..(Digit - 1)) /\ Len(zero) = 1
        BY Bases
      <3> HIDE DEF zero
      <3>4. zero \o d \in Seq(0..(Digit - 1)) /\ Len(zero \o d) = Len(zero) + Len(d)
        BY <1>1, <3>3, ConcatProperties, Zenon
      <3> HIDE DEF even
      <3>5. Len(even) = 1 + Len(d)
        BY <3>1, <3>3, <3>4
      <3>6. Len(even) \in Nat /\ Len(even) % 2 # 1
        <4>1. \A x \in Nat : x % 2 = 1 => 1 + x \in Nat /\ (1 + x) % 2 # 1
          OBVIOUS
        <4> QED
          BY <3>5, <2>1, <1>2, <4>1, Zenon
      <3>7. m \in Nat /\ Len(even) = 2 * m
        BY <3>6, <1>0
      <3> QED
        BY <3>1, <3>2, <3>4, <3>7
    <2>2. CASE Len(d) % 2 # 1
      <3>1. even = d
        BY <2>2
      <3> HIDE DEF even
      <3>2. m \in Nat /\ Len(even) = 2 * m
        BY <1>0, <1>2, <2>2, <3>1
      <3> QED
        BY <1>1, <3>1, <3>2
    <2> QED
      BY <2>1, <2>2
  <1>5. decodeHex(text) = bytes
    BY DEF decodeHex
  <1> HIDE DEF even
  <1>6. Value(Byte, bytes) = Value(Digit, even)
    BY <1>4, PairsOfDigits
  <1>7. bytes \in Seq(Bytes)
    <2>1. ASSUME NEW i \in 1..m PROVE Digit * even[2*i - 1] + even[2*i] \in Bytes
      <3>1. 2*i - 1 \in 1..Len(even) /\ 2*i \in 1..Len(even)
        BY <1>4
      <3>2. even[2*i - 1] \in 0..(Digit - 1) /\ even[2*i] \in 0..(Digit - 1)
        BY <1>4, <3>1, ElementOfSeq
      <3>3. \A x, y, b \in Nat : x < b /\ y < b => b * x + y \in 0..(b * b - 1)
        <4>1. \A x, b \in Nat : x < b => b * x <= b * (b - 1)
          OBVIOUS
        <4>2. \A b \in Nat : b * (b - 1) = b * b - b
          OBVIOUS
        <4>3. \A x, b \in Nat : b * x \in Nat
          OBVIOUS
        <4> QED
          BY <4>1, <4>2, <4>3
      <3> QED
        BY <3>2, <3>3, Bases DEF Bytes, Byte
    <2> QED
      BY <1>4, <2>1
  <1> QED
    BY <1>4, <1>5, <1>6, <1>7 DEF Number

\* An accepted component fills its half of the signature and is read as the
\* number that is spelt (decodeSignatureComponent).
LEMMA ComponentNumber ==
    ASSUME NEW text, IsText(text), decodeSignatureComponent(text) # Failed
    PROVE  /\ decodeSignatureComponent(text) \in Seq(Bytes)
           /\ Len(decodeSignatureComponent(text)) = Scalar
           /\ Value(Byte, decodeSignatureComponent(text)) = Number(text)
  <1> DEFINE bytes == decodeHex(text)   k == Scalar - Len(bytes)   zeros == [i \in 1..k |-> 0]
  <1>1. bytes # Failed /\ ~(Len(bytes) > Scalar)
    BY DEF decodeSignatureComponent
  <1>2. decodeSignatureComponent(text) = zeros \o bytes
    BY DEF decodeSignatureComponent
  <1>3. bytes \in Seq(Bytes) /\ Value(Byte, bytes) = Number(text)
    BY <1>1, DecodedNumber
  <1> HIDE DEF bytes
  <1>4. bytes \in Seq(Nat) /\ Len(bytes) \in Nat
    BY <1>3, ByteSeq
  <1>5. k \in Nat
    BY <1>1, <1>4, WireAssumption
  <1>6. zeros \in Seq(Bytes) /\ Len(zeros) = k
    BY <1>5, Bases DEF Bytes
  <1>7. Value(Byte, zeros \o bytes) = Value(Byte, bytes)
    <2> HIDE DEF k
    <2> QED BY <1>4, <1>5, LeadingZeros, Bases
  <1> HIDE DEF zeros
  <1>8. zeros \o bytes \in Seq(Bytes) /\ Len(zeros \o bytes) = k + Len(bytes)
    BY <1>3, <1>6, ConcatProperties
  <1> QED
    BY <1>2, <1>3, <1>4, <1>5, <1>7, <1>8, WireAssumption

\* What is left of a number after each byte that is written, the last first.
LEMMA RestExists ==
    ASSUME NEW width \in Nat, NEW n \in Nat
    PROVE  \E rest \in [0..width -> Nat] :
              /\ rest[0] = n /\ \A i \in 1..width : rest[i] = rest[i-1] \div Byte
              /\ BigEndian(width, n) = [i \in 1..width |-> rest[width - i] % Byte]
  <1> DEFINE step == [i \in 1..width |-> [x \in Nat |-> x \div Byte]]
             P(h) == h = [i \in 0..width |-> IF i = 0 THEN n ELSE h[i-1] \div Byte]
             rest == CHOOSE h : P(h)
  <1>1. step \in [1..width -> [Nat -> Nat]]
    BY Bases
  <1>2. \A i \in 1..width : \A x \in Nat : step[i][x] = x \div Byte
    OBVIOUS
  <1> HIDE DEF step
  <1>3. PICK g \in [0..width -> Nat] : Follows(g, width, n, step)
    BY <1>1, PrefixRecursion
  <1>4. g = [i \in 0..width |-> IF i = 0 THEN n ELSE g[i-1] \div Byte]
    <2>1. \A i \in 1..width : g[i-1] \in Nat
      OBVIOUS
    <2>2. \A i \in 0..width : g[i] = IF i = 0 THEN n ELSE g[i-1] \div Byte
      <3>1. \A i \in 0..width : i # 0 => i \in 1..width
        OBVIOUS
      <3> QED
        BY <1>2, <1>3, <2>1, <3>1 DEF Follows
    <2> QED
      BY <2>2
  <1>5. P(rest)
    <2>1. P(g)
      BY <1>4
    <2> HIDE DEF P
    <2> QED BY <2>1
  <1>6. BigEndian(width, n) = [i \in 1..width |-> rest[width - i] % Byte]
    BY DEF BigEndian
  <1> HIDE DEF rest
  <1>7. \A i \in 0..width : rest[i] = IF i = 0 THEN n ELSE rest[i-1] \div Byte
    BY <1>5, Zenon
  <1> DEFINE T == {i \in 0..width : rest[i] \in Nat}
  <1>8. 0..width \subseteq T
    <2>1. 0 \in T
      BY <1>7
    <2>2. ASSUME NEW i \in 0..(width - 1), i \in T PROVE i + 1 \in T
      <3>1. i + 1 \in 0..width /\ (i + 1) - 1 = i /\ i + 1 # 0
        OBVIOUS
      <3>2. rest[i + 1] = rest[i] \div Byte
        BY <3>1, <1>7
      <3>3. \A x \in Nat : x \div Byte \in Nat
        BY Bases
      <3> QED
        BY <2>2, <3>1, <3>2, <3>3
    <2> HIDE DEF T
    <2> QED
      BY <2>1, <2>2, UpTo
  <1>9. rest \in [0..width -> Nat]
    <2>1. rest = [i \in 0..width |-> IF i = 0 THEN n ELSE rest[i-1] \div Byte]
      BY <1>5
    <2>2. \A i \in 0..width : rest[i] \in Nat
      BY <1>8
    <2>3. rest = [i \in 0..width |-> rest[i]]
      BY <2>1, Zenon
    <2> QED
      BY <2>2, <2>3
  <1>10. rest[0] = n /\ \A i \in 1..width : rest[i] = rest[i-1] \div Byte
    BY <1>7
  <1> QED
    BY <1>6, <1>9, <1>10

\* A number is written in as many bytes as are asked for (BigEndian).
LEMMA BigEndianBytes ==
    ASSUME NEW width \in Nat, NEW n \in Nat
    PROVE  BigEndian(width, n) \in Seq(Bytes) /\ Len(BigEndian(width, n)) = width
  <1>1. PICK rest \in [0..width -> Nat] :
            BigEndian(width, n) = [i \in 1..width |-> rest[width - i] % Byte]
    BY RestExists
  <1>2. \A i \in 1..width : rest[width - i] % Byte \in Bytes
    <2> TAKE i \in 1..width
    <2>1. rest[width - i] \in Nat
      OBVIOUS
    <2> QED
      BY <2>1, Bases DEF Bytes
  <1> DEFINE b == [i \in 1..width |-> rest[width - i] % Byte]
  <1>3. b \in Seq(Bytes) /\ Len(b) = width
    BY <1>2
  <1> QED
    BY <1>1, <1>3

\* The bytes of a number are the only ones, of so many, that are read as it.
LEMMA BigEndianOfValue ==
    ASSUME NEW b \in Seq(Bytes)
    PROVE  BigEndian(Len(b), Value(Byte, b)) = b
  <1> DEFINE w == Len(b)   n == Value(Byte, b)
  <1>1. b \in Seq(Nat) /\ w \in Nat /\ \A i \in 1..w : b[i] \in Bytes
    BY ByteSeq
  <1>2. n \in Nat
    BY <1>1, ValueNatural, Bases
  <1>3. PICK f \in [0..w -> Nat] : Reads(f, Byte, b)
    BY <1>1, ReadsExist, Bases
  <1>4. n = f[w]
    BY <1>1, <1>3, ReadsValue, Bases
  <1> HIDE DEF w, n
  <1>5. PICK rest \in [0..w -> Nat] :
            /\ rest[0] = n /\ \A i \in 1..w : rest[i] = rest[i-1] \div Byte
            /\ BigEndian(w, n) = [i \in 1..w |-> rest[w - i] % Byte]
    BY <1>1, <1>2, RestExists
  <1>6. ASSUME NEW i \in 1..w
        PROVE  f[i] \div Byte = f[i-1] /\ f[i] % Byte = b[i]
    <2>1. f[i] = f[i-1] * Byte + b[i]
      BY <1>3 DEF Reads, w
    <2>2. f[i-1] \in Nat /\ b[i] \in 0..(Byte - 1) /\ Byte \in Nat
      BY <1>1, Bases DEF Bytes
    <2>3. /\ (f[i-1] * Byte + b[i]) \div Byte = f[i-1]
          /\ (f[i-1] * Byte + b[i]) % Byte = b[i]
      BY <2>2, DivMod, Zenon
    <2> QED
      BY <2>1, <2>3
  <1> DEFINE T == {j \in 0..w : rest[j] = f[w - j]}
  <1>7. 0 \in T
    BY <1>1, <1>4, <1>5
  <1>8. ASSUME NEW j \in 0..(w - 1), j \in T PROVE j + 1 \in T
    <2>1. j + 1 \in 1..w /\ (j + 1) - 1 = j /\ w - j \in 1..w /\ (w - j) - 1 = w - (j + 1)
      BY <1>1
    <2>2. rest[j + 1] = rest[j] \div Byte
      BY <2>1, <1>5
    <2>3. f[w - j] \div Byte = f[w - (j + 1)]
      BY <2>1, <1>6
    <2> QED
      BY <1>8, <2>1, <2>2, <2>3
  <1>9. 0..w \subseteq T
    <2> HIDE DEF T
    <2> QED BY <1>1, <1>7, <1>8, UpTo
  <1>10. \A i \in 1..w : rest[w - i] % Byte = b[i]
    <2> TAKE i \in 1..w
    <2>1. w - i \in 0..w /\ w - (w - i) = i
      BY <1>1
    <2>2. rest[w - i] = f[i]
      BY <1>9, <2>1
    <2> QED
      BY <2>2, <1>6
  <1>11. b = [i \in 1..w |-> b[i]]
    BY LenProperties DEF w
  <1> QED
    BY <1>5, <1>10, <1>11 DEF w, n

-----------------------------------------------------------------------------
(***************************************************************************)
(* The conversion of the headers of short strings.                         *)
(***************************************************************************)
\* A token is encoded as bytes, with their number (Encoded).
LEMMA EncodedBytes ==
    ASSUME NEW t \in MsgPack
    PROVE  Encoded(t) \in Seq(Bytes)
  <1>1. /\ t.form \in {"int", "str8", "str16"} /\ t.bytes \in Seq(Bytes)
        /\ t.form = "str8" => Len(t.bytes) < Byte
        /\ t.form = "str16" => Len(t.bytes) < Byte * Byte
    BY DEF MsgPack, Bytes
  <1>2. Len(t.bytes) \in Nat
    BY <1>1, LenProperties
  <1>3. Str8 \in Bytes /\ Str16 \in Bytes
    BY WireAssumption DEF Bytes
  <1>4. CASE t.form = "int"
    BY <1>1, <1>4 DEF Encoded
  <1>5. CASE t.form = "str8"
    <2>1. Len(t.bytes) \in Bytes
      BY <1>1, <1>2, <1>5, Bases DEF Bytes
    <2>2. <<Str8, Len(t.bytes)>> \in Seq(Bytes)
      BY <1>3, <2>1
    <2>3. Encoded(t) = <<Str8, Len(t.bytes)>> \o t.bytes
      BY <1>5 DEF Encoded
    <2> QED
      BY <1>1, <2>2, <2>3, ConcatProperties, Zenon
  <1>6. CASE t.form = "str16"
    <2>1. Len(t.bytes) \div Byte \in Bytes /\ Len(t.bytes) % Byte \in Bytes
      <3>1. \A x, b \in Nat : b > 1 /\ x < b * b => x \div b \in 0..(b - 1) /\ x % b \in 0..(b - 1)
        <4>1. \A x, b, y \in Nat : b > 1 /\ x < b * b /\ y >= b => b * y > x
          <5>1. \A b, y \in Nat : y >= b => b * y >= b * b
            OBVIOUS
          <5>2. \A b, y \in Nat : b * y \in Nat
            OBVIOUS
          <5> QED
            BY <5>1, <5>2
        <4>2. \A x, b \in Nat : b > 1 => /\ x \div b \in Nat /\ x % b \in 0..(b - 1)
                                          /\ b * (x \div b) <= x
          OBVIOUS
        <4> TAKE x, b \in Nat
        <4> DEFINE y == x \div b
        <4>3. b > 1 => y \in Nat /\ x % b \in 0..(b - 1) /\ b * y <= x
          BY <4>2
        <4> HIDE DEF y
        <4>4. \A u, v \in Nat : u <= v => ~(u > v)
          OBVIOUS
        <4>5. b * y \in Nat \/ y \notin Nat
          OBVIOUS
        <4>6. b > 1 /\ x < b * b => ~(y >= b)
          BY <4>1, <4>3, <4>4, <4>5
        <4>7. b > 1 /\ x < b * b => y \in 0..(b - 1)
          BY <4>3, <4>6
        <4> QED
          BY <4>3, <4>7 DEF y
      <3> QED
        BY <3>1, <1>1, <1>2, <1>6, Bases DEF Bytes
    <2>2. <<Str16, Len(t.bytes) \div Byte, Len(t.bytes) % Byte>> \in Seq(Bytes)
      BY <1>3, <2>1
    <2>3. Encoded(t) = <<Str16, Len(t.bytes) \div Byte, Len(t.bytes) % Byte>> \o t.bytes
      BY <1>6 DEF Encoded
    <2> QED
      BY <1>1, <2>2, <2>3, ConcatProperties, Zenon
  <1> QED
    BY <1>1, <1>4, <1>5, <1>6

\* The short form of a token is a token (Shortened).
LEMMA ShortenedToken ==
    ASSUME NEW t \in MsgPack
    PROVE  Shortened(t) \in MsgPack
  BY DEF MsgPack, Shortened

\* The bytes of the first k tokens, one after the other.
LEMMA EncodeJoins ==
    ASSUME NEW tokens \in Seq(MsgPack)
    PROVE  \E f \in [0..Len(tokens) -> Seq(Bytes)] :
               /\ Joins(f, [i \in 1..Len(tokens) |-> Encoded(tokens[i])], Len(tokens))
               /\ \A k \in 0..Len(tokens) : Encode(SubSeq(tokens, 1, k)) = f[k]
               /\ Encode(tokens) = f[Len(tokens)]
  <1> DEFINE n == Len(tokens)   all == [i \in 1..n |-> Encoded(tokens[i])]
  <1>1. n \in Nat /\ \A i \in 1..n : tokens[i] \in MsgPack
    BY LenProperties, ElementOfSeq
  <1>2. \A i \in 1..n : all[i] = Encoded(tokens[i]) /\ all[i] \in Seq(Bytes)
    BY <1>1, EncodedBytes
  <1> HIDE DEF all
  <1>3. PICK f \in [0..n -> Seq(Bytes)] : Joins(f, all, n)
    BY <1>1, <1>2, JoinsExist
  <1>4. ASSUME NEW k \in 0..n PROVE Encode(SubSeq(tokens, 1, k)) = f[k]
    <2> DEFINE part == SubSeq(tokens, 1, k)   seqs == [i \in 1..k |-> Encoded(tokens[i])]
    <2>1. Len(part) = k /\ \A i \in 1..k : part[i] = tokens[i]
      <3>1. \A i \in 1..k : tokens[i] \in MsgPack
        BY <1>1
      <3>2. /\ Len(part) = IF 1 <= k THEN (k - 1) + 1 ELSE 0
            /\ \A i \in 1..((k - 1) + 1) : part[i] = tokens[(1 + i) - 1]
        BY <3>1, SubSeqProperties
      <3>3. (k - 1) + 1 = k /\ \A i \in 1..k : (1 + i) - 1 = i
        OBVIOUS
      <3> HIDE DEF part
      <3> QED
        BY <3>2, <3>3
    <2>2. Encode(part) = FlattenSeq(seqs)
      <3> HIDE DEF part
      <3>1. [i \in 1..Len(part) |-> Encoded(part[i])] = seqs
        BY <2>1
      <3> QED
        BY <3>1, Zenon DEF Encode
    <2>3. \A i \in 1..k : seqs[i] = all[i]
      BY <1>1, <1>2
    <2>4. Len(seqs) = k /\ (k = 0 => seqs = << >>)
      BY <1>1
    <2> HIDE DEF seqs
    <2>5. Joins(f, seqs, k)
      BY <1>1, <1>3, <2>3 DEF Joins
    <2>6. k > 0 => << >> \o seqs[1] = seqs[1]
      <3>1. k > 0 => seqs[1] \in Seq(Bytes)
        BY <1>1, <1>2, <2>3
      <3> QED
        BY <3>1, ConcatEmptySeq, Zenon
    <2>7. FlattenSeq(seqs) = f[k]
      <3>1. k \in Nat
        BY <1>1
      <3> QED
        BY <2>4, <2>5, <2>6, <3>1, FlattenIsJoin
    <2> QED
      BY <2>2, <2>7
  <1>5. SubSeq(tokens, 1, n) = tokens
    BY SubSeqFull
  <1>6. Encode(tokens) = f[n]
    <2>1. n \in 0..n
      BY <1>1
    <2> QED
      BY <1>4, <1>5, <2>1, Zenon
  <1> QED
    BY <1>3, <1>4, <1>6 DEF all

\* What the conversion yields from each byte on.
Converts(g, data) ==
    /\ g[Len(data) + 1] = << >>
    /\ \A i \in 1..Len(data) :
          g[i] = IF LooksLikeHeader(data, i)
                 THEN <<Str8, data[i+2]>> \o SubSeq(data, i + 3, i + 2 + data[i+2])
                        \o g[i + 3 + data[i+2]]
                 ELSE <<data[i]>> \o g[i + 1]

\* The conversion yields bytes from each byte on, and is defined.
LEMMA ConvertsExist ==
    ASSUME NEW data \in Seq(Bytes)
    PROVE  \E g \in [1..(Len(data) + 1) -> Seq(Bytes)] : Converts(g, data)
  <1> DEFINE N == Len(data)
             Rest(g, i) == IF LooksLikeHeader(data, i)
                           THEN <<Str8, data[i+2]>> \o SubSeq(data, i + 3, i + 2 + data[i+2])
                                  \o g[i + 3 + data[i+2]]
                           ELSE <<data[i]>> \o g[i + 1]
             Good(k, g) == g[N + 1] = << >> /\ \A i \in (N + 1 - k)..N : g[i] = Rest(g, i)
             S == {k \in 0..N : \E g \in [(N + 1 - k)..(N + 1) -> Seq(Bytes)] : Good(k, g)}
  <1>1. N \in Nat /\ \A i \in 1..N : data[i] \in Bytes /\ data[i] \in Nat
    BY ByteSeq, Bases DEF Bytes
  <1>2. 0 \in S
    <2> DEFINE g == [i \in (N + 1)..(N + 1) |-> << >>]
    <2>1. g \in [(N + 1 - 0)..(N + 1) -> Seq(Bytes)] /\ g[N + 1] = << >>
      BY <1>1
    <2> HIDE DEF g
    <2>2. (N + 1 - 0)..N = {}
      BY <1>1
    <2>3. Good(0, g)
      BY <2>1, <2>2
    <2> QED
      BY <1>1, <2>1, <2>3
  <1>3. ASSUME NEW k \in 0..(N - 1), k \in S PROVE k + 1 \in S
    <2>1. PICK h \in [(N + 1 - k)..(N + 1) -> Seq(Bytes)] : Good(k, h)
      BY <1>3
    <2> DEFINE p == N - k
               g == [i \in p..(N + 1) |-> IF i = p THEN Rest(h, p) ELSE h[i]]
    <2>2. p \in 1..N /\ N + 1 - (k + 1) = p /\ N + 1 - k = p + 1
      BY <1>1
    <2>3. \A i \in (p + 1)..(N + 1) : g[i] = h[i] /\ h[i] \in Seq(Bytes)
      <3> HIDE DEF Rest
      <3>1. h \in [(p + 1)..(N + 1) -> Seq(Bytes)]
        BY <2>2
      <3>2. \A i \in (p + 1)..(N + 1) : i \in p..(N + 1) /\ i # p
        BY <2>2
      <3> QED
        BY <3>1, <3>2
    <2>4. ASSUME NEW i \in p..N
          PROVE  /\ i + 1 \in (p + 1)..(N + 1)
                 /\ LooksLikeHeader(data, i) => i + 3 + data[i+2] \in (p + 1)..(N + 1)
      <3>1. i \in 1..N
        BY <2>2
      <3>2. LooksLikeHeader(data, i) => data[i+2] \in Nat /\ i + 2 + data[i+2] <= N
        BY <1>1, <3>1 DEF LooksLikeHeader
      <3> QED
        BY <2>2, <3>1, <3>2
    <2>5. \A i \in p..N : Rest(g, i) = Rest(h, i)
      <3> HIDE DEF g
      <3> QED BY <2>3, <2>4
    <2>6. Rest(h, p) \in Seq(Bytes)
      <3>1. p \in p..N
        BY <2>2
      <3>2. CASE LooksLikeHeader(data, p)
        <4>1. p + 2 \in 1..N /\ p + 2 + data[p+2] <= N
          BY <2>2, <3>2 DEF LooksLikeHeader
        <4>2. data[p+2] \in Bytes /\ data[p+2] \in Nat /\ Str8 \in Bytes
          BY <1>1, <4>1, WireAssumption DEF Bytes
        <4>3. <<Str8, data[p+2]>> \in Seq(Bytes)
          BY <4>2
        <4>4. SubSeq(data, p + 3, p + 2 + data[p+2]) \in Seq(Bytes)
          <5>1. \A i \in (p + 3)..(p + 2 + data[p+2]) : data[i] \in Bytes
            BY <1>1, <2>2, <4>1, <4>2
          <5>2. p + 3 \in Int /\ p + 2 + data[p+2] \in Int
            BY <2>2, <4>2
          <5> QED
            BY <5>1, <5>2, SubSeqProperties
        <4>5. h[p + 3 + data[p+2]] \in Seq(Bytes)
          BY <2>3, <2>4, <3>1, <3>2
        <4>6. Rest(h, p) = <<Str8, data[p+2]>> \o SubSeq(data, p + 3, p + 2 + data[p+2])
                                  \o h[p + 3 + data[p+2]]
          BY <3>2
        <4>7. <<Str8, data[p+2]>> \o SubSeq(data, p + 3, p + 2 + data[p+2]) \in Seq(Bytes)
          BY <4>3, <4>4, ConcatProperties, Zenon
        <4> DEFINE a == <<Str8, data[p+2]>> \o SubSeq(data, p + 3, p + 2 + data[p+2])
                   b == h[p + 3 + data[p+2]]
        <4>8. a \in Seq(Bytes) /\ b \in Seq(Bytes)
          BY <4>5, <4>7
        <4>9. a \o b \in Seq(Bytes)
          <5> HIDE DEF a, b
          <5> QED BY <4>8, ConcatProperties, Zenon
        <4>10. Rest(h, p) = a \o b
          BY <4>6
        <4> HIDE DEF a, b, Rest
        <4> QED
          BY <4>9, <4>10, Zenon
      <3>3. CASE ~LooksLikeHeader(data, p)
        <4>1. <<data[p]>> \in Seq(Bytes) /\ h[p + 1] \in Seq(Bytes)
          BY <1>1, <2>2, <2>3, <2>4, <3>1
        <4>2. Rest(h, p) = <<data[p]>> \o h[p + 1]
          BY <3>3
        <4> QED
          BY <4>1, <4>2, ConcatProperties, Zenon
      <3> QED
        BY <3>2, <3>3
    <2>7. g \in [p..(N + 1) -> Seq(Bytes)]
      <3> HIDE DEF Rest
      <3> QED BY <2>2, <2>3, <2>6
    <2>8. g[p] = Rest(h, p) /\ g[N + 1] = h[N + 1]
      <3> HIDE DEF Rest
      <3> QED BY <2>2, <1>1
    <2>9. Good(k + 1, g)
      <3> HIDE DEF Rest, g
      <3>1. h[N + 1] = << >> /\ \A i \in (p + 1)..N : h[i] = Rest(h, i)
        BY <2>1, <2>2
      <3>2. ASSUME NEW i \in p..N PROVE g[i] = Rest(g, i)
        <4>1. CASE i = p
          BY <4>1, <2>5, <2>8
        <4>2. CASE i # p
          <5>1. i \in (p + 1)..N /\ i \in (p + 1)..(N + 1)
            BY <4>2, <2>2
          <5> QED
            BY <5>1, <2>3, <2>5, <3>1
        <4> QED
          BY <4>1, <4>2
      <3> QED
        BY <2>2, <2>8, <3>1, <3>2
    <2> HIDE DEF Good, g
    <2> QED
      BY <2>2, <2>7, <2>9
  <1>4. 0..N \subseteq S
    <2> HIDE DEF S
    <2> QED BY <1>1, <1>2, <1>3, UpTo
  <1>5. PICK g \in [1..(N + 1) -> Seq(Bytes)] : Good(N, g)
    <2>1. N \in 0..N /\ N + 1 - N = 1
      BY <1>1
    <2> HIDE DEF Good
    <2> QED
      BY <1>4, <2>1
  <1>6. N + 1 - N = 1
    BY <1>1
  <1>7. Converts(g, data)
    BY <1>5, <1>6 DEF Converts
  <1> QED
    BY <1>7

\* What the conversion of all the bytes yields is what it yields from the first.
LEMMA ConvertsValue ==
    ASSUME NEW data \in Seq(Bytes), NEW g \in [1..(Len(data) + 1) -> Seq(Bytes)], Converts(g, data)
    PROVE  convertStr16ToStr8(data) = g[1]
  <1> DEFINE N == Len(data)
             Rest(h, i) == IF LooksLikeHeader(data, i)
                           THEN <<Str8, data[i+2]>> \o SubSeq(data, i + 3, i + 2 + data[i+2])
                                  \o h[i + 3 + data[i+2]]
                           ELSE <<data[i]>> \o h[i + 1]
             P(h) == h = [i \in 1..(N + 1) |-> IF i > N THEN << >> ELSE Rest(h, i)]
             from == CHOOSE h : P(h)
  <1>1. N \in Nat /\ \A i \in 1..N : data[i] \in Nat
    BY ByteSeq, Bases DEF Bytes
  <1>2. ASSUME NEW i \in 1..N
        PROVE  /\ i + 1 \in 1..(N + 1)
               /\ LooksLikeHeader(data, i) =>
                      i + 3 + data[i+2] \in 1..(N + 1) /\ i + 3 + data[i+2] >= i + 1
    BY <1>1 DEF LooksLikeHeader
  <1>3. P(g)
    <2>1. \A i \in 1..(N + 1) : g[i] = IF i > N THEN << >> ELSE Rest(g, i)
      <3> TAKE i \in 1..(N + 1)
      <3>1. CASE i > N
        <4>1. i = N + 1
          BY <1>1, <3>1
        <4> QED
          BY <3>1, <4>1 DEF Converts
      <3>2. CASE ~(i > N)
        <4>1. i \in 1..N
          BY <1>1, <3>2
        <4>2. g[i] = Rest(g, i)
          BY <4>1 DEF Converts
        <4> HIDE DEF Rest
        <4> QED
          BY <3>2, <4>2
      <3> QED
        BY <3>1, <3>2
    <2>2. g = [i \in 1..(N + 1) |-> g[i]]
      OBVIOUS
    <2> HIDE DEF Rest
    <2> QED
      BY <2>1, <2>2
  <1>4. P(from)
    <2> HIDE DEF P
    <2> QED BY <1>3
  <1>5. convertStr16ToStr8(data) = from[1]
    BY DEF convertStr16ToStr8, LooksLikeHeader
  <1> HIDE DEF from
  <1>6. \A i \in 1..(N + 1) : from[i] = IF i > N THEN << >> ELSE Rest(from, i)
    <2> HIDE DEF Rest
    <2> QED BY <1>4, Zenon
  <1> HIDE DEF P
  <1> DEFINE T == {k \in 0..N : \A i \in (N + 1 - k)..(N + 1) : from[i] = g[i]}
  <1>7. 0 \in T
    <2>1. N + 1 \in 1..(N + 1) /\ N + 1 > N /\ \A i \in (N + 1 - 0)..(N + 1) : i = N + 1
      BY <1>1
    <2>2. from[N + 1] = << >>
      BY <2>1, <1>6, Zenon
    <2>3. g[N + 1] = << >>
      BY DEF Converts
    <2> QED
      BY <1>1, <2>1, <2>2, <2>3
  <1>8. ASSUME NEW k \in 0..(N - 1), k \in T PROVE k + 1 \in T
    <2> DEFINE p == N - k
    <2>1. /\ p \in 1..N /\ p \in 1..(N + 1) /\ ~(p > N)
          /\ N + 1 - (k + 1) = p /\ N + 1 - k = p + 1 /\ k + 1 \in 0..N
      BY <1>1
    <2>2. \A i \in (p + 1)..(N + 1) : from[i] = g[i]
      BY <1>8, <2>1
    <2>3. from[p] = Rest(from, p)
      <3> HIDE DEF Rest, p
      <3> QED BY <2>1, <1>6
    <2>4. g[p] = Rest(g, p)
      <3> HIDE DEF p
      <3> QED BY <2>1 DEF Converts
    <2>5. Rest(from, p) = Rest(g, p)
      <3>1. p + 1 \in (p + 1)..(N + 1)
        BY <1>2, <2>1
      <3>2. LooksLikeHeader(data, p) => p + 3 + data[p+2] \in (p + 1)..(N + 1)
        BY <1>2, <2>1
      <3> HIDE DEF p
      <3>3. from[p + 1] = g[p + 1]
        BY <2>2, <3>1
      <3>4. LooksLikeHeader(data, p) => from[p + 3 + data[p+2]] = g[p + 3 + data[p+2]]
        BY <2>2, <3>2
      <3> QED
        BY <3>3, <3>4, Zenon
    <2>6. from[p] = g[p]
      <3> HIDE DEF Rest, p
      <3> QED BY <2>3, <2>4, <2>5, Zenon
    <2>7. \A i \in p..(N + 1) : from[i] = g[i]
      <3> TAKE i \in p..(N + 1)
      <3>1. i = p \/ i \in (p + 1)..(N + 1)
        BY <2>1
      <3> QED
        BY <2>2, <2>6, <3>1
    <2> QED
      BY <2>1, <2>7
  <1>9. 0..N \subseteq T
    <2> HIDE DEF T
    <2> QED BY <1>1, <1>7, <1>8, UpTo
  <1>10. N \in 0..N /\ 1 \in (N + 1 - N)..(N + 1)
    BY <1>1
  <1>11. from[1] = g[1]
    BY <1>9, <1>10
  <1> QED
    BY <1>5, <1>11

\* Bytes that do not look like a header are copied.
LEMMA Copied ==
    ASSUME NEW data \in Seq(Bytes), NEW g \in [1..(Len(data) + 1) -> Seq(Bytes)],
           Converts(g, data),
           NEW p \in Nat, NEW n \in Nat, p + n <= Len(data),
           \A i \in (p + 1)..(p + n) : ~LooksLikeHeader(data, i)
    PROVE  g[p + 1] = SubSeq(data, p + 1, p + n) \o g[p + n + 1]
  <1> DEFINE N == Len(data)
             T == {j \in 0..n : g[p + 1] = SubSeq(data, p + 1, p + j) \o g[p + j + 1]}
  <1>1. N \in Nat /\ \A i \in 1..N : data[i] \in Bytes
    BY ByteSeq
  <1>2. \A i \in 1..(N + 1) : g[i] \in Seq(Bytes)
    OBVIOUS
  <1>3. 0 \in T
    <2>1. p + 0 < p + 1 /\ p + 0 + 1 = p + 1 /\ p + 1 \in 1..(N + 1) /\ p + 1 \in Int /\ p + 0 \in Int
      BY <1>1
    <2>2. SubSeq(data, p + 1, p + 0) = << >>
      BY <2>1, SubSeqEmpty
    <2>3. << >> \o g[p + 1] = g[p + 1]
      BY <1>2, <2>1, ConcatEmptySeq, Zenon
    <2>4. g[p + 1] = SubSeq(data, p + 1, p + 0) \o g[p + 0 + 1]
      BY <2>1, <2>2, <2>3, Zenon
    <2> QED
      BY <2>4
  <1>4. ASSUME NEW j \in 0..(n - 1), j \in T PROVE j + 1 \in T
    <2> DEFINE q == p + j + 1   a == SubSeq(data, p + 1, p + j)   b == <<data[q]>>   c == g[q + 1]
    <2>1. /\ q \in 1..N /\ q + 1 \in 1..(N + 1) /\ q \in (p + 1)..(p + n)
          /\ p + (j + 1) = q /\ p + (j + 1) + 1 = q + 1 /\ p + 1 \in 1..N /\ q \in (p + 1)..N
          /\ q - 1 = p + j
      BY <1>1
    <2>2. g[p + 1] = a \o g[q]
      BY <1>4
    <2>3. g[q] = b \o c
      <3>1. ~LooksLikeHeader(data, q)
        BY <2>1
      <3> HIDE DEF q
      <3> QED
        BY <2>1, <3>1 DEF Converts
    <2>4. a \in Seq(Bytes) /\ b \in Seq(Bytes) /\ c \in Seq(Bytes)
      <3>1. \A i \in (p + 1)..(p + j) : data[i] \in Bytes
        BY <1>1
      <3>2. a \in Seq(Bytes)
        BY <3>1, SubSeqProperties
      <3> QED
        BY <3>2, <1>1, <1>2, <2>1
    <2>5. SubSeq(data, p + 1, q) = a \o b
      <3>1. SubSeq(data, p + 1, q) = SubSeq(data, p + 1, q - 1) \o <<data[q]>>
        <4> HIDE DEF q
        <4> QED BY <2>1, SubSeqRecursiveSecond
      <3> QED
        BY <2>1, <3>1
    <2>6. g[p + 1] = (a \o b) \o c
      <3> HIDE DEF a, b, c
      <3>1. (a \o b) \o c = a \o (b \o c)
        <4>1. \A x, y, z \in Seq(Bytes) : (x \o y) \o z = x \o (y \o z)
          BY ConcatAssociative
        <4> QED
          BY <2>4, <4>1, Zenon
      <3> HIDE DEF q
      <3> QED
        BY <2>2, <2>3, <3>1, Zenon
    <2>7. g[p + 1] = SubSeq(data, p + 1, p + (j + 1)) \o g[p + (j + 1) + 1]
      <3> HIDE DEF a, b
      <3> QED BY <2>1, <2>5, <2>6
    <2>8. j + 1 \in 0..n
      OBVIOUS
    <2> HIDE DEF q, a, b, c
    <2> QED
      BY <2>7, <2>8
  <1>5. 0..n \subseteq T
    <2> HIDE DEF T
    <2> QED BY <1>3, <1>4, UpTo
  <1>6. n \in T
    <2>1. n \in 0..n
      OBVIOUS
    <2> QED
      BY <1>5, <2>1
  <1> QED
    BY <1>6

\* The bytes of the k-th token stand where it starts.
LEMMA TokenBytes ==
    ASSUME NEW tokens \in Seq(MsgPack), NEW f \in [0..Len(tokens) -> Seq(Bytes)],
           Joins(f, [i \in 1..Len(tokens) |-> Encoded(tokens[i])], Len(tokens)),
           NEW k \in 1..Len(tokens)
    PROVE  /\ f[k] = f[k-1] \o Encoded(tokens[k])
           /\ Len(f[k-1]) \in Nat /\ Len(Encoded(tokens[k])) \in Nat
           /\ Len(f[k]) = Len(f[k-1]) + Len(Encoded(tokens[k]))
           /\ Len(f[k]) <= Len(f[Len(tokens)])
           /\ \A j \in 1..Len(Encoded(tokens[k])) :
                  f[Len(tokens)][Len(f[k-1]) + j] = Encoded(tokens[k])[j]
  <1> DEFINE n == Len(tokens)   all == [i \in 1..n |-> Encoded(tokens[i])]
             e == Encoded(tokens[k])   p == Len(f[k-1])   L == Len(e)
  <1>1. n \in Nat /\ \A i \in 1..n : tokens[i] \in MsgPack
    BY LenProperties, ElementOfSeq
  <1>2. \A i \in 1..n : all[i] = Encoded(tokens[i]) /\ all[i] \in Seq(Bytes)
    BY <1>1, EncodedBytes
  <1>3. Joins(f, all, n)
    OBVIOUS
  <1> HIDE DEF all
  <1>4. e \in Seq(Bytes) /\ f[k-1] \in Seq(Bytes) /\ f[k] \in Seq(Bytes) /\ f[n] \in Seq(Bytes)
    <2>1. k - 1 \in 0..n /\ k \in 0..n /\ n \in 0..n
      BY <1>1
    <2>2. e \in Seq(Bytes)
      BY <1>2
    <2> QED
      BY <2>1, <2>2
  <1>5. p \in Nat /\ L \in Nat
    BY <1>4, LenProperties
  <1>6. f[k] = f[k-1] \o e
    BY <1>2, <1>3 DEF Joins
  <1>7. /\ Len(f[k-1] \o e) = p + L
        /\ \A i \in 1..(p + L) : (f[k-1] \o e)[i] = IF i <= p THEN f[k-1][i] ELSE e[i - p]
    BY <1>4, ConcatProperties, Zenon
  <1>8. Len(f[k]) <= Len(f[n]) /\ \A i \in 1..Len(f[k]) : f[n][i] = f[k][i]
    <2>1. n \in 0..n /\ k \in 0..n
      BY <1>1
    <2>2. \A i \in 1..n : all[i] \in Seq(Bytes)
      BY <1>2
    <2>3. Begins(f[k], f[n])
      <3> DEFINE D == Seq(Bytes)
      <3> QED BY <1>1, <1>3, <2>1, <2>2, JoinsGrow
    <2> QED
      BY <2>3, Zenon DEF Begins
  <1>9. \A j \in 1..L : f[n][p + j] = e[j]
    <2> TAKE j \in 1..L
    <2> HIDE DEF e, p, L
    <2>1. p + j \in 1..(p + L) /\ ~(p + j <= p) /\ (p + j) - p = j
      BY <1>5
    <2>2. Len(f[k]) = p + L
      BY <1>6, <1>7, Zenon
    <2>3. f[n][p + j] = f[k][p + j]
      BY <1>8, <2>1, <2>2
    <2>4. (f[k-1] \o e)[p + j] = e[(p + j) - p]
      BY <1>7, <2>1, Zenon
    <2> QED
      BY <1>6, <2>1, <2>3, <2>4, Zenon
  <1>10. Len(f[k]) = p + L
    <2> HIDE DEF e, p, L
    <2> QED BY <1>6, <1>7, Zenon
  <1> QED
    BY <1>5, <1>6, <1>8, <1>9, <1>10

\* One token is converted as a parser would convert it.
LEMMA TokenConverted ==
    ASSUME NEW tokens \in Seq(MsgPack), NEW f \in [0..Len(tokens) -> Seq(Bytes)],
           Joins(f, [i \in 1..Len(tokens) |-> Encoded(tokens[i])], Len(tokens)),
           NEW data, data = f[Len(tokens)],
           NEW g \in [1..(Len(data) + 1) -> Seq(Bytes)], Converts(g, data),
           NEW k \in 1..Len(tokens),
           tokens[k] = Shortened(tokens[k]) =>
               \A i \in (Len(f[k-1]) + 1)..Len(f[k]) : ~LooksLikeHeader(data, i)
    PROVE  g[Len(f[k-1]) + 1] = Encoded(Shortened(tokens[k])) \o g[Len(f[k]) + 1]
  <1> DEFINE t == tokens[k]   e == Encoded(t)   p == Len(f[k-1])   L == Len(e)   N == Len(data)
  <1>1. /\ p \in Nat /\ L \in Nat /\ Len(f[k]) = p + L /\ p + L <= N
        /\ \A j \in 1..L : data[p + j] = e[j]
    BY TokenBytes
  <1>2. data \in Seq(Bytes) /\ t \in MsgPack /\ N \in Nat
    <2>1. Len(tokens) \in Nat
      BY LenProperties
    <2>2. f[Len(tokens)] \in Seq(Bytes)
      BY <2>1
    <2> QED
      BY <2>2, LenProperties, ElementOfSeq
  <1>3. e \in Seq(Bytes)
    BY <1>2, EncodedBytes
  <1>4. CASE t = Shortened(t)
    <2>1. \A i \in (p + 1)..(p + L) : ~LooksLikeHeader(data, i)
      BY <1>1, <1>4
    <2>2. g[p + 1] = SubSeq(data, p + 1, p + L) \o g[p + L + 1]
      <3> HIDE DEF e, p, L
      <3> QED BY <1>1, <1>2, <2>1, Copied
    <2>3. SubSeq(data, p + 1, p + L) = e
      <3> HIDE DEF e, p, L
      <3>1. \A i \in (p + 1)..(p + L) : data[i] \in Bytes
        BY <1>1, <1>2, ByteSeq
      <3> DEFINE part == SubSeq(data, p + 1, p + L)
      <3>2. /\ part \in Seq(Bytes)
            /\ Len(part) = IF p + 1 <= p + L THEN (p + L) - (p + 1) + 1 ELSE 0
            /\ \A i \in 1..((p + L) - (p + 1) + 1) : part[i] = data[(p + 1) + i - 1]
        BY <1>1, <3>1, SubSeqProperties
      <3>3. Len(e) = L
        BY DEF L
      <3> HIDE DEF part
      <3>4. /\ (p + L) - (p + 1) + 1 = L /\ (p + 1 <= p + L <=> L # 0)
            /\ \A i \in 1..L : (p + 1) + i - 1 = p + i
        BY <1>1
      <3>5. Len(part) = L /\ \A i \in 1..L : part[i] = e[i]
        BY <1>1, <3>2, <3>4
      <3>6. part = e
        BY <1>3, <3>2, <3>3, <3>5, SeqEqual
      <3> QED
        BY <3>6 DEF part
    <2>4. Encoded(Shortened(t)) = e
      BY <1>4
    <2> HIDE DEF t, e, p, L
    <2> QED
      BY <1>1, <2>2, <2>3, <2>4 DEF p, t
  <1>5. CASE t # Shortened(t)
    <2> DEFINE b == t.bytes   l == Len(b)
    <2>1. t.form = "str16" /\ l < Byte /\ b \in Seq(Bytes) /\ l \in Nat
      <3>1. t.form = "str16" /\ l < Byte
        BY <1>5 DEF Shortened
      <3>2. b \in Seq(Bytes)
        BY <1>2 DEF MsgPack, Bytes
      <3> QED
        BY <3>1, <3>2, LenProperties
    <2>2. l \div Byte = 0 /\ l % Byte = l
      <3>1. l \in 0..(Byte - 1) /\ 0 * Byte + l = l /\ 0 \in Nat /\ Byte \in Nat
        BY <2>1, Bases
      <3> HIDE DEF l
      <3>2. (0 * Byte + l) \div Byte = 0 /\ (0 * Byte + l) % Byte = l
        BY <3>1, DivMod, Zenon
      <3> QED
        BY <3>1, <3>2
    <2>3. e = <<Str16, 0, l>> \o b
      BY <2>1, <2>2 DEF Encoded
    <2>4. Encoded(Shortened(t)) = <<Str8, l>> \o b
      <3>1. /\ Shortened(t).form = "str8" /\ Shortened(t).bytes = b
        BY <1>2, <2>1 DEF MsgPack, Shortened
      <3> HIDE DEF b, t
      <3> QED
        BY <3>1 DEF Encoded
    <2>5. /\ L = 3 + l /\ e[1] = Str16 /\ e[2] = 0 /\ e[3] = l
          /\ \A i \in 1..l : e[3 + i] = b[i]
      <3> DEFINE h == <<Str16, 0, l>>
      <3>1. h \in Seq(Bytes) /\ Len(h) = 3 /\ h[1] = Str16 /\ h[2] = 0 /\ h[3] = l
        BY <2>1, WireAssumption, Bases DEF Bytes
      <3>2. e = h \o b
        BY <2>3
      <3> HIDE DEF h, b, e
      <3>3. /\ Len(h \o b) = Len(h) + l
            /\ \A i \in 1..(Len(h) + l) : (h \o b)[i] = IF i <= Len(h) THEN h[i] ELSE b[i - Len(h)]
        BY <3>1, <2>1, ConcatProperties, Zenon
      <3>4. Len(e) = 3 + l
        BY <3>1, <3>2, <3>3
      <3>5. \A i \in 1..(3 + l) : e[i] = IF i <= 3 THEN h[i] ELSE b[i - 3]
        BY <3>1, <3>2, <3>3
      <3>6. 1 \in 1..(3 + l) /\ 2 \in 1..(3 + l) /\ 3 \in 1..(3 + l)
        BY <2>1
      <3>7. \A i \in 1..l : 3 + i \in 1..(3 + l) /\ ~(3 + i <= 3) /\ (3 + i) - 3 = i
        BY <2>1
      <3>8. e[1] = Str16 /\ e[2] = 0 /\ e[3] = l
        BY <3>1, <3>5, <3>6
      <3>9. \A i \in 1..l : e[3 + i] = b[i]
        BY <3>5, <3>7
      <3> QED
        BY <3>4, <3>8, <3>9
    <2> HIDE DEF e, b, l, t, p, L
    <2>6. /\ data[p + 1] = Str16 /\ data[p + 2] = 0 /\ data[p + 3] = l
          /\ \A i \in 1..l : data[p + 3 + i] = b[i]
      <3>1. 1 \in 1..L /\ 2 \in 1..L /\ 3 \in 1..L /\ \A i \in 1..l : 3 + i \in 1..L
        BY <2>1, <2>5
      <3>2. data[p + 1] = e[1] /\ data[p + 2] = e[2] /\ data[p + 3] = e[3]
        BY <1>1, <3>1
      <3>3. \A i \in 1..l : data[p + (3 + i)] = e[3 + i]
        BY <1>1, <3>1, Zenon
      <3>4. \A i \in 1..l : p + (3 + i) = p + 3 + i
        <4>1. p \in Nat
          BY <1>1, Zenon
        <4>2. \A x, i \in Nat : x + (3 + i) = x + 3 + i
          OBVIOUS
        <4>3. \A i \in 1..l : i \in Nat
          BY <2>1
        <4> QED
          BY <4>1, <4>2, <4>3, Zenon
      <3>5. data[p + 1] = Str16 /\ data[p + 2] = 0 /\ data[p + 3] = l
        BY <2>5, <3>2, Zenon
      <3>6. ASSUME NEW i \in 1..l PROVE data[p + 3 + i] = b[i]
        <4>1. data[p + 3 + i] = e[3 + i]
          BY <3>3, <3>4, Zenon
        <4>2. e[3 + i] = b[i]
          BY <2>5, Zenon
        <4> QED
          BY <4>1, <4>2, Zenon
      <3> QED
        BY <3>5, <3>6, Zenon
    <2>7. /\ p + 1 \in 1..N /\ p + 1 + 1 = p + 2 /\ p + 1 + 2 = p + 3 /\ p + 1 + 3 = p + 4
          /\ p + 1 + 2 + l <= N /\ p + 1 + 2 + l = p + 3 + l /\ p + 1 + 3 + l = p + L + 1
      BY <1>1, <1>2, <2>1, <2>5
    <2>8. LooksLikeHeader(data, p + 1)
      <3>1. p + 3 <= N
        <4>1. \A x, y, z \in Nat : x + 3 + y <= z => x + 3 <= z
          OBVIOUS
        <4>2. p \in Nat /\ l \in Nat /\ N \in Nat /\ p + 3 + l <= N
          BY <1>1, <1>2, <2>1, <2>7
        <4> HIDE DEF N
        <4> QED
          BY <4>1, <4>2, Zenon
      <3> QED
        BY <2>6, <2>7, <3>1 DEF LooksLikeHeader
    <2>9. g[p + 1] = <<Str8, l>> \o SubSeq(data, p + 4, p + 3 + l) \o g[p + L + 1]
      <3>1. g[p + 1] = <<Str8, data[p + 1 + 2]>>
                          \o SubSeq(data, p + 1 + 3, p + 1 + 2 + data[p + 1 + 2])
                          \o g[p + 1 + 3 + data[p + 1 + 2]]
        BY <2>7, <2>8, Zenon DEF Converts
      <3>2. data[p + 1 + 2] = l
        BY <2>6, <2>7
      <3> QED
        BY <2>7, <3>1, <3>2, Zenon
    <2>10. SubSeq(data, p + 4, p + 3 + l) = b
      <3> DEFINE part == SubSeq(data, p + 4, p + 3 + l)
      <3>1. \A i \in (p + 4)..(p + 3 + l) : data[i] \in Bytes
        <4>1. \A i \in (p + 4)..(p + 3 + l) : i \in 1..N
          BY <1>1, <1>2, <2>1, <2>7
        <4> QED
          BY <1>2, <4>1, ElementOfSeq
      <3>2. /\ part \in Seq(Bytes)
            /\ Len(part) = IF p + 4 <= p + 3 + l THEN (p + 3 + l) - (p + 4) + 1 ELSE 0
            /\ \A i \in 1..((p + 3 + l) - (p + 4) + 1) : part[i] = data[(p + 4) + i - 1]
        BY <1>1, <2>1, <3>1, SubSeqProperties
      <3> HIDE DEF part
      <3>3. /\ (p + 3 + l) - (p + 4) + 1 = l /\ (p + 4 <= p + 3 + l <=> l # 0)
            /\ \A i \in 1..l : (p + 4) + i - 1 = p + 3 + i
        BY <1>1, <2>1
      <3>4. Len(part) = l /\ \A i \in 1..l : part[i] = b[i]
        BY <2>1, <2>6, <3>2, <3>3
      <3>5. Len(b) = l
        BY DEF l
      <3>6. part = b
        BY <2>1, <3>2, <3>4, <3>5, SeqEqual
      <3> QED
        BY <3>6 DEF part
    <2> QED
      BY <1>1, <2>4, <2>9, <2>10, Zenon DEF t, p
  <1> QED
    BY <1>4, <1>5

\* An action is encoded as bytes (Encode).
LEMMA EncodeBytes ==
    ASSUME NEW tokens \in Seq(MsgPack)
    PROVE  Encode(tokens) \in Seq(Bytes)
  <1>1. PICK f \in [0..Len(tokens) -> Seq(Bytes)] : Encode(tokens) = f[Len(tokens)]
    BY EncodeJoins
  <1>2. Len(tokens) \in 0..Len(tokens)
    BY LenProperties
  <1> QED
    BY <1>1, <1>2

\* The short form of an action is the encoding of the short forms of its tokens.
LEMMA ShortTokens ==
    ASSUME NEW tokens \in Seq(MsgPack)
    PROVE  LET short == [i \in 1..Len(tokens) |-> Shortened(tokens[i])]
           IN  /\ short \in Seq(MsgPack) /\ Len(short) = Len(tokens)
               /\ \A i \in 1..Len(tokens) : short[i] = Shortened(tokens[i])
               /\ ShortForm(tokens) = Encode(short)
  <1>1. Len(tokens) \in Nat /\ \A i \in 1..Len(tokens) : tokens[i] \in MsgPack
    BY LenProperties, ElementOfSeq
  <1>2. \A i \in 1..Len(tokens) : Shortened(tokens[i]) \in MsgPack
    BY <1>1, ShortenedToken
  <1> QED
    BY <1>1, <1>2 DEF ShortForm

\* The short form of an action is bytes (ShortForm).
LEMMA ShortFormBytes ==
    ASSUME NEW tokens \in Seq(MsgPack)
    PROVE  ShortForm(tokens) \in Seq(Bytes)
  BY ShortTokens, EncodeBytes

\* The conversion changes the headers of short strings and nothing else, in
\* every action in which no integer and no other string looks like a header
\* (convertStr16ToStr8, which does not parse).
THEOREM ConvertedAsParsed ==
    ASSUME NEW tokens \in Seq(MsgPack), ~Disguised(tokens)
    PROVE  convertStr16ToStr8(Encode(tokens)) = ShortForm(tokens)
  <1> DEFINE n == Len(tokens)
             short == [i \in 1..n |-> Shortened(tokens[i])]
             all == [i \in 1..n |-> Encoded(tokens[i])]
             data == Encode(tokens)
  <1>1. n \in Nat /\ n \in 0..n /\ 0 \in 0..n
    BY LenProperties
  <1>2. /\ short \in Seq(MsgPack) /\ Len(short) = n
        /\ \A i \in 1..n : short[i] = Shortened(tokens[i])
        /\ ShortForm(tokens) = Encode(short)
    BY ShortTokens
  <1>3. PICK f \in [0..n -> Seq(Bytes)] :
            /\ Joins(f, all, n)
            /\ \A k \in 0..n : Encode(SubSeq(tokens, 1, k)) = f[k]
            /\ data = f[n]
    BY EncodeJoins
  <1>4. PICK h \in [0..n -> Seq(Bytes)] :
            /\ Joins(h, [i \in 1..n |-> Encoded(short[i])], n)
            /\ Encode(short) = h[n]
    <2> HIDE DEF short, n
    <2>1. \E h \in [0..Len(short) -> Seq(Bytes)] :
              /\ Joins(h, [i \in 1..Len(short) |-> Encoded(short[i])], Len(short))
              /\ Encode(short) = h[Len(short)]
      BY <1>2, EncodeJoins
    <2> QED
      BY <1>2, <2>1
  <1> HIDE DEF short
  <1>5. data \in Seq(Bytes)
    BY EncodeBytes
  <1>6. PICK g \in [1..(Len(data) + 1) -> Seq(Bytes)] : Converts(g, data)
    BY <1>5, ConvertsExist
  <1>7. convertStr16ToStr8(data) = g[1]
    BY <1>5, <1>6, ConvertsValue
  <1>8. ASSUME NEW k \in 1..n
        PROVE  g[Len(f[k-1]) + 1] = Encoded(Shortened(tokens[k])) \o g[Len(f[k]) + 1]
    <2>1. k - 1 \in 0..n /\ k \in 0..n /\ (k + 1) - 1 = k
      BY <1>1
    <2>2. f[k] \in Seq(Bytes) /\ f[k-1] \in Seq(Bytes)
      BY <2>1
    <2>3. Len(f[k]) \in Nat /\ Len(f[k-1]) \in Nat
      BY <2>2, LenProperties
    <2>4. Start(tokens, k) = Len(f[k-1]) + 1
      BY <1>3, <2>1, Zenon DEF Start
    <2>5. Start(tokens, k + 1) - 1 = Len(f[k])
      <3>1. Start(tokens, k + 1) = Len(f[k]) + 1
        BY <1>3, <2>1, Zenon DEF Start
      <3> QED
        BY <2>3, <3>1
    <2>6. ASSUME tokens[k] = Shortened(tokens[k]),
                 NEW i \in (Len(f[k-1]) + 1)..Len(f[k]), LooksLikeHeader(data, i)
          PROVE  FALSE
      <3>1. i \in Start(tokens, k)..(Start(tokens, k + 1) - 1)
        BY <2>4, <2>5, Zenon
      <3>2. Disguised(tokens)
        BY <2>6, <3>1, Zenon DEF Disguised
      <3> QED
        BY <3>2
    <2> HIDE DEF data, n
    <2>7. data = f[Len(tokens)] /\ f \in [0..Len(tokens) -> Seq(Bytes)] /\ k \in 1..Len(tokens)
          /\ Joins(f, [i \in 1..Len(tokens) |-> Encoded(tokens[i])], Len(tokens))
      BY <1>3 DEF n
    <2>8. tokens[k] = Shortened(tokens[k]) =>
              \A i \in (Len(f[k-1]) + 1)..Len(f[k]) : ~LooksLikeHeader(data, i)
      BY <2>6
    <2> QED
      BY <1>6, <2>7, <2>8, TokenConverted, Zenon
  <1> DEFINE T == {k \in 0..n : g[1] = h[k] \o g[Len(f[k]) + 1]}
  <1>9. \A k \in 0..n : g[Len(f[k]) + 1] \in Seq(Bytes)
    <2> TAKE k \in 0..n
    <2>1. Begins(f[k], f[n])
      <3>1. \A i \in 1..n : all[i] \in Seq(Bytes)
        BY EncodedBytes, ElementOfSeq
      <3>2. k \in 0..n /\ n \in 0..n
        BY <1>1
      <3> HIDE DEF all, n
      <3> QED
        BY <1>1, <1>3, <3>1, <3>2, JoinsGrow
    <2>2. Len(f[k]) \in Nat /\ Len(f[n]) \in Nat
      BY <1>1, LenProperties
    <2>3. Len(f[k]) + 1 \in 1..(Len(data) + 1)
      BY <1>3, <2>1, <2>2 DEF Begins
    <2> QED
      BY <1>6, <2>3
  <1>10. \A k \in 1..n : h[k] = h[k-1] \o Encoded(Shortened(tokens[k]))
    BY <1>2, <1>4 DEF Joins
  <1> HIDE DEF data
  <1>11. 0 \in T
    <2>1. Len(f[0]) + 1 = 1 /\ h[0] = << >>
      BY <1>3, <1>4 DEF Joins
    <2>2. << >> \o g[1] = g[1]
      <3>1. g[1] \in Seq(Bytes)
        BY <1>1, <1>9, <2>1
      <3> QED
        BY <3>1, ConcatEmptySeq, Zenon
    <2>3. g[1] = h[0] \o g[Len(f[0]) + 1]
      BY <2>1, <2>2, Zenon
    <2> QED
      BY <1>1, <2>3
  <1>12. ASSUME NEW k \in 0..(n - 1), k \in T PROVE k + 1 \in T
    <2>1. k + 1 \in 1..n /\ k + 1 \in 0..n /\ k \in 0..n /\ (k + 1) - 1 = k
      BY <1>1
    <2> DEFINE a == h[k]   b == Encoded(Shortened(tokens[k + 1]))   c == g[Len(f[k + 1]) + 1]
    <2>2. g[1] = a \o g[Len(f[k]) + 1]
      BY <1>12
    <2>3. g[Len(f[k]) + 1] = b \o c
      <3>1. g[Len(f[(k + 1) - 1]) + 1] = b \o c
        BY <1>8, <2>1, Zenon
      <3> QED
        BY <2>1, <3>1, Zenon
    <2>4. h[k + 1] = a \o b
      <3>1. h[k + 1] = h[(k + 1) - 1] \o b
        BY <1>10, <2>1, Zenon
      <3> QED
        BY <2>1, <3>1, Zenon
    <2>5. a \in Seq(Bytes) /\ b \in Seq(Bytes) /\ c \in Seq(Bytes)
      <3>1. tokens[k + 1] \in MsgPack
        BY <2>1, ElementOfSeq
      <3> QED
        BY <1>9, <2>1, <3>1, ShortenedToken, EncodedBytes
    <2> HIDE DEF a, b
    <2>6. g[1] = h[k + 1] \o c
      <3>1. \A x, y, z \in Seq(Bytes) : (x \o y) \o z = x \o (y \o z)
        BY ConcatAssociative
      <3> HIDE DEF c
      <3>2. (a \o b) \o c = a \o (b \o c)
        BY <2>5, <3>1, Zenon
      <3> QED
        BY <2>2, <2>3, <2>4, <3>2, Zenon
    <2> QED
      BY <2>1, <2>6
  <1>13. 0..n \subseteq T
    <2> HIDE DEF T
    <2> QED BY <1>1, <1>11, <1>12, UpTo
  <1>14. g[1] = h[n] \o g[Len(f[n]) + 1]
    BY <1>1, <1>13
  <1>15. g[Len(f[n]) + 1] = << >>
    BY <1>3, <1>6 DEF Converts
  <1>16. h[n] \o << >> = h[n]
    <2>1. h[n] \in Seq(Bytes)
      BY <1>1
    <2> QED
      BY <2>1, ConcatEmptySeq, Zenon
  <1> QED
    BY <1>2, <1>4, <1>7, <1>14, <1>15, <1>16, Zenon DEF data
=============================================================================
