------------------------------ MODULE WireProofs ------------------------------
(***************************************************************************)
(* A wallet is recovered from a request exactly when it says what was      *)
(* signed, the conversion of its bytes is that of a parser, and the two    *)
(* readings of the request (Wire) agree on what kind of action it is, for  *)
(* every request there can be.                                             *)
(*                                                                         *)
(* A request says what was signed when what is hashed and the signature    *)
(* are the client's, byte for byte.  The parts of both have a length, or   *)
(* say where they end, so equal wholes have equal parts (JoinsAgree); and  *)
(* each part is the bytes of a number, so equal parts are equal numbers    *)
(* (FittingNumbers).                                                       *)
(***************************************************************************)
EXTENDS WireBytes

\* Of two equal joins, parts of which neither is the other's beginning agree.
LEMMA JoinsAgree ==
    ASSUME NEW S, NEW a \in Seq(S), NEW b \in Seq(S), NEW x \in Seq(S), NEW y \in Seq(S),
           a \o x = b \o y, SelfDelimiting(a, b)
    PROVE  a = b /\ x = y
  <1>1. ASSUME NEW s \in Seq(S), NEW t \in Seq(S), NEW u \in Seq(S), NEW v \in Seq(S),
               s \o u = t \o v, Len(s) <= Len(t)
        PROVE  IsPrefix(s, t)
    <2> DEFINE n == Len(s)
    <2>1. n \in Nat /\ Len(t) \in Nat
      BY LenProperties
    <2>2. Begins(s, s \o u) /\ Begins(t, t \o v)
      BY ConcatBegins, Zenon
    <2>3. ASSUME NEW i \in 1..n PROVE s[i] = t[i]
      <3>1. i \in 1..Len(t)
        BY <1>1, <2>1
      <3>2. (s \o u)[i] = s[i]
        BY <2>2, Zenon DEF Begins
      <3>3. (t \o v)[i] = t[i]
        BY <2>2, <3>1, Zenon DEF Begins
      <3> QED
        BY <1>1, <3>2, <3>3, Zenon
    <2> DEFINE p == SubSeq(s, 1, n)   q == SubSeq(t, 1, n)
    <2>4. \A i \in 1..n : s[i] \in S /\ t[i] \in S
      BY <2>3, ElementOfSeq
    <2>5. p = s
      BY SubSeqFull
    <2>6. /\ q \in Seq(S) /\ Len(q) = IF 1 <= n THEN n - 1 + 1 ELSE 0
          /\ \A i \in 1..(n - 1 + 1) : q[i] = t[1 + i - 1]
      BY <2>1, <2>4, SubSeqProperties
    <2> HIDE DEF p, q
    <2>7. Len(q) = n /\ \A i \in 1..n : q[i] = s[i]
      <3> HIDE DEF n
      <3>1. n - 1 + 1 = n /\ \A i \in 1..n : 1 + i - 1 = i
        BY <2>1
      <3>2. Len(q) = n
        <4>1. Len(q) = IF 1 <= n THEN n - 1 + 1 ELSE 0
          BY <2>6
        <4> QED
          BY <2>1, <4>1
      <3>3. ASSUME NEW i \in 1..n PROVE q[i] = s[i]
        <4>1. q[i] = t[1 + i - 1]
          BY <2>6, <3>1, Zenon
        <4>2. q[i] = t[i]
          BY <3>1, <4>1, Zenon
        <4> QED
          BY <2>3, <4>2, Zenon
      <3> QED
        BY <3>2, <3>3
    <2>8. q = s
      BY <2>6, <2>7, SeqEqual
    <2> QED
      BY <1>1, <2>5, <2>8 DEF IsPrefix, p, q
  <1>2. a = b
    <2>1. CASE Len(a) <= Len(b)
      BY <1>1, <2>1 DEF SelfDelimiting
    <2>2. CASE ~(Len(a) <= Len(b))
      <3>1. Len(b) <= Len(a)
        BY <2>2, LenProperties
      <3>2. IsPrefix(b, a)
        BY <1>1, <3>1
      <3> QED
        BY <3>2 DEF SelfDelimiting
    <2> QED
      BY <2>1, <2>2
  <1>3. a \o x = a \o y
    BY <1>2, Zenon
  <1>4. x = y
    <2>1. \A T : \A s, t, v \in Seq(T) : s \o t = s \o v => t = v
      BY ConcatSimplifications
    <2> QED
      BY <1>3, <2>1, Zenon
  <1> QED
    BY <1>2, <1>4

\* Neither of two sequences of one length begins with the other, or they are equal.
LEMMA SameLength ==
    ASSUME NEW S, NEW a \in Seq(S), NEW b \in Seq(S), Len(a) = Len(b)
    PROVE  SelfDelimiting(a, b)
  <1>1. SubSeq(a, 1, Len(a)) = a /\ SubSeq(b, 1, Len(b)) = b
    BY SubSeqFull
  <1> QED
    BY <1>1, Zenon DEF SelfDelimiting, IsPrefix

\* A request that can be hashed, and the parts of what is hashed.
Hashable(q) ==
    /\ Requested(q) /\ q.nonce >= 0 /\ (q.expires = Nil \/ q.expires >= 0)
    /\ HasVault(q) => addressToBytes(q.vault) # Failed

VaultPart(q) == IF HasVault(q) THEN <<1>> \o addressToBytes(q.vault) ELSE <<0>>
ExpiryPart(q) == IF q.expires = Nil THEN << >> ELSE <<0>> \o BigEndian(Long, q.expires)
VaultNumber(q) == IF HasVault(q) THEN Number(q.vault) ELSE Nil

\* The tags of the vault, 0 and 1, are bytes.
LEMMA Digits01 == 0 \in Bytes /\ 1 \in Bytes
  BY Bases DEF Bytes

\* A number that fits is known from its bytes.
LEMMA FittingNumbers ==
    ASSUME NEW width \in Nat, NEW m \in Nat, NEW n \in Nat, Fits(width, m), Fits(width, n)
    PROVE  BigEndian(width, m) = BigEndian(width, n) <=> m = n
  BY DEF Fits

\* An address that is decoded is the bytes of the number that is spelt
\* (addressToBytes).
LEMMA AddressNumber ==
    ASSUME NEW text, IsText(text), addressToBytes(text) # Failed
    PROVE  /\ addressToBytes(text) \in Seq(Bytes) /\ Len(addressToBytes(text)) = AddressLen
           /\ addressToBytes(text) = BigEndian(AddressLen, Number(text))
  <1> DEFINE bytes == decodeHex(text)
  <1>1. bytes # Failed /\ Len(bytes) = AddressLen /\ addressToBytes(text) = bytes
    BY DEF addressToBytes
  <1>2. bytes \in Seq(Bytes) /\ Value(Byte, bytes) = Number(text)
    BY <1>1, DecodedNumber
  <1>3. BigEndian(Len(bytes), Value(Byte, bytes)) = bytes
    BY <1>2, BigEndianOfValue
  <1> HIDE DEF bytes
  <1> QED
    BY <1>1, <1>2, <1>3

\* The part of the vault says by its first byte how long it is.
LEMMA VaultParts ==
    ASSUME NEW q, Hashable(q)
    PROVE  /\ VaultPart(q) \in Seq(Bytes)
           /\ Len(VaultPart(q)) = IF HasVault(q) THEN 1 + AddressLen ELSE 1
           /\ VaultPart(q)[1] = IF HasVault(q) THEN 1 ELSE 0
  <1>1. CASE HasVault(q)
    <2> DEFINE a == addressToBytes(q.vault)   tag == <<1>>
    <2>1. IsText(q.vault) /\ a # Failed
      BY <1>1 DEF Hashable, Requested, HasVault
    <2>2. a \in Seq(Bytes) /\ Len(a) = AddressLen
      BY <2>1, AddressNumber
    <2>3. tag \in Seq(Bytes) /\ Len(tag) = 1 /\ tag[1] = 1
      BY Digits01
    <2>4. VaultPart(q) = tag \o a
      BY <1>1 DEF VaultPart
    <2> HIDE DEF a, tag
    <2>5. tag \o a \in Seq(Bytes) /\ Len(tag \o a) = Len(tag) + Len(a)
      BY <2>2, <2>3, ConcatProperties, Zenon
    <2>6. (tag \o a)[1] = tag[1]
      <3>1. Begins(tag, tag \o a)
        BY <2>2, <2>3, ConcatBegins, Zenon
      <3>2. 1 \in 1..Len(tag)
        BY <2>3
      <3> QED
        BY <3>1, <3>2, Zenon DEF Begins
    <2> QED
      BY <1>1, <2>2, <2>3, <2>4, <2>5, <2>6
  <1>2. CASE ~HasVault(q)
    <2>1. VaultPart(q) = <<0>>
      BY <1>2 DEF VaultPart
    <2>2. <<0>> \in Seq(Bytes) /\ Len(<<0>>) = 1 /\ <<0>>[1] = 0
      BY Digits01
    <2> QED
      BY <1>2, <2>1, <2>2
  <1> QED
    BY <1>1, <1>2

\* The part of the expiry is bytes, with their number.
LEMMA ExpiryParts ==
    ASSUME NEW q, Hashable(q)
    PROVE  /\ ExpiryPart(q) \in Seq(Bytes)
           /\ Len(ExpiryPart(q)) = IF q.expires = Nil THEN 0 ELSE 1 + Long
  <1>1. CASE q.expires # Nil
    <2> DEFINE e == BigEndian(Long, q.expires)   tag == <<0>>
    <2>1. q.expires \in Nat /\ Long \in Nat
      BY <1>1, WireAssumption DEF Hashable, Requested
    <2>2. e \in Seq(Bytes) /\ Len(e) = Long
      BY <2>1, BigEndianBytes
    <2>3. tag \in Seq(Bytes) /\ Len(tag) = 1
      BY Digits01
    <2>4. ExpiryPart(q) = tag \o e
      BY <1>1 DEF ExpiryPart
    <2> HIDE DEF e, tag
    <2>5. tag \o e \in Seq(Bytes) /\ Len(tag \o e) = Len(tag) + Len(e)
      BY <2>2, <2>3, ConcatProperties, Zenon
    <2> QED
      BY <1>1, <2>2, <2>3, <2>4, <2>5
  <1>2. CASE q.expires = Nil
    BY <1>2, EmptySeq DEF ExpiryPart
  <1> QED
    BY <1>1, <1>2

\* The tag and the address say which vault it is, if any.
LEMMA SameVault ==
    ASSUME NEW p, NEW q, Hashable(p), Hashable(q)
    PROVE  VaultPart(p) = VaultPart(q) <=> VaultNumber(p) = VaultNumber(q)
  <1>1. ASSUME NEW r, Hashable(r), HasVault(r)
        PROVE  /\ addressToBytes(r.vault) \in Seq(Bytes)
               /\ addressToBytes(r.vault) = BigEndian(AddressLen, Number(r.vault))
               /\ Value(Byte, addressToBytes(r.vault)) = Number(r.vault)
               /\ Number(r.vault) \in Nat
    <2>1. IsText(r.vault) /\ addressToBytes(r.vault) # Failed
      BY <1>1 DEF Hashable, Requested, HasVault
    <2>2. decodeHex(r.vault) # Failed /\ addressToBytes(r.vault) = decodeHex(r.vault)
      BY <2>1 DEF addressToBytes
    <2>3. decodeHex(r.vault) \in Seq(Nat)
      BY <2>1, <2>2, DecodedNumber, ByteSeq
    <2>4. Value(Byte, decodeHex(r.vault)) \in Nat
      BY <2>3, ValueNatural, Bases
    <2> QED
      BY <2>1, <2>2, <2>4, AddressNumber, DecodedNumber
  <1>2. CASE HasVault(p) /\ HasVault(q)
    <2> DEFINE a == addressToBytes(p.vault)   b == addressToBytes(q.vault)
    <2>1. VaultPart(p) = <<1>> \o a /\ VaultPart(q) = <<1>> \o b
      BY <1>2 DEF VaultPart
    <2>2. VaultNumber(p) = Number(p.vault) /\ VaultNumber(q) = Number(q.vault)
      BY <1>2 DEF VaultNumber
    <2>3. a \in Seq(Bytes) /\ b \in Seq(Bytes)
      BY <1>1, <1>2
    <2>4. a = b <=> Number(p.vault) = Number(q.vault)
      <3>1. a = BigEndian(AddressLen, Number(p.vault)) /\ Value(Byte, a) = Number(p.vault)
        BY <1>1, <1>2
      <3>2. b = BigEndian(AddressLen, Number(q.vault)) /\ Value(Byte, b) = Number(q.vault)
        BY <1>1, <1>2
      <3> HIDE DEF a, b
      <3> QED
        BY <3>1, <3>2, Zenon
    <2>5. <<1>> \o a = <<1>> \o b <=> a = b
      <3>1. \A T : \A s, t, v \in Seq(T) : s \o t = s \o v => t = v
        BY ConcatSimplifications
      <3>2. <<1>> \in Seq(Bytes)
        BY Digits01
      <3> HIDE DEF a, b
      <3> QED
        BY <2>3, <3>1, <3>2, Zenon
    <2> HIDE DEF a, b
    <2> QED
      BY <2>1, <2>2, <2>4, <2>5
  <1>3. CASE HasVault(p) /\ ~HasVault(q)
    <2>1. VaultNumber(p) \in Nat /\ VaultNumber(q) = Nil
      BY <1>1, <1>3 DEF VaultNumber
    <2>2. VaultPart(p)[1] = 1 /\ VaultPart(q)[1] = 0
      BY <1>3, VaultParts
    <2> QED
      BY <2>1, <2>2, WireAssumption
  <1>4. CASE ~HasVault(p) /\ HasVault(q)
    <2>1. VaultNumber(q) \in Nat /\ VaultNumber(p) = Nil
      BY <1>1, <1>4 DEF VaultNumber
    <2>2. VaultPart(q)[1] = 1 /\ VaultPart(p)[1] = 0
      BY <1>4, VaultParts
    <2> QED
      BY <2>1, <2>2, WireAssumption
  <1>5. CASE ~HasVault(p) /\ ~HasVault(q)
    BY <1>5 DEF VaultPart, VaultNumber
  <1> QED
    BY <1>2, <1>3, <1>4, <1>5

\* What is hashed is the action, the nonce, the vault and the expiry, in this
\* order (encodeActionHash).
LEMMA PreimageParts ==
    ASSUME NEW q, Hashable(q), NEW bytes \in Seq(Bytes)
    PROVE  LET n == BigEndian(Long, q.nonce)   v == VaultPart(q)   e == ExpiryPart(q)
           IN  /\ n \in Seq(Bytes) /\ Len(n) = Long
               /\ v \o e \in Seq(Bytes) /\ n \o (v \o e) \in Seq(Bytes)
               /\ Preimage(bytes, q) = bytes \o (n \o (v \o e))
  <1> DEFINE n == BigEndian(Long, q.nonce)   v == VaultPart(q)   e == ExpiryPart(q)
  <1>1. n \in Seq(Bytes) /\ Len(n) = Long
    <2>1. q.nonce \in Nat /\ Long \in Nat
      BY WireAssumption DEF Hashable, Requested
    <2> QED
      BY <2>1, BigEndianBytes
  <1>2. v \in Seq(Bytes) /\ e \in Seq(Bytes)
    BY VaultParts, ExpiryParts
  <1>3. Preimage(bytes, q) = ((bytes \o n) \o v) \o e
    BY Zenon DEF Preimage, VaultPart, ExpiryPart
  <1> HIDE DEF n, v, e
  <1>4. \A x, y \in Seq(Bytes) : x \o y \in Seq(Bytes)
    BY ConcatProperties, Zenon
  <1>5. \A x, y, z \in Seq(Bytes) : (x \o y) \o z = x \o (y \o z)
    BY ConcatAssociative
  <1>6. v \o e \in Seq(Bytes) /\ n \o (v \o e) \in Seq(Bytes) /\ bytes \o n \in Seq(Bytes)
    BY <1>1, <1>2, <1>4, Zenon
  <1>7. ((bytes \o n) \o v) \o e = (bytes \o n) \o (v \o e)
    BY <1>2, <1>5, <1>6, Zenon
  <1>8. (bytes \o n) \o (v \o e) = bytes \o (n \o (v \o e))
    BY <1>1, <1>5, <1>6, Zenon
  <1> QED
    BY <1>1, <1>3, <1>6, <1>7, <1>8, Zenon DEF n, v, e

\* Two requests have the same hash exactly when they say the same: the action,
\* the nonce, the vault and the expiry, none of which can pass for part of
\* another (encodeActionHash).
THEOREM SamePreimage ==
    ASSUME NEW p, NEW q, Hashable(p), Hashable(q),
           NEW a \in Seq(Bytes), NEW b \in Seq(Bytes), SelfDelimiting(a, b)
    PROVE  Preimage(a, p) = Preimage(b, q)
               <=> /\ a = b /\ p.nonce = q.nonce /\ p.expires = q.expires
                   /\ VaultNumber(p) = VaultNumber(q)
  <1> DEFINE m == BigEndian(Long, p.nonce)   v == VaultPart(p)   e == ExpiryPart(p)
             n == BigEndian(Long, q.nonce)   w == VaultPart(q)   f == ExpiryPart(q)
  <1>1. /\ m \in Seq(Bytes) /\ Len(m) = Long
        /\ v \o e \in Seq(Bytes) /\ m \o (v \o e) \in Seq(Bytes)
        /\ Preimage(a, p) = a \o (m \o (v \o e))
    BY PreimageParts
  <1>2. /\ n \in Seq(Bytes) /\ Len(n) = Long
        /\ w \o f \in Seq(Bytes) /\ n \o (w \o f) \in Seq(Bytes)
        /\ Preimage(b, q) = b \o (n \o (w \o f))
    BY PreimageParts
  <1>3. /\ v \in Seq(Bytes) /\ Len(v) = IF HasVault(p) THEN 1 + AddressLen ELSE 1
        /\ v[1] = IF HasVault(p) THEN 1 ELSE 0
    BY VaultParts
  <1>4. /\ w \in Seq(Bytes) /\ Len(w) = IF HasVault(q) THEN 1 + AddressLen ELSE 1
        /\ w[1] = IF HasVault(q) THEN 1 ELSE 0
    BY VaultParts
  <1>5. /\ e \in Seq(Bytes) /\ Len(e) = IF p.expires = Nil THEN 0 ELSE 1 + Long
        /\ f \in Seq(Bytes) /\ Len(f) = IF q.expires = Nil THEN 0 ELSE 1 + Long
    BY ExpiryParts
  <1>6. m = n <=> p.nonce = q.nonce
    <2>1. /\ Long \in Nat /\ p.nonce \in Nat /\ q.nonce \in Nat
          /\ Fits(Long, p.nonce) /\ Fits(Long, q.nonce)
      BY WireAssumption DEF Hashable, Requested
    <2> QED
      BY <2>1, FittingNumbers
  <1>7. v = w <=> VaultNumber(p) = VaultNumber(q)
    BY SameVault
  <1>8. e = f <=> p.expires = q.expires
    <2>1. /\ Long \in Nat
          /\ p.expires = Nil \/ (p.expires \in Nat /\ Fits(Long, p.expires))
          /\ q.expires = Nil \/ (q.expires \in Nat /\ Fits(Long, q.expires))
      BY WireAssumption DEF Hashable, Requested
    <2>2. CASE p.expires # Nil /\ q.expires # Nil
      <3> DEFINE x == BigEndian(Long, p.expires)   y == BigEndian(Long, q.expires)
      <3>1. e = <<0>> \o x /\ f = <<0>> \o y
        BY <2>2 DEF ExpiryPart
      <3>2. x \in Seq(Bytes) /\ y \in Seq(Bytes)
        BY <2>1, <2>2, BigEndianBytes
      <3>3. x = y <=> p.expires = q.expires
        BY <2>1, <2>2, FittingNumbers
      <3>4. \A T : \A s, t, u \in Seq(T) : s \o t = s \o u => t = u
        BY ConcatSimplifications
      <3>5. <<0>> \in Seq(Bytes)
        BY Digits01
      <3> HIDE DEF x, y, e, f
      <3>6. <<0>> \o x = <<0>> \o y <=> x = y
        BY <3>2, <3>4, <3>5, Zenon
      <3> QED
        BY <3>1, <3>3, <3>6
    <2>3. CASE p.expires = Nil /\ q.expires = Nil
      BY <2>3 DEF ExpiryPart
    <2>4. CASE (p.expires = Nil) # (q.expires = Nil)
      <3>1. Len(e) # Len(f)
        BY <1>5, <2>1, <2>4
      <3> HIDE DEF e, f
      <3> QED
        BY <2>4, <3>1
    <2> QED
      BY <2>2, <2>3, <2>4
  <1> HIDE DEF m, v, e, n, w, f
  <1>9. ASSUME a \o (m \o (v \o e)) = b \o (n \o (w \o f))
        PROVE  a = b /\ m = n /\ v = w /\ e = f
    <2>1. a = b /\ m \o (v \o e) = n \o (w \o f)
      BY <1>1, <1>2, <1>9, JoinsAgree, Zenon
    <2>2. SelfDelimiting(m, n)
      BY <1>1, <1>2, SameLength
    <2>3. m = n /\ v \o e = w \o f
      BY <1>1, <1>2, <2>1, <2>2, JoinsAgree, Zenon
    <2>4. v[1] = w[1]
      <3>1. Begins(v, v \o e) /\ Begins(w, w \o f)
        BY <1>3, <1>4, <1>5, ConcatBegins, Zenon
      <3>2. 1 \in 1..Len(v) /\ 1 \in 1..Len(w)
        BY <1>3, <1>4, WireAssumption
      <3>3. (v \o e)[1] = v[1] /\ (w \o f)[1] = w[1]
        BY <3>1, <3>2, Zenon DEF Begins
      <3> QED
        BY <2>3, <3>3, Zenon
    <2>5. Len(v) = Len(w)
      BY <1>3, <1>4, <2>4
    <2>6. SelfDelimiting(v, w)
      BY <1>3, <1>4, <2>5, SameLength
    <2>7. v = w /\ e = f
      BY <1>3, <1>4, <1>5, <2>3, <2>6, JoinsAgree, Zenon
    <2> QED
      BY <2>1, <2>3, <2>7
  <1>10. a = b /\ m = n /\ v = w /\ e = f => a \o (m \o (v \o e)) = b \o (n \o (w \o f))
    OBVIOUS
  <1> QED
    BY <1>1, <1>2, <1>6, <1>7, <1>8, <1>9, <1>10

\* A hexadecimal string spells a natural number.
LEMMA NumberNatural == ASSUME NEW text, IsText(text) PROVE Number(text) \in Nat
  <1>1. 0..(Digit - 1) \subseteq Nat
    BY Bases
  <1>2. text.digits \in Seq(Nat)
    BY <1>1, SeqMonotonic DEF IsText
  <1> QED
    BY <1>2, ValueNatural, Bases DEF Number

\* A component that is accepted is the bytes of the number that is spelt.
LEMMA AcceptedComponent ==
    ASSUME NEW text, IsText(text), decodeSignatureComponent(text) # Failed
    PROVE  /\ decodeSignatureComponent(text) = BigEndian(Scalar, Number(text))
           /\ Number(text) \in Nat /\ Fits(Scalar, Number(text))
  <1> DEFINE b == decodeSignatureComponent(text)
  <1>1. b \in Seq(Bytes) /\ Len(b) = Scalar /\ Value(Byte, b) = Number(text)
    BY ComponentNumber
  <1>2. BigEndian(Len(b), Value(Byte, b)) = b
    BY <1>1, BigEndianOfValue
  <1>3. Number(text) \in Nat
    BY NumberNatural
  <1> HIDE DEF b
  <1>4. BigEndian(Scalar, Number(text)) = b
    BY <1>1, <1>2
  <1> QED
    BY <1>1, <1>3, <1>4 DEF Fits, b

\* A signature that is decoded is the one of the same numbers, with v as it is
\* or with 27 added.
LEMMA SameSignature ==
    ASSUME NEW p, NEW q, Requested(p), Requested(q), Signed(q),
           decodeExchangeSignature(p.r, p.s, p.v) # Failed
    PROVE  decodeExchangeSignature(p.r, p.s, p.v)
                   = BigEndian(Scalar, Number(q.r)) \o BigEndian(Scalar, Number(q.s)) \o <<q.v>>
               <=> /\ Number(p.r) = Number(q.r) /\ Number(p.s) = Number(q.s)
                   /\ p.v % 27 = q.v % 27
  <1> DEFINE a == BigEndian(Scalar, Number(p.r))   b == BigEndian(Scalar, Number(p.s))
             c == BigEndian(Scalar, Number(q.r))   d == BigEndian(Scalar, Number(q.s))
             x == <<p.v % 27>>   y == <<q.v>>
  <1>1. /\ decodeSignatureComponent(p.r) # Failed /\ decodeSignatureComponent(p.s) # Failed
        /\ p.v \in {0, 1, 27, 28}
        /\ decodeExchangeSignature(p.r, p.s, p.v)
               = decodeSignatureComponent(p.r) \o decodeSignatureComponent(p.s) \o x
    BY DEF decodeExchangeSignature
  <1>2. /\ decodeSignatureComponent(p.r) = a /\ decodeSignatureComponent(p.s) = b
        /\ Number(p.r) \in Nat /\ Fits(Scalar, Number(p.r))
        /\ Number(p.s) \in Nat /\ Fits(Scalar, Number(p.s))
    BY <1>1, AcceptedComponent DEF Requested
  <1>3. /\ Number(q.r) \in Nat /\ Fits(Scalar, Number(q.r))
        /\ Number(q.s) \in Nat /\ Fits(Scalar, Number(q.s))
    BY NumberNatural DEF Requested, Signed
  <1>4. Scalar \in Nat
    BY WireAssumption
  <1>5. /\ a \in Seq(Bytes) /\ Len(a) = Scalar /\ b \in Seq(Bytes) /\ Len(b) = Scalar
        /\ c \in Seq(Bytes) /\ Len(c) = Scalar /\ d \in Seq(Bytes) /\ Len(d) = Scalar
    BY <1>2, <1>3, <1>4, BigEndianBytes
  <1>6. (a = c <=> Number(p.r) = Number(q.r)) /\ (b = d <=> Number(p.s) = Number(q.s))
    BY <1>2, <1>3, <1>4, FittingNumbers
  <1>7. p.v % 27 \in {0, 1} /\ q.v \in {0, 1} /\ q.v % 27 = q.v
    BY <1>1 DEF Signed
  <1>8. x \in Seq(Bytes) /\ y \in Seq(Bytes) /\ (x = y <=> p.v % 27 = q.v)
    <2>1. p.v % 27 \in Bytes /\ q.v \in Bytes
      BY <1>7, Digits01
    <2> QED
      BY <2>1
  <1>9. decodeExchangeSignature(p.r, p.s, p.v) = (a \o b) \o x
    BY <1>1, <1>2
  <1> HIDE DEF a, b, c, d, x, y
  <1>10. \A s, t, u \in Seq(Bytes) : (s \o t) \o u = s \o (t \o u)
    BY ConcatAssociative
  <1>11. \A s, t \in Seq(Bytes) : s \o t \in Seq(Bytes)
    BY ConcatProperties, Zenon
  <1>12. (a \o b) \o x = a \o (b \o x) /\ (c \o d) \o y = c \o (d \o y)
    BY <1>5, <1>8, <1>10, Zenon
  <1>13. b \o x \in Seq(Bytes) /\ d \o y \in Seq(Bytes)
    BY <1>5, <1>8, <1>11, Zenon
  <1>14. ASSUME (a \o b) \o x = (c \o d) \o y
         PROVE  a = c /\ b = d /\ x = y
    <2>1. SelfDelimiting(a, c) /\ SelfDelimiting(b, d)
      BY <1>5, SameLength
    <2>2. a \o (b \o x) = c \o (d \o y)
      BY <1>12, <1>14, Zenon
    <2>3. a = c /\ b \o x = d \o y
      BY <1>5, <1>13, <2>1, <2>2, JoinsAgree, Zenon
    <2>4. b = d /\ x = y
      BY <1>5, <1>8, <2>1, <2>3, JoinsAgree, Zenon
    <2> QED
      BY <2>3, <2>4
  <1>15. (a \o b) \o x = (c \o d) \o y <=> a = c /\ b = d /\ x = y
    BY <1>14
  <1> QED
    BY <1>6, <1>7, <1>8, <1>9, <1>15, Zenon DEF c, d, y

\* Only a request that is in order is hashed.
LEMMA Hashed ==
    ASSUME NEW q, Requested(q), NEW data, encodeActionHash(data, q) # Failed
    PROVE  Hashable(q) /\ encodeActionHash(data, q) = Preimage(convertStr16ToStr8(data), q)
  <1>1. /\ ~(q.nonce < 0) /\ ~(HasVault(q) /\ addressToBytes(q.vault) = Failed)
        /\ ~(q.expires # Nil /\ q.expires < 0)
        /\ encodeActionHash(data, q) = Preimage(convertStr16ToStr8(data), q)
    BY Zenon DEF encodeActionHash
  <1>2. q.nonce \in Int /\ (q.expires = Nil \/ q.expires \in Int)
    BY DEF Requested
  <1>3. \A n \in Int : ~(n < 0) => n >= 0
    OBVIOUS
  <1> QED
    BY <1>1, <1>2, <1>3, Zenon DEF Hashable

\* Requests have the same hash exactly when they say the same, up to the
\* signature.
LEMMA SameHash ==
    ASSUME NEW p, NEW q, Hashable(p), Hashable(q),
           SelfDelimiting(ShortForm(p.tokens), ShortForm(q.tokens))
    PROVE  Preimage(ShortForm(p.tokens), p) = Preimage(ShortForm(q.tokens), q)
               <=> /\ ShortForm(p.tokens) = ShortForm(q.tokens)
                   /\ p.nonce = q.nonce /\ p.expires = q.expires
                   /\ VaultNumber(p) = VaultNumber(q)
  <1> DEFINE a == ShortForm(p.tokens)   b == ShortForm(q.tokens)
  <1>1. a \in Seq(Bytes) /\ b \in Seq(Bytes)
    BY ShortFormBytes DEF Hashable, Requested
  <1> HIDE DEF a, b
  <1>2. SelfDelimiting(a, b)
    BY Zenon DEF a, b
  <1>3. Preimage(a, p) = Preimage(b, q)
            <=> /\ a = b /\ p.nonce = q.nonce /\ p.expires = q.expires
                /\ VaultNumber(p) = VaultNumber(q)
    BY <1>1, <1>2, SamePreimage
  <1> QED
    BY <1>3, Zenon DEF a, b

\* Requests mean the same when their fields do.
LEMMA SameMeaning ==
    ASSUME NEW p, NEW q
    PROVE  Meaning(p) = Meaning(q)
               <=> /\ ShortForm(p.tokens) = ShortForm(q.tokens)
                   /\ p.nonce = q.nonce /\ p.expires = q.expires
                   /\ VaultNumber(p) = VaultNumber(q)
                   /\ Number(p.r) = Number(q.r) /\ Number(p.s) = Number(q.s)
                   /\ p.v % 27 = q.v % 27
  BY DEF Meaning, VaultNumber

\* The signer is no stranger.
LEMMA Wallets == "signer" # "stranger"
  OBVIOUS

\* What is recovered, when something is.
LEMMA RecoveredAsMeant ==
    ASSUME NEW q \in Received, recoverWalletFromSignature(q) # "", ~Disguised(q.tokens)
    PROVE  recoverWalletFromSignature(q) = "signer" <=> Meaning(q) = Meaning(q.signed)
  <1> DEFINE c == q.signed
             hash == encodeActionHash(Encode(q.tokens), q)
             signature == decodeExchangeSignature(q.r, q.s, q.v)
             signed == BigEndian(Scalar, Number(c.r)) \o BigEndian(Scalar, Number(c.s)) \o <<c.v>>
             a == ShortForm(q.tokens)   b == ShortForm(c.tokens)
  <1>1. Requested(q) /\ Requested(c) /\ Signed(c) /\ SelfDelimiting(a, b)
    BY ReceivedAssumption, Zenon
  <1>2. /\ hash # Failed /\ signature # Failed
        /\ recoverWalletFromSignature(q)
               = IF hash = Preimage(b, c) /\ signature = signed THEN "signer" ELSE "stranger"
    BY Zenon DEF recoverWalletFromSignature, Recover
  <1>3. q.tokens \in Seq(MsgPack) /\ c.tokens \in Seq(MsgPack)
    BY <1>1, Zenon DEF Requested
  <1>4. Hashable(q) /\ hash = Preimage(a, q)
    <2>1. convertStr16ToStr8(Encode(q.tokens)) = a
      BY <1>3, ConvertedAsParsed, Zenon
    <2> QED
      BY <1>1, <1>2, <2>1, Hashed, Zenon
  <1>5. Hashable(c)
    BY <1>1, Zenon DEF Hashable, Signed
  <1>6. Preimage(a, q) = Preimage(b, c)
            <=> /\ a = b /\ q.nonce = c.nonce /\ q.expires = c.expires
                /\ VaultNumber(q) = VaultNumber(c)
    BY <1>1, <1>4, <1>5, SameHash, Zenon
  <1>7. signature = signed
            <=> /\ Number(q.r) = Number(c.r) /\ Number(q.s) = Number(c.s)
                /\ q.v % 27 = c.v % 27
    BY <1>1, <1>2, SameSignature, Zenon
  <1>8. recoverWalletFromSignature(q) = "signer" <=> hash = Preimage(b, c) /\ signature = signed
    <2> HIDE DEF hash, signature, signed, a, b, c
    <2> QED
      BY <1>2, Wallets, Zenon
  <1>9. Meaning(q) = Meaning(c)
             <=> /\ a = b /\ q.nonce = c.nonce /\ q.expires = c.expires
                 /\ VaultNumber(q) = VaultNumber(c)
                 /\ Number(q.r) = Number(c.r) /\ Number(q.s) = Number(c.s)
                 /\ q.v % 27 = c.v % 27
    BY SameMeaning, Zenon
  <1> HIDE DEF hash, signature, signed, a, b
  <1> QED
    BY <1>4, <1>6, <1>7, <1>8, <1>9, Zenon

-----------------------------------------------------------------------------
(***************************************************************************)
(* The two readings of the action's kind.                                  *)
(***************************************************************************)
\* With a "type" the two readings take it; "bad" and "" are no action types.
LEMMA SameType ==
    ASSUME NEW a, a.key = "type", normalizeActionPayload(a) # Failed, dispatch(a) # "default"
    PROVE  dispatch(a) = KindOf(a)
  <1>1. a.value \in ActionTypes
    <2>1. a.value \notin {"", "bad"}
      BY DEF dispatch, normalizeActionPayload, ActionTypes
    <2> QED
      BY <2>1 DEF normalizeActionPayload
  <1>2. normalizeActionPayload(a) = a.value
    BY <1>1 DEF normalizeActionPayload, ActionTypes
  <1> QED
    BY <1>1, <1>2 DEF dispatch, KindOf, ActionTypes

\* Without one, the first field that is there decides, in the same order.
LEMMA SameShape ==
    ASSUME NEW a, a.key = "none", a.field \in [Fields -> {"absent", "null", "value"}],
           Plain(a), normalizeActionPayload(a) # Failed, dispatch(a) # "default"
    PROVE  dispatch(a) = KindOf(a)
  <1> DEFINE present(f) == a.field[f] = "value"
  <1>1. \A f \in Fields : present(f) <=> a.field[f] # "absent"
    BY DEF Plain
  <1>2. {"orders", "cancels", "modifies", "order"} = Fields
    BY DEF Fields
  <1>3. CASE present("orders")
    <2>1. dispatch(a) = "order"
      BY <1>1, <1>2, <1>3 DEF dispatch
    <2>2. normalizeActionPayload(a) = "order"
      BY <1>3 DEF normalizeActionPayload, ActionTypes, Fields
    <2> QED
      BY <2>1, <2>2 DEF KindOf
  <1>4. CASE ~present("orders") /\ present("cancels")
    <2>1. dispatch(a) = "cancel"
      BY <1>1, <1>2, <1>4 DEF dispatch
    <2>2. normalizeActionPayload(a) \in {"cancel", "cancelByCloid"}
      BY <1>4 DEF normalizeActionPayload, ActionTypes, Fields
    <2> QED
      BY <2>1, <2>2 DEF KindOf
  <1>5. CASE ~present("orders") /\ ~present("cancels") /\ present("modifies")
    <2>1. dispatch(a) = "batchModify"
      BY <1>1, <1>2, <1>5 DEF dispatch
    <2>2. normalizeActionPayload(a) = "batchModify"
      BY <1>5 DEF normalizeActionPayload, ActionTypes, Fields
    <2> QED
      BY <2>1, <2>2 DEF KindOf
  <1>6. CASE ~present("orders") /\ ~present("cancels") /\ ~present("modifies")
    BY <1>1, <1>2, <1>6 DEF dispatch
  <1> QED
    BY <1>3, <1>4, <1>5, <1>6

-----------------------------------------------------------------------------
(***************************************************************************)
(* The invariant, and what follows from it.                                *)
(***************************************************************************)
\* A wallet is the one recovered from the request, from an action whose kind
\* was found, and the handler is chosen afterwards, from the same action.
ReadInv ==
    /\ sent \in Received
    /\ pc \in {"received", "recovered", "done"}
    /\ pc = "received" => wallet = ""
    /\ wallet # "" => /\ wallet = recoverWalletFromSignature(sent)
                      /\ normalizeActionPayload(sent.action) # Failed
    /\ pc = "done" => effect = dispatch(sent.action)

LEMMA Reading == Spec => []ReadInv
  <1>1. Init => ReadInv
    BY DEF Init, ReadInv
  <1>2. ReadInv /\ [Next]_vars => ReadInv'
    <2> SUFFICES ASSUME ReadInv, [Next]_vars PROVE ReadInv'
      OBVIOUS
    <2>1. CASE RecoverWallet
      <3>1. recoverWalletFromSignature(sent) # "" => normalizeActionPayload(sent.action) # Failed
        BY DEF recoverWalletFromSignature
      <3> QED
        BY <2>1, <3>1 DEF RecoverWallet, ReadInv
    <2>2. CASE Dispatch
      BY <2>2 DEF Dispatch, ReadInv
    <2>3. CASE UNCHANGED vars
      BY <2>3 DEF vars, ReadInv
    <2> QED
      BY <2>1, <2>2, <2>3 DEF Next
  <1> QED
    BY <1>1, <1>2, PTL DEF Spec

\* The bytes that are hashed are those of a client whose msgpack has the short
\* form of a string, for every action in which nothing else looks like a header
\* (convertStr16ToStr8).
THEOREM ConvertedExactly == Spec => []ConversionExact
  <1>1. ReadInv => ConversionExact
    <2> SUFFICES ASSUME ReadInv, ~Disguised(sent.tokens)
                 PROVE  convertStr16ToStr8(Encode(sent.tokens)) = ShortForm(sent.tokens)
      BY Zenon DEF ConversionExact
    <2>1. sent.tokens \in Seq(MsgPack)
      BY ReceivedAssumption, Zenon DEF ReadInv, Requested
    <2> QED
      BY <2>1, ConvertedAsParsed, Zenon
  <1> QED
    BY <1>1, Reading, PTL

\* A request is attributed to the wallet that signed it exactly when it says what
\* was signed, however its numbers are spelt, and to another wallet when it does
\* not (recoverWalletFromSignature).
THEOREM SignerRecovered == Spec => []RecoversSigner
  <1>1. ReadInv => RecoversSigner
    <2> SUFFICES ASSUME ReadInv, wallet # "", ~Disguised(sent.tokens)
                 PROVE  wallet = "signer" <=> Meaning(sent) = Meaning(sent.signed)
      BY Zenon DEF RecoversSigner
    <2>1. sent \in Received /\ wallet = recoverWalletFromSignature(sent)
      BY Zenon DEF ReadInv
    <2>2. recoverWalletFromSignature(sent) # ""
      BY <2>1, Zenon
    <2>3. recoverWalletFromSignature(sent) = "signer" <=> Meaning(sent) = Meaning(sent.signed)
      BY <2>1, <2>2, RecoveredAsMeant, Zenon
    <2> QED
      BY <2>1, <2>3, Zenon
  <1> QED
    BY <1>1, Reading, PTL

\* The request that is carried out is of the kind whose signature was checked,
\* for every action that spells "type" so and has no null among its fields
\* (normalizeActionPayload, HandleExchange).
THEOREM ExecutedAsSigned == Spec => []SignedIsExecuted
  <1>1. ReadInv => SignedIsExecuted
    <2> SUFFICES ASSUME ReadInv, pc = "done", wallet # "", effect # "default",
                        Plain(sent.action)
                 PROVE  effect = KindOf(sent.action)
      BY DEF SignedIsExecuted
    <2>1. /\ effect = dispatch(sent.action) /\ normalizeActionPayload(sent.action) # Failed
          /\ sent.action.field \in [Fields -> {"absent", "null", "value"}]
      BY WireAssumption DEF ReadInv
    <2>2. sent.action.key \in {"type", "none"}
      BY DEF Plain
    <2> QED
      BY <2>1, <2>2, SameType, SameShape
  <1> QED
    BY <1>1, Reading, PTL
=============================================================================
